---------------------------- MODULE ArraysProofs ----------------------------
(***************************************************************************)
(* Theorems about module Arrays, for every set of items and every bound.   *)
(***************************************************************************)
EXTENDS Arrays, TLAPS

ItemsOrZero == Items \cup {Zero}

Heaps == Seq(Seq(ItemsOrZero))

\* Window a lies inside its block of heap h.
Fits(h, a) == /\ a \in ArrayType
              /\ a.block \in DOMAIN h
              /\ a.len <= a.size
              /\ a.off + a.size <= Len(h[a.block])

\* Replacing an item of a block.
LEMMA ReplaceItem ==
    ASSUME NEW s \in Seq(ItemsOrZero), NEW i, NEW x \in ItemsOrZero
    PROVE  /\ [s EXCEPT ![i] = x] \in Seq(ItemsOrZero)
           /\ Len([s EXCEPT ![i] = x]) = Len(s)
<1> DEFINE n == Len(s)
<1>1. n \in Nat /\ s \in [1 .. n -> ItemsOrZero]
  OBVIOUS
<1>2. [s EXCEPT ![i] = x] \in [1 .. n -> ItemsOrZero]
  BY <1>1, Zenon
<1>3. QED
  BY <1>1, <1>2

-----------------------------------------------------------------------------
(* The operators of ArrayHeap.                                             *)

LEMMA GrownCapacityLarge ==
    ASSUME NEW n \in Nat
    PROVE  GrownCapacity(n) \in Nat /\ GrownCapacity(n) >= n + 1
<1> DEFINE a == n + n \div 2
<1>1. a \in Nat
  OBVIOUS
<1> HIDE DEF a
<1>2. \E m \in {a, 2, n + 1} : \A y \in {a, 2, n + 1} : m >= y
  <2>1. CASE a >= n + 1 /\ a >= 2
    BY <2>1, <1>1
  <2>2. CASE a >= n + 1 /\ ~(a >= 2)
    BY <2>2, <1>1
  <2>3. CASE ~(a >= n + 1) /\ n + 1 >= 2
    BY <2>3, <1>1
  <2>4. CASE ~(a >= n + 1) /\ ~(n + 1 >= 2)
    BY <2>4, <1>1
  <2>5. QED
    BY <2>1, <2>2, <2>3, <2>4
<1>3. GrownCapacity(n) = Max({a, 2, n + 1})
  BY DEF GrownCapacity, a
<1> DEFINE m == Max({a, 2, n + 1})
<1>4. m \in {a, 2, n + 1} /\ \A y \in {a, 2, n + 1} : m >= y
  BY <1>2 DEF Max
<1>5. QED
  BY <1>1, <1>3, <1>4

\* An append leaves a heap and returns a window inside it.
LEMMA AppendTyping ==
    ASSUME NEW h \in Heaps, NEW a, Fits(h, a), NEW x \in ItemsOrZero
    PROVE  /\ AppendHeap(h, a, x) \in Heaps
           /\ Fits(AppendHeap(h, a, x), AppendValue(h, a))
           /\ DOMAIN h \subseteq DOMAIN AppendHeap(h, a, x)
           /\ \A b \in DOMAIN h : Len(AppendHeap(h, a, x)[b]) = Len(h[b])
<1> USE DEF Heaps, Fits, ArrayType, HasRoom
<1>1. CASE HasRoom(a)
  <2> DEFINE p == a.off + a.len + 1
             old == h[a.block]
             new == [old EXCEPT ![p] = x]
  <2>1. AppendHeap(h, a, x) = [h EXCEPT ![a.block] = new]
    BY <1>1 DEF AppendHeap
  <2>0. old \in Seq(ItemsOrZero) /\ a.block \in 1 .. Len(h)
    OBVIOUS
  <2>2. new \in Seq(ItemsOrZero) /\ Len(new) = Len(old)
    <3>1. ASSUME NEW s \in Seq(ItemsOrZero), NEW q
          PROVE  /\ [s EXCEPT ![q] = x] \in Seq(ItemsOrZero)
                 /\ Len([s EXCEPT ![q] = x]) = Len(s)
      BY ReplaceItem
    <3> HIDE DEF old, p
    <3>2. QED
      BY <2>0, <3>1 DEF new
  <2>3. AppendValue(h, a) = [a EXCEPT !.len = @ + 1]
    BY <1>1 DEF AppendValue
  <2>4. AppendValue(h, a) \in ArrayType
    <3>1. a.len + 1 \in Nat
      OBVIOUS
    <3>2. AppendValue(h, a) = [block |-> a.block, off |-> a.off,
                               size |-> a.size, len |-> a.len + 1]
      BY <2>3
    <3>3. QED
      BY <3>1, <3>2
  <2> DEFINE h2 == [h EXCEPT ![a.block] = new]
  <2>5. h2 \in Heaps /\ Len(h2) = Len(h)
    BY <2>2 DEF Heaps
  <2>6. \A b \in DOMAIN h : Len(h2[b]) = Len(h[b])
    BY <2>0, <2>2
  <2>7. DOMAIN h2 = DOMAIN h
    BY <2>5
  <2>8. Fits(h2, AppendValue(h, a))
    <3>1. AppendValue(h, a).block = a.block /\ AppendValue(h, a).off = a.off
          /\ AppendValue(h, a).size = a.size /\ AppendValue(h, a).len = a.len + 1
      BY <2>3
    <3> HIDE DEF new, h2
    <3>2. QED
      BY <1>1, <2>4, <2>6, <2>7, <3>1
  <2> HIDE DEF new, h2
  <2>9. QED
    BY <2>1, <2>5, <2>6, <2>7, <2>8 DEF h2
<1>2. CASE ~HasRoom(a)
  <2> DEFINE cap == GrownCapacity(a.len)
             new == [Grown(h, a, cap) EXCEPT ![a.len + 1] = x]
  <2>1. cap \in Nat /\ cap >= a.len + 1
    BY GrownCapacityLarge
  <2>2. AppendHeap(h, a, x) = Append(h, new)
    BY <1>2 DEF AppendHeap
  <2>3. AppendValue(h, a) = Whole(Len(h) + 1, cap, a.len + 1)
    BY <1>2 DEF AppendValue
  <2> HIDE DEF cap
  <2>4. h[a.block] \in Seq(ItemsOrZero)
    OBVIOUS
  <2>5. \A i \in 1 .. cap : Grown(h, a, cap)[i] \in ItemsOrZero
    BY <2>1, <2>4 DEF Grown, ItemsOrZero
  <2>6. Grown(h, a, cap) \in [1 .. cap -> ItemsOrZero]
    BY <2>5 DEF Grown
  <2>7. new \in Seq(ItemsOrZero) /\ Len(new) = cap
    BY <2>1, <2>6
  <2> DEFINE h2 == Append(h, new)
             k == Len(h) + 1
  <2> HIDE DEF new
  <2>8. Len(h) \in Nat /\ DOMAIN h = 1 .. Len(h)
    OBVIOUS
  <2>9. h2 \in Heaps /\ DOMAIN h2 = 1 .. k /\ h2[k] = new
    BY <2>7, <2>8
  <2>10. \A b \in DOMAIN h : h2[b] = h[b]
    BY <2>7, <2>8
  <2>11. AppendHeap(h, a, x) = h2
    BY <2>2
  <2> HIDE DEF h2
  <2>12. AppendValue(h, a) = [block |-> k, off |-> 0, size |-> cap, len |-> a.len + 1]
    BY <2>3 DEF Whole
  <2>13. Fits(h2, AppendValue(h, a))
    BY <2>1, <2>7, <2>8, <2>9, <2>12
  <2>14. DOMAIN h \subseteq DOMAIN h2
    BY <2>8, <2>9
  <2>15. QED
    BY <2>9, <2>10, <2>13, <2>14, <2>11
<1>3. QED
  BY <1>1, <1>2

\* A window whose items are all in Items is a sequence of them.
LEMMA ContentsLength ==
    ASSUME NEW h, NEW a \in ArrayType
    PROVE  DOMAIN Contents(h, a) = 1 .. a.len
BY DEF Contents, ArrayType

\* A new block changes no array.
LEMMA NewBlockKeeps ==
    ASSUME NEW h \in Heaps, NEW block, NEW b, Fits(h, b)
    PROVE  Contents(Append(h, block), b) = Contents(h, b)
<1>1. Append(h, block)[b.block] = h[b.block]
  BY DEF Heaps, Fits, ArrayType
<1>2. QED
  BY <1>1 DEF Contents

\* An append in place changes no array that ends where its argument ends, or
\* earlier, or is in another block.
LEMMA AppendKeeps ==
    ASSUME NEW h \in Heaps, NEW a, Fits(h, a), NEW x,
           NEW b, Fits(h, b),
           HasRoom(a) /\ b.block = a.block => b.off + b.len <= a.off + a.len
    PROVE  Contents(AppendHeap(h, a, x), b) = Contents(h, b)
<1>1. CASE ~HasRoom(a)
  BY <1>1, NewBlockKeeps DEF AppendHeap
<1>2. CASE HasRoom(a)
  <2>1. AppendHeap(h, a, x) = [h EXCEPT ![a.block][a.off + a.len + 1] = x]
    BY <1>2 DEF AppendHeap
  <2>2. ASSUME NEW i \in 1 .. b.len
        PROVE  AppendHeap(h, a, x)[b.block][b.off + i] = h[b.block][b.off + i]
    <3>1. /\ a.off \in Nat /\ a.len \in Nat /\ b.off \in Nat /\ b.len \in Nat
          /\ a.block \in DOMAIN h /\ b.block \in DOMAIN h
      BY DEF Fits, ArrayType
    <3>2. CASE b.block = a.block
      <4>1. b.off + i # a.off + a.len + 1
        BY <1>2, <3>1, <3>2
      <4>2. AppendHeap(h, a, x)[b.block]
                = [h[a.block] EXCEPT ![a.off + a.len + 1] = x]
        BY <2>1, <3>1, <3>2
      <4>3. h[a.block] \in Seq(ItemsOrZero) /\ b.off + i \in DOMAIN h[a.block]
        BY <3>1, <3>2 DEF Heaps, Fits, ArrayType
      <4>4. QED
        BY <3>2, <4>1, <4>2, <4>3
    <3>3. CASE b.block # a.block
      BY <2>1, <3>1, <3>3
    <3>4. QED
      BY <3>2, <3>3
  <2>3. QED
    BY <2>2 DEF Contents
<1>3. QED
  BY <1>1, <1>2

\* The items of a window are items of its block.
LEMMA ContentsTyping ==
    ASSUME NEW h \in Heaps, NEW a, Fits(h, a)
    PROVE  /\ Contents(h, a) \in Seq(ItemsOrZero)
           /\ Len(Contents(h, a)) = a.len
<1>1. a.off \in Nat /\ a.len \in Nat /\ a.size \in Nat /\ a.block \in DOMAIN h
  BY DEF Fits, ArrayType
<1>2. h[a.block] \in Seq(ItemsOrZero)
  BY <1>1 DEF Heaps
<1>3. ASSUME NEW i \in 1 .. a.len PROVE h[a.block][a.off + i] \in ItemsOrZero
  <2>1. a.off + i \in 1 .. Len(h[a.block])
    BY <1>1, <1>2 DEF Fits
  <2>2. QED
    BY <1>2, <2>1
<1>4. QED
  BY <1>1, <1>3 DEF Contents

\* An append returns the items of its argument and one more.
LEMMA AppendResult ==
    ASSUME NEW h \in Heaps, NEW a, Fits(h, a), NEW x \in ItemsOrZero
    PROVE  Contents(AppendHeap(h, a, x), AppendValue(h, a)) = Append(Contents(h, a), x)
<1> DEFINE h2 == AppendHeap(h, a, x)
           b == AppendValue(h, a)
<1>1. /\ a.off \in Nat /\ a.len \in Nat /\ a.size \in Nat /\ a.block \in DOMAIN h
      /\ h[a.block] \in Seq(ItemsOrZero)
  BY DEF Fits, ArrayType, Heaps
<1>2. b.len = a.len + 1
  BY DEF AppendValue, Whole, Fits, ArrayType
<1>3. \A i \in 1 .. a.len : h2[b.block][b.off + i] = h[a.block][a.off + i]
  <2>1. CASE HasRoom(a)
    <3>1. b.block = a.block /\ b.off = a.off
      BY <2>1 DEF AppendValue, Fits, ArrayType
    <3>2. h2[a.block] = [h[a.block] EXCEPT ![a.off + a.len + 1] = x]
      BY <2>1, <1>1 DEF AppendHeap
    <3>3. \A i \in 1 .. a.len : a.off + i \in DOMAIN h[a.block] /\ a.off + i # a.off + a.len + 1
      BY <1>1 DEF Fits
    <3>4. QED
      BY <3>1, <3>2, <3>3, <1>1
  <2>2. CASE ~HasRoom(a)
    <3> DEFINE cap == GrownCapacity(a.len)
    <3>1. cap \in Nat /\ cap >= a.len + 1
      BY <1>1, GrownCapacityLarge
    <3>2. b.block = Len(h) + 1 /\ b.off = 0
      BY <2>2 DEF AppendValue, Whole
    <3>3. h2[Len(h) + 1] = [Grown(h, a, cap) EXCEPT ![a.len + 1] = x]
      BY <2>2 DEF AppendHeap, Heaps
    <3> HIDE DEF cap, h2, b
    <3>4. ASSUME NEW i \in 1 .. a.len
          PROVE  h2[b.block][b.off + i] = h[a.block][a.off + i]
      <4>1. i \in 1 .. cap /\ i # a.len + 1 /\ i <= a.len /\ 0 + i = i
        BY <1>1, <3>1
      <4>2. Grown(h, a, cap)[i] = h[a.block][a.off + i]
        BY <4>1 DEF Grown
      <4>3. DOMAIN Grown(h, a, cap) = 1 .. cap
        BY DEF Grown
      <4>4. QED
        BY <3>2, <3>3, <4>1, <4>2, <4>3
    <3>5. QED
      BY <3>4
  <2>3. QED
    BY <2>1, <2>2
<1>4. h2[b.block][b.off + (a.len + 1)] = x
  <2>1. CASE HasRoom(a)
    <3>1. b.block = a.block /\ b.off = a.off
      BY <2>1 DEF AppendValue, Fits, ArrayType
    <3>2. h2[a.block] = [h[a.block] EXCEPT ![a.off + a.len + 1] = x]
      BY <2>1, <1>1 DEF AppendHeap
    <3>3. a.off + a.len + 1 \in DOMAIN h[a.block]
      BY <2>1, <1>1 DEF Fits, HasRoom
    <3>4. a.off + (a.len + 1) = a.off + a.len + 1
      BY <1>1
    <3> HIDE DEF h2, b
    <3>5. QED
      BY <3>1, <3>2, <3>3, <3>4
  <2>2. CASE ~HasRoom(a)
    <3> DEFINE cap == GrownCapacity(a.len)
    <3>1. cap \in Nat /\ cap >= a.len + 1
      BY <1>1, GrownCapacityLarge
    <3>2. b.block = Len(h) + 1 /\ b.off = 0
      BY <2>2 DEF AppendValue, Whole
    <3>3. h2[Len(h) + 1] = [Grown(h, a, cap) EXCEPT ![a.len + 1] = x]
      BY <2>2 DEF AppendHeap, Heaps
    <3> HIDE DEF cap, h2, b
    <3>4. a.len + 1 \in DOMAIN Grown(h, a, cap) /\ 0 + (a.len + 1) = a.len + 1
      BY <1>1, <3>1 DEF Grown
    <3>5. QED
      BY <3>2, <3>3, <3>4
  <2>3. QED
    BY <2>1, <2>2
<1> HIDE DEF h2, b
<1>5. Contents(h2, b) = [i \in 1 .. a.len + 1 |->
                            IF i <= a.len THEN h[a.block][a.off + i] ELSE x]
  <2>1. \A i \in 1 .. a.len + 1 : i <= a.len \/ i = a.len + 1
    BY <1>1
  <2>2. \A i \in 1 .. a.len + 1 : h2[b.block][b.off + i]
            = IF i <= a.len THEN h[a.block][a.off + i] ELSE x
    BY <1>1, <1>3, <1>4, <2>1
  <2>3. QED
    BY <1>2, <2>2 DEF Contents
<1>6. Contents(h, a) = [i \in 1 .. a.len |-> h[a.block][a.off + i]]
  BY DEF Contents
<1>7. Contents(h, a) \in Seq(ItemsOrZero) /\ Len(Contents(h, a)) = a.len
  BY ContentsTyping
<1>8. Append(Contents(h, a), x) = [i \in 1 .. a.len + 1 |->
                            IF i <= a.len THEN h[a.block][a.off + i] ELSE x]
  <2>1. Append(Contents(h, a), x) = [i \in 1 .. a.len + 1 |->
                            IF i <= a.len THEN Contents(h, a)[i] ELSE x]
    <3> DEFINE c == Contents(h, a)
    <3>1. c \in Seq(ItemsOrZero) /\ Len(c) = a.len /\ a.len \in Nat
      BY <1>1, <1>7
    <3> HIDE DEF c
    <3> DEFINE d == Append(c, x)
    <3>2. \A i \in 1 .. a.len + 1 : d[i] = IF i <= a.len THEN c[i] ELSE x
      BY <3>1
    <3>3. d \in Seq(ItemsOrZero) /\ Len(d) = a.len + 1
      BY <3>1 DEF ItemsOrZero
    <3> HIDE DEF d
    <3>4. d = [i \in 1 .. a.len + 1 |-> d[i]]
      BY <3>3
    <3>5. d = [i \in 1 .. a.len + 1 |-> IF i <= a.len THEN c[i] ELSE x]
      BY <3>2, <3>4
    <3>6. QED
      BY <3>5 DEF c, d
  <2>2. \A i \in 1 .. a.len : Contents(h, a)[i] = h[a.block][a.off + i]
    BY <1>6
  <2>3. QED
    BY <1>1, <2>1, <2>2
<1>9. QED
  BY <1>5, <1>8 DEF h2, b

\* A literal has the items it is written with.
LEMMA NewResult ==
    ASSUME NEW h \in Heaps, NEW items \in Seq(Items)
    PROVE  /\ NewHeap(h, items) \in Heaps
           /\ Fits(NewHeap(h, items), NewValue(h, items))
           /\ Contents(NewHeap(h, items), NewValue(h, items)) = items
<1> DEFINE n == Len(h) + 1
           new == NewHeap(h, items)
           b == NewValue(h, items)
<1>1. items \in Seq(ItemsOrZero)
  BY DEF ItemsOrZero
<1>2. new \in Heaps /\ n \in DOMAIN new /\ new[n] = items
  BY <1>1 DEF Heaps, NewHeap
<1>3. b = [block |-> n, off |-> 0, size |-> Len(items), len |-> Len(items)]
  BY DEF NewValue, Whole
<1>4. n \in Nat /\ Len(items) \in Nat
  BY DEF Heaps
<1> HIDE DEF n, new, b
<1>5. Fits(new, b)
  BY <1>2, <1>3, <1>4 DEF Fits, ArrayType
<1>6. Contents(new, b) = [i \in 1 .. Len(items) |-> items[0 + i]]
  BY <1>2, <1>3 DEF Contents
<1>7. items = [i \in 1 .. Len(items) |-> items[0 + i]]
  OBVIOUS
<1>8. QED
  BY <1>2, <1>5, <1>6, <1>7 DEF new, b

\* assoc returns the items of its argument, one of them replaced.
LEMMA AssocResult ==
    ASSUME NEW h \in Heaps, NEW a, Fits(h, a), NEW x \in Items, NEW k \in 1 .. a.len
    PROVE  /\ AssocHeap(h, a, k, x) \in Heaps
           /\ Fits(AssocHeap(h, a, k, x), AssocValue(h, a))
           /\ Contents(AssocHeap(h, a, k, x), AssocValue(h, a))
                = [Contents(h, a) EXCEPT ![k] = x]
<1> DEFINE n == Len(h) + 1
           block == [i \in 1 .. a.size |-> IF i = k THEN x ELSE h[a.block][a.off + i]]
           new == AssocHeap(h, a, k, x)
           b == AssocValue(h, a)
<1>1. /\ a.off \in Nat /\ a.len \in Nat /\ a.size \in Nat /\ a.block \in DOMAIN h
      /\ h[a.block] \in Seq(ItemsOrZero) /\ a.len <= a.size
      /\ a.off + a.size <= Len(h[a.block])
  BY DEF Fits, ArrayType, Heaps
<1>2. ASSUME NEW i \in 1 .. a.size PROVE block[i] \in ItemsOrZero
  <2>1. a.off + i \in 1 .. Len(h[a.block])
    BY <1>1
  <2>2. QED
    BY <1>1, <2>1 DEF ItemsOrZero
<1>3. block \in Seq(ItemsOrZero) /\ Len(block) = a.size
  <2>1. block = [i \in 1 .. a.size |-> block[i]]
    OBVIOUS
  <2> HIDE DEF block
  <2>2. block \in [1 .. a.size -> ItemsOrZero]
    BY <1>2, <2>1
  <2>3. QED
    BY <1>1, <2>2
<1>4. new = Append(h, block)
  BY DEF AssocHeap
<1> HIDE DEF block
<1>5. new \in Heaps /\ n \in DOMAIN new /\ new[n] = block
  BY <1>3, <1>4 DEF Heaps
<1>6. b = [block |-> n, off |-> 0, size |-> a.size, len |-> a.len]
  BY DEF AssocValue, Whole
<1>7. n \in Nat
  BY DEF Heaps
<1> HIDE DEF n, new, b
<1>8. Fits(new, b)
  BY <1>1, <1>3, <1>5, <1>6, <1>7 DEF Fits, ArrayType
<1>9. Contents(new, b) = [i \in 1 .. a.len |-> block[0 + i]]
  BY <1>5, <1>6 DEF Contents
<1>10. \A i \in 1 .. a.len : block[0 + i] = IF i = k THEN x ELSE h[a.block][a.off + i]
  BY <1>1 DEF block
<1>11. [Contents(h, a) EXCEPT ![k] = x]
          = [i \in 1 .. a.len |-> IF i = k THEN x ELSE h[a.block][a.off + i]]
  BY DEF Contents
<1>12. QED
  BY <1>5, <1>8, <1>9, <1>10, <1>11 DEF new, b

\* rest returns the items of its argument without the first.
LEMMA RestResult ==
    ASSUME NEW h \in Heaps, NEW a, Fits(h, a)
    PROVE  /\ Fits(h, RestValue(a))
           /\ RestValue(a).block = a.block
           /\ RestValue(a).off + RestValue(a).len = a.off + a.len
           /\ ~HasRoom(RestValue(a))
           /\ Contents(h, RestValue(a)) = [k \in 1 .. a.len - 1 |-> Contents(h, a)[k + 1]]
<1> DEFINE b == RestValue(a)
<1>1. /\ a.off \in Nat /\ a.len \in Nat /\ a.size \in Nat /\ a.block \in DOMAIN h
      /\ a.block \in Nat /\ a.len <= a.size /\ a.off + a.size <= Len(h[a.block])
  BY DEF Fits, ArrayType
<1>2. h[a.block] \in Seq(ItemsOrZero)
  BY <1>1 DEF Heaps
<1>3. CASE a.len = 0
  <2>1. b = [block |-> a.block, off |-> a.off, size |-> 0, len |-> 0]
    BY <1>3 DEF RestValue, Fits, ArrayType
  <2> HIDE DEF b
  <2>2. Fits(h, b)
    BY <1>1, <1>2, <2>1 DEF Fits, ArrayType
  <2>3. Contents(h, b) = [k \in 1 .. a.len - 1 |-> Contents(h, a)[k + 1]]
    BY <1>3, <2>1 DEF Contents
  <2>4. QED
    BY <1>3, <2>1, <2>2, <2>3 DEF b, HasRoom
<1>4. CASE a.len # 0
  <2>1. b = [block |-> a.block, off |-> a.off + 1, size |-> a.len - 1, len |-> a.len - 1]
    BY <1>4 DEF RestValue, Fits, ArrayType
  <2> HIDE DEF b
  <2>2. Fits(h, b)
    BY <1>1, <1>2, <1>4, <2>1 DEF Fits, ArrayType
  <2>3. Contents(h, b) = [k \in 1 .. a.len - 1 |-> h[a.block][(a.off + 1) + k]]
    BY <2>1 DEF Contents
  <2>4. ASSUME NEW k \in 1 .. a.len - 1
        PROVE  Contents(h, a)[k + 1] = h[a.block][(a.off + 1) + k]
    <3>1. k + 1 \in 1 .. a.len /\ a.off + (k + 1) = (a.off + 1) + k
      BY <1>1
    <3>2. Contents(h, a)[k + 1] = h[a.block][a.off + (k + 1)]
      BY <3>1 DEF Contents
    <3>3. QED
      BY <3>1, <3>2
  <2>5. Contents(h, b) = [k \in 1 .. a.len - 1 |-> Contents(h, a)[k + 1]]
    BY <2>3, <2>4
  <2>6. b.block = a.block /\ b.off + b.len = a.off + a.len /\ ~(b.len < b.size)
    BY <1>1, <2>1
  <2>7. QED
    BY <2>2, <2>5, <2>6 DEF b, HasRoom
<1>5. QED
  BY <1>3, <1>4

-----------------------------------------------------------------------------
(* The inductive invariant.                                                *)

End(a) == a.off + a.len

SameBlock(i, j) == arrays[i].block = arrays[j].block

\* The next append to array i would write into its block.
Open(i) == HasRoom(arrays[i]) /\ i \notin extended

\* Every array keeps inside its block and has only items in it.
AllFit == \A i \in DOMAIN arrays : Fits(heap, arrays[i])

ItemsOnly == \A i \in DOMAIN arrays : Contents(heap, arrays[i]) \in Seq(Items)

\* While no array has been extended twice, a block has at most one array that
\* an append may still extend in place, and no array reaches further.
Frontier ==
    ~reused => \A i, j \in DOMAIN arrays :
        Open(i) /\ SameBlock(i, j) =>
            /\ End(arrays[j]) <= End(arrays[i])
            /\ Open(j) => i = j

\* The first array of a block ends before every array of it with room.
FirstEnds ==
    \A i, j \in DOMAIN arrays :
        First(i) /\ SameBlock(i, j) /\ HasRoom(arrays[j]) =>
            End(arrays[i]) <= End(arrays[j])

Types == /\ heap \in Heaps
         /\ arrays \in Seq(ArrayType)
         /\ made \in Seq(Seq(Items))
         /\ Len(made) = Len(arrays)
         /\ extended \subseteq DOMAIN arrays
         /\ reused \in BOOLEAN

IInv == /\ Types
        /\ AllFit
        /\ ItemsOnly
        /\ Frontier
        /\ FirstEnds
        /\ ImmutableIfNotReused
        /\ FirstsIntact

LEMMA TypesOfIInv == IInv => TypeOK
BY DEF IInv, Types, AllFit, Fits, TypeOK, WellFormed, Heaps, ItemsOrZero

\* Arrays that were there keep their places when one is added.
LEMMA OneMore ==
    ASSUME Types, NEW a, NEW items, a \in ArrayType, items \in Seq(Items),
           arrays' = Append(arrays, a), made' = Append(made, items)
    PROVE  /\ arrays' \in Seq(ArrayType) /\ made' \in Seq(Seq(Items))
           /\ Len(made') = Len(arrays')
           /\ DOMAIN arrays' = DOMAIN arrays \cup {Len(arrays) + 1}
           /\ Len(arrays) + 1 \notin DOMAIN arrays
           /\ \A j \in DOMAIN arrays : arrays'[j] = arrays[j] /\ made'[j] = made[j]
           /\ arrays'[Len(arrays) + 1] = a /\ made'[Len(arrays) + 1] = items
           /\ \A j \in DOMAIN arrays : j <= Len(arrays) + 1 /\ ~(Len(arrays) + 1 <= j)
BY DEF Types

\* An array made in a block of its own.
LEMMA NewBlockStep ==
    ASSUME IInv, NEW a, NEW items \in Seq(Items), NEW block,
           heap' = Append(heap, block), heap' \in Heaps,
           Fits(heap', a), a.block = Len(heap) + 1, Contents(heap', a) = items,
           arrays' = Append(arrays, a), made' = Append(made, items),
           extended \subseteq extended', extended' \subseteq DOMAIN arrays,
           reused' \in BOOLEAN, reused => reused'
    PROVE  IInv'
<1>0. PICK n : n = Len(arrays) + 1
  OBVIOUS
<1>1. a \in ArrayType
  BY DEF Fits
<1>2. /\ arrays' \in Seq(ArrayType) /\ made' \in Seq(Seq(Items))
      /\ Len(made') = Len(arrays')
      /\ DOMAIN arrays' = DOMAIN arrays \cup {n}
      /\ n \notin DOMAIN arrays
      /\ \A j \in DOMAIN arrays : arrays'[j] = arrays[j] /\ made'[j] = made[j]
      /\ arrays'[n] = a /\ made'[n] = items
      /\ \A j \in DOMAIN arrays : j <= n /\ ~(n <= j)
  BY <1>0, <1>1, OneMore DEF IInv
<1>3. Types'
  BY <1>2 DEF IInv, Types
<1>4. ASSUME NEW j \in DOMAIN arrays
      PROVE  /\ Fits(heap', arrays[j])
             /\ Contents(heap', arrays[j]) = Contents(heap, arrays[j])
             /\ arrays[j].block # a.block
  <2>1. Fits(heap, arrays[j]) /\ heap \in Heaps
    BY DEF IInv, AllFit, Types
  <2>2. arrays[j].block \in 1 .. Len(heap)
    BY <2>1 DEF Fits, Heaps
  <2>3. heap'[arrays[j].block] = heap[arrays[j].block] /\ DOMAIN heap \subseteq DOMAIN heap'
    BY <2>1, <2>2 DEF Heaps
  <2>4. Fits(heap', arrays[j])
    BY <2>1, <2>2, <2>3 DEF Fits
  <2>5. Contents(heap', arrays[j]) = Contents(heap, arrays[j])
    BY <2>3 DEF Contents
  <2>6. arrays[j].block # a.block
    BY <2>1, <2>2 DEF Heaps
  <2>7. QED
    BY <2>4, <2>5, <2>6
<1>5. AllFit' /\ ItemsOnly'
  BY <1>2, <1>4 DEF IInv, AllFit, ItemsOnly
<1>6. \A i, j \in DOMAIN arrays' :
          SameBlock(i, j)' => (i = n /\ j = n) \/ (i \in DOMAIN arrays /\ j \in DOMAIN arrays /\ SameBlock(i, j))
  BY <1>2, <1>4 DEF SameBlock
<1>7. \A i \in DOMAIN arrays : (Open(i)' => Open(i)) /\ (HasRoom(arrays[i])' => HasRoom(arrays[i]))
  BY <1>2 DEF Open
<1>8. End(a) <= End(a)
  BY <1>1 DEF End, ArrayType
<1>9. Frontier'
  BY <1>2, <1>6, <1>7, <1>8 DEF IInv, Frontier, Open, End
<1>10. \A i \in DOMAIN arrays : First(i)' => First(i)
  BY <1>2 DEF First
<1>11. FirstEnds'
  BY <1>2, <1>6, <1>7, <1>8, <1>10 DEF IInv, FirstEnds, End
<1>12. Intact(n)' /\ \A i \in DOMAIN arrays : Intact(i) => Intact(i)'
  <2>1. \A i : Intact(i)' <=> (Contents(heap', arrays'[i]) = made'[i])
    BY DEF Intact
  <2>2. QED
    BY <1>2, <1>4, <2>1 DEF Intact
<1>13. \A i \in DOMAIN arrays' : i = n \/ i \in DOMAIN arrays
  BY <1>2
<1>14. ImmutableIfNotReused' /\ FirstsIntact'
  <2>1. ImmutableIfNotReused'
    BY <1>12, <1>13 DEF IInv, ImmutableIfNotReused
  <2>2. FirstsIntact'
    BY <1>10, <1>12, <1>13 DEF IInv, FirstsIntact
  <2>3. QED
    BY <2>1, <2>2
<1>15. QED
  BY <1>3, <1>5, <1>9, <1>11, <1>14 DEF IInv

\* A rest looks into the block of its argument and ends where that ends.
LEMMA RestStep ==
    ASSUME IInv, NEW i \in DOMAIN arrays, Rest(i)
    PROVE  IInv'
<1> DEFINE a == RestValue(arrays[i])
           items == [k \in 1 .. arrays[i].len - 1 |-> Contents(heap, arrays[i])[k + 1]]
<1>0. PICK n : n = Len(arrays) + 1
  OBVIOUS
<1>1. /\ heap' = heap /\ extended' = extended /\ reused' = reused
      /\ arrays' = Append(arrays, a) /\ made' = Append(made, items)
  BY DEF Rest, Got
<1>2. heap \in Heaps /\ Fits(heap, arrays[i])
  BY DEF IInv, Types, AllFit
<1>3. /\ Fits(heap, a) /\ a.block = arrays[i].block
      /\ a.off + a.len = arrays[i].off + arrays[i].len
      /\ ~HasRoom(a) /\ Contents(heap, a) = items
  BY <1>2, RestResult
<1>4. items \in Seq(Items)
  <2> DEFINE c == Contents(heap, arrays[i])
  <2>1. c \in Seq(Items) /\ Len(c) = arrays[i].len /\ arrays[i].len \in Nat
    BY <1>2, ContentsTyping DEF IInv, ItemsOnly, Fits, ArrayType
  <2> HIDE DEF c
  <2>2. \A k \in 1 .. arrays[i].len - 1 : c[k + 1] \in Items
    BY <2>1
  <2>3. CASE arrays[i].len = 0
    BY <2>3
  <2>4. CASE arrays[i].len # 0
    <3> DEFINE m == arrays[i].len - 1
    <3>1. m \in Nat
      BY <2>1, <2>4
    <3> HIDE DEF m
    <3>2. [k \in 1 .. m |-> c[k + 1]] \in Seq(Items)
      BY <2>2, <3>1 DEF m
    <3>3. QED
      BY <3>2 DEF m, c
  <2>5. QED
    BY <2>3, <2>4
<1> HIDE DEF a, items
<1>5. a \in ArrayType
  BY <1>3 DEF Fits
<1>6. /\ arrays' \in Seq(ArrayType) /\ made' \in Seq(Seq(Items))
      /\ Len(made') = Len(arrays')
      /\ DOMAIN arrays' = DOMAIN arrays \cup {n}
      /\ n \notin DOMAIN arrays
      /\ \A j \in DOMAIN arrays : arrays'[j] = arrays[j] /\ made'[j] = made[j]
      /\ arrays'[n] = a /\ made'[n] = items
      /\ \A j \in DOMAIN arrays : j <= n /\ ~(n <= j)
  BY <1>0, <1>1, <1>4, <1>5, OneMore DEF IInv
<1>7. Types'
  BY <1>1, <1>6 DEF IInv, Types
<1>8. AllFit' /\ ItemsOnly'
  BY <1>1, <1>3, <1>4, <1>6 DEF IInv, AllFit, ItemsOnly
<1>9. \A j \in DOMAIN arrays' : j = n \/ j \in DOMAIN arrays
  BY <1>6
<1>10. \A j : (Open(j)' <=> HasRoom(arrays'[j]) /\ j \notin extended)
  BY <1>1 DEF Open
<1>11. \A j \in DOMAIN arrays' : Open(j)' => j \in DOMAIN arrays /\ Open(j)
  BY <1>3, <1>6, <1>9, <1>10 DEF Open
<1>12. End(a) = End(arrays[i])
  BY <1>3 DEF End
<1>13. Frontier'
  <2> SUFFICES ASSUME ~reused', NEW j \in DOMAIN arrays', NEW k \in DOMAIN arrays',
                      Open(j)', SameBlock(j, k)'
               PROVE  End(arrays[k])' <= End(arrays[j])' /\ (Open(k)' => j = k)
    BY DEF Frontier
  <2>1. j \in DOMAIN arrays /\ Open(j) /\ arrays'[j] = arrays[j]
    BY <1>6, <1>11
  <2>2. CASE k \in DOMAIN arrays
    <3>1. SameBlock(j, k)
      BY <1>6, <2>1, <2>2 DEF SameBlock
    <3>2. QED
      BY <1>1, <1>6, <1>11, <2>1, <2>2, <3>1 DEF IInv, Frontier, End
  <2>3. CASE k = n
    <3>1. SameBlock(j, i)
      BY <1>3, <1>6, <2>1, <2>3 DEF SameBlock
    <3>2. End(arrays[i]) <= End(arrays[j])
      BY <1>1, <2>1, <3>1 DEF IInv, Frontier
    <3>3. ~Open(k)'
      BY <1>6, <1>11, <2>3
    <3>4. QED
      BY <1>6, <1>12, <2>1, <2>3, <3>2, <3>3 DEF End
  <2>4. QED
    BY <1>9, <2>2, <2>3
<1>14. \A j \in DOMAIN arrays : First(j)' => First(j)
  BY <1>6 DEF First
<1>15. ~First(n)'
  BY <1>3, <1>6 DEF First
<1>16. FirstEnds'
  <2> SUFFICES ASSUME NEW j \in DOMAIN arrays', NEW k \in DOMAIN arrays',
                      First(j)', SameBlock(j, k)', HasRoom(arrays'[k])
               PROVE  End(arrays[j])' <= End(arrays[k])'
    BY DEF FirstEnds
  <2>1. j \in DOMAIN arrays /\ k \in DOMAIN arrays
    BY <1>3, <1>6, <1>9, <1>15
  <2>2. First(j) /\ SameBlock(j, k) /\ HasRoom(arrays[k])
    BY <1>6, <1>14, <2>1 DEF SameBlock
  <2>3. QED
    BY <1>6, <2>1, <2>2 DEF IInv, FirstEnds, End
<1>17. \A j : Intact(j)' <=> Contents(heap, arrays'[j]) = made'[j]
  BY <1>1 DEF Intact
<1>18. Intact(n)' /\ \A j \in DOMAIN arrays : Intact(j) => Intact(j)'
  BY <1>3, <1>6, <1>17 DEF Intact
<1>19. ImmutableIfNotReused' /\ FirstsIntact'
  <2>1. ImmutableIfNotReused'
    BY <1>1, <1>9, <1>18 DEF IInv, ImmutableIfNotReused
  <2>2. FirstsIntact'
    BY <1>9, <1>14, <1>18 DEF IInv, FirstsIntact
  <2>3. QED
    BY <2>1, <2>2
<1>20. QED
  BY <1>7, <1>8, <1>13, <1>16, <1>19 DEF IInv

\* An append puts no unused item in an array.
LEMMA AppendItemsOnly ==
    ASSUME NEW h \in Heaps, NEW a, Fits(h, a), HasRoom(a), NEW x \in Items,
           NEW b, Fits(h, b), Contents(h, b) \in Seq(Items)
    PROVE  Contents(AppendHeap(h, a, x), b) \in Seq(Items)
<1> DEFINE h2 == AppendHeap(h, a, x)
<1>1. h2 = [h EXCEPT ![a.block][a.off + a.len + 1] = x]
  BY DEF AppendHeap
<1>2. /\ a.block \in DOMAIN h /\ b.block \in DOMAIN h
      /\ h[b.block] \in Seq(ItemsOrZero) /\ b.off \in Nat /\ b.len \in Nat
      /\ b.len <= b.size /\ b.off + b.size <= Len(h[b.block]) /\ b.size \in Nat
  BY DEF Fits, ArrayType, Heaps
<1> HIDE DEF h2
<1>3. ASSUME NEW k \in 1 .. b.len PROVE h2[b.block][b.off + k] \in Items
  <2>1. h[b.block][b.off + k] \in Items
    <3>1. Len(Contents(h, b)) = b.len
      BY ContentsTyping
    <3>2. Contents(h, b)[k] \in Items
      BY <3>1
    <3>3. QED
      BY <3>2 DEF Contents
  <2>2. b.off + k \in DOMAIN h[b.block]
    BY <1>2
  <2>3. CASE b.block = a.block
    <3>1. h2[b.block] = [h[b.block] EXCEPT ![a.off + a.len + 1] = x]
      BY <1>1, <1>2, <2>3
    <3>2. QED
      BY <2>1, <2>2, <3>1
  <2>4. CASE b.block # a.block
    BY <1>1, <1>2, <2>1, <2>4
  <2>5. QED
    BY <2>3, <2>4
<1>4. QED
  BY <1>2, <1>3 DEF Contents, h2

\* An append in place lands behind every array it must not change.
LEMMA InPlaceStep ==
    ASSUME IInv, NEW i \in DOMAIN arrays, NEW x \in Items, Conj(i, x),
           HasRoom(arrays[i])
    PROVE  IInv'
<1> DEFINE a == arrays[i]
           b == AppendValue(heap, a)
           items == Append(Contents(heap, a), x)
<1>0. PICK n : n = Len(arrays) + 1
  OBVIOUS
<1>1. /\ heap' = AppendHeap(heap, a, x)
      /\ extended' = extended \cup {i} /\ reused' = (reused \/ i \in extended)
      /\ arrays' = Append(arrays, b) /\ made' = Append(made, items)
  BY DEF Conj, Got
<1>2. heap \in Heaps /\ Fits(heap, a) /\ x \in ItemsOrZero
  BY DEF IInv, Types, AllFit, ItemsOrZero
<1>3. /\ heap' \in Heaps /\ Fits(heap', b) /\ DOMAIN heap \subseteq DOMAIN heap'
      /\ \A c \in DOMAIN heap : Len(heap'[c]) = Len(heap[c])
      /\ Contents(heap', b) = items
  BY <1>1, <1>2, AppendTyping, AppendResult
<1>4. items \in Seq(Items)
  BY DEF IInv, ItemsOnly
<1>5. b.block = a.block /\ b.off = a.off /\ b.len = a.len + 1 /\ b.size = a.size
  BY <1>2 DEF AppendValue, Fits, ArrayType
<1>6. End(a) \in Nat /\ End(b) = End(a) + 1
  BY <1>2, <1>5 DEF End, Fits, ArrayType
<1>7. HasRoom(a) /\ a = arrays[i]
  OBVIOUS
<1> HIDE DEF a, b, items
<1>8. b \in ArrayType
  BY <1>3 DEF Fits
<1>9. /\ arrays' \in Seq(ArrayType) /\ made' \in Seq(Seq(Items))
      /\ Len(made') = Len(arrays')
      /\ DOMAIN arrays' = DOMAIN arrays \cup {n}
      /\ n \notin DOMAIN arrays
      /\ \A j \in DOMAIN arrays : arrays'[j] = arrays[j] /\ made'[j] = made[j]
      /\ arrays'[n] = b /\ made'[n] = items
      /\ \A j \in DOMAIN arrays : j <= n /\ ~(n <= j)
  BY <1>0, <1>1, <1>4, <1>8, OneMore DEF IInv
<1>10. Types'
  BY <1>1, <1>3, <1>9 DEF IInv, Types
<1>11. \A j \in DOMAIN arrays : Fits(heap, arrays[j]) /\ Fits(heap', arrays[j])
  BY <1>3 DEF IInv, AllFit, Fits
<1>12. \A j \in DOMAIN arrays : Contents(heap', arrays[j]) \in Seq(Items)
  BY <1>1, <1>2, <1>7, <1>11, AppendItemsOnly DEF IInv, ItemsOnly
<1>13. AllFit' /\ ItemsOnly'
  BY <1>3, <1>4, <1>9, <1>11, <1>12 DEF AllFit, ItemsOnly
<1>14. \A j \in DOMAIN arrays' : j = n \/ j \in DOMAIN arrays
  BY <1>9
<1>15. \A j : (Open(j)' <=> HasRoom(arrays'[j]) /\ j \notin extended')
  BY DEF Open
<1>16. \A j \in DOMAIN arrays : Open(j)' => j # i /\ Open(j)
  BY <1>1, <1>9, <1>15 DEF Open
<1>17. ASSUME ~reused' PROVE ~reused /\ Open(i)
  BY <1>1, <1>7, <1>17 DEF Open
<1>18. ASSUME ~reused', NEW j \in DOMAIN arrays, arrays[j].block = a.block
       PROVE  End(arrays[j]) <= End(a) /\ ~Open(j)'
  BY <1>7, <1>16, <1>17, <1>18 DEF IInv, Frontier, SameBlock
<1>19. Frontier'
  <2> SUFFICES ASSUME ~reused', NEW j \in DOMAIN arrays', NEW k \in DOMAIN arrays',
                      Open(j)', SameBlock(j, k)'
               PROVE  End(arrays[k])' <= End(arrays[j])' /\ (Open(k)' => j = k)
    BY DEF Frontier
  <2>1. CASE j \in DOMAIN arrays /\ k \in DOMAIN arrays
    <3>1. SameBlock(j, k) /\ Open(j)
      BY <1>9, <1>16, <2>1 DEF SameBlock
    <3>2. QED
      BY <1>9, <1>16, <1>17, <2>1, <3>1 DEF IInv, Frontier, End
  <2>2. CASE j \in DOMAIN arrays /\ k = n
    BY <1>5, <1>9, <1>18, <2>2 DEF SameBlock
  <2>3. CASE j = n /\ k \in DOMAIN arrays
    <3>1. arrays[k].block = a.block
      BY <1>5, <1>9, <2>3 DEF SameBlock
    <3>2. End(arrays[k]) <= End(a) /\ ~Open(k)'
      BY <1>18, <2>3, <3>1
    <3>3. End(arrays[k]) \in Nat
      BY <1>11, <2>3 DEF End, Fits, ArrayType
    <3>4. End(arrays[k])' = End(arrays[k]) /\ End(arrays[j])' = End(b)
      BY <1>9, <2>3 DEF End
    <3>5. QED
      BY <1>6, <3>2, <3>3, <3>4
  <2>4. CASE j = n /\ k = n
    BY <1>6, <1>9, <2>4 DEF End
  <2>5. QED
    BY <1>14, <2>1, <2>2, <2>3, <2>4
<1>20. \A j \in DOMAIN arrays : First(j)' => First(j)
  BY <1>9 DEF First
<1>21. ~First(n)'
  BY <1>5, <1>7, <1>9 DEF First
<1>22. ASSUME NEW j \in DOMAIN arrays, First(j), arrays[j].block = a.block
       PROVE  End(arrays[j]) <= End(a)
  BY <1>7, <1>22 DEF IInv, FirstEnds, SameBlock
<1>23. FirstEnds'
  <2> SUFFICES ASSUME NEW j \in DOMAIN arrays', NEW k \in DOMAIN arrays',
                      First(j)', SameBlock(j, k)', HasRoom(arrays'[k])
               PROVE  End(arrays[j])' <= End(arrays[k])'
    BY DEF FirstEnds
  <2>1. j \in DOMAIN arrays /\ First(j)
    BY <1>14, <1>20, <1>21
  <2>2. CASE k \in DOMAIN arrays
    <3>1. SameBlock(j, k) /\ HasRoom(arrays[k])
      BY <1>9, <2>1, <2>2 DEF SameBlock
    <3>2. QED
      BY <1>9, <2>1, <2>2, <3>1 DEF IInv, FirstEnds, End
  <2>3. CASE k = n
    <3>1. End(arrays[j]) <= End(a)
      BY <1>5, <1>9, <1>22, <2>1, <2>3 DEF SameBlock
    <3>2. End(arrays[j]) \in Nat
      BY <1>11, <2>1 DEF End, Fits, ArrayType
    <3>3. End(arrays[j])' = End(arrays[j]) /\ End(arrays[k])' = End(b)
      BY <1>9, <2>1, <2>3 DEF End
    <3>4. QED
      BY <1>6, <3>1, <3>2, <3>3
  <2>4. QED
    BY <1>14, <2>2, <2>3
<1>24. ASSUME NEW j \in DOMAIN arrays, arrays[j].block = a.block => End(arrays[j]) <= End(a)
       PROVE  Contents(heap', arrays[j]) = Contents(heap, arrays[j])
  BY <1>1, <1>2, <1>11, <1>24, AppendKeeps DEF End
<1>25. \A j : Intact(j)' <=> Contents(heap', arrays'[j]) = made'[j]
  BY DEF Intact
<1>26. Intact(n)'
  BY <1>3, <1>9, <1>25
<1>27. ImmutableIfNotReused'
  <2> SUFFICES ASSUME ~reused', NEW j \in DOMAIN arrays' PROVE Intact(j)'
    BY DEF ImmutableIfNotReused
  <2>1. CASE j \in DOMAIN arrays
    <3>1. Contents(heap', arrays[j]) = Contents(heap, arrays[j])
      BY <1>18, <1>24, <2>1
    <3>2. Intact(j)
      BY <1>17, <2>1 DEF IInv, ImmutableIfNotReused
    <3>3. QED
      BY <1>9, <1>25, <2>1, <3>1, <3>2 DEF Intact
  <2>2. QED
    BY <1>14, <1>26, <2>1
<1>28. FirstsIntact'
  <2> SUFFICES ASSUME NEW j \in DOMAIN arrays', First(j)' PROVE Intact(j)'
    BY DEF FirstsIntact
  <2>1. j \in DOMAIN arrays /\ First(j)
    BY <1>14, <1>20, <1>21
  <2>2. Contents(heap', arrays[j]) = Contents(heap, arrays[j])
    BY <1>22, <1>24, <2>1
  <2>3. Intact(j)
    BY <2>1 DEF IInv, FirstsIntact
  <2>4. QED
    BY <1>9, <1>25, <2>1, <2>2, <2>3 DEF Intact
<1>29. QED
  BY <1>10, <1>13, <1>19, <1>23, <1>27, <1>28 DEF IInv

\* Every operation keeps the invariant.
LEMMA InductiveInvariant == Spec => []IInv
<1>1. Init => IInv
  <2> SUFFICES ASSUME Init PROVE IInv
    OBVIOUS
  <2>1. Types
    <3>1. /\ heap = << >> /\ arrays = << >> /\ made = << >>
          /\ extended = {} /\ reused = FALSE
      BY DEF Init
    <3>2. << >> \in Heaps
      BY DEF Heaps
    <3>3. << >> \in Seq(ArrayType)
      OBVIOUS
    <3>4. << >> \in Seq(Seq(Items))
      OBVIOUS
    <3>5. QED
      BY <3>1, <3>2, <3>3, <3>4 DEF Types
  <2>2. DOMAIN arrays = {}
    BY DEF Init
  <2>3. QED
    BY <2>1, <2>2 DEF IInv, AllFit, ItemsOnly, Frontier, FirstEnds,
                      ImmutableIfNotReused, FirstsIntact
<1>2. IInv /\ [Next]_vars => IInv'
  <2> SUFFICES ASSUME IInv, [Next]_vars PROVE IInv'
    OBVIOUS
  <2>0. heap \in Heaps /\ \A i \in DOMAIN arrays : Fits(heap, arrays[i])
    BY DEF IInv, Types, AllFit
  <2>1. CASE UNCHANGED vars
    BY <2>1 DEF vars, IInv, Types, Heaps, AllFit, ItemsOnly, Frontier, Open, SameBlock,
                End, FirstEnds, First, ImmutableIfNotReused, FirstsIntact, Intact
  <2>2. ASSUME NEW n \in 0 .. MaxLiteral, NEW items \in [1 .. n -> Items], Make(items)
        PROVE  IInv'
    <3>1. items \in Seq(Items)
      BY ArraysAssumption
    <3>2. /\ heap' = NewHeap(heap, items) /\ extended' = extended /\ reused' = reused
          /\ arrays' = Append(arrays, NewValue(heap, items)) /\ made' = Append(made, items)
      BY <2>2 DEF Make, Got
    <3>3. NewValue(heap, items).block = Len(heap) + 1
      BY DEF NewValue, Whole
    <3>4. extended' \subseteq DOMAIN arrays /\ reused' \in BOOLEAN
      BY <3>2 DEF IInv, Types
    <3>5. QED
      BY <2>0, <3>1, <3>2, <3>3, <3>4, NewResult, NewBlockStep DEF NewHeap
  <2>3. ASSUME NEW i \in DOMAIN arrays, NEW x \in Items, Conj(i, x)
        PROVE  IInv'
    <3>1. CASE HasRoom(arrays[i])
      BY <2>3, <3>1, InPlaceStep
    <3>2. CASE ~HasRoom(arrays[i])
      <4> DEFINE a == arrays[i]
                 b == AppendValue(heap, a)
                 items == Append(Contents(heap, a), x)
      <4>1. /\ heap' = AppendHeap(heap, a, x)
            /\ extended' = extended \cup {i} /\ reused' = (reused \/ i \in extended)
            /\ arrays' = Append(arrays, b) /\ made' = Append(made, items)
        BY <2>3 DEF Conj, Got
      <4>2. heap' \in Heaps /\ Fits(heap', b) /\ Contents(heap', b) = items
        BY <2>0, <4>1, AppendTyping, AppendResult DEF ItemsOrZero
      <4>3. items \in Seq(Items)
        BY DEF IInv, ItemsOnly
      <4>4. b.block = Len(heap) + 1
        BY <3>2 DEF AppendValue, Whole
      <4>5. PICK block : heap' = Append(heap, block)
        BY <3>2, <4>1 DEF AppendHeap
      <4>6. /\ extended \subseteq extended' /\ extended' \subseteq DOMAIN arrays
            /\ reused' \in BOOLEAN /\ (reused => reused')
        BY <4>1 DEF IInv, Types
      <4> HIDE DEF a, b, items
      <4>7. QED
        BY <4>1, <4>2, <4>3, <4>4, <4>5, <4>6, NewBlockStep
    <3>3. QED
      BY <3>1, <3>2
  <2>4. ASSUME NEW i \in DOMAIN arrays, NEW k \in 1 .. arrays[i].len, NEW x \in Items,
               Assoc(i, k, x)
        PROVE  IInv'
    <3> DEFINE a == arrays[i]
               b == AssocValue(heap, a)
               items == [Contents(heap, a) EXCEPT ![k] = x]
    <3>1. /\ heap' = AssocHeap(heap, a, k, x) /\ extended' = extended /\ reused' = reused
          /\ arrays' = Append(arrays, b) /\ made' = Append(made, items)
      BY <2>4 DEF Assoc, Got
    <3>2. heap' \in Heaps /\ Fits(heap', b) /\ Contents(heap', b) = items
      BY <2>0, <3>1, AssocResult
    <3>3. items \in Seq(Items)
      <4> DEFINE c == Contents(heap, a)
      <4>1. c \in Seq(Items)
        BY DEF IInv, ItemsOnly
      <4> HIDE DEF c
      <4>2. PICK n \in Nat : c \in [1 .. n -> Items]
        BY <4>1
      <4>3. [c EXCEPT ![k] = x] \in [1 .. n -> Items]
        BY <4>2
      <4>4. QED
        BY <4>2, <4>3 DEF c
    <3>4. b.block = Len(heap) + 1
      BY DEF AssocValue, Whole
    <3>5. PICK block : heap' = Append(heap, block)
      BY <3>1 DEF AssocHeap
    <3>6. extended' \subseteq DOMAIN arrays /\ reused' \in BOOLEAN
      BY <3>1 DEF IInv, Types
    <3> HIDE DEF a, b, items
    <3>7. QED
      BY <3>1, <3>2, <3>3, <3>4, <3>5, <3>6, NewBlockStep
  <2>5. ASSUME NEW i \in DOMAIN arrays, Rest(i) PROVE IInv'
    BY <2>5, RestStep
  <2>6. QED
    BY <2>1, <2>2, <2>3, <2>4, <2>5 DEF Next
<1>3. QED
  BY <1>1, <1>2, PTL DEF Spec

-----------------------------------------------------------------------------
(* The theorems.                                                           *)

\* Every array is a window inside its block, and no operation reads or writes
\* outside.
THEOREM TypeCorrect == Spec => []TypeOK
BY InductiveInvariant, TypesOfIInv, PTL

\* While no array is appended to twice, every array keeps its items for ever.
THEOREM ImmutableIfNotReusedCorrect == Spec => []ImmutableIfNotReused
BY InductiveInvariant, PTL DEF IInv

\* The first array of a block keeps its items for ever, however arrays are used.
THEOREM FirstsIntactCorrect == Spec => []FirstsIntact
BY InductiveInvariant, PTL DEF IInv

\* Every operation returns the right items and keeps those of its argument.
THEOREM ResultsRightCorrect == Spec => ResultsRight
<1> DEFINE Right == LET n == Len(arrays')
                    IN  n > Len(arrays) =>
                          /\ Contents(heap', arrays'[n]) = made'[n]
                          /\ \A i \in extended' \ extended :
                                 Contents(heap', arrays[i]) = Contents(heap, arrays[i])
<1>1. IInv /\ [Next]_vars => [Right]_vars
  <2> SUFFICES ASSUME IInv, Next PROVE Right
    OBVIOUS
  <2>0. /\ heap \in Heaps /\ \A i \in DOMAIN arrays : Fits(heap, arrays[i])
        /\ arrays \in Seq(ArrayType) /\ made \in Seq(Seq(Items)) /\ Len(made) = Len(arrays)
    BY DEF IInv, Types, AllFit
  <2>1. ASSUME NEW a, NEW items, arrays' = Append(arrays, a), made' = Append(made, items),
               Contents(heap', a) = items
        PROVE  Contents(heap', arrays'[Len(arrays')]) = made'[Len(arrays')]
    BY <2>0, <2>1
  <2>2. ASSUME NEW n \in 0 .. MaxLiteral, NEW items \in [1 .. n -> Items], Make(items)
        PROVE  Right
    <3>1. items \in Seq(Items)
      BY ArraysAssumption
    <3>2. QED
      BY <2>0, <2>1, <2>2, <3>1, NewResult DEF Make, Got
  <2>3. ASSUME NEW i \in DOMAIN arrays, NEW x \in Items, Conj(i, x)
        PROVE  Right
    <3>1. Contents(heap', AppendValue(heap, arrays[i])) = Append(Contents(heap, arrays[i]), x)
      BY <2>0, <2>3, AppendResult DEF Conj, ItemsOrZero
    <3>2. Contents(heap', arrays[i]) = Contents(heap, arrays[i])
      <4>1. arrays[i].off + arrays[i].len <= arrays[i].off + arrays[i].len
        BY <2>0 DEF Fits, ArrayType
      <4>2. QED
        BY <2>0, <2>3, <4>1, AppendKeeps DEF Conj
    <3>3. extended' \ extended \subseteq {i}
      BY <2>3 DEF Conj
    <3>4. Contents(heap', arrays'[Len(arrays')]) = made'[Len(arrays')]
      BY <2>1, <2>3, <3>1 DEF Conj, Got
    <3>5. QED
      BY <3>2, <3>3, <3>4
  <2>4. ASSUME NEW i \in DOMAIN arrays, NEW k \in 1 .. arrays[i].len, NEW x \in Items,
               Assoc(i, k, x)
        PROVE  Right
    <3>1. Contents(heap', AssocValue(heap, arrays[i])) = [Contents(heap, arrays[i]) EXCEPT ![k] = x]
      BY <2>0, <2>4, AssocResult DEF Assoc
    <3>2. Contents(heap', arrays'[Len(arrays')]) = made'[Len(arrays')]
      BY <2>1, <2>4, <3>1 DEF Assoc, Got
    <3>3. QED
      BY <2>4, <3>2 DEF Assoc
  <2>5. ASSUME NEW i \in DOMAIN arrays, Rest(i) PROVE Right
    <3>1. Contents(heap', RestValue(arrays[i]))
              = [k \in 1 .. arrays[i].len - 1 |-> Contents(heap, arrays[i])[k + 1]]
      BY <2>0, <2>5, RestResult DEF Rest
    <3>2. Contents(heap', arrays'[Len(arrays')]) = made'[Len(arrays')]
      BY <2>1, <2>5, <3>1 DEF Rest, Got
    <3>3. QED
      BY <2>5, <3>2 DEF Rest
  <2>6. QED
    BY <2>2, <2>3, <2>4, <2>5 DEF Next
<1>2. QED
  BY <1>1, InductiveInvariant, PTL DEF Spec, ResultsRight
=============================================================================
