--------------------------- MODULE CompilerProofs ---------------------------
(***************************************************************************)
(* Theorems about the compiler: its loader, its front end and the REPL.    *)
(*                                                                         *)
(* The loader's order is a dependency order for every set of files and     *)
(* every import graph.  What has to be known besides the properties is     *)
(* where the calls in progress stand: everything before the import a call  *)
(* is at is loaded, and the import it is at is what the next call loads.   *)
(*                                                                         *)
(* The caller of the front end gets the forms that the file has, for every *)
(* set of files and all capacities of the channels.  The inductive         *)
(* invariant follows the items from goroutine to goroutine: the tokens are *)
(* on their way in order, the reader's open lists are those that are open  *)
(* in the file after as many tokens, the forms are on their way in order   *)
(* up to the first error, and so are those that expansion keeps.           *)
(*                                                                         *)
(* In the REPL the compiler's names and the interpreter's identifiers are  *)
(* the same but for what was lost, for every session, all files and every  *)
(* import graph.  The inductive invariant says so exactly, in both         *)
(* directions, and gives for every reference of a step that is not yet     *)
(* evaluated the reason why what it refers to is there, or may be missing. *)
(***************************************************************************)
EXTENDS Loader, FrontEnd, Repl, SequenceTheorems, FiniteSetTheorems,
        WellFoundedInduction, TLAPS

-----------------------------------------------------------------------------
(* The loader.                                                             *)

\* The calls in progress: no file twice, none of them loaded yet.
FramesApart ==
    /\ \A i, j \in DOMAIN frames : frames[i].mod = frames[j].mod => i = j
    /\ \A i \in DOMAIN frames : frames[i].mod \notin seen

\* What lies behind a call is loaded.
Behind ==
    \A i \in DOMAIN frames :
        /\ frames[i].at <= Len(imports[frames[i].mod]) + 1
        /\ \A k \in 1 .. frames[i].at - 1 : imports[frames[i].mod][k] \in seen

\* Each call but the innermost is at the import the next call loads.
Nested ==
    \A i \in 1 .. Len(frames) - 1 :
        /\ frames[i].at <= Len(imports[frames[i].mod])
        /\ imports[frames[i].mod][frames[i].at] = frames[i + 1].mod

SeenIsOrder == seen = {order[i] : i \in DOMAIN order}

\* Which file the outermost call is for, and what is loaded once it has ended.
Outermost ==
    /\ phase = "prologue" =>
         IF frames = << >> THEN Prologue \in seen ELSE frames[1].mod = Prologue
    /\ phase = "entry" =>
         /\ Entry # Prologue => Prologue \in seen
         /\ IF frames = << >> THEN Entry \in seen ELSE frames[1].mod = Entry
    /\ phase = "done" => Entry \in seen /\ Prologue \in seen

CircularHere ==
    phase = "circular" =>
        /\ frames # << >>
        /\ Top.at <= Len(imports[Top.mod])
        /\ Wanted \in Stack

LoaderInv ==
    /\ TypeOK /\ ProvidersFirst
    /\ FramesApart /\ Behind /\ Nested /\ SeenIsOrder /\ Outermost /\ CircularHere

Frames == Seq([mod : Module, at : Nat \ {0}])

\* What moving the last of the calls past its import does to the calls.
LEMMA Advancing ==
  ASSUME NEW s \in Frames, s # << >>
  PROVE  LET t == [s EXCEPT ![Len(s)].at = @ + 1]
             n == Len(s)
         IN /\ n \in Nat \ {0} /\ t \in Frames
            /\ Len(t) = n /\ DOMAIN t = 1 .. n /\ DOMAIN s = 1 .. n
            /\ \A i \in 1 .. n : t[i].mod = s[i].mod /\ s[i].mod \in Module
            /\ \A i \in 1 .. n - 1 : t[i] = s[i]
            /\ \A i \in 1 .. n : s[i].at \in Nat \ {0}
            /\ t[n].at = s[n].at + 1
<1> DEFINE n == Len(s)
           t == [s EXCEPT ![n].at = @ + 1]
<1>1. n \in Nat \ {0} /\ DOMAIN s = 1 .. n
    BY DEF Frames
<1>2. \A i \in 1 .. n : s[i] \in [mod : Module, at : Nat \ {0}]
    BY ElementOfSeq DEF Frames
<1>3. DOMAIN t = 1 .. n
    BY <1>1
<1>4. \A i \in 1 .. n - 1 : t[i] = s[i]
    BY <1>1
<1>5. t[n] = [s[n] EXCEPT !.at = @ + 1]
    BY <1>1
<1>6. t[n].mod = s[n].mod /\ t[n].at = s[n].at + 1
  <2>1. s[n] \in [mod : Module, at : Nat \ {0}]
      BY <1>1, <1>2
  <2> QED BY <1>5, <2>1
<1>7. t[n] \in [mod : Module, at : Nat \ {0}]
  <2>1. s[n] \in [mod : Module, at : Nat \ {0}]
      BY <1>1, <1>2
  <2> QED BY <1>5, <2>1
<1>8. \A i \in 1 .. n : t[i] \in [mod : Module, at : Nat \ {0}]
  <2> SUFFICES ASSUME NEW i \in 1 .. n PROVE t[i] \in [mod : Module, at : Nat \ {0}]
      OBVIOUS
  <2>1. CASE i = n  BY <1>7, <2>1
  <2>2. CASE i # n  BY <1>1, <1>2, <1>4, <2>2
  <2> QED BY <2>1, <2>2
<1>9. t \in [1 .. n -> [mod : Module, at : Nat \ {0}]]
  <2> HIDE DEF t
  <2>1. t = [i \in 1 .. n |-> t[i]]
      BY <1>3 DEF t
  <2> QED BY <1>8, <2>1
<1>10. t \in Frames /\ Len(t) = n
  <2> HIDE DEF t
  <2> QED BY <1>1, <1>9 DEF Frames
<1>11. \A i \in 1 .. n : t[i].mod = s[i].mod /\ s[i].mod \in Module /\ s[i].at \in Nat \ {0}
  <2> HIDE DEF t, n
  <2> SUFFICES ASSUME NEW i \in 1 .. n
               PROVE t[i].mod = s[i].mod /\ s[i].mod \in Module /\ s[i].at \in Nat \ {0}
      OBVIOUS
  <2>1. s[i] \in [mod : Module, at : Nat \ {0}]
      BY <1>2
  <2>2. t[i].mod = s[i].mod
    <3>1. CASE i = n  BY <1>6, <3>1
    <3>2. CASE i # n
      <4>1. n \in Nat /\ i \in 1 .. n /\ i # n
          BY <1>1, <3>2
      <4>2. i \in 1 .. n - 1
          BY <4>1
      <4>3. t[i] = s[i]
          BY <1>4, <4>2
      <4> QED BY <4>3
    <3> QED BY <3>1, <3>2
  <2> QED BY <2>1, <2>2
<1> QED BY <1>1, <1>3, <1>4, <1>6, <1>10, <1>11

\* The invariant holds when loading starts.
LEMMA InitLoader == LoadInit => LoaderInv
<1> SUFFICES ASSUME LoadInit PROVE LoaderInv
    OBVIOUS
<1> USE LoaderAssumption
<1>1. /\ imports \in [Module -> Seq(Path)] /\ seen = {} /\ order = << >>
      /\ \/ Entry = Prologue /\ phase = "entry" /\ frames = <<Frame(Entry)>>
         \/ Entry # Prologue /\ phase = "prologue" /\ frames = <<Frame(Prologue)>>
    BY DEF LoadInit
<1>2. PICK m \in Module : /\ frames = <<Frame(m)>>
                          /\ \/ phase = "entry" /\ m = Entry /\ Entry = Prologue
                             \/ phase = "prologue" /\ m = Prologue
    BY <1>1
<1>3. frames = <<[mod |-> m, at |-> 1]>>
    BY <1>2 DEF Frame
<1>4. TypeOK
    BY <1>1, <1>2, <1>3 DEF TypeOK
<1>5. ProvidersFirst /\ SeenIsOrder
    BY <1>1 DEF ProvidersFirst, SeenIsOrder
<1>6. FramesApart /\ Nested
    BY <1>1, <1>3 DEF FramesApart, Nested
<1>7. Behind
  <2>1. imports[m] \in Seq(Path)
      BY <1>1, <1>2
  <2> QED BY <1>1, <1>3, <2>1 DEF Behind
<1>8. Outermost
    BY <1>2, <1>3 DEF Outermost
<1>9. CircularHere
    BY <1>2 DEF CircularHere
<1> QED BY <1>4, <1>5, <1>6, <1>7, <1>8, <1>9 DEF LoaderInv

\* Steps that only move the innermost call past an import that is loaded.
LEMMA SkipLoader == LoaderInv /\ Skip => LoaderInv'
<1> SUFFICES ASSUME LoaderInv, Skip PROVE LoaderInv'
    OBVIOUS
<1> DEFINE n == Len(frames)
<1>1. TypeOK
    BY DEF LoaderInv
<1>2. /\ frames \in Frames /\ frames # << >>
      /\ Top = frames[n] /\ Top.at <= Len(imports[Top.mod]) /\ Wanted \in seen
      /\ phase \in {"prologue", "entry"}
    BY <1>1 DEF Skip, Importing, TypeOK, Top, Frames
<1>3. /\ imports' = imports /\ phase' = phase /\ seen' = seen /\ order' = order
      /\ frames' = [frames EXCEPT ![n].at = @ + 1]
    BY DEF Skip, Advanced
<1>4. /\ n \in Nat \ {0} /\ frames' \in Frames
      /\ Len(frames') = n /\ DOMAIN frames' = 1 .. n /\ DOMAIN frames = 1 .. n
      /\ \A i \in 1 .. n : frames'[i].mod = frames[i].mod /\ frames[i].mod \in Module
      /\ \A i \in 1 .. n - 1 : frames'[i] = frames[i]
      /\ \A i \in 1 .. n : frames[i].at \in Nat \ {0}
      /\ frames'[n].at = frames[n].at + 1
    BY <1>2, <1>3, Advancing
<1> HIDE DEF n
<1>5. TypeOK'
  <2>1. frames' \in Seq([mod : Module, at : Nat \ {0}])
      BY <1>4 DEF Frames
  <2> QED BY <1>1, <1>3, <2>1 DEF TypeOK
<1>6. ProvidersFirst' /\ SeenIsOrder'
    BY <1>3 DEF LoaderInv, ProvidersFirst, SeenIsOrder
<1>7. FramesApart'
    BY <1>3, <1>4 DEF LoaderInv, FramesApart
<1>8. Behind'
  <2> SUFFICES ASSUME NEW i \in 1 .. n
               PROVE /\ frames'[i].at <= Len(imports[frames[i].mod]) + 1
                     /\ \A k \in 1 .. frames'[i].at - 1 : imports[frames[i].mod][k] \in seen
      BY <1>3, <1>4 DEF Behind
  <2>1. /\ frames[i].at <= Len(imports[frames[i].mod]) + 1
        /\ \A k \in 1 .. frames[i].at - 1 : imports[frames[i].mod][k] \in seen
      BY <1>4 DEF LoaderInv, Behind
  <2>2. CASE i # n
      BY <1>4, <2>1, <2>2
  <2>3. CASE i = n
    <3>1. imports[frames[n].mod][frames[n].at] \in seen
        BY <1>2 DEF Wanted
    <3>2. imports[frames[n].mod] \in Seq(Path)
        BY <1>1, <1>2, <1>4 DEF TypeOK
    <3>3. frames[n].at \in Nat /\ Len(imports[frames[n].mod]) \in Nat
        BY <1>4, <3>2
    <3> QED BY <1>2, <1>4, <2>1, <2>3, <3>1, <3>3
  <2> QED BY <2>2, <2>3
<1>9. Nested'
    BY <1>2, <1>3, <1>4 DEF LoaderInv, Nested
<1>10. Outermost'
  <2>1. (frames' = << >>) <=> (frames = << >>)
      BY <1>2, <1>4
  <2>2. frames # << >> => frames'[1].mod = frames[1].mod
      BY <1>2, <1>4
  <2> QED BY <1>3, <2>1, <2>2 DEF LoaderInv, Outermost
<1>11. CircularHere'
    BY <1>2, <1>3 DEF CircularHere
<1> QED BY <1>5, <1>6, <1>7, <1>8, <1>9, <1>10, <1>11 DEF LoaderInv

LEMMA DescendLoader == LoaderInv /\ Descend => LoaderInv'
<1> SUFFICES ASSUME LoaderInv, Descend PROVE LoaderInv'
    OBVIOUS
<1> DEFINE n == Len(frames)
           w == Wanted
<1>1. TypeOK
    BY DEF LoaderInv
<1>2. /\ frames \in Frames /\ n \in Nat \ {0} /\ DOMAIN frames = 1 .. n
      /\ Top = frames[n] /\ Top.at <= Len(imports[Top.mod])
      /\ w \in Module /\ w \notin seen /\ w \notin Stack
      /\ phase \in {"prologue", "entry"}
      /\ w = imports[frames[n].mod][frames[n].at]
    BY <1>1 DEF Descend, Importing, TypeOK, Top, Frames, Wanted
<1>3. /\ imports' = imports /\ phase' = phase /\ seen' = seen /\ order' = order
      /\ frames' = Append(frames, [mod |-> w, at |-> 1])
    BY DEF Descend, Frame
<1> HIDE DEF w
<1>4. /\ frames' \in Frames /\ Len(frames') = n + 1 /\ DOMAIN frames' = 1 .. n + 1
      /\ \A i \in 1 .. n : frames'[i] = frames[i] /\ frames[i].mod # w
      /\ frames'[n + 1].mod = w /\ frames'[n + 1].at = 1
  <2>1. [mod |-> w, at |-> 1] \in [mod : Module, at : Nat \ {0}]
      BY <1>2
  <2>2. /\ frames' \in Frames /\ Len(frames') = n + 1 /\ DOMAIN frames' = 1 .. n + 1
        /\ \A i \in 1 .. n : frames'[i] = frames[i]
        /\ frames'[n + 1] = [mod |-> w, at |-> 1]
      BY <1>2, <1>3, <2>1 DEF Frames
  <2>3. \A i \in 1 .. n : frames[i].mod # w
      BY <1>2 DEF Stack
  <2> QED BY <2>2, <2>3
<1> HIDE DEF n
<1>5. TypeOK'
  <2>1. frames' \in Seq([mod : Module, at : Nat \ {0}])
      BY <1>4 DEF Frames
  <2> QED BY <1>1, <1>3, <2>1 DEF TypeOK
<1>6. ProvidersFirst' /\ SeenIsOrder'
    BY <1>3 DEF LoaderInv, ProvidersFirst, SeenIsOrder
<1>7. \A i \in 1 .. n + 1 : i \in 1 .. n \/ i = n + 1
    BY <1>2
<1>8. FramesApart'
  <2>1. /\ \A i, j \in 1 .. n : frames[i].mod = frames[j].mod => i = j
        /\ \A i \in 1 .. n : frames[i].mod \notin seen
      BY <1>2 DEF LoaderInv, FramesApart
  <2>2. \A i, j \in 1 .. n + 1 : frames'[i].mod = frames'[j].mod => i = j
      BY <1>4, <1>7, <2>1
  <2>3. \A i \in 1 .. n + 1 : frames'[i].mod \notin seen
      BY <1>2, <1>4, <1>7, <2>1
  <2> QED BY <1>3, <1>4, <2>2, <2>3 DEF FramesApart
<1>9. Behind'
  <2>1. \A i \in 1 .. n : /\ frames[i].at <= Len(imports[frames[i].mod]) + 1
                           /\ \A k \in 1 .. frames[i].at - 1 :
                                imports[frames[i].mod][k] \in seen
      BY <1>2 DEF LoaderInv, Behind
  <2>2. /\ frames'[n + 1].at <= Len(imports[frames'[n + 1].mod]) + 1
        /\ \A k \in 1 .. frames'[n + 1].at - 1 : FALSE
    <3>1. imports[w] \in Seq(Path)
        BY <1>1, <1>2 DEF TypeOK
    <3>2. Len(imports[w]) \in Nat
        BY <3>1
    <3> QED BY <1>4, <3>2
  <2> QED BY <1>3, <1>4, <1>7, <2>1, <2>2 DEF Behind
<1>10. Nested'
  <2> SUFFICES ASSUME NEW i \in 1 .. n
               PROVE /\ frames'[i].at <= Len(imports[frames'[i].mod])
                     /\ imports[frames'[i].mod][frames'[i].at] = frames'[i + 1].mod
    <3>1. Len(frames') - 1 = n
        BY <1>2, <1>4
    <3> QED BY <1>3, <3>1 DEF Nested
  <2>1. CASE i = n
      BY <1>2, <1>4, <2>1
  <2>2. CASE i # n
    <3>1. i \in 1 .. n - 1 /\ i + 1 \in 1 .. n
        BY <1>2, <2>2
    <3>2. /\ frames[i].at <= Len(imports[frames[i].mod])
          /\ imports[frames[i].mod][frames[i].at] = frames[i + 1].mod
        BY <3>1 DEF LoaderInv, Nested, n
    <3> QED BY <1>4, <3>1, <3>2
  <2> QED BY <2>1, <2>2
<1>11. Outermost'
  <2>1. frames # << >> /\ frames' # << >> /\ frames'[1].mod = frames[1].mod
    <3>1. 1 \in 1 .. n
        BY <1>2
    <3> QED BY <1>2, <1>4, <3>1 DEF n
  <2> QED BY <1>3, <2>1 DEF LoaderInv, Outermost
<1>12. CircularHere'
    BY <1>2, <1>3 DEF CircularHere
<1> QED BY <1>5, <1>6, <1>8, <1>9, <1>10, <1>11, <1>12 DEF LoaderInv

\* The end of a call: everything the file imports is loaded, so it may come next.
LEMMA FinishLoader == LoaderInv /\ Finish => LoaderInv'
<1> SUFFICES ASSUME LoaderInv, Finish PROVE LoaderInv'
    OBVIOUS
<1> DEFINE n == Len(frames)
           m == frames[n].mod
           l == Len(order)
           below == SubSeq(frames, 1, n - 1)
<1>1. TypeOK
    BY DEF LoaderInv
<1>2. /\ frames \in Frames /\ n \in Nat \ {0} /\ DOMAIN frames = 1 .. n
      /\ Top = frames[n] /\ frames[n].at > Len(imports[m])
      /\ phase \in {"prologue", "entry"}
      /\ order \in Seq(Module) /\ l \in Nat /\ DOMAIN order = 1 .. l
    BY <1>1 DEF Finish, TypeOK, Top, Frames
<1>3. /\ imports' = imports /\ phase' = phase /\ seen' = seen \cup {m}
      /\ order' = Append(order, m)
      /\ frames' = IF below = << >> THEN << >>
                   ELSE [below EXCEPT ![Len(below)].at = @ + 1]
    BY <1>2 DEF Finish
<1>4. \A i \in 1 .. n : frames[i].mod \in Module /\ frames[i].at \in Nat \ {0}
  <2>1. \A i \in 1 .. n : frames[i] \in [mod : Module, at : Nat \ {0}]
      BY <1>2, ElementOfSeq DEF Frames
  <2> QED BY <2>1
<1>5. /\ below \in Frames /\ Len(below) = n - 1
      /\ \A i \in 1 .. n - 1 : below[i] = frames[i]
  <2>1. n - 1 \in 0 .. n
      BY <1>2
  <2>2. /\ below \in Seq([mod : Module, at : Nat \ {0}]) /\ Len(below) = n - 1
        /\ \A i \in 1 .. n - 1 : below[i] = frames[i]
    <3> DEFINE F == [mod : Module, at : Nat \ {0}]
    <3>1. n \in Nat /\ n >= 1
        BY <1>2
    <3>6. \A i \in 1 .. n : frames[i] \in [mod : Module, at : Nat \ {0}]
        BY <1>2, ElementOfSeq DEF Frames
    <3> HIDE DEF n
    <3>2. \A i \in 1 .. n - 1 : frames[i] \in F
        BY <3>1, <3>6
    <3> HIDE DEF F
    <3>3. n - 1 \in Int /\ 1 \in Int
        BY <3>1
    <3>4. /\ SubSeq(frames, 1, n - 1) \in Seq(F)
          /\ Len(SubSeq(frames, 1, n - 1)) = IF 1 <= n - 1 THEN (n - 1) - 1 + 1 ELSE 0
          /\ \A i \in 1 .. (n - 1) - 1 + 1 : SubSeq(frames, 1, n - 1)[i] = frames[1 + i - 1]
        BY <3>2, <3>3, SubSeqProperties
    <3>5. /\ (IF 1 <= n - 1 THEN (n - 1) - 1 + 1 ELSE 0) = n - 1
          /\ (n - 1) - 1 + 1 = n - 1
          /\ \A i \in 1 .. n - 1 : 1 + i - 1 = i
        BY <3>1
    <3> QED BY <3>4, <3>5 DEF F
  <2> QED BY <2>2 DEF Frames
<1>6. m \in Module /\ m \notin seen /\ n \in 1 .. n
    BY <1>2, <1>4 DEF LoaderInv, FramesApart
<1>7. \A k \in DOMAIN imports[m] : imports[m][k] \in seen
  <2>1. imports[m] \in Seq(Path) /\ Len(imports[m]) \in Nat
                                 /\ DOMAIN imports[m] = 1 .. Len(imports[m])
      BY <1>1, <1>6 DEF TypeOK
  <2>2. \A k \in 1 .. frames[n].at - 1 : imports[m][k] \in seen
      BY <1>2, <1>6 DEF LoaderInv, Behind
  <2> QED BY <1>2, <1>4, <1>6, <2>1, <2>2
<1> HIDE DEF m, l, below, n
<1>15. n \in Nat /\ n >= 1 /\ n \in Int
    BY <1>2
<1>8. /\ DOMAIN order' = 1 .. l + 1 /\ order'[l + 1] = m
      /\ \A i \in 1 .. l : order'[i] = order[i]
      /\ order' \in Seq(Module)
      /\ \A i \in 1 .. l + 1 : i \in 1 .. l \/ i = l + 1
    BY <1>2, <1>3, <1>6 DEF l
<1>9. seen = {order[i] : i \in 1 .. l}
    BY <1>2 DEF LoaderInv, SeenIsOrder
<1>10. ProvidersFirst'
  <2>1. \A i, j \in 1 .. l + 1 : order'[i] = order'[j] => i = j
    <3>1. \A i, j \in 1 .. l : order[i] = order[j] => i = j
        BY <1>2 DEF LoaderInv, ProvidersFirst
    <3>2. \A i \in 1 .. l : order[i] # m
        BY <1>6, <1>9
    <3> QED BY <1>8, <3>1, <3>2
  <2>2. \A i \in 1 .. l + 1 : \A k \in DOMAIN imports[order'[i]] :
            \E j \in 1 .. i - 1 : order'[j] = imports[order'[i]][k]
    <3> SUFFICES ASSUME NEW i \in 1 .. l + 1, NEW k \in DOMAIN imports[order'[i]]
                 PROVE \E j \in 1 .. i - 1 : order'[j] = imports[order'[i]][k]
        OBVIOUS
    <3>1. CASE i = l + 1
      <4>1. imports[m][k] \in seen
          BY <1>7, <1>8, <3>1
      <4>2. PICK j \in 1 .. l : order[j] = imports[m][k]
          BY <1>9, <4>1
      <4>3. j \in 1 .. i - 1
          BY <1>2, <3>1
      <4> QED BY <1>8, <3>1, <4>2, <4>3
    <3>2. CASE i \in 1 .. l
      <4>1. PICK j \in 1 .. i - 1 : order[j] = imports[order[i]][k]
          BY <1>2, <1>8, <3>2 DEF LoaderInv, ProvidersFirst
      <4>2. j \in 1 .. l
          BY <1>2, <3>2
      <4> QED BY <1>8, <3>2, <4>1, <4>2
    <3> QED BY <1>8, <3>1, <3>2
  <2> QED BY <1>3, <1>8, <2>1, <2>2 DEF ProvidersFirst
<1>11. SeenIsOrder'
  <2>1. seen' = {order'[i] : i \in 1 .. l + 1}
      BY <1>2, <1>3, <1>8, <1>9
  <2> QED BY <1>8, <2>1 DEF SeenIsOrder
<1>12. CircularHere'
    BY <1>2, <1>3 DEF CircularHere
<1>13. CASE n = 1
  <2>1. frames' = << >>
      BY <1>3, <1>5, <1>13 DEF Frames
  <2>2. TypeOK'
      BY <1>1, <1>3, <1>6, <1>8, <2>1 DEF TypeOK
  <2>3. FramesApart' /\ Behind' /\ Nested'
      BY <2>1 DEF FramesApart, Behind, Nested
  <2>4. Outermost'
    <3>1. frames # << >> /\ frames[1].mod = m
      <4>1. frames # << >>
          BY <1>2, <1>13 DEF n
      <4> QED BY <1>13, <4>1 DEF m
    <3>2. (phase = "prologue" => m = Prologue) /\ (phase = "entry" => m = Entry)
        BY <3>1 DEF LoaderInv, Outermost
    <3> QED BY <1>2, <1>3, <2>1, <3>2 DEF LoaderInv, Outermost
  <2> QED BY <1>10, <1>11, <1>12, <2>2, <2>3, <2>4 DEF LoaderInv
<1>14. CASE n # 1
  <2>1. below # << >> /\ n - 1 \in Nat \ {0}
      BY <1>2, <1>5, <1>14
  <2>2. /\ frames' \in Frames /\ Len(frames') = n - 1 /\ DOMAIN frames' = 1 .. n - 1
        /\ \A i \in 1 .. n - 1 : frames'[i].mod = below[i].mod
        /\ \A i \in 1 .. n - 2 : frames'[i] = below[i]
        /\ frames'[n - 1].at = below[n - 1].at + 1
    <3>1. frames' = [below EXCEPT ![Len(below)].at = @ + 1]
        BY <1>3, <2>1
    <3>2. (n - 1) - 1 = n - 2
        BY <1>2
    <3> QED BY <1>5, <2>1, <3>1, <3>2, Advancing
  <2>3. /\ \A i \in 1 .. n - 1 : frames'[i].mod = frames[i].mod
        /\ \A i \in 1 .. n - 2 : frames'[i] = frames[i]
        /\ frames'[n - 1].at = frames[n - 1].at + 1
    <3>1. n - 1 \in 1 .. n - 1 /\ \A i \in 1 .. n - 2 : i \in 1 .. n - 1
        BY <1>2, <2>1
    <3> QED BY <1>5, <2>2, <3>1
  <2>4. TypeOK'
    <3>1. frames' \in Seq([mod : Module, at : Nat \ {0}])
        BY <2>2 DEF Frames
    <3> QED BY <1>1, <1>3, <1>6, <1>8, <3>1 DEF TypeOK
  <2>5. \A i \in 1 .. n - 1 : i \in 1 .. n /\ i # n
      BY <1>15
  <2>6. FramesApart'
    <3>1. /\ \A i, j \in 1 .. n : frames[i].mod = frames[j].mod => i = j
          /\ \A i \in 1 .. n : frames[i].mod \notin seen
        BY <1>2 DEF LoaderInv, FramesApart
    <3>2. \A i \in 1 .. n - 1 : frames[i].mod # m
        BY <1>6, <2>5, <3>1 DEF m
    <3>3. \A i, j \in 1 .. n - 1 : frames'[i].mod = frames'[j].mod => i = j
        BY <2>3, <2>5, <3>1
    <3>4. \A i \in 1 .. n - 1 : frames'[i].mod \notin seen \cup {m}
        BY <2>3, <2>5, <3>1, <3>2
    <3> QED BY <1>3, <2>2, <3>3, <3>4 DEF FramesApart
  <2>7. frames[n - 1].at <= Len(imports[frames[n - 1].mod])
        /\ imports[frames[n - 1].mod][frames[n - 1].at] = m
    <3>1. n - 1 \in 1 .. n - 1 /\ (n - 1) + 1 = n
        BY <1>2, <2>1
    <3> QED BY <3>1 DEF LoaderInv, Nested, m, n
  <2>8. Behind'
    <3>1. \A i \in 1 .. n : /\ frames[i].at <= Len(imports[frames[i].mod]) + 1
                             /\ \A k \in 1 .. frames[i].at - 1 :
                                  imports[frames[i].mod][k] \in seen
        BY <1>2 DEF LoaderInv, Behind
    <3> SUFFICES ASSUME NEW i \in 1 .. n - 1
                 PROVE /\ frames'[i].at <= Len(imports[frames[i].mod]) + 1
                       /\ \A k \in 1 .. frames'[i].at - 1 :
                            imports[frames[i].mod][k] \in seen \cup {m}
      <4>1. imports' = imports /\ seen' = seen \cup {m} /\ DOMAIN frames' = 1 .. n - 1
          BY <1>3, <2>2
      <4>2. \A i \in 1 .. n - 1 : frames'[i].mod = frames[i].mod
          BY <2>3
      <4> QED BY <4>1, <4>2 DEF Behind
    <3>2. CASE i = n - 1
      <4>1. frames[n - 1].at \in Nat /\ Len(imports[frames[n - 1].mod]) \in Nat
        <5>1. imports[frames[n - 1].mod] \in Seq(Path)
            BY <1>1, <1>4, <2>5, <3>2 DEF TypeOK
        <5> QED BY <1>4, <2>5, <3>2, <5>1
      <4>2. \A k \in 1 .. frames[n - 1].at - 1 : imports[frames[n - 1].mod][k] \in seen
          BY <2>5, <3>1, <3>2
      <4>3. frames'[i].at = frames[n - 1].at + 1 /\ frames[i].mod = frames[n - 1].mod
          BY <2>3, <3>2
      <4>4. ASSUME NEW k \in 1 .. frames'[i].at - 1
            PROVE imports[frames[i].mod][k] \in seen \cup {m}
        <5>1. k \in 1 .. frames[n - 1].at - 1 \/ k = frames[n - 1].at
            BY <4>1, <4>3
        <5> QED BY <2>7, <4>2, <4>3, <5>1
      <4>5. frames'[i].at <= Len(imports[frames[i].mod]) + 1
          BY <2>7, <4>1, <4>3
      <4> QED BY <4>4, <4>5
    <3>3. CASE i # n - 1
      <4>1. i \in 1 .. n - 2
          BY <1>15, <3>3
      <4> QED BY <2>3, <2>5, <3>1, <4>1
    <3> QED BY <3>2, <3>3
  <2>9. Nested'
    <3> SUFFICES ASSUME NEW i \in 1 .. n - 2
                 PROVE /\ frames'[i].at <= Len(imports[frames'[i].mod])
                       /\ imports[frames'[i].mod][frames'[i].at] = frames'[i + 1].mod
      <4>1. Len(frames') - 1 = n - 2
          BY <1>2, <2>2
      <4> QED BY <1>3, <4>1 DEF Nested
    <3>1. i \in 1 .. n - 1 /\ i + 1 \in 1 .. n - 1
        BY <1>2
    <3>2. /\ frames[i].at <= Len(imports[frames[i].mod])
          /\ imports[frames[i].mod][frames[i].at] = frames[i + 1].mod
        BY <3>1 DEF LoaderInv, Nested, n
    <3> QED BY <2>3, <3>1, <3>2
  <2>10. Outermost'
    <3>1. 1 \in 1 .. n - 1 /\ frames # << >> /\ frames' # << >>
        BY <1>2, <2>1, <2>2 DEF n
    <3>2. frames'[1].mod = frames[1].mod
        BY <2>3, <3>1
    <3> QED BY <1>2, <1>3, <3>1, <3>2 DEF LoaderInv, Outermost
  <2> QED BY <1>10, <1>11, <1>12, <2>4, <2>6, <2>8, <2>9, <2>10 DEF LoaderInv
<1> QED BY <1>13, <1>14

\* The steps that change no frame but the phase.
LEMMA StartLoader == LoaderInv /\ StartEntry => LoaderInv'
<1> SUFFICES ASSUME LoaderInv, StartEntry PROVE LoaderInv'
    OBVIOUS
<1> USE LoaderAssumption
<1>1. /\ TypeOK /\ phase = "prologue" /\ frames = << >> /\ Prologue \in seen
      /\ imports' = imports /\ seen' = seen /\ order' = order /\ phase' = "entry"
    BY DEF LoaderInv, StartEntry, Outermost
<1>2. CASE Entry \in seen
  <2>1. frames' = << >>
      BY <1>2 DEF StartEntry
  <2>2. TypeOK'
      BY <1>1, <2>1 DEF TypeOK
  <2>3. ProvidersFirst' /\ SeenIsOrder' /\ CircularHere'
      BY <1>1 DEF LoaderInv, ProvidersFirst, SeenIsOrder, CircularHere
  <2>4. FramesApart' /\ Behind' /\ Nested'
      BY <2>1 DEF FramesApart, Behind, Nested
  <2>5. Outermost'
      BY <1>1, <1>2, <2>1 DEF Outermost
  <2> QED BY <2>2, <2>3, <2>4, <2>5 DEF LoaderInv
<1>3. CASE Entry \notin seen
  <2>1. frames' = <<[mod |-> Entry, at |-> 1]>>
      BY <1>3 DEF StartEntry, Frame
  <2>2. TypeOK'
    <3>1. frames' \in Seq([mod : Module, at : Nat \ {0}])
        BY <2>1
    <3> QED BY <1>1, <3>1 DEF TypeOK
  <2>3. ProvidersFirst' /\ SeenIsOrder' /\ CircularHere'
      BY <1>1 DEF LoaderInv, ProvidersFirst, SeenIsOrder, CircularHere
  <2>4. FramesApart' /\ Nested'
      BY <1>1, <1>3, <2>1 DEF FramesApart, Nested
  <2>5. Behind'
    <3>1. imports[Entry] \in Seq(Path)
        BY <1>1 DEF TypeOK
    <3> QED BY <1>1, <2>1, <3>1 DEF Behind
  <2>6. Outermost'
      BY <1>1, <2>1 DEF Outermost
  <2> QED BY <2>2, <2>3, <2>4, <2>5, <2>6 DEF LoaderInv
<1> QED BY <1>2, <1>3

LEMMA EndLoader == LoaderInv /\ (Missing \/ Circular \/ Return) => LoaderInv'
<1> SUFFICES ASSUME LoaderInv, Missing \/ Circular \/ Return PROVE LoaderInv'
    OBVIOUS
<1>1. /\ imports' = imports /\ seen' = seen /\ order' = order /\ frames' = frames
      /\ phase' \in {"missing", "circular", "done"}
    BY DEF Missing, Circular, Return
<1>2. TypeOK'
    BY <1>1 DEF LoaderInv, TypeOK
<1>3. /\ ProvidersFirst' /\ SeenIsOrder' /\ FramesApart' /\ Behind' /\ Nested'
    BY <1>1 DEF LoaderInv, ProvidersFirst, SeenIsOrder, FramesApart, Behind, Nested
<1>4. Outermost'
  <2>1. CASE Return
      BY <1>1, <2>1 DEF Return, LoaderInv, Outermost
  <2>2. CASE Missing \/ Circular
      BY <1>1, <2>2 DEF Missing, Circular, Outermost
  <2> QED BY <2>1, <2>2
<1>5. CircularHere'
  <2>1. CASE Circular
      BY <1>1, <2>1 DEF Circular, Importing, CircularHere, Top, Wanted, Stack
  <2>2. CASE Missing \/ Return
      BY <2>2 DEF Missing, Return, CircularHere
  <2> QED BY <2>1, <2>2
<1> QED BY <1>2, <1>3, <1>4, <1>5 DEF LoaderInv

\* Every state of the loader satisfies the invariant.
THEOREM LoaderInvariant == LoadSpec => []LoaderInv
<1>1. LoaderInv /\ [LoadNext]_loadVars => LoaderInv'
  <2> SUFFICES ASSUME LoaderInv, [LoadNext]_loadVars PROVE LoaderInv'
      OBVIOUS
  <2>1. CASE Missing \/ Circular \/ Return
      BY <2>1, EndLoader
  <2>2. CASE Skip
      BY <2>2, SkipLoader
  <2>3. CASE Descend
      BY <2>3, DescendLoader
  <2>4. CASE Finish
      BY <2>4, FinishLoader
  <2>5. CASE StartEntry
      BY <2>5, StartLoader
  <2>6. CASE UNCHANGED loadVars
    <3>1. /\ imports' = imports /\ seen' = seen /\ order' = order /\ frames' = frames
          /\ phase' = phase
        BY <2>6 DEF loadVars
    <3>2. TypeOK' /\ ProvidersFirst' /\ SeenIsOrder'
        BY <3>1 DEF LoaderInv, TypeOK, ProvidersFirst, SeenIsOrder
    <3>3. FramesApart' /\ Behind' /\ Nested'
        BY <3>1 DEF LoaderInv, FramesApart, Behind, Nested
    <3>4. Outermost' /\ CircularHere'
        BY <3>1 DEF LoaderInv, Outermost, CircularHere, Top, Wanted, Stack
    <3> QED BY <3>2, <3>3, <3>4 DEF LoaderInv
  <2> QED BY <2>1, <2>2, <2>3, <2>4, <2>5, <2>6 DEF LoadNext
<1> QED BY <1>1, InitLoader, PTL DEF LoadSpec

\* Whatever the import graph, the program is in dependency order and holds no
\* file twice, at every point of the loading.
THEOREM ProvidersComeFirst == LoadSpec => []ProvidersFirst
<1>1. LoaderInv => ProvidersFirst
    BY DEF LoaderInv
<1> QED BY <1>1, LoaderInvariant, PTL

\* An import the loader calls circular leads back to a file whose loading is in
\* progress, by a chain of imports.
THEOREM CircularIsCircular == LoadSpec => []CircularIsReal
<1>1. LoaderInv => CircularIsReal
  <2> SUFFICES ASSUME LoaderInv, phase = "circular" PROVE CircularIsReal
      BY DEF CircularIsReal
  <2>1. frames \in Frames /\ Len(frames) \in Nat /\ DOMAIN frames = 1 .. Len(frames)
      BY DEF LoaderInv, TypeOK, Frames
  <2>2. PICK i \in DOMAIN frames : frames[i].mod = Wanted
      BY DEF LoaderInv, CircularHere, Stack
  <2>3. ASSUME NEW j \in i .. Len(frames) - 1
        PROVE \E k \in DOMAIN imports[frames[j].mod] :
                 imports[frames[j].mod][k] = frames[j + 1].mod
    <3>1. j \in 1 .. Len(frames) - 1 /\ j \in 1 .. Len(frames)
        BY <2>1
    <3>2. /\ frames[j].at <= Len(imports[frames[j].mod])
          /\ imports[frames[j].mod][frames[j].at] = frames[j + 1].mod
        BY <3>1 DEF LoaderInv, Nested
    <3>3. frames[j] \in [mod : Module, at : Nat \ {0}]
        BY <2>1, <3>1, ElementOfSeq DEF Frames
    <3>4. imports[frames[j].mod] \in Seq(Path)
        BY <3>3 DEF LoaderInv, TypeOK
    <3>5. frames[j].at \in DOMAIN imports[frames[j].mod]
        BY <3>2, <3>3, <3>4
    <3> QED BY <3>2, <3>5
  <2> QED BY <2>2, <2>3 DEF CircularIsReal
<1> QED BY <1>1, LoaderInvariant, PTL

\* A program that loads holds the entry, the prologue and everything its files
\* import.
THEOREM CompleteProgram == LoadSpec => []CompleteWhenDone
<1>1. LoaderInv => CompleteWhenDone
  <2> SUFFICES ASSUME LoaderInv, phase = "done" PROVE CompleteWhenDone
      BY DEF CompleteWhenDone
  <2>1. seen = {order[i] : i \in DOMAIN order} /\ Entry \in seen /\ Prologue \in seen
      BY DEF LoaderInv, SeenIsOrder, Outermost
  <2>2. ASSUME NEW m \in seen, NEW k \in DOMAIN imports[m]
        PROVE imports[m][k] \in seen
    <3>1. PICK i \in DOMAIN order : order[i] = m
        BY <2>1
    <3>2. PICK j \in 1 .. i - 1 : order[j] = imports[m][k]
        BY <3>1 DEF LoaderInv, ProvidersFirst
    <3>3. Len(order) \in Nat /\ DOMAIN order = 1 .. Len(order)
        BY DEF LoaderInv, TypeOK
    <3>4. j \in DOMAIN order
        BY <3>1, <3>2, <3>3
    <3> QED BY <2>1, <3>2, <3>4
  <2> QED BY <2>1, <2>2 DEF CompleteWhenDone
<1> QED BY <1>1, LoaderInvariant, PTL

-----------------------------------------------------------------------------
(* Numbers.                                                                *)

\* Every set of numbers has a least one.
LEMMA LeastNumber ==
    ASSUME NEW T, T \subseteq Nat, T # {}
    PROVE  \E n \in T : \A m \in T : n <= m
<1>1. PICK n \in T : \A m \in T : ~ (<<m, n>> \in OpToRel(<, Nat))
  BY NatLessThanWellFounded, WFMin
<1>2. \A m \in T : ~(m < n)
  BY <1>1 DEF OpToRel
<1>3. QED
  BY <1>2

\* Induction, stated of the set of numbers that have the property.
LEMMA Induction ==
    ASSUME NEW T, T \subseteq Nat, 0 \in T, \A n \in T : n + 1 \in T
    PROVE  \A n \in Nat : n \in T
<1> SUFFICES ASSUME Nat \ T # {} PROVE FALSE
  OBVIOUS
<1>1. PICK n \in Nat \ T : \A m \in Nat \ T : n <= m
  BY LeastNumber
<1>2. n # 0 /\ n - 1 \in Nat /\ n - 1 < n
  OBVIOUS
<1>3. n - 1 \in T
  BY <1>1, <1>2
<1>4. QED
  BY <1>2, <1>3

\* How many numbers up to n are in T.
Count(T, n) == Cardinality((1 .. n) \cap T)

LEMMA CountNext ==
    ASSUME NEW T, NEW n \in Nat
    PROVE  /\ Count(T, n) \in Nat
           /\ Count(T, 0) = 0
           /\ Count(T, n + 1) = Count(T, n) + IF n + 1 \in T THEN 1 ELSE 0
<1> DEFINE S == (1 .. n) \cap T
<1>1. IsFiniteSet(1 .. n) /\ S \in SUBSET (1 .. n)
  BY FS_Interval
<1>2. IsFiniteSet(S) /\ Cardinality(S) \in Nat
  BY <1>1, FS_Subset, FS_CardinalityType
<1>3. (1 .. 0) \cap T = {}
  OBVIOUS
<1>4. n + 1 \notin S /\ (1 .. n + 1) \cap T = IF n + 1 \in T THEN S \cup {n + 1} ELSE S
  OBVIOUS
<1>5. Count(T, 0) = 0 /\ Count(T, n) = Cardinality(S)
  BY <1>3, FS_EmptySet DEF Count
<1>6. Count(T, n + 1) = Cardinality(IF n + 1 \in T THEN S \cup {n + 1} ELSE S)
  BY <1>4 DEF Count
<1> HIDE DEF S
<1>7. Cardinality(S \cup {n + 1}) = Cardinality(S) + 1
  BY <1>2, <1>4, FS_AddElement
<1>8. QED
  BY <1>2, <1>5, <1>6, <1>7

-----------------------------------------------------------------------------
(* Sequences of forms, of which a receiver takes the part before the       *)
(* first error.                                                            *)

Positions == Nat \ {Err}

LEMMA ErrFacts == Err \notin Positions /\ \A l \in Positions : l \in Nat /\ l >= 1
BY DEF Positions, Err

HasErr(s) == \E i \in DOMAIN s : s[i] = Err

Before(s, i) == \A j \in 1 .. i : s[j] # Err

\* The part of s before its first error is the forms T, in order.
Lists(s, T) ==
    /\ \A i \in DOMAIN s : Before(s, i) => s[i] \in T
    /\ \A i, j \in DOMAIN s : i < j /\ Before(s, j) => s[i] < s[j]
    /\ \A l \in T : \E i \in DOMAIN s : Before(s, i) /\ s[i] = l

\* At the end of the sequence, or at an error, there is no form left.
LEMMA ListsNothing ==
    ASSUME NEW s \in Seq(Nat), NEW T, Lists(s, T), s = << >> \/ Head(s) = Err
    PROVE  T = {}
<1> SUFFICES ASSUME NEW l \in T PROVE FALSE
  OBVIOUS
<1>1. PICK i \in DOMAIN s : Before(s, i)
  BY DEF Lists
<1>2. i \in 1 .. Len(s) /\ s # << >> /\ 1 \in 1 .. i
  BY <1>1
<1>3. s[1] # Err
  BY <1>1, <1>2 DEF Before
<1>4. QED
  BY <1>2, <1>3

\* Otherwise the first value is the least form.
LEMMA ListsHead ==
    ASSUME NEW s \in Seq(Nat), NEW T, Lists(s, T), s # << >>, Head(s) # Err
    PROVE  /\ Head(s) \in T /\ Head(s) \in Positions
           /\ \A l \in T : Head(s) <= l
           /\ Lists(Tail(s), T \ {Head(s)})
           /\ HasErr(Tail(s)) <=> HasErr(s)
<1> USE ErrFacts
<1>1. 1 \in DOMAIN s /\ s[1] = Head(s) /\ DOMAIN s = 1 .. Len(s) /\ Head(s) \in Positions
  BY DEF Positions, Err
<1>2. Before(s, 1)
  BY <1>1 DEF Before
<1>3. Head(s) \in T
  BY <1>1, <1>2 DEF Lists
<1>4. \A j \in DOMAIN s : Before(s, j) => s[j] \in Positions
  BY <1>1 DEF Before, Positions, Err
<1>5. \A j \in DOMAIN s : Before(s, j) /\ j # 1 => s[1] < s[j]
  BY <1>1 DEF Lists
<1>6. \A l \in T : Head(s) <= l
  <2> SUFFICES ASSUME NEW l \in T PROVE Head(s) <= l
    OBVIOUS
  <2>1. PICK i \in DOMAIN s : Before(s, i) /\ s[i] = l
    BY DEF Lists
  <2>2. CASE i = 1
    BY <1>1, <2>1, <2>2
  <2>3. CASE i # 1
    BY <1>1, <1>4, <1>5, <2>1, <2>3
  <2>4. QED
    BY <2>2, <2>3
<1> DEFINE t == Tail(s)
<1>7. /\ t \in Seq(Nat) /\ Len(t) = Len(s) - 1 /\ DOMAIN t = 1 .. Len(t)
      /\ \A i \in DOMAIN t : t[i] = s[i + 1] /\ i + 1 \in DOMAIN s
  BY <1>1
<1>8. \A i \in DOMAIN s : i # 1 => i - 1 \in DOMAIN t /\ s[i] = t[i - 1]
  BY <1>1, <1>7
<1> HIDE DEF t
<1>9. \A i \in DOMAIN t : Before(t, i) <=> Before(s, i + 1)
  <2> SUFFICES ASSUME NEW i \in DOMAIN t PROVE Before(t, i) <=> Before(s, i + 1)
    OBVIOUS
  <2>0. i \in 1 .. Len(t) /\ Len(t) \in Nat /\ Len(s) \in Nat
    BY <1>7
  <2>01. i \in Nat /\ i + 1 <= Len(s) /\ DOMAIN s = 1 .. Len(s)
    BY <1>1, <1>7, <2>0
  <2>1. ASSUME Before(t, i), NEW j \in 1 .. i + 1 PROVE s[j] # Err
    <3>1. CASE j = 1
      BY <1>1, <3>1
    <3>2. CASE j # 1
      <4>1. j - 1 \in 1 .. i /\ j \in DOMAIN s
        BY <2>0, <2>01, <3>2
      <4>2. QED
        BY <1>8, <2>1, <3>2, <4>1 DEF Before
    <3>3. QED
      BY <3>1, <3>2
  <2>2. ASSUME Before(s, i + 1), NEW j \in 1 .. i PROVE t[j] # Err
    <3>1. j \in DOMAIN t /\ j + 1 \in 1 .. i + 1
      <4>1. j \in Nat /\ 1 <= j /\ j <= i /\ i \in Nat /\ i <= Len(t)
        BY <2>0
      <4>2. j \in 1 .. Len(t) /\ j + 1 \in 1 .. i + 1
        BY <4>1, <2>0
      <4>3. QED
        BY <4>2, <1>7
    <3>2. QED
      BY <1>7, <2>2, <3>1 DEF Before
  <2>3. QED
    BY <2>1, <2>2 DEF Before
<1>10. Lists(t, T \ {Head(s)})
  <2>1. ASSUME NEW i \in DOMAIN t, Before(t, i) PROVE t[i] \in T \ {Head(s)}
    <3>1. i + 1 \in DOMAIN s /\ Before(s, i + 1) /\ i + 1 # 1 /\ t[i] = s[i + 1]
      BY <1>7, <1>9, <2>1
    <3>2. s[i + 1] \in T /\ s[1] < s[i + 1] /\ s[i + 1] \in Positions
      BY <1>4, <1>5, <3>1 DEF Lists
    <3>3. QED
      BY <1>1, <3>1, <3>2
  <2>2. ASSUME NEW i \in DOMAIN t, NEW j \in DOMAIN t, i < j, Before(t, j) PROVE t[i] < t[j]
    <3>1. i + 1 < j + 1
      BY <1>7, <2>2
    <3>2. QED
      BY <1>7, <1>9, <2>2, <3>1 DEF Lists
  <2>3. ASSUME NEW l \in T \ {Head(s)} PROVE \E i \in DOMAIN t : Before(t, i) /\ t[i] = l
    <3>1. PICK i \in DOMAIN s : Before(s, i) /\ s[i] = l
      BY DEF Lists
    <3>2. i # 1
      BY <1>1, <3>1
    <3>3. i - 1 \in DOMAIN t /\ t[i - 1] = l /\ (i - 1) + 1 = i
      BY <1>1, <1>8, <3>1, <3>2
    <3>4. QED
      BY <1>9, <3>1, <3>3
  <2>4. QED
    BY <2>1, <2>2, <2>3 DEF Lists
<1>11. HasErr(t) <=> HasErr(s)
  <2>1. ASSUME HasErr(t) PROVE HasErr(s)
    BY <1>7, <2>1 DEF HasErr
  <2>2. ASSUME HasErr(s) PROVE HasErr(t)
    <3>1. PICK i \in DOMAIN s : s[i] = Err
      BY <2>2 DEF HasErr
    <3>2. i # 1
      BY <1>1, <3>1
    <3>3. QED
      BY <1>8, <3>1, <3>2 DEF HasErr
  <2>3. QED
    BY <2>1, <2>2
<1>12. QED
  BY <1>1, <1>3, <1>6, <1>10, <1>11 DEF t

LEMMA AppendFacts ==
    ASSUME NEW s \in Seq(Nat), NEW v \in Nat
    PROVE  LET t == Append(s, v) IN
           /\ Len(t) = Len(s) + 1 /\ DOMAIN s = 1 .. Len(s) /\ DOMAIN t = 1 .. Len(s) + 1
           /\ Len(s) \in Nat
           /\ \A i \in DOMAIN s : t[i] = s[i] /\ (Before(t, i) <=> Before(s, i))
           /\ t[Len(s) + 1] = v
           /\ HasErr(t) <=> HasErr(s) \/ v = Err
           /\ Before(t, Len(s) + 1) <=> ~HasErr(s) /\ v # Err
<1> DEFINE t == Append(s, v)
<1>1. /\ Len(t) = Len(s) + 1 /\ DOMAIN s = 1 .. Len(s) /\ DOMAIN t = 1 .. Len(s) + 1
      /\ Len(s) \in Nat /\ \A i \in DOMAIN s : t[i] = s[i]
      /\ t[Len(s) + 1] = v
  OBVIOUS
<1> HIDE DEF t
<1>2. \A i \in DOMAIN s : Before(t, i) <=> Before(s, i)
  <2> SUFFICES ASSUME NEW i \in DOMAIN s PROVE Before(t, i) <=> Before(s, i)
    OBVIOUS
  <2>1. \A j \in 1 .. i : j \in DOMAIN s
    BY <1>1
  <2>2. QED
    BY <1>1, <2>1 DEF Before
<1>3. HasErr(t) <=> HasErr(s) \/ v = Err
  <2>1. DOMAIN t = DOMAIN s \cup {Len(s) + 1}
    BY <1>1
  <2>2. QED
    BY <1>1, <2>1 DEF HasErr
<1>4. Before(t, Len(s) + 1) <=> ~HasErr(s) /\ v # Err
  <2>1. 1 .. Len(s) + 1 = DOMAIN t
    BY <1>1
  <2>2. QED
    BY <1>3, <2>1 DEF Before, HasErr
<1>5. QED
  BY <1>1, <1>2, <1>3, <1>4 DEF t

\* A form behind the forms listed so far is listed too.
LEMMA ListsAppend ==
    ASSUME NEW s \in Seq(Nat), NEW T, Lists(s, T), ~HasErr(s),
           NEW v \in Positions, \A l \in T : l < v
    PROVE  Lists(Append(s, v), T \cup {v}) /\ ~HasErr(Append(s, v))
<1> DEFINE t == Append(s, v)
<1>0. v \in Nat /\ v # Err
  BY ErrFacts DEF Positions, Err
<1>1. /\ DOMAIN s = 1 .. Len(s) /\ DOMAIN t = 1 .. Len(s) + 1 /\ Len(s) \in Nat
      /\ \A i \in DOMAIN s : t[i] = s[i] /\ (Before(t, i) <=> Before(s, i))
      /\ t[Len(s) + 1] = v /\ Before(t, Len(s) + 1) /\ ~HasErr(t)
  BY <1>0, AppendFacts
<1> HIDE DEF t
<1>2. \A i \in DOMAIN t : i \in DOMAIN s \/ i = Len(s) + 1
  BY <1>1
<1>3. \A i \in DOMAIN s : Before(s, i)
  BY <1>1 DEF Before, HasErr
<1>4. \A i \in DOMAIN s : t[i] \in T /\ t[i] < v
  BY <1>1, <1>3 DEF Lists
<1>5. ASSUME NEW i \in DOMAIN t, NEW j \in DOMAIN t, i < j PROVE t[i] < t[j]
  <2>1. i \in DOMAIN s
    BY <1>1, <1>5
  <2>2. CASE j \in DOMAIN s
    BY <1>1, <1>3, <1>5, <2>1, <2>2 DEF Lists
  <2>3. CASE j = Len(s) + 1
    BY <1>1, <1>4, <2>1, <2>3
  <2>4. QED
    BY <1>2, <2>2, <2>3
<1>6. \A l \in T : \E i \in DOMAIN s : Before(t, i) /\ t[i] = l
  BY <1>1 DEF Lists
<1>7. DOMAIN s \subseteq DOMAIN t /\ Len(s) + 1 \in DOMAIN t
  BY <1>1
<1>8. QED
  BY <1>1, <1>2, <1>4, <1>5, <1>6, <1>7 DEF Lists, t

\* Nothing behind an error is listed.
LEMMA ListsBehindErr ==
    ASSUME NEW s \in Seq(Nat), NEW T, Lists(s, T), NEW v \in Nat, HasErr(s) \/ v = Err
    PROVE  Lists(Append(s, v), T) /\ HasErr(Append(s, v))
<1> DEFINE t == Append(s, v)
<1>1. /\ DOMAIN s = 1 .. Len(s) /\ DOMAIN t = 1 .. Len(s) + 1 /\ Len(s) \in Nat
      /\ \A i \in DOMAIN s : t[i] = s[i] /\ (Before(t, i) <=> Before(s, i))
      /\ HasErr(t) /\ ~Before(t, Len(s) + 1)
  BY AppendFacts
<1> HIDE DEF t
<1>2. \A i \in DOMAIN t : Before(t, i) => i \in DOMAIN s
  BY <1>1
<1>3. DOMAIN s \subseteq DOMAIN t
  BY <1>1
<1>4. ASSUME NEW i \in DOMAIN t, NEW j \in DOMAIN t, i < j, Before(t, j) PROVE t[i] < t[j]
  <2>1. j \in DOMAIN s /\ i \in DOMAIN s
    BY <1>1, <1>2, <1>4
  <2>2. QED
    BY <1>1, <1>4, <2>1 DEF Lists
<1>5. QED
  BY <1>1, <1>2, <1>3, <1>4 DEF Lists, t

-----------------------------------------------------------------------------
(* What a file says: nesting, errors and forms up to a position.           *)

FileKinds == {"atom", "open", "comment", "close", "bad", "odd"}

LEMMA FileFacts ==
    ASSUME file \in Files
    PROVE  /\ Length \in Nat /\ Length <= MaxTokens /\ MaxTokens \in Nat
           /\ file \in Seq(FileKinds) /\ Length = Len(file)
           /\ \A i \in 1 .. Length : file[i] \in FileKinds
BY FrontEndAssumption DEF Length, FileKinds

LEMMA DepthFacts ==
    ASSUME file \in Files
    PROVE  /\ \A i \in 0 .. Length : Depth(i) \in Int
           /\ Depth(0) = 0
           /\ \A i \in 1 .. Length :
                 /\ file[i] \in Openers => Depth(i) = Depth(i - 1) + 1
                 /\ file[i] = "close" => Depth(i) = Depth(i - 1) - 1
                 /\ file[i] \notin Openers \cup {"close"} => Depth(i) = Depth(i - 1)
<1> DEFINE O == {j \in Nat : file[j] \in Openers}
           C == {j \in Nat : file[j] = "close"}
<1>1. \A i \in Nat : Depth(i) = Count(O, i) - Count(C, i)
  <2> SUFFICES ASSUME NEW i \in Nat PROVE Depth(i) = Count(O, i) - Count(C, i)
    OBVIOUS
  <2>1. /\ {j \in 1 .. i : file[j] \in Openers} = (1 .. i) \cap O
        /\ {j \in 1 .. i : file[j] = "close"} = (1 .. i) \cap C
    OBVIOUS
  <2> HIDE DEF O, C
  <2>2. QED
    BY <2>1 DEF Depth, Count
<1>2. \A i \in Nat : (i \in O <=> file[i] \in Openers) /\ (i \in C <=> file[i] = "close")
  OBVIOUS
<1> HIDE DEF O, C
<1>3. 0 \in Nat /\ \A i \in Nat : Depth(i) \in Int
  BY <1>1, CountNext
<1>4. Depth(0) = 0
  BY <1>1, <1>3, CountNext
<1>5. ASSUME NEW i \in 1 .. Length
      PROVE  /\ file[i] \in Openers => Depth(i) = Depth(i - 1) + 1
             /\ file[i] = "close" => Depth(i) = Depth(i - 1) - 1
             /\ file[i] \notin Openers \cup {"close"} => Depth(i) = Depth(i - 1)
  <2>1. i - 1 \in Nat /\ i \in Nat /\ i - 1 + 1 = i
    BY FileFacts
  <2> DEFINE k == i - 1
  <2>2. k \in Nat /\ k + 1 = i
    BY <2>1
  <2> HIDE DEF k
  <2>3. /\ Count(O, k) \in Nat /\ Count(O, i) = Count(O, k) + IF i \in O THEN 1 ELSE 0
        /\ Count(C, k) \in Nat /\ Count(C, i) = Count(C, k) + IF i \in C THEN 1 ELSE 0
    BY <2>2, CountNext
  <2>5. ~(i \in O /\ i \in C)
    BY <1>2, <2>1 DEF Openers
  <2>6. Depth(i) = Depth(k) + (IF i \in O THEN 1 ELSE 0) - (IF i \in C THEN 1 ELSE 0)
    BY <1>1, <2>1, <2>2, <2>3
  <2>7. Depth(k) \in Int
    BY <1>3, <2>2
  <2>8. QED
    BY <1>2, <2>1, <2>5, <2>6, <2>7 DEF k
<1>6. QED
  BY <1>3, <1>4, <1>5, FileFacts

\* Where what begins at s is complete.
LEMMA EndFacts ==
    ASSUME file \in Files, NEW s \in 1 .. Length
    PROVE  /\ EndOf(s) \in (s .. Length) \cup {Never}
           /\ EndOf(s) \in Nat /\ s <= EndOf(s) /\ Length < Never
           /\ EndOf(s) <= Length => Depth(EndOf(s)) = Depth(s - 1)
           /\ \A e \in s .. Length : Depth(e) = Depth(s - 1) => EndOf(s) <= e
           /\ \A e \in s .. Length : e < EndOf(s) => Depth(e) # Depth(s - 1)
<1> USE FileFacts
<1>1. Never \in Nat /\ Length < Never
  BY DEF Never
<1>2. Ends(s) \subseteq Nat /\ Ends(s) \subseteq s .. Length
  BY DEF Ends
<1>3. CASE Ends(s) = {}
  <2>1. EndOf(s) = Never
    BY <1>3 DEF EndOf
  <2>2. QED
    BY <1>1, <1>3, <2>1 DEF Ends
<1>4. CASE Ends(s) # {}
  <2>1. \E e \in Ends(s) : \A d \in Ends(s) : e <= d
    BY <1>2, <1>4, LeastNumber
  <2>2. EndOf(s) \in Ends(s) /\ \A d \in Ends(s) : EndOf(s) <= d
    BY <1>4, <2>1, Zenon DEF EndOf, Min
  <2>3. EndOf(s) \in s .. Length /\ Depth(EndOf(s)) = Depth(s - 1)
    BY <2>2 DEF Ends
  <2>4. \A e \in s .. Length : Depth(e) = Depth(s - 1) => EndOf(s) <= e
    BY <2>2 DEF Ends
  <2>5. QED
    BY <1>1, <2>3, <2>4
<1>5. QED
  BY <1>3, <1>4

\* Where a reader must give up.
LEMMA WrongFacts ==
    ASSUME file \in Files
    PROVE  /\ FirstWrong \in Nat /\ FirstWrong >= 1
           /\ \A i \in Wrong : FirstWrong <= i
           /\ FirstWrong <= Length => FirstWrong \in Wrong
           /\ FirstWrong > Length =>
                 FirstWrong = IF Depth(Length) > 0 THEN Length + 1 ELSE Never + 1
           /\ Wrong \subseteq 1 .. Length
<1> USE FileFacts
<1>1. Wrong \subseteq Nat /\ Wrong \subseteq 1 .. Length
  BY DEF Wrong
<1>2. CASE Wrong = {}
  BY <1>2 DEF FirstWrong, Never
<1>3. CASE Wrong # {}
  <2>1. \E e \in Wrong : \A d \in Wrong : e <= d
    BY <1>1, <1>3, LeastNumber
  <2>2. FirstWrong \in Wrong /\ \A d \in Wrong : FirstWrong <= d
    BY <1>3, <2>1, Zenon DEF FirstWrong, Min
  <2>3. QED
    BY <1>1, <2>2
<1>4. QED
  BY <1>2, <1>3

\* Before that no list is closed that was not opened.
LEMMA DepthNonneg ==
    ASSUME file \in Files, NEW p \in 0 .. Length, p < FirstWrong
    PROVE  \A j \in 0 .. p : Depth(j) >= 0
<1> USE FileFacts, DepthFacts
<1> DEFINE P(j) == j <= p => Depth(j) >= 0
           T == {j \in Nat : P(j)}
<1>1. P(0)
  OBVIOUS
<1>2. ASSUME NEW j \in Nat, P(j) PROVE P(j + 1)
  <2> SUFFICES ASSUME j + 1 <= p PROVE Depth(j + 1) >= 0
    OBVIOUS
  <2>1. j + 1 \in 1 .. Length /\ j \in 0 .. Length /\ j + 1 - 1 = j /\ Depth(j) >= 0
    BY <1>2
  <2>2. j + 1 \notin Wrong
    BY <2>1, WrongFacts
  <2>3. CASE file[j + 1] = "close"
    BY <2>1, <2>2, <2>3 DEF Wrong
  <2>4. CASE file[j + 1] # "close"
    BY <2>1, <2>4
  <2>5. QED
    BY <2>3, <2>4
<1>3. \A j \in Nat : P(j)
  <2> HIDE FileFacts, DepthFacts DEF P
  <2>1. T \subseteq Nat /\ 0 \in T /\ \A j \in T : j + 1 \in T
    BY <1>1, <1>2
  <2> HIDE DEF T
  <2>2. \A j \in Nat : j \in T
    BY <2>1, Induction
  <2>3. QED
    BY <2>2 DEF T
<1>4. QED
  BY <1>3

\* Inside a list one is deeper than in front of it.
LEMMA Deeper ==
    ASSUME file \in Files, NEW s \in 1 .. Length, file[s] \in Openers,
           NEW p \in s .. Length, p < EndOf(s)
    PROVE  \A e \in s .. p : Depth(e) > Depth(s - 1)
<1> USE FileFacts, DepthFacts
<1> DEFINE P(k) == s + k <= p => Depth(s + k) > Depth(s - 1)
           T == {k \in Nat : P(k)}
<1>0. s \in Nat /\ s - 1 \in 0 .. Length /\ Depth(s - 1) \in Int /\ Depth(s) = Depth(s - 1) + 1
  <2>1. s \in Nat /\ s - 1 \in 0 .. Length
    OBVIOUS
  <2>2. QED
    BY <2>1
<1>1. P(0)
  BY <1>0
<1>2. ASSUME NEW k \in Nat, P(k) PROVE P(k + 1)
  <2> SUFFICES ASSUME s + (k + 1) <= p PROVE Depth(s + (k + 1)) > Depth(s - 1)
    OBVIOUS
  <2> DEFINE e == s + (k + 1)
  <2>1. e \in 1 .. Length /\ e \in s .. Length /\ e < EndOf(s) /\ e - 1 = s + k /\ s + k <= p
    BY EndFacts
  <2>2. Depth(e) # Depth(s - 1)
    BY <2>1, EndFacts
  <2>3. Depth(e - 1) > Depth(s - 1) /\ Depth(e - 1) \in Int /\ Depth(e) \in Int
    BY <1>2, <2>1
  <2> HIDE DEF e
  <2>4. Depth(e) >= Depth(e - 1) - 1
    <3>1. e \in 1 .. Length
      BY <2>1
    <3>2. Depth(e) = Depth(e - 1) + 1 \/ Depth(e) = Depth(e - 1) - 1 \/ Depth(e) = Depth(e - 1)
      BY <3>1, DepthFacts, Zenon
    <3>3. QED
      BY <2>3, <3>2
  <2>5. Depth(e) > Depth(s - 1)
    BY <1>0, <2>2, <2>3, <2>4
  <2>6. QED
    BY <2>5 DEF e
<1>3. \A k \in Nat : P(k)
  <2> HIDE FileFacts, DepthFacts DEF P
  <2>1. T \subseteq Nat /\ 0 \in T /\ \A j \in T : j + 1 \in T
    BY <1>1, <1>2
  <2> HIDE DEF T
  <2>2. \A j \in Nat : j \in T
    BY <2>1, Induction
  <2>3. QED
    BY <2>2 DEF T
<1>4. ASSUME NEW e \in s .. p PROVE Depth(e) > Depth(s - 1)
  <2>1. e - s \in Nat /\ s + (e - s) = e /\ e <= p
    BY <1>0
  <2>2. P(e - s)
    BY <1>3, <2>1
  <2>3. QED
    BY <2>1, <2>2
<1>5. QED
  BY <1>4

-----------------------------------------------------------------------------
(* Reading one more token.                                                 *)

\* The lists that are open behind position p, and the forms read by then.
OpenAt(p) == {s \in 1 .. p : file[s] \in Openers /\ EndOf(s) > p}
ReadForms(p) == {s \in TopForms : EndOf(s) <= p}

LEMMA SingleToken ==
    ASSUME file \in Files, NEW s \in 1 .. Length, file[s] \notin Openers \cup {"close"}
    PROVE  EndOf(s) = s
<1>1. Depth(s) = Depth(s - 1)
  BY DepthFacts
<1>2. s \in s .. Length
  BY FileFacts
<1>3. EndOf(s) <= s /\ s <= EndOf(s) /\ EndOf(s) \in Nat /\ s \in Nat
  BY <1>1, <1>2, EndFacts, FileFacts
<1>4. QED
  BY <1>3

LEMMA OpenFacts ==
    ASSUME file \in Files, NEW p \in 0 .. Length, NEW s \in OpenAt(p)
    PROVE  /\ s \in 1 .. Length /\ s <= p /\ s \in Nat /\ file[s] \in Openers
           /\ p < EndOf(s) /\ EndOf(s) \in Nat
           /\ \A e \in s .. p : Depth(e) > Depth(s - 1)
           /\ Depth(s - 1) \in Int /\ Depth(p) > Depth(s - 1) /\ Depth(p) \in Int
<1>1. s \in 1 .. Length /\ s <= p /\ s \in Nat /\ file[s] \in Openers
  BY FileFacts DEF OpenAt
<1>2. p < EndOf(s) /\ EndOf(s) \in Nat
  BY <1>1, EndFacts DEF OpenAt
<1>3. p \in s .. Length /\ p \in s .. p
  BY <1>1, FileFacts
<1>4. \A e \in s .. p : Depth(e) > Depth(s - 1)
  BY <1>1, <1>2, <1>3, Deeper
<1>5. s - 1 \in 0 .. Length
  BY <1>1, FileFacts
<1>6. QED
  BY <1>1, <1>2, <1>3, <1>4, <1>5, DepthFacts

\* A list that is open stays so unless a token brings back the depth in front of it.
LEMMA StaysOpen ==
    ASSUME file \in Files, NEW p \in 0 .. Length - 1, NEW s \in OpenAt(p),
           Depth(p + 1) # Depth(s - 1)
    PROVE  s \in OpenAt(p + 1)
<1>1. p + 1 \in 1 .. Length /\ p \in 0 .. Length
  BY FileFacts
<1>2. s \in 1 .. Length /\ s <= p /\ file[s] \in Openers /\ p < EndOf(s) /\ EndOf(s) \in Nat
  BY <1>1, OpenFacts
<1>3. EndOf(s) # p + 1
  BY <1>1, <1>2, EndFacts
<1>4. QED
  BY <1>1, <1>2, <1>3 DEF OpenAt

LEMMA OpenBefore ==
    ASSUME file \in Files, NEW p \in 0 .. Length - 1
    PROVE  OpenAt(p + 1) \subseteq OpenAt(p) \cup {p + 1}
<1> SUFFICES ASSUME NEW s \in OpenAt(p + 1), s # p + 1 PROVE s \in OpenAt(p)
  OBVIOUS
<1>1. p + 1 \in 0 .. Length
  BY FileFacts
<1>2. s \in 1 .. Length /\ s <= p + 1 /\ file[s] \in Openers /\ p + 1 < EndOf(s) /\ EndOf(s) \in Nat
  BY <1>1, OpenFacts
<1>3. QED
  BY <1>2 DEF OpenAt

LEMMA OpenAtSingle ==
    ASSUME file \in Files, NEW p \in 0 .. Length - 1, file[p + 1] \notin Openers \cup {"close"}
    PROVE  OpenAt(p + 1) = OpenAt(p) /\ Depth(p + 1) = Depth(p)
<1>1. p + 1 \in 1 .. Length /\ p \in 0 .. Length /\ p + 1 - 1 = p
  BY FileFacts
<1>2. Depth(p + 1) = Depth(p)
  BY <1>1, DepthFacts
<1>3. p + 1 \notin OpenAt(p + 1)
  BY DEF OpenAt
<1>4. ASSUME NEW s \in OpenAt(p) PROVE s \in OpenAt(p + 1)
  <2>1. Depth(p + 1) # Depth(s - 1)
    BY <1>1, <1>2, OpenFacts
  <2>2. QED
    BY <2>1, StaysOpen
<1>5. QED
  BY <1>2, <1>3, <1>4, OpenBefore

LEMMA OpenAtOpener ==
    ASSUME file \in Files, NEW p \in 0 .. Length - 1, file[p + 1] \in Openers
    PROVE  OpenAt(p + 1) = OpenAt(p) \cup {p + 1} /\ Depth(p + 1) = Depth(p) + 1
<1>1. p + 1 \in 1 .. Length /\ p \in 0 .. Length /\ p + 1 - 1 = p /\ p + 1 \in (p + 1) .. Length
  BY FileFacts
<1>2. Depth(p + 1) = Depth(p) + 1 /\ Depth(p) \in Int
  BY <1>1, DepthFacts
<1>3. p + 1 \in OpenAt(p + 1)
  <2>1. EndOf(p + 1) \in Nat /\ p + 1 <= EndOf(p + 1)
    BY <1>1, EndFacts
  <2>2. EndOf(p + 1) # p + 1
    BY <1>1, <1>2, <2>1, EndFacts
  <2>3. QED
    BY <1>1, <2>1, <2>2 DEF OpenAt
<1>4. ASSUME NEW s \in OpenAt(p) PROVE s \in OpenAt(p + 1)
  <2>1. Depth(p + 1) # Depth(s - 1)
    BY <1>1, <1>2, OpenFacts
  <2>2. QED
    BY <2>1, StaysOpen
<1>5. QED
  BY <1>2, <1>3, <1>4, OpenBefore

\* The innermost list t is closed, the others stay open.
LEMMA OpenAtClose ==
    ASSUME file \in Files, NEW p \in 0 .. Length - 1, file[p + 1] = "close",
           NEW t \in OpenAt(p), Depth(t - 1) = Depth(p) - 1,
           \A s \in OpenAt(p) \ {t} : Depth(s - 1) < Depth(p) - 1
    PROVE  /\ OpenAt(p + 1) = OpenAt(p) \ {t} /\ Depth(p + 1) = Depth(p) - 1
           /\ EndOf(t) = p + 1
<1>1. p + 1 \in 1 .. Length /\ p \in 0 .. Length /\ p + 1 - 1 = p
  BY FileFacts
<1>2. Depth(p + 1) = Depth(p) - 1 /\ Depth(p) \in Int
  BY <1>1, DepthFacts
<1>3. p + 1 \notin OpenAt(p + 1)
  BY DEF OpenAt, Openers
<1>4. EndOf(t) = p + 1
  <2>1. t \in 1 .. Length /\ t <= p /\ p < EndOf(t) /\ EndOf(t) \in Nat
    BY <1>1, OpenFacts
  <2>2. p + 1 \in t .. Length
    BY <1>1, <2>1
  <2>3. EndOf(t) <= p + 1
    BY <1>2, <2>1, <2>2, EndFacts
  <2>4. QED
    BY <2>1, <2>3
<1>5. t \notin OpenAt(p + 1)
  BY <1>4 DEF OpenAt
<1>6. ASSUME NEW s \in OpenAt(p) \ {t} PROVE s \in OpenAt(p + 1)
  <2>1. Depth(p + 1) # Depth(s - 1)
    BY <1>1, <1>2, OpenFacts
  <2>2. QED
    BY <2>1, StaysOpen
<1>7. QED
  BY <1>2, <1>3, <1>4, <1>5, <1>6, OpenBefore

\* What stands outside of all lists is not in a comment.
LEMMA NotDropped ==
    ASSUME file \in Files, NEW s \in 1 .. Length, s - 1 < FirstWrong, Depth(s - 1) = 0,
           file[s] # "comment"
    PROVE  ~Dropped(s)
<1> SUFFICES ASSUME NEW k \in 1 .. s, file[k] = "comment", s <= EndOf(k) PROVE FALSE
  BY DEF Dropped
<1>1. k \in 1 .. s - 1 /\ k \in 1 .. Length /\ s - 1 \in k .. Length /\ s - 1 \in 0 .. Length
      /\ k - 1 \in 0 .. s - 1 /\ s - 1 \in k .. s - 1
  BY FileFacts
<1>2. file[k] \in Openers
  BY DEF Openers
<1>3. s - 1 < EndOf(k)
  BY <1>1, EndFacts
<1>4. Depth(s - 1) > Depth(k - 1)
  BY <1>1, <1>2, <1>3, Deeper
<1>5. Depth(k - 1) >= 0
  BY <1>1, DepthNonneg
<1>6. k - 1 \in 0 .. Length
  BY <1>1, FileFacts
<1>7. Depth(k - 1) \in Int
  BY <1>6, DepthFacts
<1>8. QED
  BY <1>4, <1>5, <1>7

LEMMA TopFacts ==
    ASSUME file \in Files, NEW s \in TopForms
    PROVE  /\ s \in 1 .. Length /\ s \in Nat /\ s >= 1 /\ Depth(s - 1) = 0 /\ file[s] # "close"
           /\ EndOf(s) < FirstWrong /\ ~Dropped(s) /\ file[s] # "comment"
           /\ EndOf(s) \in Nat /\ s <= EndOf(s)
<1>1. s \in 1 .. Length /\ Depth(s - 1) = 0 /\ file[s] # "close" /\ EndOf(s) < FirstWrong /\ ~Dropped(s)
  BY DEF TopForms
<1>2. EndOf(s) \in Nat /\ s <= EndOf(s) /\ s \in Nat /\ s \in 1 .. s
  BY <1>1, EndFacts, FileFacts
<1>3. file[s] # "comment"
  BY <1>1, <1>2 DEF Dropped
<1>4. QED
  BY <1>1, <1>2, <1>3

\* Forms follow one another.
LEMMA TopOrder ==
    ASSUME file \in Files, NEW s \in TopForms, NEW f \in TopForms, s < f
    PROVE  EndOf(s) < f
<1>1. /\ s \in 1 .. Length /\ Depth(s - 1) = 0 /\ s \in Nat /\ EndOf(s) \in Nat
      /\ f \in 1 .. Length /\ Depth(f - 1) = 0 /\ f \in Nat
  BY TopFacts
<1>2. f - 1 \in s .. Length
  BY <1>1, FileFacts
<1>3. EndOf(s) <= f - 1
  BY <1>1, <1>2, EndFacts
<1>4. QED
  BY <1>1, <1>3

\* A form that ends with a token is that token or a list open before it.
LEMMA EndsHere ==
    ASSUME file \in Files, NEW p \in 0 .. Length - 1, NEW s \in TopForms, EndOf(s) = p + 1
    PROVE  /\ Depth(p + 1) = 0
           /\ file[p + 1] # "close" => s = p + 1
           /\ file[p + 1] = "close" => s \in OpenAt(p)
<1>1. /\ s \in 1 .. Length /\ Depth(s - 1) = 0 /\ s \in Nat /\ s <= p + 1 /\ file[s] # "close"
      /\ p + 1 \in 1 .. Length /\ p \in 0 .. Length /\ p + 1 - 1 = p
  BY TopFacts, FileFacts
<1>2. Depth(p + 1) = 0
  BY <1>1, EndFacts
<1>3. CASE s = p + 1
  BY <1>1, <1>2, <1>3
<1>4. CASE s # p + 1
  <2>1. file[s] \in Openers
    BY <1>1, <1>4, SingleToken
  <2>2. s \in OpenAt(p)
    BY <1>1, <1>4, <2>1 DEF OpenAt
  <2>3. Depth(p) > 0 /\ Depth(p) \in Int
    BY <1>1, <2>2, OpenFacts
  <2>4. file[p + 1] = "close"
    BY <1>1, <1>2, <2>3, DepthFacts
  <2>5. QED
    BY <1>2, <2>2, <2>4
<1>5. QED
  BY <1>3, <1>4

LEMMA ReadNext ==
    ASSUME file \in Files, NEW p \in 0 .. Length
    PROVE  ReadForms(p + 1) = ReadForms(p) \cup {s \in TopForms : EndOf(s) = p + 1}
<1>1. \A s \in TopForms : EndOf(s) \in Nat
  BY TopFacts
<1>2. \A s \in TopForms : EndOf(s) <= p + 1 <=> EndOf(s) <= p \/ EndOf(s) = p + 1
  BY <1>1, FileFacts
<1>3. QED
  BY <1>2 DEF ReadForms

\* Forms are read in the order in which they stand.
LEMMA ReadOrder ==
    ASSUME file \in Files, NEW p \in 0 .. Length, NEW s \in ReadForms(p),
           NEW f \in TopForms, EndOf(f) > p
    PROVE  s < f
<1>1. s \in TopForms /\ EndOf(s) <= p
  BY DEF ReadForms
<1>2. s \in Nat /\ f \in Nat /\ EndOf(s) \in Nat /\ EndOf(f) \in Nat /\ s <= EndOf(s)
  BY <1>1, TopFacts
<1>3. ~(f < s)
  <2> SUFFICES ASSUME f < s PROVE FALSE
    OBVIOUS
  <2>1. EndOf(f) < s
    BY <1>1, TopOrder
  <2>2. QED
    BY <1>1, <1>2, <2>1, FileFacts
<1>4. s # f
  BY <1>1, <1>2, FileFacts
<1>5. QED
  BY <1>2, <1>3, <1>4

\* Without an error at the next token, the reader is not at an error yet.
LEMMA NotWrongYet ==
    ASSUME file \in Files, NEW p \in 0 .. Length - 1, p < FirstWrong
    PROVE  /\ p + 1 \notin Wrong => p + 1 < FirstWrong
           /\ p + 1 \in Wrong => FirstWrong = p + 1
<1>1. FirstWrong \in Nat /\ p \in Nat /\ Length \in Nat /\ p + 1 <= Length
  BY WrongFacts, FileFacts
<1>2. ASSUME p + 1 \notin Wrong PROVE p + 1 < FirstWrong
  BY <1>1, <1>2, WrongFacts
<1>3. ASSUME p + 1 \in Wrong PROVE FirstWrong = p + 1
  BY <1>1, <1>3, WrongFacts
<1>4. QED
  BY <1>2, <1>3

\* At an error, or at the end, all forms have been read.
LEMMA AllRead ==
    ASSUME file \in Files, NEW p \in 0 .. Length,
           FirstWrong = p + 1 \/ (p = Length /\ Depth(Length) = 0)
    PROVE  ReadForms(p) = TopForms
<1> SUFFICES ASSUME NEW s \in TopForms PROVE EndOf(s) <= p
  BY DEF ReadForms
<1>1. s \in 1 .. Length /\ s \in Nat /\ Depth(s - 1) = 0 /\ EndOf(s) < FirstWrong
      /\ file[s] # "close" /\ EndOf(s) \in Nat
  BY TopFacts
<1>2. CASE FirstWrong = p + 1
  BY <1>1, <1>2, FileFacts
<1>3. CASE p = Length /\ Depth(Length) = 0
  <2>1. ASSUME file[s] \in Openers, p < EndOf(s) PROVE FALSE
    <3>1. s \in OpenAt(p) /\ p \in 0 .. Length
      BY <1>1, <1>3, <2>1, FileFacts DEF OpenAt
    <3>2. QED
      BY <1>1, <1>3, <3>1, OpenFacts
  <2>2. ASSUME file[s] \notin Openers PROVE EndOf(s) <= p
    BY <1>1, <1>3, <2>2, SingleToken
  <2>3. QED
    BY <1>1, <2>1, <2>2, FileFacts
<1>4. QED
  BY <1>2, <1>3

-----------------------------------------------------------------------------
(* The inductive invariant.                                                *)

Places == {"run", "end", "idle", "receive", "send", "close", "drain", "collect",
           "parse failed", "expand failed", "done"}
PlacesOf(g) ==
    CASE g = "tokenizer" -> {"run", "end"}
      [] g = "parser" -> {"receive", "send", "close", "drain", "end"}
      [] g = "feeder" -> {"idle", "run", "end"}
      [] g = "expander" -> {"idle", "receive", "send", "close", "end"}
      [] g = "caller" -> {"receive", "collect", "parse failed", "expand failed", "done"}
      [] OTHER -> {"receive", "send", "close", "end"}

PcTypes ==
    /\ closed \in [Channels -> BOOLEAN]
    /\ pc \in [Goroutines -> Places]
    /\ \A g \in Goroutines : pc[g] \in PlacesOf(g)
    /\ \A c \in Channels : closed[c] => pc[c] \in {"drain", "end"}

\* Channels of tokens have positions only, the others errors too.
Items(c) == IF c \in {"tokenizer", "bridge", "adapter"} THEN 1 .. Length ELSE 0 .. Length

BufTypes ==
    /\ buf \in [Channels -> Seq(Nat)]
    /\ \A c \in Channels : buf[c] \in Seq(Items(c))

HandTypes ==
    /\ hand \in [Goroutines -> Nat]
    /\ \A g \in Channels : pc[g] = "send" => hand[g] \in Items(g)

DataTypes ==
    /\ next \in [{"tokenizer", "feeder"} -> Nat]
    /\ stack \in Seq(1 .. Length)
    /\ odd \subseteq 1 .. Length
    /\ forms \in Seq(1 .. Length)
    /\ expanded \in Seq(1 .. Length)
    /\ fate \in Seq({"kept", "macro", "throws"})

Types == file \in Files /\ PcTypes /\ BufTypes /\ HandTypes /\ DataTypes

\* The tokens are on their way in order: how many each goroutine has taken.
Sending(g) == IF pc[g] = "send" THEN 1 ELSE 0
FromTokenizer == next["tokenizer"] - Len(buf["tokenizer"])
FromBridge == FromTokenizer - Sending("bridge") - Len(buf["bridge"])
Position == FromBridge - Sending("adapter") - Len(buf["adapter"])

Run(s, n) == \A i \in DOMAIN s : s[i] = n + i

TokensInv ==
    /\ next["tokenizer"] <= Length
    /\ Run(buf["tokenizer"], FromTokenizer)
    /\ Run(buf["bridge"], FromBridge)
    /\ Run(buf["adapter"], Position)
    /\ Position >= 0
    /\ pc["bridge"] = "send" => hand["bridge"] = FromTokenizer
    /\ pc["adapter"] = "send" => hand["adapter"] = FromBridge
    /\ closed["tokenizer"] => next["tokenizer"] = Length
    /\ pc["bridge"] \in {"close", "end"} => closed["tokenizer"] /\ buf["tokenizer"] = << >>
    /\ pc["adapter"] \in {"close", "end"} => closed["bridge"] /\ buf["bridge"] = << >>

\* The parser has met neither an error nor the end.
Reading == pc["parser"] = "receive" \/ (pc["parser"] = "send" /\ hand["parser"] # Err)

\* A form in s .. e which cannot be converted and is in no comment behind s.
OddIn(s, e) == \E j \in s .. e : /\ file[j] = "odd"
                                 /\ \A k \in s + 1 .. j : ~(file[k] = "comment" /\ j <= EndOf(k))

\* The open lists st and the marks o are what the file says of its first p tokens.
StackInv(st, o, p) ==
    /\ p < FirstWrong
    /\ \A i, j \in DOMAIN st : i < j => st[i] < st[j]
    /\ {st[i] : i \in DOMAIN st} = OpenAt(p)
    /\ Depth(p) = Len(st)
    /\ \A i \in DOMAIN st : Depth(st[i] - 1) = i - 1
    /\ o \subseteq 1 .. p
    /\ \A i \in DOMAIN st :
          st[i] \in o <=> OddIn(st[i], IF i < Len(st) THEN st[i + 1] - 1 ELSE p)
    /\ \A s \in ReadForms(p) : s \in o <=> Unconvertible(s)

ReaderInv ==
    /\ Reading => StackInv(stack, odd, Position)
    /\ pc["parser"] = "send" /\ Reading =>
          hand["parser"] \in TopForms /\ EndOf(hand["parser"]) = Position
    /\ ~Reading => \A s \in TopForms : s \in odd <=> Unconvertible(s)
    /\ pc["parser"] = "send" /\ ~Reading => FirstWrong <= Never

\* Of the forms T, those after b are in q and, the last of them, in H.
Flow(q, T, H, b) ==
    /\ b \in T \cup {0}
    /\ Lists(q, {s \in T : s \notin H /\ b < s})
    /\ \A s \in T \cap H : b < s /\ \A x \in T \ H : x < s

InHand(g) == IF pc[g] = "send" THEN {hand[g]} ELSE {}

ReadNow == IF Reading THEN ReadForms(Position) ELSE TopForms
Good == {s \in TopForms : \A f \in TopForms : Unconvertible(f) => s < f}
Draining == pc["drainer"] = "receive" \/ (pc["drainer"] = "send" /\ hand["drainer"] # Err)
Drained(a) == {s \in Good : Draining => s <= a}

\* The forms are on their way in order, up to the error: a is the last form
\* the drainer took, b the last one the caller took.
ParserFlow(a) ==
    Draining =>
        /\ Flow(buf["parser"], ReadNow, InHand("parser"), a)
        /\ HasErr(buf["parser"]) <=> (pc["parser"] \in {"close", "drain", "end"} /\ FirstWrong <= Never)
        /\ \A s \in TopForms : s <= a => ~Unconvertible(s)
        /\ pc["drainer"] = "send" => hand["drainer"] = a
DrainerFlow(a, b) ==
    /\ pc["drainer"] = "send" /\ ~Draining => ~WellFormed
    /\ pc["caller"] = "receive" =>
        /\ Flow(buf["drainer"], Drained(a), InHand("drainer"), b)
        /\ HasErr(buf["drainer"]) <=> (pc["drainer"] \in {"close", "end"} /\ ~WellFormed)
        /\ Lists(forms, {s \in Good : s <= b})
    /\ pc["caller"] # "receive" => Lists(forms, Good)
    /\ Parsed => WellFormed
    /\ pc["caller"] = "parse failed" => ~WellFormed
FormsInv == \E a, b \in Nat : ParserFlow(a) /\ DrainerFlow(a, b)

\* The same from the feeder through the expander: d is the last form the
\* caller took.
Throws == \E i \in DOMAIN fate : fate[i] = "throws"
Expanding == pc["expander"] = "receive" \/ (pc["expander"] = "send" /\ hand["expander"] # Err)

FeederInv ==
    /\ pc["caller"] \in {"receive", "parse failed"} =>
        /\ pc["feeder"] = "idle" /\ pc["expander"] = "idle"
        /\ next["feeder"] = 0 /\ buf["feeder"] = << >> /\ buf["expander"] = << >>
        /\ fate = << >> /\ expanded = << >>
    /\ pc["caller"] \notin {"receive", "parse failed"} =>
        pc["feeder"] # "idle" /\ pc["expander"] # "idle"
    /\ next["feeder"] <= Len(forms)
    /\ Len(fate) + Len(buf["feeder"]) = next["feeder"]
    /\ \A i \in DOMAIN buf["feeder"] : buf["feeder"][i] = forms[Len(fate) + i]
    /\ closed["feeder"] => next["feeder"] = Len(forms)
FateInv ==
    /\ \A i \in DOMAIN fate : fate[i] = "throws" => i = Len(fate)
    /\ Expanding => ~Throws
    /\ pc["expander"] = "send" /\ ~Expanding => Throws
    /\ pc["expander"] = "send" /\ Expanding =>
        /\ Len(fate) > 0
        /\ fate[Len(fate)] = "kept"
        /\ hand["expander"] = forms[Len(fate)]
    /\ pc["expander"] \in {"close", "end"} /\ ~Throws => Len(fate) = Len(forms)
ExpanderFlow(d) ==
    /\ pc["caller"] = "collect" =>
        /\ Flow(buf["expander"], Kept, InHand("expander"), d)
        /\ HasErr(buf["expander"]) <=> (pc["expander"] \in {"close", "end"} /\ Throws)
        /\ Lists(expanded, {s \in Kept : s <= d})
    /\ pc["caller"] \in {"done", "expand failed"} =>
        /\ pc["expander"] \in {"close", "end"}
        /\ Lists(expanded, Kept)
        /\ pc["caller"] = "done" <=> ~Throws
ExpandInv == FeederInv /\ FateInv /\ \E d \in Nat : ExpanderFlow(d)
-----------------------------------------------------------------------------
(* Nothing changes the file, so nothing changes what it says.              *)

LEMMA FileSame ==
    ASSUME file' = file
    PROVE  /\ Length' = Length
           /\ FirstWrong' = FirstWrong
           /\ TopForms' = TopForms
           /\ Good' = Good
           /\ WellFormed' = WellFormed
           /\ \A i : Depth(i)' = Depth(i)
           /\ \A s : EndOf(s)' = EndOf(s)
           /\ \A s : Unconvertible(s)' <=> Unconvertible(s)
           /\ \A s, e : OddIn(s, e)' <=> OddIn(s, e)
           /\ \A p : OpenAt(p)' = OpenAt(p)
           /\ \A p : ReadForms(p)' = ReadForms(p)
<1>1. Length' = Length
  BY DEF Length
<1>2. \A i : Depth(i)' = Depth(i)
  BY DEF Depth
<1>3. Wrong' = Wrong
  BY <1>1, <1>2 DEF Wrong
<1>4. FirstWrong' = FirstWrong
  BY <1>1, <1>2, <1>3 DEF FirstWrong, Never
<1>5. \A s : Ends(s)' = Ends(s)
  BY <1>1, <1>2 DEF Ends
<1>6. \A s : EndOf(s)' = EndOf(s)
  BY <1>5 DEF EndOf, Never
<1>7. \A j : Dropped(j)' <=> Dropped(j)
  BY <1>6 DEF Dropped
<1>8. TopForms' = TopForms
  BY <1>1, <1>2, <1>4, <1>6, <1>7 DEF TopForms
<1>9. \A s : Unconvertible(s)' <=> Unconvertible(s)
  BY <1>6, <1>7 DEF Unconvertible
<1>10. Good' = Good
  BY <1>8, <1>9 DEF Good
<1>11. Failures' = Failures
  BY <1>4, <1>6, <1>8, <1>9 DEF Failures, Never
<1>12. WellFormed' = WellFormed
  BY <1>11 DEF WellFormed
<1>13. \A s, e : OddIn(s, e)' <=> OddIn(s, e)
  BY <1>6 DEF OddIn
<1>14. \A p : OpenAt(p)' = OpenAt(p)
  BY <1>6 DEF OpenAt, Openers
<1>15. \A p : ReadForms(p)' = ReadForms(p)
  BY <1>6, <1>8 DEF ReadForms
<1>16. QED
  BY <1>1, <1>2, <1>4, <1>6, <1>8, <1>9, <1>10, <1>12, <1>13, <1>14, <1>15
-----------------------------------------------------------------------------
(* What a receiver takes from a flow of forms, and a sender adds to it.    *)

LEMMA FlowTake ==
    ASSUME NEW q \in Seq(Nat), NEW T, T \subseteq Positions, NEW H, NEW b,
           Flow(q, T, H, b), q # << >>, Head(q) # Err
    PROVE  /\ Head(q) \in T /\ Head(q) \notin H /\ b < Head(q) /\ Head(q) \in Positions
           /\ Flow(Tail(q), T, H, Head(q))
           /\ HasErr(Tail(q)) <=> HasErr(q)
           /\ \A s \in T : b < s => Head(q) <= s
           /\ Tail(q) \in Seq(Nat)
<1> DEFINE v == Head(q)
           R == {s \in T : s \notin H /\ b < s}
<1>1. Lists(q, R) /\ \A s \in T \cap H : b < s /\ \A x \in T \ H : x < s
  BY DEF Flow
<1>2. /\ v \in R /\ v \in Positions /\ (\A l \in R : v <= l)
      /\ Lists(Tail(q), R \ {v}) /\ (HasErr(Tail(q)) <=> HasErr(q))
  <2> HIDE DEF R
  <2>1. QED
    BY <1>1, ListsHead
<1>3. v \in T \ H /\ b < v /\ v \in Nat /\ b \in Nat
  BY <1>2, ErrFacts DEF Flow
<1>4. \A s \in T : s \in Nat
  BY ErrFacts
<1> HIDE DEF v
<1>5. \A s \in T \cap H : v < s
  BY <1>1, <1>3
<1>6. \A s \in T : b < s => v <= s
  BY <1>2, <1>3, <1>4, <1>5
<1>7. R \ {v} = {s \in T : s \notin H /\ v < s}
  <2>1. \A s \in R : s \in T /\ s \notin H /\ b < s /\ v <= s
    BY <1>2
  <2>2. \A s \in T : s \notin H /\ v < s => s \in R \ {v}
    BY <1>3, <1>4
  <2>3. \A s \in R \ {v} : s \in T /\ s \notin H /\ v < s
    BY <1>3, <1>4, <2>1
  <2> HIDE DEF R
  <2>4. QED
    BY <2>2, <2>3
<1>8. Flow(Tail(q), T, H, v)
  BY <1>1, <1>2, <1>3, <1>5, <1>7 DEF Flow
<1>9. QED
  BY <1>2, <1>3, <1>6, <1>8 DEF v

LEMMA FlowEnd ==
    ASSUME NEW q \in Seq(Nat), NEW T, T \subseteq Positions, NEW H, NEW b,
           Flow(q, T, H, b), q = << >> \/ Head(q) = Err
    PROVE  \A s \in T \ H : s <= b
<1> DEFINE R == {s \in T : s \notin H /\ b < s}
<1>1. Lists(q, R) /\ b \in Nat /\ \A s \in T : s \in Nat
  BY ErrFacts DEF Flow
<1>2. R = {}
  <2> HIDE DEF R
  <2>1. QED
    BY <1>1, ListsNothing
<1>3. QED
  BY <1>1, <1>2

\* A form behind all others comes to the sender's hand.
LEMMA FlowHand ==
    ASSUME NEW q, NEW T, NEW H, NEW b, Flow(q, T, H, b), T \subseteq Positions,
           H \cap T = {}, NEW v \in Positions \ T, \A s \in T : s < v
    PROVE  Flow(q, T \cup {v}, {v}, b)
<1>1. b < v
  BY ErrFacts DEF Flow
<1>2. {s \in T \cup {v} : s \notin {v} /\ b < s} = {s \in T : s \notin H /\ b < s}
  OBVIOUS
<1>3. \A s \in (T \cup {v}) \cap {v} : b < s /\ \A x \in (T \cup {v}) \ {v} : x < s
  BY <1>1
<1>4. QED
  BY <1>2, <1>3 DEF Flow

\* The sender's hand holds no form.
LEMMA FlowHands ==
    ASSUME NEW q, NEW T, NEW H, NEW G, NEW b, Flow(q, T, H, b), H \cap T = {}, G \cap T = {}
    PROVE  Flow(q, T, G, b)
<1>1. {s \in T : s \notin G /\ b < s} = {s \in T : s \notin H /\ b < s}
  OBVIOUS
<1>2. QED
  BY <1>1 DEF Flow

LEMMA FlowPut ==
    ASSUME NEW q \in Seq(Nat), NEW T, T \subseteq Positions, NEW b, NEW v \in T,
           Flow(q, T, {v}, b), ~HasErr(q)
    PROVE  Flow(Append(q, v), T, {}, b) /\ ~HasErr(Append(q, v))
<1> DEFINE R == {s \in T : s \notin {v} /\ b < s}
<1>1. Lists(q, R) /\ b < v /\ \A s \in R : s < v
  BY DEF Flow
<1>2. Lists(Append(q, v), R \cup {v}) /\ ~HasErr(Append(q, v))
  <2> HIDE DEF R
  <2>1. QED
    BY <1>1, ListsAppend
<1>3. R \cup {v} = {s \in T : s \notin {} /\ b < s}
  BY <1>1
<1>4. QED
  BY <1>2, <1>3 DEF Flow

LEMMA FlowErr ==
    ASSUME NEW q \in Seq(Nat), NEW T, NEW H, NEW b, Flow(q, T, H, b), H \cap T = {}
    PROVE  Flow(Append(q, Err), T, {}, b) /\ HasErr(Append(q, Err))
<1> DEFINE R == {s \in T : s \notin H /\ b < s}
<1>1. Lists(q, R)
  BY DEF Flow
<1>2. Lists(Append(q, Err), R) /\ HasErr(Append(q, Err))
  <2>1. Err \in Nat
    BY DEF Err
  <2> HIDE DEF R
  <2>2. QED
    BY <1>1, <2>1, ListsBehindErr
<1>3. R = {s \in T : s \notin {} /\ b < s}
  OBVIOUS
<1>4. QED
  BY <1>2, <1>3 DEF Flow

\* The receiver puts what it took behind what it has.
LEMMA Collected ==
    ASSUME NEW r \in Seq(Positions), NEW T, T \subseteq Positions, NEW b \in Nat, NEW v \in T,
           Lists(r, {s \in T : s <= b}), b < v, \A s \in T : b < s => v <= s
    PROVE  Lists(Append(r, v), {s \in T : s <= v})
<1> DEFINE R == {s \in T : s <= b}
<1>1. r \in Seq(Nat) /\ ~HasErr(r) /\ v \in Positions
  BY ErrFacts DEF HasErr, Positions
<1>2. \A s \in T : s \in Nat
  BY ErrFacts
<1>3. Lists(r, R) /\ \A s \in R : s < v
  BY <1>2
<1>4. Lists(Append(r, v), R \cup {v})
  <2> HIDE DEF R
  <2>1. QED
    BY <1>1, <1>3, ListsAppend
<1>5. R \cup {v} = {s \in T : s <= v}
  BY <1>2
<1>6. QED
  BY <1>4, <1>5

LEMMA ListsAll ==
    ASSUME NEW r, NEW T, NEW b, Lists(r, {s \in T : s <= b}), \A s \in T : s <= b
    PROVE  Lists(r, T)
<1>1. {s \in T : s <= b} = T
  OBVIOUS
<1>2. QED
  BY <1>1

\* A list of forms without an error begins the forms in order.
LEMMA ListsBegins ==
    ASSUME NEW r \in Seq(Positions), NEW T, T \subseteq Positions, NEW b, b \in Nat,
           Lists(r, {s \in T : s <= b})
    PROVE  Begins(r, T)
<1>1. \A i \in DOMAIN r : Before(r, i)
  <2> SUFFICES ASSUME NEW i \in DOMAIN r, NEW j \in 1 .. i PROVE r[j] # Err
    BY DEF Before
  <2>1. j \in DOMAIN r
    OBVIOUS
  <2>2. QED
    BY <2>1, ErrFacts
<1>2. \A i, j \in DOMAIN r : i < j => r[i] < r[j]
  BY <1>1 DEF Lists
<1>3. ToSet(r) = {s \in T : s <= b}
  BY <1>1 DEF Lists, ToSet
<1>4. \A s \in T : s \in Nat
  BY ErrFacts
<1>5. QED
  BY <1>2, <1>3, <1>4 DEF Begins
-----------------------------------------------------------------------------
(* Where the forms stand that cannot be converted.                         *)

LEMMA TopOdd ==
    ASSUME file \in Files, NEW s \in TopForms
    PROVE  Unconvertible(s) <=> OddIn(s, EndOf(s))
<1>1. s \in 1 .. Length /\ s \in Nat /\ EndOf(s) \in Nat /\ ~Dropped(s) /\ file[s] # "comment"
  BY TopFacts
<1>2. ASSUME NEW j \in s .. EndOf(s)
      PROVE  ~Dropped(j) <=> \A k \in s + 1 .. j : ~(file[k] = "comment" /\ j <= EndOf(k))
  <2>1. j \in Nat /\ s <= j /\ s + 1 .. j \subseteq 1 .. j
    BY <1>1
  <2>2. ASSUME NEW k \in 1 .. j, file[k] = "comment", j <= EndOf(k) PROVE k \in s + 1 .. j
    <3>1. k # s
      BY <1>1, <2>2
    <3>2. CASE k < s
      <4>1. k \in 1 .. s /\ k \in 1 .. Length
        BY <1>1, <3>2, FileFacts
      <4>2. s <= EndOf(k)
        BY <1>1, <2>1, <2>2, <4>1, EndFacts
      <4>3. QED
        BY <1>1, <2>2, <4>1, <4>2 DEF Dropped
    <3>3. QED
      BY <1>1, <2>1, <3>1, <3>2
  <2>3. QED
    BY <2>1, <2>2 DEF Dropped
<1>3. QED
  BY <1>2 DEF Unconvertible, OddIn

\* A list around an open one is open too.
LEMMA Encloses ==
    ASSUME file \in Files, NEW p \in 0 .. Length, NEW t \in OpenAt(p),
           NEW k \in 1 .. t - 1, file[k] \in Openers, t <= EndOf(k)
    PROVE  k \in OpenAt(p)
<1>1. t \in 1 .. Length /\ t <= p /\ t \in Nat /\ p \in Nat /\ (\A e \in t .. p : Depth(e) > Depth(t - 1))
  BY OpenFacts, FileFacts
<1>2. k \in 1 .. Length /\ k \in Nat /\ t - 1 \in k .. Length /\ t - 1 \in k .. t - 1 /\ k \in 1 .. p
  BY <1>1, FileFacts
<1>3. EndOf(k) \in Nat /\ t - 1 < EndOf(k)
  BY <1>1, <1>2, EndFacts
<1>4. Depth(t - 1) > Depth(k - 1)
  BY <1>2, <1>3, Deeper
<1>5. ~(EndOf(k) <= p)
  <2> SUFFICES ASSUME EndOf(k) <= p PROVE FALSE
    OBVIOUS
  <2>1. EndOf(k) \in t .. p /\ EndOf(k) <= Length
    BY <1>1, <1>3, FileFacts
  <2>2. Depth(EndOf(k)) > Depth(t - 1) /\ Depth(EndOf(k)) = Depth(k - 1)
    BY <1>1, <1>2, <2>1, EndFacts
  <2>3. t - 1 \in 0 .. Length /\ k - 1 \in 0 .. Length
    BY <1>1, <1>2, FileFacts
  <2>4. Depth(t - 1) \in Int /\ Depth(k - 1) \in Int
    BY <2>3, DepthFacts
  <2>5. QED
    BY <1>4, <2>2, <2>4
<1>6. QED
  BY <1>2, <1>3, <1>5 DEF OpenAt

\* One more token in the innermost list.
LEMMA OddNext ==
    ASSUME file \in Files, NEW p \in 0 .. Length - 1, file[p + 1] \notin Openers \cup {"close"},
           NEW s \in 1 .. p, \A k \in OpenAt(p) : k <= s
    PROVE  OddIn(s, p + 1) <=> OddIn(s, p) \/ file[p + 1] = "odd"
<1>1. p \in Nat /\ s \in Nat /\ s .. p + 1 = (s .. p) \cup {p + 1} /\ p + 1 \in s .. p + 1
  BY FileFacts
<1>2. ASSUME NEW k \in s + 1 .. p + 1, file[k] = "comment", p + 1 <= EndOf(k) PROVE FALSE
  <2>1. k # p + 1
    BY <1>2 DEF Openers
  <2>2. k \in 1 .. p /\ k \in 1 .. Length /\ file[k] \in Openers /\ k > s
    BY <1>1, <1>2, <2>1, FileFacts DEF Openers
  <2>3. EndOf(k) > p
    BY <1>1, <1>2, <2>2, EndFacts
  <2>4. k \in OpenAt(p)
    BY <2>2, <2>3 DEF OpenAt
  <2>5. QED
    BY <1>1, <2>2, <2>4
<1>3. OddIn(s, p) => OddIn(s, p + 1)
  BY <1>1 DEF OddIn
<1>4. file[p + 1] = "odd" => OddIn(s, p + 1)
  BY <1>1, <1>2 DEF OddIn
<1>5. OddIn(s, p + 1) => OddIn(s, p) \/ file[p + 1] = "odd"
  BY <1>1 DEF OddIn
<1>6. QED
  BY <1>3, <1>4, <1>5

\* The end of a list is no form.
LEMMA OddAtEnd ==
    ASSUME file \in Files, NEW p \in 0 .. Length - 1, file[p + 1] = "close", NEW s \in 1 .. p
    PROVE  OddIn(s, p + 1) <=> OddIn(s, p)
<1>1. s .. p + 1 = (s .. p) \cup {p + 1} /\ file[p + 1] # "odd"
  BY FileFacts
<1>2. QED
  BY <1>1 DEF OddIn

\* A list that is complete joins the one around it, unless it is a comment.
LEMMA OddJoins ==
    ASSUME file \in Files, NEW p \in 0 .. Length - 1, file[p + 1] = "close",
           NEW t \in OpenAt(p), EndOf(t) = p + 1,
           NEW s \in 1 .. t - 1, \A k \in OpenAt(p) : k <= s \/ k = t
    PROVE  OddIn(s, p + 1) <=> OddIn(s, t - 1) \/ (file[t] # "comment" /\ OddIn(t, p))
<1>1. t \in Nat /\ t <= p /\ p \in Nat /\ s \in Nat /\ s < t /\ p \in 0 .. Length
  BY OpenFacts, FileFacts
<1>2. OddIn(s, p + 1) <=> OddIn(s, p)
  <2>1. s \in 1 .. p
    BY <1>1
  <2>2. QED
    BY <2>1, OddAtEnd
<1>3. s .. p = (s .. t - 1) \cup (t .. p) /\ t + 1 .. p \subseteq s + 1 .. p
  BY <1>1
<1>4. OddIn(s, t - 1) => OddIn(s, p)
  BY <1>3 DEF OddIn
<1>5. ASSUME file[t] # "comment", OddIn(t, p) PROVE OddIn(s, p)
  <2>1. PICK j \in t .. p : file[j] = "odd" /\ \A k \in t + 1 .. j : ~(file[k] = "comment" /\ j <= EndOf(k))
    BY <1>5 DEF OddIn
  <2>2. ASSUME NEW k \in s + 1 .. j, file[k] = "comment", j <= EndOf(k) PROVE FALSE
    <3>1. ~(k > t)
      BY <1>1, <2>1, <2>2
    <3>2. k # t
      BY <1>5, <2>2
    <3>3. k \in 1 .. t - 1 /\ k > s /\ k \in 1 .. Length /\ file[k] \in Openers /\ j \in Nat /\ t <= j
      BY <1>1, <2>1, <2>2, <3>1, <3>2, FileFacts DEF Openers
    <3>4. t <= EndOf(k)
      BY <1>1, <2>2, <3>3, EndFacts
    <3>5. k \in OpenAt(p)
      BY <1>1, <3>3, <3>4, Encloses
    <3>6. QED
      BY <1>1, <3>2, <3>3, <3>5
  <2>3. QED
    BY <1>3, <2>1, <2>2 DEF OddIn
<1>6. ASSUME OddIn(s, p) PROVE OddIn(s, t - 1) \/ (file[t] # "comment" /\ OddIn(t, p))
  <2>1. PICK j \in s .. p : file[j] = "odd" /\ \A k \in s + 1 .. j : ~(file[k] = "comment" /\ j <= EndOf(k))
    BY <1>6 DEF OddIn
  <2>2. CASE j \in s .. t - 1
    BY <2>1, <2>2 DEF OddIn
  <2>3. CASE j \in t .. p
    <3>1. t \in s + 1 .. j /\ j <= EndOf(t) /\ t + 1 .. j \subseteq s + 1 .. j
      BY <1>1, <2>3
    <3>2. QED
      BY <2>1, <2>3, <3>1 DEF OddIn
  <2>4. QED
    BY <1>3, <2>2, <2>3
<1>7. QED
  BY <1>2, <1>4, <1>5, <1>6

-----------------------------------------------------------------------------
(* The forms before the first failure.                                     *)

LEMMA GoodFacts ==
    ASSUME file \in Files
    PROVE  /\ Good \subseteq TopForms /\ TopForms \subseteq 1 .. Length
           /\ 1 .. Length \subseteq Positions
           /\ \A s \in Good : ~Unconvertible(s)
           /\ (\A f \in TopForms : ~Unconvertible(f)) => Good = TopForms
<1>1. \A s \in TopForms : s \in Nat /\ s \in 1 .. Length
  BY TopFacts
<1>2. \A s \in Good : ~Unconvertible(s)
  BY <1>1 DEF Good
<1>3. 1 .. Length \subseteq Positions
  BY FileFacts DEF Positions, Err
<1>4. QED
  BY <1>1, <1>2, <1>3 DEF Good

LEMMA WellFormedMeans ==
    ASSUME file \in Files
    PROVE  WellFormed <=> FirstWrong > Never /\ \A f \in TopForms : ~Unconvertible(f)
BY DEF WellFormed, Failures

LEMMA GoodAreBefore ==
    ASSUME file \in Files
    PROVE  Good = FormsBefore
<1> SUFFICES ASSUME NEW s \in TopForms
             PROVE  (\A f \in TopForms : Unconvertible(f) => s < f) <=> (\A x \in Failures : EndOf(s) < x)
  BY DEF Good, FormsBefore
<1>1. s \in Nat /\ EndOf(s) \in Nat /\ EndOf(s) < FirstWrong /\ s <= EndOf(s)
  BY TopFacts
<1>2. ASSUME NEW f \in TopForms PROVE s < f <=> EndOf(s) < EndOf(f)
  <2>1. f \in Nat /\ EndOf(f) \in Nat /\ f <= EndOf(f)
    BY TopFacts
  <2>2. s < f => EndOf(s) < f
    BY TopOrder
  <2>3. f < s => EndOf(f) < s
    BY TopOrder
  <2>4. QED
    BY <1>1, <2>1, <2>2, <2>3
<1>3. QED
  BY <1>1, <1>2 DEF Failures
-----------------------------------------------------------------------------
(* Types.                                                                  *)

LEMMA Names ==
    /\ Goroutines = {"tokenizer", "bridge", "adapter", "parser", "drainer", "feeder",
                     "expander", "caller"}
    /\ Channels = {"tokenizer", "bridge", "adapter", "parser", "drainer", "feeder", "expander"}
BY DEF Goroutines, Channels

LEMMA SeqFacts ==
    ASSUME NEW S, NEW q \in Seq(S)
    PROVE  /\ q # << >> => Head(q) \in S /\ Tail(q) \in Seq(S)
           /\ \A v \in S : Append(q, v) \in Seq(S)
           /\ \A i \in DOMAIN q : q[i] \in S
OBVIOUS

LEMMA ItemFacts ==
    ASSUME file \in Files, NEW c
    PROVE  /\ Items(c) \subseteq 0 .. Length /\ Items(c) \subseteq Nat
           /\ c \in {"tokenizer", "bridge", "adapter"} => Items(c) = 1 .. Length
           /\ c \notin {"tokenizer", "bridge", "adapter"} => Items(c) = 0 .. Length
           /\ End \in Nat /\ End > Length /\ End # Err /\ Length \in Nat
BY FileFacts DEF Items, End, Err

\* What a receiver gets.
LEMMA ReceiveFacts ==
    ASSUME Types, NEW c \in Channels
    PROVE  /\ buf[c] \in Seq(Nat) /\ Received(c) \in Nat
           /\ Received(c) # End =>
                 /\ buf[c] # << >> /\ Received(c) = Head(buf[c])
                 /\ Received(c) \in Items(c) /\ Received(c) \in 0 .. Length
           /\ Received(c) = End => buf[c] = << >>
<1>1. file \in Files /\ buf[c] \in Seq(Items(c)) /\ buf[c] \in Seq(Nat)
  BY DEF Types, BufTypes
<1>2. CASE buf[c] = << >>
  BY <1>1, <1>2, ItemFacts DEF Received
<1>3. CASE buf[c] # << >>
  <2>1. Received(c) = Head(buf[c])
    BY <1>3 DEF Received
  <2>2. Head(buf[c]) \in Items(c)
    BY <1>1, <1>3, SeqFacts
  <2>3. Received(c) \in Nat /\ Received(c) # End /\ Received(c) \in 0 .. Length
    BY <1>1, <2>1, <2>2, ItemFacts
  <2>4. QED
    BY <1>1, <1>3, <2>1, <2>2, <2>3
<1>4. QED
  BY <1>2, <1>3

\* Taking one item from a channel changes no other channel.
LEMMA PopFacts ==
    ASSUME Types, file' = file, NEW c \in Channels, Pop(c)
    PROVE  /\ BufTypes'
           /\ \A d \in Channels \ {c} : buf'[d] = buf[d]
           /\ buf'[c] = IF buf[c] = << >> THEN << >> ELSE Tail(buf[c])
<1>1. buf \in [Channels -> Seq(Nat)] /\ (\A d \in Channels : buf[d] \in Seq(Items(d)))
  BY DEF Types, BufTypes
<1>2. buf' = [buf EXCEPT ![c] = IF @ = << >> THEN @ ELSE Tail(@)]
  BY DEF Pop
<1>3. \A d \in Channels \ {c} : buf'[d] = buf[d]
  BY <1>1, <1>2
<1>4. buf'[c] = IF buf[c] = << >> THEN << >> ELSE Tail(buf[c])
  BY <1>1, <1>2
<1>5. buf'[c] \in Seq(Nat) /\ buf'[c] \in Seq(Items(c))
  <2>1. buf[c] \in Seq(Nat) /\ buf[c] \in Seq(Items(c))
    BY <1>1
  <2>2. QED
    BY <1>4, <2>1, SeqFacts
<1>6. \A d \in Channels : buf'[d] \in Seq(Nat) /\ buf'[d] \in Seq(Items(d))
  BY <1>1, <1>3, <1>5
<1>7. buf' \in [Channels -> Seq(Nat)]
  BY <1>1, <1>2, <1>6
<1>8. \A d : Items(d)' = Items(d)
  BY FileSame DEF Items
<1>9. BufTypes'
  BY <1>6, <1>7, <1>8 DEF BufTypes
<1>10. QED
  BY <1>3, <1>4, <1>9

\* Nor does adding one.
LEMMA PutFacts ==
    ASSUME Types, file' = file, NEW c \in Channels, NEW v \in Items(c),
           buf' = [buf EXCEPT ![c] = Append(@, v)]
    PROVE  /\ BufTypes'
           /\ \A d \in Channels \ {c} : buf'[d] = buf[d]
           /\ buf'[c] = Append(buf[c], v)
<1>1. buf \in [Channels -> Seq(Nat)] /\ (\A d \in Channels : buf[d] \in Seq(Items(d)))
  BY DEF Types, BufTypes
<1>2. v \in Nat
  BY ItemFacts DEF Types
<1>3. \A d \in Channels \ {c} : buf'[d] = buf[d]
  BY <1>1
<1>4. buf'[c] = Append(buf[c], v)
  BY <1>1
<1>5. buf'[c] \in Seq(Nat) /\ buf'[c] \in Seq(Items(c))
  <2>1. buf[c] \in Seq(Nat) /\ buf[c] \in Seq(Items(c))
    BY <1>1
  <2>2. QED
    BY <1>2, <1>4, <2>1, SeqFacts
<1>6. \A d \in Channels : buf'[d] \in Seq(Nat) /\ buf'[d] \in Seq(Items(d))
  BY <1>1, <1>3, <1>5
<1>7. buf' \in [Channels -> Seq(Nat)]
  BY <1>1, <1>6
<1>8. \A d : Items(d)' = Items(d)
  BY FileSame DEF Items
<1>9. BufTypes'
  BY <1>6, <1>7, <1>8 DEF BufTypes
<1>10. QED
  BY <1>3, <1>4, <1>9

\* Where a goroutine goes, whether it closes its channel, what it takes in hand.
LEMMA GotoFacts ==
    ASSUME PcTypes, NEW g \in Goroutines, NEW w \in PlacesOf(g), Goto(g, w), closed' = closed,
           pc[g] \notin {"drain", "end"} \/ w \in {"drain", "end"}
    PROVE  PcTypes' /\ pc'[g] = w /\ \A h \in Goroutines \ {g} : pc'[h] = pc[h]
<1>1. w \in Places
  BY Names DEF PlacesOf, Places
<1>2. pc'[g] = w /\ (\A h \in Goroutines \ {g} : pc'[h] = pc[h]) /\ pc' \in [Goroutines -> Places]
  BY <1>1 DEF PcTypes, Goto
<1>3. \A h \in Goroutines : pc'[h] \in PlacesOf(h)
  BY <1>2 DEF PcTypes
<1>4. \A c \in Channels : closed[c] => pc'[c] \in {"drain", "end"}
  BY <1>2, Names DEF PcTypes
<1>5. QED
  BY <1>2, <1>3, <1>4 DEF PcTypes

LEMMA CloseFacts ==
    ASSUME PcTypes, NEW g \in Channels, NEW w \in PlacesOf(g), w \in {"drain", "end"}, Close(g, w)
    PROVE  /\ PcTypes' /\ pc'[g] = w /\ (\A h \in Goroutines \ {g} : pc'[h] = pc[h])
           /\ closed'[g] = TRUE /\ (\A c \in Channels \ {g} : closed'[c] = closed[c]) /\ buf' = buf
<1>1. w \in Places /\ g \in Goroutines
  BY Names DEF PlacesOf, Places
<1>2. /\ pc'[g] = w /\ (\A h \in Goroutines \ {g} : pc'[h] = pc[h]) /\ pc' \in [Goroutines -> Places]
      /\ closed'[g] = TRUE /\ (\A c \in Channels \ {g} : closed'[c] = closed[c]) /\ buf' = buf
      /\ closed' \in [Channels -> BOOLEAN]
  BY <1>1 DEF PcTypes, Goto, Close
<1>3. \A h \in Goroutines : pc'[h] \in PlacesOf(h)
  BY <1>2 DEF PcTypes
<1>4. \A c \in Channels : closed'[c] => pc'[c] \in {"drain", "end"}
  BY <1>2, Names DEF PcTypes
<1>5. QED
  BY <1>2, <1>3, <1>4 DEF PcTypes

LEMMA HandFacts ==
    ASSUME Types, file' = file, NEW g \in Goroutines, NEW v \in Nat,
           hand' = [hand EXCEPT ![g] = v], pc'[g] = "send" => v \in Items(g),
           \A h \in Goroutines \ {g} : pc'[h] = pc[h]
    PROVE  HandTypes' /\ hand'[g] = v /\ \A h \in Goroutines \ {g} : hand'[h] = hand[h]
<1>1. /\ hand' \in [Goroutines -> Nat] /\ hand'[g] = v
      /\ \A h \in Goroutines \ {g} : hand'[h] = hand[h]
  BY DEF Types, HandTypes
<1>2. \A d : Items(d)' = Items(d)
  BY FileSame DEF Items
<1>3. QED
  BY <1>1, <1>2, Names DEF Types, HandTypes

\* Hands stay as they are when nobody comes to a send.
LEMMA HandsStay ==
    ASSUME Types, file' = file, UNCHANGED hand,
           \A g \in Channels : pc'[g] = "send" => pc[g] = "send"
    PROVE  HandTypes'
<1>1. \A d : Items(d)' = Items(d)
  BY FileSame DEF Items
<1>2. QED
  BY <1>1 DEF Types, HandTypes

LEMMA BufStays ==
    ASSUME Types, file' = file, UNCHANGED buf
    PROVE  BufTypes'
<1>1. \A d : Items(d)' = Items(d)
  BY FileSame DEF Items
<1>2. QED
  BY <1>1 DEF Types, BufTypes

\* A goroutine sends what it has in hand.
LEMMA SendFacts ==
    ASSUME Types, file' = file, UNCHANGED hand, NEW g \in Channels, NEW w \in PlacesOf(g),
           w # "send", pc[g] = "send", Send(g, w)
    PROVE  /\ PcTypes' /\ BufTypes' /\ HandTypes'
           /\ pc'[g] = w /\ (\A h \in Goroutines \ {g} : pc'[h] = pc[h])
           /\ buf'[g] = Append(buf[g], hand[g]) /\ (\A d \in Channels \ {g} : buf'[d] = buf[d])
           /\ closed' = closed /\ hand[g] \in Items(g)
<1>1. /\ buf' = [buf EXCEPT ![g] = Append(@, hand[g])] /\ Goto(g, w) /\ closed' = closed
      /\ hand[g] \in Items(g) /\ g \in Goroutines /\ PcTypes
  BY Names DEF Send, Types, HandTypes
<1>2. /\ BufTypes' /\ buf'[g] = Append(buf[g], hand[g])
      /\ \A d \in Channels \ {g} : buf'[d] = buf[d]
  BY <1>1, PutFacts
<1>3. PcTypes' /\ pc'[g] = w /\ \A h \in Goroutines \ {g} : pc'[h] = pc[h]
  BY <1>1, GotoFacts
<1>4. HandTypes'
  <2>1. \A h \in Channels : pc'[h] = "send" => pc[h] = "send"
    BY <1>3, Names
  <2>2. QED
    BY <2>1, HandsStay
<1>5. QED
  BY <1>1, <1>2, <1>3, <1>4
-----------------------------------------------------------------------------
(* What each action does, with the types it leaves.                        *)

\* All but g stand where they stood, and only the channel c changes.
Only(g, c) == /\ \A h \in Goroutines \ {g} : pc'[h] = pc[h] /\ hand'[h] = hand[h]
              /\ \A d \in Channels \ {c} : buf'[d] = buf[d]
              /\ \A d \in Channels \ {g} : closed'[d] = closed[d]

LEMMA DataStays ==
    ASSUME Types, file' = file, UNCHANGED <<next, stack, odd, forms, expanded, fate>>
    PROVE  DataTypes'
<1>1. Length' = Length
  BY FileSame
<1>2. QED
  BY <1>1 DEF Types, DataTypes

LEMMA TokenizeDoes ==
    ASSUME Types, Tokenize
    PROVE  /\ Types' /\ Only("tokenizer", "tokenizer")
           /\ UNCHANGED <<file, hand, stack, odd, forms, expanded, fate>>
           /\ next'["feeder"] = next["feeder"] /\ pc["tokenizer"] = "run"
           /\ \/ buf' = buf /\ closed' = closed /\ next' = next
              \/ /\ next["tokenizer"] < Length /\ pc' = pc /\ closed' = closed
                 /\ buf'["tokenizer"] = Append(buf["tokenizer"], next["tokenizer"] + 1)
                 /\ next'["tokenizer"] = next["tokenizer"] + 1
              \/ ~(next["tokenizer"] < Length) /\ buf' = buf /\ next' = next
<1> DEFINE g == "tokenizer"
<1>1. /\ g \in Goroutines /\ g \in Channels /\ "end" \in PlacesOf(g) /\ g # "feeder"
      /\ pc[g] = "run"
  BY Names DEF PlacesOf, Tokenize
<1>2. /\ UNCHANGED <<file, hand, stack, odd, forms, expanded, fate>> /\ file' = file
      /\ next[g] \in Nat /\ PcTypes /\ Length = Len(file) /\ file' \in Files
  BY DEF Tokenize, KeepInput, KeepResults, Types, DataTypes, Length
<1>3. CASE next[g] = breaks
  <2>1. Goto(g, "end") /\ UNCHANGED <<buf, closed, next>>
    BY <1>3 DEF Tokenize
  <2>2. PcTypes' /\ pc'[g] = "end" /\ \A h \in Goroutines \ {g} : pc'[h] = pc[h]
    BY <1>1, <1>2, <2>1, GotoFacts
  <2>3. BufTypes' /\ HandTypes' /\ DataTypes'
    BY <1>1, <1>2, <2>1, <2>2, BufStays, HandsStay, DataStays, Names
  <2>4. QED
    BY <1>1, <1>2, <2>1, <2>2, <2>3 DEF Types, Only
<1>4. CASE next[g] # breaks /\ next[g] < Len(file)
  <2>1. /\ buf' = [buf EXCEPT ![g] = Append(@, next[g] + 1)]
        /\ next' = [next EXCEPT ![g] = @ + 1] /\ UNCHANGED <<closed, pc>>
    BY <1>4 DEF Tokenize
  <2>2. next[g] + 1 \in Items(g)
    BY <1>2, <1>4, FileFacts DEF Types, Items
  <2>3. BufTypes' /\ (\A d \in Channels \ {g} : buf'[d] = buf[d]) /\ buf'[g] = Append(buf[g], next[g] + 1)
    BY <1>1, <1>2, <2>1, <2>2, PutFacts
  <2>4. /\ next' \in [{"tokenizer", "feeder"} -> Nat] /\ next'[g] = next[g] + 1
        /\ next'["feeder"] = next["feeder"]
    BY <1>2, <2>1 DEF Types, DataTypes
  <2>5. DataTypes'
    <3>1. Length' = Length
      BY <1>2, FileSame
    <3>2. QED
      BY <1>2, <2>4, <3>1 DEF Types, DataTypes
  <2>6. HandTypes' /\ PcTypes'
    <3>1. HandTypes'
      BY <1>2, <2>1, HandsStay
    <3>2. QED
      BY <1>2, <2>1, <3>1 DEF PcTypes
  <2>7. QED
    BY <1>1, <1>2, <1>4, <2>1, <2>3, <2>4, <2>5, <2>6 DEF Types, Only
<1>5. CASE next[g] # breaks /\ ~(next[g] < Len(file))
  <2>1. Close(g, "end") /\ UNCHANGED <<buf, next>>
    BY <1>5 DEF Tokenize, Close
  <2>2. /\ PcTypes' /\ pc'[g] = "end" /\ (\A h \in Goroutines \ {g} : pc'[h] = pc[h])
        /\ \A c \in Channels \ {g} : closed'[c] = closed[c]
    BY <1>1, <1>2, <2>1, CloseFacts
  <2>3. BufTypes' /\ HandTypes' /\ DataTypes'
    BY <1>1, <1>2, <2>1, <2>2, BufStays, HandsStay, DataStays, Names
  <2>4. QED
    BY <1>1, <1>2, <1>5, <2>1, <2>2, <2>3 DEF Types, Only
<1>6. QED
  BY <1>3, <1>4, <1>5

LEMMA CopyDoes ==
    ASSUME Types, NEW g \in {"bridge", "adapter"}, NEW from \in {"tokenizer", "bridge"},
           from # g, Copy(g, from)
    PROVE  /\ Types'
           /\ UNCHANGED <<file, next, stack, odd, forms, expanded, fate>>
           /\ \/ /\ Only(g, from) /\ closed' = closed
                 /\ pc[g] = "receive" /\ CanReceive(from)
                 /\ hand'[g] = Received(from)
                 /\ pc'[g] = IF Received(from) = End THEN "close" ELSE "send"
                 /\ buf'[from] = IF buf[from] = << >> THEN << >> ELSE Tail(buf[from])
              \/ /\ Only(g, g) /\ closed' = closed /\ hand' = hand
                 /\ pc[g] = "send" /\ pc'[g] = "receive"
                 /\ buf'[g] = Append(buf[g], hand[g])
              \/ /\ Only(g, g) /\ hand' = hand /\ buf' = buf
                 /\ pc[g] = "close" /\ pc'[g] = "end"
<1>1. /\ g \in Goroutines /\ g \in Channels /\ from \in Channels
      /\ {"receive", "send", "close", "end"} = PlacesOf(g)
  BY Names DEF PlacesOf
<1>2. /\ UNCHANGED <<file, next, stack, odd, forms, expanded, fate>>
      /\ UNCHANGED <<next, stack, odd, forms, expanded, fate>>
      /\ file' = file /\ PcTypes /\ file' \in Files /\ file \in Files
  BY DEF Copy, KeepInput, KeepResults, Types
<1>3. DataTypes'
  BY <1>2, DataStays
<1>4. CASE pc[g] = "receive"
  <2>1. /\ CanReceive(from) /\ Pop(from) /\ hand' = [hand EXCEPT ![g] = Received(from)]
        /\ Goto(g, IF Received(from) = End THEN "close" ELSE "send") /\ closed' = closed
    BY <1>4 DEF Copy
  <2>2. /\ BufTypes' /\ (\A d \in Channels \ {from} : buf'[d] = buf[d])
        /\ buf'[from] = IF buf[from] = << >> THEN << >> ELSE Tail(buf[from])
    BY <1>1, <1>2, <2>1, PopFacts
  <2>3. /\ PcTypes' /\ pc'[g] = (IF Received(from) = End THEN "close" ELSE "send")
        /\ (\A h \in Goroutines \ {g} : pc'[h] = pc[h])
    BY <1>1, <1>2, <1>4, <2>1, GotoFacts
  <2>4. Received(from) \in Nat /\ (pc'[g] = "send" => Received(from) \in Items(g))
    <3>1. Items(g) = Items(from)
      BY DEF Items
    <3>2. QED
      BY <1>1, <2>3, <3>1, ReceiveFacts
  <2>5. HandTypes' /\ hand'[g] = Received(from) /\ \A h \in Goroutines \ {g} : hand'[h] = hand[h]
    BY <1>1, <1>2, <2>1, <2>3, <2>4, HandFacts
  <2>6. QED
    BY <1>2, <1>3, <1>4, <2>1, <2>2, <2>3, <2>5 DEF Types, Only
<1>5. CASE pc[g] = "send"
  <2>1. Send(g, "receive") /\ hand' = hand
    BY <1>5 DEF Copy
  <2>2. /\ PcTypes' /\ BufTypes' /\ HandTypes' /\ closed' = closed
        /\ pc'[g] = "receive" /\ (\A h \in Goroutines \ {g} : pc'[h] = pc[h])
        /\ buf'[g] = Append(buf[g], hand[g]) /\ (\A d \in Channels \ {g} : buf'[d] = buf[d])
    BY <1>1, <1>2, <1>5, <2>1, SendFacts
  <2>3. QED
    BY <1>2, <1>3, <1>5, <2>1, <2>2 DEF Types, Only
<1>6. CASE pc[g] = "close"
  <2>1. Close(g, "end") /\ hand' = hand
    BY <1>6 DEF Copy
  <2>2. /\ PcTypes' /\ pc'[g] = "end" /\ (\A h \in Goroutines \ {g} : pc'[h] = pc[h])
        /\ buf' = buf /\ \A c \in Channels \ {g} : closed'[c] = closed[c]
    BY <1>1, <1>2, <2>1, CloseFacts
  <2>3. HandTypes' /\ BufTypes'
    <3>1. \A h \in Channels : pc'[h] = "send" => pc[h] = "send"
      BY <2>2, Names
    <3>2. QED
      BY <1>2, <2>1, <2>2, <3>1, BufStays, HandsStay
  <2>4. QED
    BY <1>2, <1>3, <1>6, <2>1, <2>2, <2>3 DEF Types, Only
<1>7. QED
  BY <1>4, <1>5, <1>6 DEF Copy
LEMMA OuterFacts ==
    ASSUME NEW S, NEW q \in Seq(S), q # << >>
    PROVE  LET o == SubSeq(q, 1, Len(q) - 1) IN
           /\ o \in Seq(S) /\ Len(o) = Len(q) - 1 /\ Len(q) \in Nat /\ Len(q) >= 1
           /\ DOMAIN o = 1 .. Len(q) - 1 /\ DOMAIN q = 1 .. Len(q)
           /\ \A i \in 1 .. Len(q) - 1 : o[i] = q[i]
           /\ q[Len(q)] \in S
           /\ o = << >> <=> Len(q) = 1
           /\ \A i \in DOMAIN q : q[i] \in S
<1> DEFINE n == Len(q) - 1
           o == SubSeq(q, 1, n)
<1>1. Len(q) \in Nat /\ Len(q) >= 1 /\ DOMAIN q = 1 .. Len(q) /\ q[Len(q)] \in S
      /\ \A i \in DOMAIN q : q[i] \in S
  OBVIOUS
<1>2. n \in Nat /\ n <= Len(q) /\ n + 1 = Len(q)
  BY <1>1
<1>3. o \in Seq(S) /\ Len(o) = n /\ DOMAIN o = 1 .. n /\ \A i \in 1 .. n : o[i] = q[i]
  <2> HIDE DEF n
  <2>1. QED
    BY <1>2
<1>4. o = << >> <=> Len(q) = 1
  <2> HIDE DEF o
  <2>1. o = << >> <=> Len(o) = 0
    BY <1>3
  <2>2. QED
    BY <1>1, <1>3, <2>1
<1>5. QED
  BY <1>1, <1>2, <1>3, <1>4

LEMMA FormReadTypes ==
    ASSUME Types, file' = file, closed' = closed, pc["parser"] = "receive",
           NEW t \in 1 .. Length, NEW outer \in Seq(1 .. Length), NEW isOdd \in BOOLEAN,
           stack' = outer,
           odd' = IF isOdd THEN odd \cup {IF outer = << >> THEN t ELSE outer[Len(outer)]} ELSE odd,
           IF outer = << >>
           THEN Goto("parser", "send") /\ hand' = [hand EXCEPT !["parser"] = t]
           ELSE Goto("parser", "receive") /\ UNCHANGED hand
    PROVE  /\ PcTypes' /\ HandTypes' /\ stack' \in Seq(1 .. Length) /\ odd' \subseteq 1 .. Length
           /\ \A h \in Goroutines \ {"parser"} : pc'[h] = pc[h] /\ hand'[h] = hand[h]
           /\ outer = << >> => pc'["parser"] = "send" /\ hand'["parser"] = t
           /\ outer # << >> => pc'["parser"] = "receive"
           /\ stack' = outer
           /\ odd' = IF isOdd THEN odd \cup {IF outer = << >> THEN t ELSE outer[Len(outer)]} ELSE odd
<1>1. /\ "parser" \in Goroutines /\ {"receive", "send"} \subseteq PlacesOf("parser") /\ PcTypes
      /\ t \in Nat /\ t \in Items("parser")
  BY Names, FileFacts DEF PlacesOf, Types, Items
<1>3. outer # << >> => outer[Len(outer)] \in 1 .. Length
  BY OuterFacts
<1>4. odd' \subseteq 1 .. Length
  BY <1>3 DEF Types, DataTypes
<1>5. CASE outer = << >>
  <2>1. Goto("parser", "send") /\ hand' = [hand EXCEPT !["parser"] = t]
    BY <1>5
  <2>2. PcTypes' /\ pc'["parser"] = "send" /\ \A h \in Goroutines \ {"parser"} : pc'[h] = pc[h]
    BY <1>1, <2>1, GotoFacts
  <2>3. HandTypes' /\ hand'["parser"] = t /\ \A h \in Goroutines \ {"parser"} : hand'[h] = hand[h]
    BY <1>1, <2>1, <2>2, HandFacts
  <2>4. QED
    BY <1>4, <1>5, <2>2, <2>3
<1>6. CASE outer # << >>
  <2>1. Goto("parser", "receive") /\ hand' = hand
    BY <1>6
  <2>2. PcTypes' /\ pc'["parser"] = "receive" /\ \A h \in Goroutines \ {"parser"} : pc'[h] = pc[h]
    BY <1>1, <2>1, GotoFacts
  <2>3. HandTypes'
    <3>1. \A h \in Channels : pc'[h] = "send" => pc[h] = "send"
      BY <2>2, Names
    <3>2. QED
      BY <2>1, <3>1, HandsStay
  <2>4. QED
    BY <1>4, <1>6, <2>1, <2>2, <2>3
<1>7. QED
  BY <1>5, <1>6

\* What one token does to the reader, case by case.
LEMMA ReadTokenDoes ==
    ASSUME Types, file' = file, closed' = closed, pc["parser"] = "receive",
           NEW t, t = End \/ t \in 1 .. Length, ReadToken(t)
    PROVE  /\ PcTypes' /\ HandTypes' /\ stack' \in Seq(1 .. Length) /\ odd' \subseteq 1 .. Length
           /\ \A h \in Goroutines \ {"parser"} : pc'[h] = pc[h] /\ hand'[h] = hand[h]
           /\ \/ \* the end of a file
                 /\ t = End /\ stack = << >> /\ pc'["parser"] = "close"
                 /\ stack' = stack /\ odd' = odd
              \/ \* an error
                 /\ t = End \/ file[t] \in {"close", "bad"}
                 /\ t = End => stack # << >>
                 /\ t # End /\ file[t] = "close" => stack = << >>
                 /\ pc'["parser"] = "send" /\ hand'["parser"] = Err
                 /\ stack' = stack /\ odd' = odd
              \/ \* a form by itself
                 /\ t \in 1 .. Length /\ file[t] \in {"atom", "odd"}
                 /\ stack' = stack
                 /\ stack = << >> => pc'["parser"] = "send" /\ hand'["parser"] = t
                 /\ stack # << >> => pc'["parser"] = "receive"
                 /\ odd' = IF file[t] = "odd"
                           THEN odd \cup {IF stack = << >> THEN t ELSE stack[Len(stack)]} ELSE odd
              \/ \* the beginning of a list
                 /\ t \in 1 .. Length /\ file[t] \in Openers
                 /\ stack' = Append(stack, t) /\ pc'["parser"] = "receive" /\ odd' = odd
              \/ \* the end of one
                 /\ t \in 1 .. Length /\ file[t] = "close" /\ stack # << >>
                 /\ stack' = SubSeq(stack, 1, Len(stack) - 1)
                 /\ LET list == stack[Len(stack)] IN
                    /\ file[list] = "comment" => odd' = odd /\ pc'["parser"] = "receive"
                    /\ file[list] # "comment" =>
                       /\ stack' = << >> => pc'["parser"] = "send" /\ hand'["parser"] = list
                       /\ stack' # << >> => pc'["parser"] = "receive"
                       /\ odd' = IF list \in odd
                                 THEN odd \cup {IF stack' = << >> THEN list ELSE stack'[Len(stack')]}
                                 ELSE odd
<1> DEFINE g == "parser"
<1>1. /\ g \in Goroutines /\ {"receive", "send", "close"} \subseteq PlacesOf(g) /\ PcTypes
      /\ stack \in Seq(1 .. Length) /\ odd \subseteq 1 .. Length /\ file \in Files
      /\ Err \in Items(g) /\ Err \in Nat /\ pc[g] \notin {"drain", "end"}
  BY Names, FileFacts DEF PlacesOf, Types, DataTypes, Items, Err
<1>2. t # End => t \in 1 .. Length /\ file[t] \in FileKinds
  BY <1>1, FileFacts
<1>3. ASSUME NEW w \in PlacesOf(g), w # "send", Goto(g, w), hand' = hand
      PROVE  /\ PcTypes' /\ HandTypes' /\ pc'[g] = w
             /\ \A h \in Goroutines \ {g} : pc'[h] = pc[h] /\ hand'[h] = hand[h]
  <2>1. PcTypes' /\ pc'[g] = w /\ \A h \in Goroutines \ {g} : pc'[h] = pc[h]
    BY <1>1, <1>3, GotoFacts
  <2>2. \A h \in Channels : pc'[h] = "send" => pc[h] = "send"
    BY <1>3, <2>1, Names
  <2>3. QED
    BY <1>3, <2>1, <2>2, HandsStay
<1>4. ASSUME ReadFails
      PROVE  /\ PcTypes' /\ HandTypes' /\ pc'[g] = "send" /\ hand'[g] = Err
             /\ (\A h \in Goroutines \ {g} : pc'[h] = pc[h] /\ hand'[h] = hand[h])
             /\ stack' = stack /\ odd' = odd
  <2>1. Goto(g, "send") /\ hand' = [hand EXCEPT ![g] = Err] /\ stack' = stack /\ odd' = odd
    BY <1>4 DEF ReadFails
  <2>2. PcTypes' /\ pc'[g] = "send" /\ \A h \in Goroutines \ {g} : pc'[h] = pc[h]
    BY <1>1, <2>1, GotoFacts
  <2>3. HandTypes' /\ hand'[g] = Err /\ \A h \in Goroutines \ {g} : hand'[h] = hand[h]
    BY <1>1, <2>1, <2>2, HandFacts
  <2>4. QED
    BY <2>1, <2>2, <2>3
<1>5. CASE t = End
  <2>1. CASE stack = << >>
    <3>1. Goto(g, "close") /\ UNCHANGED <<hand, stack, odd>>
      BY <1>5, <2>1 DEF ReadToken
    <3>2. QED
      BY <1>1, <1>3, <1>5, <2>1, <3>1
  <2>2. CASE stack # << >>
    <3>1. ReadFails
      BY <1>5, <2>2 DEF ReadToken
    <3>2. QED
      BY <1>1, <1>4, <1>5, <2>2, <3>1
  <2>3. QED
    BY <2>1, <2>2
<1>6. CASE t # End /\ file[t] \in {"atom", "odd"}
  <2>1. FormRead(t, stack, file[t] = "odd")
    BY <1>6 DEF ReadToken
  <2>2. PICK isOdd \in BOOLEAN : isOdd <=> file[t] = "odd"
    OBVIOUS
  <2>3. /\ stack' = stack
        /\ odd' = IF isOdd THEN odd \cup {IF stack = << >> THEN t ELSE stack[Len(stack)]} ELSE odd
        /\ IF stack = << >>
           THEN Goto("parser", "send") /\ hand' = [hand EXCEPT !["parser"] = t]
           ELSE Goto("parser", "receive") /\ UNCHANGED hand
    BY <2>1, <2>2 DEF FormRead
  <2>4. t \in 1 .. Length /\ stack \in Seq(1 .. Length)
    BY <1>1, <1>2, <1>6
  <2>5. /\ PcTypes' /\ HandTypes' /\ stack' \in Seq(1 .. Length) /\ odd' \subseteq 1 .. Length
        /\ \A h \in Goroutines \ {"parser"} : pc'[h] = pc[h] /\ hand'[h] = hand[h]
        /\ stack = << >> => pc'["parser"] = "send" /\ hand'["parser"] = t
        /\ stack # << >> => pc'["parser"] = "receive"
    BY <1>1, <2>3, <2>4, FormReadTypes
  <2>6. odd' = IF file[t] = "odd"
               THEN odd \cup {IF stack = << >> THEN t ELSE stack[Len(stack)]} ELSE odd
    BY <2>2, <2>3
  <2>7. QED
    BY <1>6, <2>3, <2>4, <2>5, <2>6
<1>7. CASE t # End /\ file[t] \in Openers
  <2>1. stack' = Append(stack, t) /\ UNCHANGED <<pc, hand, odd>>
    BY <1>7 DEF ReadToken, Opened, Openers
  <2>2. stack' \in Seq(1 .. Length)
    BY <1>1, <1>2, <1>7, <2>1, SeqFacts
  <2>3. HandTypes' /\ PcTypes'
    <3>1. HandTypes'
      BY <2>1, HandsStay
    <3>2. QED
      BY <1>1, <2>1, <3>1 DEF PcTypes
  <2>4. QED
    BY <1>1, <1>2, <1>7, <2>1, <2>2, <2>3
<1>8. CASE t # End /\ file[t] = "close" /\ stack = << >>
  <2>1. ReadFails
    BY <1>8 DEF ReadToken
  <2>2. QED
    BY <1>1, <1>4, <1>8, <2>1
<1>9. CASE t # End /\ file[t] = "close" /\ stack # << >>
  <2> DEFINE outer == SubSeq(stack, 1, Len(stack) - 1)
             list == stack[Len(stack)]
  <2>1. outer \in Seq(1 .. Length) /\ list \in 1 .. Length
    BY <1>1, <1>9, OuterFacts
  <2>2. CASE file[list] = "comment"
    <3>1. CommentRead(outer)
      BY <1>9, <2>2 DEF ReadToken
    <3>2. stack' = outer /\ Goto(g, "receive") /\ UNCHANGED <<hand, odd>>
      BY <3>1 DEF CommentRead
    <3>3. QED
      BY <1>1, <1>2, <1>3, <1>9, <2>1, <2>2, <3>2
  <2>3. CASE file[list] # "comment"
    <3>1. /\ stack' = outer
          /\ odd' = IF list \in odd THEN odd \cup {IF outer = << >> THEN list ELSE outer[Len(outer)]} ELSE odd
          /\ IF outer = << >>
             THEN Goto(g, "send") /\ hand' = [hand EXCEPT ![g] = list]
             ELSE Goto(g, "receive") /\ UNCHANGED hand
      BY <1>9, <2>3 DEF ReadToken, FormRead
    <3> HIDE DEF outer, list
    <3>0. (list \in odd) \in BOOLEAN
      OBVIOUS
    <3>2. /\ PcTypes' /\ HandTypes' /\ stack' \in Seq(1 .. Length) /\ odd' \subseteq 1 .. Length
          /\ (\A h \in Goroutines \ {g} : pc'[h] = pc[h] /\ hand'[h] = hand[h])
          /\ (outer = << >> => pc'[g] = "send" /\ hand'[g] = list)
          /\ (outer # << >> => pc'[g] = "receive")
          /\ stack' = outer
          /\ odd' = IF list \in odd THEN odd \cup {IF outer = << >> THEN list ELSE outer[Len(outer)]} ELSE odd
      BY <2>1, <3>0, <3>1, FormReadTypes
    <3>3. QED
      BY <1>2, <1>9, <2>3, <3>2 DEF outer, list
  <2>4. QED
    BY <2>2, <2>3
<1>10. CASE t # End /\ file[t] = "bad"
  <2>1. ReadFails
    BY <1>10 DEF ReadToken
  <2>2. QED
    BY <1>1, <1>4, <1>10, <2>1
<1>11. QED
  BY <1>2, <1>5, <1>6, <1>7, <1>8, <1>9, <1>10 DEF FileKinds, Openers
\* The value received as a token.
LEMMA TokenReceived ==
    ASSUME Types
    PROVE  Received("adapter") = End \/ Received("adapter") \in 1 .. Length
<1>1. "adapter" \in Channels /\ file \in Files /\ Items("adapter") = 1 .. Length
  BY Names DEF Types, Items
<1>2. QED
  BY <1>1, ReceiveFacts

LEMMA ParseDoes ==
    ASSUME Types, Parse
    PROVE  /\ Types'
           /\ UNCHANGED <<file, next, forms, expanded, fate>>
           /\ \/ /\ Only("parser", "adapter") /\ closed' = closed
                 /\ pc["parser"] = "receive" /\ CanReceive("adapter") /\ ReadToken(Received("adapter"))
                 /\ buf'["adapter"] = IF buf["adapter"] = << >> THEN << >> ELSE Tail(buf["adapter"])
              \/ /\ Only("parser", "parser") /\ closed' = closed /\ UNCHANGED <<hand, stack, odd>>
                 /\ pc["parser"] = "send" /\ hand["parser"] \in 0 .. Length
                 /\ pc'["parser"] = IF hand["parser"] = Err THEN "close" ELSE "receive"
                 /\ buf'["parser"] = Append(buf["parser"], hand["parser"])
              \/ /\ Only("parser", "parser") /\ UNCHANGED <<buf, hand, stack, odd>>
                 /\ pc["parser"] = "close" /\ pc'["parser"] = "drain"
<1> DEFINE g == "parser"
<1>1. /\ g \in Goroutines /\ g \in Channels /\ "adapter" \in Channels
      /\ {"receive", "send", "close", "drain", "end"} = PlacesOf(g)
  BY Names DEF PlacesOf
<1>2. /\ UNCHANGED <<file, next, forms, expanded, fate>>
      /\ next' = next /\ forms' = forms /\ expanded' = expanded /\ fate' = fate
      /\ file' = file /\ PcTypes /\ file' \in Files /\ file \in Files
  BY DEF Parse, KeepInput, KeepResults, Types
<1>3. Length' = Length /\ Items(g) = 0 .. Length
  BY <1>2, FileSame DEF Items
<1>4. CASE pc[g] = "receive"
  <2>1. Pop("adapter") /\ ReadToken(Received("adapter")) /\ CanReceive("adapter") /\ closed' = closed
    BY <1>4 DEF Parse
  <2>2. /\ BufTypes' /\ (\A d \in Channels \ {"adapter"} : buf'[d] = buf[d])
        /\ buf'["adapter"] = IF buf["adapter"] = << >> THEN << >> ELSE Tail(buf["adapter"])
    BY <1>1, <1>2, <2>1, PopFacts
  <2>3. /\ PcTypes' /\ HandTypes' /\ stack' \in Seq(1 .. Length) /\ odd' \subseteq 1 .. Length
        /\ \A h \in Goroutines \ {g} : pc'[h] = pc[h] /\ hand'[h] = hand[h]
    BY <1>2, <1>4, <2>1, TokenReceived, ReadTokenDoes
  <2>4. DataTypes'
    BY <1>2, <1>3, <2>3 DEF Types, DataTypes
  <2>5. QED
    BY <1>2, <1>4, <2>1, <2>2, <2>3, <2>4 DEF Types, Only
<1>5. CASE pc[g] = "send"
  <2>1. /\ Send(g, IF hand[g] = Err THEN "close" ELSE "receive")
        /\ hand' = hand /\ stack' = stack /\ odd' = odd
    BY <1>5 DEF Parse
  <2>2. /\ PcTypes' /\ BufTypes' /\ HandTypes' /\ closed' = closed /\ hand[g] \in Items(g)
        /\ pc'[g] = (IF hand[g] = Err THEN "close" ELSE "receive")
        /\ (\A h \in Goroutines \ {g} : pc'[h] = pc[h])
        /\ buf'[g] = Append(buf[g], hand[g]) /\ (\A d \in Channels \ {g} : buf'[d] = buf[d])
    BY <1>1, <1>2, <1>5, <2>1, SendFacts
  <2>3. DataTypes'
    BY <1>2, <2>1, DataStays
  <2>4. QED
    BY <1>2, <1>3, <1>5, <2>1, <2>2, <2>3 DEF Types, Only
<1>6. CASE pc[g] = "close"
  <2>1. Close(g, "drain") /\ hand' = hand /\ stack' = stack /\ odd' = odd
    BY <1>6 DEF Parse
  <2>2. /\ PcTypes' /\ pc'[g] = "drain" /\ (\A h \in Goroutines \ {g} : pc'[h] = pc[h])
        /\ buf' = buf /\ \A c \in Channels \ {g} : closed'[c] = closed[c]
    BY <1>1, <1>2, <2>1, CloseFacts
  <2>3. HandTypes' /\ BufTypes' /\ DataTypes'
    <3>1. \A h \in Channels : pc'[h] = "send" => pc[h] = "send"
      BY <2>2, Names
    <3>2. QED
      BY <1>2, <2>1, <2>2, <3>1, BufStays, HandsStay, DataStays
  <2>4. QED
    BY <1>2, <1>6, <2>1, <2>2, <2>3 DEF Types, Only
<1>7. QED
  BY <1>4, <1>5, <1>6 DEF Parse

LEMMA DrainDoes ==
    ASSUME Types, Drain
    PROVE  /\ Types'
           /\ UNCHANGED <<file, closed, hand, next, stack, odd, forms, expanded, fate>>
           /\ Only("parser", "adapter")
           /\ pc["parser"] = "drain" /\ pc'["parser"] \in {"drain", "end"}
           /\ buf'["adapter"] = IF buf["adapter"] = << >> THEN << >> ELSE Tail(buf["adapter"])
<1> DEFINE g == "parser"
<1>1. /\ g \in Goroutines /\ g \in Channels /\ "adapter" \in Channels
      /\ {"receive", "send", "close", "drain", "end"} = PlacesOf(g)
  BY Names DEF PlacesOf
<1>2. /\ UNCHANGED <<file, closed, hand, next, stack, odd, forms, expanded, fate>>
      /\ next' = next /\ forms' = forms /\ expanded' = expanded /\ fate' = fate
      /\ stack' = stack /\ odd' = odd /\ hand' = hand /\ closed' = closed
      /\ file' = file /\ PcTypes /\ file' \in Files /\ pc[g] = "drain" /\ Pop("adapter")
      /\ Goto(g, IF Received("adapter") = End THEN "end" ELSE "drain")
  BY DEF Drain, KeepInput, KeepResults, Types
<1>3. /\ BufTypes' /\ (\A d \in Channels \ {"adapter"} : buf'[d] = buf[d])
      /\ buf'["adapter"] = IF buf["adapter"] = << >> THEN << >> ELSE Tail(buf["adapter"])
  BY <1>1, <1>2, PopFacts
<1>4. /\ PcTypes' /\ pc'[g] \in {"drain", "end"} /\ \A h \in Goroutines \ {g} : pc'[h] = pc[h]
  <2>1. PICK w : w = IF Received("adapter") = End THEN "end" ELSE "drain"
    OBVIOUS
  <2>2. Goto(g, w) /\ w \in {"drain", "end"} /\ w \in PlacesOf(g)
    BY <1>1, <1>2, <2>1 DEF Goto
  <2>3. QED
    BY <1>1, <1>2, <2>2, GotoFacts
<1>5. HandTypes' /\ DataTypes'
  <2>1. \A h \in Channels : pc'[h] = "send" => pc[h] = "send"
    BY <1>4, Names
  <2>2. QED
    BY <1>2, <2>1, HandsStay, DataStays
<1>6. QED
  BY <1>2, <1>3, <1>4, <1>5 DEF Types, Only

LEMMA DrainASTDoes ==
    ASSUME Types, DrainAST
    PROVE  /\ Types'
           /\ UNCHANGED <<file, next, stack, odd, forms, expanded, fate>>
           /\ \/ /\ Only("drainer", "parser") /\ closed' = closed
                 /\ pc["drainer"] = "receive" /\ CanReceive("parser")
                 /\ hand'["drainer"] = Converted(Received("parser"))
                 /\ pc'["drainer"] = IF Received("parser") = End THEN "close" ELSE "send"
                 /\ buf'["parser"] = IF buf["parser"] = << >> THEN << >> ELSE Tail(buf["parser"])
              \/ /\ Only("drainer", "drainer") /\ closed' = closed /\ hand' = hand
                 /\ pc["drainer"] = "send" /\ hand["drainer"] \in 0 .. Length
                 /\ pc'["drainer"] = IF hand["drainer"] = Err THEN "close" ELSE "receive"
                 /\ buf'["drainer"] = Append(buf["drainer"], hand["drainer"])
              \/ /\ Only("drainer", "drainer") /\ hand' = hand /\ buf' = buf
                 /\ pc["drainer"] = "close" /\ pc'["drainer"] = "end"
<1> DEFINE g == "drainer"
           from == "parser"
<1>1. /\ g \in Goroutines /\ g \in Channels /\ from \in Channels
      /\ {"receive", "send", "close", "end"} = PlacesOf(g)
  BY Names DEF PlacesOf
<1>2. /\ UNCHANGED <<file, next, stack, odd, forms, expanded, fate>>
      /\ UNCHANGED <<next, stack, odd, forms, expanded, fate>>
      /\ file' = file /\ PcTypes /\ file' \in Files /\ file \in Files
  BY DEF DrainAST, KeepInput, KeepResults, Types
<1>3. DataTypes' /\ Items(g) = 0 .. Length
  BY <1>2, DataStays DEF Items
<1>4. CASE pc[g] = "receive"
  <2>1. /\ CanReceive(from) /\ Pop(from) /\ hand' = [hand EXCEPT ![g] = Converted(Received(from))]
        /\ Goto(g, IF Received(from) = End THEN "close" ELSE "send") /\ closed' = closed
    BY <1>4 DEF DrainAST
  <2>2. /\ BufTypes' /\ (\A d \in Channels \ {from} : buf'[d] = buf[d])
        /\ buf'[from] = IF buf[from] = << >> THEN << >> ELSE Tail(buf[from])
    BY <1>1, <1>2, <2>1, PopFacts
  <2>3. /\ PcTypes' /\ pc'[g] = (IF Received(from) = End THEN "close" ELSE "send")
        /\ (\A h \in Goroutines \ {g} : pc'[h] = pc[h])
    BY <1>1, <1>2, <1>4, <2>1, GotoFacts
  <2>4. Converted(Received(from)) \in Nat /\ (pc'[g] = "send" => Converted(Received(from)) \in Items(g))
    <3>1. Received(from) \in Nat /\ (Received(from) # End => Received(from) \in 0 .. Length)
      BY <1>1, ReceiveFacts
    <3>2. 0 \in 0 .. Length
      BY <1>2, FileFacts
    <3>3. QED
      BY <1>3, <2>3, <3>1, <3>2 DEF Converted, Err
  <2>5. HandTypes' /\ hand'[g] = Converted(Received(from)) /\ \A h \in Goroutines \ {g} : hand'[h] = hand[h]
    BY <1>1, <1>2, <2>1, <2>3, <2>4, HandFacts
  <2>6. QED
    BY <1>2, <1>3, <1>4, <2>1, <2>2, <2>3, <2>5 DEF Types, Only
<1>5. CASE pc[g] = "send"
  <2>1. Send(g, IF hand[g] = Err THEN "close" ELSE "receive") /\ hand' = hand
    BY <1>5 DEF DrainAST
  <2>2. /\ PcTypes' /\ BufTypes' /\ HandTypes' /\ closed' = closed /\ hand[g] \in Items(g)
        /\ pc'[g] = (IF hand[g] = Err THEN "close" ELSE "receive")
        /\ (\A h \in Goroutines \ {g} : pc'[h] = pc[h])
        /\ buf'[g] = Append(buf[g], hand[g]) /\ (\A d \in Channels \ {g} : buf'[d] = buf[d])
    BY <1>1, <1>2, <1>5, <2>1, SendFacts
  <2>3. QED
    BY <1>2, <1>3, <1>5, <2>1, <2>2 DEF Types, Only
<1>6. CASE pc[g] = "close"
  <2>1. Close(g, "end") /\ hand' = hand
    BY <1>6 DEF DrainAST
  <2>2. /\ PcTypes' /\ pc'[g] = "end" /\ (\A h \in Goroutines \ {g} : pc'[h] = pc[h])
        /\ buf' = buf /\ \A c \in Channels \ {g} : closed'[c] = closed[c]
    BY <1>1, <1>2, <2>1, CloseFacts
  <2>3. HandTypes' /\ BufTypes'
    <3>1. \A h \in Channels : pc'[h] = "send" => pc[h] = "send"
      BY <2>2, Names
    <3>2. QED
      BY <1>2, <2>1, <2>2, <3>1, BufStays, HandsStay
  <2>4. QED
    BY <1>2, <1>3, <1>6, <2>1, <2>2, <2>3 DEF Types, Only
<1>7. QED
  BY <1>4, <1>5, <1>6 DEF DrainAST
LEMMA CollectFormsDoes ==
    ASSUME Types, FeederInv, CollectForms
    PROVE  /\ Types'
           /\ UNCHANGED <<file, closed, hand, next, stack, odd, expanded, fate>>
           /\ pc["caller"] = "receive" /\ CanReceive("drainer")
           /\ \A d \in Channels \ {"drainer"} : buf'[d] = buf[d]
           /\ buf'["drainer"] = IF buf["drainer"] = << >> THEN << >> ELSE Tail(buf["drainer"])
           /\ \A g \in Goroutines \ {"caller", "feeder", "expander"} : pc'[g] = pc[g]
           /\ \/ /\ Received("drainer") = End /\ forms' = forms
                 /\ pc'["caller"] = "collect" /\ pc'["feeder"] = "run" /\ pc'["expander"] = "receive"
              \/ /\ Received("drainer") = Err /\ forms' = forms /\ pc'["caller"] = "parse failed"
                 /\ pc'["feeder"] = pc["feeder"] /\ pc'["expander"] = pc["expander"]
              \/ /\ Received("drainer") \in 1 .. Length /\ pc' = pc
                 /\ forms' = Append(forms, Received("drainer"))
<1> DEFINE g == "caller"
           form == Received("drainer")
<1>1. /\ g \in Goroutines /\ "drainer" \in Channels /\ {"feeder", "expander"} \subseteq Goroutines
      /\ "parse failed" \in PlacesOf(g) /\ "collect" \in PlacesOf(g)
      /\ "run" \in PlacesOf("feeder") /\ "receive" \in PlacesOf("expander")
  BY Names DEF PlacesOf
<1>2. /\ UNCHANGED <<file, closed, hand, next, stack, odd, expanded, fate>>
      /\ file' = file /\ hand' = hand /\ next' = next /\ stack' = stack /\ odd' = odd
      /\ expanded' = expanded /\ fate' = fate /\ closed' = closed
      /\ PcTypes /\ file' \in Files /\ file \in Files /\ pc[g] = "receive"
      /\ CanReceive("drainer") /\ Pop("drainer")
  BY DEF CollectForms, KeepInput, Types
<1>3. /\ BufTypes' /\ (\A d \in Channels \ {"drainer"} : buf'[d] = buf[d])
      /\ buf'["drainer"] = IF buf["drainer"] = << >> THEN << >> ELSE Tail(buf["drainer"])
  BY <1>1, <1>2, PopFacts
<1>4. Length' = Length /\ Err # End /\ forms \in Seq(1 .. Length)
  BY <1>2, FileSame, ItemFacts DEF Types, DataTypes
<1>5. form # End /\ form # Err => form \in 1 .. Length
  <2>1. form # End => form \in 0 .. Length
    BY <1>1, ReceiveFacts
  <2>2. Length \in Nat
    BY <1>2, FileFacts
  <2>3. QED
    BY <2>1, <2>2 DEF Err
<1>6. ASSUME PcTypes', \A h \in Channels : pc'[h] = "send" => pc[h] = "send",
             forms' \in Seq(1 .. Length)
      PROVE  Types'
  <2>1. HandTypes'
    BY <1>2, <1>6, HandsStay
  <2>2. DataTypes'
    BY <1>2, <1>4, <1>6 DEF Types, DataTypes
  <2>3. QED
    BY <1>2, <1>3, <1>6, <2>1, <2>2 DEF Types
<1>7. CASE form = End
  <2>1. /\ pc' = [pc EXCEPT ![g] = "collect", !["feeder"] = "run", !["expander"] = "receive"]
        /\ forms' = forms
    BY <1>4, <1>7 DEF CollectForms
  <2>2. /\ pc'[g] = "collect" /\ pc'["feeder"] = "run" /\ pc'["expander"] = "receive"
        /\ (\A h \in Goroutines \ {g, "feeder", "expander"} : pc'[h] = pc[h])
        /\ DOMAIN pc' = Goroutines /\ pc' = [h \in Goroutines |-> pc'[h]]
    BY <1>1, <1>2, <2>1 DEF PcTypes
  <2>3. PcTypes'
    <3>1. {"collect", "run", "receive"} \subseteq Places
      BY DEF Places
    <3>2. \A h \in Goroutines \ {g, "feeder", "expander"} : pc'[h] \in Places /\ pc'[h] \in PlacesOf(h)
      BY <1>2, <2>2 DEF PcTypes
    <3>3. \A c \in {"feeder", "expander"} : ~closed[c]
      BY <1>2, Names DEF FeederInv, PcTypes
    <3>4. \A h \in Goroutines : pc'[h] \in Places /\ pc'[h] \in PlacesOf(h)
      BY <1>1, <2>2, <3>1, <3>2
    <3>5. pc' \in [Goroutines -> Places]
      BY <2>2, <3>4
    <3>6. \A c \in Channels : closed[c] => pc'[c] \in {"drain", "end"}
      BY <1>2, <2>2, <3>3, Names DEF PcTypes
    <3>7. QED
      BY <1>2, <3>4, <3>5, <3>6 DEF PcTypes
  <2>4. QED
    BY <1>2, <1>3, <1>4, <1>6, <1>7, <2>1, <2>2, <2>3, Names
<1>8. CASE form = Err
  <2>1. Goto(g, "parse failed") /\ forms' = forms
    BY <1>4, <1>8 DEF CollectForms
  <2>2. PcTypes' /\ pc'[g] = "parse failed" /\ \A h \in Goroutines \ {g} : pc'[h] = pc[h]
    BY <1>1, <1>2, <2>1, GotoFacts
  <2>3. QED
    BY <1>1, <1>2, <1>3, <1>4, <1>6, <1>8, <2>1, <2>2, Names
<1>9. CASE form # End /\ form # Err
  <2>1. forms' = Append(forms, form) /\ pc' = pc
    BY <1>9 DEF CollectForms
  <2>2. forms' \in Seq(1 .. Length)
    BY <1>4, <1>5, <1>9, <2>1, SeqFacts
  <2>3. PcTypes'
    BY <1>2, <2>1 DEF PcTypes
  <2>4. QED
    BY <1>2, <1>3, <1>5, <1>6, <1>9, <2>1, <2>2, <2>3
<1>10. QED
  BY <1>7, <1>8, <1>9
LEMMA FeedDoes ==
    ASSUME Types, Feed
    PROVE  /\ Types' /\ Only("feeder", "feeder")
           /\ UNCHANGED <<file, hand, stack, odd, forms, expanded, fate>>
           /\ next'["tokenizer"] = next["tokenizer"] /\ pc["feeder"] = "run"
           /\ \/ /\ next["feeder"] < Len(forms) /\ pc' = pc /\ closed' = closed
                 /\ buf'["feeder"] = Append(buf["feeder"], forms[next["feeder"] + 1])
                 /\ next'["feeder"] = next["feeder"] + 1
              \/ /\ ~(next["feeder"] < Len(forms)) /\ buf' = buf /\ next' = next
                 /\ pc'["feeder"] = "end"
<1> DEFINE g == "feeder"
<1>1. /\ g \in Goroutines /\ g \in Channels /\ "end" \in PlacesOf(g) /\ g # "tokenizer"
  BY Names DEF PlacesOf
<1>2. /\ UNCHANGED <<file, hand, stack, odd, forms, expanded, fate>> /\ file' = file
      /\ next[g] \in Nat /\ PcTypes /\ file' \in Files /\ file \in Files /\ pc[g] = "run"
      /\ forms \in Seq(1 .. Length) /\ hand' = hand
  BY DEF Feed, KeepInput, KeepResults, Types, DataTypes
<1>3. CASE next[g] < Len(forms)
  <2>1. /\ buf' = [buf EXCEPT ![g] = Append(@, forms[next[g] + 1])]
        /\ next' = [next EXCEPT ![g] = @ + 1] /\ pc' = pc /\ closed' = closed
    BY <1>3 DEF Feed
  <2>2. forms[next[g] + 1] \in Items(g)
    <3>1. next[g] + 1 \in DOMAIN forms
      BY <1>2, <1>3
    <3>2. forms[next[g] + 1] \in 1 .. Length
      BY <1>2, <3>1, SeqFacts
    <3>3. QED
      BY <1>2, <3>2, FileFacts DEF Items
  <2>3. /\ BufTypes' /\ (\A d \in Channels \ {g} : buf'[d] = buf[d])
        /\ buf'[g] = Append(buf[g], forms[next[g] + 1])
    BY <1>1, <1>2, <2>1, <2>2, PutFacts
  <2>4. /\ next' \in [{"tokenizer", "feeder"} -> Nat] /\ next'[g] = next[g] + 1
        /\ next'["tokenizer"] = next["tokenizer"]
    BY <1>2, <2>1 DEF Types, DataTypes
  <2>5. DataTypes'
    <3>1. Length' = Length
      BY <1>2, FileSame
    <3>2. QED
      BY <1>2, <2>4, <3>1 DEF Types, DataTypes
  <2>6. HandTypes' /\ PcTypes'
    <3>1. HandTypes'
      BY <1>2, <2>1, HandsStay
    <3>2. QED
      BY <1>2, <2>1, <3>1 DEF PcTypes
  <2>7. QED
    BY <1>2, <1>3, <2>1, <2>3, <2>4, <2>5, <2>6 DEF Types, Only
<1>4. CASE ~(next[g] < Len(forms))
  <2>1. Close(g, "end") /\ next' = next /\ buf' = buf
    BY <1>4 DEF Feed, Close
  <2>2. /\ PcTypes' /\ pc'[g] = "end" /\ (\A h \in Goroutines \ {g} : pc'[h] = pc[h])
        /\ \A c \in Channels \ {g} : closed'[c] = closed[c]
    BY <1>1, <1>2, <2>1, CloseFacts
  <2>3. BufTypes' /\ HandTypes' /\ DataTypes'
    <3>1. \A h \in Channels : pc'[h] = "send" => pc[h] = "send"
      BY <2>2, Names
    <3>2. QED
      BY <1>2, <2>1, <3>1, BufStays, HandsStay, DataStays
  <2>4. QED
    BY <1>2, <1>4, <2>1, <2>2, <2>3 DEF Types, Only
<1>5. QED
  BY <1>3, <1>4

LEMMA ExpandDoes ==
    ASSUME Types, Expand
    PROVE  /\ Types'
           /\ UNCHANGED <<file, next, stack, odd, forms, expanded>>
           /\ \/ /\ Only("expander", "feeder") /\ closed' = closed
                 /\ pc["expander"] = "receive" /\ CanReceive("feeder")
                 /\ buf'["feeder"] = IF buf["feeder"] = << >> THEN << >> ELSE Tail(buf["feeder"])
                 /\ \/ Received("feeder") = End /\ pc'["expander"] = "close" /\ fate' = fate
                    \/ /\ Received("feeder") # End
                       /\ \E f \in {"kept", "macro", "throws"} :
                            /\ fate' = Append(fate, f)
                            /\ hand'["expander"] = IF f = "throws" THEN Err ELSE Received("feeder")
                            /\ pc'["expander"] = IF f = "macro" THEN "receive" ELSE "send"
              \/ /\ Only("expander", "expander") /\ closed' = closed /\ hand' = hand /\ fate' = fate
                 /\ pc["expander"] = "send" /\ hand["expander"] \in 0 .. Length
                 /\ pc'["expander"] = IF hand["expander"] = Err THEN "close" ELSE "receive"
                 /\ buf'["expander"] = Append(buf["expander"], hand["expander"])
              \/ /\ Only("expander", "expander") /\ hand' = hand /\ buf' = buf /\ fate' = fate
                 /\ pc["expander"] = "close" /\ pc'["expander"] = "end"
<1> DEFINE g == "expander"
           from == "feeder"
           v == Received(from)
<1>1. /\ g \in Goroutines /\ g \in Channels /\ from \in Channels
      /\ {"receive", "send", "close", "end"} \subseteq PlacesOf(g)
  BY Names DEF PlacesOf
<1>2. /\ UNCHANGED <<file, next, stack, odd, forms, expanded>>
      /\ next' = next /\ stack' = stack /\ odd' = odd /\ forms' = forms /\ expanded' = expanded
      /\ file' = file /\ PcTypes /\ file' \in Files /\ file \in Files
  BY DEF Expand, KeepInput, Types
<1>3. Items(g) = 0 .. Length /\ Err \in 0 .. Length /\ Err \in Nat /\ Length' = Length
  BY <1>2, FileFacts, FileSame DEF Items, Err
<1>4. fate \in Seq({"kept", "macro", "throws"})
  BY DEF Types, DataTypes
<1>5. fate' \in Seq({"kept", "macro", "throws"}) => DataTypes'
  BY <1>2, <1>3 DEF Types, DataTypes
<1>6. CASE pc[g] = "receive"
  <2>1. CanReceive(from) /\ Pop(from) /\ closed' = closed
    BY <1>6 DEF Expand
  <2>2. /\ BufTypes' /\ (\A d \in Channels \ {from} : buf'[d] = buf[d])
        /\ buf'[from] = IF buf[from] = << >> THEN << >> ELSE Tail(buf[from])
    BY <1>1, <1>2, <2>1, PopFacts
  <2>3. CASE v = End
    <3>1. Goto(g, "close") /\ hand' = hand /\ fate' = fate
      BY <1>6, <2>3 DEF Expand
    <3>2. PcTypes' /\ pc'[g] = "close" /\ \A h \in Goroutines \ {g} : pc'[h] = pc[h]
      BY <1>1, <1>2, <1>6, <2>1, <3>1, GotoFacts
    <3>3. HandTypes'
      <4>1. \A h \in Channels : pc'[h] = "send" => pc[h] = "send"
        BY <3>2, Names
      <4>2. QED
        BY <1>2, <3>1, <4>1, HandsStay
    <3>4. QED
      BY <1>2, <1>4, <1>5, <1>6, <2>1, <2>2, <2>3, <3>1, <3>2, <3>3 DEF Types, Only
  <2>4. CASE v # End
    <3>1. PICK f \in {"kept", "macro", "throws"} :
             /\ fate' = Append(fate, f)
             /\ hand' = [hand EXCEPT ![g] = IF f = "throws" THEN Err ELSE v]
             /\ Goto(g, IF f = "macro" THEN "receive" ELSE "send")
      BY <1>6, <2>4 DEF Expand, AfterExpansion
    <3>2. /\ PcTypes' /\ pc'[g] = (IF f = "macro" THEN "receive" ELSE "send")
          /\ \A h \in Goroutines \ {g} : pc'[h] = pc[h]
      BY <1>1, <1>2, <1>6, <2>1, <3>1, GotoFacts
    <3>3. (IF f = "throws" THEN Err ELSE v) \in Nat /\ (IF f = "throws" THEN Err ELSE v) \in Items(g)
      <4>1. v \in Nat /\ v \in 0 .. Length
        BY <1>1, <2>4, ReceiveFacts
      <4>2. QED
        BY <1>3, <4>1
    <3>4. /\ HandTypes' /\ hand'[g] = (IF f = "throws" THEN Err ELSE v)
          /\ \A h \in Goroutines \ {g} : hand'[h] = hand[h]
      BY <1>1, <1>2, <3>1, <3>2, <3>3, HandFacts
    <3>5. fate' \in Seq({"kept", "macro", "throws"})
      BY <1>4, <3>1, SeqFacts
    <3>6. QED
      BY <1>2, <1>5, <1>6, <2>1, <2>2, <2>4, <3>1, <3>2, <3>4, <3>5 DEF Types, Only
  <2>5. QED
    BY <2>3, <2>4
<1>7. CASE pc[g] = "send"
  <2>1. Send(g, IF hand[g] = Err THEN "close" ELSE "receive") /\ hand' = hand /\ fate' = fate
    BY <1>7 DEF Expand
  <2>2. /\ PcTypes' /\ BufTypes' /\ HandTypes' /\ closed' = closed /\ hand[g] \in Items(g)
        /\ pc'[g] = (IF hand[g] = Err THEN "close" ELSE "receive")
        /\ (\A h \in Goroutines \ {g} : pc'[h] = pc[h])
        /\ buf'[g] = Append(buf[g], hand[g]) /\ (\A d \in Channels \ {g} : buf'[d] = buf[d])
    BY <1>1, <1>2, <1>7, <2>1, SendFacts
  <2>3. QED
    BY <1>2, <1>3, <1>4, <1>5, <1>7, <2>1, <2>2 DEF Types, Only
<1>8. CASE pc[g] = "close"
  <2>1. Close(g, "end") /\ hand' = hand /\ fate' = fate
    BY <1>8 DEF Expand
  <2>2. /\ PcTypes' /\ pc'[g] = "end" /\ (\A h \in Goroutines \ {g} : pc'[h] = pc[h])
        /\ buf' = buf /\ \A c \in Channels \ {g} : closed'[c] = closed[c]
    BY <1>1, <1>2, <2>1, CloseFacts
  <2>3. HandTypes' /\ BufTypes'
    <3>1. \A h \in Channels : pc'[h] = "send" => pc[h] = "send"
      BY <2>2, Names
    <3>2. QED
      BY <1>2, <2>1, <2>2, <3>1, BufStays, HandsStay
  <2>4. QED
    BY <1>2, <1>4, <1>5, <1>8, <2>1, <2>2, <2>3 DEF Types, Only
<1>9. QED
  BY <1>6, <1>7, <1>8 DEF Expand

LEMMA CollectExpandedDoes ==
    ASSUME Types, CollectExpanded
    PROVE  /\ Types'
           /\ UNCHANGED <<file, closed, hand, next, stack, odd, forms, fate>>
           /\ pc["caller"] = "collect" /\ CanReceive("expander")
           /\ Only("caller", "expander")
           /\ buf'["expander"] = IF buf["expander"] = << >> THEN << >> ELSE Tail(buf["expander"])
           /\ \/ /\ Received("expander") = End /\ expanded' = expanded /\ pc'["caller"] = "done"
              \/ /\ Received("expander") = Err /\ expanded' = expanded
                 /\ pc'["caller"] = "expand failed"
              \/ /\ Received("expander") \in 1 .. Length /\ pc' = pc
                 /\ expanded' = Append(expanded, Received("expander"))
<1> DEFINE g == "caller"
           form == Received("expander")
<1>1. /\ g \in Goroutines /\ "expander" \in Channels
      /\ "expand failed" \in PlacesOf(g) /\ "done" \in PlacesOf(g)
  BY Names DEF PlacesOf
<1>2. /\ UNCHANGED <<file, closed, hand, next, stack, odd, forms, fate>>
      /\ file' = file /\ hand' = hand /\ next' = next /\ stack' = stack /\ odd' = odd
      /\ forms' = forms /\ fate' = fate /\ closed' = closed
      /\ PcTypes /\ file' \in Files /\ file \in Files /\ pc[g] = "collect"
      /\ CanReceive("expander") /\ Pop("expander")
  BY DEF CollectExpanded, KeepInput, Types
<1>3. /\ BufTypes' /\ (\A d \in Channels \ {"expander"} : buf'[d] = buf[d])
      /\ buf'["expander"] = IF buf["expander"] = << >> THEN << >> ELSE Tail(buf["expander"])
  BY <1>1, <1>2, PopFacts
<1>4. Length' = Length /\ Err # End /\ expanded \in Seq(1 .. Length)
  BY <1>2, FileSame, ItemFacts DEF Types, DataTypes
<1>5. form # End /\ form # Err => form \in 1 .. Length
  <2>1. form # End => form \in 0 .. Length
    BY <1>1, ReceiveFacts
  <2>2. Length \in Nat
    BY <1>2, FileFacts
  <2>3. QED
    BY <2>1, <2>2 DEF Err
<1>6. ASSUME PcTypes', \A h \in Channels : pc'[h] = "send" => pc[h] = "send",
             expanded' \in Seq(1 .. Length)
      PROVE  Types'
  <2>1. HandTypes'
    BY <1>2, <1>6, HandsStay
  <2>2. DataTypes'
    BY <1>2, <1>4, <1>6 DEF Types, DataTypes
  <2>3. QED
    BY <1>2, <1>3, <1>6, <2>1, <2>2 DEF Types
<1>7. ASSUME NEW w \in {"done", "expand failed"}, Goto(g, w), expanded' = expanded
      PROVE  Types' /\ pc'[g] = w /\ \A h \in Goroutines \ {g} : pc'[h] = pc[h]
  <2>1. w \in PlacesOf(g)
    BY <1>1, <1>7
  <2>2. PcTypes' /\ pc'[g] = w /\ \A h \in Goroutines \ {g} : pc'[h] = pc[h]
    BY <1>1, <1>2, <1>7, <2>1, GotoFacts
  <2>3. QED
    BY <1>4, <1>6, <1>7, <2>2, Names
<1>8. CASE form = End
  <2>1. Goto(g, "done") /\ expanded' = expanded
    BY <1>4, <1>8 DEF CollectExpanded
  <2>2. QED
    BY <1>2, <1>3, <1>7, <1>8, <2>1 DEF Only
<1>9. CASE form = Err
  <2>1. Goto(g, "expand failed") /\ expanded' = expanded
    BY <1>4, <1>9 DEF CollectExpanded
  <2>2. QED
    BY <1>2, <1>3, <1>7, <1>9, <2>1 DEF Only
<1>10. CASE form # End /\ form # Err
  <2>1. expanded' = Append(expanded, form) /\ pc' = pc
    BY <1>10 DEF CollectExpanded
  <2>2. expanded' \in Seq(1 .. Length)
    BY <1>4, <1>5, <1>10, <2>1, SeqFacts
  <2>3. PcTypes'
    BY <1>2, <2>1 DEF PcTypes
  <2>4. QED
    BY <1>2, <1>3, <1>5, <1>6, <1>10, <2>1, <2>2, <2>3 DEF Only
<1>11. QED
  BY <1>8, <1>9, <1>10
-----------------------------------------------------------------------------
(* The tokens on their way to the parser.                                  *)

LEMMA RunPop ==
    ASSUME NEW s \in Seq(Nat), NEW n \in Int, Run(s, n)
    PROVE  LET t == IF s = << >> THEN << >> ELSE Tail(s)
               m == IF s = << >> THEN n ELSE n + 1 IN
           /\ Run(t, m) /\ Len(t) = Len(s) - (m - n) /\ Len(s) \in Nat
           /\ s # << >> => Head(s) = n + 1
<1>1. CASE s = << >>
  BY <1>1 DEF Run
<1>2. CASE s # << >>
  <2>1. /\ Len(Tail(s)) = Len(s) - 1 /\ Head(s) = s[1] /\ Len(s) \in Nat /\ 1 \in DOMAIN s
        /\ \A i \in DOMAIN Tail(s) : Tail(s)[i] = s[i + 1] /\ i + 1 \in DOMAIN s /\ i \in Nat
    BY <1>2
  <2>2. Head(s) = n + 1
    BY <2>1 DEF Run
  <2>3. \A i \in DOMAIN Tail(s) : Tail(s)[i] = (n + 1) + i
    BY <2>1 DEF Run
  <2>4. QED
    BY <1>2, <2>1, <2>2, <2>3 DEF Run
<1>3. QED
  BY <1>1, <1>2

LEMMA RunTail ==
    ASSUME NEW s \in Seq(Nat), NEW n \in Int, Run(s, n), s # << >>
    PROVE  Run(Tail(s), n + 1) /\ Len(Tail(s)) = Len(s) - 1 /\ Head(s) = n + 1
<1>1. /\ Run(Tail(s), n + 1) /\ Len(Tail(s)) = Len(s) - ((n + 1) - n) /\ Len(s) \in Nat
      /\ Head(s) = n + 1
  BY RunPop
<1>2. (n + 1) - n = 1
  OBVIOUS
<1>3. QED
  BY <1>1, <1>2

LEMMA RunPut ==
    ASSUME NEW s \in Seq(Nat), NEW n \in Int, Run(s, n), NEW v \in Nat, v = n + Len(s) + 1
    PROVE  Run(Append(s, v), n) /\ Len(Append(s, v)) = Len(s) + 1 /\ Len(s) \in Nat
<1>1. /\ Len(Append(s, v)) = Len(s) + 1 /\ Len(s) \in Nat
      /\ \A i \in DOMAIN Append(s, v) : (i \in DOMAIN s /\ Append(s, v)[i] = s[i])
                                         \/ (i = Len(s) + 1 /\ Append(s, v)[i] = v)
  OBVIOUS
<1>2. QED
  BY <1>1 DEF Run

TokenNumbers ==
    /\ next["tokenizer"] \in Nat
    /\ buf["tokenizer"] \in Seq(Nat) /\ Len(buf["tokenizer"]) \in Nat
    /\ buf["bridge"] \in Seq(Nat) /\ Len(buf["bridge"]) \in Nat
    /\ buf["adapter"] \in Seq(Nat) /\ Len(buf["adapter"]) \in Nat
    /\ FromTokenizer \in Int /\ FromBridge \in Int /\ Position \in Int
    /\ Sending("bridge") \in {0, 1} /\ Sending("adapter") \in {0, 1}
    /\ Length \in Nat /\ file \in Files

LEMMA TokenTypes ==
    ASSUME Types
    PROVE  TokenNumbers
<1>1. /\ next["tokenizer"] \in Nat
      /\ \A c \in {"tokenizer", "bridge", "adapter"} : buf[c] \in Seq(Nat)
      /\ file \in Files
  BY Names DEF Types, DataTypes, BufTypes
<1>2. \A c \in {"tokenizer", "bridge", "adapter"} : Len(buf[c]) \in Nat
  BY <1>1
<1>3. Sending("bridge") \in {0, 1} /\ Sending("adapter") \in {0, 1}
  BY DEF Sending
<1>4. FromTokenizer \in Int
  BY <1>1, <1>2 DEF FromTokenizer
<1>5. FromBridge \in Int
  BY <1>2, <1>3, <1>4 DEF FromBridge
<1>6. Position \in Int
  BY <1>2, <1>3, <1>5 DEF Position
<1>7. QED
  BY <1>1, <1>2, <1>3, <1>4, <1>5, <1>6, FileFacts DEF TokenNumbers

LEMMA TokensStay ==
    ASSUME TokensInv, file' = file, next'["tokenizer"] = next["tokenizer"],
           \A c \in {"tokenizer", "bridge", "adapter"} : buf'[c] = buf[c],
           \A g \in {"bridge", "adapter"} : pc'[g] = pc[g] /\ hand'[g] = hand[g],
           \A c \in {"tokenizer", "bridge"} : closed'[c] = closed[c]
    PROVE  TokensInv' /\ Position' = Position
<1>1. Length' = Length
  BY FileSame
<1>2. FromTokenizer' = FromTokenizer
  BY DEF FromTokenizer
<1>3. FromBridge' = FromBridge
  BY <1>2 DEF FromBridge, Sending
<1>4. Position' = Position
  BY <1>3 DEF Position, Sending
<1>5. QED
  BY <1>1, <1>2, <1>3, <1>4 DEF TokensInv, Run

LEMMA TokensTokenize ==
    ASSUME Types, TokensInv, Tokenize
    PROVE  TokensInv' /\ Position' = Position
<1>0. TokenNumbers
  BY TokenTypes
<1> DEFINE g == "tokenizer"
<1>1. /\ Types' /\ Only(g, g) /\ file' = file /\ hand' = hand /\ pc[g] = "run"
      /\ \/ buf' = buf /\ closed' = closed /\ next' = next
         \/ /\ next[g] < Length /\ pc' = pc /\ closed' = closed
            /\ buf'[g] = Append(buf[g], next[g] + 1) /\ next'[g] = next[g] + 1
         \/ ~(next[g] < Length) /\ buf' = buf /\ next' = next
  BY TokenizeDoes
<1>2. /\ \A h \in {"bridge", "adapter"} : pc'[h] = pc[h] /\ hand'[h] = hand[h] /\ buf'[h] = buf[h]
      /\ closed'["bridge"] = closed["bridge"]
  BY <1>1, Names DEF Only
<1>3. ~closed[g]
  BY <1>1, Names DEF Types, PcTypes
<1>4. Length' = Length
  BY <1>1, FileSame
<1>5. CASE buf' = buf /\ closed' = closed /\ next' = next
  BY <1>1, <1>2, <1>5, TokensStay
<1>6. CASE /\ next[g] < Length /\ pc' = pc /\ closed' = closed
           /\ buf'[g] = Append(buf[g], next[g] + 1) /\ next'[g] = next[g] + 1
  <2>1. Run(buf'[g], FromTokenizer) /\ Len(buf'[g]) = Len(buf[g]) + 1
    <3>1. next[g] + 1 = FromTokenizer + Len(buf[g]) + 1 /\ Run(buf[g], FromTokenizer)
      BY <1>0 DEF TokenNumbers, FromTokenizer, TokensInv
    <3>2. PICK s, n, v : s = buf[g] /\ n = FromTokenizer /\ v = next[g] + 1
      OBVIOUS
    <3>3. s \in Seq(Nat) /\ n \in Int /\ v \in Nat
      BY <3>2, <1>0 DEF TokenNumbers
    <3>4. Run(s, n) /\ v = n + Len(s) + 1
      BY <3>1, <3>2
    <3>5. Run(Append(s, v), n) /\ Len(Append(s, v)) = Len(s) + 1
      BY <3>3, <3>4, RunPut
    <3>6. QED
      BY <1>6, <3>2, <3>5
  <2>2. FromTokenizer' = FromTokenizer
    <3>1. PICK k, l, m : k = next[g] /\ l = Len(buf[g]) /\ m = Len(buf'[g])
      OBVIOUS
    <3>2. k \in Nat /\ l \in Nat /\ m = l + 1 /\ next'[g] = k + 1
      BY <1>6, <2>1, <3>1, <1>0 DEF TokenNumbers
    <3>3. k - l = (k + 1) - m
      BY <3>2
    <3>4. QED
      BY <3>1, <3>2, <3>3, Zenon DEF FromTokenizer
  <2>3. FromBridge' = FromBridge
    BY <1>2, <2>2 DEF FromBridge, Sending
  <2>4. Position' = Position
    BY <1>2, <2>3 DEF Position, Sending
  <2>5. next'[g] <= Length
    BY <1>6, <1>0 DEF TokenNumbers
  <2>6. QED
    BY <1>1, <1>2, <1>3, <1>4, <1>6, <2>1, <2>2, <2>3, <2>4, <2>5 DEF TokensInv, Run
<1>7. CASE ~(next[g] < Length) /\ buf' = buf /\ next' = next
  <2>1. FromTokenizer' = FromTokenizer
    BY <1>7 DEF FromTokenizer
  <2>2. FromBridge' = FromBridge
    BY <1>2, <2>1 DEF FromBridge, Sending
  <2>3. Position' = Position
    BY <1>2, <2>2 DEF Position, Sending
  <2>4. next[g] = Length
    BY <1>7, <1>0 DEF TokenNumbers, TokensInv
  <2>5. QED
    BY <1>1, <1>2, <1>3, <1>4, <1>7, <2>1, <2>2, <2>3, <2>4 DEF TokensInv, Run
<1>8. QED
  BY <1>1, <1>5, <1>6, <1>7

LEMMA TokensBridge ==
    ASSUME Types, TokensInv, Bridge
    PROVE  TokensInv' /\ Position' = Position
<1>0. TokenNumbers
  BY TokenTypes
<1> DEFINE g == "bridge"
           from == "tokenizer"
           adapt == "adapter"
<1>1. Copy(g, from)
  BY DEF Bridge
<1>2. /\ Types' /\ file' = file /\ next' = next
      /\ \/ /\ Only(g, from) /\ closed' = closed
            /\ pc[g] = "receive" /\ CanReceive(from) /\ hand'[g] = Received(from)
            /\ pc'[g] = IF Received(from) = End THEN "close" ELSE "send"
            /\ buf'[from] = IF buf[from] = << >> THEN << >> ELSE Tail(buf[from])
         \/ /\ Only(g, g) /\ closed' = closed /\ hand' = hand
            /\ pc[g] = "send" /\ pc'[g] = "receive"
            /\ buf'[g] = Append(buf[g], hand[g])
         \/ /\ Only(g, g) /\ hand' = hand /\ buf' = buf
            /\ pc[g] = "close" /\ pc'[g] = "end"
  BY <1>1, CopyDoes
<1>3. Length' = Length
  BY <1>2, FileSame
<1>4. CASE /\ Only(g, from) /\ closed' = closed
           /\ pc[g] = "receive" /\ CanReceive(from) /\ hand'[g] = Received(from)
           /\ pc'[g] = IF Received(from) = End THEN "close" ELSE "send"
           /\ buf'[from] = IF buf[from] = << >> THEN << >> ELSE Tail(buf[from])
  <2>1. pc'[adapt] = pc[adapt] /\ hand'[adapt] = hand[adapt] /\ buf'[adapt] = buf[adapt] /\ buf'[g] = buf[g]
    BY <1>4, Names DEF Only
  <2>2. CASE Received(from) = End
    <3>1. buf[from] = << >> /\ buf'[from] = buf[from] /\ closed[from] /\ pc'[g] = "close"
      BY <1>4, <2>2, ReceiveFacts, Names DEF CanReceive
    <3>2. FromTokenizer' = FromTokenizer
      BY <1>2, <3>1 DEF FromTokenizer
    <3>3. FromBridge' = FromBridge
      BY <1>4, <2>1, <3>1, <3>2 DEF FromBridge, Sending
    <3>4. Position' = Position
      BY <2>1, <3>3 DEF Position, Sending
    <3>5. QED
      BY <1>2, <1>3, <1>4, <2>1, <3>1, <3>2, <3>3, <3>4 DEF TokensInv, Run
  <2>3. CASE Received(from) # End
    <3>1. /\ buf[from] # << >> /\ Received(from) = Head(buf[from]) /\ pc'[g] = "send"
          /\ buf'[from] = Tail(buf[from])
      BY <1>4, <2>3, ReceiveFacts, Names
    <3>2. /\ Run(buf'[from], FromTokenizer + 1) /\ Len(buf'[from]) = Len(buf[from]) - 1
          /\ hand'[g] = FromTokenizer + 1
      <4>1. buf[from] \in Seq(Nat) /\ FromTokenizer \in Int /\ Run(buf[from], FromTokenizer)
        BY <1>0 DEF TokenNumbers, TokensInv
      <4>2. /\ Run(Tail(buf[from]), FromTokenizer + 1) /\ Head(buf[from]) = FromTokenizer + 1
            /\ Len(Tail(buf[from])) = Len(buf[from]) - 1
        BY <3>1, <4>1, RunPop
      <4>3. QED
        BY <1>4, <3>1, <4>2
    <3>3. FromTokenizer' = FromTokenizer + 1
      BY <1>2, <3>2, <1>0 DEF TokenNumbers, FromTokenizer
    <3>4. FromBridge' = FromBridge
      <4>1. Sending("bridge") = 0 /\ Sending("bridge")' = 1
        BY <1>4, <3>1 DEF Sending
      <4>2. /\ FromTokenizer \in Int /\ Len(buf["bridge"]) \in Int
            /\ FromBridge = FromTokenizer - Sending("bridge") - Len(buf["bridge"])
            /\ FromBridge' = FromTokenizer' - Sending("bridge")' - Len(buf["bridge"]')
        BY <1>0 DEF TokenNumbers, FromBridge
      <4>3. QED
        BY <2>1, <3>3, <4>1, <4>2
    <3>5. Position' = Position
      BY <2>1, <3>4 DEF Position, Sending
    <3>6. QED
      BY <1>2, <1>3, <1>4, <2>1, <3>1, <3>2, <3>3, <3>4, <3>5 DEF TokensInv, Run
  <2>4. QED
    BY <2>2, <2>3
<1>5. CASE /\ Only(g, g) /\ closed' = closed /\ hand' = hand
           /\ pc[g] = "send" /\ pc'[g] = "receive" /\ buf'[g] = Append(buf[g], hand[g])
  <2>1. pc'[adapt] = pc[adapt] /\ buf'[adapt] = buf[adapt] /\ buf'[from] = buf[from]
    BY <1>5, Names DEF Only
  <2>2. FromTokenizer' = FromTokenizer
    BY <1>2, <2>1 DEF FromTokenizer
  <2>3. Run(buf'[g], FromBridge) /\ Len(buf'[g]) = Len(buf[g]) + 1
    <3>1. Run(buf[g], FromBridge) /\ hand[g] \in Nat
      BY <1>5, Names DEF TokensInv, Types, HandTypes
    <3>0. hand["bridge"] = FromTokenizer
      BY <1>5 DEF TokensInv
    <3>2. Sending("bridge") = 1
      BY <1>5 DEF Sending
    <3>3. /\ FromTokenizer \in Int /\ Len(buf["bridge"]) \in Int
          /\ FromBridge = FromTokenizer - Sending("bridge") - Len(buf["bridge"])
      BY <1>0 DEF TokenNumbers, FromBridge
    <3>4. FromTokenizer = FromBridge + Len(buf["bridge"]) + 1
      BY <3>2, <3>3
    <3>5. hand["bridge"] = FromBridge + Len(buf["bridge"]) + 1
      BY <3>0, <3>4, Zenon
    <3>6. PICK s, n, v : s = buf["bridge"] /\ n = FromBridge /\ v = hand["bridge"]
      OBVIOUS
    <3>7. s \in Seq(Nat) /\ n \in Int /\ v \in Nat /\ Run(s, n) /\ v = n + Len(s) + 1
      BY <3>1, <3>5, <3>6, <1>0 DEF TokenNumbers
    <3>8. Run(Append(s, v), n) /\ Len(Append(s, v)) = Len(s) + 1
      BY <3>7, RunPut
    <3>9. QED
      BY <1>5, <3>6, <3>8
  <2>4. FromBridge' = FromBridge
    <3>1. Sending("bridge") = 1 /\ Sending("bridge")' = 0
      BY <1>5 DEF Sending
    <3>2. /\ FromTokenizer \in Int /\ Len(buf["bridge"]) \in Int
          /\ FromBridge = FromTokenizer - Sending("bridge") - Len(buf["bridge"])
          /\ FromBridge' = FromTokenizer' - Sending("bridge")' - Len(buf["bridge"]')
      BY <1>0 DEF TokenNumbers, FromBridge
    <3>3. QED
      BY <2>2, <2>3, <3>1, <3>2
  <2>5. Position' = Position
    BY <2>1, <2>4 DEF Position, Sending
  <2>6. ~(pc[adapt] \in {"close", "end"})
    BY <1>5, Names DEF TokensInv, Types, PcTypes
  <2>7. QED
    BY <1>2, <1>3, <1>5, <2>1, <2>2, <2>3, <2>4, <2>5, <2>6 DEF TokensInv, Run
<1>6. CASE /\ Only(g, g) /\ hand' = hand /\ buf' = buf /\ pc[g] = "close" /\ pc'[g] = "end"
  <2>1. pc'[adapt] = pc[adapt] /\ closed'[from] = closed[from]
    BY <1>6, Names DEF Only
  <2>2. FromTokenizer' = FromTokenizer
    BY <1>2, <1>6 DEF FromTokenizer
  <2>3. FromBridge' = FromBridge
    BY <1>6, <2>2 DEF FromBridge, Sending
  <2>4. Position' = Position
    BY <1>6, <2>1, <2>3 DEF Position, Sending
  <2>5. ~(pc[adapt] \in {"close", "end"})
    BY <1>6, Names DEF TokensInv, Types, PcTypes
  <2>6. QED
    BY <1>2, <1>3, <1>6, <2>1, <2>2, <2>3, <2>4, <2>5 DEF TokensInv, Run
<1>7. QED
  BY <1>2, <1>4, <1>5, <1>6

LEMMA TokensAdapter ==
    ASSUME Types, TokensInv, Adapter
    PROVE  TokensInv' /\ Position' = Position
<1>0. TokenNumbers
  BY TokenTypes
<1> DEFINE g == "adapter"
           from == "bridge"
           first == "tokenizer"
<1>1. Copy(g, from)
  BY DEF Adapter
<1>2. /\ Types' /\ file' = file /\ next' = next
      /\ \/ /\ Only(g, from) /\ closed' = closed
            /\ pc[g] = "receive" /\ CanReceive(from) /\ hand'[g] = Received(from)
            /\ pc'[g] = IF Received(from) = End THEN "close" ELSE "send"
            /\ buf'[from] = IF buf[from] = << >> THEN << >> ELSE Tail(buf[from])
         \/ /\ Only(g, g) /\ closed' = closed /\ hand' = hand
            /\ pc[g] = "send" /\ pc'[g] = "receive"
            /\ buf'[g] = Append(buf[g], hand[g])
         \/ /\ Only(g, g) /\ hand' = hand /\ buf' = buf
            /\ pc[g] = "close" /\ pc'[g] = "end"
  BY <1>1, CopyDoes
<1>3. Length' = Length
  BY <1>2, FileSame
<1>4. CASE /\ Only(g, from) /\ closed' = closed
           /\ pc[g] = "receive" /\ CanReceive(from) /\ hand'[g] = Received(from)
           /\ pc'[g] = IF Received(from) = End THEN "close" ELSE "send"
           /\ buf'[from] = IF buf[from] = << >> THEN << >> ELSE Tail(buf[from])
  <2>1. pc'[from] = pc[from] /\ hand'[from] = hand[from] /\ buf'[first] = buf[first] /\ buf'[g] = buf[g]
    BY <1>4, Names DEF Only
  <2>2. FromTokenizer' = FromTokenizer
    BY <1>2, <2>1 DEF FromTokenizer
  <2>3. CASE Received(from) = End
    <3>1. buf[from] = << >> /\ buf'[from] = buf[from] /\ closed[from] /\ pc'[g] = "close"
      BY <1>4, <2>3, ReceiveFacts, Names DEF CanReceive
    <3>2. FromBridge' = FromBridge
      BY <2>1, <2>2, <3>1 DEF FromBridge, Sending
    <3>3. Position' = Position
      BY <1>4, <2>1, <3>1, <3>2 DEF Position, Sending
    <3>4. QED
      BY <1>2, <1>3, <1>4, <2>1, <2>2, <3>1, <3>2, <3>3 DEF TokensInv, Run
  <2>4. CASE Received(from) # End
    <3>1. /\ buf[from] # << >> /\ Received(from) = Head(buf[from]) /\ pc'[g] = "send"
          /\ buf'[from] = Tail(buf[from])
      BY <1>4, <2>4, ReceiveFacts, Names
    <3>2. /\ Run(buf'[from], FromBridge + 1) /\ Len(buf'[from]) = Len(buf[from]) - 1
          /\ hand'[g] = FromBridge + 1
      <4>1. PICK s, n : s = buf["bridge"] /\ n = FromBridge
        OBVIOUS
      <4>2. s \in Seq(Nat) /\ n \in Int /\ Run(s, n) /\ s # << >>
        BY <3>1, <4>1, <1>0 DEF TokenNumbers, TokensInv
      <4>3. Run(Tail(s), n + 1) /\ Len(Tail(s)) = Len(s) - 1 /\ Head(s) = n + 1
        BY <4>2, RunTail
      <4>4. QED
        BY <1>4, <3>1, <4>1, <4>3
    <3>3. FromBridge' = FromBridge + 1
      <4>1. Sending(from)' = Sending(from)
        BY <2>1 DEF Sending
      <4>2. QED
        BY <2>2, <3>2, <4>1, <1>0 DEF TokenNumbers, FromBridge
    <3>4. Position' = Position
      <4>1. Sending(g) = 0 /\ Sending(g)' = 1 /\ Len(buf'[g]) = Len(buf[g])
        BY <1>4, <2>1, <3>1 DEF Sending
      <4>2. FromBridge \in Int /\ Len(buf[g]) \in Nat
        BY <1>0 DEF TokenNumbers
      <4>3. PICK x, y : x = FromBridge /\ y = Len(buf[g])
        OBVIOUS
      <4>4. (x + 1) - 1 - y = x - 0 - y
        BY <4>2, <4>3
      <4>5. FromBridge' = x + 1 /\ Len(buf'[g]) = y
        BY <3>3, <4>1, <4>3
      <4>6. QED
        BY <4>1, <4>3, <4>4, <4>5, Zenon DEF Position
    <3>5. QED
      BY <1>2, <1>3, <1>4, <2>1, <2>2, <3>1, <3>2, <3>3, <3>4 DEF TokensInv, Run
  <2>5. QED
    BY <2>3, <2>4
<1>5. CASE /\ Only(g, g) /\ closed' = closed /\ hand' = hand
           /\ pc[g] = "send" /\ pc'[g] = "receive" /\ buf'[g] = Append(buf[g], hand[g])
  <2>1. pc'[from] = pc[from] /\ buf'[first] = buf[first] /\ buf'[from] = buf[from]
    BY <1>5, Names DEF Only
  <2>2. FromTokenizer' = FromTokenizer
    BY <1>2, <2>1 DEF FromTokenizer
  <2>3. FromBridge' = FromBridge
    BY <2>1, <2>2 DEF FromBridge, Sending
  <2>4. Run(buf'[g], Position) /\ Len(buf'[g]) = Len(buf[g]) + 1
    <3>1. Run(buf[g], Position) /\ hand[g] \in Nat
      BY <1>5, Names DEF TokensInv, Types, HandTypes
    <3>0. hand["adapter"] = FromBridge
      BY <1>5 DEF TokensInv
    <3>2. Sending("adapter") = 1
      BY <1>5 DEF Sending
    <3>3. /\ FromBridge \in Int /\ Len(buf["adapter"]) \in Int
          /\ Position = FromBridge - Sending("adapter") - Len(buf["adapter"])
      BY <1>0 DEF TokenNumbers, Position
    <3>4. FromBridge = Position + Len(buf["adapter"]) + 1
      BY <3>2, <3>3
    <3>5. hand["adapter"] = Position + Len(buf["adapter"]) + 1
      BY <3>0, <3>4, Zenon
    <3>6. PICK s, n, v : s = buf["adapter"] /\ n = Position /\ v = hand["adapter"]
      OBVIOUS
    <3>7. s \in Seq(Nat) /\ n \in Int /\ v \in Nat /\ Run(s, n) /\ v = n + Len(s) + 1
      BY <3>1, <3>5, <3>6, <1>0 DEF TokenNumbers
    <3>8. Run(Append(s, v), n) /\ Len(Append(s, v)) = Len(s) + 1
      BY <3>7, RunPut
    <3>9. QED
      BY <1>5, <3>6, <3>8
  <2>5. Position' = Position
    <3>1. Sending("adapter") = 1 /\ Sending("adapter")' = 0
      BY <1>5 DEF Sending
    <3>2. /\ FromBridge \in Int /\ Len(buf["adapter"]) \in Int
          /\ Position = FromBridge - Sending("adapter") - Len(buf["adapter"])
          /\ Position' = FromBridge' - Sending("adapter")' - Len(buf["adapter"]')
      BY <1>0 DEF TokenNumbers, Position
    <3>3. QED
      BY <2>3, <2>4, <3>1, <3>2
  <2>6. QED
    BY <1>2, <1>3, <1>5, <2>1, <2>2, <2>3, <2>4, <2>5 DEF TokensInv, Run
<1>6. CASE /\ Only(g, g) /\ hand' = hand /\ buf' = buf /\ pc[g] = "close" /\ pc'[g] = "end"
  <2>1. pc'[from] = pc[from] /\ closed'[from] = closed[from] /\ closed'[first] = closed[first]
    BY <1>6, Names DEF Only
  <2>2. FromTokenizer' = FromTokenizer
    BY <1>2, <1>6 DEF FromTokenizer
  <2>3. FromBridge' = FromBridge
    BY <1>6, <2>1, <2>2 DEF FromBridge, Sending
  <2>4. Position' = Position
    BY <1>6, <2>3 DEF Position, Sending
  <2>5. QED
    BY <1>2, <1>3, <1>6, <2>1, <2>2, <2>3, <2>4 DEF TokensInv, Run
<1>7. QED
  BY <1>2, <1>4, <1>5, <1>6

\* The parser takes the next token, or finds the end of the file.
LEMMA TokensTake ==
    ASSUME Types, TokensInv, CanReceive("adapter"), file' = file, next' = next, closed' = closed,
           Only("parser", "adapter"),
           buf'["adapter"] = IF buf["adapter"] = << >> THEN << >> ELSE Tail(buf["adapter"])
    PROVE  /\ TokensInv'
           /\ Position \in 0 .. Length
           /\ \/ Received("adapter") = End /\ Position = Length /\ Position' = Position
              \/ /\ Received("adapter") = Position + 1 /\ Position + 1 \in 1 .. Length
                 /\ Position' = Position + 1
<1>0. TokenNumbers
  BY TokenTypes
<1> DEFINE c == "adapter"
<1>1. /\ \A h \in {"bridge", "adapter"} : pc'[h] = pc[h] /\ hand'[h] = hand[h]
      /\ buf'["tokenizer"] = buf["tokenizer"] /\ buf'["bridge"] = buf["bridge"] /\ c \in Channels
  BY Names DEF Only
<1>2. FromTokenizer' = FromTokenizer
  BY <1>1 DEF FromTokenizer
<1>3. FromBridge' = FromBridge
  BY <1>1, <1>2 DEF FromBridge, Sending
<1>4. Length' = Length
  BY FileSame
<1>5. Position >= 0 /\ Position \in Int /\ Length \in Nat /\ Position <= Length
  <2>1. FromTokenizer <= Length
    BY <1>0 DEF TokenNumbers, TokensInv, FromTokenizer
  <2>2. FromBridge <= FromTokenizer
    BY <1>0 DEF TokenNumbers, FromBridge
  <2>3. Position <= FromBridge
    BY <1>0 DEF TokenNumbers, Position
  <2>4. QED
    BY <2>1, <2>2, <2>3, <1>0 DEF TokenNumbers, TokensInv
<1>6. CASE buf[c] = << >>
  <2>1. buf'[c] = buf[c] /\ closed[c] /\ Received(c) = End
    BY <1>6 DEF CanReceive, Received
  <2>2. Position' = Position
    BY <1>1, <1>3, <2>1 DEF Position, Sending
  <2>3. Position = Length
    <3>1. pc[c] = "end"
      BY <2>1, Names DEF Types, PcTypes, PlacesOf
    <3>2. closed["bridge"] /\ buf["bridge"] = << >>
      BY <3>1 DEF TokensInv
    <3>3. pc["bridge"] = "end"
      BY <3>2, Names DEF Types, PcTypes, PlacesOf
    <3>4. closed["tokenizer"] /\ buf["tokenizer"] = << >> /\ next["tokenizer"] = Length
      BY <3>3 DEF TokensInv
    <3>5. QED
      BY <1>6, <3>1, <3>2, <3>3, <3>4, <1>0 DEF TokenNumbers, Position, FromBridge, FromTokenizer, Sending
  <2>4. TokensInv'
    BY <1>1, <1>2, <1>3, <1>4, <2>1, <2>2 DEF TokensInv, Run
  <2>5. QED
    BY <1>5, <2>1, <2>2, <2>3, <2>4
<1>7. CASE buf[c] # << >>
  <2>1. /\ Run(buf'[c], Position + 1) /\ Len(buf'[c]) = Len(buf[c]) - 1
        /\ Head(buf[c]) = Position + 1 /\ Len(buf[c]) \in Nat
    <3>1. Run(buf[c], Position) /\ buf[c] \in Seq(Nat) /\ Position \in Int
      BY <1>0 DEF TokenNumbers, TokensInv
    <3>2. QED
      BY <1>7, <3>1, RunPop
  <2>2. Received(c) = Position + 1
    BY <1>7, <2>1 DEF Received
  <2>3. Position' = Position + 1
    <3>1. Sending(c)' = Sending(c)
      BY <1>1 DEF Sending
    <3>2. QED
      BY <1>3, <2>1, <3>1, <1>0 DEF TokenNumbers, Position
  <2>4. Position + 1 \in 1 .. Length
    <3>1. Head(buf[c]) \in Items(c) /\ Items(c) = 1 .. Length
      <4>1. buf[c] \in Seq(Items(c))
        BY <1>1 DEF Types, BufTypes
      <4>2. Items(c) = 1 .. Length
        BY DEF Items
      <4>3. QED
        BY <1>7, <4>1, <4>2, SeqFacts
    <3>2. QED
      BY <2>1, <3>1
  <2>5. TokensInv'
    BY <1>1, <1>2, <1>3, <1>4, <1>5, <2>1, <2>3 DEF TokensInv, Run
  <2>6. QED
    BY <1>5, <2>2, <2>3, <2>4, <2>5
<1>8. QED
  BY <1>6, <1>7
-----------------------------------------------------------------------------
(* The reader's open lists.                                                *)

LEMMA StackFacts ==
    ASSUME file \in Files, NEW p \in 0 .. Length, NEW st \in Seq(1 .. Length), NEW o,
           StackInv(st, o, p)
    PROVE  /\ Len(st) \in Nat /\ DOMAIN st = 1 .. Len(st)
           /\ \A i \in DOMAIN st : st[i] \in 1 .. Length /\ st[i] \in Nat /\ st[i] \in OpenAt(p)
           /\ \A s \in OpenAt(p) : s \in 1 .. p /\ EndOf(s) > p /\ EndOf(s) \in Nat
           /\ \A s \in OpenAt(p) : \E i \in DOMAIN st : s = st[i]
           /\ \A s \in ReadForms(p) : s \notin OpenAt(p) /\ EndOf(s) <= p /\ s \in TopForms
<1>1. Len(st) \in Nat /\ DOMAIN st = 1 .. Len(st) /\ \A i \in DOMAIN st : st[i] \in 1 .. Length
  <2>1. Len(st) \in Nat /\ DOMAIN st = 1 .. Len(st)
    OBVIOUS
  <2>2. \A i \in DOMAIN st : st[i] \in 1 .. Length
    BY SeqFacts
  <2>3. QED
    BY <2>1, <2>2
<1>2. \A i \in DOMAIN st : st[i] \in Nat /\ st[i] \in OpenAt(p)
  BY <1>1, FileFacts DEF StackInv
<1>3. \A s \in OpenAt(p) : s \in 1 .. p /\ EndOf(s) > p /\ EndOf(s) \in Nat
  BY OpenFacts, FileFacts
<1>4. \A s \in OpenAt(p) : \E i \in DOMAIN st : s = st[i]
  BY DEF StackInv
<1>5. ASSUME NEW s \in ReadForms(p) PROVE s \notin OpenAt(p) /\ EndOf(s) <= p /\ s \in TopForms
  <2>1. EndOf(s) <= p /\ s \in TopForms /\ EndOf(s) \in Nat /\ p \in Nat
    BY TopFacts, FileFacts DEF ReadForms
  <2>2. QED
    BY <1>3, <2>1
<1>6. QED
  BY <1>1, <1>2, <1>3, <1>4, <1>5

\* The innermost list, and the one around it.
LEMMA TopFactsOfStack ==
    ASSUME file \in Files, NEW p \in 0 .. Length, NEW st \in Seq(1 .. Length), NEW o,
           StackInv(st, o, p), st # << >>
    PROVE  LET n == Len(st)
               t == st[Len(st)] IN
           /\ n \in DOMAIN st /\ t \in OpenAt(p) /\ t \in 1 .. p
           /\ \A k \in OpenAt(p) : k <= t
           /\ Depth(t - 1) = Depth(p) - 1
           /\ \A k \in OpenAt(p) \ {t} : Depth(k - 1) < Depth(p) - 1
           /\ n > 1 => /\ st[n - 1] \in 1 .. t - 1 /\ n - 1 \in DOMAIN st
                       /\ \A k \in OpenAt(p) : k <= st[n - 1] \/ k = t
<1> DEFINE n == Len(st)
           t == st[n]
<1>1. n \in Nat /\ DOMAIN st = 1 .. n /\ n \in DOMAIN st /\ n >= 1
  BY StackFacts
<1>2. \A i \in DOMAIN st : st[i] \in Nat /\ st[i] \in OpenAt(p) /\ st[i] \in 1 .. p
  BY StackFacts
<1>3. \A i, j \in DOMAIN st : i < j => st[i] < st[j]
  BY DEF StackInv
<1>4. \A i \in DOMAIN st : Depth(st[i] - 1) = i - 1
  BY DEF StackInv
<1>5. Depth(p) = n
  BY DEF StackInv
<1>6. \A k \in OpenAt(p) : \E i \in DOMAIN st : k = st[i]
  BY StackFacts
<1>7. \A k \in OpenAt(p) : k <= t
  <2> SUFFICES ASSUME NEW i \in DOMAIN st PROVE st[i] <= t
    BY <1>6
  <2>1. CASE i = n
    BY <1>1, <1>2, <2>1
  <2>2. CASE i < n
    BY <1>1, <1>2, <1>3, <2>2
  <2>3. QED
    BY <1>1, <2>1, <2>2
<1>8. Depth(t - 1) = Depth(p) - 1
  BY <1>1, <1>4, <1>5
<1>9. \A k \in OpenAt(p) \ {t} : Depth(k - 1) < Depth(p) - 1
  <2> SUFFICES ASSUME NEW i \in DOMAIN st, i # n PROVE Depth(st[i] - 1) < Depth(p) - 1
    BY <1>6
  <2>1. i \in Nat /\ i < n /\ Depth(st[i] - 1) = i - 1
    BY <1>1, <1>4
  <2>2. QED
    BY <1>1, <1>5, <2>1
<1>10. ASSUME n > 1
       PROVE  /\ st[n - 1] \in 1 .. t - 1 /\ n - 1 \in DOMAIN st
              /\ \A k \in OpenAt(p) : k <= st[n - 1] \/ k = t
  <2>1. n - 1 \in DOMAIN st /\ n - 1 < n
    BY <1>1, <1>10
  <2>2. st[n - 1] < t /\ st[n - 1] \in 1 .. p /\ t \in 1 .. p
    BY <1>1, <1>2, <1>3, <2>1
  <2>3. st[n - 1] \in 1 .. t - 1
    BY <2>2, FileFacts
  <2>4. ASSUME NEW i \in DOMAIN st PROVE st[i] <= st[n - 1] \/ st[i] = t
    <3>1. i = n \/ i = n - 1 \/ i < n - 1
      BY <1>1
    <3>2. QED
      BY <1>2, <1>3, <2>1, <3>1
  <2>5. QED
    BY <1>6, <2>1, <2>3, <2>4
<1>11. QED
  BY <1>1, <1>2, <1>7, <1>8, <1>9, <1>10

LEMMA ReadsSingle ==
    ASSUME file \in Files, NEW p \in 0 .. Length - 1, NEW st \in Seq(1 .. Length), NEW o,
           StackInv(st, o, p), file[p + 1] \in {"atom", "odd"},
           NEW m, m = IF file[p + 1] = "odd"
                      THEN o \cup {IF st = << >> THEN p + 1 ELSE st[Len(st)]} ELSE o
    PROVE  /\ StackInv(st, m, p + 1)
           /\ st = << >> => /\ p + 1 \in TopForms /\ EndOf(p + 1) = p + 1
                            /\ ReadForms(p + 1) = ReadForms(p) \cup {p + 1}
           /\ st # << >> => ReadForms(p + 1) = ReadForms(p)
<1> DEFINE n == Len(st)
           t == st[n]
<1>0. /\ p \in Nat /\ p \in 0 .. Length /\ p + 1 \in 1 .. Length /\ p + 1 - 1 = p
      /\ file[p + 1] \notin Openers \cup {"close"} /\ p + 1 \in Nat
  BY FileFacts DEF Openers
<1>1. OpenAt(p + 1) = OpenAt(p) /\ Depth(p + 1) = Depth(p)
  BY <1>0, OpenAtSingle
<1>2. p < FirstWrong /\ p + 1 < FirstWrong
  <2>1. p < FirstWrong
    BY DEF StackInv
  <2>2. p + 1 \notin Wrong
    BY <1>0 DEF Wrong
  <2>3. QED
    BY <2>1, <2>2, NotWrongYet
<1>3. /\ n \in Nat /\ DOMAIN st = 1 .. n
      /\ (\A i \in DOMAIN st : st[i] \in Nat /\ st[i] \in OpenAt(p))
      /\ (\A s \in OpenAt(p) : s \in 1 .. p /\ EndOf(s) > p /\ EndOf(s) \in Nat)
      /\ (\A s \in ReadForms(p) : s \notin OpenAt(p) /\ EndOf(s) <= p /\ s \in TopForms)
  BY <1>0, StackFacts
<1>4. st # << >> => /\ n \in DOMAIN st /\ t \in OpenAt(p) /\ t \in 1 .. p
                    /\ \A k \in OpenAt(p) : k <= t
  BY <1>0, TopFactsOfStack
<1>5. /\ (\A i, j \in DOMAIN st : i < j => st[i] < st[j])
      /\ {st[i] : i \in DOMAIN st} = OpenAt(p) /\ Depth(p) = n
      /\ (\A i \in DOMAIN st : Depth(st[i] - 1) = i - 1) /\ o \subseteq 1 .. p
      /\ (\A i \in DOMAIN st : st[i] \in o <=> OddIn(st[i], IF i < n THEN st[i + 1] - 1 ELSE p))
      /\ (\A s \in ReadForms(p) : s \in o <=> Unconvertible(s))
  BY DEF StackInv
<1>6. m \subseteq 1 .. p + 1
  <2>1. 1 .. p \subseteq 1 .. p + 1 /\ p + 1 \in 1 .. p + 1
    BY <1>0
  <2>2. QED
    BY <1>4, <1>5, <2>1
<1>7. ASSUME NEW i \in DOMAIN st
      PROVE  st[i] \in m <=> OddIn(st[i], IF i < n THEN st[i + 1] - 1 ELSE p + 1)
  <2>1. st # << >> /\ i <= n /\ i \in Nat
    BY <1>3
  <2>2. CASE i < n
    <3>1. st[i] # t
      BY <1>3, <1>4, <1>5, <2>1, <2>2
    <3>2. QED
      BY <1>5, <2>1, <2>2, <3>1
  <2>3. CASE i = n
    <3>1. OddIn(t, p + 1) <=> OddIn(t, p) \/ file[p + 1] = "odd"
      BY <1>0, <1>4, <2>1, OddNext
    <3>2. t \in o <=> OddIn(t, p)
      BY <1>3, <1>5, <2>3
    <3>3. QED
      BY <1>3, <2>1, <2>3, <3>1, <3>2
  <2>4. QED
    BY <1>3, <2>1, <2>2, <2>3
<1>8. st = << >> => p + 1 \in TopForms /\ EndOf(p + 1) = p + 1 /\ (p + 1 \in m <=> Unconvertible(p + 1))
  <2> HAVE st = << >>
  <2>1. EndOf(p + 1) = p + 1 /\ Depth(p) = 0
    BY <1>0, <1>5, SingleToken
  <2>2. ~Dropped(p + 1)
    BY <1>0, <1>2, <2>1, NotDropped DEF Openers
  <2>3. p + 1 \in TopForms
    BY <1>0, <1>2, <2>1, <2>2 DEF TopForms
  <2>4. Unconvertible(p + 1) <=> OddIn(p + 1, p + 1)
    BY <2>1, <2>3, TopOdd
  <2>5. OddIn(p + 1, p + 1) <=> file[p + 1] = "odd"
    BY <1>0 DEF OddIn
  <2>6. p + 1 \notin o
    BY <1>0, <1>5
  <2>7. QED
    BY <2>1, <2>3, <2>4, <2>5, <2>6
<1>9. {s \in TopForms : EndOf(s) = p + 1} = IF st = << >> THEN {p + 1} ELSE {}
  <2>1. ASSUME NEW s \in TopForms, EndOf(s) = p + 1 PROVE s = p + 1 /\ st = << >>
    <3>1. s = p + 1 /\ Depth(p + 1) = 0
      BY <1>0, <2>1, EndsHere
    <3>2. QED
      BY <1>1, <1>3, <1>5, <3>1
  <2>2. QED
    BY <1>8, <2>1
<1>10. ReadForms(p + 1) = ReadForms(p) \cup {s \in TopForms : EndOf(s) = p + 1}
  BY <1>0, ReadNext
<1>11. ASSUME NEW s \in ReadForms(p + 1) PROVE s \in m <=> Unconvertible(s)
  <2>1. CASE s \in ReadForms(p)
    <3>1. s # p + 1
      <4>1. EndOf(s) <= p /\ s <= EndOf(s) /\ s \in Nat /\ EndOf(s) \in Nat
        BY <1>3, <2>1, TopFacts
      <4>2. QED
        BY <1>0, <4>1
    <3>2. st # << >> => s # t
      BY <1>3, <1>4, <2>1
    <3>3. QED
      BY <1>5, <2>1, <3>1, <3>2
  <2>2. CASE s \notin ReadForms(p)
    BY <1>8, <1>9, <1>10, <2>2
  <2>3. QED
    BY <2>1, <2>2
<1>12. StackInv(st, m, p + 1)
  BY <1>1, <1>2, <1>5, <1>6, <1>7, <1>11 DEF StackInv
<1>13. QED
  BY <1>8, <1>9, <1>10, <1>12

LEMMA ReadsOpener ==
    ASSUME file \in Files, NEW p \in 0 .. Length - 1, NEW st \in Seq(1 .. Length), NEW o,
           StackInv(st, o, p), file[p + 1] \in Openers, NEW u, u = Append(st, p + 1)
    PROVE  StackInv(u, o, p + 1) /\ ReadForms(p + 1) = ReadForms(p)
<1> DEFINE n == Len(st)
<1>0. /\ p \in Nat /\ p \in 0 .. Length /\ p + 1 \in 1 .. Length /\ p + 1 - 1 = p
      /\ file[p + 1] # "close" /\ file[p + 1] # "bad" /\ file[p + 1] # "odd" /\ p + 1 \in Nat
  BY FileFacts DEF Openers
<1>1. OpenAt(p + 1) = OpenAt(p) \cup {p + 1} /\ Depth(p + 1) = Depth(p) + 1
  BY <1>0, OpenAtOpener
<1>2. p < FirstWrong /\ p + 1 < FirstWrong
  <2>1. p < FirstWrong
    BY DEF StackInv
  <2>2. p + 1 \notin Wrong
    BY <1>0 DEF Wrong
  <2>3. QED
    BY <2>1, <2>2, NotWrongYet
<1>3. /\ n \in Nat /\ DOMAIN st = 1 .. n
      /\ (\A i \in DOMAIN st : st[i] \in Nat /\ st[i] \in OpenAt(p))
      /\ (\A s \in OpenAt(p) : s \in 1 .. p)
      /\ (\A s \in ReadForms(p) : s \notin OpenAt(p) /\ EndOf(s) <= p /\ s \in TopForms)
  BY <1>0, StackFacts
<1>5. /\ (\A i, j \in DOMAIN st : i < j => st[i] < st[j])
      /\ {st[i] : i \in DOMAIN st} = OpenAt(p) /\ Depth(p) = n
      /\ (\A i \in DOMAIN st : Depth(st[i] - 1) = i - 1) /\ o \subseteq 1 .. p
      /\ (\A i \in DOMAIN st : st[i] \in o <=> OddIn(st[i], IF i < n THEN st[i + 1] - 1 ELSE p))
      /\ (\A s \in ReadForms(p) : s \in o <=> Unconvertible(s))
  BY DEF StackInv
<1>6. /\ Len(u) = n + 1 /\ DOMAIN u = 1 .. n + 1 /\ u[n + 1] = p + 1 /\ n + 1 \in DOMAIN u
      /\ \A i \in DOMAIN st : u[i] = st[i] /\ i \in DOMAIN u
      /\ \A i \in DOMAIN u : i \in DOMAIN st \/ i = n + 1
  <2>1. p + 1 \in 1 .. Length
    BY <1>0
  <2>2. Len(u) = n + 1 /\ DOMAIN u = 1 .. n + 1 /\ u[n + 1] = p + 1 /\ \A i \in DOMAIN st : u[i] = st[i]
    BY <2>1
  <2>3. QED
    BY <1>3, <2>2
<1>7. \A i, j \in DOMAIN u : i < j => u[i] < u[j]
  <2> SUFFICES ASSUME NEW i \in DOMAIN u, NEW j \in DOMAIN u, i < j PROVE u[i] < u[j]
    OBVIOUS
  <2>1. i \in DOMAIN st
    BY <1>3, <1>6
  <2>2. CASE j \in DOMAIN st
    BY <1>5, <1>6, <2>1, <2>2
  <2>3. CASE j = n + 1
    <3>1. st[i] \in 1 .. p
      BY <1>3, <2>1
    <3>2. QED
      BY <1>0, <1>6, <2>1, <2>3, <3>1
  <2>4. QED
    BY <1>6, <2>2, <2>3
<1>8. {u[i] : i \in DOMAIN u} = OpenAt(p + 1)
  <2>1. {u[i] : i \in DOMAIN u} = {st[i] : i \in DOMAIN st} \cup {p + 1}
    BY <1>6
  <2>2. QED
    BY <1>1, <1>5, <2>1
<1>9. \A i \in DOMAIN u : Depth(u[i] - 1) = i - 1
  <2>1. \A i \in DOMAIN st : Depth(u[i] - 1) = i - 1
    BY <1>5, <1>6
  <2>2. Depth(u[n + 1] - 1) = n + 1 - 1
    BY <1>0, <1>3, <1>5, <1>6
  <2>3. QED
    BY <1>6, <2>1, <2>2
<1>10. o \subseteq 1 .. p + 1 /\ p + 1 \notin o
  BY <1>0, <1>5
<1>11. ASSUME NEW i \in DOMAIN u
       PROVE  u[i] \in o <=> OddIn(u[i], IF i < Len(u) THEN u[i + 1] - 1 ELSE p + 1)
  <2>1. CASE i \in DOMAIN st /\ i < n
    <3>1. i + 1 \in DOMAIN st /\ i < Len(u) /\ u[i + 1] = st[i + 1] /\ u[i] = st[i]
      BY <1>3, <1>6, <2>1
    <3>2. QED
      BY <1>5, <2>1, <3>1
  <2>2. CASE i \in DOMAIN st /\ i = n
    <3>1. i < Len(u) /\ u[i + 1] = p + 1 /\ u[i] = st[i] /\ ~(i < n)
      BY <1>3, <1>6, <2>2
    <3>2. u[i + 1] - 1 = p
      BY <1>0, <3>1
    <3>3. st[i] \in o <=> OddIn(st[i], p)
      BY <1>5, <2>2, <3>1
    <3>4. QED
      BY <3>1, <3>2, <3>3
  <2>3. CASE i = n + 1
    <3>1. ~(i < Len(u)) /\ u[i] = p + 1
      BY <1>3, <1>6, <2>3
    <3>2. ~OddIn(p + 1, p + 1)
      BY <1>0 DEF OddIn
    <3>3. QED
      BY <1>10, <3>1, <3>2
  <2>4. QED
    BY <1>3, <1>6, <2>1, <2>2, <2>3
<1>12. ReadForms(p + 1) = ReadForms(p)
  <2>1. ASSUME NEW s \in TopForms, EndOf(s) = p + 1 PROVE FALSE
    <3>1. s = p + 1
      BY <1>0, <2>1, EndsHere
    <3>2. EndOf(p + 1) > p + 1
      BY <1>1 DEF OpenAt
    <3>3. QED
      BY <1>0, <2>1, <3>1, <3>2
  <2>2. ReadForms(p + 1) = ReadForms(p) \cup {s \in TopForms : EndOf(s) = p + 1}
    BY <1>0, ReadNext
  <2>3. QED
    BY <2>1, <2>2
<1>13. Depth(p + 1) = Len(u)
  BY <1>1, <1>5, <1>6
<1>14. StackInv(u, o, p + 1)
  BY <1>2, <1>5, <1>7, <1>8, <1>9, <1>10, <1>11, <1>12, <1>13 DEF StackInv
<1>15. QED
  BY <1>12, <1>14

\* The lists around the innermost one.
Outer(st) == SubSeq(st, 1, Len(st) - 1)

\* The marks behind the end of a list: its own goes to the list around it.
Joined(o, outer, list) ==
    IF file[list] # "comment" /\ list \in o
    THEN o \cup {IF outer = << >> THEN list ELSE outer[Len(outer)]} ELSE o

LEMMA ReadsClose ==
    ASSUME file \in Files, NEW p \in 0 .. Length - 1, NEW st \in Seq(1 .. Length), NEW o,
           StackInv(st, o, p), file[p + 1] = "close", st # << >>,
           NEW u, u = Outer(st),
           NEW t, t = st[Len(st)],
           NEW m, m = Joined(o, u, t)
    PROVE  /\ StackInv(u, m, p + 1)
           /\ file[t] # "comment" /\ u = << >> =>
                 /\ t \in TopForms /\ EndOf(t) = p + 1
                 /\ ReadForms(p + 1) = ReadForms(p) \cup {t}
           /\ ~(file[t] # "comment" /\ u = << >>) => ReadForms(p + 1) = ReadForms(p)
<1> USE DEF Joined, Outer
<1> DEFINE n == Len(st)
<1>0. /\ p \in Nat /\ p \in 0 .. Length /\ p + 1 \in 1 .. Length /\ p + 1 - 1 = p /\ p + 1 \in Nat
  BY FileFacts
<1>3. /\ n \in Nat /\ DOMAIN st = 1 .. n
      /\ (\A i \in DOMAIN st : st[i] \in Nat /\ st[i] \in OpenAt(p))
      /\ (\A s \in OpenAt(p) : s \in 1 .. p /\ EndOf(s) > p /\ EndOf(s) \in Nat)
      /\ (\A s \in ReadForms(p) : s \notin OpenAt(p) /\ EndOf(s) <= p /\ s \in TopForms)
  BY <1>0, StackFacts
<1>4. /\ n \in DOMAIN st /\ t \in OpenAt(p) /\ t \in 1 .. p
      /\ (\A k \in OpenAt(p) : k <= t)
      /\ Depth(t - 1) = Depth(p) - 1
      /\ (\A k \in OpenAt(p) \ {t} : Depth(k - 1) < Depth(p) - 1)
      /\ n > 1 => /\ st[n - 1] \in 1 .. t - 1 /\ n - 1 \in DOMAIN st
                  /\ \A k \in OpenAt(p) : k <= st[n - 1] \/ k = t
  BY <1>0, TopFactsOfStack
<1>5. /\ (\A i, j \in DOMAIN st : i < j => st[i] < st[j])
      /\ {st[i] : i \in DOMAIN st} = OpenAt(p) /\ Depth(p) = n
      /\ (\A i \in DOMAIN st : Depth(st[i] - 1) = i - 1) /\ o \subseteq 1 .. p
      /\ (\A i \in DOMAIN st : st[i] \in o <=> OddIn(st[i], IF i < n THEN st[i + 1] - 1 ELSE p))
      /\ (\A s \in ReadForms(p) : s \in o <=> Unconvertible(s)) /\ p < FirstWrong
  BY DEF StackInv
<1>6. Len(u) = n - 1 /\ DOMAIN u = 1 .. n - 1 /\ n \in Nat /\ n >= 1 /\ (u = << >> <=> n = 1) /\ t = st[n]
  BY OuterFacts
<1>61. \A i \in DOMAIN u : u[i] = st[i] /\ i \in DOMAIN st /\ i < n /\ i \in Nat
  <2>1. \A i \in 1 .. n - 1 : u[i] = st[i]
    BY OuterFacts
  <2>2. \A i \in 1 .. n - 1 : i \in 1 .. n /\ i < n /\ i \in Nat
    BY <1>6
  <2>3. QED
    BY <1>3, <1>6, <2>1, <2>2, Zenon
<1>62. \A i \in DOMAIN st : i \in DOMAIN u \/ i = n
  BY <1>3, <1>6
<1> HIDE DEF n
<1>7. /\ OpenAt(p + 1) = OpenAt(p) \ {t} /\ Depth(p + 1) = Depth(p) - 1 /\ EndOf(t) = p + 1
  BY <1>0, <1>4, OpenAtClose
<1>8. p + 1 < FirstWrong
  <2>1. Depth(p + 1) = n - 1 /\ ~(n - 1 < 0)
    BY <1>5, <1>6, <1>7
  <2>2. p + 1 \notin Wrong
    BY <2>1 DEF Wrong
  <2>3. QED
    BY <1>5, <2>2, NotWrongYet
<1>9. \A i, j \in DOMAIN u : i < j => u[i] < u[j]
  BY <1>5, <1>61
<1>10. {u[i] : i \in DOMAIN u} = OpenAt(p + 1)
  <2>1. \A i \in DOMAIN u : u[i] # t
    <3> SUFFICES ASSUME NEW i \in DOMAIN u PROVE u[i] # t
      OBVIOUS
    <3>1. i \in DOMAIN st /\ n \in DOMAIN st /\ i < n /\ u[i] = st[i]
      BY <1>4, <1>61
    <3>2. st[i] < st[n] /\ st[i] \in Nat /\ st[n] \in Nat
      BY <1>3, <1>5, <3>1
    <3>3. QED
      BY <1>6, <3>1, <3>2
  <2>2. {u[i] : i \in DOMAIN u} = {st[i] : i \in DOMAIN st} \ {t}
    <3>1. \A i \in DOMAIN u : u[i] \in {st[j] : j \in DOMAIN st} \ {t}
      BY <1>61, <2>1
    <3>2. \A i \in DOMAIN st : st[i] # t => i \in DOMAIN u /\ st[i] = u[i]
      BY <1>6, <1>61, <1>62
    <3>3. \A x \in {st[j] : j \in DOMAIN st} \ {t} : x \in {u[i] : i \in DOMAIN u}
      BY <3>2, Zenon
    <3>4. \A x \in {u[i] : i \in DOMAIN u} : x \in {st[j] : j \in DOMAIN st} \ {t}
      BY <3>1, Zenon
    <3> DEFINE U == {u[i] : i \in DOMAIN u}
               V == {st[j] : j \in DOMAIN st} \ {t}
    <3>5. (\A x \in V : x \in U) /\ \A x \in U : x \in V
      BY <3>3, <3>4
    <3> HIDE DEF U, V
    <3>6. U = V
      BY <3>5
    <3>7. QED
      BY <3>6 DEF U, V
  <2>3. QED
    BY <1>5, <1>7, <2>2
<1>11. Depth(p + 1) = Len(u) /\ \A i \in DOMAIN u : Depth(u[i] - 1) = i - 1
  BY <1>5, <1>6, <1>61, <1>7
<1>12. u # << >> => u[Len(u)] = st[n - 1] /\ n > 1 /\ n - 1 \in DOMAIN u /\ st[n - 1] \in OpenAt(p)
  <2> HAVE u # << >>
  <2>1. n > 1 /\ n - 1 \in DOMAIN u
    BY <1>6
  <2>2. u[n - 1] = st[n - 1] /\ n - 1 \in DOMAIN st
    BY <1>61, <2>1
  <2>3. QED
    BY <1>3, <1>6, <2>1, <2>2
<1>13. m \subseteq 1 .. p + 1
  <2>1. 1 .. p \subseteq 1 .. p + 1
    BY <1>0
  <2>2. o \subseteq 1 .. p + 1 /\ t \in 1 .. p + 1
    BY <1>4, <1>5, <2>1
  <2>3. u # << >> => u[Len(u)] \in 1 .. p + 1
    BY <1>3, <1>12, <2>1
  <2>4. QED
    BY <2>2, <2>3
<1>14. t \in o <=> OddIn(t, p)
  <2>1. ~(n < n) /\ n \in DOMAIN st
    BY <1>4, <1>6
  <2>2. QED
    BY <1>5, <1>6, <2>1
<1>15. ASSUME NEW i \in DOMAIN u
       PROVE  u[i] \in m <=> OddIn(u[i], IF i < Len(u) THEN u[i + 1] - 1 ELSE p + 1)
  <2>0. i \in DOMAIN st /\ u[i] = st[i] /\ i < n /\ i \in Nat /\ n \in Nat
    BY <1>6, <1>61, Zenon
  <2>01. i \in 1 .. n - 1 /\ n # 1
    BY <1>6, <2>0
  <2>02. u # << >> /\ n > 1
    BY <1>6, <2>01
  <2>1. i \in DOMAIN st /\ u[i] = st[i] /\ i < n /\ u # << >> /\ i <= n - 1 /\ i \in Nat /\ n - 1 \in DOMAIN st
    BY <1>4, <2>0, <2>01, <2>02
  <2>2. CASE i < n - 1
    <3>1. u[i + 1] = st[i + 1] /\ i < Len(u)
      <4>1. i + 1 \in DOMAIN u /\ i < Len(u)
        BY <1>6, <2>1, <2>2
      <4>2. QED
        BY <1>61, <4>1
    <3>2. u[i] # u[Len(u)]
      <4>1. st[i] < st[n - 1] /\ st[i] \in Nat /\ st[n - 1] \in Nat
        BY <1>3, <1>5, <2>1, <2>2
      <4>2. QED
        BY <1>12, <2>1, <4>1
    <3>3. u[i] \in m <=> u[i] \in o
      BY <2>1, <3>2
    <3>4. QED
      BY <1>5, <2>1, <3>1, <3>3
  <2>3. CASE i = n - 1
    <3>1. ~(i < Len(u)) /\ i + 1 = n /\ u[i] = u[Len(u)] /\ u[i] = st[n - 1]
      BY <1>3, <1>6, <2>1, <2>3
    <3>2. u[i] \in o <=> OddIn(u[i], t - 1)
      BY <1>5, <1>6, <2>1, <3>1
    <3>3. OddIn(u[i], p + 1) <=> OddIn(u[i], t - 1) \/ (file[t] # "comment" /\ OddIn(t, p))
      <4>1. u[i] \in 1 .. t - 1 /\ \A k \in OpenAt(p) : k <= u[i] \/ k = t
        BY <1>4, <1>12, <2>1, <3>1
      <4>2. QED
        BY <1>4, <1>7, <4>1, OddJoins
    <3>4. u[i] \in m <=> u[i] \in o \/ (file[t] # "comment" /\ t \in o)
      BY <2>1, <3>1
    <3>5. QED
      BY <1>14, <3>1, <3>2, <3>3, <3>4
  <2>4. i < n - 1 \/ i = n - 1
    BY <2>0, <2>1
  <2>5. QED
    BY <2>2, <2>3, <2>4
<1>16. ASSUME file[t] # "comment", u = << >>
       PROVE  t \in TopForms /\ EndOf(t) = p + 1 /\ (t \in m <=> Unconvertible(t))
  <2>1. Depth(t - 1) = 0 /\ t \in 1 .. Length /\ t - 1 < FirstWrong /\ file[t] \in Openers
    <3>1. t \in 1 .. Length /\ file[t] \in Openers /\ t <= p /\ t \in Nat
      BY <1>0, <1>4, OpenFacts
    <3>2. Depth(t - 1) = 0
      BY <1>4, <1>5, <1>6, <1>16
    <3>3. FirstWrong \in Nat
      BY WrongFacts
    <3>4. QED
      BY <1>0, <1>5, <3>1, <3>2, <3>3
  <2>2. ~Dropped(t)
    BY <1>16, <2>1, NotDropped
  <2>3. t \in TopForms
    BY <1>7, <1>8, <2>1, <2>2 DEF TopForms, Openers
  <2>4. Unconvertible(t) <=> OddIn(t, p + 1)
    BY <1>7, <2>3, TopOdd
  <2>5. OddIn(t, p + 1) <=> OddIn(t, p)
    BY <1>4, OddAtEnd
  <2>6. t \in m <=> t \in o
    BY <1>16
  <2>7. QED
    BY <1>7, <1>14, <2>3, <2>4, <2>5, <2>6
<1>17. {s \in TopForms : EndOf(s) = p + 1} = IF file[t] # "comment" /\ u = << >> THEN {t} ELSE {}
  <2>1. ASSUME NEW s \in TopForms, EndOf(s) = p + 1 PROVE s = t /\ file[t] # "comment" /\ u = << >>
    <3>1. Depth(p + 1) = 0 /\ s \in OpenAt(p) /\ file[s] # "comment"
      BY <2>1, EndsHere, TopFacts
    <3>2. n = 1 /\ u = << >>
      BY <1>5, <1>6, <1>7, <3>1
    <3>3. s = t
      BY <1>3, <1>5, <1>6, <3>1, <3>2
    <3>4. QED
      BY <3>1, <3>2, <3>3
  <2>2. QED
    BY <1>16, <2>1
<1>18. ReadForms(p + 1) = ReadForms(p) \cup {s \in TopForms : EndOf(s) = p + 1}
  BY <1>0, ReadNext
<1>19. ASSUME NEW s \in ReadForms(p + 1) PROVE s \in m <=> Unconvertible(s)
  <2>1. CASE s \in ReadForms(p)
    <3>1. s \notin OpenAt(p)
      BY <1>3, <2>1
    <3>2. s \in m <=> s \in o
      BY <1>4, <1>12, <3>1
    <3>3. QED
      BY <1>5, <2>1, <3>2
  <2>2. CASE s \notin ReadForms(p)
    BY <1>16, <1>17, <1>18, <2>2
  <2>3. QED
    BY <2>1, <2>2
<1>20. StackInv(u, m, p + 1)
  BY <1>8, <1>9, <1>10, <1>11, <1>13, <1>15, <1>19 DEF StackInv
<1>21. QED
  BY <1>16, <1>17, <1>18, <1>20

\* When the reader gives up or is done, it has read all forms.
LEMMA ReadsLast ==
    ASSUME file \in Files, NEW p \in 0 .. Length, NEW st \in Seq(1 .. Length), NEW o,
           StackInv(st, o, p), NEW t,
           \/ t = End /\ p = Length
           \/ t = p + 1 /\ p < Length /\ (file[t] = "bad" \/ (file[t] = "close" /\ st = << >>))
    PROVE  /\ ReadForms(p) = TopForms
           /\ t = End /\ st = << >> => FirstWrong > Never
           /\ ~(t = End /\ st = << >>) => FirstWrong <= Never
<1>1. /\ p < FirstWrong /\ Depth(p) = Len(st) /\ Len(st) \in Nat /\ p \in Nat /\ Length \in Nat
      /\ (st = << >> <=> Len(st) = 0)
  BY FileFacts DEF StackInv
<1>2. Never \in Nat /\ Length < Never /\ End = Never
  BY FileFacts DEF Never, End
<1>3. CASE t = End /\ p = Length
  <2>1. FirstWrong > Length
    BY <1>1, <1>3
  <2>2. FirstWrong = IF Depth(Length) > 0 THEN Length + 1 ELSE Never + 1
    BY <2>1, WrongFacts
  <2>3. CASE st = << >>
    <3>1. Depth(Length) = 0 /\ FirstWrong = Never + 1
      BY <1>1, <1>3, <2>2, <2>3
    <3>2. ReadForms(p) = TopForms
      BY <1>3, <3>1, AllRead
    <3>3. QED
      BY <1>2, <1>3, <2>3, <3>1, <3>2
  <2>4. CASE st # << >>
    <3>1. FirstWrong = p + 1 /\ FirstWrong <= Never
      BY <1>1, <1>2, <1>3, <2>2, <2>4
    <3>2. ReadForms(p) = TopForms
      BY <3>1, AllRead
    <3>3. QED
      BY <2>4, <3>1, <3>2
  <2>5. QED
    BY <2>3, <2>4
<1>4. CASE t = p + 1 /\ p < Length /\ (file[t] = "bad" \/ (file[t] = "close" /\ st = << >>))
  <2>1. p \in 0 .. Length - 1 /\ p + 1 \in 1 .. Length /\ p + 1 - 1 = p
    BY <1>1, <1>4
  <2>2. p + 1 \in Wrong
    <3>1. CASE file[t] = "bad"
      BY <1>4, <2>1, <3>1 DEF Wrong
    <3>2. CASE file[t] = "close" /\ st = << >>
      <4>1. Depth(p + 1) = Depth(p) - 1
        BY <1>4, <2>1, <3>2, DepthFacts
      <4>2. Depth(p + 1) < 0
        BY <1>1, <3>2, <4>1
      <4>3. QED
        BY <1>4, <2>1, <3>2, <4>2 DEF Wrong
    <3>3. QED
      BY <1>4, <3>1, <3>2
  <2>3. FirstWrong = p + 1
    BY <1>1, <2>1, <2>2, NotWrongYet
  <2>4. ReadForms(p) = TopForms
    BY <2>3, AllRead
  <2>5. t # End /\ FirstWrong <= Never
    BY <1>1, <1>2, <1>4, <2>3
  <2>6. QED
    BY <2>4, <2>5
<1>5. QED
  BY <1>3, <1>4
-----------------------------------------------------------------------------
(* The reader takes the tokens one by one.                                 *)

LEMMA StackSame ==
    ASSUME file' = file, NEW st, NEW o, NEW p
    PROVE  StackInv(st, o, p)' <=> StackInv(st, o, p)
BY FileSame DEF StackInv

LEMMA StackPrimed ==
    ASSUME file' = file, NEW st, NEW o, NEW p, StackInv(st, o, p),
           stack' = st, odd' = o, Position' = p
    PROVE  StackInv(stack, odd, Position)'
<1>1. StackInv(st, o, p)'
  BY StackSame
<1>2. QED
  BY <1>1, Zenon

\* Nothing that the reader has is changed.
LEMMA ReaderStays ==
    ASSUME ReaderInv, file' = file, stack' = stack, odd' = odd, Position' = Position,
           pc'["parser"] = pc["parser"], hand'["parser"] = hand["parser"]
    PROVE  ReaderInv' /\ ReadNow' = ReadNow /\ (Reading' <=> Reading)
<1>1. Reading' <=> Reading
  BY DEF Reading
<1>2. Reading => StackInv(stack, odd, Position)'
  <2> HAVE Reading
  <2>1. PICK st, o, p : st = stack /\ o = odd /\ p = Position
    OBVIOUS
  <2>2. StackInv(st, o, p)
    BY <2>1, Zenon DEF ReaderInv
  <2>3. QED
    BY <2>1, <2>2, StackPrimed
<1>3. ReadNow' = ReadNow
  <2>1. PICK p : p = Position
    OBVIOUS
  <2>2. ReadForms(p)' = ReadForms(p) /\ TopForms' = TopForms
    BY FileSame
  <2>3. ReadForms(Position)' = ReadForms(Position)
    BY <2>1, <2>2
  <2>4. QED
    BY <1>1, <2>2, <2>3 DEF ReadNow
<1>4. QED
  BY <1>1, <1>2, <1>3, FileSame DEF ReaderInv

\* What reading a token comes to: nothing yet, one more form, or the last of them.
ReadsOn == Reading' /\ pc'["parser"] = "receive" /\ ReadNow' = ReadNow
ReadsForm ==
    /\ Reading' /\ pc'["parser"] = "send"
    /\ hand'["parser"] \in TopForms \ ReadNow
    /\ \A s \in ReadNow : s < hand'["parser"]
    /\ ReadNow' = ReadNow \cup {hand'["parser"]}
ReadsNoMore ==
    /\ ~Reading' /\ ReadNow' = ReadNow
    /\ \/ pc'["parser"] = "close" /\ FirstWrong > Never
       \/ pc'["parser"] = "send" /\ hand'["parser"] = Err /\ FirstWrong <= Never

LEMMA ReaderReads ==
    ASSUME file' = file, Reading, pc'["parser"] = "receive",
           NEW s, NEW o, NEW q, StackInv(s, o, q), stack' = s, odd' = o, Position' = q,
           ReadForms(q) = ReadForms(Position)
    PROVE  ReaderInv' /\ ReadsOn
<1>1. Reading'
  BY DEF Reading
<1>2. StackInv(stack, odd, Position)'
  BY StackPrimed
<1>3. ReadForms(Position)' = ReadForms(q)
  <2>1. ReadForms(q)' = ReadForms(q)
    BY FileSame
  <2>2. QED
    BY <2>1
<1>4. ReadNow' = ReadNow
  BY <1>1, <1>3 DEF ReadNow
<1>5. ReaderInv'
  BY <1>1, <1>2 DEF ReaderInv
<1>6. QED
  BY <1>1, <1>4, <1>5 DEF ReadsOn

LEMMA ReaderReadsForm ==
    ASSUME file' = file, file \in Files, Reading, pc'["parser"] = "send",
           NEW f \in TopForms, hand'["parser"] = f,
           NEW s, NEW o, NEW p \in 0 .. Length - 1, p = Position,
           StackInv(s, o, p + 1), stack' = s, odd' = o, Position' = p + 1,
           EndOf(f) = p + 1, ReadForms(p + 1) = ReadForms(p) \cup {f}
    PROVE  ReaderInv' /\ ReadsForm
<1>1. f \in Nat /\ f # Err /\ p \in Nat /\ p \in 0 .. Length
  BY TopFacts, FileFacts DEF Err
<1>2. Reading'
  BY <1>1 DEF Reading
<1>3. StackInv(stack, odd, Position)'
  BY StackPrimed
<1>4. ReadForms(Position)' = ReadForms(p + 1)
  <2>1. ReadForms(p + 1)' = ReadForms(p + 1)
    BY FileSame
  <2>2. QED
    BY <2>1
<1>5. ReadNow = ReadForms(p) /\ ReadNow' = ReadForms(p) \cup {f}
  BY <1>2, <1>4 DEF ReadNow
<1>6. f \notin ReadForms(p) /\ \A x \in ReadForms(p) : x < f
  <2>1. EndOf(f) > p
    BY <1>1
  <2>2. QED
    BY <1>1, <2>1, ReadOrder DEF ReadForms
<1>7. TopForms' = TopForms /\ EndOf(f)' = EndOf(f)
  BY FileSame
<1>8. EndOf(hand["parser"])' = Position'
  BY <1>7
<1>9. ReaderInv'
  BY <1>2, <1>3, <1>7, <1>8 DEF ReaderInv
<1>10. QED
  BY <1>2, <1>5, <1>6, <1>9 DEF ReadsForm

LEMMA ReaderReadsNoMore ==
    ASSUME file' = file, Reading,
           \/ pc'["parser"] = "close" /\ FirstWrong > Never
           \/ pc'["parser"] = "send" /\ hand'["parser"] = Err /\ FirstWrong <= Never,
           NEW s, NEW o, NEW p, p = Position, StackInv(s, o, p), odd' = o, ReadForms(p) = TopForms
    PROVE  ReaderInv' /\ ReadsNoMore
<1>1. ~Reading'
  BY DEF Reading
<1>2. TopForms' = TopForms /\ FirstWrong' = FirstWrong /\ \A f : Unconvertible(f)' <=> Unconvertible(f)
  BY FileSame
<1>3. ReadNow = TopForms /\ ReadNow' = TopForms
  BY <1>1, <1>2 DEF ReadNow
<1>4. \A f \in TopForms : f \in o <=> Unconvertible(f)
  BY DEF StackInv
<1>5. ReaderInv'
  BY <1>1, <1>2, <1>4 DEF ReaderInv, Never
<1>6. QED
  BY <1>1, <1>3, <1>5 DEF ReadsNoMore

LEMMA ReaderDone ==
    ASSUME ReaderInv, file' = file, ~Reading, odd' = odd,
           pc'["parser"] \in {"close", "drain", "end"}
    PROVE  ReaderInv' /\ ~Reading' /\ ReadNow' = ReadNow
<1>1. ~Reading'
  BY DEF Reading
<1>2. TopForms' = TopForms /\ \A f : Unconvertible(f)' <=> Unconvertible(f)
  BY FileSame
<1>3. QED
  BY <1>1, <1>2 DEF ReaderInv, ReadNow

LEMMA ReaderSent ==
    ASSUME ReaderInv, file' = file, pc["parser"] = "send", Reading, pc'["parser"] = "receive",
           stack' = stack, odd' = odd, Position' = Position
    PROVE  ReaderInv' /\ Reading' /\ ReadNow' = ReadNow
<1>1. PICK st, o, p : st = stack /\ o = odd /\ p = Position
  OBVIOUS
<1>2. StackInv(st, o, p)
  BY <1>1, Zenon DEF ReaderInv
<1>3. ReadForms(p) = ReadForms(Position)
  BY <1>1
<1>4. QED
  BY <1>1, <1>2, <1>3, ReaderReads DEF ReadsOn

LEMMA ParserReceives ==
    ASSUME Types, TokensInv, ReaderInv,
           file' = file, next' = next, closed' = closed, Only("parser", "adapter"),
           pc["parser"] = "receive", CanReceive("adapter"), ReadToken(Received("adapter")),
           buf'["adapter"] = IF buf["adapter"] = << >> THEN << >> ELSE Tail(buf["adapter"])
    PROVE  TokensInv' /\ ReaderInv' /\ (ReadsOn \/ ReadsForm \/ ReadsNoMore)
<1>1. PICK t : t = Received("adapter")
  OBVIOUS
<1>2. PICK st, o, p, u, m : /\ st = stack /\ o = odd /\ p = Position
                            /\ u = stack' /\ m = odd'
  OBVIOUS
<1>3. TokensInv' /\ p \in 0 .. Length /\ \/ t = End /\ p = Length /\ Position' = p
                                         \/ t = p + 1 /\ p + 1 \in 1 .. Length /\ Position' = p + 1
  BY <1>1, <1>2, TokensTake
<1>4. Reading /\ file \in Files
  BY DEF Reading, Types
<1>5. StackInv(st, o, p) /\ st \in Seq(1 .. Length)
  BY <1>2, <1>4, Zenon DEF ReaderInv, Types, DataTypes
<1>6. End \in Nat /\ End > Length /\ Length \in Nat
  BY <1>4, ItemFacts
<1>7. t # End => p \in 0 .. Length - 1 /\ t = p + 1 /\ t \in 1 .. Length /\ Position' = p + 1
  BY <1>3, <1>6
<1>8. t \in 1 .. Length => t # End
  BY <1>6
<1>9. ReadToken(t)
  BY <1>1
<1>10. t = End \/ t \in 1 .. Length
  BY <1>3
<1>11. \/ t = End /\ st = << >> /\ pc'["parser"] = "close" /\ u = st /\ m = o
       \/ /\ t = End \/ file[t] \in {"close", "bad"}
          /\ t = End => st # << >>
          /\ t # End /\ file[t] = "close" => st = << >>
          /\ pc'["parser"] = "send" /\ hand'["parser"] = Err
          /\ u = st /\ m = o
       \/ /\ t \in 1 .. Length /\ file[t] \in {"atom", "odd"}
          /\ u = st
          /\ st = << >> => pc'["parser"] = "send" /\ hand'["parser"] = t
          /\ st # << >> => pc'["parser"] = "receive"
          /\ m = IF file[t] = "odd"
                 THEN o \cup {IF st = << >> THEN t ELSE st[Len(st)]} ELSE o
       \/ /\ t \in 1 .. Length /\ file[t] \in Openers
          /\ u = Append(st, t) /\ pc'["parser"] = "receive" /\ m = o
       \/ /\ t \in 1 .. Length /\ file[t] = "close" /\ st # << >>
          /\ u = SubSeq(st, 1, Len(st) - 1)
          /\ LET list == st[Len(st)] IN
             /\ file[list] = "comment" => m = o /\ pc'["parser"] = "receive"
             /\ file[list] # "comment" =>
                /\ u = << >> => pc'["parser"] = "send" /\ hand'["parser"] = list
                /\ u # << >> => pc'["parser"] = "receive"
                /\ m = IF list \in o
                       THEN o \cup {IF u = << >> THEN list ELSE u[Len(u)]} ELSE o
  BY <1>2, <1>9, <1>10, ReadTokenDoes
<1>12. CASE t = End /\ st = << >> /\ pc'["parser"] = "close" /\ u = st /\ m = o
  <2>1. p = Length
    BY <1>3, <1>6, <1>12
  <2>2. ReadForms(p) = TopForms /\ FirstWrong > Never
    BY <1>3, <1>4, <1>5, <1>12, <2>1, ReadsLast
  <2>3. QED
    BY <1>2, <1>3, <1>4, <1>5, <1>12, <2>2, ReaderReadsNoMore
<1>13. CASE /\ t = End \/ file[t] \in {"close", "bad"}
            /\ t = End => st # << >>
            /\ t # End /\ file[t] = "close" => st = << >>
            /\ pc'["parser"] = "send" /\ hand'["parser"] = Err
            /\ u = st /\ m = o
  <2>1. \/ t = End /\ p = Length
        \/ t = p + 1 /\ p < Length /\ (file[t] = "bad" \/ (file[t] = "close" /\ st = << >>))
    BY <1>3, <1>6, <1>7, <1>13
  <2>2. ReadForms(p) = TopForms /\ FirstWrong <= Never
    BY <1>3, <1>4, <1>5, <1>13, <2>1, ReadsLast
  <2>3. QED
    BY <1>2, <1>3, <1>4, <1>5, <1>13, <2>2, ReaderReadsNoMore
<1>14. CASE /\ t \in 1 .. Length /\ file[t] \in {"atom", "odd"}
            /\ u = st
            /\ st = << >> => pc'["parser"] = "send" /\ hand'["parser"] = t
            /\ st # << >> => pc'["parser"] = "receive"
            /\ m = IF file[t] = "odd"
                   THEN o \cup {IF st = << >> THEN t ELSE st[Len(st)]} ELSE o
  <2>1. p \in 0 .. Length - 1 /\ t = p + 1 /\ Position' = p + 1
    BY <1>7, <1>8, <1>14
  <2>2. /\ StackInv(st, m, p + 1)
        /\ st = << >> => /\ p + 1 \in TopForms /\ EndOf(p + 1) = p + 1
                         /\ ReadForms(p + 1) = ReadForms(p) \cup {p + 1}
        /\ st # << >> => ReadForms(p + 1) = ReadForms(p)
    BY <1>4, <1>5, <1>14, <2>1, ReadsSingle
  <2>3. CASE st = << >>
    BY <1>2, <1>3, <1>4, <1>14, <2>1, <2>2, <2>3, ReaderReadsForm
  <2>4. CASE st # << >>
    <3>1. ReadForms(p + 1) = ReadForms(Position)
      BY <1>2, <2>2, <2>4
    <3>2. QED
      BY <1>2, <1>3, <1>4, <1>14, <2>1, <2>2, <2>4, <3>1, ReaderReads
  <2>5. QED
    BY <2>3, <2>4
<1>15. CASE /\ t \in 1 .. Length /\ file[t] \in Openers
            /\ u = Append(st, t) /\ pc'["parser"] = "receive" /\ m = o
  <2>1. p \in 0 .. Length - 1 /\ t = p + 1 /\ Position' = p + 1
    BY <1>7, <1>8, <1>15
  <2>2. StackInv(u, o, p + 1) /\ ReadForms(p + 1) = ReadForms(p)
    BY <1>4, <1>5, <1>15, <2>1, ReadsOpener
  <2>3. ReadForms(p + 1) = ReadForms(Position)
    BY <1>2, <2>2
  <2>4. QED
    BY <1>2, <1>3, <1>4, <1>15, <2>1, <2>2, <2>3, ReaderReads
<1>16. CASE /\ t \in 1 .. Length /\ file[t] = "close" /\ st # << >>
            /\ u = SubSeq(st, 1, Len(st) - 1)
            /\ LET list == st[Len(st)] IN
               /\ file[list] = "comment" => m = o /\ pc'["parser"] = "receive"
               /\ file[list] # "comment" =>
                  /\ u = << >> => pc'["parser"] = "send" /\ hand'["parser"] = list
                  /\ u # << >> => pc'["parser"] = "receive"
                  /\ m = IF list \in o
                         THEN o \cup {IF u = << >> THEN list ELSE u[Len(u)]} ELSE o
  <2>1. p \in 0 .. Length - 1 /\ t = p + 1 /\ Position' = p + 1
    BY <1>7, <1>8, <1>16
  <2>2. PICK list : list = st[Len(st)]
    OBVIOUS
  <2>3. m = Joined(o, u, list)
    BY <1>16, <2>2 DEF Joined
  <2>4. /\ StackInv(u, m, p + 1)
        /\ file[list] # "comment" /\ u = << >> =>
              /\ list \in TopForms /\ EndOf(list) = p + 1
              /\ ReadForms(p + 1) = ReadForms(p) \cup {list}
        /\ ~(file[list] # "comment" /\ u = << >>) => ReadForms(p + 1) = ReadForms(p)
    <3>1. file[p + 1] = "close" /\ st # << >> /\ u = Outer(st)
      BY <1>16, <2>1 DEF Outer
    <3>2. QED
      BY <1>4, <1>5, <2>1, <2>2, <2>3, <3>1, ReadsClose
  <2>5. CASE file[list] # "comment" /\ u = << >>
    <3>1. pc'["parser"] = "send" /\ hand'["parser"] = list
      BY <1>16, <2>2, <2>5
    <3>2. QED
      BY <1>2, <1>3, <1>4, <2>1, <2>4, <2>5, <3>1, ReaderReadsForm
  <2>6. CASE ~(file[list] # "comment" /\ u = << >>)
    <3>1. pc'["parser"] = "receive"
      BY <1>16, <2>2, <2>6
    <3>2. ReadForms(p + 1) = ReadForms(Position)
      BY <1>2, <2>4, <2>6
    <3>3. QED
      BY <1>2, <1>3, <1>4, <2>1, <2>4, <3>1, <3>2, ReaderReads
  <2>7. QED
    BY <2>5, <2>6
<1>17. QED
  BY <1>11, <1>12, <1>13, <1>14, <1>15, <1>16
-----------------------------------------------------------------------------
(* The forms on their way to the caller.                                   *)

LEMMA InHandFacts ==
    ASSUME NEW g
    PROVE  /\ pc[g] = "send" => InHand(g) = {hand[g]}
           /\ pc[g] # "send" => InHand(g) = {}
           /\ pc'[g] = "send" => InHand(g)' = {hand'[g]}
           /\ pc'[g] # "send" => InHand(g)' = {}
BY DEF InHand

\* The forms read so far are forms, and all those before the last of them.
LEMMA ReadFacts ==
    ASSUME file \in Files
    PROVE  /\ ReadNow \subseteq TopForms /\ TopForms \subseteq Positions /\ Err \notin TopForms
           /\ \A s \in TopForms : s \in Nat
<1>1. \A s \in TopForms : s \in Nat /\ s >= 1
  BY TopFacts
<1>2. QED
  BY <1>1 DEF ReadNow, ReadForms, Positions, Err

LEMMA ReadDown ==
    ASSUME file \in Files, Position \in Int, NEW r \in ReadNow, NEW s \in TopForms, s < r
    PROVE  s \in ReadNow
<1>1. CASE ~Reading
  BY <1>1 DEF ReadNow
<1>2. CASE Reading
  <2>1. PICK p : p = Position
    OBVIOUS
  <2>2. ReadNow = ReadForms(p)
    BY <1>2, <2>1 DEF ReadNow
  <2>3. r \in TopForms /\ EndOf(r) <= p
    BY <2>2 DEF ReadForms
  <2>4. s <= EndOf(s) /\ EndOf(s) < r /\ r <= EndOf(r) /\ EndOf(s) \in Nat /\ EndOf(r) \in Nat
        /\ r \in Nat
    BY <2>3, TopOrder, TopFacts
  <2>5. EndOf(s) <= EndOf(r)
    BY <2>4
  <2>6. EndOf(s) <= p
    BY <2>1, <2>3, <2>4, <2>5
  <2>7. QED
    BY <2>2, <2>6 DEF ReadForms
<1>3. QED
  BY <1>1, <1>2

\* What has been read is marked if it cannot be converted.
LEMMA ReadMarks ==
    ASSUME ReaderInv, NEW s \in ReadNow
    PROVE  s \in odd <=> Unconvertible(s)
<1>1. CASE ~Reading
  BY <1>1 DEF ReadNow, ReaderInv
<1>2. CASE Reading
  <2>1. PICK st, o, p : st = stack /\ o = odd /\ p = Position
    OBVIOUS
  <2>2. StackInv(st, o, p)
    BY <1>2, <2>1, Zenon DEF ReaderInv
  <2>3. s \in ReadForms(p)
    BY <1>2, <2>1 DEF ReadNow
  <2>4. QED
    BY <2>1, <2>2, <2>3 DEF StackInv
<1>3. QED
  BY <1>1, <1>2

LEMMA ParserFlowSame ==
    ASSUME NEW a, ParserFlow(a), file' = file, ReadNow' = ReadNow,
           buf'["parser"] = buf["parser"],
           \A g \in {"parser", "drainer"} : pc'[g] = pc[g] /\ hand'[g] = hand[g]
    PROVE  ParserFlow(a)'
<1>1. /\ FirstWrong' = FirstWrong /\ TopForms' = TopForms
      /\ \A s : Unconvertible(s)' <=> Unconvertible(s)
  BY FileSame
<1>2. InHand("parser")' = InHand("parser")
  BY DEF InHand
<1>3. Draining' <=> Draining
  BY DEF Draining
<1>4. QED
  BY <1>1, <1>2, <1>3 DEF ParserFlow, Never

LEMMA DrainedSame ==
    ASSUME NEW a, file' = file, Draining' <=> Draining
    PROVE  Drained(a)' = Drained(a)
BY FileSame DEF Drained

LEMMA DrainerFlowSame ==
    ASSUME NEW a, NEW b, DrainerFlow(a, b), file' = file, forms' = forms,
           buf'["drainer"] = buf["drainer"],
           pc'["drainer"] = pc["drainer"], hand'["drainer"] = hand["drainer"],
           pc'["caller"] = "receive" <=> pc["caller"] = "receive",
           pc'["caller"] = "parse failed" <=> pc["caller"] = "parse failed",
           Parsed' <=> Parsed
    PROVE  DrainerFlow(a, b)'
<1>1. WellFormed' = WellFormed /\ Good' = Good
  BY FileSame
<1>2. InHand("drainer")' = InHand("drainer")
  BY DEF InHand
<1>3. Draining' <=> Draining
  BY DEF Draining
<1>4. Drained(a)' = Drained(a)
  BY <1>3, DrainedSame
<1>5. QED
  BY <1>1, <1>2, <1>3, <1>4 DEF DrainerFlow

\* The parser reads on, or gives up.
LEMMA FlowReads ==
    ASSUME Types, NEW a, ParserFlow(a), file' = file, pc["parser"] = "receive",
           buf'["parser"] = buf["parser"], pc'["drainer"] = pc["drainer"],
           hand'["drainer"] = hand["drainer"],
           ReadsOn \/ ReadsForm \/ ReadsNoMore
    PROVE  ParserFlow(a)'
<1> SUFFICES ASSUME Draining PROVE ParserFlow(a)'
  BY DEF ParserFlow, Draining
<1>0. file \in Files /\ ReadNow \subseteq Positions /\ Err \notin ReadNow /\ TopForms \subseteq Positions
  BY ReadFacts DEF Types
<1>1. /\ FirstWrong' = FirstWrong /\ TopForms' = TopForms
      /\ \A s : Unconvertible(s)' <=> Unconvertible(s)
  BY FileSame
<1>2. Draining' <=> Draining
  BY DEF Draining
<1>3. /\ Flow(buf["parser"], ReadNow, {}, a)
      /\ ~HasErr(buf["parser"])
      /\ (\A s \in TopForms : s <= a => ~Unconvertible(s))
      /\ pc["drainer"] = "send" => hand["drainer"] = a
  BY InHandFacts DEF ParserFlow
<1>4. CASE ReadsOn
  <2>1. pc'["parser"] = "receive" /\ ReadNow' = ReadNow /\ InHand("parser")' = {}
    BY <1>4, InHandFacts DEF ReadsOn
  <2>2. QED
    BY <1>1, <1>2, <1>3, <2>1 DEF ParserFlow
<1>5. CASE ReadsForm
  <2>1. PICK v : v = hand'["parser"]
    OBVIOUS
  <2>2. /\ pc'["parser"] = "send" /\ InHand("parser")' = {v} /\ ReadNow' = ReadNow \cup {v}
        /\ v \in Positions \ ReadNow /\ (\A s \in ReadNow : s < v)
    BY <1>0, <1>5, <2>1, InHandFacts DEF ReadsForm
  <2>3. Flow(buf["parser"], ReadNow \cup {v}, {v}, a)
    BY <1>0, <1>3, <2>2, FlowHand
  <2>4. QED
    BY <1>1, <1>2, <1>3, <2>2, <2>3 DEF ParserFlow
<1>6. CASE ReadsNoMore
  <2>1. ReadNow' = ReadNow
    BY <1>6 DEF ReadsNoMore
  <2>2. CASE pc'["parser"] = "close" /\ FirstWrong > Never
    <3>1. InHand("parser")' = {}
      BY <2>2, InHandFacts
    <3>2. ~(FirstWrong <= Never)
      BY <1>0, <2>2, WrongFacts, FileFacts DEF Never
    <3>3. QED
      BY <1>1, <1>2, <1>3, <2>1, <2>2, <3>1, <3>2 DEF ParserFlow, Never
  <2>3. CASE pc'["parser"] = "send" /\ hand'["parser"] = Err
    <3>1. InHand("parser")' = {Err}
      BY <2>3, InHandFacts
    <3>2. Flow(buf["parser"], ReadNow, {Err}, a)
      BY <1>0, <1>3, FlowHands
    <3>3. QED
      BY <1>1, <1>2, <1>3, <2>1, <2>3, <3>1, <3>2 DEF ParserFlow
  <2>4. QED
    BY <1>6, <2>2, <2>3 DEF ReadsNoMore
<1>7. QED
  BY <1>4, <1>5, <1>6

\* The parser sends what it has read.
LEMMA FlowSends ==
    ASSUME Types, ReaderInv, NEW a, ParserFlow(a), file' = file, pc["parser"] = "send",
           pc'["parser"] = IF hand["parser"] = Err THEN "close" ELSE "receive",
           buf'["parser"] = Append(buf["parser"], hand["parser"]),
           pc'["drainer"] = pc["drainer"], hand'["drainer"] = hand["drainer"],
           ReadNow' = ReadNow
    PROVE  ParserFlow(a)'
<1> SUFFICES ASSUME Draining PROVE ParserFlow(a)'
  BY DEF ParserFlow, Draining
<1>0. /\ file \in Files /\ ReadNow \subseteq Positions /\ Err \notin ReadNow
      /\ buf["parser"] \in Seq(Nat)
  BY ReadFacts, Names DEF Types, BufTypes
<1>1. /\ FirstWrong' = FirstWrong /\ TopForms' = TopForms
      /\ \A s : Unconvertible(s)' <=> Unconvertible(s)
  BY FileSame
<1>2. Draining' <=> Draining
  BY DEF Draining
<1>3. PICK v, q : v = hand["parser"] /\ q = buf["parser"]
  OBVIOUS
<1>4. /\ Flow(q, ReadNow, {v}, a)
      /\ ~HasErr(q)
      /\ (\A s \in TopForms : s <= a => ~Unconvertible(s))
      /\ pc["drainer"] = "send" => hand["drainer"] = a
  BY <1>3, InHandFacts DEF ParserFlow
<1>5. pc'["parser"] # "send" /\ InHand("parser")' = {} /\ q \in Seq(Nat)
      /\ buf'["parser"] = Append(q, v)
  BY <1>0, <1>3, InHandFacts
<1>6. CASE v = Err
  <2>1. Flow(Append(q, v), ReadNow, {}, a) /\ HasErr(Append(q, v))
    BY <1>0, <1>4, <1>5, <1>6, FlowErr
  <2>2. FirstWrong <= Never /\ pc'["parser"] = "close"
    BY <1>3, <1>6 DEF ReaderInv, Reading
  <2>3. QED
    BY <1>1, <1>2, <1>4, <1>5, <2>1, <2>2 DEF ParserFlow, Never
<1>7. CASE v # Err
  <2>1. v \in ReadNow
    <3>1. Reading
      BY <1>3, <1>7 DEF Reading
    <3>2. v \in TopForms /\ EndOf(v) = Position
      BY <1>3, <3>1 DEF ReaderInv
    <3>3. EndOf(v) \in Nat
      BY <1>0, <3>2, TopFacts
    <3>4. QED
      BY <3>1, <3>2, <3>3 DEF ReadNow, ReadForms
  <2>2. Flow(Append(q, v), ReadNow, {}, a) /\ ~HasErr(Append(q, v))
    BY <1>0, <1>4, <1>5, <2>1, FlowPut
  <2>3. pc'["parser"] = "receive"
    BY <1>3, <1>7
  <2>4. QED
    BY <1>1, <1>2, <1>4, <1>5, <2>2, <2>3 DEF ParserFlow
<1>8. QED
  BY <1>6, <1>7

\* The parser closes its channel, and drains its input.
LEMMA FlowEnds ==
    ASSUME NEW a, ParserFlow(a), file' = file,
           pc["parser"] \in {"close", "drain"}, pc'["parser"] \in {"drain", "end"},
           buf'["parser"] = buf["parser"],
           pc'["drainer"] = pc["drainer"], hand'["drainer"] = hand["drainer"],
           ReadNow' = ReadNow
    PROVE  ParserFlow(a)'
<1>1. /\ FirstWrong' = FirstWrong /\ TopForms' = TopForms
      /\ \A s : Unconvertible(s)' <=> Unconvertible(s)
  BY FileSame
<1>2. Draining' <=> Draining
  BY DEF Draining
<1>3. InHand("parser")' = InHand("parser")
  BY InHandFacts
<1>4. QED
  BY <1>1, <1>2, <1>3 DEF ParserFlow, Never

LEMMA FormsSame ==
    ASSUME NEW a, NEW b \in Nat, a \in Nat, DrainerFlow(a, b), ParserFlow(a)',
           file' = file, forms' = forms, buf'["drainer"] = buf["drainer"],
           pc'["drainer"] = pc["drainer"], hand'["drainer"] = hand["drainer"],
           pc'["caller"] = pc["caller"]
    PROVE  FormsInv'
<1>1. Parsed' <=> Parsed
  BY DEF Parsed
<1>2. DrainerFlow(a, b)'
  BY <1>1, DrainerFlowSame
<1>3. QED
  BY <1>2 DEF FormsInv

LEMMA ParsePreserves ==
    ASSUME Types, TokensInv, ReaderInv, FormsInv, Parse
    PROVE  TokensInv' /\ ReaderInv' /\ FormsInv'
<1>1. PICK a \in Nat, b \in Nat : ParserFlow(a) /\ DrainerFlow(a, b)
  BY DEF FormsInv
<1>2. /\ UNCHANGED <<file, next, forms>>
      /\ \/ /\ Only("parser", "adapter") /\ closed' = closed
            /\ pc["parser"] = "receive" /\ CanReceive("adapter") /\ ReadToken(Received("adapter"))
            /\ buf'["adapter"] = IF buf["adapter"] = << >> THEN << >> ELSE Tail(buf["adapter"])
         \/ /\ Only("parser", "parser") /\ closed' = closed /\ UNCHANGED <<hand, stack, odd>>
            /\ pc["parser"] = "send" /\ hand["parser"] \in 0 .. Length
            /\ pc'["parser"] = IF hand["parser"] = Err THEN "close" ELSE "receive"
            /\ buf'["parser"] = Append(buf["parser"], hand["parser"])
         \/ /\ Only("parser", "parser") /\ UNCHANGED <<buf, hand, stack, odd>>
            /\ pc["parser"] = "close" /\ pc'["parser"] = "drain"
  BY ParseDoes
<1>3. CASE /\ Only("parser", "adapter") /\ closed' = closed
           /\ pc["parser"] = "receive" /\ CanReceive("adapter") /\ ReadToken(Received("adapter"))
           /\ buf'["adapter"] = IF buf["adapter"] = << >> THEN << >> ELSE Tail(buf["adapter"])
  <2>1. TokensInv' /\ ReaderInv' /\ (ReadsOn \/ ReadsForm \/ ReadsNoMore)
    BY <1>2, <1>3, ParserReceives
  <2>2. /\ pc'["drainer"] = pc["drainer"] /\ hand'["drainer"] = hand["drainer"]
        /\ pc'["caller"] = pc["caller"]
        /\ buf'["parser"] = buf["parser"] /\ buf'["drainer"] = buf["drainer"]
    BY <1>3, Names DEF Only
  <2>3. ParserFlow(a)'
    BY <1>1, <1>2, <1>3, <2>1, <2>2, FlowReads
  <2>4. QED
    BY <1>1, <1>2, <2>1, <2>2, <2>3, FormsSame
<1>4. ASSUME Only("parser", "parser"), UNCHANGED <<hand, stack, odd>>
      PROVE  /\ TokensInv' /\ Position' = Position
             /\ pc'["drainer"] = pc["drainer"] /\ hand'["drainer"] = hand["drainer"]
             /\ pc'["caller"] = pc["caller"] /\ buf'["drainer"] = buf["drainer"]
  <2>1. /\ \A c \in {"tokenizer", "bridge", "adapter", "drainer"} : buf'[c] = buf[c]
        /\ \A g \in {"bridge", "adapter", "drainer", "caller"} : pc'[g] = pc[g] /\ hand'[g] = hand[g]
        /\ \A c \in {"tokenizer", "bridge"} : closed'[c] = closed[c]
    BY <1>4, Names DEF Only
  <2>2. next'["tokenizer"] = next["tokenizer"] /\ file' = file
    BY <1>2
  <2>3. QED
    BY <2>1, <2>2, TokensStay
<1>5. CASE /\ Only("parser", "parser") /\ closed' = closed /\ UNCHANGED <<hand, stack, odd>>
           /\ pc["parser"] = "send" /\ hand["parser"] \in 0 .. Length
           /\ pc'["parser"] = IF hand["parser"] = Err THEN "close" ELSE "receive"
           /\ buf'["parser"] = Append(buf["parser"], hand["parser"])
  <2>1. ReaderInv' /\ ReadNow' = ReadNow
    <3>1. CASE hand["parser"] = Err
      <4>1. ~Reading /\ pc'["parser"] = "close" /\ odd' = odd
        BY <1>5, <3>1 DEF Reading
      <4>2. QED
        BY <1>2, <4>1, ReaderDone
    <3>2. CASE hand["parser"] # Err
      <4>1. Reading /\ pc'["parser"] = "receive" /\ odd' = odd /\ stack' = stack
        BY <1>5, <3>2 DEF Reading
      <4>2. QED
        BY <1>2, <1>4, <1>5, <4>1, ReaderSent
    <3>3. QED
      BY <3>1, <3>2
  <2>2. ParserFlow(a)'
    BY <1>1, <1>2, <1>4, <1>5, <2>1, FlowSends
  <2>3. QED
    BY <1>1, <1>2, <1>4, <1>5, <2>1, <2>2, FormsSame
<1>6. CASE /\ Only("parser", "parser") /\ UNCHANGED <<buf, hand, stack, odd>>
           /\ pc["parser"] = "close" /\ pc'["parser"] = "drain"
  <2>1. ReaderInv' /\ ReadNow' = ReadNow
    <3>1. ~Reading /\ odd' = odd
      BY <1>6 DEF Reading
    <3>2. QED
      BY <1>2, <1>6, <3>1, ReaderDone
  <2>2. ParserFlow(a)'
    BY <1>1, <1>2, <1>4, <1>6, <2>1, FlowEnds
  <2>3. QED
    BY <1>1, <1>2, <1>4, <1>6, <2>1, <2>2, FormsSame
<1>7. QED
  BY <1>2, <1>3, <1>5, <1>6

LEMMA DrainPreserves ==
    ASSUME Types, TokensInv, ReaderInv, FormsInv, Drain
    PROVE  TokensInv' /\ ReaderInv' /\ FormsInv'
<1>1. PICK a \in Nat, b \in Nat : ParserFlow(a) /\ DrainerFlow(a, b)
  BY DEF FormsInv
<1>2. /\ UNCHANGED <<file, closed, hand, next, stack, odd, forms, expanded, fate>>
      /\ Only("parser", "adapter")
      /\ pc["parser"] = "drain" /\ pc'["parser"] \in {"drain", "end"}
      /\ buf'["adapter"] = IF buf["adapter"] = << >> THEN << >> ELSE Tail(buf["adapter"])
      /\ CanReceive("adapter")
  BY DrainDoes DEF Drain
<1>3. /\ pc'["drainer"] = pc["drainer"] /\ hand'["drainer"] = hand["drainer"]
      /\ pc'["caller"] = pc["caller"]
      /\ buf'["parser"] = buf["parser"] /\ buf'["drainer"] = buf["drainer"]
  BY <1>2, Names DEF Only
<1>4. TokensInv'
  BY <1>2, TokensTake
<1>5. ReaderInv' /\ ReadNow' = ReadNow
  <2>1. ~Reading /\ odd' = odd /\ file' = file /\ pc'["parser"] \in {"close", "drain", "end"}
    BY <1>2 DEF Reading
  <2>2. QED
    BY <2>1, ReaderDone
<1>6. ParserFlow(a)'
  BY <1>1, <1>2, <1>3, <1>5, FlowEnds
<1>7. QED
  BY <1>1, <1>2, <1>3, <1>4, <1>5, <1>6, FormsSame

\* A channel that is empty or begins with an error has an error in the second case only.
LEMMA ErrOrEnd ==
    ASSUME NEW q \in Seq(Nat), q = << >> \/ (q # << >> /\ Head(q) = Err)
    PROVE  HasErr(q) <=> q # << >>
<1>1. q = << >> => ~HasErr(q)
  BY DEF HasErr
<1>2. ASSUME q # << >> PROVE HasErr(q)
  <2>1. 1 \in DOMAIN q /\ q[1] = Head(q)
    BY <1>2
  <2>2. QED
    BY <1>2, <2>1 DEF HasErr
<1>3. QED
  BY <1>1, <1>2

\* At the end of the parser's channel, or at an error, the drainer has had all forms.
LEMMA ParserEnds ==
    ASSUME Types, NEW a \in Nat, ParserFlow(a), Draining,
           \/ buf["parser"] = << >> /\ closed["parser"]
           \/ buf["parser"] # << >> /\ Head(buf["parser"]) = Err
    PROVE  /\ (\A s \in Good : s <= a) /\ Drained(a) = Good
           /\ WellFormed <=> buf["parser"] = << >>
<1>0. file \in Files /\ TopForms \subseteq Positions /\ buf["parser"] \in Seq(Nat)
  BY ReadFacts, Names DEF Types, BufTypes
<1>1. PICK q : q = buf["parser"]
  OBVIOUS
<1>2. /\ Flow(q, ReadNow, InHand("parser"), a)
      /\ HasErr(q) <=> (pc["parser"] \in {"close", "drain", "end"} /\ FirstWrong <= Never)
      /\ \A s \in TopForms : s <= a => ~Unconvertible(s)
  BY <1>1 DEF ParserFlow
<1>3. q \in Seq(Nat) /\ (q = << >> \/ (q # << >> /\ Head(q) = Err))
  BY <1>0, <1>1
<1>4. HasErr(q) <=> q # << >>
  BY <1>3, ErrOrEnd
<1>5. pc["parser"] \in {"close", "drain", "end"}
  <2>1. CASE q = << >>
    BY <1>1, <2>1, Names DEF Types, PcTypes
  <2>2. CASE q # << >>
    BY <1>2, <1>4, <2>2
  <2>3. QED
    BY <2>1, <2>2
<1>6. ReadNow = TopForms /\ InHand("parser") = {}
  BY <1>5 DEF ReadNow, Reading, InHand
<1>7. \A s \in TopForms : s <= a
  <2>1. \A s \in TopForms \ {} : s <= a
    BY <1>0, <1>2, <1>3, <1>6, FlowEnd
  <2>2. QED
    BY <2>1
<1>8. \A s \in TopForms : ~Unconvertible(s)
  BY <1>2, <1>7
<1>9. Good = TopForms /\ \A s \in Good : s <= a
  BY <1>0, <1>7, <1>8, GoodFacts
<1>10. Drained(a) = Good
  BY <1>9 DEF Drained
<1>11. FirstWrong <= Never <=> ~(FirstWrong > Never)
  BY <1>0, WrongFacts, FileFacts DEF Never
<1>12. WellFormed <=> q = << >>
  BY <1>0, <1>2, <1>4, <1>5, <1>8, <1>11, WellFormedMeans
<1>13. QED
  BY <1>1, <1>9, <1>10, <1>12

\* The drainer takes the next form v.
LEMMA ParserGives ==
    ASSUME Types, TokensInv, ReaderInv, NEW a \in Nat, ParserFlow(a), Draining,
           buf["parser"] # << >>, NEW v, v = Head(buf["parser"]), v # Err
    PROVE  /\ v \in TopForms /\ v \in Positions /\ a < v
           /\ v \in odd <=> Unconvertible(v)
           /\ \A s \in TopForms : s < v => s <= a /\ ~Unconvertible(s)
           /\ Flow(Tail(buf["parser"]), ReadNow, InHand("parser"), v)
           /\ HasErr(Tail(buf["parser"])) <=> HasErr(buf["parser"])
<1>0. /\ file \in Files /\ ReadNow \subseteq Positions /\ ReadNow \subseteq TopForms
      /\ (\A s \in TopForms : s \in Nat)
      /\ buf["parser"] \in Seq(Nat) /\ Position \in Int
  BY ReadFacts, TokenTypes, Names DEF Types, BufTypes, TokenNumbers
<1>1. PICK q, H : q = buf["parser"] /\ H = InHand("parser")
  OBVIOUS
<1>2. /\ Flow(q, ReadNow, H, a)
      /\ \A s \in TopForms : s <= a => ~Unconvertible(s)
  BY <1>1 DEF ParserFlow
<1>3. q \in Seq(Nat) /\ q # << >> /\ v = Head(q)
  BY <1>0, <1>1
<1>4. /\ v \in ReadNow /\ v \in Positions /\ a < v
      /\ Flow(Tail(q), ReadNow, H, v)
      /\ (HasErr(Tail(q)) <=> HasErr(q))
      /\ \A s \in ReadNow : a < s => v <= s
  <2>1. Head(q) # Err
    BY <1>3
  <2>2. /\ Head(q) \in ReadNow /\ Head(q) \in Positions /\ a < Head(q)
        /\ Flow(Tail(q), ReadNow, H, Head(q))
        /\ (HasErr(Tail(q)) <=> HasErr(q))
        /\ \A s \in ReadNow : a < s => Head(q) <= s
    BY <1>0, <1>2, <1>3, <2>1, FlowTake
  <2>3. QED
    BY <1>3, <2>2, Zenon
<1>5. v \in odd <=> Unconvertible(v)
  BY <1>4, ReadMarks
<1>6. ASSUME NEW s \in TopForms, s < v PROVE s <= a
  <2>1. s \in ReadNow
    BY <1>0, <1>4, <1>6, ReadDown
  <2>2. s \in Nat /\ v \in Nat
    BY <1>0, <1>4
  <2>3. QED
    BY <1>4, <1>6, <2>1, <2>2
<1>7. QED
  BY <1>0, <1>1, <1>2, <1>4, <1>5, <1>6

\* At the end of the parser's channel the drainer is done.
LEMMA DrainerEnds ==
    ASSUME Types, NEW a \in Nat, NEW b \in Nat, ParserFlow(a), DrainerFlow(a, b),
           file' = file, forms' = forms, buf'["drainer"] = buf["drainer"],
           pc'["caller"] = pc["caller"], pc["drainer"] = "receive",
           \/ /\ buf["parser"] = << >> /\ closed["parser"]
              /\ pc'["drainer"] = "close"
           \/ /\ buf["parser"] # << >> /\ Head(buf["parser"]) = Err
              /\ pc'["drainer"] = "send" /\ hand'["drainer"] = Err
    PROVE  FormsInv'
<1>0. file \in Files /\ Good \subseteq TopForms /\ Err \notin TopForms
  BY ReadFacts, GoodFacts DEF Types
<1>1. Draining /\ ~Draining'
  BY DEF Draining
<1>2. Drained(a) = Good /\ (WellFormed <=> buf["parser"] = << >>)
  BY <1>1, ParserEnds
<1>3. WellFormed' = WellFormed /\ Good' = Good
  BY FileSame
<1>4. Drained(a)' = Good
  BY <1>1, <1>3 DEF Drained
<1>5. ParserFlow(a)'
  BY <1>1 DEF ParserFlow
<1>6. Parsed' <=> Parsed
  BY DEF Parsed
<1>7. pc'["drainer"] = "send" /\ ~Draining' => ~WellFormed
  BY <1>2
<1>8. ASSUME pc["caller"] = "receive"
      PROVE  /\ Flow(buf["drainer"], Good, InHand("drainer")', b)
             /\ HasErr(buf["drainer"]) <=> (pc'["drainer"] \in {"close", "end"} /\ ~WellFormed)
             /\ Lists(forms, {s \in Good : s <= b})
  <2>1. Flow(buf["drainer"], Good, {}, b) /\ ~HasErr(buf["drainer"]) /\ Lists(forms, {s \in Good : s <= b})
    BY <1>2, <1>8, InHandFacts DEF DrainerFlow
  <2>2. InHand("drainer")' \in {{}, {Err}}
    BY InHandFacts
  <2>3. InHand("drainer")' \cap Good = {}
    BY <1>0, <2>2
  <2>4. Flow(buf["drainer"], Good, InHand("drainer")', b)
    BY <2>1, <2>3, FlowHands
  <2>5. QED
    BY <1>2, <2>1, <2>4
<1>9. DrainerFlow(a, b)'
  BY <1>3, <1>4, <1>6, <1>7, <1>8 DEF DrainerFlow
<1>10. QED
  BY <1>5, <1>9 DEF FormsInv

\* A form that cannot be converted is as good as an error.
LEMMA DrainerFails ==
    ASSUME Types, TokensInv, ReaderInv, NEW a \in Nat, NEW b \in Nat, ParserFlow(a), DrainerFlow(a, b),
           file' = file, forms' = forms, buf'["drainer"] = buf["drainer"],
           pc'["caller"] = pc["caller"], pc["drainer"] = "receive",
           buf["parser"] # << >>, NEW v, v = Head(buf["parser"]), v # Err, v \in odd,
           pc'["drainer"] = "send", hand'["drainer"] = Err
    PROVE  FormsInv'
<1>0. file \in Files /\ Good \subseteq TopForms /\ Err \notin TopForms
  BY ReadFacts, GoodFacts DEF Types
<1>1. Draining /\ ~Draining'
  BY DEF Draining
<1>2. v \in TopForms /\ Unconvertible(v) /\ \A s \in TopForms : s < v => s <= a
  BY <1>1, ParserGives
<1>3. ~WellFormed
  BY <1>0, <1>2, WellFormedMeans
<1>4. Drained(a) = Good
  <2>1. \A s \in Good : s <= a
    BY <1>0, <1>2 DEF Good
  <2>2. QED
    BY <2>1 DEF Drained
<1>5. WellFormed' = WellFormed /\ Good' = Good
  BY FileSame
<1>6. Drained(a)' = Good
  BY <1>1, <1>5 DEF Drained
<1>7. ParserFlow(a)'
  BY <1>1 DEF ParserFlow
<1>8. Parsed' <=> Parsed
  BY DEF Parsed
<1>9. ASSUME pc["caller"] = "receive"
      PROVE  /\ Flow(buf["drainer"], Good, InHand("drainer")', b)
             /\ ~HasErr(buf["drainer"])
             /\ Lists(forms, {s \in Good : s <= b})
  <2>1. Flow(buf["drainer"], Good, {}, b) /\ ~HasErr(buf["drainer"]) /\ Lists(forms, {s \in Good : s <= b})
    BY <1>4, <1>9, InHandFacts DEF DrainerFlow
  <2>2. InHand("drainer")' = {Err}
    BY InHandFacts
  <2>3. InHand("drainer")' \cap Good = {}
    BY <1>0, <2>2
  <2>4. Flow(buf["drainer"], Good, InHand("drainer")', b)
    BY <2>1, <2>3, FlowHands
  <2>5. QED
    BY <2>1, <2>4
<1>10. DrainerFlow(a, b)'
  BY <1>3, <1>5, <1>6, <1>8, <1>9 DEF DrainerFlow
<1>11. QED
  BY <1>7, <1>10 DEF FormsInv

\* A form that can be converted comes to the drainer's hand.
LEMMA DrainerTakes ==
    ASSUME Types, TokensInv, ReaderInv, NEW a \in Nat, NEW b \in Nat, ParserFlow(a), DrainerFlow(a, b),
           file' = file, forms' = forms, buf'["drainer"] = buf["drainer"],
           pc'["caller"] = pc["caller"], pc["drainer"] = "receive",
           pc'["parser"] = pc["parser"], hand'["parser"] = hand["parser"],
           ReadNow' = ReadNow, buf'["parser"] = Tail(buf["parser"]),
           buf["parser"] # << >>, NEW v, v = Head(buf["parser"]), v # Err, v \notin odd,
           pc'["drainer"] = "send", hand'["drainer"] = v
    PROVE  FormsInv'
<1>0. file \in Files /\ Good \subseteq TopForms /\ TopForms \subseteq Positions /\ \A s \in TopForms : s \in Nat
  BY ReadFacts, GoodFacts DEF Types
<1>1. Draining /\ Draining'
  BY DEF Draining
<1>2. /\ v \in TopForms /\ v \in Positions /\ a < v /\ ~Unconvertible(v)
      /\ (\A s \in TopForms : s < v => s <= a /\ ~Unconvertible(s))
      /\ Flow(Tail(buf["parser"]), ReadNow, InHand("parser"), v)
      /\ HasErr(Tail(buf["parser"])) <=> HasErr(buf["parser"])
  BY <1>1, ParserGives
<1>3. /\ WellFormed' = WellFormed /\ Good' = Good
      /\ FirstWrong' = FirstWrong /\ TopForms' = TopForms
      /\ \A s : Unconvertible(s)' <=> Unconvertible(s)
  BY FileSame
<1>4. v \in Nat /\ \A s \in TopForms : s <= v => s < v \/ s = v
  BY <1>0, <1>2
<1>5. ParserFlow(v)'
  <2>1. InHand("parser")' = InHand("parser")
    BY DEF InHand
  <2>2. \A s \in TopForms : s <= v => ~Unconvertible(s)
    BY <1>2, <1>4
  <2>3. HasErr(buf["parser"]) <=> (pc["parser"] \in {"close", "drain", "end"} /\ FirstWrong <= Never)
    BY <1>1 DEF ParserFlow
  <2>4. QED
    BY <1>2, <1>3, <2>1, <2>2, <2>3 DEF ParserFlow, Never
<1>6. v \in Good
  <2>1. \A f \in TopForms : Unconvertible(f) => v < f
    BY <1>0, <1>2, <1>4
  <2>2. QED
    BY <1>2, <2>1 DEF Good
<1>7. /\ Drained(a) = {s \in Good : s <= a} /\ Drained(v)' = {s \in Good : s <= v}
  BY <1>1, <1>3 DEF Drained
<1>8. /\ Drained(v)' = Drained(a) \cup {v} /\ v \notin Drained(a) /\ (\A s \in Drained(a) : s < v)
      /\ Drained(a) \subseteq Positions
  <2>1. \A s \in Good : s <= v <=> s <= a \/ s = v
    BY <1>0, <1>2, <1>4
  <2>2. \A s \in Good : s <= a => s < v
    BY <1>0, <1>2, <1>4
  <2>3. {s \in Good : s <= v} = {s \in Good : s <= a} \cup {v}
    <3>1. v <= v
      BY <1>4
    <3>2. QED
      BY <1>6, <2>1, <3>1
  <2>4. v \notin {s \in Good : s <= a}
    BY <1>2, <1>4
  <2>5. {s \in Good : s <= a} \subseteq Positions
    BY <1>0
  <2>6. QED
    BY <1>7, <2>2, <2>3, <2>4, <2>5
<1>9. Parsed' <=> Parsed
  BY DEF Parsed
<1>10. ASSUME pc["caller"] = "receive"
       PROVE  /\ Flow(buf["drainer"], Drained(v)', InHand("drainer")', b)
              /\ ~HasErr(buf["drainer"])
              /\ Lists(forms, {s \in Good : s <= b})
  <2>1. /\ Flow(buf["drainer"], Drained(a), {}, b) /\ ~HasErr(buf["drainer"])
        /\ Lists(forms, {s \in Good : s <= b})
    BY <1>10, InHandFacts DEF DrainerFlow
  <2>2. InHand("drainer")' = {v}
    BY InHandFacts
  <2>3. Flow(buf["drainer"], Drained(a) \cup {v}, {v}, b)
    BY <1>2, <1>8, <2>1, FlowHand
  <2>4. QED
    BY <1>8, <2>1, <2>2, <2>3
<1>11. DrainerFlow(v, b)'
  BY <1>1, <1>3, <1>9, <1>10 DEF DrainerFlow
<1>12. QED
  BY <1>4, <1>5, <1>11 DEF FormsInv

\* The drainer sends what it has in hand.
LEMMA DrainerSends ==
    ASSUME Types, NEW a \in Nat, NEW b \in Nat, ParserFlow(a), DrainerFlow(a, b),
           file' = file, forms' = forms, pc["drainer"] = "send",
           pc'["drainer"] = IF hand["drainer"] = Err THEN "close" ELSE "receive",
           buf'["drainer"] = Append(buf["drainer"], hand["drainer"]), hand' = hand,
           pc'["caller"] = pc["caller"], pc'["parser"] = pc["parser"],
           ReadNow' = ReadNow, buf'["parser"] = buf["parser"]
    PROVE  FormsInv'
<1>0. /\ file \in Files /\ Good \subseteq TopForms /\ TopForms \subseteq Positions
      /\ (\A s \in TopForms : s \in Nat) /\ Err \notin TopForms /\ ReadNow \subseteq TopForms
      /\ buf["drainer"] \in Seq(Nat)
  BY ReadFacts, GoodFacts, Names DEF Types, BufTypes
<1>1. PICK v, q : v = hand["drainer"] /\ q = buf["drainer"]
  OBVIOUS
<1>2. /\ WellFormed' = WellFormed /\ Good' = Good
      /\ FirstWrong' = FirstWrong /\ TopForms' = TopForms
      /\ \A s : Unconvertible(s)' <=> Unconvertible(s)
  BY FileSame
<1>3. Draining' <=> Draining
  BY DEF Draining
<1>4. Drained(a)' = Drained(a) /\ Drained(a) \subseteq Good
  BY <1>3, DrainedSame DEF Drained
<1>5. ParserFlow(a)'
  <2>1. InHand("parser")' = InHand("parser")
    BY DEF InHand
  <2>2. pc'["drainer"] # "send"
    OBVIOUS
  <2>3. QED
    BY <1>2, <1>3, <2>1, <2>2 DEF ParserFlow, Never
<1>6. Parsed' <=> Parsed
  BY DEF Parsed
<1>7. q \in Seq(Nat) /\ InHand("drainer") = {v} /\ InHand("drainer")' = {} /\ buf'["drainer"] = Append(q, v)
      /\ pc'["drainer"] # "send"
  BY <1>0, <1>1, InHandFacts
<1>8. ASSUME pc["caller"] = "receive"
      PROVE  Flow(q, Drained(a), {v}, b) /\ ~HasErr(q) /\ Lists(forms, {s \in Good : s <= b})
  BY <1>1, <1>7, <1>8 DEF DrainerFlow
<1>9. CASE v = Err
  <2>1. ~Draining /\ pc'["drainer"] = "close" /\ ~WellFormed
    BY <1>1, <1>9 DEF Draining, DrainerFlow
  <2>2. ASSUME pc["caller"] = "receive"
        PROVE  Flow(Append(q, v), Drained(a), {}, b) /\ HasErr(Append(q, v))
    <3>1. {v} \cap Drained(a) = {}
      BY <1>0, <1>4, <1>9
    <3>2. QED
      BY <1>7, <1>8, <1>9, <2>2, <3>1, FlowErr
  <2>3. DrainerFlow(a, b)'
    BY <1>2, <1>4, <1>6, <1>7, <1>8, <2>1, <2>2 DEF DrainerFlow
  <2>4. QED
    BY <1>5, <2>3 DEF FormsInv
<1>10. CASE v # Err
  <2>1. Draining /\ pc'["drainer"] = "receive"
    BY <1>1, <1>10 DEF Draining
  <2>2. v = a /\ a \in ReadNow \cup {0} /\ \A s \in TopForms : s <= a => ~Unconvertible(s)
    BY <1>1, <2>1 DEF ParserFlow, Flow
  <2>3. v \in Drained(a)
    <3>1. v \in TopForms /\ v \in Nat
      BY <1>0, <1>10, <2>2 DEF Err
    <3>2. \A f \in TopForms : Unconvertible(f) => v < f
      BY <1>0, <2>2, <3>1
    <3>3. QED
      BY <2>2, <3>1, <3>2 DEF Drained, Good
  <2>4. ASSUME pc["caller"] = "receive"
        PROVE  Flow(Append(q, v), Drained(a), {}, b) /\ ~HasErr(Append(q, v))
    <3>1. Drained(a) \subseteq Positions
      BY <1>0, <1>4
    <3>2. QED
      BY <1>7, <1>8, <2>3, <2>4, <3>1, FlowPut
  <2>5. DrainerFlow(a, b)'
    <3>1. /\ pc'["drainer"] = "send" /\ ~Draining' => ~WellFormed
          /\ Parsed' => WellFormed
          /\ pc["caller"] = "parse failed" => ~WellFormed
          /\ pc["caller"] # "receive" => Lists(forms, Good)
      BY <1>6, <1>7 DEF DrainerFlow
    <3>2. QED
      BY <1>2, <1>4, <1>7, <1>8, <2>1, <2>4, <3>1 DEF DrainerFlow
  <2>6. QED
    BY <1>5, <2>5 DEF FormsInv
<1>11. QED
  BY <1>9, <1>10

\* The drainer closes its channel.
LEMMA DrainerCloses ==
    ASSUME NEW a \in Nat, NEW b \in Nat, DrainerFlow(a, b),
           file' = file, forms' = forms, pc["drainer"] = "close", pc'["drainer"] = "end",
           buf'["drainer"] = buf["drainer"], pc'["caller"] = pc["caller"]
    PROVE  FormsInv'
<1>1. WellFormed' = WellFormed /\ Good' = Good
  BY FileSame
<1>2. ~Draining /\ ~Draining'
  BY DEF Draining
<1>3. Drained(a)' = Drained(a)
  BY <1>2, DrainedSame
<1>4. ParserFlow(a)'
  BY <1>2 DEF ParserFlow
<1>5. Parsed' <=> Parsed
  BY DEF Parsed
<1>6. InHand("drainer") = {} /\ InHand("drainer")' = {}
  BY InHandFacts
<1>7. DrainerFlow(a, b)'
  BY <1>1, <1>3, <1>5, <1>6 DEF DrainerFlow
<1>8. QED
  BY <1>4, <1>7 DEF FormsInv

LEMMA DrainASTPreserves ==
    ASSUME Types, TokensInv, ReaderInv, FormsInv, DrainAST
    PROVE  TokensInv' /\ ReaderInv' /\ FormsInv'
<1> DEFINE q == buf["parser"]
<1>1. PICK a \in Nat, b \in Nat : ParserFlow(a) /\ DrainerFlow(a, b)
  BY DEF FormsInv
<1>2. /\ UNCHANGED <<file, next, stack, odd, forms, expanded, fate>>
      /\ \/ /\ Only("drainer", "parser") /\ closed' = closed
            /\ pc["drainer"] = "receive" /\ CanReceive("parser")
            /\ hand'["drainer"] = Converted(Received("parser"))
            /\ pc'["drainer"] = IF Received("parser") = End THEN "close" ELSE "send"
            /\ buf'["parser"] = IF buf["parser"] = << >> THEN << >> ELSE Tail(buf["parser"])
         \/ /\ Only("drainer", "drainer") /\ closed' = closed /\ hand' = hand
            /\ pc["drainer"] = "send" /\ hand["drainer"] \in 0 .. Length
            /\ pc'["drainer"] = IF hand["drainer"] = Err THEN "close" ELSE "receive"
            /\ buf'["drainer"] = Append(buf["drainer"], hand["drainer"])
         \/ /\ Only("drainer", "drainer") /\ hand' = hand /\ buf' = buf
            /\ pc["drainer"] = "close" /\ pc'["drainer"] = "end"
  BY DrainASTDoes
<1>3. /\ \A c \in {"tokenizer", "bridge", "adapter"} : buf'[c] = buf[c]
      /\ \A g \in {"bridge", "adapter", "parser", "caller"} : pc'[g] = pc[g] /\ hand'[g] = hand[g]
      /\ \A c \in {"tokenizer", "bridge"} : closed'[c] = closed[c]
  BY <1>2, Names DEF Only
<1>4. TokensInv' /\ Position' = Position
  BY <1>2, <1>3, TokensStay
<1>5. ReaderInv' /\ ReadNow' = ReadNow
  BY <1>2, <1>3, <1>4, ReaderStays
<1>6. CASE /\ Only("drainer", "parser") /\ closed' = closed
           /\ pc["drainer"] = "receive" /\ CanReceive("parser")
           /\ hand'["drainer"] = Converted(Received("parser"))
           /\ pc'["drainer"] = IF Received("parser") = End THEN "close" ELSE "send"
           /\ buf'["parser"] = IF q = << >> THEN << >> ELSE Tail(q)
  <2>1. buf'["drainer"] = buf["drainer"]
    BY <1>6, Names DEF Only
  <2>2. /\ Received("parser") # End => q # << >> /\ Received("parser") = Head(q)
        /\ Received("parser") = End => q = << >>
    BY ReceiveFacts, Names
  <2>3. CASE Received("parser") = End
    <3>1. q = << >> /\ closed["parser"] /\ pc'["drainer"] = "close"
      BY <1>6, <2>2, <2>3 DEF CanReceive
    <3>2. QED
      BY <1>1, <1>2, <1>3, <1>4, <1>5, <1>6, <2>1, <3>1, DrainerEnds
  <2>4. CASE Received("parser") # End
    <3>1. PICK v : v = Received("parser")
      OBVIOUS
    <3>2. v = Head(q) /\ q # << >> /\ pc'["drainer"] = "send" /\ buf'["parser"] = Tail(q)
          /\ hand'["drainer"] = IF v \in odd THEN Err ELSE v
      BY <1>6, <2>2, <2>4, <3>1 DEF Converted
    <3>3. CASE v = Err
      BY <1>1, <1>2, <1>3, <1>4, <1>5, <1>6, <2>1, <3>2, <3>3, DrainerEnds
    <3>4. CASE v # Err /\ v \in odd
      BY <1>1, <1>2, <1>3, <1>4, <1>5, <1>6, <2>1, <3>2, <3>4, DrainerFails
    <3>5. CASE v # Err /\ v \notin odd
      BY <1>1, <1>2, <1>3, <1>4, <1>5, <1>6, <2>1, <3>2, <3>5, DrainerTakes
    <3>6. QED
      BY <3>3, <3>4, <3>5
  <2>5. QED
    BY <2>3, <2>4
<1>7. ASSUME Only("drainer", "drainer") PROVE buf'["parser"] = q
  BY <1>7, Names DEF Only
<1>8. CASE /\ Only("drainer", "drainer") /\ closed' = closed /\ hand' = hand
           /\ pc["drainer"] = "send" /\ hand["drainer"] \in 0 .. Length
           /\ pc'["drainer"] = IF hand["drainer"] = Err THEN "close" ELSE "receive"
           /\ buf'["drainer"] = Append(buf["drainer"], hand["drainer"])
  BY <1>1, <1>2, <1>3, <1>4, <1>5, <1>7, <1>8, DrainerSends
<1>9. CASE /\ Only("drainer", "drainer") /\ hand' = hand /\ buf' = buf
           /\ pc["drainer"] = "close" /\ pc'["drainer"] = "end"
  BY <1>1, <1>2, <1>3, <1>4, <1>5, <1>9, DrainerCloses
<1>10. QED
  BY <1>2, <1>6, <1>8, <1>9

LEMMA SeqGrows ==
    ASSUME NEW S, NEW T, S \subseteq T, NEW q \in Seq(S)
    PROVE  q \in Seq(T)
OBVIOUS

\* The caller takes what the drainer sends.
LEMMA CallerEnds ==
    ASSUME Types, NEW a \in Nat, NEW b \in Nat, DrainerFlow(a, b), pc["caller"] = "receive",
           \/ buf["drainer"] = << >> /\ closed["drainer"]
           \/ buf["drainer"] # << >> /\ Head(buf["drainer"]) = Err
    PROVE  /\ Lists(forms, Good)
           /\ WellFormed <=> buf["drainer"] = << >>
<1>0. /\ file \in Files /\ Good \subseteq TopForms /\ TopForms \subseteq Positions
      /\ buf["drainer"] \in Seq(Nat)
  BY ReadFacts, GoodFacts, Names DEF Types, BufTypes
<1>1. PICK q : q = buf["drainer"]
  OBVIOUS
<1>2. /\ Flow(q, Drained(a), InHand("drainer"), b)
      /\ HasErr(q) <=> (pc["drainer"] \in {"close", "end"} /\ ~WellFormed)
      /\ Lists(forms, {s \in Good : s <= b})
  BY <1>1 DEF DrainerFlow
<1>3. q \in Seq(Nat) /\ (q = << >> \/ (q # << >> /\ Head(q) = Err))
  BY <1>0, <1>1
<1>4. HasErr(q) <=> q # << >>
  BY <1>3, ErrOrEnd
<1>5. pc["drainer"] \in {"close", "end"}
  <2>1. CASE q = << >>
    BY <1>1, <2>1, Names DEF Types, PcTypes, PlacesOf
  <2>2. CASE q # << >>
    BY <1>2, <1>4, <2>2
  <2>3. QED
    BY <2>1, <2>2
<1>6. Drained(a) = Good /\ InHand("drainer") = {}
  BY <1>5 DEF Drained, Draining, InHand
<1>7. \A s \in Good : s <= b
  <2>1. Good \subseteq Positions
    BY <1>0
  <2>2. \A s \in Good \ {} : s <= b
    BY <1>2, <1>3, <1>6, <2>1, FlowEnd
  <2>3. QED
    BY <2>2
<1>8. Lists(forms, Good)
  BY <1>2, <1>7, ListsAll
<1>9. QED
  BY <1>1, <1>2, <1>4, <1>5, <1>8

LEMMA CollectFormsFlow ==
    ASSUME Types, FormsInv, FeederInv, CollectForms, ReadNow' = ReadNow
    PROVE  FormsInv'
<1>1. PICK a \in Nat, b \in Nat : ParserFlow(a) /\ DrainerFlow(a, b)
  BY DEF FormsInv
<1>2. /\ UNCHANGED <<file, closed, hand, next, stack, odd, expanded, fate>>
      /\ pc["caller"] = "receive" /\ CanReceive("drainer")
      /\ \A d \in Channels \ {"drainer"} : buf'[d] = buf[d]
      /\ buf'["drainer"] = IF buf["drainer"] = << >> THEN << >> ELSE Tail(buf["drainer"])
      /\ \A g \in Goroutines \ {"caller", "feeder", "expander"} : pc'[g] = pc[g]
      /\ \/ /\ Received("drainer") = End /\ forms' = forms
            /\ pc'["caller"] = "collect"
         \/ /\ Received("drainer") = Err /\ forms' = forms /\ pc'["caller"] = "parse failed"
         \/ /\ Received("drainer") \in 1 .. Length /\ pc' = pc
            /\ forms' = Append(forms, Received("drainer"))
  BY CollectFormsDoes
<1>3. /\ file \in Files /\ Good \subseteq TopForms /\ TopForms \subseteq Positions
      /\ (\A s \in TopForms : s \in Nat) /\ forms \in Seq(1 .. Length) /\ 1 .. Length \subseteq Positions
      /\ buf["drainer"] \in Seq(Nat)
  BY ReadFacts, GoodFacts, Names DEF Types, BufTypes, DataTypes
<1>31. forms \in Seq(Positions) /\ Good \subseteq Positions
  BY <1>3, SeqGrows
<1>4. End > Length /\ End # Err /\ End \in Nat /\ Length \in Nat
  BY <1>3, ItemFacts
<1>5. /\ pc'["parser"] = pc["parser"] /\ pc'["drainer"] = pc["drainer"]
      /\ buf'["parser"] = buf["parser"]
  BY <1>2, Names
<1>7. ParserFlow(a)'
  BY <1>1, <1>2, <1>5, ParserFlowSame
<1>8. WellFormed' = WellFormed /\ Good' = Good
  BY <1>2, FileSame
<1>9. Draining' <=> Draining
  BY <1>2, <1>5 DEF Draining
<1>10. pc["drainer"] = "send" /\ ~Draining => ~WellFormed
  BY <1>1 DEF DrainerFlow
<1>11. /\ Received("drainer") # End =>
             buf["drainer"] # << >> /\ Received("drainer") = Head(buf["drainer"])
       /\ Received("drainer") = End => buf["drainer"] = << >>
  BY ReceiveFacts, Names
<1>111. /\ Received("drainer") = End => Received("drainer") \notin 1 .. Length /\ Received("drainer") # Err
        /\ Received("drainer") = Err => Received("drainer") \notin 1 .. Length
  BY <1>4 DEF Err
<1>12. CASE Received("drainer") = End
  <2>1. buf["drainer"] = << >> /\ closed["drainer"] /\ pc'["caller"] = "collect" /\ forms' = forms
    BY <1>2, <1>11, <1>111, <1>12, Zenon DEF CanReceive
  <2>2. Lists(forms, Good) /\ WellFormed
    BY <1>1, <1>2, <2>1, CallerEnds
  <2>3. DrainerFlow(a, b)'
    BY <1>5, <1>8, <1>9, <1>10, <2>1, <2>2 DEF DrainerFlow
  <2>4. QED
    BY <1>7, <2>3 DEF FormsInv
<1>13. CASE Received("drainer") = Err
  <2>1. buf["drainer"] # << >> /\ Head(buf["drainer"]) = Err /\ pc'["caller"] = "parse failed" /\ forms' = forms
    BY <1>2, <1>11, <1>111, <1>13, Zenon
  <2>2. Lists(forms, Good) /\ ~WellFormed
    BY <1>1, <1>2, <2>1, CallerEnds
  <2>3. ~Parsed'
    BY <2>1 DEF Parsed
  <2>4. DrainerFlow(a, b)'
    BY <1>5, <1>8, <1>9, <1>10, <2>1, <2>2, <2>3 DEF DrainerFlow
  <2>5. QED
    BY <1>7, <2>4 DEF FormsInv
<1>14. CASE Received("drainer") \in 1 .. Length
  <2>1. PICK v, q : v = Received("drainer") /\ q = buf["drainer"]
    OBVIOUS
  <2>2. v # End /\ v # Err /\ v \in Positions
    BY <1>3, <1>4, <1>14, <2>1 DEF Err
  <2>3. q # << >> /\ v = Head(q) /\ buf'["drainer"] = Tail(q) /\ q \in Seq(Nat)
    BY <1>2, <1>3, <1>11, <2>1, <2>2
  <2>4. pc' = pc /\ forms' = Append(forms, v)
    BY <1>2, <1>4, <2>1, <2>2
  <2>5. /\ Flow(q, Drained(a), InHand("drainer"), b)
        /\ HasErr(q) <=> (pc["drainer"] \in {"close", "end"} /\ ~WellFormed)
        /\ Lists(forms, {s \in Good : s <= b})
    BY <1>1, <1>2, <2>1 DEF DrainerFlow
  <2>6. Drained(a) \subseteq Good /\ Drained(a) \subseteq Positions
    BY <1>3 DEF Drained
  <2>7. /\ v \in Drained(a) /\ b < v /\ Flow(Tail(q), Drained(a), InHand("drainer"), v)
        /\ (HasErr(Tail(q)) <=> HasErr(q)) /\ \A s \in Drained(a) : b < s => v <= s
    <3>1. Head(q) # Err
      BY <2>2, <2>3
    <3>2. /\ Head(q) \in Drained(a) /\ b < Head(q) /\ Flow(Tail(q), Drained(a), InHand("drainer"), Head(q))
          /\ (HasErr(Tail(q)) <=> HasErr(q)) /\ \A s \in Drained(a) : b < s => Head(q) <= s
      BY <2>3, <2>5, <2>6, <3>1, FlowTake
    <3>3. QED
      BY <2>3, <3>2, Zenon
  <2>8. \A s \in Good : b < s => v <= s
    <3>1. ASSUME NEW s \in Good, s \notin Drained(a) PROVE v <= s
      <4>1. s \in Nat /\ ~(s <= a) /\ v <= a /\ v \in Nat
        BY <1>3, <2>6, <2>7, <3>1 DEF Drained
      <4>2. QED
        BY <4>1
    <3>2. QED
      BY <2>7, <3>1
  <2>9. Lists(Append(forms, v), {s \in Good : s <= v})
    <3>1. v \in Good
      BY <2>6, <2>7
    <3>2. QED
      BY <1>31, <2>5, <2>7, <2>8, <3>1, Collected
  <2>10. InHand("drainer")' = InHand("drainer") /\ (Parsed' <=> Parsed)
    BY <1>2, <2>4 DEF InHand, Parsed
  <2>11. Drained(a)' = Drained(a)
    BY <1>2, <1>9, DrainedSame
  <2>12. pc["caller"] # "parse failed" /\ ~Parsed
    BY <1>2 DEF Parsed
  <2>13. DrainerFlow(a, v)'
    BY <1>2, <1>8, <1>9, <1>10, <2>3, <2>4, <2>5, <2>7, <2>9, <2>10, <2>11, <2>12 DEF DrainerFlow
  <2>14. v \in Nat
    BY <2>2, ErrFacts
  <2>15. QED
    BY <1>7, <2>13, <2>14 DEF FormsInv
<1>15. QED
  BY <1>2, <1>12, <1>13, <1>14
-----------------------------------------------------------------------------
(* The forms on their way through the expander.                            *)

\* The forms the caller has are in order.
LEMMA FormsRise ==
    ASSUME Types, FormsInv
    PROVE  /\ forms \in Seq(1 .. Length) /\ forms \in Seq(Positions) /\ Len(forms) \in Nat
           /\ DOMAIN forms = 1 .. Len(forms)
           /\ \A i \in DOMAIN forms : forms[i] \in Positions /\ forms[i] \in Nat /\ forms[i] \in 1 .. Length
           /\ \A i, j \in DOMAIN forms : i < j => forms[i] < forms[j]
<1>1. /\ forms \in Seq(1 .. Length) /\ 1 .. Length \subseteq Positions
  BY GoodFacts DEF Types, DataTypes
<1>2. forms \in Seq(Positions) /\ Len(forms) \in Nat /\ DOMAIN forms = 1 .. Len(forms)
  <2>1. forms \in Seq(Positions)
    BY <1>1, SeqGrows
  <2>2. Len(forms) \in Nat /\ DOMAIN forms = 1 .. Len(forms)
    BY <1>1
  <2>3. QED
    BY <2>1, <2>2
<1>3. \A i \in DOMAIN forms : forms[i] \in Positions /\ forms[i] \in 1 .. Length
  BY <1>1, SeqFacts
<1>4. \A i \in DOMAIN forms : forms[i] # Err /\ forms[i] \in Nat
  BY <1>3, ErrFacts
<1>5. \A i \in DOMAIN forms : Before(forms, i)
  <2> SUFFICES ASSUME NEW i \in DOMAIN forms, NEW j \in 1 .. i PROVE forms[j] # Err
    BY DEF Before
  <2>1. j \in DOMAIN forms
    BY <1>2
  <2>2. QED
    BY <1>4, <2>1
<1>6. PICK a \in Nat, b \in Nat : DrainerFlow(a, b)
  BY DEF FormsInv
<1>7. \E T : Lists(forms, T)
  BY <1>6 DEF DrainerFlow
<1>8. \A i, j \in DOMAIN forms : i < j => forms[i] < forms[j]
  BY <1>5, <1>7 DEF Lists
<1>9. QED
  BY <1>1, <1>2, <1>3, <1>4, <1>8

\* What the feeder's channel holds are the forms behind the first n.
FormsBehind(q, f, n) == \A i \in DOMAIN q : q[i] = f[n + i]

LEMMA TailBehind ==
    ASSUME NEW q \in Seq(Nat), q # << >>, NEW f, NEW n \in Nat,
           FormsBehind(q, f, n)
    PROVE  /\ Head(q) = f[n + 1] /\ Len(Tail(q)) = Len(q) - 1 /\ Len(q) >= 1
           /\ FormsBehind(Tail(q), f, n + 1)
<1>1. /\ Head(q) = q[1] /\ 1 \in DOMAIN q /\ Len(Tail(q)) = Len(q) - 1 /\ Len(q) >= 1
      /\ \A i \in DOMAIN Tail(q) : i \in Nat /\ i + 1 \in DOMAIN q /\ Tail(q)[i] = q[i + 1]
  OBVIOUS
<1>2. \A i \in Nat : n + (i + 1) = n + 1 + i
  OBVIOUS
<1>3. FormsBehind(Tail(q), f, n + 1)
  BY <1>1, <1>2, Zenon DEF FormsBehind
<1>4. Head(q) = f[n + 1]
  BY <1>1, Zenon DEF FormsBehind
<1>5. QED
  BY <1>1, <1>3, <1>4

LEMMA AppendBehind ==
    ASSUME NEW q \in Seq(Nat), NEW v \in Nat, NEW f, NEW n \in Nat,
           FormsBehind(q, f, n), v = f[n + Len(q) + 1]
    PROVE  /\ Len(Append(q, v)) = Len(q) + 1
           /\ FormsBehind(Append(q, v), f, n)
<1>1. /\ Len(Append(q, v)) = Len(q) + 1 /\ Len(q) \in Nat
      /\ \A i \in DOMAIN Append(q, v) :
            (i \in DOMAIN q /\ Append(q, v)[i] = q[i]) \/ (i = Len(q) + 1 /\ Append(q, v)[i] = v)
  BY AppendFacts
<1>2. n + (Len(q) + 1) = n + Len(q) + 1
  BY <1>1
<1>3. FormsBehind(Append(q, v), f, n)
  BY <1>1, <1>2, Zenon DEF FormsBehind
<1>4. QED
  BY <1>1, <1>3

\* What has a fate is a form.
LEMMA FateFacts ==
    ASSUME Types, FeederInv
    PROVE  /\ fate \in Seq({"kept", "macro", "throws"}) /\ Len(fate) \in Nat /\ DOMAIN fate = 1 .. Len(fate)
           /\ buf["feeder"] \in Seq(Nat) /\ Len(buf["feeder"]) \in Nat
           /\ next["feeder"] \in Nat
           /\ Len(fate) <= Len(forms) /\ Len(forms) \in Nat
           /\ DOMAIN fate \subseteq DOMAIN forms
<1>1. /\ fate \in Seq({"kept", "macro", "throws"}) /\ Len(fate) \in Nat /\ DOMAIN fate = 1 .. Len(fate)
      /\ buf["feeder"] \in Seq(Nat) /\ next["feeder"] \in Nat
      /\ forms \in Seq(1 .. Length)
  BY Names DEF Types, DataTypes, BufTypes
<1>2. Len(buf["feeder"]) \in Nat /\ Len(forms) \in Nat /\ DOMAIN forms = 1 .. Len(forms)
  BY <1>1
<1>3. Len(fate) + Len(buf["feeder"]) = next["feeder"] /\ next["feeder"] <= Len(forms)
  BY DEF FeederInv
<1>4. Len(fate) <= Len(forms)
  BY <1>1, <1>2, <1>3
<1>5. QED
  BY <1>1, <1>2, <1>4

LEMMA KeptFacts ==
    ASSUME Types, FormsInv, FeederInv
    PROVE  Kept \subseteq Positions /\ Err \notin Kept /\ \A s \in Kept : s \in Nat /\ s \in 1 .. Length
<1>1. \A i \in DOMAIN fate : forms[i] \in Positions /\ forms[i] \in 1 .. Length
  BY FormsRise, FateFacts
<1>2. QED
  BY <1>1, ErrFacts DEF Kept

LEMMA ExpandSame ==
    ASSUME ExpandInv, forms' = forms, fate' = fate, expanded' = expanded,
           next'["feeder"] = next["feeder"], closed'["feeder"] = closed["feeder"],
           \A c \in {"feeder", "expander"} : buf'[c] = buf[c],
           \A g \in {"feeder", "expander", "caller"} : pc'[g] = pc[g],
           hand'["expander"] = hand["expander"]
    PROVE  ExpandInv'
<1>1. PICK d \in Nat : ExpanderFlow(d)
  BY DEF ExpandInv
<1>2. FeederInv'
  BY DEF ExpandInv, FeederInv
<1>3. Throws' <=> Throws
  BY DEF Throws
<1>4. Expanding' <=> Expanding
  BY DEF Expanding
<1>5. FateInv'
  BY <1>3, <1>4 DEF ExpandInv, FateInv
<1>6. Kept' = Kept
  BY DEF Kept
<1>7. InHand("expander")' = InHand("expander")
  BY DEF InHand
<1>8. ExpanderFlow(d)'
  BY <1>1, <1>3, <1>6, <1>7 DEF ExpanderFlow
<1>9. QED
  BY <1>2, <1>5, <1>8 DEF ExpandInv

LEMMA CollectFormsExpand ==
    ASSUME Types, FormsInv, ExpandInv, CollectForms
    PROVE  ExpandInv'
<1>1. /\ UNCHANGED <<file, closed, hand, next, stack, odd, expanded, fate>>
      /\ pc["caller"] = "receive"
      /\ \A d \in Channels \ {"drainer"} : buf'[d] = buf[d]
      /\ \/ /\ forms' = forms
            /\ pc'["caller"] = "collect" /\ pc'["feeder"] = "run" /\ pc'["expander"] = "receive"
         \/ /\ forms' = forms /\ pc'["caller"] = "parse failed"
            /\ pc'["feeder"] = pc["feeder"] /\ pc'["expander"] = pc["expander"]
         \/ /\ Received("drainer") \in 1 .. Length /\ pc' = pc
            /\ forms' = Append(forms, Received("drainer"))
  BY CollectFormsDoes DEF ExpandInv
<1>2. /\ pc["feeder"] = "idle" /\ pc["expander"] = "idle"
      /\ next["feeder"] = 0 /\ buf["feeder"] = << >> /\ buf["expander"] = << >>
      /\ fate = << >> /\ expanded = << >>
  BY <1>1 DEF ExpandInv, FeederInv
<1>3. ~closed["feeder"]
  BY <1>2, Names DEF Types, PcTypes
<1>4. /\ next'["feeder"] = 0 /\ buf'["feeder"] = << >> /\ buf'["expander"] = << >>
      /\ fate' = << >> /\ expanded' = << >> /\ ~closed'["feeder"]
  BY <1>1, <1>2, <1>3, Names
<1>5. Len(forms') \in Nat
  <2>1. forms \in Seq(1 .. Length)
    BY DEF Types, DataTypes
  <2>2. \A v \in 1 .. Length : Append(forms, v) \in Seq(1 .. Length)
    BY <2>1, SeqFacts
  <2>3. forms' \in Seq(1 .. Length)
    BY <1>1, <2>1, <2>2
  <2>4. QED
    BY <2>3
<1>6. ~Throws' /\ Len(fate') = 0 /\ DOMAIN fate' = {} /\ DOMAIN buf'["feeder"] = {} /\ Len(buf'["feeder"]) = 0
  BY <1>4 DEF Throws
<1>7. Kept' = {}
  BY <1>6 DEF Kept
<1>8. \/ pc'["caller"] = "collect" /\ pc'["feeder"] = "run" /\ pc'["expander"] = "receive"
      \/ pc'["caller"] \in {"receive", "parse failed"} /\ pc'["feeder"] = "idle" /\ pc'["expander"] = "idle"
  BY <1>1, <1>2
<1>9. FeederInv'
  <2>1. next'["feeder"] <= Len(forms')
    BY <1>4, <1>5
  <2>2. Len(fate') + Len(buf'["feeder"]) = next'["feeder"]
    BY <1>4, <1>6
  <2>3. \A i \in DOMAIN buf'["feeder"] : buf'["feeder"][i] = forms'[Len(fate') + i]
    BY <1>6
  <2>4. pc'["caller"] \in {"receive", "parse failed"} => pc'["feeder"] = "idle" /\ pc'["expander"] = "idle"
    BY <1>8
  <2>5. pc'["caller"] \notin {"receive", "parse failed"} => pc'["feeder"] # "idle" /\ pc'["expander"] # "idle"
    BY <1>8
  <2>6. QED
    BY <1>4, <2>1, <2>2, <2>3, <2>4, <2>5, Zenon DEF FeederInv
<1>10. FateInv'
  BY <1>6, <1>8 DEF FateInv
<1>11. ExpanderFlow(0)'
  <2>1. Flow(<< >>, {}, {}, 0) /\ Lists(<< >>, {}) /\ ~HasErr(<< >>)
    BY DEF Flow, Lists, HasErr
  <2>2. ASSUME pc'["caller"] = "collect"
        PROVE  /\ Flow(buf'["expander"], Kept', InHand("expander")', 0)
               /\ ~HasErr(buf'["expander"]) /\ pc'["expander"] = "receive"
               /\ Lists(expanded', {s \in Kept' : s <= 0})
    <3>1. pc'["expander"] = "receive"
      BY <1>8, <2>2
    <3>2. InHand("expander")' = {} /\ {s \in Kept' : s <= 0} = {}
      BY <1>7, <3>1, InHandFacts
    <3>3. QED
      BY <1>4, <1>7, <2>1, <3>1, <3>2
  <2>3. pc'["caller"] \notin {"done", "expand failed"}
    BY <1>8
  <2>4. QED
    BY <2>2, <2>3 DEF ExpanderFlow
<1>12. QED
  BY <1>9, <1>10, <1>11 DEF ExpandInv

\* The feeder sends the next form, or closes its channel.
LEMMA FeedExpand ==
    ASSUME Types, FormsInv, ExpandInv, Feed
    PROVE  ExpandInv'
<1> DEFINE g == "feeder"
<1>1. /\ Only(g, g)
      /\ UNCHANGED <<file, hand, stack, odd, forms, expanded, fate>>
      /\ pc[g] = "run"
      /\ \/ /\ next[g] < Len(forms) /\ pc' = pc /\ closed' = closed
            /\ buf'[g] = Append(buf[g], forms[next[g] + 1])
            /\ next'[g] = next[g] + 1
         \/ /\ ~(next[g] < Len(forms)) /\ buf' = buf /\ next' = next
            /\ pc'[g] = "end"
  BY FeedDoes
<1>2. /\ pc'["caller"] = pc["caller"] /\ pc'["expander"] = pc["expander"]
      /\ buf'["expander"] = buf["expander"]
  BY <1>1, Names DEF Only
<1>3. pc["caller"] \notin {"receive", "parse failed"} /\ ~closed[g]
  BY <1>1, Names DEF ExpandInv, FeederInv, Types, PcTypes
<1>4. /\ next[g] \in Nat /\ Len(forms) \in Nat /\ Len(fate) \in Nat /\ buf[g] \in Seq(Nat)
      /\ Len(buf[g]) \in Nat
  BY FateFacts DEF ExpandInv
<1>5. /\ next[g] <= Len(forms)
      /\ Len(fate) + Len(buf[g]) = next[g]
      /\ \A i \in DOMAIN buf[g] : buf[g][i] = forms[Len(fate) + i]
  BY DEF ExpandInv, FeederInv
<1>6. FeederInv'
  <2>1. CASE /\ next[g] < Len(forms) /\ pc' = pc /\ closed' = closed
             /\ buf'[g] = Append(buf[g], forms[next[g] + 1])
             /\ next'[g] = next[g] + 1
    <3>1. PICK v, q, n : v = forms[next[g] + 1] /\ q = buf[g] /\ n = Len(fate)
      OBVIOUS
    <3>2. v \in Nat
      <4>1. next[g] + 1 \in DOMAIN forms
        BY <1>4, <2>1, FormsRise
      <4>2. QED
        BY <3>1, <4>1, FormsRise
    <3>3. next[g] + 1 = n + Len(q) + 1 /\ q \in Seq(Nat) /\ Len(q) \in Nat /\ n \in Nat
      BY <1>4, <1>5, <3>1
    <3>4. v = forms[n + Len(q) + 1] /\ \A i \in DOMAIN q : q[i] = forms[n + i]
      BY <1>5, <3>1, <3>3
    <3>5. /\ Len(Append(q, v)) = Len(q) + 1
          /\ \A i \in DOMAIN Append(q, v) : Append(q, v)[i] = forms[n + i]
      <4>1. PICK f : f = forms
        OBVIOUS
      <4>2. v = f[n + Len(q) + 1] /\ FormsBehind(q, f, n)
        BY <3>4, <4>1, Zenon DEF FormsBehind
      <4>3. q \in Seq(Nat) /\ n \in Nat /\ v \in Nat
        BY <3>2, <3>3
      <4>4. Len(Append(q, v)) = Len(q) + 1 /\ FormsBehind(Append(q, v), f, n)
        BY <4>2, <4>3, AppendBehind
      <4>5. QED
        BY <4>1, <4>4, Zenon DEF FormsBehind
    <3>6. n + Len(Append(q, v)) = next[g] + 1 /\ next[g] + 1 <= Len(forms)
      BY <1>4, <2>1, <3>3, <3>5
    <3>7. buf'[g] = Append(q, v)
      BY <2>1, <3>1
    <3>8. /\ Len(fate') + Len(buf'[g]) = next'[g] /\ next'[g] <= Len(forms')
          /\ \A i \in DOMAIN buf'[g] : buf'[g][i] = forms'[Len(fate') + i]
      BY <1>1, <2>1, <3>1, <3>5, <3>6, <3>7, Zenon
    <3>9. pc'[g] # "idle" /\ pc'["expander"] # "idle" /\ pc'["caller"] \notin {"receive", "parse failed"}
      BY <1>1, <1>2, <1>3, <2>1 DEF ExpandInv, FeederInv
    <3>10. ~closed'[g]
      BY <1>3, <2>1
    <3>11. QED
      BY <3>8, <3>9, <3>10, Zenon DEF FeederInv
  <2>2. CASE ~(next[g] < Len(forms)) /\ buf' = buf /\ next' = next /\ pc'[g] = "end"
    <3>1. next[g] = Len(forms)
      BY <1>4, <1>5, <2>2
    <3>2. pc["expander"] # "idle"
      BY <1>3 DEF ExpandInv, FeederInv
    <3>3. QED
      BY <1>1, <1>2, <1>3, <1>5, <2>2, <3>1, <3>2 DEF FeederInv
  <2>3. QED
    BY <1>1, <2>1, <2>2
<1>7. (Throws' <=> Throws) /\ (Expanding' <=> Expanding) /\ Kept' = Kept /\ InHand("expander")' = InHand("expander")
  BY <1>1, <1>2 DEF Throws, Expanding, Kept, InHand
<1>8. FateInv'
  BY <1>1, <1>2, <1>7 DEF ExpandInv, FateInv
<1>9. PICK d \in Nat : ExpanderFlow(d)
  BY DEF ExpandInv
<1>10. ExpanderFlow(d)'
  BY <1>1, <1>2, <1>7, <1>9 DEF ExpanderFlow
<1>11. QED
  BY <1>6, <1>8, <1>10 DEF ExpandInv

\* A fate more: what is kept, and whether expansion throws.
LEMMA FateAppend ==
    ASSUME Types, FormsInv, FeederInv, ~Throws, forms' = forms,
           NEW f \in {"kept", "macro", "throws"}, fate' = Append(fate, f),
           NEW v, v = forms[Len(fate) + 1], Len(fate) < Len(forms)
    PROVE  /\ Len(fate') = Len(fate) + 1
           /\ v \in Positions \ Kept /\ (\A s \in Kept : s < v)
           /\ Kept' = IF f = "kept" THEN Kept \cup {v} ELSE Kept
           /\ Throws' <=> f = "throws"
           /\ fate'[Len(fate')] = f
           /\ \A i \in DOMAIN fate' : fate'[i] = "throws" => i = Len(fate')
<1> DEFINE n == Len(fate)
<1>1. n \in Nat /\ DOMAIN fate = 1 .. n /\ DOMAIN fate \subseteq DOMAIN forms
  BY FateFacts
<1>2. /\ Len(fate') = n + 1 /\ DOMAIN fate' = 1 .. n + 1 /\ fate'[n + 1] = f
      /\ \A i \in DOMAIN fate : fate'[i] = fate[i]
  BY FateFacts
<1>3. DOMAIN fate' = DOMAIN fate \cup {n + 1} /\ n + 1 \notin DOMAIN fate
  BY <1>1, <1>2
<1>4. n + 1 \in DOMAIN forms
  BY <1>1, FormsRise
<1> HIDE DEF n
<1>5. v \in Positions /\ v \in Nat /\ \A i \in DOMAIN fate : forms[i] < v /\ forms[i] \in Nat
  <2>1. \A i \in DOMAIN fate : i < n + 1 /\ i \in DOMAIN forms
    BY <1>1
  <2>2. v = forms[n + 1]
    BY DEF n
  <2>3. QED
    BY <1>4, <2>1, <2>2, FormsRise
<1>6. \A s \in Kept : s < v
  BY <1>5 DEF Kept
<1>7. v \notin Kept
  BY <1>5, <1>6
<1>8. Kept' = IF f = "kept" THEN Kept \cup {v} ELSE Kept
  <2>1. {i \in DOMAIN fate' : fate'[i] = "kept"}
          = {i \in DOMAIN fate : fate[i] = "kept"} \cup (IF f = "kept" THEN {n + 1} ELSE {})
    BY <1>2, <1>3
  <2>2. Kept' = {forms[i] : i \in {j \in DOMAIN fate' : fate'[j] = "kept"}}
    BY DEF Kept
  <2>3. v = forms[n + 1]
    BY DEF n
  <2>4. QED
    BY <2>1, <2>2, <2>3 DEF Kept
<1>9. Throws' <=> f = "throws"
  BY <1>2, <1>3 DEF Throws
<1>10. \A i \in DOMAIN fate' : fate'[i] = "throws" => i = n + 1
  BY <1>2, <1>3 DEF Throws
<1>11. QED
  BY <1>2, <1>5, <1>6, <1>7, <1>8, <1>9, <1>10 DEF n

\* The expander takes a form, and finds its fate.
LEMMA ExpanderTakes ==
    ASSUME Types, FormsInv, ExpandInv, forms' = forms, expanded' = expanded,
           next' = next, closed' = closed,
           Only("expander", "feeder"), pc["expander"] = "receive",
           buf["feeder"] # << >>, buf'["feeder"] = Tail(buf["feeder"]),
           NEW f \in {"kept", "macro", "throws"}, fate' = Append(fate, f),
           NEW v, v = Head(buf["feeder"]),
           hand'["expander"] = IF f = "throws" THEN Err ELSE v,
           pc'["expander"] = IF f = "macro" THEN "receive" ELSE "send"
    PROVE  ExpandInv'
<1>1. FeederInv /\ FateInv /\ Expanding /\ ~Throws
  BY DEF ExpandInv, FateInv, Expanding
<1>2. PICK d \in Nat : ExpanderFlow(d)
  BY DEF ExpandInv
<1>3. PICK q, n : q = buf["feeder"] /\ n = Len(fate)
  OBVIOUS
<1>4. /\ q \in Seq(Nat) /\ Len(q) \in Nat /\ n \in Nat /\ q # << >> /\ Len(forms) \in Nat
      /\ n + Len(q) = next["feeder"] /\ next["feeder"] <= Len(forms)
      /\ \A i \in DOMAIN q : q[i] = forms[n + i]
  BY <1>1, <1>3, FateFacts DEF FeederInv
<1>5. /\ v = forms[n + 1] /\ Len(Tail(q)) = Len(q) - 1 /\ Len(q) >= 1
      /\ \A i \in DOMAIN Tail(q) : Tail(q)[i] = forms[n + 1 + i]
  <2>1. PICK f0 : f0 = forms
    OBVIOUS
  <2>2. FormsBehind(q, f0, n)
    BY <1>4, <2>1, Zenon DEF FormsBehind
  <2>3. /\ Head(q) = f0[n + 1] /\ Len(Tail(q)) = Len(q) - 1 /\ Len(q) >= 1
        /\ FormsBehind(Tail(q), f0, n + 1)
    BY <1>4, <2>2, TailBehind
  <2>4. v = Head(q)
    BY <1>3
  <2>5. QED
    BY <2>1, <2>3, <2>4, Zenon DEF FormsBehind
<1>6. v = forms[n + 1] /\ n < Len(forms)
  BY <1>4, <1>5
<1>7. /\ Len(fate') = n + 1
      /\ v \in Positions \ Kept /\ (\A s \in Kept : s < v)
      /\ Kept' = IF f = "kept" THEN Kept \cup {v} ELSE Kept
      /\ Throws' <=> f = "throws"
      /\ fate'[Len(fate')] = f
      /\ \A i \in DOMAIN fate' : fate'[i] = "throws" => i = Len(fate')
  BY <1>1, <1>3, <1>6, FateAppend
<1>8. /\ pc'["caller"] = pc["caller"] /\ pc'["feeder"] = pc["feeder"]
      /\ buf'["expander"] = buf["expander"]
  BY Names DEF Only
<1>9. /\ pc["caller"] \notin {"receive", "parse failed"} /\ pc["feeder"] # "idle"
      /\ (closed["feeder"] => next["feeder"] = Len(forms))
  BY <1>1 DEF FeederInv
<1>10. FeederInv'
  <2>1. /\ Len(fate') + Len(buf'["feeder"]) = next'["feeder"]
    <3>1. n + 1 + Len(Tail(q)) = n + Len(q)
      BY <1>4, <1>5
    <3>2. QED
      BY <1>3, <1>4, <1>7, <3>1
  <2>2. \A i \in DOMAIN buf'["feeder"] : buf'["feeder"][i] = forms'[Len(fate') + i]
    BY <1>3, <1>5, <1>7, Zenon
  <2>3. next'["feeder"] <= Len(forms')
    BY <1>4
  <2>4. pc'["expander"] # "idle"
    OBVIOUS
  <2>5. QED
    BY <1>8, <1>9, <2>1, <2>2, <2>3, <2>4, Zenon DEF FeederInv
<1>11. pc'["expander"] = "send" => (Expanding' <=> f # "throws") /\ (Expanding' => hand'["expander"] = v)
  BY <1>7, ErrFacts DEF Expanding
<1>12. FateInv'
  <2>1. Expanding' => ~Throws'
    BY <1>7, <1>11 DEF Expanding
  <2>2. pc'["expander"] = "send" /\ ~Expanding' => Throws'
    BY <1>7, <1>11
  <2>3. pc'["expander"] = "send" /\ Expanding' =>
            Len(fate') > 0 /\ fate'[Len(fate')] = "kept" /\ hand'["expander"] = forms'[Len(fate')]
    BY <1>4, <1>6, <1>7, <1>11
  <2>4. pc'["expander"] \notin {"close", "end"}
    OBVIOUS
  <2>5. QED
    BY <1>7, <2>1, <2>2, <2>3, <2>4, Zenon DEF FateInv
<1>13. ExpanderFlow(d)'
  <2>1. pc'["caller"] \notin {"done", "expand failed"}
    BY <1>2, <1>8 DEF ExpanderFlow
  <2>2. ASSUME pc["caller"] = "collect"
        PROVE  /\ Flow(buf["expander"], Kept', InHand("expander")', d)
               /\ ~HasErr(buf["expander"])
               /\ Lists(expanded, {s \in Kept' : s <= d})
    <3>1. /\ Flow(buf["expander"], Kept, {}, d) /\ ~HasErr(buf["expander"])
          /\ Lists(expanded, {s \in Kept : s <= d}) /\ d \in Kept \cup {0}
      BY <1>2, <2>2, InHandFacts DEF ExpanderFlow, Flow
    <3>2. Kept \subseteq Positions /\ Err \notin Kept /\ \A s \in Kept : s \in Nat
      BY <1>1, KeptFacts
    <3>3. CASE f = "kept"
      <4>1. InHand("expander")' = {v} /\ Kept' = Kept \cup {v}
        BY <1>7, <3>3, InHandFacts
      <4>2. Flow(buf["expander"], Kept \cup {v}, {v}, d)
        <5>1. PICK b, K : b = buf["expander"] /\ K = Kept
          OBVIOUS
        <5>2. Flow(b, K, {}, d) /\ K \subseteq Positions
          BY <3>1, <3>2, <5>1
        <5>3. v \in Positions \ K /\ \A s \in K : s < v
          BY <1>7, <5>1
        <5>4. Flow(b, K \cup {v}, {v}, d)
          BY <5>2, <5>3, FlowHand
        <5>5. QED
          BY <5>1, <5>4
      <4>3. ~(v <= d)
        BY <1>7, <3>1, <3>2, ErrFacts
      <4>4. {s \in Kept \cup {v} : s <= d} = {s \in Kept : s <= d}
        BY <4>3
      <4>5. QED
        BY <3>1, <4>1, <4>2, <4>4
    <3>4. CASE f = "macro"
      <4>1. InHand("expander")' = {} /\ Kept' = Kept
        BY <1>7, <3>4, InHandFacts
      <4>2. QED
        BY <3>1, <4>1
    <3>5. CASE f = "throws"
      <4>1. InHand("expander")' = {Err} /\ Kept' = Kept
        BY <1>7, <3>5, InHandFacts
      <4>2. Flow(buf["expander"], Kept, {Err}, d)
        BY <3>1, <3>2, FlowHands
      <4>3. QED
        BY <3>1, <4>1, <4>2
    <3>6. QED
      BY <3>3, <3>4, <3>5
  <2>3. pc'["expander"] \notin {"close", "end"}
    OBVIOUS
  <2>4. QED
    BY <1>8, <2>1, <2>2, <2>3 DEF ExpanderFlow
<1>14. QED
  BY <1>10, <1>12, <1>13 DEF ExpandInv

\* The expander meets the end of the forms.
LEMMA ExpanderEnds ==
    ASSUME Types, ExpandInv, forms' = forms, expanded' = expanded, fate' = fate,
           next' = next, closed' = closed, Only("expander", "feeder"),
           pc["expander"] = "receive", pc'["expander"] = "close",
           buf["feeder"] = << >>, closed["feeder"], buf'["feeder"] = << >>
    PROVE  ExpandInv'
<1>1. FeederInv /\ FateInv /\ Expanding /\ ~Throws
  BY DEF ExpandInv, FateInv, Expanding
<1>2. PICK d \in Nat : ExpanderFlow(d)
  BY DEF ExpandInv
<1>3. /\ pc'["caller"] = pc["caller"] /\ pc'["feeder"] = pc["feeder"]
      /\ buf'["expander"] = buf["expander"]
  BY Names DEF Only
<1>4. FeederInv'
  BY <1>1, <1>3 DEF FeederInv
<1>5. Len(fate) = Len(forms)
  <2>1. /\ Len(fate) \in Nat /\ next["feeder"] = Len(forms) /\ Len(buf["feeder"]) = 0
        /\ Len(fate) + Len(buf["feeder"]) = next["feeder"]
    BY <1>1, FateFacts DEF FeederInv
  <2>2. QED
    BY <2>1
<1>6. Throws' <=> Throws
  BY DEF Throws
<1>7. FateInv'
  BY <1>1, <1>5, <1>6 DEF FateInv, Expanding
<1>8. Kept' = Kept
  BY DEF Kept
<1>9. InHand("expander") = {} /\ InHand("expander")' = {}
  BY InHandFacts
<1>10. ExpanderFlow(d)'
  BY <1>1, <1>2, <1>3, <1>6, <1>8, <1>9 DEF ExpanderFlow
<1>11. QED
  BY <1>4, <1>7, <1>10 DEF ExpandInv

\* The expander sends what it has in hand.
LEMMA ExpanderSends ==
    ASSUME Types, FormsInv, ExpandInv, forms' = forms, expanded' = expanded, fate' = fate,
           next' = next, closed' = closed, hand' = hand, Only("expander", "expander"),
           pc["expander"] = "send",
           pc'["expander"] = IF hand["expander"] = Err THEN "close" ELSE "receive",
           buf'["expander"] = Append(buf["expander"], hand["expander"])
    PROVE  ExpandInv'
<1>1. FeederInv /\ FateInv
  BY DEF ExpandInv
<1>2. PICK d \in Nat : ExpanderFlow(d)
  BY DEF ExpandInv
<1>3. /\ pc'["caller"] = pc["caller"] /\ pc'["feeder"] = pc["feeder"]
      /\ buf'["feeder"] = buf["feeder"]
  BY Names DEF Only
<1>4. FeederInv'
  BY <1>1, <1>3 DEF FeederInv
<1>5. Throws' <=> Throws
  BY DEF Throws
<1>6. Kept' = Kept /\ Kept \subseteq Positions /\ Err \notin Kept
  BY <1>1, KeptFacts DEF Kept
<1>7. PICK v, q, K : v = hand["expander"] /\ q = buf["expander"] /\ K = Kept
  OBVIOUS
<1>8. q \in Seq(Nat) /\ K \subseteq Positions /\ Err \notin K
  BY <1>6, <1>7, Names DEF Types, BufTypes
<1>9. /\ InHand("expander") = {v} /\ InHand("expander")' = {}
      /\ buf'["expander"] = Append(q, v)
  BY <1>7, InHandFacts
<1>10. pc["caller"] \notin {"done", "expand failed"}
  BY <1>2 DEF ExpanderFlow
<1>11. ASSUME pc["caller"] = "collect"
       PROVE  Flow(q, K, {v}, d) /\ ~HasErr(q) /\ Lists(expanded, {s \in K : s <= d})
  BY <1>2, <1>7, <1>9, <1>11 DEF ExpanderFlow
<1>12. CASE v = Err
  <2>1. ~Expanding /\ Throws /\ pc'["expander"] = "close"
    BY <1>1, <1>7, <1>12 DEF Expanding, FateInv
  <2>2. FateInv'
    BY <1>1, <1>5, <2>1 DEF FateInv, Expanding
  <2>3. ASSUME pc["caller"] = "collect"
        PROVE  Flow(Append(q, v), K, {}, d) /\ HasErr(Append(q, v))
    <3>1. {v} \cap K = {}
      BY <1>8, <1>12
    <3>2. QED
      BY <1>8, <1>11, <1>12, <2>3, <3>1, FlowErr
  <2>4. ExpanderFlow(d)'
    BY <1>3, <1>5, <1>6, <1>7, <1>9, <1>10, <1>11, <2>1, <2>3 DEF ExpanderFlow
  <2>5. QED
    BY <1>4, <2>2, <2>4 DEF ExpandInv
<1>13. CASE v # Err
  <2>1. Expanding /\ ~Throws /\ pc'["expander"] = "receive"
    BY <1>1, <1>7, <1>13 DEF Expanding, FateInv
  <2>2. FateInv'
    BY <1>1, <1>5, <2>1 DEF FateInv, Expanding
  <2>3. v \in K
    <3>1. Len(fate) > 0 /\ fate[Len(fate)] = "kept" /\ v = forms[Len(fate)]
      BY <1>1, <1>7, <2>1 DEF FateInv
    <3>2. Len(fate) \in DOMAIN fate
      BY <1>1, <3>1, FateFacts
    <3>3. QED
      BY <1>7, <3>1, <3>2 DEF Kept
  <2>4. ASSUME pc["caller"] = "collect"
        PROVE  Flow(Append(q, v), K, {}, d) /\ ~HasErr(Append(q, v))
    BY <1>8, <1>11, <2>3, <2>4, FlowPut
  <2>5. ExpanderFlow(d)'
    BY <1>3, <1>6, <1>7, <1>9, <1>10, <1>11, <2>1, <2>4 DEF ExpanderFlow
  <2>6. QED
    BY <1>4, <2>2, <2>5 DEF ExpandInv
<1>14. QED
  BY <1>12, <1>13

\* The expander closes its channel.
LEMMA ExpanderCloses ==
    ASSUME ExpandInv, forms' = forms, expanded' = expanded, fate' = fate,
           next' = next, Only("expander", "expander"), buf' = buf,
           pc["expander"] = "close", pc'["expander"] = "end"
    PROVE  ExpandInv'
<1>1. FeederInv /\ FateInv
  BY DEF ExpandInv
<1>2. PICK d \in Nat : ExpanderFlow(d)
  BY DEF ExpandInv
<1>3. /\ pc'["caller"] = pc["caller"] /\ pc'["feeder"] = pc["feeder"]
      /\ closed'["feeder"] = closed["feeder"]
  BY Names DEF Only
<1>4. FeederInv'
  BY <1>1, <1>3 DEF FeederInv
<1>5. Throws' <=> Throws
  BY DEF Throws
<1>6. FateInv'
  BY <1>1, <1>5 DEF FateInv, Expanding
<1>7. Kept' = Kept
  BY DEF Kept
<1>8. InHand("expander") = {} /\ InHand("expander")' = {}
  BY InHandFacts
<1>9. ExpanderFlow(d)'
  BY <1>2, <1>3, <1>5, <1>7, <1>8 DEF ExpanderFlow
<1>10. QED
  BY <1>4, <1>6, <1>9 DEF ExpandInv

LEMMA ExpandExpand ==
    ASSUME Types, FormsInv, ExpandInv, Expand
    PROVE  ExpandInv'
<1> DEFINE q == buf["feeder"]
<1>1. /\ UNCHANGED <<file, next, stack, odd, forms, expanded>>
      /\ \/ /\ Only("expander", "feeder") /\ closed' = closed
            /\ pc["expander"] = "receive" /\ CanReceive("feeder")
            /\ buf'["feeder"] = IF q = << >> THEN << >> ELSE Tail(q)
            /\ \/ Received("feeder") = End /\ pc'["expander"] = "close" /\ fate' = fate
               \/ /\ Received("feeder") # End
                  /\ \E f \in {"kept", "macro", "throws"} :
                       /\ fate' = Append(fate, f)
                       /\ hand'["expander"] = IF f = "throws" THEN Err ELSE Received("feeder")
                       /\ pc'["expander"] = IF f = "macro" THEN "receive" ELSE "send"
         \/ /\ Only("expander", "expander") /\ closed' = closed /\ hand' = hand /\ fate' = fate
            /\ pc["expander"] = "send" /\ hand["expander"] \in 0 .. Length
            /\ pc'["expander"] = IF hand["expander"] = Err THEN "close" ELSE "receive"
            /\ buf'["expander"] = Append(buf["expander"], hand["expander"])
         \/ /\ Only("expander", "expander") /\ hand' = hand /\ buf' = buf /\ fate' = fate
            /\ pc["expander"] = "close" /\ pc'["expander"] = "end"
  BY ExpandDoes
<1>2. CASE /\ Only("expander", "feeder") /\ closed' = closed
           /\ pc["expander"] = "receive" /\ CanReceive("feeder")
           /\ buf'["feeder"] = IF q = << >> THEN << >> ELSE Tail(q)
           /\ \/ Received("feeder") = End /\ pc'["expander"] = "close" /\ fate' = fate
              \/ /\ Received("feeder") # End
                 /\ \E f \in {"kept", "macro", "throws"} :
                      /\ fate' = Append(fate, f)
                      /\ hand'["expander"] = IF f = "throws" THEN Err ELSE Received("feeder")
                      /\ pc'["expander"] = IF f = "macro" THEN "receive" ELSE "send"
  <2>1. /\ Received("feeder") # End => q # << >> /\ Received("feeder") = Head(q)
        /\ Received("feeder") = End => q = << >>
    BY ReceiveFacts, Names
  <2>2. CASE Received("feeder") = End
    <3>1. q = << >> /\ closed["feeder"] /\ buf'["feeder"] = << >>
      BY <1>2, <2>1, <2>2 DEF CanReceive
    <3>2. QED
      BY <1>1, <1>2, <2>2, <3>1, ExpanderEnds
  <2>3. CASE Received("feeder") # End
    <3>1. PICK f \in {"kept", "macro", "throws"} :
              /\ fate' = Append(fate, f)
              /\ hand'["expander"] = IF f = "throws" THEN Err ELSE Received("feeder")
              /\ pc'["expander"] = IF f = "macro" THEN "receive" ELSE "send"
      BY <1>2, <2>3
    <3>2. PICK v : v = Received("feeder")
      OBVIOUS
    <3>3. q # << >> /\ v = Head(q) /\ buf'["feeder"] = Tail(q)
      BY <1>2, <2>1, <2>3, <3>2
    <3>4. QED
      BY <1>1, <1>2, <3>1, <3>2, <3>3, ExpanderTakes
  <2>4. QED
    BY <2>2, <2>3
<1>3. CASE /\ Only("expander", "expander") /\ closed' = closed /\ hand' = hand /\ fate' = fate
           /\ pc["expander"] = "send" /\ hand["expander"] \in 0 .. Length
           /\ pc'["expander"] = IF hand["expander"] = Err THEN "close" ELSE "receive"
           /\ buf'["expander"] = Append(buf["expander"], hand["expander"])
  BY <1>1, <1>3, ExpanderSends
<1>4. CASE /\ Only("expander", "expander") /\ hand' = hand /\ buf' = buf /\ fate' = fate
           /\ pc["expander"] = "close" /\ pc'["expander"] = "end"
  BY <1>1, <1>4, ExpanderCloses
<1>5. QED
  BY <1>1, <1>2, <1>3, <1>4

\* At the end of the expander's channel, or at its error, the caller has all
\* that expansion keeps.
LEMMA ExpansionEnds ==
    ASSUME Types, FormsInv, FeederInv, NEW d \in Nat, ExpanderFlow(d), pc["caller"] = "collect",
           \/ buf["expander"] = << >> /\ closed["expander"]
           \/ buf["expander"] # << >> /\ Head(buf["expander"]) = Err
    PROVE  /\ Lists(expanded, Kept)
           /\ Throws <=> buf["expander"] # << >>
           /\ pc["expander"] \in {"close", "end"}
<1>1. PICK q, K : q = buf["expander"] /\ K = Kept
  OBVIOUS
<1>2. q \in Seq(Nat) /\ K \subseteq Positions
  BY <1>1, KeptFacts, Names DEF Types, BufTypes
<1>3. /\ Flow(q, K, InHand("expander"), d)
      /\ HasErr(q) <=> (pc["expander"] \in {"close", "end"} /\ Throws)
      /\ Lists(expanded, {s \in K : s <= d})
  BY <1>1 DEF ExpanderFlow
<1>4. q = << >> \/ (q # << >> /\ Head(q) = Err)
  BY <1>1
<1>5. HasErr(q) <=> q # << >>
  BY <1>2, <1>4, ErrOrEnd
<1>6. pc["expander"] \in {"close", "end"}
  <2>1. CASE q = << >>
    BY <1>1, <2>1, Names DEF Types, PcTypes, PlacesOf
  <2>2. CASE q # << >>
    BY <1>3, <1>5, <2>2
  <2>3. QED
    BY <2>1, <2>2
<1>7. InHand("expander") = {}
  BY <1>6, InHandFacts
<1>8. \A s \in K : s <= d
  <2>1. \A s \in K \ {} : s <= d
    BY <1>2, <1>3, <1>4, <1>7, FlowEnd
  <2>2. QED
    BY <2>1
<1>9. Lists(expanded, K)
  BY <1>3, <1>8, ListsAll
<1>10. QED
  BY <1>1, <1>3, <1>5, <1>6, <1>9

LEMMA CollectExpandedExpand ==
    ASSUME Types, FormsInv, ExpandInv, CollectExpanded
    PROVE  ExpandInv'
<1>1. /\ UNCHANGED <<file, closed, hand, next, stack, odd, forms, fate>>
      /\ pc["caller"] = "collect" /\ CanReceive("expander")
      /\ Only("caller", "expander")
      /\ buf'["expander"] = IF buf["expander"] = << >> THEN << >> ELSE Tail(buf["expander"])
      /\ \/ /\ Received("expander") = End /\ expanded' = expanded /\ pc'["caller"] = "done"
         \/ /\ Received("expander") = Err /\ expanded' = expanded
            /\ pc'["caller"] = "expand failed"
         \/ /\ Received("expander") \in 1 .. Length /\ pc' = pc
            /\ expanded' = Append(expanded, Received("expander"))
  BY CollectExpandedDoes
<1>2. FeederInv /\ FateInv
  BY DEF ExpandInv
<1>3. PICK d \in Nat : ExpanderFlow(d)
  BY DEF ExpandInv
<1>4. /\ pc'["feeder"] = pc["feeder"] /\ pc'["expander"] = pc["expander"]
      /\ buf'["feeder"] = buf["feeder"]
  BY <1>1, Names DEF Only
<1>5. pc["caller"] \notin {"receive", "parse failed"} /\ pc["feeder"] # "idle" /\ pc["expander"] # "idle"
  BY <1>1, <1>2 DEF FeederInv
<1>6. pc'["caller"] \notin {"receive", "parse failed"}
  BY <1>1
<1>7. FeederInv'
  BY <1>1, <1>2, <1>4, <1>5, <1>6 DEF FeederInv
<1>8. (Throws' <=> Throws) /\ Kept' = Kept
  BY <1>1 DEF Throws, Kept
<1>9. FateInv'
  BY <1>1, <1>2, <1>4, <1>8 DEF FateInv, Expanding
<1>10. End > Length /\ End # Err /\ End \in Nat /\ Length \in Nat
  BY ItemFacts DEF Types
<1>11. /\ Received("expander") # End =>
             buf["expander"] # << >> /\ Received("expander") = Head(buf["expander"])
       /\ Received("expander") = End => buf["expander"] = << >>
  BY ReceiveFacts, Names
<1>12. /\ Received("expander") = End => Received("expander") \notin 1 .. Length /\ Received("expander") # Err
       /\ Received("expander") = Err => Received("expander") \notin 1 .. Length
  BY <1>10 DEF Err
<1>13. CASE Received("expander") = End
  <2>1. buf["expander"] = << >> /\ closed["expander"] /\ pc'["caller"] = "done" /\ expanded' = expanded
    BY <1>1, <1>11, <1>12, <1>13, Zenon DEF CanReceive
  <2>2. Lists(expanded, Kept) /\ ~Throws /\ pc["expander"] \in {"close", "end"}
    BY <1>1, <1>2, <1>3, <2>1, ExpansionEnds
  <2>3. ExpanderFlow(d)'
    BY <1>4, <1>8, <2>1, <2>2 DEF ExpanderFlow
  <2>4. QED
    BY <1>7, <1>9, <2>3 DEF ExpandInv
<1>14. CASE Received("expander") = Err
  <2>1. buf["expander"] # << >> /\ Head(buf["expander"]) = Err /\ pc'["caller"] = "expand failed" /\ expanded' = expanded
    BY <1>1, <1>11, <1>12, <1>14, Zenon
  <2>2. Lists(expanded, Kept) /\ Throws /\ pc["expander"] \in {"close", "end"}
    BY <1>1, <1>2, <1>3, <2>1, ExpansionEnds
  <2>3. ExpanderFlow(d)'
    BY <1>4, <1>8, <2>1, <2>2 DEF ExpanderFlow
  <2>4. QED
    BY <1>7, <1>9, <2>3 DEF ExpandInv
<1>15. CASE Received("expander") \in 1 .. Length
  <2>1. PICK v, q, K : v = Received("expander") /\ q = buf["expander"] /\ K = Kept
    OBVIOUS
  <2>2. v # End /\ v # Err
    BY <1>10, <1>15, <2>1 DEF Err
  <2>3. /\ q # << >> /\ v = Head(q) /\ buf'["expander"] = Tail(q) /\ q \in Seq(Nat)
        /\ K \subseteq Positions
    BY <1>1, <1>2, <1>11, <2>1, <2>2, KeptFacts, Names DEF Types, BufTypes
  <2>4. pc' = pc /\ expanded' = Append(expanded, v)
    BY <1>1, <1>10, <2>1, <2>2
  <2>5. /\ Flow(q, K, InHand("expander"), d)
        /\ HasErr(q) <=> (pc["expander"] \in {"close", "end"} /\ Throws)
        /\ Lists(expanded, {s \in K : s <= d})
    BY <1>1, <1>3, <2>1 DEF ExpanderFlow
  <2>6. /\ v \in K /\ d < v /\ Flow(Tail(q), K, InHand("expander"), v)
        /\ (HasErr(Tail(q)) <=> HasErr(q)) /\ \A s \in K : d < s => v <= s
    <3>1. Head(q) # Err
      BY <2>2, <2>3
    <3>2. /\ Head(q) \in K /\ d < Head(q) /\ Flow(Tail(q), K, InHand("expander"), Head(q))
          /\ (HasErr(Tail(q)) <=> HasErr(q)) /\ \A s \in K : d < s => Head(q) <= s
      BY <2>3, <2>5, <3>1, FlowTake
    <3>3. QED
      BY <2>3, <3>2, Zenon
  <2>7. Lists(Append(expanded, v), {s \in K : s <= v})
    <3>1. expanded \in Seq(Positions)
      BY GoodFacts, SeqGrows DEF Types, DataTypes
    <3>2. QED
      BY <2>3, <2>5, <2>6, <3>1, Collected
  <2>8. InHand("expander")' = InHand("expander")
    BY <1>1, <2>4 DEF InHand
  <2>9. ExpanderFlow(v)'
    BY <1>1, <1>8, <2>1, <2>3, <2>4, <2>5, <2>6, <2>7, <2>8 DEF ExpanderFlow
  <2>10. v \in Nat
    BY <2>3, <2>6, ErrFacts
  <2>11. QED
    BY <1>7, <1>9, <2>9, <2>10 DEF ExpandInv
<1>16. QED
  BY <1>1, <1>13, <1>14, <1>15
-----------------------------------------------------------------------------
(* Every step preserves the inductive invariant.                           *)

IInv == Types /\ TokensInv /\ ReaderInv /\ FormsInv /\ ExpandInv

\* The goroutines before the parser leave everything else as it is.
LEMMA BeforeParser ==
    ASSUME IInv, Types', TokensInv', Position' = Position,
           UNCHANGED <<file, stack, odd, forms, expanded, fate>>,
           next'["feeder"] = next["feeder"],
           \A c \in {"parser", "drainer", "feeder", "expander"} :
               buf'[c] = buf[c] /\ closed'[c] = closed[c],
           \A g \in {"parser", "drainer", "feeder", "expander", "caller"} :
               pc'[g] = pc[g] /\ hand'[g] = hand[g]
    PROVE  IInv'
<1>1. ReaderInv' /\ ReadNow' = ReadNow
  BY ReaderStays DEF IInv
<1>2. PICK a \in Nat, b \in Nat : ParserFlow(a) /\ DrainerFlow(a, b)
  BY DEF IInv, FormsInv
<1>3. ParserFlow(a)'
  BY <1>1, <1>2, ParserFlowSame
<1>4. FormsInv'
  BY <1>2, <1>3, FormsSame
<1>5. ExpandInv'
  BY ExpandSame DEF IInv
<1>6. QED
  BY <1>1, <1>4, <1>5 DEF IInv

\* Of what Only(g, c) leaves alone.
LEMMA OnlyFacts ==
    ASSUME NEW g, NEW c, Only(g, c)
    PROVE  /\ \A h \in Goroutines : h # g => pc'[h] = pc[h] /\ hand'[h] = hand[h]
           /\ \A d \in Channels : d # c => buf'[d] = buf[d]
           /\ \A d \in Channels : d # g => closed'[d] = closed[d]
BY DEF Only

LEMMA TokenizeStep == ASSUME IInv, Tokenize PROVE IInv'
<1>1. /\ Types' /\ Only("tokenizer", "tokenizer")
      /\ UNCHANGED <<file, hand, stack, odd, forms, expanded, fate>>
      /\ next'["feeder"] = next["feeder"]
  BY TokenizeDoes DEF IInv
<1>2. TokensInv' /\ Position' = Position
  BY TokensTokenize DEF IInv
<1>3. QED
  BY <1>1, <1>2, OnlyFacts, BeforeParser, Names

LEMMA BridgeStep == ASSUME IInv, Bridge PROVE IInv'
<1>1. /\ Types' /\ UNCHANGED <<file, next, stack, odd, forms, expanded, fate>>
      /\ Only("bridge", "tokenizer") \/ Only("bridge", "bridge")
  BY CopyDoes DEF IInv, Bridge
<1>2. TokensInv' /\ Position' = Position
  BY TokensBridge DEF IInv
<1>3. QED
  BY <1>1, <1>2, OnlyFacts, BeforeParser, Names

LEMMA AdapterStep == ASSUME IInv, Adapter PROVE IInv'
<1>1. /\ Types' /\ UNCHANGED <<file, next, stack, odd, forms, expanded, fate>>
      /\ Only("adapter", "bridge") \/ Only("adapter", "adapter")
  BY CopyDoes DEF IInv, Adapter
<1>2. TokensInv' /\ Position' = Position
  BY TokensAdapter DEF IInv
<1>3. QED
  BY <1>1, <1>2, OnlyFacts, BeforeParser, Names

LEMMA ParseStep == ASSUME IInv, Parse PROVE IInv'
<1>1. TokensInv' /\ ReaderInv' /\ FormsInv'
  BY ParsePreserves DEF IInv
<1>2. /\ Types' /\ UNCHANGED <<file, next, forms, expanded, fate>>
      /\ Only("parser", "adapter") \/ Only("parser", "parser")
  BY ParseDoes DEF IInv
<1>3. ExpandInv'
  BY <1>2, OnlyFacts, ExpandSame, Names DEF IInv
<1>4. QED
  BY <1>1, <1>2, <1>3 DEF IInv

LEMMA DrainStep == ASSUME IInv, Drain PROVE IInv'
<1>1. TokensInv' /\ ReaderInv' /\ FormsInv'
  BY DrainPreserves DEF IInv
<1>2. /\ Types' /\ UNCHANGED <<file, next, forms, expanded, fate>>
      /\ Only("parser", "adapter")
  BY DrainDoes DEF IInv
<1>3. ExpandInv'
  BY <1>2, OnlyFacts, ExpandSame, Names DEF IInv
<1>4. QED
  BY <1>1, <1>2, <1>3 DEF IInv

LEMMA DrainASTStep == ASSUME IInv, DrainAST PROVE IInv'
<1>1. TokensInv' /\ ReaderInv' /\ FormsInv'
  BY DrainASTPreserves DEF IInv
<1>2. /\ Types' /\ UNCHANGED <<file, next, forms, expanded, fate>>
      /\ Only("drainer", "parser") \/ Only("drainer", "drainer")
  BY DrainASTDoes DEF IInv
<1>3. ExpandInv'
  BY <1>2, OnlyFacts, ExpandSame, Names DEF IInv
<1>4. QED
  BY <1>1, <1>2, <1>3 DEF IInv

LEMMA CollectFormsStep == ASSUME IInv, CollectForms PROVE IInv'
<1>1. /\ Types' /\ UNCHANGED <<file, closed, hand, next, stack, odd>>
      /\ \A d \in Channels \ {"drainer"} : buf'[d] = buf[d]
      /\ \A g \in Goroutines \ {"caller", "feeder", "expander"} : pc'[g] = pc[g]
  BY CollectFormsDoes DEF IInv, ExpandInv
<1>2. /\ \A c \in {"tokenizer", "bridge", "adapter"} : buf'[c] = buf[c]
      /\ \A g \in {"bridge", "adapter"} : pc'[g] = pc[g]
      /\ pc'["parser"] = pc["parser"]
  BY <1>1, Names
<1>3. TokensInv' /\ Position' = Position
  BY <1>1, <1>2, TokensStay DEF IInv
<1>4. ReaderInv' /\ ReadNow' = ReadNow
  BY <1>1, <1>2, <1>3, ReaderStays DEF IInv
<1>5. FormsInv'
  BY <1>4, CollectFormsFlow DEF IInv, ExpandInv
<1>6. ExpandInv'
  BY CollectFormsExpand DEF IInv
<1>7. QED
  BY <1>1, <1>3, <1>4, <1>5, <1>6 DEF IInv

\* The goroutines behind the drainer leave everything before it as it is.
LEMMA BehindDrainer ==
    ASSUME IInv, UNCHANGED <<file, stack, odd, forms>>,
           next'["tokenizer"] = next["tokenizer"],
           \A c \in {"tokenizer", "bridge", "adapter", "parser", "drainer"} : buf'[c] = buf[c],
           \A c \in {"tokenizer", "bridge"} : closed'[c] = closed[c],
           \A g \in {"bridge", "adapter", "parser", "drainer"} :
               pc'[g] = pc[g] /\ hand'[g] = hand[g],
           \/ pc'["caller"] = pc["caller"]
           \/ pc["caller"] = "collect" /\ pc'["caller"] \in {"done", "expand failed"}
    PROVE  TokensInv' /\ ReaderInv' /\ FormsInv'
<1>1. TokensInv' /\ Position' = Position
  BY TokensStay DEF IInv
<1>2. ReaderInv' /\ ReadNow' = ReadNow
  BY <1>1, ReaderStays DEF IInv
<1>3. PICK a \in Nat, b \in Nat : ParserFlow(a) /\ DrainerFlow(a, b)
  BY DEF IInv, FormsInv
<1>4. ParserFlow(a)'
  BY <1>2, <1>3, ParserFlowSame
<1>5. /\ pc'["caller"] = "receive" <=> pc["caller"] = "receive"
      /\ pc'["caller"] = "parse failed" <=> pc["caller"] = "parse failed"
      /\ Parsed' <=> Parsed
  BY DEF Parsed
<1>6. DrainerFlow(a, b)'
  BY <1>3, <1>5, DrainerFlowSame
<1>7. QED
  BY <1>1, <1>2, <1>4, <1>6 DEF FormsInv

LEMMA FeedStep == ASSUME IInv, Feed PROVE IInv'
<1>1. /\ Types' /\ Only("feeder", "feeder")
      /\ UNCHANGED <<file, stack, odd, forms>>
      /\ next'["tokenizer"] = next["tokenizer"]
  BY FeedDoes DEF IInv
<1>2. TokensInv' /\ ReaderInv' /\ FormsInv'
  <2>1. \A c \in {"tokenizer", "bridge", "adapter", "parser", "drainer"} : buf'[c] = buf[c]
    BY <1>1, OnlyFacts, Names
  <2>2. \A c \in {"tokenizer", "bridge"} : closed'[c] = closed[c]
    BY <1>1, OnlyFacts, Names
  <2>3. \A g \in {"bridge", "adapter", "parser", "drainer"} :
             pc'[g] = pc[g] /\ hand'[g] = hand[g]
    BY <1>1, OnlyFacts, Names
  <2>4. pc'["caller"] = pc["caller"]
    BY <1>1, OnlyFacts, Names
  <2>5. QED
    BY <1>1, <2>1, <2>2, <2>3, <2>4, BehindDrainer
<1>3. ExpandInv'
  BY FeedExpand DEF IInv
<1>4. QED
  BY <1>1, <1>2, <1>3 DEF IInv

LEMMA ExpandStep == ASSUME IInv, Expand PROVE IInv'
<1>1. /\ Types' /\ UNCHANGED <<file, next, stack, odd, forms>>
      /\ Only("expander", "feeder") \/ Only("expander", "expander")
  BY ExpandDoes DEF IInv
<1>2. TokensInv' /\ ReaderInv' /\ FormsInv'
  <2>1. \A c \in {"tokenizer", "bridge", "adapter", "parser", "drainer"} : buf'[c] = buf[c]
    BY <1>1, OnlyFacts, Names
  <2>2. \A c \in {"tokenizer", "bridge"} : closed'[c] = closed[c]
    BY <1>1, OnlyFacts, Names
  <2>3. \A g \in {"bridge", "adapter", "parser", "drainer"} :
             pc'[g] = pc[g] /\ hand'[g] = hand[g]
    BY <1>1, OnlyFacts, Names
  <2>4. pc'["caller"] = pc["caller"]
    BY <1>1, OnlyFacts, Names
  <2>5. QED
    BY <1>1, <2>1, <2>2, <2>3, <2>4, BehindDrainer
<1>3. ExpandInv'
  BY ExpandExpand DEF IInv
<1>4. QED
  BY <1>1, <1>2, <1>3 DEF IInv

LEMMA CollectExpandedStep == ASSUME IInv, CollectExpanded PROVE IInv'
<1>1. /\ Types' /\ UNCHANGED <<file, closed, next, stack, odd, forms>>
      /\ Only("caller", "expander") /\ pc["caller"] = "collect"
      /\ pc'["caller"] \in {"collect", "done", "expand failed"}
  BY CollectExpandedDoes DEF IInv
<1>2. TokensInv' /\ ReaderInv' /\ FormsInv'
  <2>0. Only("caller", "expander")
    BY <1>1
  <2>1. \A c \in {"tokenizer", "bridge", "adapter", "parser", "drainer"} : buf'[c] = buf[c]
    BY <2>0, OnlyFacts, Names
  <2>2. \A c \in {"tokenizer", "bridge"} : closed'[c] = closed[c]
    BY <2>0, OnlyFacts, Names
  <2>3. \A g \in {"bridge", "adapter", "parser", "drainer"} :
             pc'[g] = pc[g] /\ hand'[g] = hand[g]
    BY <2>0, OnlyFacts, Names
  <2>4. \/ pc'["caller"] = pc["caller"]
        \/ pc["caller"] = "collect" /\ pc'["caller"] \in {"done", "expand failed"}
    BY <1>1
  <2>5. QED
    BY <1>1, <2>1, <2>2, <2>3, <2>4, BehindDrainer
<1>3. ExpandInv'
  BY CollectExpandedExpand DEF IInv
<1>4. QED
  BY <1>1, <1>2, <1>3 DEF IInv

LEMMA ListsWhole ==
    ASSUME NEW r \in Seq(Positions), NEW T, T \subseteq Positions, Lists(r, T)
    PROVE  Begins(r, T) /\ T \subseteq ToSet(r)
<1>1. \A i \in DOMAIN r : Before(r, i)
  <2> SUFFICES ASSUME NEW i \in DOMAIN r, NEW j \in 1 .. i PROVE r[j] # Err
    BY DEF Before
  <2>1. j \in DOMAIN r
    OBVIOUS
  <2>2. QED
    BY <2>1, ErrFacts
<1>2. \A i, j \in DOMAIN r : i < j => r[i] < r[j]
  BY <1>1 DEF Lists
<1>3. ToSet(r) = T
  BY <1>1 DEF Lists, ToSet
<1>4. QED
  BY <1>2, <1>3 DEF Begins

LEMMA InitIInv == Init => IInv
<1> SUFFICES ASSUME Init PROVE IInv
  OBVIOUS
<1>1. /\ file \in Files /\ stack = << >> /\ odd = {}
      /\ forms = << >> /\ expanded = << >> /\ fate = << >>
      /\ \A c \in Channels : buf[c] = << >> /\ ~closed[c]
      /\ \A g \in Goroutines : hand[g] = Err
      /\ pc["tokenizer"] = "run" /\ pc["feeder"] = "idle" /\ pc["expander"] = "idle"
      /\ \A g \in {"bridge", "adapter", "parser", "drainer", "caller"} : pc[g] = "receive"
      /\ next["tokenizer"] = 0 /\ next["feeder"] = 0
  BY Names DEF Init
<1>2. /\ Length \in Nat /\ Length < Never
      /\ (\A s \in TopForms : s \in Nat /\ s >= 1) /\ Good \subseteq TopForms /\ Depth(0) = 0
      /\ FirstWrong \in Nat /\ FirstWrong >= 1
  BY <1>1, FileFacts, TopFacts, DepthFacts, WrongFacts DEF Good, Never
<1>3. Types
  <2>1. PcTypes
    <3>1. closed \in [Channels -> BOOLEAN] /\ pc \in [Goroutines -> Places]
      BY DEF Init, Places
    <3>2. /\ \A g \in {"bridge", "adapter", "parser", "drainer", "caller"} : "receive" \in PlacesOf(g)
          /\ "run" \in PlacesOf("tokenizer")
          /\ "idle" \in PlacesOf("feeder") /\ "idle" \in PlacesOf("expander")
      BY DEF PlacesOf
    <3>3. \A g \in Goroutines : pc[g] \in PlacesOf(g)
      BY <1>1, <3>2, Names
    <3>4. QED
      BY <1>1, <3>1, <3>3 DEF PcTypes
  <2>2. BufTypes
    <3>1. buf \in [Channels -> Seq(Nat)]
      BY DEF Init
    <3>2. QED
      BY <1>1, <3>1 DEF BufTypes
  <2>3. HandTypes
    <3>1. hand \in [Goroutines -> Nat]
      BY DEF Init, Err
    <3>2. \A g \in Channels : pc[g] # "send"
      BY <1>1, Names
    <3>3. QED
      BY <3>1, <3>2 DEF HandTypes
  <2>4. DataTypes
    <3>1. next \in [{"tokenizer", "feeder"} -> Nat]
      BY DEF Init
    <3>2. QED
      BY <1>1, <3>1 DEF DataTypes
  <2>5. QED
    BY <1>1, <2>1, <2>2, <2>3, <2>4 DEF Types
<1>4. /\ Sending("bridge") = 0 /\ Sending("adapter") = 0
      /\ \A g \in {"parser", "drainer", "expander"} : InHand(g) = {}
  BY <1>1 DEF Sending, InHand
<1>5. FromTokenizer = 0 /\ FromBridge = 0 /\ Position = 0
  <2>1. FromTokenizer = 0
    BY <1>1, Names DEF FromTokenizer
  <2>2. FromBridge = 0
    BY <1>1, <1>4, <2>1, Names DEF FromBridge
  <2>3. QED
    BY <1>1, <1>4, <2>1, <2>2, Names DEF Position
<1>6. TokensInv
  <2>1. Run(<< >>, 0)
    BY DEF Run
  <2>2. QED
    BY <1>1, <1>2, <1>5, <2>1, Names DEF TokensInv
<1>7. ReadForms(0) = {} /\ OpenAt(0) = {}
  <2>1. \A s \in TopForms : EndOf(s) \in Nat /\ s <= EndOf(s)
    BY <1>1, TopFacts
  <2>2. \A s \in TopForms : ~(EndOf(s) <= 0)
    BY <1>2, <2>1
  <2>3. QED
    BY <2>2 DEF ReadForms, OpenAt
<1>8. ReaderInv
  <2>1. StackInv(<< >>, {}, 0)
    BY <1>2, <1>7 DEF StackInv
  <2>2. StackInv(stack, odd, Position)
    BY <1>1, <1>5, <2>1
  <2>3. Reading /\ pc["parser"] # "send"
    BY <1>1 DEF Reading
  <2>4. QED
    BY <2>2, <2>3 DEF ReaderInv
<1>9. Flow(<< >>, {}, {}, 0) /\ Lists(<< >>, {}) /\ ~HasErr(<< >>)
  BY DEF Flow, Lists, HasErr
<1>10. ParserFlow(0)
  <2>1. ReadNow = {}
    BY <1>5, <1>7, <1>1 DEF ReadNow, Reading
  <2>2. \A s \in TopForms : ~(s <= 0)
    BY <1>2
  <2>3. buf["parser"] = << >> /\ pc["parser"] = "receive" /\ pc["drainer"] = "receive"
    BY <1>1, Names
  <2>4. QED
    BY <1>4, <1>9, <2>1, <2>2, <2>3 DEF ParserFlow
<1>11. DrainerFlow(0, 0)
  <2>1. \A s \in Good : ~(s <= 0)
    BY <1>2
  <2>2. {s \in Good : s <= 0} = {} /\ Drained(0) = {}
    BY <1>1, <2>1 DEF Drained, Draining
  <2>3. buf["drainer"] = << >> /\ pc["caller"] = "receive" /\ pc["drainer"] = "receive"
    BY <1>1, Names
  <2>4. QED
    BY <1>1, <1>4, <1>9, <2>2, <2>3 DEF DrainerFlow, Parsed
<1>12. FormsInv
  BY <1>10, <1>11 DEF FormsInv
<1>13. FeederInv
  <2>1. buf["feeder"] = << >> /\ buf["expander"] = << >> /\ ~closed["feeder"]
    BY <1>1, Names
  <2>2. Len(forms) = 0 /\ Len(fate) = 0 /\ Len(buf["feeder"]) = 0 /\ DOMAIN buf["feeder"] = {}
    BY <1>1, <2>1
  <2>3. next["feeder"] <= Len(forms) /\ Len(fate) + Len(buf["feeder"]) = next["feeder"]
    BY <1>1, <2>2
  <2>4. QED
    BY <1>1, <2>1, <2>2, <2>3 DEF FeederInv
<1>14. FateInv
  BY <1>1 DEF FateInv, Expanding, Throws
<1>15. ExpanderFlow(0)
  BY <1>1 DEF ExpanderFlow
<1>16. QED
  BY <1>3, <1>6, <1>8, <1>12, <1>13, <1>14, <1>15 DEF IInv, ExpandInv

LEMMA StutterStep == ASSUME IInv, UNCHANGED vars PROVE IInv'
<1>1. /\ UNCHANGED <<file, closed, hand, next, stack, odd, forms, expanded, fate>>
      /\ buf' = buf /\ pc' = pc
  BY DEF vars
<1>2. TokensInv' /\ Position' = Position
  BY <1>1, TokensStay DEF IInv
<1>3. Types'
  BY <1>1, FileSame DEF IInv, Types, PcTypes, BufTypes, HandTypes, DataTypes, Items
<1>4. QED
  BY <1>1, <1>2, <1>3, BeforeParser

LEMMA NextIInv == IInv /\ [Next]_vars => IInv'
BY TokenizeStep, BridgeStep, AdapterStep, ParseStep, DrainStep, DrainASTStep, CollectFormsStep,
   FeedStep, ExpandStep, CollectExpandedStep, StutterStep DEF Next

LEMMA IInvCorrect == Spec => []IInv
BY InitIInv, NextIInv, PTL DEF Spec

\* Every goroutine stands at a place of its own, a channel is closed by its
\* writer only, at its end, and carries what its receiver expects; what the
\* caller has are positions of the file.
THEOREM TypesCorrect == Spec => []Types
<1>1. IInv => Types
  BY DEF IInv
<1>2. QED
  BY <1>1, IInvCorrect, PTL

\* A part of a list is a beginning of what it is a part of, in order.
LEMMA IInvForms == IInv => FormsRight
<1> SUFFICES ASSUME IInv PROVE FormsRight
  OBVIOUS
<1>1. PICK a \in Nat, b \in Nat : ParserFlow(a) /\ DrainerFlow(a, b)
  BY DEF IInv, FormsInv
<1>2. PICK d \in Nat : ExpanderFlow(d)
  BY DEF IInv, ExpandInv
<1>3. file \in Files /\ forms \in Seq(Positions) /\ Good \subseteq Positions /\ Length \in Nat
  BY FormsRise, ReadFacts, GoodFacts, FileFacts DEF IInv, Types
<1>4. Good = FormsBefore
  BY <1>3, GoodAreBefore
<1>5. Begins(forms, Good) /\ (pc["caller"] # "receive" => Good \subseteq ToSet(forms))
  <2>1. CASE pc["caller"] = "receive"
    BY <1>1, <1>3, <2>1, ListsBegins DEF DrainerFlow
  <2>2. CASE pc["caller"] # "receive"
    BY <1>1, <1>3, <2>2, ListsWhole DEF DrainerFlow
  <2>3. QED
    BY <2>1, <2>2
<1>6. /\ Parsed => WellFormed
      /\ pc["caller"] = "parse failed" => ~WellFormed
  BY <1>1 DEF DrainerFlow
<1>7. Kept \subseteq Positions /\ expanded \in Seq(Positions)
  BY KeptFacts, GoodFacts, SeqGrows DEF IInv, ExpandInv, Types, DataTypes
<1>8. /\ Begins(expanded, Kept)
      /\ pc["caller"] \in {"done", "expand failed"} => Kept \subseteq ToSet(expanded)
  <2>1. CASE pc["caller"] = "collect"
    <3>1. Lists(expanded, {s \in Kept : s <= d})
      BY <1>2, <2>1 DEF ExpanderFlow
    <3>2. Begins(expanded, Kept)
      BY <1>7, <3>1, ListsBegins
    <3>3. QED
      BY <2>1, <3>2
  <2>2. CASE pc["caller"] \in {"done", "expand failed"}
    BY <1>2, <1>7, <2>2, ListsWhole DEF ExpanderFlow
  <2>3. CASE pc["caller"] \in {"receive", "parse failed"}
    <3>1. expanded = << >>
      BY <2>3 DEF IInv, ExpandInv, FeederInv
    <3>2. Begins(<< >>, Kept)
      BY DEF Begins, ToSet
    <3>3. QED
      BY <2>3, <3>1, <3>2
  <2>4. pc["caller"] \in PlacesOf("caller")
    BY Names DEF IInv, Types, PcTypes
  <2>5. QED
    BY <2>1, <2>2, <2>3, <2>4 DEF PlacesOf
<1>9. Throws <=> "throws" \in {fate[i] : i \in DOMAIN fate}
  BY DEF Throws
<1>10. pc["caller"] \in {"done", "expand failed"} =>
          (pc["caller"] = "done" <=> "throws" \notin {fate[i] : i \in DOMAIN fate})
  BY <1>2, <1>9 DEF ExpanderFlow
<1>11. \A i \in DOMAIN fate : fate[i] = "throws" => i = Len(fate)
  BY DEF IInv, ExpandInv, FateInv
<1>12. pc["caller"] = "done" => Len(fate) = Len(forms)
  BY <1>2 DEF ExpanderFlow, IInv, ExpandInv, FateInv
<1>13. QED
  BY <1>4, <1>5, <1>6, <1>8, <1>10, <1>11, <1>12 DEF FormsRight

\* The caller of the front end has, at any time, the beginning of what the
\* file has before its first error, in order; it has all of it when it stops
\* collecting, and stops without an error exactly if the file has none
\* (ParseTokenChannel).  The same of what expansion keeps (expandFLAGForms).
THEOREM FormsRightCorrect == Spec => []FormsRight
BY IInvForms, IInvCorrect, PTL

-----------------------------------------------------------------------------
(* The REPL.                                                               *)

There == declared \cup Declarations(batch) \cup lost

\* The identifier of a variable, and those of a function.
OfVariable(id) == id = Var(id[1])
OfFunction(id) == id = Variadic(id[1]) \/ id = Arity(id[1], id[3])

\* What the interpreter has, or will not get any more, when it comes to s: got,
\* and what the steps before s declare.
Prepared(s, got, steps) == got \cup Declarations({t \in steps : Earlier(t, s)})

\* Why the interpreter has what s refers to, or may not have it; names are the
\* variables the compiler knows.
Accounted(s, id, got, steps, names) ==
    \/ id \in Prepared(s, got, steps) \cup s.declares
    \/ id = Arity(id[1], id[3]) /\ Variadic(id[1]) \in Prepared(s, got, steps)
    \/ OfVariable(id) /\ id \in Declarations(steps) /\ (s.part = 2 \/ id[1] \in Announced)
    \/ OfVariable(id) /\ id[1] \in Announced \ names
    \/ id = Unnamed(id[1]) /\ s.part = 2

SessionTypes ==
    /\ fns \in [Name -> SUBSET Nat]
    /\ globals \subseteq Name
    /\ bodies \in Nat
    /\ \A s \in batch : s.body \in 0 .. bodies - 1

\* The identifiers that are there are those of the variables and functions the
\* compiler knows.
KnownExactly ==
    /\ \A n \in globals : Var(n) \in There
    /\ \A n \in Name : fns[n] # {} => Variadic(n) \in There
    /\ \A id \in There :
         \/ id[1] \in globals /\ OfVariable(id)
         \/ id[1] \in Name /\ fns[id[1]] # {} /\ OfFunction(id)

DeclaredOnce ==
    /\ \A id \in Declarations(batch) \cap declared : id[1] \in DefinedTwice
    /\ \A s, t \in batch : s # t => \A id \in s.declares \cap t.declares : id[1] \in DefinedTwice

\* What a form may use has a variable, or was announced.
BoundToSomething ==
    /\ bound \subseteq globals \cup Announced
    /\ \A f \in loaded : Defined(f) \subseteq globals \cup Announced

NeedsAccounted ==
    \A s \in batch : \A id \in s.needs :
        Accounted(s, id, declared \cup lost, batch, globals)

CallRecord == [call : {"import", "load", "module"}, file : File, at : Nat \ {0}]

\* The modules that are being loaded are not loaded yet, and no two calls load
\* the same; the imports a call has passed are loaded.
ImportsInProgress ==
    /\ calls \in Seq(CallRecord)
    /\ \A i \in DOMAIN calls : calls[i].call = "module" =>
         /\ calls[i].file \notin loaded
         /\ \A j \in DOMAIN calls :
              calls[j].call = "module" /\ j # i => calls[j].file # calls[i].file
         /\ \A j \in DOMAIN Imports[calls[i].file] :
              j < calls[i].at => Imports[calls[i].file][j] \in loaded

SessionInv ==
    /\ SessionTypes
    /\ KnownExactly
    /\ DeclaredOnce
    /\ BoundToSomething
    /\ NeedsAccounted
    /\ ImportsInProgress

-----------------------------------------------------------------------------
(* A compiled body.                                                        *)

\* The identifiers of a name are told apart.
LEMMA Identifiers ==
    ASSUME NEW n, NEW k
    PROVE  /\ Var(n)[1] = n /\ Variadic(n)[1] = n /\ Unnamed(n)[1] = n
           /\ Arity(n, k)[1] = n /\ Arity(n, k)[3] = k
           /\ \A m, l : /\ Var(n) # Variadic(m) /\ Var(n) # Unnamed(m) /\ Var(n) # Arity(m, l)
                        /\ Variadic(n) # Unnamed(m) /\ Variadic(n) # Arity(m, l)
                        /\ Unnamed(n) # Arity(m, l)
BY DEF Var, Variadic, Unnamed, Arity

LEMMA Either == ASSUME NEW id PROVE ~(OfVariable(id) /\ OfFunction(id))
<1>1. /\ Var(id[1])[2] = "var" /\ Variadic(id[1])[2] = "variadic"
      /\ Arity(id[1], id[3])[2] = "arity"
  BY DEF Var, Variadic, Arity
<1>2. QED
  BY <1>1 DEF OfVariable, OfFunction

\* A set of numbers with a bound has a maximum.
LEMMA MaxIsIn ==
    ASSUME NEW n \in Nat, NEW T, T \subseteq 1 .. n, T # {}
    PROVE  Max(T) \in T
<1> DEFINE R == {r \in Nat : n - r \in T}
<1>1. R \subseteq Nat /\ \A x \in T : x \in Nat /\ n - x \in R /\ n - (n - x) = x
  OBVIOUS
<1>2. PICK r \in R : \A m \in R : r <= m
  BY <1>1, LeastNumber
<1>3. n - r \in T /\ \A y \in T : n - r >= y
  BY <1>1, <1>2
<1>4. QED
  BY <1>3 DEF Max

\* A body that compiles in a context made of the session.
BodyOf(known, binds, code, topLevel, again) ==
    /\ known.fns = fns /\ known.globals = globals
    /\ known.bound \subseteq globals \cup Announced
    /\ binds \subseteq Name
    /\ Len(code) \in Nat /\ DOMAIN code = 1 .. Len(code)
    /\ \A i \in DOMAIN code : IsForm(code[i])
    /\ NamesOf(code, Len(code), {"declare"}) \subseteq Announced
    /\ Compiles(known, binds, code, topLevel, again)

LEMMA LastDefnFacts ==
    ASSUME NEW code, Len(code) \in Nat, DOMAIN code = 1 .. Len(code),
           \A i \in DOMAIN code : IsForm(code[i]),
           NEW n \in 0 .. Len(code), NEW m, Defns(code, n, m) # {}
    PROVE  \E j \in DOMAIN code :
             /\ j <= n /\ code[j].op = "defn" /\ code[j].name = m
             /\ LastDefn(code, n, m) = code[j]
             /\ code[j].arities # {} /\ code[j].arities \subseteq Nat
<1>1. Defns(code, n, m) \subseteq 1 .. n
  BY DEF Defns
<1>2. Max(Defns(code, n, m)) \in Defns(code, n, m)
  BY <1>1, MaxIsIn
<1>3. PICK j : j \in Defns(code, n, m) /\ j = Max(Defns(code, n, m))
  BY <1>2
<1>4. j \in 1 .. n /\ code[j].op = "defn" /\ code[j].name = m
  BY <1>3 DEF Defns
<1>5. j \in DOMAIN code /\ j <= n
  BY <1>4
<1>6. code[j].arities # {} /\ code[j].arities \subseteq Nat
  BY <1>4, <1>5 DEF IsForm
<1>7. QED
  BY <1>3, <1>4, <1>5, <1>6 DEF LastDefn

\* A name that is known as a function at a form was known before, and then as
\* the same, or one of the forms up to it defines it.
LEMMA FunctionsAtFacts ==
    ASSUME SessionTypes,
           NEW known, NEW binds, NEW code, NEW topLevel, NEW again,
           BodyOf(known, binds, code, topLevel, again),
           NEW i \in 0 .. Len(code), NEW m \in Name
    PROVE  \/ FunctionsAt(known, code, i)[m] = fns[m]
           \/ \E j \in DOMAIN code :
                /\ j <= i /\ code[j].op = "defn" /\ code[j].name = m
                /\ FunctionsAt(known, code, i)[m] = code[j].arities
<1>1. CASE Defns(code, i, m) = {}
  BY <1>1 DEF FunctionsAt, BodyOf
<1>2. CASE Defns(code, i, m) # {}
  <2>1. PICK j \in DOMAIN code :
             /\ j <= i /\ code[j].op = "defn" /\ code[j].name = m
             /\ LastDefn(code, i, m) = code[j]
    BY <1>2, LastDefnFacts DEF BodyOf
  <2>2. FunctionsAt(known, code, i)[m] = code[j].arities
    BY <1>2, <2>1 DEF FunctionsAt
  <2>3. QED
    BY <2>1, <2>2
<1>3. QED
  BY <1>1, <1>2

\* The identifiers that the step of a function declares.
Owned(known, form) == IF known.fns[form.name] = {} THEN OwnNames(form) ELSE {}

\* What the steps of a body look like, one kind after the other.
IsBind(s, known, n) ==
    /\ s = VarStep(known, 1, 0, n, {}, FALSE)
    /\ s.part = 1 /\ s.at = 0 /\ s.declares = NewVar(known, n) /\ s.needs = {Var(n)}

IsFunction(s, known, code, i) ==
    /\ s = FunctionStep(known, code, i)
    /\ s.part = 2 /\ s.at = i
    /\ Several(code[i]) => s.declares = {} /\ s.needs = {Unnamed(code[i].name)}
    /\ ~Several(code[i]) =>
         /\ s.declares = Owned(known, code[i])
         /\ s.needs = Needs(FunctionsAt(known, code, i), code[i]) \cup OwnNames(code[i])

IsDefinition(s, known, code, i) ==
    /\ s = DefinitionStep(known, code, i)
    /\ s.part = 3 /\ s.at = i
    /\ s.declares = NewVar(known, code[i].name)
    /\ s.needs = {Var(code[i].name)} \cup
                   IF code[i].op = "def" THEN Needs(FunctionsAt(known, code, i), code[i])
                   ELSE {Variadic(code[i].name)}

IsStatement(s, known, code, i) ==
    /\ s.part \in {4, 5} /\ s.at = i
    /\ s.declares = {}
    /\ s.needs = Needs(FunctionsAt(known, code, i), code[i])

LEMMA StepKinds ==
    ASSUME NEW known, NEW binds, NEW code, NEW s \in Steps(known, binds, code)
    PROVE  /\ s.body = bodies
           /\ \/ \E n \in binds : IsBind(s, known, n)
              \/ \E i \in OfOp(code, {"defn"}) : IsFunction(s, known, code, i)
              \/ \E i \in OfOp(code, {"def", "defn"}) : IsDefinition(s, known, code, i)
              \/ \E i \in OfOp(code, {"print", "expr"}) : IsStatement(s, known, code, i)
<1>1. CASE s \in BindSteps(known, binds)
  BY <1>1 DEF BindSteps, IsBind, VarStep, Step
<1>2. CASE \E i \in OfOp(code, {"defn"}) : s = FunctionStep(known, code, i)
  <2>1. PICK i \in OfOp(code, {"defn"}) : s = FunctionStep(known, code, i)
    BY <1>2
  <2>2. CASE Several(code[i])
    <3>1. s = Step(2, i, {}, {Unnamed(code[i].name)}, FALSE)
      BY <2>1, <2>2 DEF FunctionStep
    <3>2. s.body = bodies /\ s.part = 2 /\ s.at = i /\ s.declares = {}
             /\ s.needs = {Unnamed(code[i].name)}
      BY <3>1 DEF Step
    <3>3. QED
      BY <2>1, <2>2, <3>2 DEF IsFunction
  <2>3. CASE ~Several(code[i])
    <3> DEFINE needs == Needs(FunctionsAt(known, code, i), code[i]) \cup OwnNames(code[i])
    <3>1. s = Step(2, i, Owned(known, code[i]), needs, FALSE)
      BY <2>1, <2>3 DEF FunctionStep, Owned
    <3> HIDE DEF needs
    <3>2. s.body = bodies /\ s.part = 2 /\ s.at = i
             /\ s.declares = Owned(known, code[i]) /\ s.needs = needs
      BY <3>1 DEF Step
    <3>3. QED
      BY <2>1, <2>3, <3>2 DEF needs, IsFunction
  <2>4. QED
    BY <2>2, <2>3
<1>3. CASE \E i \in OfOp(code, {"def", "defn"}) : s = DefinitionStep(known, code, i)
  <2>1. PICK i \in OfOp(code, {"def", "defn"}) : s = DefinitionStep(known, code, i)
    BY <1>3
  <2>2. s.body = bodies /\ s.part = 3 /\ s.at = i
           /\ s.declares = NewVar(known, code[i].name)
           /\ s.needs = {Var(code[i].name)} \cup
                IF code[i].op = "def" THEN Needs(FunctionsAt(known, code, i), code[i])
                ELSE {Variadic(code[i].name)}
    BY <2>1 DEF DefinitionStep, VarStep, Step
  <2>3. QED
    BY <2>1, <2>2 DEF IsDefinition
<1>4. CASE \/ \E i \in OfOp(code, {"print"}) : s = StatementStep(known, code, 4, i)
           \/ \E i \in Result(code) : s = StatementStep(known, code, 5, i)
  <2>1. PICK i \in OfOp(code, {"print", "expr"}), part \in {4, 5} :
             s = StatementStep(known, code, part, i)
    BY <1>4 DEF Result, OfOp
  <2>2. IsStatement(s, known, code, i) /\ s.body = bodies
    BY <2>1 DEF StatementStep, IsStatement, Step
  <2>3. QED
    BY <2>2
<1>5. QED
  BY <1>1, <1>2, <1>3, <1>4 DEF Steps

\* The steps that declare: Go bindings, variables and functions.
LEMMA StepsThat ==
    ASSUME NEW known, NEW binds, NEW code
    PROVE  /\ \A n \in binds : \E s \in Steps(known, binds, code) :
                s.body = bodies /\ s.part = 1 /\ s.declares = NewVar(known, n)
           /\ \A i \in OfOp(code, {"defn"}) : ~Several(code[i]) =>
                \E s \in Steps(known, binds, code) :
                   /\ s.body = bodies /\ s.part = 2 /\ s.at = i
                   /\ s.declares = Owned(known, code[i])
           /\ \A i \in OfOp(code, {"def", "defn"}) : \E s \in Steps(known, binds, code) :
                s.body = bodies /\ s.part = 3 /\ s.at = i /\ s.declares = NewVar(known, code[i].name)
<1>1. ASSUME NEW n \in binds
      PROVE  \E s \in Steps(known, binds, code) :
                s.body = bodies /\ s.part = 1 /\ s.declares = NewVar(known, n)
  <2>1. VarStep(known, 1, 0, n, {}, FALSE) \in Steps(known, binds, code)
    BY DEF Steps, BindSteps
  <2>2. QED
    BY <2>1 DEF VarStep, Step
<1>2. ASSUME NEW i \in OfOp(code, {"defn"}), ~Several(code[i])
      PROVE  \E s \in Steps(known, binds, code) :
                /\ s.body = bodies /\ s.part = 2 /\ s.at = i
                /\ s.declares = Owned(known, code[i])
  <2>1. FunctionStep(known, code, i) \in Steps(known, binds, code)
    BY DEF Steps
  <2>2. \E needs : FunctionStep(known, code, i) = Step(2, i, Owned(known, code[i]), needs, FALSE)
    BY <1>2 DEF FunctionStep, Owned
  <2>3. QED
    BY <2>1, <2>2 DEF Step
<1>3. ASSUME NEW i \in OfOp(code, {"def", "defn"})
      PROVE  \E s \in Steps(known, binds, code) :
                s.body = bodies /\ s.part = 3 /\ s.at = i /\ s.declares = NewVar(known, code[i].name)
  <2>1. DefinitionStep(known, code, i) \in Steps(known, binds, code)
    BY DEF Steps
  <2>2. QED
    BY <2>1 DEF DefinitionStep, VarStep, Step
<1>4. QED
  BY <1>1, <1>2, <1>3

\* Which step declares an identifier.
ByBind(s, id, known, binds) ==
    id[1] \in binds /\ s = VarStep(known, 1, 0, id[1], {}, FALSE)
ByDefinition(s, id, known, code) ==
    \E i \in OfOp(code, {"def", "defn"}) :
        code[i].name = id[1] /\ s = DefinitionStep(known, code, i)
ByFunction(s, id, known, code) ==
    \E i \in OfOp(code, {"defn"}) :
        code[i].name = id[1] /\ s = FunctionStep(known, code, i)

LEMMA Declarer ==
    ASSUME NEW known, NEW binds, NEW code,
           NEW s \in Steps(known, binds, code), NEW id \in s.declares
    PROVE  \/ /\ OfVariable(id) /\ id[1] \notin known.globals
              /\ ByBind(s, id, known, binds) \/ ByDefinition(s, id, known, code)
           \/ /\ OfFunction(id) /\ known.fns[id[1]] = {}
              /\ ByFunction(s, id, known, code)
<1>1. ASSUME NEW n, id \in NewVar(known, n)
      PROVE  OfVariable(id) /\ id[1] = n /\ n \notin known.globals
  BY <1>1, Identifiers DEF NewVar, OfVariable
<1>2. ASSUME NEW form, id \in OwnNames(form)
      PROVE  OfFunction(id) /\ id[1] = form.name
  <2>1. CASE id = Variadic(form.name)
    BY <2>1, Identifiers DEF OfFunction
  <2>2. CASE id \in {Arity(form.name, k) : k \in form.arities}
    <3>1. PICK k \in form.arities : id = Arity(form.name, k)
      BY <2>2
    <3>2. QED
      BY <3>1, Identifiers DEF OfFunction
  <2>3. QED
    BY <1>2, <2>1, <2>2 DEF OwnNames
<1>3. CASE \E n \in binds : IsBind(s, known, n)
  BY <1>1, <1>3 DEF IsBind, ByBind
<1>4. CASE \E i \in OfOp(code, {"defn"}) : IsFunction(s, known, code, i)
  BY <1>2, <1>4 DEF IsFunction, Owned, ByFunction
<1>5. CASE \E i \in OfOp(code, {"def", "defn"}) : IsDefinition(s, known, code, i)
  BY <1>1, <1>5 DEF IsDefinition, ByDefinition
<1>6. CASE \E i \in OfOp(code, {"print", "expr"}) : IsStatement(s, known, code, i)
  BY <1>6 DEF IsStatement
<1>7. QED
  BY <1>3, <1>4, <1>5, <1>6, StepKinds

\* Two steps of a body declare the same only if the body defines a name twice.
LEMMA StepsApart ==
    ASSUME NEW known, NEW binds, NEW code, \A i \in DOMAIN code : IsForm(code[i]),
           binds \subseteq Name,
           NEW s \in Steps(known, binds, code), NEW t \in Steps(known, binds, code), s # t,
           NEW id \in s.declares \cap t.declares
    PROVE  id[1] \in Twice(binds, code)
<1>1. ASSUME NEW i, i \in OfOp(code, {"def", "defn"}) \/ i \in OfOp(code, {"defn"})
      PROVE  i \in OfOp(code, {"def", "defn"}) /\ code[i].name \in Name
  BY <1>1 DEF OfOp, IsForm
<1>2. CASE OfVariable(id)
  <2>1. /\ ByBind(s, id, known, binds) \/ ByDefinition(s, id, known, code)
        /\ ByBind(t, id, known, binds) \/ ByDefinition(t, id, known, code)
    BY <1>2, Declarer, Either
  <2>2. QED
    BY <1>1, <2>1 DEF Twice, ByBind, ByDefinition
<1>3. CASE ~OfVariable(id)
  <2>1. ByFunction(s, id, known, code) /\ ByFunction(t, id, known, code)
    BY <1>3, Declarer
  <2>2. QED
    BY <1>1, <2>1 DEF Twice, ByFunction
<1>4. QED
  BY <1>2, <1>3

\* What a body declares is not there yet.
LEMMA DeclaresNew ==
    ASSUME KnownExactly,
           NEW known, NEW binds, NEW code, NEW topLevel, NEW again,
           BodyOf(known, binds, code, topLevel, again),
           NEW s \in Steps(known, binds, code), NEW id \in s.declares
    PROVE  id \notin There
<1> SUFFICES ASSUME id \in There PROVE FALSE
  OBVIOUS
<1>1. \/ id[1] \in globals /\ OfVariable(id)
      \/ fns[id[1]] # {} /\ OfFunction(id)
  BY DEF KnownExactly
<1>2. known.fns = fns /\ known.globals = globals
  BY DEF BodyOf
<1>3. \/ OfVariable(id) /\ id[1] \notin globals
      \/ OfFunction(id) /\ fns[id[1]] = {}
  BY <1>2, Declarer
<1>4. QED
  BY <1>1, <1>3, Either

\* What is known as a function afterwards was before, or the body defines it.
LEMMA FunctionsAfterFacts ==
    ASSUME SessionTypes,
           NEW known, NEW binds, NEW code, NEW topLevel, NEW again,
           BodyOf(known, binds, code, topLevel, again)
    PROVE  /\ FunctionsAfter(known, code) \in [Name -> SUBSET Nat]
           /\ \A m \in Name : FunctionsAfter(known, code)[m] # {} <=>
                fns[m] # {} \/ \E j \in OfOp(code, {"defn"}) : code[j].name = m
<1>1. ASSUME NEW m \in Name
      PROVE  /\ FunctionsAfter(known, code)[m] \in SUBSET Nat
             /\ FunctionsAfter(known, code)[m] # {} <=>
                fns[m] # {} \/ \E j \in OfOp(code, {"defn"}) : code[j].name = m
  <2>1. CASE Defns(code, Len(code), m) = {}
    <3>1. FunctionsAfter(known, code)[m] = fns[m]
      BY <2>1 DEF FunctionsAfter, BodyOf
    <3>2. ~ \E j \in OfOp(code, {"defn"}) : code[j].name = m
      BY <2>1 DEF OfOp, Defns, BodyOf
    <3>3. QED
      BY <3>1, <3>2 DEF SessionTypes
  <2>2. CASE Defns(code, Len(code), m) # {}
    <3>1. Len(code) \in 0 .. Len(code)
      BY DEF BodyOf
    <3>2. PICK j \in DOMAIN code :
               /\ code[j].op = "defn" /\ code[j].name = m
               /\ LastDefn(code, Len(code), m) = code[j]
               /\ code[j].arities # {} /\ code[j].arities \subseteq Nat
      BY <2>2, <3>1, LastDefnFacts DEF BodyOf
    <3>3. FunctionsAfter(known, code)[m] \in {{0}, code[j].arities}
      BY <2>2, <3>2 DEF FunctionsAfter
    <3>4. QED
      <4>1. FunctionsAfter(known, code)[m] # {} /\ FunctionsAfter(known, code)[m] \in SUBSET Nat
        <5>1. {0} # {} /\ {0} \in SUBSET Nat
          OBVIOUS
        <5>2. QED
          BY <3>2, <3>3, <5>1
      <4>2. j \in OfOp(code, {"defn"})
        BY <3>2 DEF OfOp
      <4>3. QED
        BY <3>2, <4>1, <4>2
  <2>3. QED
    BY <2>1, <2>2
<1>2. FunctionsAfter(known, code) \in [Name -> SUBSET Nat]
  BY <1>1 DEF FunctionsAfter
<1>3. QED
  BY <1>1, <1>2

\* What is there afterwards is again what the compiler knows.
LEMMA KnownAfter ==
    ASSUME SessionTypes, KnownExactly,
           NEW known, NEW binds, NEW code, NEW topLevel, NEW again,
           BodyOf(known, binds, code, topLevel, again),
           NEW there,
           there = There \cup Declarations(Steps(known, binds, code)) \cup NeverDeclared(known, code)
    PROVE  /\ \A n \in GlobalsAfter(known, binds, code) : Var(n) \in there
           /\ \A n \in Name : FunctionsAfter(known, code)[n] # {} => Variadic(n) \in there
           /\ \A id \in there :
                \/ id[1] \in GlobalsAfter(known, binds, code) /\ OfVariable(id)
                \/ /\ id[1] \in Name /\ FunctionsAfter(known, code)[id[1]] # {}
                   /\ OfFunction(id)
<1>1. ASSUME NEW n \in GlobalsAfter(known, binds, code)
      PROVE  Var(n) \in there
  <2>1. CASE n \in globals
    BY <2>1 DEF KnownExactly
  <2>2. ASSUME NEW s \in Steps(known, binds, code), n \notin globals, s.declares = NewVar(known, n)
        PROVE  Var(n) \in there
    BY <2>2 DEF NewVar, BodyOf, Declarations
  <2>3. CASE n \in binds
    BY <2>1, <2>2, <2>3, StepsThat
  <2>4. CASE n \in NamesOf(code, Len(code), {"def", "defn"})
    <3>1. PICK i \in OfOp(code, {"def", "defn"}) : code[i].name = n
      BY <2>4 DEF NamesOf, OfOp, BodyOf
    <3>2. QED
      BY <2>1, <2>2, <3>1, StepsThat
  <2>5. QED
    BY <2>1, <2>3, <2>4 DEF GlobalsAfter, BodyOf
<1>2. ASSUME NEW n \in Name, FunctionsAfter(known, code)[n] # {}
      PROVE  Variadic(n) \in there
  <2>1. CASE fns[n] # {}
    BY <2>1 DEF KnownExactly
  <2>2. CASE fns[n] = {}
    <3>1. PICK j \in OfOp(code, {"defn"}) : code[j].name = n
      BY <1>2, <2>2, FunctionsAfterFacts
    <3>2. CASE Several(code[j])
      BY <2>2, <3>1, <3>2 DEF NeverDeclared, BodyOf
    <3>3. CASE ~Several(code[j])
      <4>1. PICK s \in Steps(known, binds, code) : s.declares = Owned(known, code[j])
        BY <3>3, StepsThat
      <4>2. Variadic(n) \in s.declares
        BY <2>2, <3>1, <4>1 DEF Owned, OwnNames, BodyOf
      <4>3. QED
        BY <4>2 DEF Declarations
    <3>4. QED
      BY <3>2, <3>3
  <2>3. QED
    BY <2>1, <2>2
<1>3. ASSUME NEW j \in OfOp(code, {"defn"})
      PROVE  code[j].name \in Name /\ FunctionsAfter(known, code)[code[j].name] # {}
  BY FunctionsAfterFacts DEF OfOp, BodyOf, IsForm
<1>4. ASSUME NEW id \in there
      PROVE  \/ id[1] \in GlobalsAfter(known, binds, code) /\ OfVariable(id)
             \/ /\ id[1] \in Name /\ FunctionsAfter(known, code)[id[1]] # {}
                /\ OfFunction(id)
  <2>1. CASE id \in There
    BY <2>1, FunctionsAfterFacts DEF KnownExactly, GlobalsAfter, BodyOf
  <2>2. CASE id \in NeverDeclared(known, code)
    <3>1. PICK j \in OfOp(code, {"defn"}) : id = Variadic(code[j].name)
      BY <2>2 DEF NeverDeclared
    <3>2. QED
      BY <1>3, <3>1, Identifiers DEF OfFunction
  <2>3. CASE id \in Declarations(Steps(known, binds, code))
    <3>1. PICK s \in Steps(known, binds, code) : id \in s.declares
      BY <2>3 DEF Declarations
    <3>2. ASSUME NEW i \in OfOp(code, {"def", "defn"})
          PROVE  code[i].name \in GlobalsAfter(known, binds, code)
      BY DEF GlobalsAfter, NamesOf, OfOp, BodyOf
    <3>3. binds \subseteq GlobalsAfter(known, binds, code)
      BY DEF GlobalsAfter
    <3>4. CASE OfVariable(id) /\ (ByBind(s, id, known, binds) \/ ByDefinition(s, id, known, code))
      BY <3>2, <3>3, <3>4 DEF ByBind, ByDefinition
    <3>5. CASE OfFunction(id) /\ ByFunction(s, id, known, code)
      BY <1>3, <3>5 DEF ByFunction
    <3>6. QED
      BY <3>1, <3>4, <3>5, Declarer
  <2>4. QED
    BY <2>1, <2>2, <2>3
<1>5. QED
  BY <1>1, <1>2, <1>4

\* A step of a new body, with what comes before it.
AccountedAfter(s, id, known, binds, code) ==
    Accounted(s, id, declared \cup lost \cup NeverDeclared(known, code),
              batch \cup Steps(known, binds, code), GlobalsAfter(known, binds, code))

PreparedAfter(s, known, binds, code) ==
    Prepared(s, declared \cup lost \cup NeverDeclared(known, code),
             batch \cup Steps(known, binds, code))

\* A new step comes after whatever is there.
LEMMA PastIsPrepared ==
    ASSUME SessionTypes, NEW s, s.body = bodies, NEW known, NEW binds, NEW code
    PROVE  There \cup NeverDeclared(known, code) \subseteq PreparedAfter(s, known, binds, code)
<1>1. \A t \in batch : Earlier(t, s)
  <2>1. ASSUME NEW t \in batch PROVE t.body < s.body
    BY DEF SessionTypes
  <2>2. QED
    BY <2>1 DEF Earlier
<1>2. Declarations(batch) \subseteq
        Declarations({t \in batch \cup Steps(known, binds, code) : Earlier(t, s)})
  BY <1>1 DEF Declarations
<1>3. QED
  BY <1>2 DEF There, PreparedAfter, Prepared

LEMMA NewIsPrepared ==
    ASSUME NEW s, NEW known, NEW binds, NEW code,
           NEW t \in Steps(known, binds, code), Earlier(t, s)
    PROVE  t.declares \subseteq PreparedAfter(s, known, binds, code)
BY DEF PreparedAfter, Prepared, Declarations

\* The step made of the i-th form in which its calls and uses are.
Carries(s, i, known, binds, code) ==
    /\ i \in DOMAIN code
    /\ s \in Steps(known, binds, code)
    /\ s.body = bodies /\ s.at = i /\ s.part \in 2 .. 5
    /\ code[i].op = "defn" =>
         s.part = 2 /\ ~Several(code[i]) /\ s.declares = Owned(known, code[i])

LEMMA VariableAccounted ==
    ASSUME SessionTypes, KnownExactly,
           NEW known, NEW binds, NEW code, NEW topLevel, NEW again,
           BodyOf(known, binds, code, topLevel, again),
           NEW s, NEW i, Carries(s, i, known, binds, code),
           NEW n \in Mentions(code[i])
    PROVE  AccountedAfter(s, Var(n), known, binds, code)
<1>1. OfVariable(Var(n)) /\ Var(n)[1] = n
  BY Identifiers DEF OfVariable
<1>2. ASSUME Var(n) \in PreparedAfter(s, known, binds, code)
      PROVE  AccountedAfter(s, Var(n), known, binds, code)
  BY <1>2 DEF AccountedAfter, PreparedAfter, Accounted
<1>3. CASE n \in globals
  BY <1>2, <1>3, PastIsPrepared DEF KnownExactly, Carries
<1>4. ASSUME n \notin globals, NEW t \in Steps(known, binds, code), t.declares = NewVar(known, n)
      PROVE  /\ Earlier(t, s) => AccountedAfter(s, Var(n), known, binds, code)
             /\ s.part = 2 => AccountedAfter(s, Var(n), known, binds, code)
  <2>1. Var(n) \in t.declares
    BY <1>4 DEF NewVar, BodyOf
  <2>2. ASSUME Earlier(t, s) PROVE AccountedAfter(s, Var(n), known, binds, code)
    BY <1>2, <2>1, <2>2, NewIsPrepared
  <2>3. ASSUME s.part = 2 PROVE AccountedAfter(s, Var(n), known, binds, code)
    <3>1. Var(n) \in Declarations(batch \cup Steps(known, binds, code))
      BY <2>1 DEF Declarations
    <3>2. QED
      BY <1>1, <2>3, <3>1 DEF AccountedAfter, Accounted
  <2>4. QED
    BY <2>2, <2>3
<1>5. CASE n \in binds /\ n \notin globals
  <2>1. PICK t \in Steps(known, binds, code) :
             t.body = bodies /\ t.part = 1 /\ t.declares = NewVar(known, n)
    BY <1>5, StepsThat
  <2>2. Earlier(t, s)
    BY <2>1 DEF Earlier, Carries
  <2>3. QED
    BY <1>4, <1>5, <2>1, <2>2
<1>6. ASSUME n \notin globals,
             NEW j \in OfOp(code, {"def", "defn"}), code[j].name = n, j < i \/ s.part = 2
      PROVE  AccountedAfter(s, Var(n), known, binds, code)
  <2>1. PICK t \in Steps(known, binds, code) :
             t.body = bodies /\ t.part = 3 /\ t.at = j /\ t.declares = NewVar(known, n)
    BY <1>6, StepsThat
  <2>2. CASE s.part = 2
    BY <1>4, <1>6, <2>1, <2>2
  <2>3. CASE s.part # 2
    <3>1. Earlier(t, s)
      BY <1>6, <2>1, <2>3 DEF Earlier, Carries
    <3>2. QED
      BY <1>4, <1>6, <2>1, <3>1
  <2>4. QED
    BY <2>2, <2>3
<1>7. CASE n \in Announced /\ n \notin globals
  <2>1. CASE n \notin GlobalsAfter(known, binds, code)
    BY <1>1, <1>7, <2>1 DEF AccountedAfter, Accounted
  <2>2. CASE n \in GlobalsAfter(known, binds, code)
    <3>1. Var(n) \in There \cup Declarations(Steps(known, binds, code)) \cup NeverDeclared(known, code)
      BY <2>2, KnownAfter
    <3>2. CASE Var(n) \in There \cup NeverDeclared(known, code)
      BY <1>2, <3>2, PastIsPrepared DEF Carries
    <3>3. CASE Var(n) \in Declarations(Steps(known, binds, code))
      <4>1. Var(n) \in Declarations(batch \cup Steps(known, binds, code))
        BY <3>3 DEF Declarations
      <4>2. QED
        BY <1>1, <1>7, <4>1 DEF AccountedAfter, Accounted
    <3>4. QED
      BY <3>1, <3>2, <3>3
  <2>3. QED
    BY <2>1, <2>2
<1>8. \/ n \in known.bound \cup binds
      \/ \E j \in DOMAIN code : /\ j < i /\ code[j].name = n
                                 /\ code[j].op \in {"def", "defn", "declare"}
      \/ code[i].op = "defn" /\ n = code[i].name
  <2>1. /\ i \in DOMAIN code /\ DOMAIN code = 1 .. Len(code) /\ Len(code) \in Nat
        /\ Mentions(code[i]) \subseteq
             known.bound \cup binds \cup NamesOf(code, i - 1, {"def", "defn", "declare"})
                \cup (IF code[i].op = "defn" THEN {code[i].name} ELSE {})
    BY DEF BodyOf, Compiles, Carries
  <2>2. ASSUME n \in NamesOf(code, i - 1, {"def", "defn", "declare"})
        PROVE  \E j \in DOMAIN code : /\ j < i /\ code[j].name = n
                                       /\ code[j].op \in {"def", "defn", "declare"}
    BY <2>1, <2>2 DEF NamesOf
  <2>3. QED
    BY <2>1, <2>2
<1>9. CASE n \in known.bound /\ n \notin globals
  BY <1>7, <1>9 DEF BodyOf
<1>10. CASE n \notin globals /\ \E j \in DOMAIN code : /\ j < i /\ code[j].name = n
                                 /\ code[j].op \in {"def", "defn", "declare"}
  <2>1. PICK j \in DOMAIN code : /\ j < i /\ code[j].name = n
                                 /\ code[j].op \in {"def", "defn", "declare"}
    BY <1>10
  <2>2. CASE code[j].op = "declare"
    <3>1. n \in NamesOf(code, Len(code), {"declare"})
      BY <2>1, <2>2 DEF NamesOf, BodyOf
    <3>2. QED
      BY <1>7, <1>10, <3>1 DEF BodyOf
  <2>3. CASE code[j].op \in {"def", "defn"}
    BY <1>6, <1>10, <2>1, <2>3 DEF OfOp
  <2>4. QED
    BY <2>1, <2>2, <2>3
<1>11. CASE n \notin globals /\ code[i].op = "defn" /\ n = code[i].name
  BY <1>6, <1>11 DEF OfOp, Carries
<1>12. QED
  BY <1>3, <1>5, <1>8, <1>9, <1>10, <1>11

LEMMA FunctionAccounted ==
    ASSUME SessionTypes, KnownExactly,
           NEW known, NEW binds, NEW code, NEW topLevel, NEW again,
           BodyOf(known, binds, code, topLevel, again),
           NEW s, NEW i, Carries(s, i, known, binds, code),
           NEW m \in Name, FunctionsAt(known, code, i)[m] # {}
    PROVE  /\ AccountedAfter(s, Variadic(m), known, binds, code)
           /\ \A k \in FunctionsAt(known, code, i)[m] :
                AccountedAfter(s, Arity(m, k), known, binds, code)
<1>1. ASSUME Variadic(m) \in PreparedAfter(s, known, binds, code)
      PROVE  /\ AccountedAfter(s, Variadic(m), known, binds, code)
             /\ \A k : AccountedAfter(s, Arity(m, k), known, binds, code)
  <2>1. AccountedAfter(s, Variadic(m), known, binds, code)
    BY <1>1 DEF AccountedAfter, Accounted, PreparedAfter
  <2>2. ASSUME NEW k
        PROVE  AccountedAfter(s, Arity(m, k), known, binds, code)
    <3>1. Arity(m, k)[1] = m /\ Arity(m, k)[3] = k
      BY Identifiers
    <3>2. QED
      BY <1>1, <3>1 DEF AccountedAfter, Accounted, PreparedAfter
  <2>3. QED
    BY <2>1, <2>2
<1>2. CASE fns[m] # {}
  <2>1. Variadic(m) \in There
    BY <1>2 DEF KnownExactly
  <2>2. QED
    BY <1>1, <2>1, PastIsPrepared DEF Carries
<1>3. CASE fns[m] = {}
  <2>1. i \in 0 .. Len(code)
    BY DEF Carries, BodyOf
  <2>2. PICK j \in DOMAIN code :
             /\ j <= i /\ code[j].op = "defn" /\ code[j].name = m
             /\ FunctionsAt(known, code, i)[m] = code[j].arities
    BY <1>3, <2>1, FunctionsAtFacts
  <2>3. j \in OfOp(code, {"defn"})
    BY <2>2 DEF OfOp
  <2>4. known.fns[code[j].name] = {}
    BY <1>3, <2>2 DEF BodyOf
  <2>5. Owned(known, code[j]) = {Arity(m, k) : k \in code[j].arities} \cup {Variadic(m)}
    BY <2>2, <2>4 DEF Owned, OwnNames
  <2>6. CASE Several(code[j])
    <3>1. Variadic(m) \in NeverDeclared(known, code)
      BY <2>2, <2>3, <2>4, <2>6 DEF NeverDeclared
    <3>2. QED
      BY <1>1, <3>1, PastIsPrepared DEF Carries
  <2>7. CASE ~Several(code[j]) /\ j # i
    <3>1. PICK t \in Steps(known, binds, code) :
               t.body = bodies /\ t.part = 2 /\ t.at = j /\ t.declares = Owned(known, code[j])
      BY <2>3, <2>7, StepsThat
    <3>2. Earlier(t, s)
      BY <2>1, <2>2, <2>7, <3>1 DEF Earlier, Carries, BodyOf
    <3>3. Variadic(m) \in PreparedAfter(s, known, binds, code)
      BY <2>5, <3>1, <3>2, NewIsPrepared
    <3>4. QED
      BY <1>1, <3>3
  <2>8. CASE j = i
    <3>1. s.declares = Owned(known, code[j])
      BY <2>2, <2>8 DEF Carries
    <3>2. QED
      BY <2>2, <2>5, <3>1 DEF AccountedAfter, Accounted
  <2>9. QED
    BY <2>6, <2>7, <2>8
<1>4. QED
  BY <1>2, <1>3

\* What the calls and uses of a form refer to.
LEMMA CallsAccounted ==
    ASSUME SessionTypes, KnownExactly,
           NEW known, NEW binds, NEW code, NEW topLevel, NEW again,
           BodyOf(known, binds, code, topLevel, again),
           NEW s, NEW i, Carries(s, i, known, binds, code),
           NEW id \in Needs(FunctionsAt(known, code, i), code[i])
    PROVE  AccountedAfter(s, id, known, binds, code)
<1>1. CASE id \in {Var(n) : n \in code[i].uses}
  <2>1. PICK n \in code[i].uses : id = Var(n)
    BY <1>1
  <2>2. n \in Mentions(code[i])
    BY DEF Mentions
  <2>3. QED
    BY <2>1, <2>2, VariableAccounted
<1>2. CASE id \in {CallTarget(FunctionsAt(known, code, i), c) : c \in code[i].calls}
  <2>1. PICK c \in code[i].calls : id = CallTarget(FunctionsAt(known, code, i), c)
    BY <1>2
  <2>2. c[1] \in Name /\ c[1] \in Mentions(code[i])
    BY DEF BodyOf, Carries, IsForm, Mentions
  <2>3. CASE FunctionsAt(known, code, i)[c[1]] = {}
    <3>1. id = Var(c[1])
      BY <2>1, <2>3 DEF CallTarget
    <3>2. QED
      BY <2>2, <3>1, VariableAccounted
  <2>4. CASE FunctionsAt(known, code, i)[c[1]] # {}
    <3>1. id = Variadic(c[1]) \/ \E k \in FunctionsAt(known, code, i)[c[1]] : id = Arity(c[1], k)
      BY <2>1, <2>4 DEF CallTarget
    <3>2. QED
      BY <2>2, <2>4, <3>1, FunctionAccounted
  <2>5. QED
    BY <2>3, <2>4
<1>3. QED
  BY <1>1, <1>2 DEF Needs

\* What any step of a body refers to.
LEMMA BodyAccounted ==
    ASSUME SessionTypes, KnownExactly,
           NEW known, NEW binds, NEW code, NEW topLevel, NEW again,
           BodyOf(known, binds, code, topLevel, again),
           NEW s \in Steps(known, binds, code), NEW id \in s.needs
    PROVE  AccountedAfter(s, id, known, binds, code)
<1>1. s.body = bodies
  BY StepKinds
<1>2. ASSUME id \in PreparedAfter(s, known, binds, code) \cup s.declares
      PROVE  AccountedAfter(s, id, known, binds, code)
  BY <1>2 DEF AccountedAfter, Accounted, PreparedAfter
<1>3. ASSUME NEW n, id = Var(n), s.declares = NewVar(known, n)
      PROVE  AccountedAfter(s, id, known, binds, code)
  <2>1. CASE n \in globals
    BY <1>1, <1>2, <1>3, <2>1, PastIsPrepared DEF KnownExactly
  <2>2. CASE n \notin globals
    BY <1>2, <1>3, <2>2 DEF NewVar, BodyOf
  <2>3. QED
    BY <2>1, <2>2
<1>4. ASSUME NEW i \in OfOp(code, {"defn"})
      PROVE  code[i].name \in Name /\ code[i].op = "defn" /\ i \in DOMAIN code
  BY DEF OfOp, BodyOf, IsForm
<1>5. CASE \E n \in binds : IsBind(s, known, n)
  BY <1>3, <1>5 DEF IsBind
<1>6. CASE \E i \in OfOp(code, {"defn"}) : IsFunction(s, known, code, i)
  <2>1. PICK i \in OfOp(code, {"defn"}) : IsFunction(s, known, code, i)
    BY <1>6
  <2>2. CASE Several(code[i])
    <3>1. id = Unnamed(code[i].name) /\ s.part = 2
      BY <2>1, <2>2 DEF IsFunction
    <3>2. QED
      BY <3>1, Identifiers DEF AccountedAfter, Accounted
  <2>3. CASE ~Several(code[i]) /\ id \in Needs(FunctionsAt(known, code, i), code[i])
    <3>1. Carries(s, i, known, binds, code)
      BY <1>1, <1>4, <2>1, <2>3 DEF Carries, IsFunction
    <3>2. QED
      BY <2>3, <3>1, CallsAccounted
  <2>4. CASE ~Several(code[i]) /\ id \in OwnNames(code[i])
    <3>1. CASE fns[code[i].name] = {}
      <4>1. id \in s.declares
        BY <2>1, <2>4, <3>1 DEF IsFunction, Owned, BodyOf
      <4>2. QED
        BY <1>2, <4>1
    <3>2. CASE fns[code[i].name] # {}
      <4>1. Variadic(code[i].name) \in PreparedAfter(s, known, binds, code)
        BY <1>1, <1>4, <3>2, PastIsPrepared DEF KnownExactly
      <4>2. id = Variadic(code[i].name) \/ \E k : id = Arity(code[i].name, k)
        BY <2>4 DEF OwnNames
      <4>3. QED
        BY <4>1, <4>2, Identifiers DEF AccountedAfter, Accounted, PreparedAfter
    <3>3. QED
      BY <3>1, <3>2
  <2>5. QED
    BY <2>1, <2>2, <2>3, <2>4 DEF IsFunction
<1>7. CASE \E i \in OfOp(code, {"def", "defn"}) : IsDefinition(s, known, code, i)
  <2>1. PICK i \in OfOp(code, {"def", "defn"}) : IsDefinition(s, known, code, i)
    BY <1>7
  <2>2. CASE id = Var(code[i].name)
    BY <1>3, <2>1, <2>2 DEF IsDefinition
  <2>3. CASE code[i].op = "def" /\ id \in Needs(FunctionsAt(known, code, i), code[i])
    <3>1. Carries(s, i, known, binds, code)
      BY <1>1, <2>1, <2>3 DEF Carries, IsDefinition, OfOp
    <3>2. QED
      BY <2>3, <3>1, CallsAccounted
  <2>4. CASE code[i].op = "defn" /\ id = Variadic(code[i].name)
    <3>1. i \in OfOp(code, {"defn"})
      BY <2>1, <2>4 DEF OfOp
    <3>2. CASE fns[code[i].name] # {}
      BY <1>1, <1>2, <1>4, <2>4, <3>1, <3>2, PastIsPrepared DEF KnownExactly
    <3>3. CASE fns[code[i].name] = {} /\ Several(code[i])
      <4>1. Variadic(code[i].name) \in NeverDeclared(known, code)
        BY <3>1, <3>3 DEF NeverDeclared, BodyOf
      <4>2. QED
        BY <1>1, <1>2, <2>4, <4>1, PastIsPrepared
    <3>4. CASE fns[code[i].name] = {} /\ ~Several(code[i])
      <4>1. PICK t \in Steps(known, binds, code) :
                 t.body = bodies /\ t.part = 2 /\ t.declares = Owned(known, code[i])
        BY <3>1, <3>4, StepsThat
      <4>2. Earlier(t, s)
        BY <1>1, <2>1, <4>1 DEF Earlier, IsDefinition
      <4>3. id \in t.declares
        BY <2>4, <3>4, <4>1 DEF Owned, OwnNames, BodyOf
      <4>4. QED
        BY <1>2, <4>2, <4>3, NewIsPrepared
    <3>5. QED
      BY <3>2, <3>3, <3>4
  <2>5. code[i].op \in {"def", "defn"}
    BY DEF OfOp
  <2>6. QED
    BY <2>1, <2>2, <2>3, <2>4, <2>5 DEF IsDefinition
<1>8. CASE \E i \in OfOp(code, {"print", "expr"}) : IsStatement(s, known, code, i)
  <2>1. PICK i \in OfOp(code, {"print", "expr"}) : IsStatement(s, known, code, i)
    BY <1>8
  <2>2. Carries(s, i, known, binds, code)
    BY <1>1, <2>1 DEF Carries, IsStatement, OfOp
  <2>3. QED
    BY <2>1, <2>2, CallsAccounted DEF IsStatement
<1>9. QED
  BY <1>5, <1>6, <1>7, <1>8, StepKinds

-----------------------------------------------------------------------------
(* The invariant is kept.                                                  *)

\* What was accounted for still is when more is there.
LEMMA AccountedLater ==
    ASSUME NEW s, NEW id, NEW got, NEW steps, NEW names, Accounted(s, id, got, steps, names),
           NEW got2, NEW steps2, NEW names2, got \subseteq got2,
           \A t \in steps : t \in steps2 \/ t.declares \subseteq got2,
           \A n \in names2 : Var(n) \in got2 \cup Declarations(steps2)
    PROVE  Accounted(s, id, got2, steps2, names2)
<1>1. Prepared(s, got, steps) \subseteq Prepared(s, got2, steps2)
  BY DEF Prepared, Declarations
<1>2. Declarations(steps) \subseteq got2 \cup Declarations(steps2)
  BY DEF Declarations
<1>3. got2 \subseteq Prepared(s, got2, steps2)
  BY DEF Prepared
<1>4. CASE id \in Prepared(s, got, steps) \cup s.declares
  BY <1>1, <1>4 DEF Accounted
<1>5. CASE id = Arity(id[1], id[3]) /\ Variadic(id[1]) \in Prepared(s, got, steps)
  BY <1>1, <1>5 DEF Accounted
<1>6. CASE OfVariable(id) /\ id \in Declarations(steps) /\ (s.part = 2 \/ id[1] \in Announced)
  BY <1>2, <1>3, <1>6 DEF Accounted
<1>7. CASE OfVariable(id) /\ id[1] \in Announced \ names
  <2>1. CASE id[1] \in names2
    <3>1. id \in got2 \cup Declarations(steps2)
      BY <1>7, <2>1 DEF OfVariable
    <3>2. QED
      BY <1>3, <1>7, <3>1 DEF Accounted
  <2>2. CASE id[1] \notin names2
    BY <1>7, <2>2 DEF Accounted
  <2>3. QED
    BY <2>1, <2>2
<1>8. CASE id = Unnamed(id[1]) /\ s.part = 2
  BY <1>8 DEF Accounted
<1>9. QED
  BY <1>4, <1>5, <1>6, <1>7, <1>8 DEF Accounted

\* A body that has been compiled.
LEMMA CompiledKeeps ==
    ASSUME SessionTypes, KnownExactly, DeclaredOnce, NeedsAccounted,
           NEW known, NEW binds, NEW code, NEW topLevel, NEW again,
           BodyOf(known, binds, code, topLevel, again),
           Twice(binds, code) \subseteq DefinedTwice,
           Compiled(known, binds, code), declared' = declared
    PROVE  SessionTypes' /\ KnownExactly' /\ DeclaredOnce' /\ NeedsAccounted'
<1>1. /\ fns' = FunctionsAfter(known, code)
      /\ globals' = GlobalsAfter(known, binds, code)
      /\ batch' = batch \cup Steps(known, binds, code)
      /\ lost' = lost \cup NeverDeclared(known, code)
      /\ bodies' = bodies + 1
  BY DEF Compiled
<1>2. There' = There \cup Declarations(Steps(known, binds, code)) \cup NeverDeclared(known, code)
  BY <1>1 DEF There, Declarations
<1>3. SessionTypes'
  <2>1. \A i \in DOMAIN code : code[i].name \in Name
    BY DEF BodyOf, IsForm
  <2>2. globals' \subseteq Name
    BY <1>1, <2>1 DEF GlobalsAfter, NamesOf, BodyOf, SessionTypes
  <2>3. fns' \in [Name -> SUBSET Nat]
    BY <1>1, FunctionsAfterFacts
  <2>4. \A s \in batch' : s.body \in 0 .. bodies' - 1
    BY <1>1, StepKinds DEF SessionTypes
  <2>5. QED
    BY <1>1, <2>2, <2>3, <2>4 DEF SessionTypes
<1>4. KnownExactly'
  <2> DEFINE there == There \cup Declarations(Steps(known, binds, code)) \cup NeverDeclared(known, code)
  <2>1. /\ \A n \in GlobalsAfter(known, binds, code) : Var(n) \in there
        /\ \A n \in Name : FunctionsAfter(known, code)[n] # {} => Variadic(n) \in there
        /\ \A id \in there :
             \/ id[1] \in GlobalsAfter(known, binds, code) /\ OfVariable(id)
             \/ id[1] \in Name /\ FunctionsAfter(known, code)[id[1]] # {} /\ OfFunction(id)
    BY KnownAfter
  <2> HIDE DEF there
  <2>2. There' = there
    BY <1>2 DEF there
  <2>3. QED
    BY <1>1, <2>1, <2>2 DEF KnownExactly
<1>5. DeclaredOnce'
  <2>1. \A s \in Steps(known, binds, code) : \A id \in s.declares : id \notin There
    BY DeclaresNew
  <2>2. ASSUME NEW s \in batch', NEW t \in batch', s # t, NEW id \in s.declares \cap t.declares
        PROVE  id[1] \in DefinedTwice
    <3>1. CASE s \in batch /\ t \in batch
      BY <2>2, <3>1 DEF DeclaredOnce
    <3>2. CASE s \in Steps(known, binds, code) /\ t \in Steps(known, binds, code)
      BY <2>2, <3>2, StepsApart DEF BodyOf
    <3>3. \A u \in batch : u.declares \subseteq There
      BY DEF There, Declarations
    <3>4. QED
      BY <1>1, <2>1, <3>1, <3>2, <3>3
  <2>3. ASSUME NEW id \in Declarations(batch') \cap declared'
        PROVE  id[1] \in DefinedTwice
    <3>1. PICK s \in batch' : id \in s.declares
      BY DEF Declarations
    <3>2. id \in There
      BY DEF There
    <3>3. id \in Declarations(batch)
      BY <1>1, <2>1, <3>1, <3>2 DEF Declarations
    <3>4. QED
      BY <3>3 DEF DeclaredOnce
  <2>4. QED
    BY <2>2, <2>3 DEF DeclaredOnce
<1>6. NeedsAccounted'
  <2>1. SUFFICES ASSUME NEW s \in batch', NEW id \in s.needs
                 PROVE  Accounted(s, id, declared \cup lost', batch', globals')
    BY DEF NeedsAccounted
  <2>2. CASE s \in batch
    <3>1. Accounted(s, id, declared \cup lost, batch, globals)
      BY <2>2 DEF NeedsAccounted
    <3>2. \A n \in globals' : Var(n) \in (declared \cup lost') \cup Declarations(batch')
      BY <1>4 DEF KnownExactly, There
    <3>3. declared \cup lost \subseteq declared \cup lost' /\ batch \subseteq batch'
      BY <1>1
    <3>4. QED
      BY <3>1, <3>2, <3>3, AccountedLater
  <2>3. CASE s \in Steps(known, binds, code)
    <3>1. AccountedAfter(s, id, known, binds, code)
      BY <2>3, BodyAccounted
    <3>2. declared \cup lost' = declared \cup lost \cup NeverDeclared(known, code)
      BY <1>1
    <3>3. QED
      BY <1>1, <3>1, <3>2 DEF AccountedAfter
  <2>4. QED
    BY <1>1, <2>2, <2>3
<1>7. QED
  BY <1>3, <1>4, <1>5, <1>6

\* What the assumptions say of a file.
LEMMA FileBody ==
    ASSUME NEW f \in File
    PROVE  /\ Binds[f] \subseteq Name
           /\ Len(Forms[f]) \in Nat /\ DOMAIN Forms[f] = 1 .. Len(Forms[f])
           /\ \A i \in DOMAIN Forms[f] : IsForm(Forms[f][i])
           /\ NamesOf(Forms[f], Len(Forms[f]), {"declare"}) \subseteq Announced
           /\ Twice(Binds[f], Forms[f]) \subseteq DefinedTwice
           /\ Defined(f) = Binds[f] \cup NamesOf(Forms[f], Len(Forms[f]), {"def", "defn"})
                             \cup NamesOf(Forms[f], Len(Forms[f]), {"declare"})
<1>1. Binds[f] \subseteq Name /\ \A i \in DOMAIN Forms[f] : IsForm(Forms[f][i])
  BY ReplAssumption
<1>2. Forms[f] \in Seq({Forms[f][i] : i \in DOMAIN Forms[f]})
  BY ReplAssumption
<1>3. Len(Forms[f]) \in Nat /\ DOMAIN Forms[f] = 1 .. Len(Forms[f])
  BY <1>2, LenProperties
<1>4. NamesOf(Forms[f], Len(Forms[f]), {"declare"}) \subseteq Announced
  BY DEF Announced
<1>5. Twice(Binds[f], Forms[f]) \subseteq DefinedTwice
  BY DEF DefinedTwice
<1>6. Defined(f) = Binds[f] \cup NamesOf(Forms[f], Len(Forms[f]), {"def", "defn"})
                     \cup NamesOf(Forms[f], Len(Forms[f]), {"declare"})
  BY DEF Defined, NamesOf
<1>7. QED
  BY <1>1, <1>3, <1>4, <1>5, <1>6

\* What the session binds while nothing else changes.
LEMMA SameCode ==
    ASSUME SessionInv, UNCHANGED <<fns, globals, batch, declared, lost, bodies>>
    PROVE  SessionTypes' /\ KnownExactly' /\ DeclaredOnce' /\ NeedsAccounted'
<1>1. There' = There
  BY DEF There
<1>2. SessionTypes' /\ KnownExactly'
  BY <1>1 DEF SessionInv, SessionTypes, KnownExactly
<1>3. DeclaredOnce' /\ NeedsAccounted'
  BY DEF SessionInv, DeclaredOnce, NeedsAccounted
<1>4. QED
  BY <1>2, <1>3

LEMMA SameImports ==
    SessionInv /\ UNCHANGED <<calls, loaded>> => ImportsInProgress'
BY DEF SessionInv, ImportsInProgress

LEMMA NoCalls == calls' = << >> => ImportsInProgress'
BY DEF ImportsInProgress

\* An error: the steps are dropped, what they would declare is lost.
LEMMA GiveUpKeeps ==
    ASSUME SessionInv, NEW binds \in SUBSET Name,
           GiveUp({Var(n) : n \in binds \ globals}), globals' = globals \cup binds
    PROVE  SessionTypes' /\ KnownExactly' /\ DeclaredOnce' /\ NeedsAccounted' /\ ImportsInProgress'
<1>1. /\ batch' = {} /\ calls' = << >>
      /\ lost' = lost \cup Declarations(batch) \cup {Var(n) : n \in binds \ globals}
      /\ UNCHANGED <<fns, loaded, bodies, declared>>
  BY DEF GiveUp
<1>2. SessionTypes' /\ DeclaredOnce' /\ NeedsAccounted'
  BY <1>1 DEF SessionInv, SessionTypes, DeclaredOnce, NeedsAccounted, Declarations
<1>3. KnownExactly'
  <2>1. There' = There \cup {Var(n) : n \in binds \ globals}
    BY <1>1 DEF There, Declarations
  <2>2. ASSUME NEW n PROVE OfVariable(Var(n)) /\ Var(n)[1] = n
    BY Identifiers DEF OfVariable
  <2>3. QED
    BY <1>1, <2>1, <2>2 DEF SessionInv, KnownExactly
<1>4. QED
  BY <1>1, <1>2, <1>3, NoCalls

\* The same of an error before anything is bound.
LEMMA RefusalKeeps ==
    ASSUME SessionInv, GiveUp({}), UNCHANGED <<globals, bound>>
    PROVE  SessionInv'
<1>1. {Var(n) : n \in {} \ globals} = {} /\ globals' = globals \cup {}
  OBVIOUS
<1>2. SessionTypes' /\ KnownExactly' /\ DeclaredOnce' /\ NeedsAccounted' /\ ImportsInProgress'
  BY <1>1, GiveUpKeeps
<1>3. BoundToSomething'
  BY DEF GiveUp, SessionInv, BoundToSomething
<1>4. QED
  BY <1>2, <1>3 DEF SessionInv

LEMMA TypeLineKeeps ==
    ASSUME SessionInv, NEW form \in Line, TypeLine(form)
    PROVE  SessionInv'
<1>1. ImportsInProgress'
  BY SameImports DEF TypeLine
<1>2. CASE Compiles(Session, {}, <<form>>, TRUE, TRUE)
  <2>1. /\ Compiled(Session, {}, <<form>>) /\ declared' = declared /\ loaded' = loaded
        /\ bound' = BoundAfter(Session, {}, <<form>>)
    BY <1>2 DEF TypeLine
  <2>2. /\ Len(<<form>>) = 1 /\ DOMAIN <<form>> = 1 .. 1 /\ <<form>>[1] = form
        /\ IsForm(form)
    BY ReplAssumption
  <2>3. NamesOf(<<form>>, 1, {"declare"}) \subseteq Announced
    BY <2>2 DEF NamesOf, Announced
  <2>4. Twice({}, <<form>>) = {}
    BY <2>2 DEF Twice, OfOp
  <2>5. Session.fns = fns /\ Session.globals = globals /\ Session.bound = bound
    BY DEF Session
  <2>6. BodyOf(Session, {}, <<form>>, TRUE, TRUE)
    <3>1. \A i \in DOMAIN <<form>> : IsForm(<<form>>[i])
      BY <2>2
    <3>2. Session.bound \subseteq globals \cup Announced
      BY <2>5 DEF SessionInv, BoundToSomething
    <3>3. NamesOf(<<form>>, Len(<<form>>), {"declare"}) \subseteq Announced
      BY <2>2, <2>3
    <3>4. QED
      BY <1>2, <2>2, <2>5, <3>1, <3>2, <3>3 DEF BodyOf
  <2>7. SessionTypes' /\ KnownExactly' /\ DeclaredOnce' /\ NeedsAccounted'
    BY <2>1, <2>4, <2>6, CompiledKeeps DEF SessionInv
  <2>8. BoundToSomething'
    <3>1. globals' = globals \cup {} \cup NamesOf(<<form>>, 1, {"def", "defn"})
      BY <2>1, <2>2, <2>5 DEF Compiled, GlobalsAfter
    <3>2. NamesOf(<<form>>, 1, {"def", "defn", "declare"}) \subseteq
            NamesOf(<<form>>, 1, {"def", "defn"}) \cup NamesOf(<<form>>, 1, {"declare"})
      BY DEF NamesOf
    <3>3. bound' = bound \cup {} \cup NamesOf(<<form>>, 1, {"def", "defn", "declare"})
      BY <2>1, <2>2, <2>5 DEF BoundAfter
    <3>4. QED
      BY <2>1, <2>3, <3>1, <3>2, <3>3 DEF SessionInv, BoundToSomething
  <2>9. QED
    BY <1>1, <2>7, <2>8 DEF SessionInv
<1>3. CASE ~Compiles(Session, {}, <<form>>, TRUE, TRUE)
  <2>1. UNCHANGED <<fns, globals, batch, lost, bodies, bound, declared, loaded>>
    BY <1>3 DEF TypeLine
  <2>2. SessionTypes' /\ KnownExactly' /\ DeclaredOnce' /\ NeedsAccounted'
    BY <2>1, SameCode
  <2>3. BoundToSomething'
    BY <2>1 DEF SessionInv, BoundToSomething
  <2>4. QED
    BY <1>1, <2>2, <2>3 DEF SessionInv
<1>4. QED
  BY <1>2, <1>3

LEMMA BeginKeeps ==
    ASSUME SessionInv, NEW command \in {"import", "load"}, NEW f \in File, Begin(command, f)
    PROVE  SessionInv'
<1>1. /\ calls' = <<[call |-> command, file |-> f, at |-> 1]>>
      /\ bodies' = 0 /\ batch = {}
      /\ UNCHANGED <<fns, globals, bound, loaded, batch, declared, lost>>
  BY DEF Begin, Prompt
<1>2. SessionTypes' /\ DeclaredOnce' /\ BoundToSomething' /\ NeedsAccounted'
  BY <1>1 DEF SessionInv, SessionTypes, DeclaredOnce, BoundToSomething, NeedsAccounted
<1>3. There' = There
  BY <1>1 DEF There
<1>4. KnownExactly'
  BY <1>1, <1>3 DEF SessionInv, KnownExactly
<1>5. ImportsInProgress'
  BY <1>1 DEF ImportsInProgress, CallRecord
<1>6. QED
  BY <1>2, <1>4, <1>5 DEF SessionInv

LEMMA CallFacts ==
    ASSUME ImportsInProgress, calls # << >>
    PROVE  /\ Len(calls) \in DOMAIN calls /\ Current = calls[Len(calls)]
           /\ Current.call \in {"import", "load", "module"}
           /\ Current.file \in File /\ Current.at \in Nat \ {0}
<1>1. calls \in Seq(CallRecord)
  BY DEF ImportsInProgress
<1>2. Len(calls) \in DOMAIN calls /\ Current = calls[Len(calls)]
  BY <1>1 DEF Current
<1>3. calls[Len(calls)] \in CallRecord
  BY <1>1, <1>2
<1>4. QED
  BY <1>2, <1>3 DEF CallRecord

LEMMA NextImportKeeps == SessionInv /\ NextImport => SessionInv'
<1> SUFFICES ASSUME SessionInv, NextImport PROVE SessionInv'
  OBVIOUS
<1>1. /\ calls # << >> /\ Current.at <= Len(Needed)
      /\ NextFile \in loaded
      /\ calls' = [calls EXCEPT ![Len(calls)].at = @ + 1]
      /\ bound' = IF Current.call = "module" THEN bound ELSE bound \cup Defined(NextFile)
      /\ UNCHANGED <<fns, globals, batch, declared, lost, bodies, loaded>>
  BY DEF NextImport, IsLoaded, AtImport
<1>2. SessionTypes' /\ KnownExactly' /\ DeclaredOnce' /\ NeedsAccounted'
  BY <1>1, SameCode
<1>3. BoundToSomething'
  BY <1>1 DEF SessionInv, BoundToSomething
<1>4. ImportsInProgress'
  <2>1. /\ Len(calls) \in DOMAIN calls /\ Current = calls[Len(calls)]
        /\ Current.file \in File /\ Current.at \in Nat \ {0}
    BY <1>1, CallFacts DEF SessionInv
  <2>2. calls \in Seq(CallRecord)
    BY DEF SessionInv, ImportsInProgress
  <2>3. calls' \in Seq(CallRecord)
    <3> DEFINE new == [calls[Len(calls)] EXCEPT !.at = @ + 1]
    <3>1. calls[Len(calls)] \in CallRecord
      BY <2>1, <2>2
    <3>2. new \in CallRecord
      BY <3>1 DEF CallRecord
    <3>3. calls' = [calls EXCEPT ![Len(calls)] = new]
      BY <1>1
    <3> HIDE DEF new
    <3>4. QED
      BY <2>1, <2>2, <3>2, <3>3
  <2>4. /\ DOMAIN calls' = DOMAIN calls
        /\ \A i \in DOMAIN calls : /\ calls'[i].call = calls[i].call /\ calls'[i].file = calls[i].file
                                   /\ calls'[i].at = IF i = Len(calls) THEN calls[i].at + 1 ELSE calls[i].at
    BY <1>1, <2>1, <2>2
  <2>5. ASSUME NEW i \in DOMAIN calls, calls[i].call = "module",
               NEW j \in DOMAIN Imports[calls[i].file], j < calls'[i].at
        PROVE  Imports[calls[i].file][j] \in loaded
    <3>1. CASE j < calls[i].at
      BY <2>5, <3>1 DEF SessionInv, ImportsInProgress
    <3>2. CASE i = Len(calls) /\ ~(j < calls[i].at)
      <4>1. Imports[calls[i].file] \in Seq(File)
        BY <2>1, <3>2, ReplAssumption
      <4>2. j = calls[i].at
        BY <2>1, <2>4, <2>5, <3>2, <4>1
      <4>3. NextFile = Imports[calls[i].file][j]
        BY <2>1, <2>5, <3>2, <4>2 DEF NextFile, Needed
      <4>4. QED
        BY <1>1, <4>3
    <3>3. QED
      BY <2>4, <2>5, <3>1, <3>2
  <2>6. QED
    BY <1>1, <2>3, <2>4, <2>5 DEF SessionInv, ImportsInProgress
<1>5. QED
  BY <1>2, <1>3, <1>4 DEF SessionInv

LEMMA EnsureLoadedKeeps == SessionInv /\ EnsureLoaded => SessionInv'
<1> SUFFICES ASSUME SessionInv, EnsureLoaded PROVE SessionInv'
  OBVIOUS
<1>1. /\ NextFile \notin loaded /\ NextFile \in Headed \ Loading
      /\ calls' = Append(calls, [call |-> "module", file |-> NextFile, at |-> 1])
      /\ UNCHANGED <<fns, globals, bound, batch, declared, lost, bodies, loaded>>
  BY DEF EnsureLoaded, IsLoaded
<1>2. SessionTypes' /\ KnownExactly' /\ DeclaredOnce' /\ NeedsAccounted'
  BY <1>1, SameCode
<1>3. BoundToSomething'
  BY <1>1 DEF SessionInv, BoundToSomething
<1>4. ImportsInProgress'
  <2> DEFINE new == [call |-> "module", file |-> NextFile, at |-> 1]
  <2>1. calls \in Seq(CallRecord)
    BY DEF SessionInv, ImportsInProgress
  <2>2. new \in CallRecord
    BY <1>1, ReplAssumption DEF CallRecord
  <2> HIDE DEF new
  <2>3. calls' = Append(calls, new)
    BY <1>1 DEF new
  <2>4. /\ calls' \in Seq(CallRecord)
        /\ Len(calls) \in Nat /\ DOMAIN calls = 1 .. Len(calls)
        /\ DOMAIN calls' = 1 .. Len(calls) + 1
        /\ \A i \in DOMAIN calls : calls'[i] = calls[i]
        /\ calls'[Len(calls) + 1] = new
    BY <2>1, <2>2, <2>3
  <2>5. \A i \in DOMAIN calls : calls[i].call = "module" => calls[i].file # NextFile
    BY <1>1 DEF Loading
  <2>6. new.call = "module" /\ new.file = NextFile /\ new.at = 1
    BY DEF new
  <2>7. ASSUME NEW i \in DOMAIN calls', calls'[i].call = "module"
        PROVE  /\ calls'[i].file \notin loaded
               /\ \A j \in DOMAIN calls' :
                    calls'[j].call = "module" /\ j # i => calls'[j].file # calls'[i].file
               /\ \A j \in DOMAIN Imports[calls'[i].file] :
                    j < calls'[i].at => Imports[calls'[i].file][j] \in loaded
    <3>1. CASE i \in DOMAIN calls
      <4>1. /\ calls[i].file \notin loaded
            /\ \A j \in DOMAIN calls :
                 calls[j].call = "module" /\ j # i => calls[j].file # calls[i].file
            /\ \A j \in DOMAIN Imports[calls[i].file] :
                 j < calls[i].at => Imports[calls[i].file][j] \in loaded
        BY <2>4, <2>7, <3>1 DEF SessionInv, ImportsInProgress
      <4>2. calls[i].call = "module" /\ calls'[i] = calls[i]
        BY <2>4, <2>7, <3>1
      <4>3. ASSUME NEW j \in DOMAIN calls', calls'[j].call = "module", j # i
            PROVE  calls'[j].file # calls[i].file
        <5>1. CASE j \in DOMAIN calls
          BY <2>4, <4>1, <4>3, <5>1
        <5>2. CASE j = Len(calls) + 1
          BY <2>4, <2>5, <2>6, <3>1, <4>2, <5>2
        <5>3. QED
          BY <2>4, <5>1, <5>2
      <4>4. QED
        BY <4>1, <4>2, <4>3
    <3>2. CASE i = Len(calls) + 1
      <4>1. calls'[i].file = NextFile /\ calls'[i].at = 1
        BY <2>4, <2>6, <3>2
      <4>2. \A j \in DOMAIN calls' : j # i => j \in DOMAIN calls /\ calls'[j] = calls[j]
        BY <2>4, <3>2
      <4>3. Imports[NextFile] \in Seq(File)
        BY <1>1, ReplAssumption
      <4>4. \A j \in DOMAIN Imports[NextFile] : ~(j < 1)
        BY <4>3
      <4>5. QED
        BY <1>1, <2>5, <4>1, <4>2, <4>4
    <3>3. QED
      BY <2>4, <3>1, <3>2
  <2>8. QED
    BY <1>1, <2>4, <2>7 DEF ImportsInProgress
<1>5. QED
  BY <1>2, <1>3, <1>4 DEF SessionInv

\* The names a file defines are bound or announced once it is compiled.
LEMMA DefinedAfter ==
    ASSUME NEW known, NEW f \in File
    PROVE  /\ Defined(f) \subseteq GlobalsAfter(known, Binds[f], Forms[f]) \cup Announced
           /\ BoundAfter(known, Binds[f], Forms[f]) \subseteq
                known.bound \cup GlobalsAfter(known, Binds[f], Forms[f]) \cup Announced
           /\ known.globals \subseteq GlobalsAfter(known, Binds[f], Forms[f])
<1>1. NamesOf(Forms[f], Len(Forms[f]), {"def", "defn", "declare"}) \subseteq
         NamesOf(Forms[f], Len(Forms[f]), {"def", "defn"})
           \cup NamesOf(Forms[f], Len(Forms[f]), {"declare"})
  BY DEF NamesOf
<1>2. QED
  BY <1>1, FileBody DEF GlobalsAfter, BoundAfter

LEMMA ModuleLoadedKeeps == SessionInv /\ ModuleLoaded => SessionInv'
<1> SUFFICES ASSUME SessionInv, ModuleLoaded PROVE SessionInv'
  OBVIOUS
<1> DEFINE f == Current.file
<1>1. /\ calls # << >> /\ Current.at > Len(Needed) /\ Current.call = "module"
      /\ Compiles(ModuleContext, Binds[f], Forms[f], FALSE, redefine)
      /\ Compiled(ModuleContext, Binds[f], Forms[f])
      /\ loaded' = loaded \cup {f}
      /\ calls' = Callers
      /\ bound' = bound /\ declared' = declared
  BY DEF ModuleLoaded, AtBody, ModuleCompiles
<1>2. /\ Len(calls) \in DOMAIN calls /\ Current = calls[Len(calls)]
      /\ f \in File /\ Current.at \in Nat \ {0}
  BY <1>1, CallFacts DEF SessionInv
<1> HIDE DEF f
<1>3. ModuleContext.fns = fns /\ ModuleContext.globals = globals
  BY DEF ModuleContext
<1>4. ModuleContext.bound \subseteq globals \cup Announced
  <2>1. Needed = Imports[f] /\ Imports[f] \in Seq(File)
    BY <1>1, <1>2, ReplAssumption DEF Needed, f
  <2>2. \A i \in DOMAIN Needed : Needed[i] \in loaded
    <3>1. ASSUME NEW i \in DOMAIN Needed
          PROVE  Needed[i] \in loaded
      <4>1. i \in DOMAIN Imports[Current.file] /\ i < Current.at
        BY <1>1, <1>2, <2>1, <3>1 DEF f
      <4>2. \A j \in DOMAIN Imports[Current.file] : j < Current.at => Imports[Current.file][j] \in loaded
        BY <1>1, <1>2 DEF SessionInv, ImportsInProgress
      <4>3. QED
        BY <2>1, <4>1, <4>2 DEF f
    <3>2. QED
      BY <3>1
  <2>3. \A i \in DOMAIN Needed : Defined(Needed[i]) \subseteq globals \cup Announced
    BY <2>2 DEF SessionInv, BoundToSomething
  <2>4. ModuleContext.bound = UNION {Defined(Needed[i]) : i \in DOMAIN Needed}
    BY DEF ModuleContext
  <2>5. QED
    BY <2>3, <2>4
<1>5. BodyOf(ModuleContext, Binds[f], Forms[f], FALSE, redefine)
  BY <1>1, <1>2, <1>3, <1>4, FileBody DEF BodyOf
<1>6. SessionTypes' /\ KnownExactly' /\ DeclaredOnce' /\ NeedsAccounted'
  BY <1>1, <1>2, <1>5, FileBody, CompiledKeeps DEF SessionInv
<1>7. BoundToSomething'
  <2>1. globals' = GlobalsAfter(ModuleContext, Binds[f], Forms[f])
    BY <1>1 DEF Compiled
  <2>2. Defined(f) \subseteq globals' \cup Announced /\ globals \subseteq globals'
    BY <1>2, <1>3, <2>1, DefinedAfter
  <2>3. QED
    BY <1>1, <2>2 DEF SessionInv, BoundToSomething
<1>8. ImportsInProgress'
  <2>1. calls \in Seq(CallRecord)
    BY DEF SessionInv, ImportsInProgress
  <2>2. /\ calls' \in Seq(CallRecord)
        /\ DOMAIN calls' = 1 .. Len(calls) - 1
        /\ \A i \in DOMAIN calls' : i \in DOMAIN calls /\ calls'[i] = calls[i] /\ i # Len(calls)
    BY <1>1, <1>2, <2>1, SubSeqProperties DEF Callers
  <2>3. \A i \in DOMAIN calls : calls[i].call = "module" /\ i # Len(calls) => calls[i].file # f
    BY <1>1, <1>2 DEF SessionInv, ImportsInProgress, f
  <2>4. ASSUME NEW i \in DOMAIN calls', calls'[i].call = "module"
        PROVE  /\ calls'[i].file \notin loaded'
               /\ \A j \in DOMAIN calls' :
                    calls'[j].call = "module" /\ j # i => calls'[j].file # calls'[i].file
               /\ \A j \in DOMAIN Imports[calls'[i].file] :
                    j < calls'[i].at => Imports[calls'[i].file][j] \in loaded'
    <3>1. i \in DOMAIN calls /\ calls[i].call = "module" /\ calls'[i] = calls[i] /\ i # Len(calls)
      BY <2>2, <2>4
    <3>2. /\ calls[i].file \notin loaded /\ calls[i].file # f
          /\ \A j \in DOMAIN calls :
               calls[j].call = "module" /\ j # i => calls[j].file # calls[i].file
          /\ \A j \in DOMAIN Imports[calls[i].file] :
               j < calls[i].at => Imports[calls[i].file][j] \in loaded
      BY <2>3, <3>1 DEF SessionInv, ImportsInProgress
    <3>3. QED
      BY <1>1, <2>2, <3>1, <3>2
  <2>5. QED
    BY <2>2, <2>4 DEF ImportsInProgress
<1>9. QED
  BY <1>6, <1>7, <1>8 DEF SessionInv

LEMMA FileLoadedKeeps == SessionInv /\ FileLoaded => SessionInv'
<1> SUFFICES ASSUME SessionInv, FileLoaded PROVE SessionInv'
  OBVIOUS
<1> DEFINE f == Current.file
<1>1. /\ calls # << >>
      /\ Compiles(Session, Binds[f], Forms[f], TRUE, TRUE)
      /\ Compiled(Session, Binds[f], Forms[f])
      /\ bound' = BoundAfter(Session, Binds[f], Forms[f])
      /\ calls' = << >>
      /\ loaded' = loaded /\ declared' = declared
  BY DEF FileLoaded, AtBody, FileCompiles, KnownBefore
<1>2. f \in File
  BY <1>1, CallFacts DEF SessionInv
<1> HIDE DEF f
<1>3. Session.fns = fns /\ Session.globals = globals /\ Session.bound = bound
  BY DEF Session
<1>4. BodyOf(Session, Binds[f], Forms[f], TRUE, TRUE)
  <2>1. bound \subseteq globals \cup Announced
    BY DEF SessionInv, BoundToSomething
  <2>2. QED
    BY <1>1, <1>2, <1>3, <2>1, FileBody DEF BodyOf
<1>5. SessionTypes' /\ KnownExactly' /\ DeclaredOnce' /\ NeedsAccounted'
  BY <1>1, <1>2, <1>4, FileBody, CompiledKeeps DEF SessionInv
<1>6. BoundToSomething'
  <2>1. globals' = GlobalsAfter(Session, Binds[f], Forms[f])
    BY <1>1 DEF Compiled
  <2>2. bound' \subseteq bound \cup globals' \cup Announced /\ globals \subseteq globals'
    BY <1>1, <1>2, <1>3, <2>1, DefinedAfter
  <2>3. QED
    BY <1>1, <2>2 DEF SessionInv, BoundToSomething
<1>7. ImportsInProgress'
  BY <1>1, NoCalls
<1>8. QED
  BY <1>5, <1>6, <1>7 DEF SessionInv

LEMMA FileRefusedKeeps == SessionInv /\ FileRefused => SessionInv'
<1> SUFFICES ASSUME SessionInv, FileRefused PROVE SessionInv'
  OBVIOUS
<1>1. Current.file \in File
  BY CallFacts DEF FileRefused, AtBody, SessionInv
<1>2. PICK binds \in {Binds[Current.file]} \cup (IF Current.file \in broken THEN {{}} ELSE {}) :
           /\ GiveUp({Var(n) : n \in binds \ globals})
           /\ globals' = globals \cup binds
           /\ bound' = bound \cup binds
  BY DEF FileRefused
<1>3. binds \in SUBSET Name
  BY <1>1, FileBody
<1>4. SessionTypes' /\ KnownExactly' /\ DeclaredOnce' /\ NeedsAccounted' /\ ImportsInProgress'
  BY <1>2, <1>3, GiveUpKeeps
<1>5. BoundToSomething'
  BY <1>2 DEF GiveUp, SessionInv, BoundToSomething
<1>6. QED
  BY <1>4, <1>5 DEF SessionInv

LEMMA SucceedKeeps ==
    ASSUME SessionInv, NEW s \in Due, Succeed(s)
    PROVE  SessionInv'
<1>1. /\ s \in batch /\ declared' = declared \cup s.declares /\ batch' = batch \ {s}
      /\ UNCHANGED <<fns, globals, bound, loaded, calls, bodies, lost>>
  BY DEF Succeed, Due
<1>2. There' = There
  BY <1>1 DEF There, Declarations
<1>3. SessionTypes' /\ KnownExactly'
  BY <1>1, <1>2 DEF SessionInv, SessionTypes, KnownExactly
<1>4. DeclaredOnce'
  <2>1. ASSUME NEW id \in Declarations(batch') \cap declared'
        PROVE  id[1] \in DefinedTwice
    <3>1. PICK t \in batch' : id \in t.declares
      BY DEF Declarations
    <3>2. CASE id \in declared
      BY <1>1, <3>1, <3>2 DEF SessionInv, DeclaredOnce, Declarations
    <3>3. CASE id \in s.declares
      BY <1>1, <3>1, <3>3 DEF SessionInv, DeclaredOnce
    <3>4. QED
      BY <1>1, <3>2, <3>3
  <2>2. QED
    BY <1>1, <2>1 DEF SessionInv, DeclaredOnce
<1>5. NeedsAccounted'
  <2>1. SUFFICES ASSUME NEW t \in batch', NEW id \in t.needs
                 PROVE  Accounted(t, id, declared' \cup lost, batch', globals)
    BY <1>1 DEF NeedsAccounted
  <2>2. Accounted(t, id, declared \cup lost, batch, globals)
    BY <1>1 DEF SessionInv, NeedsAccounted
  <2>3. \A u \in batch : u \in batch' \/ u.declares \subseteq declared' \cup lost
    BY <1>1
  <2>4. \A n \in globals : Var(n) \in (declared' \cup lost) \cup Declarations(batch')
    BY <1>1, <1>3 DEF KnownExactly, There
  <2>5. declared \cup lost \subseteq declared' \cup lost
    BY <1>1
  <2>6. QED
    BY <2>2, <2>3, <2>4, <2>5, AccountedLater
<1>6. BoundToSomething' /\ ImportsInProgress'
  BY <1>1, SameImports DEF SessionInv, BoundToSomething
<1>7. QED
  BY <1>3, <1>4, <1>5, <1>6 DEF SessionInv

LEMMA FailKeeps ==
    ASSUME SessionInv, NEW s \in Due, Fail(s)
    PROVE  SessionInv'
<1>1. /\ s \in batch /\ declared' = declared \cup s.declares /\ batch' = {}
      /\ lost' = lost \cup Declarations(batch \ {s})
      /\ UNCHANGED <<fns, globals, bound, loaded, calls, bodies>>
  BY DEF Fail, Due
<1>2. There' = There
  BY <1>1 DEF There, Declarations
<1>3. SessionTypes' /\ KnownExactly'
  BY <1>1, <1>2 DEF SessionInv, SessionTypes, KnownExactly
<1>4. DeclaredOnce' /\ NeedsAccounted'
  BY <1>1 DEF DeclaredOnce, NeedsAccounted, Declarations
<1>5. BoundToSomething' /\ ImportsInProgress'
  BY <1>1, SameImports DEF SessionInv, BoundToSomething
<1>6. QED
  BY <1>3, <1>4, <1>5 DEF SessionInv

LEMMA SessionInitInv == SessionInit => SessionInv
<1> SUFFICES ASSUME SessionInit PROVE SessionInv
  OBVIOUS
<1>1. There = {}
  BY DEF SessionInit, There, Declarations
<1>2. SessionTypes /\ KnownExactly
  BY <1>1 DEF SessionInit, SessionTypes, KnownExactly
<1>3. DeclaredOnce /\ BoundToSomething /\ NeedsAccounted /\ ImportsInProgress
  BY DEF SessionInit, DeclaredOnce, BoundToSomething, NeedsAccounted, ImportsInProgress
<1>4. QED
  BY <1>2, <1>3 DEF SessionInv

LEMMA SessionNextInv == SessionInv /\ [SessionNext]_sessionVars => SessionInv'
<1> SUFFICES ASSUME SessionInv, [SessionNext]_sessionVars PROVE SessionInv'
  OBVIOUS
<1>1. CASE UNCHANGED <<fns, globals, bound, loaded, calls, bodies, batch, declared, lost>>
  <2>1. SessionTypes' /\ KnownExactly' /\ DeclaredOnce' /\ NeedsAccounted'
    BY <1>1, SameCode
  <2>2. BoundToSomething' /\ ImportsInProgress'
    BY <1>1, SameImports DEF SessionInv, BoundToSomething
  <2>3. QED
    BY <2>1, <2>2 DEF SessionInv
<1>2. ASSUME NEW form \in Line, TypeLine(form) PROVE SessionInv'
  BY <1>2, TypeLineKeeps
<1>3. ASSUME NEW f \in File, Begin("import", f) \/ Begin("load", f) PROVE SessionInv'
  BY <1>3, BeginKeeps
<1>4. ASSUME NEW f \in File, Correct(f) PROVE SessionInv'
  BY <1>1, <1>4 DEF Correct
<1>5. CASE NextImport
  BY <1>5, NextImportKeeps
<1>6. CASE EnsureLoaded
  BY <1>6, EnsureLoadedKeeps
<1>7. CASE ImportRefused
  BY <1>7, RefusalKeeps DEF ImportRefused
<1>8. CASE ModuleRefused
  BY <1>8, RefusalKeeps DEF ModuleRefused
<1>9. CASE ImportDone
  <2>1. /\ calls' = << >>
        /\ UNCHANGED <<fns, globals, bound, loaded, bodies, batch, declared, lost>>
    BY <1>9 DEF ImportDone
  <2>2. SessionTypes' /\ KnownExactly' /\ DeclaredOnce' /\ NeedsAccounted'
    BY <2>1, SameCode
  <2>3. BoundToSomething' /\ ImportsInProgress'
    BY <2>1, NoCalls DEF SessionInv, BoundToSomething
  <2>4. QED
    BY <2>2, <2>3 DEF SessionInv
<1>10. CASE ModuleLoaded
  BY <1>10, ModuleLoadedKeeps
<1>11. CASE FileLoaded
  BY <1>11, FileLoadedKeeps
<1>12. CASE FileRefused
  BY <1>12, FileRefusedKeeps
<1>13. ASSUME NEW s \in Due, Succeed(s) \/ Fail(s) PROVE SessionInv'
  BY <1>13, SucceedKeeps, FailKeeps
<1>14. CASE UNCHANGED sessionVars
  BY <1>1, <1>14 DEF sessionVars
<1>15. QED
  BY <1>2, <1>3, <1>4, <1>5, <1>6, <1>7, <1>8, <1>9, <1>10, <1>11, <1>12, <1>13, <1>14
     DEF SessionNext

\* What the compiler knows and what the interpreter has, is about to get or
\* will never get are the same (ReplCompiler and executeCompiledBatch); every
\* reference is accounted for when it is compiled and stays so.
THEOREM SessionInvariant == SessionSpec => []SessionInv
<1>1. SessionInit => SessionInv
  BY SessionInitInv
<1>2. SessionInv /\ [SessionNext]_sessionVars => SessionInv'
  BY SessionNextInv
<1>3. QED
  BY <1>1, <1>2, PTL DEF SessionSpec

\* The compiler counts on no variable or function whose declaration was not
\* evaluated, is not waiting and was not lost, and declares none again unless a
\* file defines the name twice (replCompileResultSetups and its knownBindings).
THEOREM KnownIsDeclaredCorrect == SessionSpec => []KnownIsDeclared
<1>1. SessionInv => KnownIsDeclared
  BY DEF SessionInv, KnownExactly, DeclaredOnce, There, KnownIsDeclared
<1>2. QED
  BY <1>1, SessionInvariant, PTL

\* Whatever identifier the interpreter does not have when it comes to a step is
\* missing for one of the known reasons (evalCompiled).
THEOREM UndefinedExplainedCorrect == SessionSpec => []UndefinedExplained
<1>1. SessionInv => UndefinedExplained
  <2> SUFFICES ASSUME SessionInv, NEW s \in Due, NEW id \in Undefined(s)
                 PROVE  LET n == id[1] IN
                        \/ id \in lost
                        \/ id = Arity(n, id[3]) /\ Variadic(n) \in declared \cup lost
                        \/ id = Var(n) /\ id \in Declarations(batch) /\ (s.part = 2 \/ n \in Announced)
                        \/ id = Var(n) /\ n \in Announced \ globals
                        \/ id = Unnamed(n) /\ s.part = 2
    BY DEF UndefinedExplained
  <2>2. s \in batch /\ \A t \in batch : ~Earlier(t, s)
    BY DEF Due
  <2>3. id \in s.needs /\ id \notin declared \cup s.declares
    BY DEF Undefined
  <2>4. Accounted(s, id, declared \cup lost, batch, globals)
    BY <2>2, <2>3 DEF SessionInv, NeedsAccounted
  <2>5. Prepared(s, declared \cup lost, batch) = declared \cup lost
    BY <2>2 DEF Prepared, Declarations
  <2>6. QED
    BY <2>3, <2>4, <2>5 DEF Accounted, OfVariable
<1>2. QED
  BY <1>1, SessionInvariant, PTL

\* No import runs a module that is loaded, in whatever order modules import each
\* other and whichever of them are refused (ensureModuleLoaded).
THEOREM ImportsRunOnceCorrect == SessionSpec => ImportsRunOnce
<1>1. SessionInv => (ModuleLoaded => Current.file \notin loaded)
  <2> SUFFICES ASSUME SessionInv, ModuleLoaded PROVE Current.file \notin loaded
    OBVIOUS
  <2>2. calls # << >> /\ Current.call = "module"
    BY DEF ModuleLoaded, AtBody
  <2>3. Len(calls) \in DOMAIN calls /\ Current = calls[Len(calls)]
    BY <2>2, CallFacts DEF SessionInv
  <2>4. QED
    BY <2>2, <2>3 DEF SessionInv, ImportsInProgress
<1>2. QED
  BY <1>1, SessionInvariant, PTL DEF ImportsRunOnce
=============================================================================
