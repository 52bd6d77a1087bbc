----------------------------- MODULE Collections -----------------------------
(***************************************************************************)
(* The values of a program and the runtime's functions over collections    *)
(* that call no function of the program (runtime/seq.go, mapset.go).       *)
(*                                                                         *)
(* A lazy list is the items it will give and how it goes on after them:    *)
(* it ends, with its length known ("known") or not ("done"), or producing  *)
(* the next item panics ("panic") or does not return ("stuck": an endless  *)
(* list past the horizon, lines or messages that do not come).  A call     *)
(* that panics or does not return gives the value of that kind.            *)
(***************************************************************************)
EXTENDS Integers, Sequences

CONSTANT Horizon \* items of an endless list that are there

Value(kind) == [kind |-> kind, n |-> 0, s |-> "", items |-> << >>, end |-> "known"]
Nil == Value("nil")
Panic == Value("panic")
Stuck == Value("stuck")
Num(n) == [Value("int") EXCEPT !.n = n]
Bool(b) == [Value("bool") EXCEPT !.n = IF b THEN 1 ELSE 0]
Str(s) == [Value("string") EXCEPT !.s = s]
Coll(kind, items) == [Value(kind) EXCEPT !.items = items]
Array(items) == Coll("array", items)
Lazy(items, end) == [Coll("lazy", items) EXCEPT !.end = end]
Fn(name) == [Value("fn") EXCEPT !.s = name]
Closure(name, captured) == [Fn(name) EXCEPT !.n = 1, !.items = captured]

Truthy(v) == v.kind # "nil" /\ v # Bool(FALSE)
Number(v) == v.kind \in {"int", "float"}
Eq(u, v) == IF Number(u) /\ Number(v) THEN u.n = v.n ELSE u = v

\* What comes of v goes on to F, unless v is a panic or never comes.
Bad(v) == v.kind \in {"panic", "stuck"}
Then(v, F(_)) == IF Bad(v) THEN v ELSE F(v)

(******************************* The cursor *******************************)

Sequential == {"list", "array", "vector", "lazy"}
Seqable == Sequential \cup {"nil", "map", "set", "string"}
Contents(v) == IF v.kind = "string" THEN [i \in 1 .. Len(v.s) |-> Str(SubSeq(v.s, i, i))] ELSE v.items

Breaks(v) == v.kind = "lazy" /\ v.end \in {"panic", "stuck"}
\* Mutant: a cursor that takes two items ahead.
EagerDelivered(v) == IF Breaks(v) THEN SubSeq(v.items, 1, Len(v.items) - 2) ELSE Contents(v)
\* A cursor takes the tail with each item, and the tail produces its first
\* item: of a list that breaks off it never gives the last item before.
Delivered(v) == IF Breaks(v) THEN SubSeq(v.items, 1, Len(v.items) - 1) ELSE Contents(v)
After(v) == IF Breaks(v) THEN v.end ELSE "done"
KnownLength(v) == v.kind # "string" /\ (v.kind = "lazy" => v.end = "known")

Vec(v) == IF v.kind \notin Seqable THEN Panic
          ELSE IF Breaks(v) THEN Value(v.end) ELSE Array(Contents(v))
DoAll(v) == IF v.kind \in Sequential THEN Vec(v) ELSE v
Count(v) == Then(Vec(v), LAMBDA a : Num(Len(a.items)))

(************************** One item and the rest *************************)

IsEmpty(v) == IF v.kind \notin Seqable THEN Panic
              ELSE IF Breaks(v) /\ v.items = << >> THEN Value(v.end) ELSE Bool(Contents(v) = << >>)
NotEmpty(v) == IF v.kind = "nil" THEN Panic
               ELSE Then(IsEmpty(v), LAMBDA e : IF Truthy(e) THEN Nil ELSE v)
SeqOf(v) == Then(NotEmpty(v), LAMBDA r : IF r.kind = "string" THEN Vec(r) ELSE r)

First(v) == IF v.kind = "map" THEN Panic
            ELSE Then(IsEmpty(v), LAMBDA e : IF Truthy(e) THEN Nil ELSE Contents(v)[1])
TailOf(s) == SubSeq(s, 2, Len(s))
LazyTail(v) == IF Breaks(v) /\ Len(v.items) <= 1 THEN Value(v.end) ELSE [v EXCEPT !.items = TailOf(@)]
Rest(v) == CASE v.kind = "lazy" -> LazyTail(v)
             [] v.kind \in Sequential \ {"lazy"} -> [v EXCEPT !.items = TailOf(@)]
             [] v.kind \in {"string", "set"} -> Array(TailOf(Contents(v)))
             [] OTHER -> Panic
Next(v) == IF v.kind = "nil" THEN Nil ELSE Then(Rest(v), NotEmpty)
Last(v) == IF v.kind \notin Sequential THEN Panic
           ELSE Then(Vec(v), LAMBDA a : IF a.items = << >> THEN Nil ELSE a.items[Len(a.items)])

NonNegative(n) == n.kind = "int" /\ n.n >= 0
Take(n, v) ==
    IF ~NonNegative(n) THEN Panic
    ELSE IF n.n = 0 THEN Array(<< >>)
    ELSE IF v.kind \notin Seqable THEN Panic
    ELSE IF Len(Delivered(v)) >= n.n THEN Array(SubSeq(Delivered(v), 1, n.n))
    ELSE Vec(v)

\* A lazy list stops at the first nil it would drop.
RECURSIVE DropLazy(_, _)
DropLazy(n, v) == IF n = 0 THEN v
                  ELSE Then(First(v), LAMBDA x : IF x = Nil THEN v
                            ELSE Then(LazyTail(v), LAMBDA t : DropLazy(n - 1, t)))
Drop(n, v) ==
    CASE ~NonNegative(n) -> Panic
      [] NonNegative(n) /\ n.n = 0 -> v
      [] NonNegative(n) /\ n.n > 0 /\ v.kind \notin Sequential -> Panic
      [] OTHER -> IF v.kind = "lazy" THEN DropLazy(n.n, v)
                  ELSE [v EXCEPT !.items = SubSeq(@, n.n + 1, Len(@))]

SlowNth(v, i) == IF ~NonNegative(i) \/ v.kind \in {"map", "set"} \/ v.kind \notin Seqable THEN Panic
                 ELSE IF Len(Delivered(v)) > i.n THEN Delivered(v)[i.n + 1]
                 ELSE Then(Vec(v), LAMBDA a : Panic)
Nth(v, i) == IF v.kind \in {"list", "lazy"} THEN Panic ELSE SlowNth(v, i)

(***************************** Maps and sets ******************************)

\* Entries and items come in the order of their identities.
Rank(v) == CASE v.kind = "bool" -> 0 [] v.kind = "keyword" -> 10 [] v.kind = "int" -> 20 [] OTHER -> 30
Before(u, v) == Rank(u) + u.n < Rank(v) + v.n
Key(entry) == entry.items[1]
Has(items, x) == \E i \in DOMAIN items : items[i] = x
Put(entries, k, v) ==
    LET apart(e) == Key(e) # k
        before(e) == apart(e) /\ Before(Key(e), k)
        after(e) == apart(e) /\ ~Before(Key(e), k)
    IN  SelectSeq(entries, before) \o <<Array(<<k, v>>)>> \o SelectSeq(entries, after)
Add(items, x) == LET before(y) == Before(y, x)
                     after(y) == y # x /\ ~Before(y, x)
                 IN  SelectSeq(items, before) \o <<x>> \o SelectSeq(items, after)

\* The value of a key or an index, or nothing.
Found(v, k) == IF v.kind = "map" THEN {v.items[i].items[2] : i \in {i \in DOMAIN v.items : Key(v.items[i]) = k}}
               ELSE IF v.kind = "set" THEN {x \in {k} : Has(v.items, x)}
               ELSE IF NonNegative(k) /\ k.n < Len(Contents(v)) THEN {Contents(v)[k.n + 1]} ELSE {}
Get(v, k, missing) == IF v.kind \notin {"nil", "map", "array", "vector", "set", "string"} THEN Panic
                      ELSE IF Found(v, k) = {} THEN missing ELSE CHOOSE x \in Found(v, k) : TRUE
ContainsKey(v, k) == IF v.kind \in {"nil", "map", "set"} THEN Bool(v.kind # "nil" /\ Found(v, k) # {}) ELSE Panic

Assoc(v, k, x) ==
    CASE v.kind = "map" -> [v EXCEPT !.items = Put(@, k, x)]
      [] v.kind \in {"array", "vector"} /\ NonNegative(k) /\ k.n <= Len(v.items) ->
             [v EXCEPT !.items = IF k.n = Len(@) THEN Append(@, x) ELSE [@ EXCEPT ![k.n + 1] = x]]
      [] OTHER -> Panic
Dissoc(v, k) == CASE v.kind = "nil" -> Nil
                  [] v.kind = "map" -> [v EXCEPT !.items = SelectSeq(@, LAMBDA e : Key(e) # k)]
                  [] OTHER -> Panic

(****************************** Making more *******************************)

Cons(x, v) == Then(Vec(v), LAMBDA a : Coll("list", <<x>> \o a.items))

RECURSIVE PutAll(_, _), Conj(_, _)
PutAll(v, entries) == IF entries = << >> THEN v
                      ELSE PutAll(Assoc(v, Key(Head(entries)), Head(entries).items[2]), Tail(entries))
ConjOne(v, x) ==
    CASE v.kind = "list" -> [v EXCEPT !.items = <<x>> \o @]
      [] v.kind \in {"array", "vector"} -> [v EXCEPT !.items = Append(@, x)]
      [] v.kind = "set" -> [v EXCEPT !.items = Add(@, x)]
      [] v.kind = "map" /\ x.kind = "map" -> PutAll(v, x.items)
      [] v.kind = "map" /\ x.kind \in Sequential ->
             Then(Vec(x), LAMBDA p : IF Len(p.items) = 2 THEN Assoc(v, p.items[1], p.items[2]) ELSE Panic)
      [] OTHER -> Panic
Conj(v, entries) == IF entries = << >> THEN v ELSE Then(ConjOne(v, Head(entries)), LAMBDA r : Conj(r, Tail(entries)))
Into(v, from) == Then(Vec(from), LAMBDA a : Conj(v, a.items))
SetOf(v) == Then(Vec(v), LAMBDA a : Conj(Coll("set", << >>), a.items))
Reverse(v) == Then(Vec(v), LAMBDA a : Array([i \in DOMAIN a.items |-> a.items[Len(a.items) + 1 - i]]))

RECURSIVE Joined(_)
Joined(seqs) ==
    IF seqs = << >> THEN Lazy(<< >>, "done")
    ELSE IF Head(seqs).kind \notin Seqable THEN Lazy(<< >>, "panic")
    ELSE IF Breaks(Head(seqs)) THEN Lazy(Delivered(Head(seqs)), After(Head(seqs)))
    ELSE [Joined(Tail(seqs)) EXCEPT !.items = Contents(Head(seqs)) \o @]
\* The lengths are added up first, as far as they are known.
Concat(seqs) ==
    IF \E i \in DOMAIN seqs : seqs[i].kind \notin Seqable /\ \A j \in 1 .. i - 1 : KnownLength(seqs[j]) THEN Panic
    ELSE IF \A i \in DOMAIN seqs : KnownLength(seqs[i]) THEN [Joined(seqs) EXCEPT !.end = "known"]
    ELSE Joined(seqs)

Endless(item(_)) == Lazy([i \in 1 .. Horizon |-> item(i)], "stuck")
Repeat(x) == Endless(LAMBDA i : x)
RepeatTimes(n, x) == IF NonNegative(n) THEN Lazy([i \in 1 .. n.n |-> x], "known") ELSE Panic
RangeCount(from, to, step) == IF step > 0 THEN (to - from + step - 1) \div step
                              ELSE (from - to - step - 1) \div (-step)
Span(from, to, step) ==
    IF \E x \in {from, to, step} : x.kind # "int" THEN Panic
    ELSE IF step.n = 0 THEN IF from.n = to.n THEN Array(<< >>) ELSE Repeat(from)
    ELSE IF RangeCount(from.n, to.n, step.n) <= 0 THEN Array(<< >>)
    ELSE Lazy([i \in 1 .. RangeCount(from.n, to.n, step.n) |-> Num(from.n + (i - 1) * step.n)], "known")

(******************* Entries of maps, algebra of sets *********************)

OfMap(v, F(_)) == CASE v.kind = "nil" -> Nil [] v.kind = "map" -> F(v) [] OTHER -> Panic
Keys(v) == OfMap(v, LAMBDA m : Array([i \in DOMAIN m.items |-> Key(m.items[i])]))
Vals(v) == OfMap(v, LAMBDA m : Array([i \in DOMAIN m.items |-> m.items[i].items[2]]))
Find(v, k) == OfMap(v, LAMBDA m : IF Found(m, k) = {} THEN Nil ELSE Array(<<k, Get(m, k, Nil)>>))
MapInvert(v) == OfMap(v, LAMBDA m : PutAll(Coll("map", << >>),
                    [i \in DOMAIN m.items |-> Array(<<m.items[i].items[2], Key(m.items[i])>>)]))
\* One key after another: a new key may be one still to be renamed.
RECURSIVE Renamed(_, _)
Renamed(m, pairs) ==
    IF pairs = << >> THEN m
    ELSE LET old == Key(Head(pairs))
         IN  Renamed(IF Found(m, old) = {} THEN m ELSE Assoc(Dissoc(m, old), Head(pairs).items[2], Get(m, old, Nil)),
                     Tail(pairs))
RenameKeys(v, keyMap) == OfMap(v, LAMBDA m : IF keyMap = Nil THEN m
                                             ELSE OfMap(keyMap, LAMBDA names : Renamed(m, names.items)))

EmptySet == Coll("set", << >>)
SetLike(v) == v.kind \in {"set", "nil"}
RECURSIVE UnionOf(_, _)
UnionOf(out, sets) == IF sets = << >> THEN out
                      ELSE IF ~SetLike(Head(sets)) THEN Panic
                      ELSE UnionOf(Conj(out, Head(sets).items), Tail(sets))
Union(sets) == UnionOf(EmptySet, sets)
\* Arguments after one that is nil are not looked at.
Intersection(sets) ==
    LET odd == {i \in DOMAIN sets : sets[i].kind # "set"}
        first == CHOOSE i \in odd : \A j \in odd : i <= j
    IN  IF sets = << >> THEN EmptySet
        ELSE IF odd # {} THEN IF sets[first] = Nil THEN EmptySet ELSE Panic
        ELSE [sets[1] EXCEPT !.items = SelectSeq(@, LAMBDA x : \A i \in DOMAIN sets : Has(sets[i].items, x))]
Difference(sets) ==
    IF sets = << >> THEN EmptySet
    ELSE IF sets[1] = Nil THEN EmptySet
    ELSE IF \E i \in DOMAIN sets : ~SetLike(sets[i]) THEN Panic
    ELSE [sets[1] EXCEPT !.items = SelectSeq(@, LAMBDA x : \A i \in 2 .. Len(sets) : ~Has(sets[i].items, x))]
Subset(a, b) == IF a = Nil THEN Bool(TRUE) ELSE IF a.kind # "set" \/ ~SetLike(b) THEN Panic
                ELSE Bool(\A i \in DOMAIN a.items : Has(b.items, a.items[i]))
Disjoint(a, b) == IF Nil \in {a, b} THEN Bool(TRUE) ELSE IF ~(SetLike(a) /\ SetLike(b)) THEN Panic
                  ELSE Bool(\A i \in DOMAIN a.items : ~Has(b.items, a.items[i]))
=============================================================================
