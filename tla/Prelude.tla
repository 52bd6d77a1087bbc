------------------------------- MODULE Prelude -------------------------------
(***************************************************************************)
(* The functions every program starts with: those of the runtime that call *)
(* a function of the program (runtime/seq.go, function.go) and those of    *)
(* the prologue (internal/compiler/prologue.flag, compiled).  A function   *)
(* is its name; what a combinator returns is a closure, the name of its    *)
(* body with what it captured.  Wrong numbers of arguments panic.          *)
(***************************************************************************)
EXTENDS Collections

RECURSIVE Call(_, _)

\* The results of calls with these rows of arguments, up to the first that fails.
RECURSIVE Calls(_, _)
Calls(f, rows) ==
    IF rows = << >> THEN Lazy(<< >>, "done")
    ELSE LET r == Call(f, Head(rows))
         IN  IF Bad(r) THEN Lazy(<< >>, r.kind)
             ELSE [Calls(f, Tail(rows)) EXCEPT !.items = <<r>> \o @]
Singly(items) == [i \in DOMAIN items |-> <<items[i]>>]

(**************** Functions of the runtime that call one ******************)

\* One item of each list in turn; the first list with no more decides.
Mapped(f, seqs) ==
    LET n == CHOOSE m \in {Len(Delivered(seqs[i])) : i \in DOMAIN seqs} :
                 \A i \in DOMAIN seqs : Len(Delivered(seqs[i])) >= m
        first == CHOOSE i \in DOMAIN seqs : /\ Len(Delivered(seqs[i])) = n
                                            /\ \A j \in 1 .. i - 1 : Len(Delivered(seqs[j])) > n
        ended(called) == IF Breaks(called) THEN called ELSE [called EXCEPT !.end = After(seqs[first])]
    IN  ended(Calls(f, [r \in 1 .. n |-> [i \in DOMAIN seqs |-> Delivered(seqs[i])[r]]]))
Whole(v) == IF Breaks(v) THEN Value(v.end) ELSE Array(v.items)
Map(f, seqs) ==
    LET lazy == \A i \in DOMAIN seqs : seqs[i].kind = "lazy"
        given(mapped) == IF lazy THEN mapped ELSE Whole(mapped)
    IN  IF seqs = << >> \/ \E i \in DOMAIN seqs : seqs[i].kind \notin Seqable THEN Panic
        ELSE IF ~lazy /\ \E i \in DOMAIN seqs : KnownLength(seqs[i]) /\ Contents(seqs[i]) = << >> THEN Array(<< >>)
        ELSE given(Mapped(f, seqs))

Picked(items, rs) == LET at == {i \in DOMAIN items : Truthy(rs[i])}
                         nth[i \in 0 .. Len(items)] == IF i = 0 THEN << >>
                                                       ELSE IF i \in at THEN Append(nth[i - 1], items[i]) ELSE nth[i - 1]
                     IN  nth[Len(items)]
Filter(f, v) ==
    IF v.kind \notin Seqable THEN Panic
    ELSE Then(Whole(Calls(f, Singly(Delivered(v)))),
              LAMBDA rs : Then(Vec(v), LAMBDA a : Array(Picked(a.items, rs.items))))

Some(f, v) ==
    LET hits(rs) == {i \in DOMAIN rs.items : Truthy(rs.items[i])}
        firstOf(rs) == IF hits(rs) # {} THEN rs.items[CHOOSE i \in hits(rs) : \A j \in hits(rs) : i <= j]
                       ELSE Then(Whole(rs), LAMBDA a : Then(Vec(v), LAMBDA b : Nil))
    IN  IF v.kind \notin Seqable THEN Panic ELSE firstOf(Calls(f, Singly(Delivered(v))))

RECURSIVE Fold(_, _, _)
Fold(f, acc, items) == IF items = << >> THEN acc
                       ELSE Then(Call(f, <<acc, Head(items)>>), LAMBDA r : Fold(f, r, Tail(items)))
ReduceFrom(f, init, v) == IF v.kind \notin Seqable THEN Panic
                          ELSE Then(Fold(f, init, Delivered(v)), LAMBDA r : Then(Vec(v), LAMBDA a : r))
Reduce(f, v) ==
    IF v.kind \notin Seqable THEN Panic
    ELSE IF Delivered(v) = << >> THEN Then(Vec(v), LAMBDA a : Call(f, << >>))
    ELSE Then(Fold(f, Delivered(v)[1], TailOf(Delivered(v))), LAMBDA r : Then(Vec(v), LAMBDA a : r))

\* The last argument holds the arguments after the others.
Apply(f, args) == Then(Vec(args[Len(args)]),
                       LAMBDA a : Call(f, SubSeq(args, 1, Len(args) - 1) \o a.items))

Compared(a, b, holds) == IF Number(a) /\ Number(b) THEN Bool(holds) ELSE Panic
Gt(a, b) == Compared(a, b, a.n > b.n)
\* By what the comparison function says, or nil first and then ascending.
Less(cmp, a, b) == IF cmp # Nil THEN Call(cmp, <<a, b>>)
                   ELSE IF a = Nil \/ b = Nil THEN Bool(a = Nil /\ b # Nil) ELSE Gt(b, a)
\* Each pair moves left past those it is less than: stable, for short lists.
RECURSIVE Place(_, _, _), Sorted(_, _, _)
Place(cmp, sorted, pair) ==
    IF sorted = << >> THEN Array(<<pair>>)
    ELSE LET n == Len(sorted)
         IN  Then(Less(cmp, Key(pair), Key(sorted[n])), LAMBDA less :
                  IF ~Truthy(less) THEN Array(Append(sorted, pair))
                  ELSE Then(Place(cmp, SubSeq(sorted, 1, n - 1), pair), LAMBDA r : Array(Append(r.items, sorted[n]))))
Sorted(cmp, sorted, pairs) ==
    IF pairs = << >> THEN Array([i \in DOMAIN sorted |-> sorted[i].items[2]])
    ELSE Then(Place(cmp, sorted, Head(pairs)), LAMBDA r : Sorted(cmp, r.items, Tail(pairs)))
SortBy(keyFn, cmp, v) ==
    IF v.kind \notin Seqable THEN Panic
    ELSE Then(Whole(Calls(keyFn, Singly(Delivered(v)))), LAMBDA ks : Then(Vec(v), LAMBDA a :
              Sorted(cmp, << >>, [i \in DOMAIN a.items |-> Array(<<ks.items[i], a.items[i]>>)])))

(****************************** One value *********************************)

Not(v) == Then(v, LAMBDA r : Bool(~Truthy(r)))
Second(v) == Then(Rest(v), First)
Ordinals == <<"first", "second", "third", "fourth", "fifth", "sixth", "seventh", "eighth", "ninth", "tenth">>
OrdinalOf(f) == CHOOSE i \in DOMAIN Ordinals : Ordinals[i] = f
Ordinal(f, v) == SlowNth(v, Num(OrdinalOf(f) - 1))

ValueTests == {"some?", "true?", "false?", "boolean"}
ValueTest(f, v) == CASE f = "some?" -> Bool(v # Nil)
                     [] f = "true?" -> Bool(Eq(v, Bool(TRUE)))
                     [] f = "false?" -> Bool(Eq(v, Bool(FALSE)))
                     [] f = "boolean" -> Bool(Truthy(v))
KindsOf == [k \in {"number?", "int?", "float?", "string?", "symbol?", "keyword?", "map?", "vector?", "set?"} |->
              CASE k = "number?" -> {"int", "float", "bigint", "ratio"} [] k = "int?" -> {"int", "bigint"}
                [] k = "float?" -> {"float"} [] k = "string?" -> {"string"} [] k = "symbol?" -> {"symbol"}
                [] k = "keyword?" -> {"keyword"} [] k = "map?" -> {"map", "record"}
                [] k = "vector?" -> {"vector"} [] k = "set?" -> {"set"}]
IsSequential(v) == v.kind \in Sequential
IsColl(v) == IsSequential(v) \/ v.kind \in KindsOf["map?"] \cup KindsOf["set?"]
Empty(v) == CASE v.kind \in {"list", "lazy"} -> Coll("list", << >>)
              [] v.kind \in {"map", "record"} -> Coll("map", << >>)
              [] v.kind \in {"array", "vector", "set"} -> Coll(v.kind, << >>)
              [] OTHER -> Nil
NumberTest(f, v) ==
    IF v.kind \notin KindsOf[IF f \in {"even?", "odd?"} THEN "int?" ELSE "number?"] THEN Panic
    ELSE Bool(CASE f = "zero?" -> v.n = 0 [] f = "pos?" -> v.n > 0 [] f = "neg?" -> v.n < 0
                [] f = "even?" -> v.n % 2 = 0 [] f = "odd?" -> v.n % 2 # 0)
Plus(v, n) == IF Number(v) THEN [v EXCEPT !.n = @ + n] ELSE Panic

(************************* Walking a collection ***************************)

NotAny(f, v) == Not(Some(f, v))
Remove(f, v) == Filter(Closure("complement", <<f>>), v)
Keep(f, v) == Then(Map(f, <<v>>), LAMBDA m : Filter(Fn("some?"), m))

RECURSIVE TakeWhile(_, _, _), DropWhile(_, _), Advance(_, _), TakeEach(_, _, _), Every(_, _)
TakeWhile(pred, xs, acc) ==
    Then(IsEmpty(xs), LAMBDA e : IF Truthy(e) THEN Array(acc)
    ELSE Then(First(xs), LAMBDA x : Then(Call(pred, <<x>>), LAMBDA t : IF ~Truthy(t) THEN Array(acc)
    ELSE Then(Rest(xs), LAMBDA r : TakeWhile(pred, r, Append(acc, x))))))
DropWhile(pred, xs) ==
    Then(IsEmpty(xs), LAMBDA e : IF Truthy(e) THEN xs
    ELSE Then(First(xs), LAMBDA x : Then(Call(pred, <<x>>), LAMBDA t : IF ~Truthy(t) THEN xs
    ELSE Then(Rest(xs), LAMBDA r : DropWhile(pred, r)))))

\* The rest of the list goes forward with a lead of n items until that ends.
Advance(xs, lead) ==
    Then(IsEmpty(lead), LAMBDA e : IF Truthy(e) THEN xs
    ELSE Then(Next(xs), LAMBDA r : Then(Next(lead), LAMBDA l : Advance(r, l))))
TakeLast(n, v) ==
    Then(IsEmpty(v), LAMBDA e : IF Truthy(e) THEN Nil
    ELSE Then(NumberTest("pos?", n), LAMBDA p : IF ~Truthy(p) THEN Nil
    ELSE Then(Drop(n, v), LAMBDA lead : Advance(v, lead))))
DropLast(n, v) ==
    IF v = Nil THEN Array(<< >>)
    ELSE Then(NumberTest("pos?", n), LAMBDA p : IF ~Truthy(p) THEN v
         ELSE Then(Drop(n, v), LAMBDA lead : Map(Closure("left", << >>), <<v, lead>>)))

\* Dropping that leaves the list as it is goes on for ever.
Onward(xs, rest, F(_)) == IF rest = xs THEN Stuck ELSE F(rest)
TakeEach(n, xs, acc) ==
    Then(IsEmpty(xs), LAMBDA e : IF Truthy(e) THEN Array(acc)
    ELSE Then(Drop(n, xs), LAMBDA r : Then(First(xs), LAMBDA x :
         Onward(xs, r, LAMBDA on : TakeEach(n, on, Append(acc, x))))))
TakeNth(n, v) ==
    Then(IsEmpty(v), LAMBDA e : IF Truthy(e) THEN Array(<< >>)
    ELSE Then(NumberTest("pos?", n), LAMBDA p :
         IF Truthy(p) THEN TakeEach(n, v, << >>) ELSE Then(First(v), Repeat)))

Every(pred, xs) ==
    Then(SeqOf(xs), LAMBDA s : IF ~Truthy(s) THEN Bool(TRUE)
    ELSE Then(First(xs), LAMBDA x : Then(Call(pred, <<x>>), LAMBDA t : IF ~Truthy(t) THEN Bool(FALSE)
    ELSE Then(Rest(xs), LAMBDA r : Every(pred, r)))))

RECURSIVE Iterated(_, _, _)
\* An item is given when the one after it has been computed.
Iterated(f, x, n) ==
    IF n = 0 THEN Lazy(<< >>, "stuck")
    ELSE LET y == Call(f, <<x>>)
         IN  IF Bad(y) THEN Lazy(<< >>, y.kind) ELSE [Iterated(f, y, n - 1) EXCEPT !.items = <<x>> \o @]
Iterate(f, x) == Iterated(f, x, Horizon)
Repeatedly(f) == Mapped(Closure("call", <<f>>), <<Repeat(Num(0))>>)
MapIndexed(f, v) == Map(f, <<Iterate(Fn("inc"), Num(0)), v>>)
KeepIndexed(f, v) == Then(MapIndexed(f, v), LAMBDA m : Keep(Fn("identity"), m))

RECURSIVE FoldIndexed(_, _, _, _)
FoldIndexed(f, acc, items, i) ==
    IF i = Len(items) THEN acc
    ELSE Then(Call(f, <<acc, Num(i), items[i + 1]>>), LAMBDA r : FoldIndexed(f, r, items, i + 1))
ReduceKV(f, init, v) ==
    CASE v.kind = "nil" -> init
      [] v.kind = "map" -> ReduceFrom(Closure("kv", <<f>>), init, v)
      [] v.kind \in {"array", "vector"} -> FoldIndexed(f, init, v.items, 0)
      [] OTHER -> Panic
MaxKey(f, x, more) == ReduceFrom(Closure("greater", <<f>>), x, Array(more))

RECURSIVE Distinct(_, _)
Distinct(xs, out) ==
    Then(IsEmpty(xs), LAMBDA e : IF Truthy(e) THEN Array(out)
    ELSE Then(First(xs), LAMBDA x : Then(Rest(xs), LAMBDA r :
         Distinct(r, IF Has(out, x) THEN out ELSE Append(out, x)))))

Mapcat(f, seqs) == Then(Map(f, seqs), LAMBDA m : Then(Vec(m), LAMBDA a : Concat(a.items)))
Flatten(v) == IF IsSequential(v) THEN Then(Mapcat(Closure("flat", << >>), <<v>>), Vec) ELSE Array(<< >>)

RECURSIVE Interposed(_, _, _), Interleave(_, _)
Interposed(sep, xs, out) ==
    Then(IsEmpty(xs), LAMBDA e : IF Truthy(e) THEN Array(out)
    ELSE Then(First(xs), LAMBDA x : Then(Rest(xs), LAMBDA r : Interposed(sep, r, out \o <<sep, x>>))))
Interpose(sep, v) ==
    Then(IsEmpty(v), LAMBDA e : IF Truthy(e) THEN Array(<< >>)
    ELSE Then(Rest(v), LAMBDA r : Then(First(v), LAMBDA x : Interposed(sep, r, <<x>>))))
Interleave(cols, out) ==
    IF cols = << >> THEN Array(<< >>)
    ELSE Then(Every(Fn("not-empty?"), Array(cols)), LAMBDA all : IF ~Truthy(all) THEN Array(out)
         ELSE Then(Map(Fn("rest"), <<Array(cols)>>), LAMBDA rs :
              Then(Map(Fn("first"), <<Array(cols)>>), LAMBDA xs : Interleave(rs.items, out \o xs.items))))

RECURSIVE Parts(_, _, _, _, _), AllParts(_, _, _, _), Runs(_, _, _), RunOf(_, _, _, _)
Parts(n, step, pad, xs, out) ==
    Then(IsEmpty(xs), LAMBDA e : IF Truthy(e) THEN Array(out)
    ELSE Then(Take(n, xs), LAMBDA part :
         IF Len(part.items) = n.n
         THEN Then(Drop(step, xs), LAMBDA r : Onward(xs, r, LAMBDA on : Parts(n, step, pad, on, Append(out, part))))
         ELSE IF pad = << >> THEN Array(out)
         ELSE Then(Concat(<<part, pad[1]>>), LAMBDA c : Then(Take(n, c), LAMBDA p : Array(Append(out, p))))))
Partition(n, more) ==
    IF Len(more) \notin 1 .. 3 THEN Panic
    ELSE Parts(n, IF Len(more) = 1 THEN n ELSE more[1], SubSeq(more, 2, Len(more) - 1), more[Len(more)], << >>)
AllParts(n, step, xs, out) ==
    Then(IsEmpty(xs), LAMBDA e : IF Truthy(e) THEN Array(out)
    ELSE Then(Drop(step, xs), LAMBDA r : Then(Take(n, xs), LAMBDA part :
         Onward(xs, r, LAMBDA on : AllParts(n, step, on, Append(out, part))))))
PartitionAll(n, more) ==
    IF Len(more) \notin 1 .. 2 THEN Panic
    ELSE AllParts(n, IF Len(more) = 1 THEN n ELSE more[1], more[Len(more)], << >>)
RunOf(f, fv, ys, acc) ==
    Then(IsEmpty(ys), LAMBDA e : IF Truthy(e) THEN Array(acc)
    ELSE Then(First(ys), LAMBDA y : Then(Call(f, <<y>>), LAMBDA t : IF ~Eq(fv, t) THEN Array(acc)
    ELSE Then(Rest(ys), LAMBDA r : RunOf(f, fv, r, Append(acc, y))))))
Runs(f, xs, out) ==
    Then(IsEmpty(xs), LAMBDA e : IF Truthy(e) THEN Array(out)
    ELSE Then(First(xs), LAMBDA x : Then(Call(f, <<x>>), LAMBDA fv : Then(Rest(xs), LAMBDA ys :
         Then(RunOf(f, fv, ys, <<x>>), LAMBDA run : Then(Drop(Num(Len(run.items)), xs), LAMBDA r :
         Onward(xs, r, LAMBDA on : Runs(f, on, Append(out, run)))))))))

(********************************* Maps ***********************************)

NoMap == Coll("map", << >>)
OrMap(m) == IF m = Nil THEN NoMap ELSE m
Update(m, k, f, extra) ==
    Then(Get(m, k, Nil), LAMBDA x : Then(Call(f, <<x>> \o extra), LAMBDA y : Assoc(m, k, y)))
GetIn(m, ks) == ReduceFrom(Fn("get"), m, ks)

RECURSIVE UpdateIn(_, _, _, _), AssocIn(_, _, _), DissocIn(_, _), Zipmap(_, _, _)
UpdateIn(m, ks, f, extra) ==
    Then(SeqOf(ks), LAMBDA s : IF ~Truthy(s) THEN Call(f, <<m>> \o extra)
    ELSE Then(First(ks), LAMBDA k : Then(Rest(ks), LAMBDA r : Then(SeqOf(r), LAMBDA more :
         Then(Get(OrMap(m), k, Nil), LAMBDA x :
         Then(IF Truthy(more) THEN UpdateIn(x, r, f, extra) ELSE Call(f, <<x>> \o extra),
              LAMBDA y : Assoc(OrMap(m), k, y)))))))
AssocIn(m, ks, v) ==
    Then(SeqOf(ks), LAMBDA s : IF ~Truthy(s) THEN m
    ELSE Then(First(ks), LAMBDA k : Then(Rest(ks), LAMBDA r : Then(SeqOf(r), LAMBDA more :
         IF ~Truthy(more) THEN Assoc(OrMap(m), k, v)
         ELSE Then(Get(OrMap(m), k, Nil), LAMBDA x : Then(AssocIn(x, r, v), LAMBDA y : Assoc(OrMap(m), k, y)))))))
\* A map that would be left empty goes, too.
DissocIn(m, ks) ==
    IF m = Nil THEN Nil
    ELSE Then(SeqOf(ks), LAMBDA s : IF ~Truthy(s) THEN m
    ELSE Then(First(ks), LAMBDA k : Then(Rest(ks), LAMBDA r : Then(SeqOf(r), LAMBDA more :
         IF ~Truthy(more) THEN Dissoc(m, k)
         ELSE Then(Get(m, k, Nil), LAMBDA x : Then(DissocIn(x, r), LAMBDA next : Then(IsEmpty(next), LAMBDA e :
              IF Truthy(e) THEN Dissoc(m, k) ELSE Assoc(m, k, next))))))))
Zipmap(ks, vs, out) ==
    Then(SeqOf(ks), LAMBDA s : IF ~Truthy(s) THEN out
    ELSE Then(SeqOf(vs), LAMBDA t : IF ~Truthy(t) THEN out
    ELSE Then(Rest(ks), LAMBDA kr : Then(Rest(vs), LAMBDA vr : Then(First(ks), LAMBDA k :
         Then(First(vs), LAMBDA v : Zipmap(kr, vr, Assoc(out, k, v))))))))
GroupBy(f, v) == ReduceFrom(Closure("group", <<f>>), NoMap, v)
Group(f, acc, x) == Then(Call(f, <<x>>), LAMBDA k : Then(Get(acc, k, Nil), LAMBDA g :
                         Then(ConjOne(IF Truthy(g) THEN g ELSE Array(<< >>), x), LAMBDA h : Assoc(acc, k, h))))
SelectKeys(m, ks) == ReduceFrom(Closure("select", <<m>>), NoMap, ks)
Select(m, acc, k) == Then(ContainsKey(m, k), LAMBDA has :
                          IF Truthy(has) THEN Then(Get(m, k, Nil), LAMBDA x : Assoc(acc, k, x)) ELSE acc)

\* Maps from left to right, nil left out; f joins values of one key.
Merge(joins, maps) == ReduceFrom(Closure("merge", joins), Nil, Array(maps))
MergeInto(joins, out, m) == IF m = Nil THEN out
                            ELSE ReduceFrom(Closure("entry", joins), OrMap(out), m)
Entry(joins, acc, pair) ==
    Then(First(pair), LAMBDA k : Then(Second(pair), LAMBDA v :
         IF joins = << >> THEN Assoc(acc, k, v)
         ELSE Then(ContainsKey(acc, k), LAMBDA has : IF ~Truthy(has) THEN Assoc(acc, k, v)
              ELSE Then(Get(acc, k, Nil), LAMBDA x : Then(Call(joins[1], <<x, v>>), LAMBDA y : Assoc(acc, k, y))))))

\* Relations: sets of maps.
SetSelect(pred, v) == CASE v.kind = "nil" -> EmptySet [] v.kind = "set" -> Then(Filter(pred, v), SetOf) [] OTHER -> Panic
Rows(v, row(_)) == CASE v.kind = "nil" -> EmptySet
                     [] v.kind = "set" -> LET rs == [i \in DOMAIN v.items |-> row(v.items[i])]
                                          IN  IF Panic \in {rs[i] : i \in DOMAIN rs} THEN Panic ELSE Conj(EmptySet, rs)
                     [] OTHER -> Panic
ProjectRow(row, keys) == IF row.kind = "map" THEN ReduceFrom(Closure("select", <<row>>), NoMap, keys) ELSE Panic
SetProject(v, keys) == IF v.kind # "set" THEN Rows(v, LAMBDA row : row)
                       ELSE Then(Vec(keys), LAMBDA ks : Rows(v, LAMBDA row : ProjectRow(row, ks)))
SetRename(v, keyMap) == Rows(v, LAMBDA row : RenameKeys(row, keyMap))

(****************************** Combinators *******************************)

RECURSIVE EveryPred(_, _), SomeFn(_, _)
EveryPred(ps, xs) == IF ps = << >> THEN Bool(TRUE)
                     ELSE Then(Every(Head(ps), Array(xs)), LAMBDA all :
                               IF Truthy(all) THEN EveryPred(Tail(ps), xs) ELSE Bool(FALSE))
SomeFn(ps, xs) == IF ps = << >> THEN Nil
                  ELSE Then(Some(Head(ps), Array(xs)), LAMBDA r :
                            IF Truthy(r) THEN r ELSE SomeFn(Tail(ps), xs))
Fnil(defaults, f, xs) ==
    Call(f, [i \in DOMAIN xs |-> IF i \in DOMAIN defaults /\ xs[i] = Nil THEN defaults[i] ELSE xs[i]])
RECURSIVE Comp(_)
Comp(fs) == CASE Len(fs) = 0 -> Fn("identity")
              [] Len(fs) = 1 -> fs[1]
              [] OTHER -> Comp(<<Closure("comp", SubSeq(fs, 1, 2))>> \o SubSeq(fs, 3, Len(fs)))

\* The functions that prologue functions make, called.
Enter(c, xs) ==
    LET f == c.items[1] IN
    CASE c.s = "constantly" -> f
      [] c.s = "juxt" -> Then(Map(Closure("apply to", xs), <<Array(c.items)>>), Vec)
      [] c.s = "apply to" -> Call(xs[1], c.items)
      [] c.s = "partial" -> Call(f, TailOf(c.items) \o xs)
      [] c.s = "complement" -> Not(Call(f, xs))
      [] c.s = "call" -> Call(f, << >>)
      [] c.s = "fnil" -> Fnil(TailOf(c.items), f, xs)
      [] c.s = "comp" -> Then(Call(c.items[2], xs), LAMBDA r : Call(f, <<r>>))
      [] c.s = "every-pred" -> EveryPred(c.items, xs)
      [] c.s = "some-fn" -> SomeFn(c.items, xs)
      [] c.s = "left" -> xs[1]
      [] c.s = "flat" -> IF IsSequential(xs[1]) THEN Flatten(xs[1]) ELSE Array(<<xs[1]>>)
      [] c.s = "kv" -> Then(First(xs[2]), LAMBDA k : Then(Second(xs[2]), LAMBDA v : Call(f, <<xs[1], k, v>>)))
      [] c.s = "greater" -> Then(Call(f, <<xs[2]>>), LAMBDA cand : Then(Call(f, <<xs[1]>>), LAMBDA best :
                                 Then(Gt(cand, best), LAMBDA g : IF Truthy(g) THEN xs[2] ELSE xs[1])))
      [] c.s = "group" -> Group(f, xs[1], xs[2])
      [] c.s = "select" -> Select(f, xs[1], xs[2])
      [] c.s = "merge" -> MergeInto(c.items, xs[1], xs[2])
      [] c.s = "entry" -> Entry(c.items, xs[1], xs[2])

(******************************* By name **********************************)

Run1(f, x) ==
    CASE f = "identity" -> x
      [] f \in ValueTests -> ValueTest(f, x)
      [] f \in DOMAIN KindsOf -> Bool(x.kind \in KindsOf[f])
      [] f \in {"zero?", "pos?", "neg?", "even?", "odd?"} -> NumberTest(f, x)
      [] f \in {"second", "val"} -> Second(x)
      [] f \in {Ordinals[i] : i \in 3 .. 10} -> Ordinal(f, x)
      [] f = "constantly" -> Closure("constantly", <<x>>)
      [] f = "complement" -> Closure("complement", <<x>>)
      [] f = "nil?" -> Bool(x = Nil)          [] f = "not" -> Not(x)
      [] f = "inc" -> Plus(x, 1)              [] f = "dec" -> Plus(x, -1)
      [] f = "sequential?" -> Bool(IsSequential(x)) [] f = "coll?" -> Bool(IsColl(x))
      [] f = "empty" -> Empty(x)              [] f = "empty?" -> IsEmpty(x)
      [] f = "not-empty?" -> Not(IsEmpty(x))  [] f = "not-empty" -> NotEmpty(x)
      [] f = "seq" -> SeqOf(x)                [] f = "first" -> First(x)
      [] f = "rest" -> Rest(x)                [] f = "next" -> Next(x)
      [] f = "last" -> Last(x)                [] f = "count" -> Count(x)
      [] f = "reverse" -> Reverse(x)          [] f = "vec" -> Vec(x)
      [] f = "set" -> SetOf(x)                [] f = "doall" -> DoAll(x)
      [] f = "repeatedly" -> Repeatedly(x)    [] f = "drop-last" -> DropLast(Num(1), x)
      [] f = "distinct" -> Distinct(x, << >>) [] f = "flatten" -> Flatten(x)
      [] f = "sort" -> SortBy(Fn("identity"), Nil, x)
      [] f = "keys" -> Keys(x)                [] f = "vals" -> Vals(x)
      [] f = "map-invert" -> MapInvert(x)
      [] f = "repeat" -> Repeat(x)            [] f = "range" -> Span(Num(0), x, Num(1))
      [] OTHER -> Panic
Run2(f, x, y) ==
    CASE f = "take" -> Take(x, y)             [] f = "drop" -> Drop(x, y)
      [] f = "nth" -> Nth(x, y)               [] f = "slow-nth" -> SlowNth(x, y)
      [] f = "cons" -> Cons(x, y)             [] f = "into" -> Into(x, y)
      [] f = "get" -> Get(x, y, Nil)          [] f = "contains?" -> ContainsKey(x, y)
      [] f = "+" -> IF Number(y) THEN Plus(x, y.n) ELSE Panic
      [] f = ">" -> Gt(x, y)                  [] f = "<" -> Gt(y, x)
      [] f = "filter" -> Filter(x, y)         [] f = "some" -> Some(x, y)
      [] f = "reduce" -> Reduce(x, y)         [] f = "remove" -> Remove(x, y)
      [] f = "not-any?" -> NotAny(x, y)       [] f = "every?" -> Every(x, y)
      [] f = "keep" -> Keep(x, y)             [] f = "map-indexed" -> MapIndexed(x, y)
      [] f = "keep-indexed" -> KeepIndexed(x, y) [] f = "iterate" -> Iterate(x, y)
      [] f = "take-while" -> TakeWhile(x, y, << >>) [] f = "drop-while" -> DropWhile(x, y)
      [] f = "take-last" -> TakeLast(x, y)    [] f = "drop-last" -> DropLast(x, y)
      [] f = "take-nth" -> TakeNth(x, y)      [] f = "partition-by" -> Runs(x, y, << >>)
      [] f = "interpose" -> Interpose(x, y)   [] f = "zipmap" -> Zipmap(x, y, NoMap)
      [] f = "group-by" -> GroupBy(x, y)      [] f = "select-keys" -> SelectKeys(x, y)
      [] f = "get-in" -> GetIn(x, y)          [] f = "dissoc-in" -> DissocIn(x, y)
      [] f = "sort" -> SortBy(Fn("identity"), x, y) [] f = "sort-by" -> SortBy(x, Nil, y)
      [] f = "repeatedly" -> Take(x, Repeatedly(y)) [] f = "repeat" -> RepeatTimes(x, y)
      [] f = "range" -> Span(x, y, Num(1))    [] f = "dissoc" -> Dissoc(x, y)
      [] f = "find" -> Find(x, y)             [] f = "rename-keys" -> RenameKeys(x, y)
      [] f = "subset?" -> Subset(x, y)        [] f = "superset?" -> Subset(y, x)
      [] f = "disjoint?" -> Disjoint(x, y)    [] f = "select" -> SetSelect(x, y)
      [] f = "project" -> SetProject(x, y)    [] f = "rename" -> SetRename(x, y)
      [] OTHER -> Panic
Run3(f, x, y, z) ==
    CASE f = "get" -> Get(x, y, z)            [] f = "assoc" -> Assoc(x, y, z)
      [] f = "reduce" -> ReduceFrom(x, y, z)  [] f = "reduce-kv" -> ReduceKV(x, y, z)
      [] f = "sort-by" -> SortBy(x, y, z)     [] f = "assoc-in" -> AssocIn(x, y, z)
      [] f = "range" -> Span(x, y, z)         [] OTHER -> Panic
AtLeast == [f \in {"map", "mapcat", "apply", "concat", "conj", "update", "update-in", "juxt", "partial", "comp", "fnil",
                   "every-pred", "some-fn", "max-key", "merge", "merge-with", "interleave", "partition", "partition-all",
                   "union", "intersection", "difference"} |->
              CASE f \in {"juxt", "comp", "merge", "interleave", "concat", "union", "intersection", "difference"} -> 0
                [] f \in {"map", "apply", "conj", "max-key", "fnil"} -> 2
                [] f \in {"update", "update-in"} -> 3 [] OTHER -> 1]
RunAny(f, a) ==
    LET from(i) == SubSeq(a, i, Len(a)) IN
    IF Len(a) < AtLeast[f] THEN Panic ELSE
    CASE f = "map" -> Map(a[1], from(2))      [] f = "mapcat" -> Mapcat(a[1], from(2))
      [] f = "apply" -> Apply(a[1], from(2))  [] f = "concat" -> Concat(a)
      [] f = "conj" -> Conj(a[1], from(2))    [] f = "interleave" -> Interleave(a, << >>)
      [] f = "update" -> Update(a[1], a[2], a[3], from(4))
      [] f = "update-in" -> UpdateIn(a[1], a[2], a[3], from(4))
      [] f \in {"juxt", "partial", "every-pred", "some-fn"} -> Closure(f, a)
      [] f = "fnil" -> IF Len(a) <= 4 THEN Closure(f, a) ELSE Panic
      [] f = "comp" -> Comp(a)                [] f = "max-key" -> MaxKey(a[1], a[2], from(3))
      [] f = "merge" -> Merge(<< >>, a)       [] f = "merge-with" -> Merge(<<a[1]>>, from(2))
      [] f = "union" -> Union(a)              [] f = "intersection" -> Intersection(a)
      [] f = "difference" -> Difference(a)
      [] f = "partition" -> Partition(a[1], from(2)) [] f = "partition-all" -> PartitionAll(a[1], from(2))
Run(f, a) == CASE f \in DOMAIN AtLeast -> RunAny(f, a)
               [] f \notin DOMAIN AtLeast /\ Len(a) = 1 -> Run1(f, a[1])
               [] f \notin DOMAIN AtLeast /\ Len(a) = 2 -> Run2(f, a[1], a[2])
               [] f \notin DOMAIN AtLeast /\ Len(a) = 3 -> Run3(f, a[1], a[2], a[3])
               [] OTHER -> Panic

\* Maps, sets and keywords are functions of a key.
Call(f, args) ==
    CASE f.kind = "fn" -> IF f.n = 1 THEN Enter(f, args) ELSE Run(f.s, args)
      [] f.kind \in {"map", "set"} /\ Len(args) \in 1 .. 2 -> Get(f, args[1], IF Len(args) = 2 THEN args[2] ELSE Nil)
      [] f.kind = "keyword" /\ Len(args) \in 1 .. 2 -> Get(args[1], f, IF Len(args) = 2 THEN args[2] ELSE Nil)
      [] OTHER -> Panic

\* A call of f, a call of the function it gives, and so on.
RECURSIVE InTurn(_, _)
InTurn(f, rows) == IF Bad(f) \/ rows = << >> THEN f ELSE InTurn(Call(f, Head(rows)), Tail(rows))
=============================================================================
