---------------------------- MODULE PreludeMeaning ----------------------------
(***************************************************************************)
(* What the functions of Prelude should give, over plain sequences: a      *)
(* list, an array, a vector and a lazy list with the same items are the    *)
(* same.  A list that does not end yet stands for all lists it may become, *)
(* and a function that needs no more of it must not wait for more.         *)
(***************************************************************************)
EXTENDS Collections, FiniteSets
LOCAL S == INSTANCE SequencesExt

RECURSIVE Plain(_)
Plain(v) ==
    CASE v.kind \in Sequential -> [Coll("seq", [i \in DOMAIN v.items |-> Plain(v.items[i])]) EXCEPT
                                       !.end = IF Breaks(v) THEN v.end ELSE "known"]
      [] v.kind \in {"map", "set"} -> [v EXCEPT !.items = [i \in DOMAIN @ |-> Plain(@[i])]]
      [] OTHER -> v
List(xs) == Coll("seq", xs)
Pair(k, v) == List(<<k, v>>)
Xs(v) == Contents(v)
Listed(v) == v.kind \in Seqable \cup {"seq"}

RECURSIVE Ap(_, _), FoldAp(_, _, _)
Results(f, xs) == [i \in DOMAIN xs |-> Ap(f, <<xs[i]>>)]
FoldAp(f, acc, rows) == IF rows = << >> \/ acc = Panic THEN acc
                        ELSE FoldAp(f, Ap(f, <<acc>> \o Head(rows)), Tail(rows))
Fails(rs) == \E i \in DOMAIN rs : rs[i] = Panic
\* The first place where it holds, or the place after the last.
Where(n, holds(_)) == CHOOSE i \in 1 .. n + 1 : /\ i = n + 1 \/ holds(i)
                                                /\ \A j \in 1 .. i - 1 : ~holds(j)
Those(xs, holds(_)) == LET at == {j \in DOMAIN xs : holds(j)}
                       IN  [i \in 1 .. Cardinality(at) |-> xs[CHOOSE k \in at : Cardinality({j \in at : j <= k}) = i]]
Skip(n, xs) == SubSeq(xs, n + 1, Len(xs))
Start(n, xs) == SubSeq(xs, 1, IF n < Len(xs) THEN n ELSE Len(xs))
Ending(n, xs) == Skip(IF n < Len(xs) THEN Len(xs) - n ELSE 0, xs)
Zipped(seqs) == LET n == CHOOSE n \in {Len(seqs[i]) : i \in DOMAIN seqs} : \A i \in DOMAIN seqs : n <= Len(seqs[i])
                IN  [r \in 1 .. n |-> [i \in DOMAIN seqs |-> seqs[i][r]]]

\* Stable: an item's place is the number of those before it.
Order(keys, xs, less(_, _)) ==
    LET place(i) == Cardinality({j \in DOMAIN xs : less(keys[j], keys[i]) \/ (j < i /\ ~less(keys[i], keys[j]))}) + 1
    IN  [p \in DOMAIN xs |-> xs[CHOOSE i \in DOMAIN xs : place(i) = p]]
Ascending(keys, xs) ==
    LET solid == {i \in DOMAIN keys : keys[i] # Nil}
    IN  IF Cardinality(solid) > 1 /\ \E i \in solid : ~Number(keys[i]) THEN Panic
        ELSE List(Order(keys, xs, LAMBDA a, b : b # Nil /\ (a = Nil \/ a.n < b.n)))

\* The lists that start at every step-th item.
Windows(n, step, xs) == [k \in 1 .. (Len(xs) + step - 1) \div step |-> Start(n, Skip((k - 1) * step, xs))]
Lists(xss) == List([k \in DOMAIN xss |-> List(xss[k])])
Split(n, step, pad, xs) ==
    LET ws == Windows(n, step, xs)
        short == Where(Len(ws), LAMBDA k : Len(ws[k]) < n)
    IN  IF pad = << >> \/ short > Len(ws) THEN Lists(Start(short - 1, ws))
        ELSE Lists(Append(Start(short - 1, ws), Start(n, ws[short] \o Xs(pad[1]))))
\* A new run starts where the value of f changes.
RunsOf(rs, xs) ==
    LET starts == Those([i \in DOMAIN xs |-> i], LAMBDA i : i = 1 \/ ~Eq(rs[i], rs[i - 1]))
        to(k) == IF k = Len(starts) THEN Len(xs) ELSE starts[k + 1] - 1
    IN  Lists([k \in DOMAIN starts |-> SubSeq(xs, starts[k], to(k))])
RECURSIVE Leaves(_)
Leaves(v) == IF v.kind # "seq" THEN <<v>> ELSE S!FlattenSeq([i \in DOMAIN v.items |-> Leaves(v.items[i])])

(********************************* Maps ***********************************)

\* A map is a function of its keys; no map is one of none.
Dict(m) == [k \in {Key(m.items[i]) : i \in DOMAIN m.items} |->
               m.items[CHOOSE i \in DOMAIN m.items : Key(m.items[i]) = k].items[2]]
FromPairs(ps) == LET keys == {ps[i].items[1] : i \in DOMAIN ps}
                     list == S!SetToSortSeq(keys, Before)
                 IN  Coll("map", [i \in DOMAIN list |->
                         ps[CHOOSE j \in DOMAIN ps : ps[j].items[1] = list[i] /\ \A l \in DOMAIN ps : ps[l].items[1] = list[i] => l <= j]])
With(m, k, v) ==
    CASE m.kind \in {"map", "nil"} -> FromPairs(Append(m.items, Pair(k, v)))
      [] m.kind = "seq" /\ NonNegative(k) /\ k.n <= Len(m.items) -> List(Start(k.n, m.items) \o <<v>> \o Skip(k.n + 1, m.items))
      [] OTHER -> Panic
Without(m, k) == CASE m.kind = "nil" -> Nil
                   [] m.kind = "map" -> [m EXCEPT !.items = Those(@, LAMBDA i : Key(m.items[i]) # k)]
                   [] OTHER -> Panic
At(m, k, missing) ==
    CASE m.kind \in {"map", "nil"} -> IF k \in DOMAIN Dict(m) THEN Dict(m)[k] ELSE missing
      [] m.kind \in {"seq", "string"} -> IF NonNegative(k) /\ k.n < Len(Xs(m)) THEN Xs(m)[k.n + 1] ELSE missing
      [] m.kind = "set" -> IF Has(m.items, k) THEN k ELSE missing
      [] OTHER -> Panic

\* Along a path of keys.
RECURSIVE Down(_, _), Changed(_, _, _, _), Pruned(_, _)
Down(m, ks) == IF ks = << >> \/ m = Panic THEN m ELSE Down(At(m, Head(ks), Nil), Tail(ks))
Changed(m, ks, f, extra) ==
    IF m = Panic THEN Panic
    ELSE IF ks = << >> THEN Ap(f, <<m>> \o extra)
    ELSE LET y == Changed(At(m, ks[1], Nil), Tail(ks), f, extra)
         IN  IF y = Panic THEN Panic ELSE With(m, ks[1], y)
Pruned(m, ks) ==
    IF ks = << >> \/ m \in {Nil, Panic} THEN m
    ELSE IF Len(ks) = 1 THEN Without(m, ks[1])
    ELSE LET below == Pruned(At(m, ks[1], Nil), Tail(ks))
         IN  IF ~Listed(below) THEN Panic
             ELSE IF Xs(below) = << >> THEN Without(m, ks[1]) ELSE With(m, ks[1], below)

\* One map of all entries; f joins the values of one key from left to right.
Joining(f, maps) ==
    LET entries == S!FlattenSeq([i \in DOMAIN maps |-> Xs(maps[i])])
        of(k) == LET es == Those(entries, LAMBDA i : Key(entries[i]) = k)
                 IN  [i \in DOMAIN es |-> <<es[i].items[2]>>]
        keys == [i \in DOMAIN entries |-> Key(entries[i])]
        joined == [i \in DOMAIN keys |-> FoldAp(f, of(keys[i])[1][1], Tail(of(keys[i])))]
    IN  IF \A i \in DOMAIN maps : maps[i] = Nil THEN Nil
        ELSE IF Fails(joined) THEN Panic
        ELSE FromPairs([i \in DOMAIN keys |-> Pair(keys[i], joined[i])])
Groups(rs, xs) == FromPairs([i \in DOMAIN xs |-> Pair(rs[i], List(Those(xs, LAMBDA j : rs[j] = rs[i])))])

(******************************* Functions ********************************)

\* A function made by another, called.
Made(c, xs) ==
    LET f == c.items[1]
        all == S!FlattenSeq([i \in DOMAIN c.items |-> Results(c.items[i], xs)])
    IN CASE c.s = "constantly" -> f
         [] c.s = "juxt" -> LET rs == [i \in DOMAIN c.items |-> Ap(c.items[i], xs)] IN IF Fails(rs) THEN Panic ELSE List(rs)
         [] c.s = "partial" -> Ap(f, Tail(c.items) \o xs)
         [] c.s = "complement" -> LET r == Ap(f, xs) IN IF r = Panic THEN r ELSE Bool(~Truthy(r))
         [] c.s = "fnil" -> Ap(f, [i \in DOMAIN xs |-> IF xs[i] = Nil /\ i < Len(c.items) THEN c.items[i + 1] ELSE xs[i]])
         [] c.s = "comp" -> LET g == Ap(c.items[Len(c.items)], xs)
                            IN  IF g = Panic THEN g
                                ELSE FoldAp(Closure("in turn", << >>), g, [i \in 1 .. Len(c.items) - 1 |-> <<c.items[Len(c.items) - i]>>])
         [] c.s = "in turn" -> Ap(xs[2], <<xs[1]>>)
         [] c.s = "every-pred" -> LET i == Where(Len(all), LAMBDA j : ~Truthy(all[j]) \/ all[j] = Panic)
                                  IN  IF i > Len(all) THEN Bool(TRUE) ELSE IF all[i] = Panic THEN Panic ELSE Bool(FALSE)
         [] c.s = "some-fn" -> LET i == Where(Len(all), LAMBDA j : Truthy(all[j]) \/ all[j] = Panic)
                               IN  IF i > Len(all) THEN Nil ELSE all[i]

Kinds == [k \in {"string?", "keyword?", "map?", "set?", "fn?"} |-> SubSeq(k, 1, Len(k) - 1)]
Numeric == {"inc", "dec", "zero?", "pos?", "neg?", "even?", "odd?"}
OfNumber(f, n) == CASE f = "inc" -> Num(n + 1) [] f = "dec" -> Num(n - 1)
                    [] f = "zero?" -> Bool(n = 0) [] f = "pos?" -> Bool(n > 0) [] f = "neg?" -> Bool(n < 0)
                    [] f = "even?" -> Bool(n % 2 = 0) [] f = "odd?" -> Bool(n % 2 = 1)
Places == [f \in {"first", "second", "val", "third", "fourth", "tenth"} |->
              CASE f = "first" -> 1 [] f \in {"second", "val"} -> 2 [] f = "third" -> 3 [] f = "fourth" -> 4 [] f = "tenth" -> 10]

Of1(f, x) ==
    LET xs == Xs(x) IN
    CASE f = "identity" -> x
      [] f = "some?" -> Bool(x # Nil)   [] f = "nil?" -> Bool(x = Nil)
      [] f = "true?" -> Bool(x = Bool(TRUE)) [] f = "false?" -> Bool(x = Bool(FALSE))
      [] f = "boolean" -> Bool(Truthy(x)) [] f = "not" -> Bool(~Truthy(x))
      [] f \in DOMAIN Kinds -> Bool(x.kind = Kinds[f])
      [] f \in {"number?", "int?"} -> Bool(x.kind = "int")
      [] f = "sequential?" -> Bool(x.kind = "seq") [] f = "coll?" -> Bool(x.kind \in {"seq", "map", "set"})
      [] f = "empty" -> IF x.kind \in {"seq", "map", "set"} THEN Coll(x.kind, << >>) ELSE Nil
      [] f \in Numeric -> IF x.kind = "int" THEN OfNumber(f, x.n) ELSE Panic
      [] f = "repeat" -> [List([i \in 1 .. Horizon |-> x]) EXCEPT !.end = "stuck"]
      [] f = "range" -> IF x.kind = "int" THEN List([i \in 1 .. x.n |-> Num(i - 1)]) ELSE Panic
      [] f \in {"constantly", "complement"} -> Closure(f, <<x>>)
      [] f = "doall" -> x
      [] f \in {"keys", "vals", "map-invert"} ->
             IF x = Nil THEN Nil ELSE IF x.kind # "map" THEN Panic ELSE
            (CASE f = "keys" -> List(S!SetToSortSeq(DOMAIN Dict(x), Before))
               [] f = "vals" -> List([i \in DOMAIN xs |-> Dict(x)[S!SetToSortSeq(DOMAIN Dict(x), Before)[i]]])
               [] f = "map-invert" -> FromPairs([i \in DOMAIN xs |-> Pair(xs[i].items[2], Key(xs[i]))]))
      [] f = "flatten" -> List(IF x.kind = "seq" THEN Leaves(x) ELSE << >>)
      [] ~Listed(x) -> Panic
      [] f \in DOMAIN Places /\ Listed(x) ->
             IF Places[f] <= Len(xs) THEN xs[Places[f]] ELSE IF f \in {"first", "second", "val"} THEN Nil ELSE Panic
      [] f = "empty?" /\ Listed(x) -> Bool(xs = << >>)
      [] f = "not-empty?" /\ Listed(x) -> Bool(xs # << >>)
      [] f = "not-empty" /\ Listed(x) -> IF xs = << >> THEN Nil ELSE x
      [] f = "seq" /\ Listed(x) -> IF xs = << >> THEN Nil ELSE IF x.kind = "string" THEN List(xs) ELSE x
      [] f = "rest" /\ Listed(x) -> List(Skip(1, xs))
      [] f = "next" /\ Listed(x) -> IF Len(xs) < 2 THEN Nil ELSE List(Skip(1, xs))
      [] f = "last" /\ Listed(x) -> IF xs = << >> THEN Nil ELSE xs[Len(xs)]
      [] f = "count" /\ Listed(x) -> Num(Len(xs))
      [] f = "reverse" /\ Listed(x) -> List(S!Reverse(xs))
      [] f = "vec" /\ Listed(x) -> List(xs)
      [] f = "set" /\ Listed(x) -> Coll("set", S!SetToSortSeq({xs[i] : i \in DOMAIN xs}, Before))
      [] f = "distinct" /\ Listed(x) -> List([i \in DOMAIN S!SetToSeq({xs[i] : i \in DOMAIN xs}) |->
             Those(xs, LAMBDA j : \A k \in 1 .. j - 1 : xs[k] # xs[j])[i]])
      [] f = "sort" /\ Listed(x) -> Ascending(xs, xs)
      [] f = "drop-last" /\ Listed(x) -> List(Start(Len(xs) - 1, xs))
      [] OTHER -> Panic

\* A function, or a number, and a collection.
OfSeq(f, g, xs) ==
    LET rs == Results(g, xs)
        n == Where(Len(xs), LAMBDA i : rs[i] = Panic \/ ~Truthy(rs[i]))
        hit == Where(Len(xs), LAMBDA i : rs[i] = Panic \/ Truthy(rs[i]))
        failsAt(i) == i <= Len(xs) /\ rs[i] = Panic
        numbered == [i \in DOMAIN xs |-> Ap(g, <<Num(i - 1), xs[i]>>)]
        kept(ys) == IF Fails(ys) THEN Panic ELSE List(Those(ys, LAMBDA i : ys[i] # Nil))
    IN CASE f = "every?" -> IF failsAt(n) THEN Panic ELSE Bool(n > Len(xs))
         [] f = "take-while" -> IF failsAt(n) THEN Panic ELSE List(Start(n - 1, xs))
         [] f = "drop-while" -> IF failsAt(n) THEN Panic ELSE List(Skip(n - 1, xs))
         [] f = "some" -> IF hit > Len(xs) THEN Nil ELSE rs[hit]
         [] f = "not-any?" -> IF failsAt(hit) THEN Panic ELSE Bool(hit > Len(xs))
         [] f = "map-indexed" -> IF Fails(numbered) THEN Panic ELSE List(numbered)
         [] f = "keep-indexed" -> kept(numbered)
         [] Fails(rs) -> Panic
         [] f = "filter" /\ ~Fails(rs) -> List(Those(xs, LAMBDA i : Truthy(rs[i])))
         [] f = "remove" /\ ~Fails(rs) -> List(Those(xs, LAMBDA i : ~Truthy(rs[i])))
         [] f = "keep" /\ ~Fails(rs) -> kept(rs)
         [] f = "group-by" /\ ~Fails(rs) -> Groups(rs, xs)
         [] f = "partition-by" /\ ~Fails(rs) -> RunsOf(rs, xs)
         [] f = "sort-by" /\ ~Fails(rs) -> Ascending(rs, xs)
OfFunction == {"every?", "take-while", "drop-while", "some", "not-any?", "map-indexed", "keep-indexed", "filter", "remove",
               "keep", "group-by", "partition-by", "sort-by"}
OfCount(f, n, x) ==
    LET xs == Xs(x) IN
    CASE f = "take" -> IF n >= 0 THEN List(Start(n, xs)) ELSE Panic
      [] f = "drop" -> IF n < 0 THEN Panic ELSE IF n = 0 THEN x ELSE List(Skip(n, xs))
      [] f = "take-last" -> IF n <= 0 \/ xs = << >> THEN Nil ELSE List(Ending(n, xs))
      [] f = "drop-last" -> IF n <= 0 /\ x # Nil THEN x ELSE List(Start(IF n < Len(xs) THEN Len(xs) - n ELSE 0, xs))
      [] f = "take-nth" -> IF xs = << >> THEN List(xs) ELSE IF n <= 0 THEN Of1("repeat", xs[1])
                           ELSE List(Those(xs, LAMBDA i : (i - 1) % n = 0))
      [] f \in {"nth", "slow-nth"} -> IF n \in 0 .. Len(xs) - 1 THEN xs[n + 1] ELSE Panic
OfNumberAnd == {"take", "drop", "take-last", "drop-last", "take-nth", "nth", "slow-nth"}

\* Sets as sets; no set is the empty one.
Elems(v) == {v.items[i] : i \in DOMAIN v.items}
FromSet(xs) == Coll("set", S!SetToSortSeq(xs, Before))
OfSets(f, sets) ==
    IF \E i \in DOMAIN sets : sets[i].kind \notin {"set", "nil"} THEN Panic
    ELSE LET member(x, i) == x \in Elems(sets[i])
             all == UNION {Elems(sets[i]) : i \in DOMAIN sets}
         IN CASE f = "union" -> FromSet(all)
              [] f = "intersection" -> FromSet({x \in all : \A i \in DOMAIN sets : member(x, i)})
              [] f = "difference" -> FromSet({x \in all : member(x, 1) /\ \A i \in 2 .. Len(sets) : ~member(x, i)})
              [] f = "subset?" -> Bool(\A x \in Elems(sets[1]) : member(x, 2))
              [] f = "superset?" -> Bool(\A x \in Elems(sets[2]) : member(x, 1))
              [] f = "disjoint?" -> Bool(\A x \in Elems(sets[1]) : ~member(x, 2))
OnSets == {"union", "intersection", "difference", "subset?", "superset?", "disjoint?"}
\* All keys at once.
WithNames(m, names) ==
    IF m = Nil THEN Nil ELSE IF m.kind # "map" \/ names.kind \notin {"map", "nil"} THEN Panic
    ELSE LET named(e) == Key(e) \in DOMAIN Dict(names)
             new == Those(m.items, LAMBDA i : named(m.items[i]))
         IN  FromPairs(Those(m.items, LAMBDA i : ~named(m.items[i]))
                       \o [i \in DOMAIN new |-> Pair(Dict(names)[Key(new[i])], new[i].items[2])])
Only(m, ks) == LET kept == Those(ks, LAMBDA i : ks[i] \in DOMAIN Dict(m))
               IN  FromPairs([i \in DOMAIN kept |-> Pair(kept[i], Dict(m)[kept[i]])])
EachRow(rel, row(_)) ==
    IF rel.kind \notin {"set", "nil"} \/ \E r \in Elems(rel) : r.kind # "map" THEN Panic
    ELSE LET rows == S!SetToSeq({row(r) : r \in Elems(rel)}) IN IF Fails(rows) THEN Panic ELSE Coll("set", rows)

Of2(f, x, y) ==
    CASE f \in OnSets -> OfSets(f, <<x, y>>)
      [] f = "rename-keys" -> WithNames(x, y)
      [] f = "rename" -> EachRow(x, LAMBDA r : WithNames(r, y))
      [] f = "project" -> IF Listed(y) THEN EachRow(x, LAMBDA r : Only(r, Xs(y))) ELSE Panic
      [] f = "select" -> IF y.kind \notin {"set", "nil"} \/ Fails(Results(x, Xs(y))) THEN Panic
                         ELSE FromSet({r \in Elems(y) : Truthy(Ap(x, <<r>>))})
      [] f = "find" -> IF x = Nil THEN Nil ELSE IF x.kind # "map" THEN Panic
                       ELSE IF y \in DOMAIN Dict(x) THEN Pair(y, Dict(x)[y]) ELSE Nil
      [] f \in OfFunction -> IF ~Listed(y) THEN Panic
                            ELSE IF f = "drop-while" /\ y = Nil THEN Nil ELSE OfSeq(f, x, Xs(y))
      [] f \in {"nth", "slow-nth"} -> IF Listed(x) THEN OfCount(f, y.n, x) ELSE Panic
      [] f \in OfNumberAnd \ {"nth", "slow-nth"} -> IF Listed(y) THEN OfCount(f, x.n, y) ELSE Panic
      [] f = "+" -> IF x.kind = "int" /\ y.kind = "int" THEN Num(x.n + y.n) ELSE Panic
      [] f = "<" -> IF x.kind = "int" /\ y.kind = "int" THEN Bool(x.n < y.n) ELSE Panic
      [] f = "repeat" -> IF NonNegative(x) THEN List([i \in 1 .. x.n |-> y]) ELSE Panic
      [] f = "iterate" -> [List([i \in 1 .. Horizon |-> FoldAp(Closure("in turn", << >>), y, [j \in 1 .. i - 1 |-> <<x>>])])
                              EXCEPT !.end = "stuck"]
      [] f = "get" -> At(x, y, Nil)           [] f = "dissoc-in" -> Pruned(x, Xs(y))
      [] f = "get-in" -> Down(x, Xs(y))
      [] f = "contains?" -> IF x.kind \in {"nil", "map", "set"} THEN Bool(x.kind # "nil" /\ At(x, y, Stuck) # Stuck) ELSE Panic
      [] f = "select-keys" -> Only(x, Xs(y))
      [] ~Listed(y) -> Panic
      [] f = "cons" /\ Listed(y) -> List(<<x>> \o Xs(y))
      [] f = "into" /\ Listed(y) -> List(Xs(x) \o Xs(y))
      [] f = "reduce" /\ Listed(y) -> IF Xs(y) = << >> THEN Ap(x, << >>)
                                      ELSE FoldAp(x, Xs(y)[1], [i \in 1 .. Len(Xs(y)) - 1 |-> <<Xs(y)[i + 1]>>])
      [] f = "interpose" /\ Listed(y) -> List([i \in 1 .. 2 * Len(Xs(y)) - 1 |-> IF i % 2 = 0 THEN x ELSE Xs(y)[(i + 1) \div 2]])
      [] f = "zipmap" /\ Listed(y) -> LET ps == Zipped(<<Xs(x), Xs(y)>>) IN FromPairs([i \in DOMAIN ps |-> List(ps[i])])
      [] f = "sort" /\ Listed(y) ->
             IF \E i, j \in DOMAIN Xs(y) : i < j /\ Ap(x, <<Xs(y)[j], Xs(y)[i]>>) = Panic THEN Panic
             ELSE List(Order(Xs(y), Xs(y), LAMBDA a, b : Ap(x, <<a, b>>) = Bool(TRUE)))
      [] OTHER -> Panic
Of3(f, x, y, z) ==
    CASE f = "get" -> At(x, y, z)
      [] f = "assoc" -> With(x, y, z)
      [] f = "assoc-in" -> IF Xs(y) = << >> THEN x ELSE Changed(x, Xs(y), Closure("constantly", <<z>>), << >>)
      [] f = "reduce" -> FoldAp(x, y, [i \in DOMAIN Xs(z) |-> <<Xs(z)[i]>>])
      [] f = "reduce-kv" -> FoldAp(x, y, [i \in DOMAIN Xs(z) |-> IF z.kind = "map" THEN z.items[i].items ELSE <<Num(i - 1), Xs(z)[i]>>])
      [] OTHER -> Panic
Several == {"map", "mapcat", "apply", "concat", "conj", "update", "update-in", "juxt", "partial", "comp", "fnil", "every-pred",
            "some-fn", "max-key", "merge", "merge-with", "interleave", "partition", "partition-all", "union", "intersection", "difference"}
OfAny(f, a) ==
    LET others == Tail(a)
        mapped == LET rows == Zipped([i \in DOMAIN others |-> Xs(others[i])])
                  IN  [r \in DOMAIN rows |-> Ap(a[1], rows[r])]
        best == Results(a[1], others)
        n == a[1].n
    IN CASE f = "map" -> IF Fails(mapped) THEN Panic ELSE List(mapped)
         [] f = "mapcat" -> IF Fails(mapped) \/ \E i \in DOMAIN mapped : ~Listed(mapped[i]) THEN Panic
                            ELSE List(S!FlattenSeq([i \in DOMAIN mapped |-> Xs(mapped[i])]))
         [] f = "concat" -> List(S!FlattenSeq([i \in DOMAIN a |-> Xs(a[i])]))
         [] f = "interleave" -> List(IF a = << >> THEN << >> ELSE S!FlattenSeq(Zipped([i \in DOMAIN a |-> Xs(a[i])])))
         [] f = "apply" -> Ap(a[1], SubSeq(a, 2, Len(a) - 1) \o Xs(a[Len(a)]))
         [] f = "update" -> Changed(a[1], <<a[2]>>, a[3], Skip(3, a))
         [] f = "update-in" -> Changed(a[1], Xs(a[2]), a[3], Skip(3, a))
         [] f \in {"juxt", "partial", "every-pred", "some-fn", "fnil"} -> Closure(f, a)
         [] f = "comp" -> IF a = << >> THEN Fn("identity") ELSE Closure("comp", a)
         [] f = "max-key" -> IF Len(a) = 2 THEN a[2]
                             ELSE IF \E i \in DOMAIN best : ~Number(best[i]) THEN Panic
                             ELSE others[CHOOSE i \in DOMAIN best : /\ \A j \in DOMAIN best : best[j].n <= best[i].n
                                                                    /\ \A j \in 1 .. i - 1 : best[j].n < best[i].n]
         [] f \in {"union", "intersection", "difference"} -> IF a = << >> THEN FromSet({}) ELSE OfSets(f, a)
         [] f = "merge" -> Joining(Closure("last", << >>), a)
         [] f = "merge-with" -> Joining(a[1], others)
         [] f \in {"partition", "partition-all"} ->
                LET step == IF Len(a) = 2 THEN n ELSE a[2].n
                    xs == Xs(a[Len(a)])
                IN  IF f = "partition" THEN Split(n, step, SubSeq(a, 3, Len(a) - 1), xs) ELSE Lists(Windows(n, step, xs))

Meant(f, a) == IF f \in Several THEN OfAny(f, a)
               ELSE CASE Len(a) = 0 -> Panic [] Len(a) = 1 -> Of1(f, a[1]) [] Len(a) = 2 -> Of2(f, a[1], a[2])
                      [] Len(a) = 3 -> Of3(f, a[1], a[2], a[3]) [] Len(a) > 3 -> Panic
Ap(f, args) ==
    CASE f.kind = "fn" /\ f.n = 1 -> IF f.s = "last" THEN args[2] ELSE Made(f, args)
      [] f.kind = "fn" /\ f.n # 1 -> Meant(f.s, args)
      [] f.kind \in {"map", "set", "keyword"} /\ Len(args) \in 1 .. 2 ->
             LET missing == IF Len(args) = 2 THEN args[2] ELSE Nil
             IN  IF f.kind = "keyword" THEN At(args[1], f, missing) ELSE At(f, args[1], missing)
      [] OTHER -> Panic

(***************************** Right answers ******************************)

\* A call of f, a call of the function it gives, and so on.
RECURSIVE MeantBy(_, _)
MeantBy(f, rows) == IF f = Panic \/ rows = << >> THEN f ELSE MeantBy(Ap(f, Head(rows)), Tail(rows))

\* What a list that does not end yet may become.
Endings == {<< >>, <<Num(0)>>, <<Num(-1)>>, <<Nil>>, <<Num(1), Num(2), Num(0), Num(1)>>}
Unended(v) == v.kind = "lazy" /\ v.end = "stuck"
Ended(args, ending) == [i \in DOMAIN args |->
    Plain(IF Unended(args[i]) THEN Lazy(args[i].items \o ending, "done") ELSE args[i])]
\* Without the item taken ahead; map takes one of each list in turn.
Ahead(f) == IF f = "map" THEN 2 ELSE 1
Shorter(f, args) == [i \in DOMAIN args |->
    IF Unended(args[i]) THEN [args[i] EXCEPT !.items = Start(Len(@) - Ahead(f), @)] ELSE args[i]]
Answers(f, args, more) == {MeantBy(Fn(f), <<Ended(args, e)>> \o more) : e \in Endings}

Same(r, m) == \/ Plain(r) = m
              \/ {r.kind, m.kind} = {"set"} /\ Len(r.items) = Len(m.items) /\ Elems(Plain(r)) = Elems(m)
              \/ m = Panic /\ Breaks(r) /\ r.end = "panic"
              \/ r.kind \in {"string", "set", "map"} /\ List(Contents(r)) = m
\* As far as a list goes, it is right, and as long as what is there determines.
Agrees(r, full, short) ==
    LET n == Len(r.items) IN
    /\ \A m \in full : m = Panic \/ S!IsPrefix(Plain(r).items, m.items)
    /\ \/ \E m \in short : m = Panic \/ Len(m.items) <= n
       \/ Cardinality({m.items[n + 1] : m \in short}) > 1

OnSequences == OfFunction \cup OfNumberAnd \cup
    {"second", "val", "third", "fourth", "tenth", "rest", "next", "last", "seq", "not-empty", "cons", "into", "interpose", "zipmap",
     "sort", "mapcat", "interleave", "partition", "partition-all", "map", "distinct", "flatten", "dissoc-in", "assoc-in", "update-in"}
TakesNil == {"take-while", "drop-while", "take-last", "drop-last", "take-nth", "filter", "remove", "keep", "some", "not-any?", "map",
             "group-by", "partition-by", "sort-by", "sort", "take", "next", "cons", "distinct", "interpose", "interleave", "mapcat"}
\* A function on sequences may refuse what is not one.
Refuses(f, args) ==
    \/ f = "first" /\ args[1].kind = "map"
    \/ f = "get" /\ args[1].kind \in {"list", "lazy"}
    \/ f \in {"assoc", "update"} /\ args[1] = Nil
    \/ /\ f \in OnSequences
       /\ \E i \in DOMAIN args :
             args[i].kind \in {"string", "set", "map"} \cup (IF f \in TakesNil THEN {} ELSE {"nil"})

RightAnswer(f, args, more, r) ==
    LET right(full, short) ==
            \/ Cardinality(full) = 1 /\ \A m \in full : Same(r, m)
            \/ r = Panic /\ Refuses(f, args)
            \/ r = Stuck /\ (Cardinality(short) > 1 \/ \E i \in DOMAIN args : Unended(args[i]) /\ Len(args[i].items) < Ahead(f))
            \/ Unended(r) /\ Agrees(r, full, short)
        of(answers) == right(answers[1], answers[2])
    IN  of([i \in 1 .. 2 |-> Answers(f, IF i = 1 THEN args ELSE Shorter(f, args), more)])

\* Left out: a lazy list with nil in it, which drop takes for its end, parts
\* of no items or starting again at the same place, which never end, keys
\* renamed to one another, and what is no set beside nil.
Drops == {"drop", "take-nth", "take-last", "drop-last", "partition", "partition-all", "partition-by"}
Regular(f, args) ==
    /\ f \in Drops => \A i \in DOMAIN args : args[i].kind = "lazy" => ~Has(args[i].items, Nil)
    /\ (f \in OnSets /\ \E i \in DOMAIN args : args[i] = Nil) => \A i \in DOMAIN args : SetLike(args[i])
    /\ f \in {"rename", "rename-keys"} /\ args[2].kind = "map" => Elems(Keys(args[2])) \cap Elems(Vals(args[2])) = {}
    /\ f \in {"partition", "partition-all"} => args[1].n > 0 /\ (Len(args) > 2 => args[2].n > 0)
=============================================================================
