----------------------------- MODULE MCLanguage -----------------------------
(***************************************************************************)
(* Inputs for Language: all short texts and token sequences over the       *)
(* characters and tokens the algorithms tell apart, macros with every      *)
(* construct of a template, and programs built from the forms of Lowering  *)
(* around one another.                                                     *)
(***************************************************************************)
EXTENDS Language, FiniteSets

SeqsOf(S, n) == {SubSeq(s, 1, k) : s \in [1 .. n -> S], k \in 0 .. n}

(********************************** Texts *********************************)

Chars == {"a", "\"", "\\", ";", "(", " ", "#"}
MCTexts == <<
    {<<line>> : line \in SeqsOf(Chars, 4)},
    {<<a, b>> : a \in SeqsOf({"a", "\"", "\\", ";"}, 2), b \in SeqsOf({"a", "\"", "\\", ";"}, 2)},
    {<<<<"\"", "\"", "\"">> \o rest>> : rest \in SeqsOf({"\"", "\\", "a"}, 4)}>>

\* Every token next to every other, and brackets in brackets.
MCTokenLists == <<
    SeqsOf({"(", ")", "[", "]", "|", "{", "#{", "}", "#(", "^", "'", "a", "comment", "1", "#"}, 3),
    [1 .. 4 -> {"(", ")", "|", "^", "'", "a", "comment"}],
    [1 .. 5 -> {"(", ")", "[", "]", "'", "1"}],
    [1 .. 6 -> {"(", ")", "comment", "|"}]>>

(********************************** Macros ********************************)

S(n) == Mac!Sym(n)
L(c) == Mac!List(c)
Vec(c) == Mac!Node("vector", "", c)
One == Mac!Num("1")
Arity(params, rest, body) == [params |-> params, rest |-> rest, body |-> body]

\* Macros that call one another, one that looks at its arguments, and one that
\* calls itself once for each of them.
MCMacros == [d \in {"x", "a", "m", "d"} |->
    CASE d = "a" -> <<Arity(<<"p">>, "r", L(<<S("x"), S("p"), Vec(<<S("r")>>)>>))>>
      [] d = "m" -> <<Arity(<< >>, "r", L(<<S("macro-case"), L(<<S("do"), S("r")>>),
                        Vec(<<L(<<S("v"), S("v")>>), L(<<S("x"), S("v")>>)>>),
                        L(<<L(<<S("v"), S("&"), S("w")>>), L(<<S("v"), S("w")>>)>>)>>))>>
      [] d = "d" -> <<Arity(<< >>, "", One), Arity(<<"p">>, "r", L(<<S("d"), S("r")>>))>>
      [] OTHER -> <<Arity(<<"p">>, "", L(<<S("f"), S("p")>>)),
                    Arity(<<"p", "q">>, "", L(<<S("x"), L(<<S("g"), S("p")>>), S("q"), S("q")>>)),
                    Arity(<<"p", "q", "t">>, "r", S("p"))>>]

MacroArities == {
    <<Arity(<<"p">>, "", L(<<S("do"), S("p"), Vec(<<S("p"), S("q")>>)>>))>>,
    <<Arity(<<"p">>, "r", L(<<S("a"), S("r"), Mac!Node("map", "", <<S("p"), S("r")>>)>>))>>,
    <<Arity(<<"p", "q">>, "", L(<<S("p"), L(<<S("q"), S("p")>>)>>)), Arity(<< >>, "r", L(<<S("r")>>)),
      Arity(<<"p">>, "", S("p"))>>,
    <<Arity(<< >>, "", One), Arity(<<"p">>, "r", L(<<S("r"), S("p")>>)),
      Arity(<<"p">>, "", L(<<S("p"), Mac!Node("quoted-list", "", <<S("p")>>)>>))>>,
    <<Arity(<<"p">>, "", L(<<S("macro-case"), L(<<S("do"), S("p")>>),
                             L(<<L(<<S("x")>>), L(<<S("a"), S("x"), S("p")>>)>>)>>))>>,
    <<Arity(<< >>, "r", L(<<S("macro-case"), L(<<S("do"), S("r")>>),
                            L(<<L(<<S("x"), S("x")>>), L(<<S("x"), S("r")>>)>>),
                            L(<<L(<<L(<<S("a"), S("x")>>), S("_")>>), S("x"), S("r")>>),
                            Vec(<<L(<<One, S("&"), S("y")>>), L(<<S("do"), S("y")>>)>>),
                            L(<<L(<<S("x"), S("&"), S("y")>>), L(<<S("y"), S("x")>>)>>)>>))>>}
Leaves == {S("a"), S("x"), S("p"), S("macro-case"), One}
Forms1 == Leaves \cup {L(c) : c \in SeqsOf({S("a"), S("x"), One}, 2)}
ArgLists == SeqsOf(Forms1, 2) \cup [1 .. 3 -> {S("a"), S("p"), L(<<S("a"), S("x")>>)}]
MCCalls == MacroArities \X ArgLists
\* A macro may make the head of a list; calls stand in nodes of every kind; as
\* many as the limit allows come of one another, and one more.
Made == L(<<S("x"), S("x"), One, One>>)
InKinds(t) == {Mac!Node(k, "", <<t>>) : k \in {"vector", "set", "hash-fn", "quoted-list"}}
              \cup {Mac!Node("meta", "", <<S("a"), t>>), Mac!Node("map", "", <<S("a"), t>>)}
Chain(n) == L(<<S("d")>> \o [i \in 1 .. n |-> One])
MCTrees == {L(args) : args \in ArgLists} \cup {L(<<S("m")>> \o args) : args \in ArgLists}
           \cup UNION {InKinds(L(args)) \cup {L(<<L(args), S("a")>>)} :
                         args \in [1 .. 3 -> {S("a"), S("x"), S("m"), One, Made}]}
           \cup {Chain(n) : n \in {0, 1, 98, 99, 100, 101}}
           \cup {L(<<S("a"), Chain(n), One>>) : n \in {97, 98, 99, 100}}

(********************************* Programs *******************************)

N(k, n, c) == [k |-> k, n |-> n, c |-> c]
Num(v) == N("lit", <<"int", v>>, << >>)
Text == N("lit", <<"str", "s">>, << >>)
True == N("lit", <<"bool", "true">>, << >>)
NilForm == N("lit", <<"nil", "nil">>, << >>)
X(x) == N("sym", <<x>>, << >>)
Call(es) == N("call", << >>, es)
F(e) == Call(<<X("f"), e>>)
O(n, es) == N("op", <<n>>, es)
Eq(es) == N("chain", <<"=">>, es)
Coll(es) == N("coll", << >>, es)
Do(es) == N("do", << >>, es)
If(es) == N("if", << >>, es)
Let(x, es) == N("let", <<x>>, es)
Fn(ps, e) == N("fn", ps, <<e>>)
Defer(e) == N("defer", << >>, <<Fn(<< >>, e)>>)
Recur(es) == N("recur", << >>, es)
Throw(e) == N("throw", << >>, <<e>>)
Update(e) == N("update", <<"x">>, <<e>>)
\* Programs stand where x is a volatile variable.
Volatile(es) == {N("vlet", <<"x">>, <<Num("5"), e>>) : e \in es}

\* Forms in one another, for the order of what they do.
Simple == {Num("1"), Text, True, X("a"), X("x"), F(Num("1"))}
Inner == {O(o, <<p>>) : o \in {"first", "println", "nil?"}, p \in Simple}
         \cup {w : w \in UNION {{F(p), Update(p), Throw(p), Let("b", <<p, X("b")>>), Let("b", <<p, F(X("b"))>>),
                                 If(<<X("a"), p>>)} : p \in Simple}}
         \cup {Fn(<<"y">>, X("y")), Fn(<<"y">>, X("x"))}
         \cup UNION {{If(<<p, X("a"), q>>), Do(<<p, q>>), Coll(<<p, q>>), N("fold", <<"+">>, <<p, q, p>>)} : p \in Simple, q \in Simple}
Beside == {F(Num("3")), X("x"), Update(Num("4")), If(<<X("a"), F(Num("2")), Text>>)}
Both(p, q) == <<Coll(<<p, q>>), Eq(<<p, Num("1"), q>>), If(<<p, q, X("x")>>), Call(<<X("f"), p, q>>), Do(<<p, q>>),
                N("let", <<"c", "d">>, <<p, q, O("list", <<X("c"), X("d"), X("x")>>)>>)>>
Pairs(A, B) == Volatile({Both(p, q)[i] : i \in 1 .. 6, p \in A, q \in B})

\* Operations with arguments of every kind.
OpArgs == {NilForm, Text, True, If(<<X("a"), Text, Text>>), F(X("a"))}
OpArgLists == SeqsOf(OpArgs, 2) \cup {<<v, w, NilForm>> : v \in {NilForm, Text}, w \in OpArgs}
KindPrograms == {O(o, es) : o \in DOMAIN Low!Ops, es \in OpArgLists}

\* Loops.
Starts == {X("a"), X("x"), Text, F(Num("1")), Update(Num("4")), If(<<X("e"), Num("8"), X("a")>>), X("l")}
Tests == {X("l"), O("first", <<X("l")>>), Text, Eq(<<X("l"), NilForm>>)}
Rounds == {Recur(<<NilForm>>), Do(<<F(X("l")), Recur(<<NilForm>>)>>), Recur(<<O("nil?", <<X("l")>>)>>), Recur(<<Fn(<< >>, X("l"))>>),
           Let("b", <<F(X("l")), Recur(<<If(<<X("b"), NilForm, X("b")>>)>>)>>), Do(<<Defer(F(X("l"))), Recur(<<NilForm>>)>>),
           N("try", <<"Exception", "c">>, <<Do(<<Recur(<<NilForm>>)>>), Do(<<X("c")>>)>>),
           Do(<<Recur(<<NilForm>>), Num("3")>>), Recur(<< >>), Fn(<< >>, Recur(<<NilForm>>))}
LoopBodies == {If(<<t, r, q>>) : t \in Tests, r \in Rounds, q \in {X("l"), F(X("l")), Text, Throw(X("l"))}}
Loops1 == {N("loop", <<"l">>, <<v, b>>) : v \in Starts, b \in LoopBodies}
LoopsBeside == {Coll(<<N("loop", <<"l">>, <<X("a"), b>>), X("l")>>) : b \in LoopBodies}
Loops2 == {N("loop", <<"l", m>>, <<v, w, If(<<X("l"), Recur(<<r, q>>), X("a")>>)>>) :
             m \in {"m", "a"}, v \in Starts, w \in Starts,
             r \in {NilForm, X("m"), F(X("m"))}, q \in {X("l"), If(<<X("l"), Num("1"), Num("2")>>)}}

\* Exits left in every way, for try, defer and the forms that walk.
Exits == {F(Num("1")), Throw(Num("1")), X("x"), Update(Num("9")), Text,
           Do(<<Defer(F(Num("2"))), Throw(Num("3"))>>), Do(<<Defer(F(Num("2"))), Defer(Throw(Num("6"))), F(Num("4"))>>),
           Let("b", <<F(Num("7")), Do(<<X("b"), Defer(Update(X("b"))), X("b")>>)>>)}
Catches == {X("c"), F(X("c")), Throw(X("c")), Text, X("z"), Update(X("c"))}
Tries == {N("try", <<cl, n>>, <<Do(<<b>>), Do(<<h>>)>>) :
              cl \in {"Exception", "ExceptionInfo"}, n \in {"c", "x", "f"}, b \in Exits, h \in Catches}
         \cup {N("try", <<"Exception", "c">>, <<Do(<<b>>), Do(<<h>>), Do(<<f>>)>>) : b \in Exits, h \in Catches, f \in Exits}
         \cup {N("try", << >>, <<Do(<<b>>), Do(<<f>>)>>) : b \in Exits, f \in Exits}
         \cup {N("try", << >>, <<Do(<<b>>)>>) : b \in Exits}
         \cup {N("try", <<"ExceptionInfo", "d", "Exception", "c">>, <<Do(<<b>>), Do(<<X("d")>>), Do(<<h>>)>>) :
                 b \in Exits, h \in Catches}
Walks == {N(k, <<n>>, <<v, b>>) : k \in {"doseq", "for"}, n \in {"c", "x"}, v \in {X("a"), X("e"), Text, Coll(<<Num("1"), F(Num("2"))>>)},
                                  b \in {Do(<<X("c"), q>>) : q \in Exits} \cup Catches}
Tested == {N(k, << >>, <<b>>) : k \in {"testing", "is", "expect"}, b \in Exits}
Dotos == {N("doto", << >>, <<t, g, X("f")>>) : t \in Starts,
            g \in {X("f"), Fn(<<"y">>, F(X("y"))), Fn(<<"y">>, Num("1")), Fn(<<"y">>, Throw(X("y"))),
                   If(<<F(Num("1")), X("f"), X("a")>>), Num("1")}}
Closures == {Let("g", <<Fn(<<"y">>, e), Do(<<Call(<<X("g"), v>>), X("x")>>)>>) : v \in Starts,
               e \in Exits \cup {X("y"), Do(<<Update(X("y")), X("x")>>), Let("y", <<F(X("y")), X("y")>>)}}
ControlForms == UNION {Tries, Walks, Tested, Dotos, Closures}
Around(e) == <<e, Coll(<<X("x"), e>>), Coll(<<e, F(X("c"))>>), Do(<<e, X("x")>>)>>
ControlPrograms == {Around(e)[i] : i \in 1 .. 4, e \in ControlForms}

\* Names in and behind the forms that bind them.
Binders(n) == {Let(n, <<Num("1"), X(n)>>), Let(n, <<Text, F(X(n))>>), N("vlet", <<n>>, <<Num("1"), N("update", <<n>>, <<X(n)>>)>>),
               Call(<<Fn(<<n>>, X(n)), Num("1")>>), Fn(<<n>>, Let("b", <<X(n), X("b")>>)), Fn(<<n, n>>, X(n)),
               N("let", <<n, n>>, <<Num("1"), X(n), X(n)>>), N("let", <<n, "b">>, <<X("b"), X(n), X("b")>>),
               N("loop", <<n>>, <<Num("1"), If(<<X(n), Recur(<<NilForm>>), X(n)>>)>>)}
Uses(n) == {X(n), F(X(n)), Call(<<X(n), X("a")>>), N("update", <<n>>, <<X("a")>>), Recur(<<X(n)>>), X("z")}
Behind(p, q) == <<Do(<<p, q>>), Coll(<<p, q>>), If(<<p, q>>), Let("d", <<p, Coll(<<X("d"), q>>)>>), Fn(<< >>, Do(<<p, q>>))>>
Scopes == UNION {{Behind(p, q)[i] : i \in 1 .. 5, p \in Binders(n), q \in Uses(n)} : n \in {"b", "x", "f", "a"}}

MCPrograms == <<Pairs(Inner, Beside), Pairs(Beside \ {X("x")}, Inner), KindPrograms,
                Volatile(Loops1), Volatile(LoopsBeside), Volatile(Loops2), Volatile(ControlPrograms), Volatile(Scopes)>>
MCParams == <<"a", "e">>
MCFunctions == {"f"}

(***************************** Several modules ****************************)

Use(prefix, word, n) == [name |-> <<prefix, word>>, args |-> n]
Form(op, names, uses) == [op |-> op, names |-> names, arities |-> << >>, uses |-> uses]
Ar(params, rest, uses) == [params |-> params, rest |-> rest, uses |-> uses]
Defn(word, arities) == [Form("defn", <<word>>, << >>) EXCEPT !.arities = arities]
F1(word, uses) == Defn(word, <<Ar(<<"x">>, FALSE, uses)>>)
Defmacro(word, use) == Form("defmacro", <<word>>, <<use>>)
Expr(uses) == Form("expr", << >>, uses)
Module(path, ns, exports, imports, forms) ==
    [path |-> path, header |-> TRUE, ns |-> ns, exports |-> exports, binds |-> << >>,
     imports |-> imports, forms |-> forms]
Import(path, as, refer) == [path |-> path, as |-> as, refer |-> refer]
Prologue == Module("prologue", "prologue", <<"p", "q">>, << >>,
                   <<F1("p", <<Use("", "b", 1)>>), Defn("q", <<Ar(<< >>, TRUE, <<Use("", "p", 1)>>)>>)>>)
Lib(exports) == Module("lib", "n.lib", exports, << >>,
                       <<F1("d", <<Use("", "x", -1)>>), Form("def", <<"v">>, <<Use("", "d", 1)>>), Defmacro("m", Use("", "p", 1))>>)
App(exports, imports, forms) == Module("main", "n.main", exports, imports, forms)
Build(k, libs, app) == [package |-> k, entry |-> "main", modules |-> <<Prologue>> \o libs \o <<app>>]

\* One use, in an expression or a function, and all ways to import a library.
OneUse(name, n) == {<<Expr(<<[name |-> name, args |-> n]>>)>>, <<F1("g", <<[name |-> name, args |-> n]>>)>>}
Names == {<<pr, w>> : pr \in {"", "n.lib", "l", "n.main", "prologue"}, w \in {"d", "v", "m", "p", "b", "x"}}
Imported == {Build(k, <<Lib(ex)>>, App(<< >>, <<Import("lib", as, rf)>>, fs)) :
               k \in BOOLEAN, ex \in {<<"d">>, <<"d", "v", "m">>, <<"x">>}, as \in {"", "l"},
               rf \in {<< >>, <<"all">>, <<"d">>, <<"m">>}, fs \in UNION {OneUse(nm, n) : nm \in Names, n \in {-1, 1, 2}}}

\* Own names that are one another's, the prelude's and an import's.
OwnForms == <<
    {F1("f", <<Use("", "f", 1), Use("", "x", 1)>>), Form("def", <<"f">>, <<Use("", "f", -1)>>), Form("deftest", <<"f">>, << >>),
     Defn("f", <<Ar(<<"x">>, FALSE, <<Use("", "g", 0)>>), Ar(<< >>, FALSE, <<Use("", "f", 1)>>)>>)},
    {Defn("g", <<Ar(<<"x">>, TRUE, <<Use("", "f", 0), Use("n.main", "g", 2)>>)>>), Form("def", <<"g">>, <<Use("", "f", 0)>>),
     Defn("g", <<Ar(<<"x">>, FALSE, << >>), Ar(<<"p">>, FALSE, << >>)>>), Form("deftest", <<"f">>, <<Use("", "g", 1)>>),
     Defmacro("g", Use("", "f", 1))},
    {F1("p", <<Use("", "p", 1), Use("prologue", "p", 1), Use("", "g", 1), Use("", "p", 2)>>), Form("def", <<"d">>, << >>),
     Form("declare", <<"f", "g">>, << >>), Form("declare", <<"p">>, << >>),
     Defn("p", <<Ar(<<"g">>, FALSE, <<Use("", "g", 1)>>), Ar(<< >>, FALSE, <<Use("", "p", 2)>>)>>)},
    {Expr(<<Use("", "f", 0), Use("", "f", 1), Use("", "f", 2)>>), Expr(<<Use("", "g", 1), Use("", "p", 1)>>)}>>
Orders == {o \in SeqsOf(1 .. 4, 3) : \A i, j \in DOMAIN o : o[i] = o[j] => i = j}
OwnNames == {Build(k, <<Lib(<<"d">>)>>, App(ex, im, [i \in DOMAIN o |-> pick[o[i]]])) :
               k \in BOOLEAN, ex \in {<< >>, <<"f">>}, im \in {<< >>, <<Import("lib", "", <<"all">>)>>}, o \in Orders,
               pick \in OwnForms[1] \X OwnForms[2] \X OwnForms[3] \X OwnForms[4]}

\* Two libraries with the same words, one of them perhaps an import of the other.
LibForms == {<<F1("d", << >>)>>, <<F1("d", << >>), Defmacro("m", Use("", "d", 1))>>,
             <<Defmacro("d", Use("", "p", 0)), F1("main", <<Use("", "d", 0)>>)>>,
             <<Form("def", <<"d">>, << >>), Defmacro("m", Use("l", "d", 1))>>}
LibForms2 == {<<F1("d", << >>)>>, <<Form("def", <<"d">>, <<Use("", "m", 1)>>)>>, <<F1("d", <<Use("l", "d", 2), Use("l", "m", 0)>>)>>}
TwoLibs == {Build(k, <<Module("one", "n.one", ex, << >>, fs), Module("two", "n.two", <<"d">>, im2, gs)>>, App(<< >>, im, es)) :
              k \in BOOLEAN, ex \in {<<"d">>, <<"d", "m">>}, fs \in LibForms, gs \in LibForms2,
              im2 \in {<< >>, <<Import("one", "l", << >>)>>, <<Import("one", "l", <<"m">>)>>},
              im \in {<<Import("one", "", << >>)>>, <<Import("one", "l", << >>), Import("two", "", <<"d">>)>>,
                      <<Import("one", "l", <<"d">>), Import("two", "l", << >>)>>, <<Import("two", "l", <<"d">>), Import("one", "k", <<"m">>)>>},
              es \in UNION {OneUse(nm, n) : nm \in {<<"", "d">>, <<"", "m">>, <<"n.one", "d">>, <<"l", "d">>, <<"k", "m">>}, n \in {-1, 1}} \cup
                     {<<Expr(<<Use("l", "d", 0), Use("", "d", 0)>>)>>, <<F1("main", <<Use("", "main", 1), Use("l", "m", 0)>>)>>}}

MCModuleSets == <<Imported, OwnNames, TwoLibs>>
MCGoPackage == [ns \in {"prologue", "n.lib", "n.main", "n.one", "n.two"} |-> ns]

(******************************* The prelude ******************************)

\* Values of a program, from Collections.
V(n) == Pre!Num(n)
G(f) == Pre!Fn(f)
Ints == {V(-1), V(1), V(2)}
AllKinds(seqs) == {Pre!Coll(k, s) : k \in {"list", "array", "vector"}, s \in seqs}
                  \cup {Pre!Lazy(s, e) : s \in seqs, e \in {"known", "done", "stuck"}}
LongKinds(seqs) == {Pre!Coll("vector", s) : s \in seqs} \cup {Pre!Lazy(s, e) : s \in seqs, e \in {"done", "stuck"}}
Entries(k, x) == Pre!Array(<<k, x>>)
Keyword == [Pre!Value("keyword") EXCEPT !.n = 1]
Dict(x, y) == Pre!Coll("map", <<Entries(Keyword, x), Entries(V(1), y)>>)
Flat == {Dict(V(1), V(2)), Pre!Coll("map", << >>), Pre!Coll("map", <<Entries(V(2), Pre!Nil)>>)}
Set(s) == Pre!Coll("set", s)
Others == {Pre!Nil, Pre!Str("ab"), Pre!Str(""), Set(<< >>), Set(<<V(1), V(2)>>)} \cup Flat
Short == AllKinds(SeqsOf(Ints \cup {Pre!Nil}, 2))
Long == LongKinds([1 .. 3 -> Ints \cup {Pre!Nil}])
Nested == AllKinds({<<Pre!Array(<<V(1), Pre!Nil>>), V(2)>>, <<Pre!Array(<< >>)>>, <<Pre!Array(<<Pre!Coll("list", <<V(2)>>), V(1)>>)>>})
Ap(f, args) == [fn |-> f, args |-> args, more |-> << >>]
Later(f, args, more) == [fn |-> f, args |-> args, more |-> <<more>>]

\* Functions of one value, of a function and a collection, of a number and one.
Ap2(fs, xs, ys) == {Ap(f, <<x, y>>) : f \in fs, x \in xs, y \in ys}
OfOne == {"identity", "some?", "nil?", "true?", "false?", "boolean", "not", "inc", "dec", "zero?", "pos?", "even?", "odd?",
          "number?", "int?", "string?", "keyword?", "map?", "set?", "sequential?", "coll?", "empty", "first", "second", "third",
          "fourth", "empty?", "not-empty?", "seq", "not-empty", "rest", "next", "last", "count", "reverse", "vec", "set",
          "distinct", "flatten", "sort", "drop-last", "doall"}
Values == UNION {Short, Others, Nested, Ints, {Keyword, Pre!Bool(TRUE), Pre!Bool(FALSE)}}
Lists == Short \cup Long
Some == {x \in Lists : x.items # << >>}
Ordered == AllKinds(SeqsOf(Ints, 2)) \cup LongKinds([1 .. 3 -> Ints])
Numbers == {V(n) : n \in -1 .. 3}
WithFunction == {"every?", "take-while", "drop-while", "some", "not-any?", "filter", "remove", "keep", "group-by", "partition-by"}
OnCollections == <<
    {Ap(f, <<x>>) : f \in OfOne, x \in Values},
    Ap2(WithFunction, {G("even?"), G("some?"), Dict(V(1), V(2))}, Lists), Ap2(WithFunction, {Set(<<V(1)>>)}, Short \cup Others),
    Ap2({"sort-by", "group-by", "partition-by", "keep"}, {G("identity")}, Lists),
    Ap2({"map-indexed", "keep-indexed"}, {G("+")}, Lists), Ap2({"reduce"}, {G("+")}, Some),
    {Ap("reduce", <<G("+"), V(0), x>>) : x \in Lists}, Ap2({"sort"}, {G("<")}, Ordered),
    Ap2({"take", "drop", "take-last", "drop-last", "take-nth"}, Numbers, Short \cup Others), Ap2({"repeat"}, Numbers, Ints),
    Ap2({"take", "drop", "take-last", "drop-last", "take-nth"}, {V(1), V(2)}, Long),
    Ap2({"slow-nth", "get", "contains?"}, Short \cup Others, Numbers),
    Ap2({"nth"}, {y \in Short : y.kind \in {"array", "vector"}}, Numbers)>>

\* Several collections, and lists of parts.
Rows == AllKinds(SeqsOf({V(1), Pre!Nil}, 1) \cup {<<V(2), V(-1)>>}) \cup {Pre!Nil, Set(<<V(1), V(2)>>)}
Solid == {x \in Rows : x.kind \in {"array", "vector"}}
Five == Short \cup LongKinds({[i \in 1 .. k |-> V(i)] : k \in 3 .. 5})
Parts == {V(n) : n \in 1 .. 3}
OnSeveral == <<
    Ap2({"interleave", "concat", "zipmap"}, Rows, Rows), Ap2({"into", "cons", "interpose"}, Solid, Rows),
    {Ap("map", <<G("+"), x, y>>) : x \in Rows, y \in Rows},
    {Ap("mapcat", <<G("identity"), Pre!Array(<<x, y>>)>>) : x \in Solid, y \in Solid \cup {Pre!Nil, V(1), Set(<<V(1)>>)}},
    {Ap("apply", <<G("max-key"), G("identity"), V(1), y>>) : y \in Rows},
    Ap2({"partition", "partition-all"}, Parts, Five),
    {Ap(f, <<n, m, x>>) : f \in {"partition", "partition-all"}, n \in Parts, m \in Parts, x \in Five},
    {Ap("partition", <<n, m, pad, x>>) : n \in Parts, m \in Parts, pad \in {Pre!Nil, Pre!Array(<<V(0)>>)}, x \in Five},
    {Ap("repeat", <<V(1)>>), Ap("iterate", <<G("inc"), V(1)>>), Ap("iterate", <<Set(<<V(1)>>), V(1)>>)},
    {Ap("range", <<n>>) : n \in Numbers}>>

\* Maps, and paths through maps in maps and arrays.
Inside == {Dict(V(1), V(2)), Dict(Dict(V(1), V(-1)), Pre!Array(<<V(2)>>)), Dict(Pre!Nil, Pre!Array(<<Dict(V(1), V(2)), V(1)>>)),
           Pre!Coll("map", <<Entries(V(0), Pre!Coll("map", <<Entries(V(1), V(2))>>))>>), Pre!Coll("map", << >>), Pre!Nil,
           Pre!Array(<<V(1), Dict(V(2), V(2))>>)}
Steps == SeqsOf({Keyword, V(0), V(1)}, 3)
Paths == {Pre!Coll(k, s) : k \in {"array", "list"}, s \in Steps}
Many == SeqsOf(Flat \cup {Pre!Nil, Dict(V(2), Pre!Nil)}, 3)
Row(x) == Pre!Coll("map", <<Entries(Keyword, V(1)), Entries(V(1), x)>>)
Relations == {Set(<< >>), Set(<<Row(V(1))>>), Set(<<Row(V(1)), Row(V(2)), Row(Pre!Nil)>>), Set(<<Row(V(1)), V(1)>>), Pre!Nil, Row(V(2))}
Renames == {Pre!Nil, V(1), Pre!Coll("map", << >>), Pre!Coll("map", <<Entries(V(1), V(2))>>), Pre!Coll("map", <<Entries(Keyword, V(1))>>),
            Pre!Coll("map", <<Entries(Keyword, V(0)), Entries(V(1), V(3))>>), Dict(V(1), Keyword), Dict(V(2), V(2))}
Sets == {Set(SetToSortSeq(s, Pre!Before)) : s \in SUBSET Ints} \cup {Pre!Nil, V(1)}
OnMaps == <<
    {Ap(f, ss) : f \in {"union", "intersection", "difference"}, ss \in SeqsOf(Sets, 3)},
    Ap2({"subset?", "superset?", "disjoint?"}, Sets, Sets),
    Ap2({"get-in", "dissoc-in"}, Inside, Paths), {Ap("assoc-in", <<m, p, V(1)>>) : m \in Inside, p \in Paths},
    {Ap("update-in", <<m, p, G("inc")>>) : m \in Inside, p \in Paths}, {Ap("update-in", <<m, p, G("+"), V(2)>>) : m \in Inside, p \in Paths},
    {Ap("update", <<m, k, f>>) : m \in Inside, k \in Numbers \cup {Keyword}, f \in {G("inc"), G("some?")}},
    {Ap("assoc", <<m, k, V(1)>>) : m \in Inside, k \in Numbers \cup {Keyword}}, Ap2({"get"}, Inside, Numbers \cup {Keyword}),
    {Ap("merge", ms) : ms \in Many}, {Ap("merge-with", <<G("+")>> \o ms) : ms \in Many},
    Ap2({"select-keys"}, {m \in Inside : m.kind # "array"}, Paths),
    {Ap(f, <<m>>) : f \in {"keys", "vals"}, m \in Inside \cup Flat}, {Ap("map-invert", <<m>>) : m \in Flat \cup {Pre!Nil, V(1)}},
    Ap2({"find"}, Inside \cup Flat, Numbers),
    Ap2({"rename-keys"}, Inside \cup Flat, Renames), Ap2({"rename"}, Relations, Renames), Ap2({"project"}, Relations, Paths),
    Ap2({"select"}, {G("some?"), Keyword, G("count")}, Relations),
    {Ap("reduce-kv", <<G("assoc"), m, m>>) : m \in Inside \ {Pre!Nil}}>>

\* Functions that give functions, and what these give.
Fs == {G("inc"), G("some?"), G("first"), G("get"), Set(<<V(1)>>)}
Argued == SeqsOf({V(1), V(2), Pre!Nil, Set(<<V(1)>>)}, 2) \ {<< >>}
Combined == <<
    {Later(f, fs, xs) : f \in {"juxt", "comp", "every-pred", "some-fn", "partial"}, fs \in SeqsOf(Fs, 2) \ {<< >>}, xs \in Argued},
    {Later(f, <<g>>, xs) : f \in {"complement", "constantly"}, g \in Fs, xs \in Argued},
    {Later("fnil", <<f, V(2)>> \o d, xs) : f \in Fs, d \in {<< >>, <<V(1)>>}, xs \in Argued},
    {Ap("max-key", <<f>> \o xs) : f \in {G("identity"), Set(<<V(1)>>), G("dec")}, xs \in SeqsOf(Ints, 3) \ {<< >>}}>>

MCApplications == OnCollections \o OnSeveral \o OnMaps \o Combined

(********************************* Numbers ********************************)

\* Every long, and big integers and ratios inside, at and outside the limits.
Longs == {Arith!NewLong(n) : n \in -Half .. Half - 1}
BigInts == {Arith!NewBigInt(n) : n \in {-4 * Half, -2 * Half - 1, -Half - 1, -Half, -1, 0, 2, Half - 1, Half, Half + 1, 3 * Half}}
Ratios == {Arith!Rat(n, d) : n \in {-2 * Half - 1, -Half, -3, -1, 0, 1, 2, Half, Half + 3}, d \in 1 .. 3}
Operands == Longs \cup BigInts \cup Ratios \cup {Arith!NilValue, Arith!Text}
Calculation(fns, lists) == {[fn |-> f, args |-> args] : f \in fns, args \in lists}
MCCalculations == <<
    Calculation({"+", "-", "*", "/", "quot", "rem", "mod", "max", "min", "compare", "="}, Operands \X Operands),
    Calculation({"abs", "numerator", "denominator"}, {<<x>> : x \in Operands}),
    Calculation({"range"}, Longs \X Longs \X Longs)>>
=============================================================================
