------------------------------- MODULE Macros -------------------------------
(***************************************************************************)
(* What a macro call expands to (libraries/compiler/expand-macros.lib,     *)
(* compiled into internal/compiler/expand_macros_flag_gen.go): the choice  *)
(* of an arity, the substitution into its body, macro-case, and expansion  *)
(* until no call is left.  A node has a kind, a name and children; the     *)
(* kind "thrown" stands for an exception.                                  *)
(***************************************************************************)
EXTENDS Naturals, Sequences, SequencesExt, FiniteSets, TLC

Node(k, n, c) == [k |-> k, n |-> n, c |-> c]
Sym(n) == Node("symbol", n, << >>)
Num(n) == Node("int", n, << >>)
List(c) == Node("list", "", c)
Thrown == Node("thrown", "", << >>)

IsSym(e, n) == e.k = "symbol" /\ e.n = n

\* Kinds a rest parameter may be spliced into, and kinds with children at all;
\* metadata has two children, the metadata and what it is on, a hash-fn one, its
\* body.
Splice == {"list", "vector", "pipe-vector"}
Inner == Splice \cup {"map", "set", "hash-fn", "meta"}

Unmeta(e) == IF e.k = "meta" THEN e.c[2] ELSE e

\* Mutant: an argument is put into a body as it is.
WrapNot(e) == e

\* wrap-literal: what an argument brings is not a template.
Wrap(e) == Node("literal", "", <<e>>)

RECURSIVE Unwrap(_), UnwrapTree(_), HasLiteral(_)
Unwrap(e) == IF e.k = "literal" THEN Unwrap(e.c[1]) ELSE e
UnwrapTree(e) ==
    LET inside(x) == IF x.k \in Inner THEN [x EXCEPT !.c = [i \in DOMAIN @ |-> UnwrapTree(@[i])]] ELSE x
    IN inside(Unwrap(e))
HasLiteral(e) == e.k = "literal" \/ \E i \in DOMAIN e.c : HasLiteral(e.c[i])

\* node-equal? knows no literals.
Equal(a, b) == a = b /\ ~HasLiteral(a)

\* A node with other children, or the exception one of them threw.
With(e, kids) == IF \E i \in DOMAIN kids : kids[i] = Thrown THEN Thrown ELSE [e EXCEPT !.c = kids]

-----------------------------------------------------------------------------
(* Patterns of macro-case.                                                 *)

Fits(vals, rests) == [is |-> "match", vals |-> vals, rests |-> rests]
Misses == [is |-> "miss", vals |-> << >>, rests |-> << >>]
Throws == [is |-> "throw", vals |-> << >>, rests |-> << >>]

LiteralKinds == {"keyword", "string", "char", "int", "bigint", "float", "ratio", "quoted-symbol"}

RECURSIVE MatchPat(_, _, _, _), MatchSeq(_, _, _, _)

\* macro-op :pat.  A pattern with elements matches one node of its kind, or
\* the items themselves.
MatchPat(pattern, nodes, vals, rests) ==
    LET pat == Unmeta(pattern)
        items == [i \in DOMAIN nodes |-> Unmeta(Unwrap(nodes[i]))]
        single == Len(items) = 1
    IN CASE IsSym(pat, "_") -> IF single THEN Fits(vals, rests) ELSE Misses
         [] IsSym(pat, "&") -> Throws
         [] pat.k = "symbol" /\ pat.n \notin {"_", "&"} ->
              IF ~single THEN Misses
              ELSE IF pat.n \notin DOMAIN vals THEN Fits(vals @@ (pat.n :> items[1]), rests)
              ELSE IF Equal(vals[pat.n], items[1]) THEN Fits(vals, rests) ELSE Misses
         [] pat.k \in Splice ->
              IF single /\ Unmeta(items[1]).k = pat.k
              THEN MatchSeq(pat.c, Unmeta(items[1]).c, vals, rests)
              ELSE MatchSeq(pat.c, items, vals, rests)
         [] OTHER -> IF single /\ Equal(pat, items[1]) THEN Fits(vals, rests) ELSE Misses

\* macro-op :seq.
MatchSeq(pats, nodes, vals, rests) ==
    IF pats = << >> THEN IF nodes = << >> THEN Fits(vals, rests) ELSE Misses
    ELSE IF IsSym(pats[1], "&")
    THEN IF Len(pats) = 2 /\ pats[2].k = "symbol" /\ pats[2].n # "&"
         THEN Fits(vals, (pats[2].n :> nodes) @@ rests)
         ELSE Throws
    ELSE IF nodes = << >> THEN Misses
    ELSE LET onward(m) == IF m.is = "match" THEN MatchSeq(Tail(pats), Tail(nodes), m.vals, m.rests) ELSE m
         IN onward(MatchPat(pats[1], <<nodes[1]>>, vals, rests))

-----------------------------------------------------------------------------
(* Substitution.                                                           *)

IsClause(e) == e.k \in {"list", "vector"} /\ Len(e.c) >= 2
ClauseBody(e) == IF Len(e.c) = 2 THEN e.c[2] ELSE List(<<Sym("do")>> \o Tail(e.c))

RECURSIVE Subst(_, _, _), Case(_), TryClauses(_, _)

\* macro-op :subst.  The children come first, and what comes of them decides
\* whether the list is a macro-case.
Subst(e, vals, rests) ==
    LET Kid(kid) == IF e.k \in Splice /\ kid.k = "symbol" /\ kid.n \in DOMAIN rests
                    THEN [i \in DOMAIN rests[kid.n] |-> Wrap(rests[kid.n][i])]
                    ELSE <<Subst(kid, vals, rests)>>
        headed(whole, n) == whole.k = "list" /\ whole.c # << >> /\ IsSym(whole.c[1], n)
        Formed(whole) == CASE headed(whole, "macro-case") -> Case(Tail(whole.c))
                           [] headed(whole, "macro-defrecord") ->
                                IF Len(whole.c) # 3 THEN Thrown
                                ELSE List(<<Sym("defrecord*"), whole.c[2], whole.c[3]>>)
                           [] OTHER -> whole
    IN CASE e.k = "symbol" -> IF e.n \in DOMAIN vals THEN Wrap(vals[e.n]) ELSE e
         [] e.k \in Inner -> Formed(With(e, FlattenSeq([i \in DOMAIN e.c |-> Kid(e.c[i])])))
         [] OTHER -> e

\* macro-op :case.
Case(args) ==
    IF Len(args) < 2 \/ args[1].k # "list" THEN Thrown
    ELSE TryClauses(Tail(args), IF args[1].c = << >> THEN << >> ELSE Tail(args[1].c))

TryClauses(clauses, target) ==
    IF clauses = << >> \/ ~IsClause(clauses[1]) THEN Thrown
    ELSE LET Tried(m) == CASE m.is = "match" -> Subst(ClauseBody(clauses[1]), m.vals, m.rests)
                           [] m.is = "miss" -> TryClauses(Tail(clauses), target)
                           [] m.is = "throw" -> Thrown
         IN Tried(MatchPat(clauses[1].c[1], target, << >>, << >>))

-----------------------------------------------------------------------------
(* Macros: a sequence of arities [params, rest, body], rest "" for none.   *)

\* compile-multi-arity: fixed arities differ, there is one rest arity at most,
\* and it takes at least as many as the largest fixed one.
GoodMacro(arities) ==
    \A i, j \in DOMAIN arities : i # j =>
        IF arities[i].rest # ""
        THEN arities[j].rest = "" /\ Len(arities[i].params) >= Len(arities[j].params)
        ELSE arities[j].rest = "" => Len(arities[i].params) # Len(arities[j].params)

\* bind-macro-args and apply-macro-arity.
ApplyArity(arity, args) ==
    LET n == Len(arity.params) IN
    IF Len(args) < n \/ (arity.rest = "" /\ Len(args) # n) THEN Thrown
    ELSE UnwrapTree(Subst(arity.body,
                          [p \in {arity.params[i] : i \in 1 .. n} |->
                              args[CHOOSE i \in 1 .. n : arity.params[i] = p]],
                          IF arity.rest = "" THEN << >>
                          ELSE arity.rest :> SubSeq(args, n + 1, Len(args))))

\* apply-multi-arity: the fixed arity of the length, else the last rest arity.
ApplyMacro(arities, args) ==
    LET fixed == SelectSeq(arities, LAMBDA a : a.rest = "" /\ Len(a.params) = Len(args))
        open == SelectSeq(arities, LAMBDA a : a.rest # "")
        one == Len(arities) = 1
    IN IF one \/ fixed # << >> \/ (open # << >> /\ Len(args) >= Len(open[Len(open)].params))
       THEN ApplyArity(IF one THEN arities[1] ELSE IF fixed # << >> THEN fixed[1] ELSE open[Len(open)], args)
       ELSE Thrown

MaxDepth == 100

IsCall(e, macros) ==
    e.k = "list" /\ e.c # << >> /\ e.c[1].k = "symbol" /\ e.c[1].n \in DOMAIN macros

RECURSIVE Expand(_, _, _)

ExpandCall(e, macros, depth) ==
    LET again(one) == IF one = Thrown THEN Thrown ELSE Expand(one, macros, depth + 1)
    IN again(ApplyMacro(macros[e.c[1].n], Tail(e.c)))

\* expand-node.  The depth is that of the calls a node came from.
Expand(e, macros, depth) ==
    IF depth > MaxDepth THEN Thrown
    ELSE IF IsCall(e, macros) THEN ExpandCall(e, macros, depth)
    ELSE IF e.k \in Inner
    THEN With(e, [i \in DOMAIN e.c |-> Expand(e.c[i], macros, depth)])
    ELSE e

-----------------------------------------------------------------------------
(* What a call should expand to.                                           *)

\* The nodes inside a node, and the variables of a pattern.
RECURSIVE Subtrees(_)
Subtrees(e) == {e} \cup UNION {Subtrees(e.c[i]) : i \in DOMAIN e.c}
Symbols(e) == {x.n : x \in {y \in Subtrees(e) : y.k = "symbol"}} \ {"_", "&"}
RestOf(pat) == {x.c[Len(x.c)].n : x \in {y \in Subtrees(pat) :
                   /\ y.k \in Splice /\ Len(y.c) >= 2
                   /\ IsSym(y.c[Len(y.c) - 1], "&")}}

\* A pattern is fitted by items under an environment, element by element.  An
\* environment gives each variable the nodes it stands for.
RECURSIVE Fitted(_, _, _)
Fitted(pat, items, env) ==
    CASE IsSym(pat, "_") -> Len(items) = 1
      [] pat.k = "symbol" /\ pat.n # "_" -> env[pat.n] = items
      [] pat.k \in Splice ->
           LET inside == IF Len(items) = 1 /\ items[1].k = pat.k THEN items[1].c ELSE items
               n == Len(pat.c)
               open == n >= 2 /\ IsSym(pat.c[n - 1], "&")
               fixed == IF open THEN n - 2 ELSE n
           IN /\ IF open THEN Len(inside) >= fixed ELSE Len(inside) = fixed
              /\ \A i \in 1 .. fixed : Fitted(pat.c[i], <<inside[i]>>, env)
              /\ open => env[pat.c[n].n] = SubSeq(inside, fixed + 1, Len(inside))
      [] OTHER -> items = <<pat>>

\* The environments that fit: one node for a variable, or the end of a list
\* for one behind &.
Environments(pat, items) ==
    LET nodes == UNION {Subtrees(items[i]) : i \in DOMAIN items}
        ends == {SubSeq(l, n, Len(l)) : l \in {items} \cup {x.c : x \in nodes}, n \in 1 .. 3}
    IN {env \in [Symbols(pat) -> {<<x>> : x \in nodes} \cup ends] :
          /\ Fitted(pat, items, env)
          /\ \A v \in DOMAIN env : v \in RestOf(pat) \/ Len(env[v]) = 1}

\* A template with its variables filled in.  Those in several are put, with all
\* their nodes, where they are elements of a list or vector, and nowhere else.
RECURSIVE Filled(_, _, _)
Filled(e, env, several) ==
    LET In(kid) == IF kid.k = "symbol" /\ kid.n \in several /\ e.k \in Splice
                   THEN env[kid.n] ELSE <<Filled(kid, env, several)>>
        Clauses == SubSeq(e.c, 3, Len(e.c))
        Target == Tail(Filled(e.c[2], env, several).c)
        Fitting == {i \in DOMAIN Clauses : Environments(Clauses[i].c[1], Target) # {}}
    IN CASE e.k = "symbol" -> IF e.n \in DOMAIN env \ several THEN env[e.n][1] ELSE e
         [] e.k = "list" /\ e.c # << >> /\ IsSym(e.c[1], "macro-case") ->
              \* the first clause that fits adds its variables to the parameters
              IF Fitting = {} THEN Thrown
              ELSE LET i == CHOOSE i \in Fitting : \A j \in Fitting : i <= j
                       pat == Clauses[i].c[1] IN
                   Filled(ClauseBody(Clauses[i]),
                          (CHOOSE more \in Environments(pat, Target) : TRUE) @@ env,
                          RestOf(pat) \cup several)
         [] e.k \in Inner /\ (e.k # "list" \/ e.c = << >> \/ ~IsSym(e.c[1], "macro-case")) ->
              With(e, FlattenSeq([i \in DOMAIN e.c |-> In(e.c[i])]))
         [] OTHER -> e

\* The arity of a call, whatever the order the arities are written in.
Meant(arities, args) ==
    {a \in Range(arities) :
        IF a.rest = "" THEN Len(a.params) = Len(args)
        ELSE /\ Len(a.params) <= Len(args)
             /\ \A b \in Range(arities) : b.rest = "" => Len(b.params) # Len(args)}

Expansion(arities, args) ==
    IF Meant(arities, args) = {} THEN Thrown
    ELSE LET a == CHOOSE a \in Meant(arities, args) : TRUE
             n == Len(a.params)
             env == [p \in Range(a.params) |-> <<args[CHOOSE i \in 1 .. n : a.params[i] = p]>>]
         IN IF a.rest = "" THEN Filled(a.body, env, {})
            ELSE Filled(a.body, env @@ (a.rest :> SubSeq(args, n + 1, Len(args))), {a.rest})

\* A call of macros expands by simultaneous substitution: an argument is put
\* where its parameter stands and is never read as a part of the template, be
\* it the name of a parameter, of a pattern's variable or of macro-case.
Substitutes(arities, args, x) ==
    GoodMacro(arities) => x = Expansion(arities, args)

\* A round replaces all outermost calls by what they stand for.  A list that is
\* no call when it is met is settled: it stays one of no call, even if a macro
\* makes its head (a list in the place of a function).
RECURSIVE Round(_, _)
Round(e, macros) ==
    CASE IsCall(e, macros) -> Expansion(macros[e.c[1].n], Tail(e.c))
      [] ~IsCall(e, macros) /\ e.k \in Inner \cup {"settled"} ->
           With([e EXCEPT !.k = IF @ = "list" THEN "settled" ELSE @],
                [i \in DOMAIN e.c |-> Round(e.c[i], macros)])
      [] OTHER -> e

\* The calls in a form.  What is quoted is none.
RECURSIVE CallsIn(_, _)
CallsIn(e, macros) ==
    IF IsCall(e, macros) THEN {e}
    ELSE IF e.k \in Inner \cup {"settled"}
    THEN UNION {CallsIn(e.c[i], macros) : i \in DOMAIN e.c} ELSE {}

RECURSIVE Rounds(_, _, _), Lists(_)
Rounds(e, macros, n) ==
    IF n = 0 \/ CallsIn(e, macros) = {} THEN e ELSE Rounds(Round(e, macros), macros, n - 1)

\* The settled lists as lists again.
Lists(e) == [e EXCEPT !.k = IF @ = "settled" THEN "list" ELSE @,
                      !.c = [i \in DOMAIN @ |-> Lists(@[i])]]

\* What a form expands to.  It is refused if a call in it, or in what came of
\* it, fits no arity or no clause, or comes of MaxDepth others.
Meaning(e, macros) ==
    LET last == Rounds(e, macros, MaxDepth) IN
    IF CallsIn(last, macros) = {} THEN Lists(last) ELSE Thrown

\* A form expands to what rewriting its calls gives until there are none left,
\* and is refused for the reasons of Meaning only.  No mark that was put around
\* an argument is left in it.  x is what e was expanded to.
Expands(e, macros, x) == x = Meaning(e, macros) /\ ~HasLiteral(x)
=============================================================================
