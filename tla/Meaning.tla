------------------------------ MODULE Meaning -------------------------------
(***************************************************************************)
(* What a form of Lowering means, said without Go: arguments one after the *)
(* other and each of them once, names by the forms around them, fresh      *)
(* variables for every round of a loop, deferred functions at the end of   *)
(* the body they stand in, the latest first.  Values and the state of a    *)
(* run are those of GoCode.                                                *)
(***************************************************************************)
EXTENDS GoCode

Op == INSTANCE Lowering

RECURSIVE Means(_, _, _), MeansAll(_, _, _, _), BodyMeans(_, _, _, _, _), Calls(_, _, _), Bound(_, _, _, _),
          Rounded(_, _, _, _), Walks(_, _, _, _, _), Steps(_, _, _, _), Undo(_, _)

\* A function called: one of the module's, or one a form made.
Calls(f, args, st) ==
    IF f.t = "known" THEN Ends("val", IF args = << >> THEN Nil ELSE args[Len(args)], Logged(st, f.w, args))
    ELSE IF f.t # "fn" THEN Panics("not a function", st)
    ELSE LET names == f.v[1].params
             base == Len(st.mem)
         IN IF Len(args) # Len(names) THEN Panics("arity", st)
            ELSE BodyMeans(<<f.v[1].body>>,
                           [x \in ToSet(names) |-> base + CHOOSE i \in DOMAIN names : names[i] = x] @@ f.v[1].env,
                           FoldLeft(Alloc, st, args), << >>, Nil)

\* What comes to a value goes on.
Then(out, F(_)) == IF out.k = "val" THEN F(out) ELSE out

\* Functions still to call when a body is left as "out" says.
Undo(fs, out) ==
    LET ran(run) == IF run.k = "panic" THEN run ELSE [out EXCEPT !.st = run.st] IN
    IF fs = << >> THEN out ELSE Undo(Front(fs), ran(Calls(fs[Len(fs)], << >>, out.st)))

\* The forms of a body, in order.
BodyMeans(forms, env, st, fs, value) ==
    IF forms = << >> THEN Undo(fs, Ends("val", value, st))
    ELSE LET defers == forms[1].k = "defer"
             Onward(out) == IF out.k # "val" THEN Undo(fs, out)
                            ELSE BodyMeans(Tail(forms), env, out.st, IF defers THEN Append(fs, out.v) ELSE fs,
                                           IF defers THEN Nil ELSE out.v)
         IN Onward(Means(IF defers THEN forms[1].c[1] ELSE forms[1], env, st))

MeansAll(es, env, st, sofar) ==
    IF es = << >> THEN Ends("val", sofar, st)
    ELSE Then(Means(es[1], env, st), LAMBDA out : MeansAll(Tail(es), env, out.st, Append(sofar, out.v)))

\* The names of a let or a loop, each known to the values after it.
Bound(names, values, env, st) ==
    LET onward(out) ==
            IF out.k # "val" THEN [k |-> out.k, env |-> env, st |-> out.st, v |-> out.v]
            ELSE Bound(Tail(names), Tail(values), (names[1] :> Len(out.st.mem) + 1) @@ env, Alloc(out.st, out.v))
    IN IF names = << >> THEN [k |-> "val", env |-> env, st |-> st, v |-> Nil] ELSE onward(Means(values[1], env, st))

\* A loop's body until it does not ask for another round.
Rounded(e, env, st, rounds) ==
    LET Ended(out) ==
            LET base == Len(out.st.mem)
                again == [x \in ToSet(e.n) |-> base + CHOOSE i \in DOMAIN e.n : e.n[i] = x] @@ env
            IN IF out.k = "again" THEN Rounded(e, again, FoldLeft(Alloc, out.st, out.v), rounds - 1) ELSE out
    IN IF rounds = 0 THEN Panics("rounds", st)
       ELSE Ended(BodyMeans(SubSeq(e.c, Len(e.n) + 1, Len(e.c)), env, st, << >>, Nil))

\* The body of a doseq or a for for every item; the results.
Walks(e, items, env, st, sofar) ==
    IF items = << >> THEN Ends("val", sofar, st)
    ELSE Then(BodyMeans(Tail(e.c), (e.n[1] :> Len(st.mem) + 1) @@ env, Alloc(st, items[1]), << >>, Nil),
              LAMBDA out : Walks(e, Tail(items), env, out.st, Append(sofar, out.v)))

\* The functions of a doto.
Steps(es, target, env, st) ==
    IF es = << >> THEN Ends("val", target, st)
    ELSE Then(Means(es[1], env, st), LAMBDA f :
         Then(Calls(f.v, <<target>>, f.st), LAMBDA out : Steps(Tail(es), target, env, out.st)))

\* The body of a try ended so: the catch clause that runs, then the finally.
Caught(e, thrown) == {i \in 1 .. Len(e.n) \div 2 : CatchMatches(e.n[2 * i - 1])}
Handled(e, env, body) ==
    LET caught == Caught(e, body.v)
        i == CHOOSE c \in caught : \A d \in caught : c <= d
    IN IF body.k # "panic" \/ caught = {} THEN body
       ELSE BodyMeans(e.c[i + 1].c, (e.n[2 * i] :> Len(body.st.mem) + 1) @@ env, Alloc(body.st, body.v), << >>, Nil)
Finally(e, env, handled) ==
    LET ran(out) == IF out.k = "panic" THEN out ELSE [handled EXCEPT !.st = out.st] IN
    IF Len(e.c) = Len(e.n) \div 2 + 1 THEN handled
    ELSE ran(BodyMeans(e.c[Len(e.c)].c, env, handled.st, << >>, Nil))

\* What a form does with its arguments, once they are known.
Applied(e, args) ==
    CASE e.k = "op" -> IF e.n[1] = "println" THEN Ends("val", Nil, Logged(args.st, "Println", args.v))
                       ELSE Ends("val", Pure(Op!Ops[e.n[1]].rt, args.v), args.st)
      [] e.k = "chain" ->
           Ends("val", Bool(\A i \in 2 .. Len(args.v) :
                                Truthy(Pure(IF e.n = <<"=">> THEN "Eq" ELSE "Lt", <<args.v[i - 1], args.v[i]>>))), args.st)
      [] e.k = "fold" ->
           Ends("val", FoldLeft(LAMBDA sofar, v : Val("Arithmetic", <<sofar, v>>), args.v[1], Tail(args.v)), args.st)
      [] e.k = "coll" -> Ends("val", Val("arr", args.v), args.st)
      [] e.k = "call" -> Calls(args.v[1], Tail(args.v), args.st)
      [] e.k = "recur" -> Ends("again", args.v, args.st)
\* ... and with the first, to which it looks before the others.
Decided(e, env, first) ==
    CASE e.k = "if" -> IF Truthy(first.v) THEN Means(e.c[2], env, first.st)
                       ELSE IF Len(e.c) = 3 THEN Means(e.c[3], env, first.st) ELSE Ends("val", Nil, first.st)
      [] e.k = "update" -> Ends("val", first.v, [first.st EXCEPT !.mem[env[e.n[1]]] = first.v])
      [] e.k = "throw" -> Ends("panic", first.v, first.st)
      [] e.k = "doto" -> Steps(Tail(e.c), first.v, env, first.st)
      [] e.k \in {"doseq", "for"} ->
           IF first.v.t # "arr" THEN Panics("not a collection", first.st)
           ELSE Then(Walks(e, first.v.v, env, first.st, << >>), LAMBDA out :
                     Ends("val", IF e.k = "for" THEN Val("arr", out.v) ELSE Nil, out.st))
      [] e.k = "is" -> IF Truthy(first.v) THEN Ends("val", Nil, first.st) ELSE Panics("failed", first.st)
\* ... and with its names, once they have their values.
Inside(e, bound) ==
    IF bound.k # "val" THEN Ends(bound.k, bound.v, bound.st)
    ELSE IF e.k = "loop" THEN Rounded(e, bound.env, bound.st, Rounds)
    ELSE BodyMeans(SubSeq(e.c, Len(e.n) + 1, Len(e.c)), bound.env, bound.st, << >>, Nil)

Means(e, env, st) ==
    LET expected(out) == IF out.k = "panic" THEN Ends("val", Nil, out.st) ELSE Panics("expected exception", out.st)
    IN CASE e.k = "lit" -> Ends("val", Word(e.n[1], e.n[2]), st)
         [] e.k = "sym" -> Ends("val", IF e.n[1] \in DOMAIN env THEN st.mem[env[e.n[1]]] ELSE Word("known", e.n[1]), st)
         [] e.k \in {"op", "chain", "fold", "coll", "call", "recur"} ->
              Then(MeansAll(e.c, env, st, << >>), LAMBDA args : Applied(e, args))
         [] e.k \in {"if", "update", "throw", "doto", "doseq", "for", "is"} ->
              Then(Means(e.c[1], env, st), LAMBDA first : Decided(e, env, first))
         [] e.k \in {"let", "vlet", "loop"} -> Inside(e, Bound(e.n, SubSeq(e.c, 1, Len(e.n)), env, st))
         [] e.k = "do" -> BodyMeans(e.c, env, st, << >>, Nil)
         [] e.k = "fn" -> Ends("val", Val("fn", <<[params |-> e.n, body |-> e.c[1], env |-> env]>>), st)
         [] e.k = "testing" -> Then(BodyMeans(e.c, env, st, << >>, Nil), LAMBDA out : Ends("val", Nil, out.st))
         [] e.k = "expect" -> expected(Means(e.c[1], env, st))
         [] e.k = "try" -> Finally(e, env, Handled(e, env, BodyMeans(e.c[1].c, env, st, << >>, Nil)))

(************************** Which forms are regular ***********************)

\* The kind of a form's value; env gives the local names theirs ("mut" for a
\* volatile one).
RECURSIVE Kind(_, _), LastKind(_, _), Entered(_, _)
LastKind(forms, env) ==
    IF forms = << >> THEN "value"
    ELSE LET kind == Kind(forms[Len(forms)], env) IN IF kind = "defer" THEN "value" ELSE kind

\* The names of a let, a loop or a function added to env.
Entered(e, env) ==
    FoldLeft(LAMBDA known, i :
                 (e.n[i] :> CASE e.k = "let" -> Kind(e.c[i], known) [] e.k = "fn" -> "value" [] OTHER -> "mut") @@ known,
             env, [i \in DOMAIN e.n |-> i])
Behind(e) == SubSeq(e.c, Len(e.n) + 1, Len(e.c))

Kind(e, env) ==
    CASE e.k = "lit" -> (CASE e.n[1] = "bool" -> "bool" [] e.n[1] = "str" -> "string" [] OTHER -> "value")
      [] e.k = "sym" -> IF e.n[1] \in DOMAIN env /\ env[e.n[1]] # "mut" THEN env[e.n[1]] ELSE "value"
      [] e.k = "op" /\ e.n[1] \in {"str", "name", "to-json"} -> "string"
      [] e.k = "op" /\ e.n[1] \in {"nil?", "empty?", "contains?", "==", ".endsWith"} -> "bool"
      [] e.k = "chain" -> "bool"
      [] e.k = "defer" -> "defer"
      [] e.k = "do" -> LastKind(e.c, env)
      [] e.k \in {"let", "vlet"} -> LastKind(Behind(e), Entered(e, env))
      [] e.k = "if" /\ Len(e.c) = 3 ->
           IF Kind(e.c[2], env) = Kind(e.c[3], env) THEN Kind(e.c[2], env) ELSE "value"
      [] OTHER -> "value"

Takes(how) == CASE how = "wrap" -> {"value", "string", "bool"}
                [] how = "any" -> {"value", "string", "bool"}
                [] how = "nostring" -> {"value", "bool"}
                [] how \in {"named", "path", "text"} -> {"value", "string"}
                [] OTHER -> {how}

CatchEnv(e, i, env) == (e.n[2 * i] :> "value") @@ env

\* Every name stands where it is known, every operation has arguments it
\* takes, and recur as many as its loop has names (-1 outside of a loop).
RECURSIVE Named(_, _, _, _)
Named(e, env, fns, loop) ==
    LET All(forms, in) == \A i \in DOMAIN forms : Named(forms[i], in, fns, loop)
        Upto(i) == Entered([e EXCEPT !.n = SubSeq(@, 1, i)], env)
    IN CASE e.k = "lit" -> TRUE
         [] e.k = "sym" -> e.n[1] \in DOMAIN env \cup fns
         [] e.k = "op" ->
              /\ Op!Accepts(e.n[1], Len(e.c)) /\ All(e.c, env)
              /\ \A i \in DOMAIN e.c : Kind(e.c[i], env) \in Takes(Op!Ops[e.n[1]][IF i = 1 THEN "first" ELSE "others"])
         [] e.k \in {"chain", "fold"} -> Len(e.c) >= 2 /\ All(e.c, env)
         [] e.k = "recur" -> loop = Len(e.c) /\ All(e.c, env)
         [] e.k = "let" \/ e.k = "vlet" ->
              /\ IsInjective(e.n) /\ All(Behind(e), Entered(e, env))
              /\ \A i \in DOMAIN e.n : Named(e.c[i], Upto(i - 1), fns, loop)
         [] e.k = "loop" ->
              /\ IsInjective(e.n) /\ Behind(e) # << >>
              /\ \A i \in DOMAIN Behind(e) : Named(Behind(e)[i], Entered(e, env), fns, Len(e.n))
              /\ \A i \in DOMAIN e.n : Named(e.c[i], Upto(i), fns, loop)
         [] e.k = "fn" -> IsInjective(e.n) /\ Named(e.c[1], Entered(e, env), fns, -1)
         [] e.k = "update" -> e.n[1] \in DOMAIN env /\ env[e.n[1]] = "mut" /\ All(e.c, env)
         [] e.k \in {"doseq", "for"} -> /\ Len(e.c) >= 2 /\ Named(e.c[1], env, fns, loop)
                             /\ All(Tail(e.c), (e.n[1] :> "value") @@ env)
         [] e.k = "try" -> LET catches == Len(e.n) \div 2 IN
                           \A i \in DOMAIN e.c : Named(e.c[i], IF i \in 2 .. catches + 1 THEN CatchEnv(e, i - 1, env) ELSE env,
                                                       fns, loop)
         [] OTHER -> All(e.c, env)

\* Whether a form reads (or updates) the name x of the forms around it.
RECURSIVE Mentions(_, _)
Mentions(e, x) ==
    LET Hides(i) == \/ e.k \in {"let", "vlet", "loop"} /\ \E j \in 1 .. i - 1 : j <= Len(e.n) /\ e.n[j] = x
                    \/ e.k = "fn" /\ x \in ToSet(e.n)
                    \/ e.k \in {"doseq", "for"} /\ i > 1 /\ e.n[1] = x
                    \/ e.k = "try" /\ i \in 2 .. Len(e.n) \div 2 + 1 /\ e.n[2 * (i - 1)] = x
    IN \/ e.k \in {"sym", "update"} /\ e.n[1] = x
       \/ \E i \in DOMAIN e.c : ~Hides(i) /\ Mentions(e.c[i], x)

\* Whether a function formed in e keeps the name x.
RECURSIVE Keeps(_, _)
Keeps(e, x) == (e.k = "fn" /\ Mentions(e, x)) \/ \E i \in DOMAIN e.c : Keeps(e.c[i], x)

\* Whether names of e are known behind the form they belong to.
RECURSIVE Leaks(_)
Leaks(e) == e.k \in {"doseq", "for", "try"} \/ \E i \in DOMAIN e.c : Leaks(e.c[i])

Defers(forms) == \E i \in DOMAIN forms : forms[i].k = "defer"
Lists == {"op", "coll", "call", "chain", "fold", "recur"}

\* Whether a form needs statements before the place it stands in.
RECURSIVE Hoists(_)
Hoists(e) == \/ e.k \in {"if", "let", "vlet"}
             \/ e.k \in Lists /\ \E i \in DOMAIN e.c : Hoists(e.c[i])
             \/ e.k = "do" /\ ~Defers(e.c) /\ (Len(e.c) > 1 \/ \E i \in DOMAIN e.c : Hoists(e.c[i]))
             \/ e.k \in {"doseq", "for"} /\ Hoists(e.c[1])
             \/ e.k = "try" /\ Len(e.c) = 1 /\ Hoists(e.c[1])

\* Whether what is left of a form at its place neither acts nor changes.
RECURSIVE Still(_, _)
Still(e, env) == \/ e.k \in {"lit", "fn", "if", "let", "vlet"}
                 \/ e.k = "sym" /\ ~(e.n[1] \in DOMAIN env /\ env[e.n[1]] = "mut")
                 \/ e.k \in Lists \ {"call"} /\ e.n # <<"println">> /\ \A i \in DOMAIN e.c : Still(e.c[i], env)
                 \/ e.k = "do" /\ ~Defers(e.c) /\ (e.c = << >> \/ Still(e.c[Len(e.c)], env))
                 \/ e.k = "try" /\ Len(e.c) = 1 /\ Still(e.c[1], env)

\* Whether what is left of a form at its place is the name of a variable
\* that may change.
RECURSIVE Bare(_, _)
Bare(e, env) == \/ e.k = "sym" /\ ~Still(e, env)
                \/ e.k = "do" /\ ~Defers(e.c) /\ e.c # << >> /\ Bare(e.c[Len(e.c)], env)
                \/ e.k = "try" /\ Len(e.c) = 1 /\ Bare(e.c[1], env)

\* Arguments that keep their order: nothing that needs statements stands
\* behind one that acts or may change, nothing that acts behind a bare
\* volatile name.
Ordered(es, env) ==
    \A j \in DOMAIN es : \A i \in 1 .. j - 1 :
        /\ Hoists(es[j]) => Still(es[i], env)
        /\ Bare(es[i], env) => (Bare(es[j], env) \/ Still(es[j], env))

\* The forms whose meaning the compiler keeps; "tail" says whether a recur
\* may stand here.
RECURSIVE Regular(_, _, _, _)
RegularBody(forms, env, fns, tail) ==
    \A i \in DOMAIN forms :
        IF forms[i].k = "defer" THEN Regular(forms[i].c[1], env, fns, FALSE)
        ELSE Regular(forms[i], env, fns, tail /\ i = Len(forms))
Regular(e, env, fns, tail) ==
    LET Plain(es) == \A i \in DOMAIN es : Regular(es[i], env, fns, FALSE)
        Upto(i) == Entered([e EXCEPT !.n = SubSeq(@, 1, i)], env)
        Free(x) == x \notin fns /\ (x \in DOMAIN env => env[x] = "value")
        Used(i) == Mentions([e EXCEPT !.n = SubSeq(@, i + 1, Len(@)), !.c = SubSeq(@, i + 1, Len(@))], e.n[i])
    IN CASE e.k = "defer" -> FALSE
         [] e.k = "recur" -> tail /\ Plain(e.c) /\ Ordered(e.c, env)
         [] e.k = "chain" -> Plain(e.c) /\ Ordered(e.c, env) /\ (Len(e.c) > 2 => \A i \in 2 .. Len(e.c) : Still(e.c[i], env))
         [] e.k \in {"op", "coll", "call", "fold"} -> Plain(e.c) /\ Ordered(e.c, env)
         [] e.k = "if" -> /\ Kind(e.c[1], env) # "string" /\ Regular(e.c[1], env, fns, FALSE)
                          /\ \A i \in 2 .. Len(e.c) : Regular(e.c[i], env, fns, tail)
         [] e.k = "do" -> RegularBody(e.c, env, fns, tail)
         [] e.k \in {"let", "vlet"} ->
              /\ \A i \in DOMAIN e.n : Regular(e.c[i], Upto(i - 1), fns, FALSE) /\ Used(i)
              /\ RegularBody(Behind(e), Entered(e, env), fns, tail)
         [] e.k = "fn" -> /\ \A i \in DOMAIN e.n : Mentions(e.c[1], e.n[i])
                          /\ RegularBody(e.c, Entered(e, env), fns, FALSE)
         [] e.k = "loop" ->
              /\ \A i \in DOMAIN e.n :
                   /\ Regular(e.c[i], Upto(i - 1), fns, FALSE) /\ Used(i)
                   /\ Mentions(e.c[i], e.n[i]) => e.n[i] \in DOMAIN env /\ env[e.n[i]] \in {"value", "mut"}
                   /\ \A j \in DOMAIN e.c : ~Keeps(e.c[j], e.n[i])
                   /\ Hoists(e.c[i]) => \A j \in 1 .. i - 1 : Still(e.c[j], Upto(j - 1)) /\ ~Mentions(e.c[i], e.n[j])
              /\ RegularBody(Behind(e), Entered(e, env), fns, TRUE)
         [] e.k = "testing" -> RegularBody(e.c, env, fns, FALSE)
         [] e.k = "is" -> Kind(e.c[1], env) # "string" /\ Plain(e.c)
         [] e.k \in {"doseq", "for"} ->
                             /\ Free(e.n[1]) /\ \E i \in 2 .. Len(e.c) : Mentions(e.c[i], e.n[1])
                             /\ Regular(e.c[1], env, fns, FALSE)
                             /\ RegularBody(Tail(e.c), (e.n[1] :> "value") @@ env, fns, FALSE)
         [] e.k = "try" -> LET catches == Len(e.n) \div 2 IN
                           /\ \A i \in 1 .. catches : Free(e.n[2 * i])
                           /\ \A i \in DOMAIN e.c :
                                IF i \in 2 .. catches + 1 THEN RegularBody(e.c[i].c, CatchEnv(e, i - 1, env), fns, tail)
                                ELSE RegularBody(e.c[i].c, env, fns, tail /\ i = 1)
         [] OTHER -> Plain(e.c)

(*********************************** Runs *********************************)

\* A function of the module with these parameters, called with a list and
\* the number 2.
ArgsOf(params) == [i \in DOMAIN params |-> IF i = 1 THEN Val("arr", <<Word("int", "7"), Nil>>) ELSE Word("int", "2")]
EnvOf(params) == [x \in ToSet(params) |-> CHOOSE i \in DOMAIN params : params[i] = x]
Seen(out) == [k |-> IF out.k = "ret" THEN "val" ELSE out.k, v |-> Shown(out.v), log |-> out.st.log]

Meant(e, params) ==
    Seen(BodyMeans(<<e>>, EnvOf(params), [Fresh EXCEPT !.mem = ArgsOf(params)], << >>, Nil))
GoBody(part) == Append(part.stmts, Op!GoRet(part.expr))
Done(part, params) ==
    Seen(Invoke(GoBody(part), EnvOf(params), [Fresh EXCEPT !.mem = ArgsOf(params)]))
GoBuilds(part, params, fns) ==
    Builds(GoBody(part), [x \in ToSet(params) \cup fns \cup {""} |-> "Value"], ToSet(params))
=============================================================================
