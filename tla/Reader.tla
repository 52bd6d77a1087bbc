------------------------------- MODULE Reader -------------------------------
(***************************************************************************)
(* What the parser makes of a sequence of tokens (read-expr in             *)
(* libraries/compiler/build-ast.lib, compiled into                         *)
(* internal/compiler/build_ast_flag_gen.go).  A token is a string; "a" and *)
(* "comment" stand for names, "1" for any literal, "#" for what the reader *)
(* does not know.  A node keeps the position of its first token.           *)
(***************************************************************************)
EXTENDS Naturals, Sequences, SequencesExt

Closer == [open \in {"(", "[", "|", "{", "#{", "#("} |->
             CASE open \in {"(", "#("} -> ")"
               [] open = "[" -> "]"
               [] open = "|" -> "|"
               [] open \in {"{", "#{"} -> "}"]
KindOf == [open \in DOMAIN Closer |->
             CASE open = "(" -> "list"      [] open = "[" -> "vector"
               [] open = "|" -> "pipe-vector" [] open = "{" -> "map"
               [] open = "#{" -> "set"      [] open = "#(" -> "hash-fn"]

Node(kind, at, kids) == [kind |-> kind, at |-> at, kids |-> kids]
Nil == Node("nil", 0, << >>)

Failed(i) == [ok |-> FALSE, node |-> Nil, next |-> i]
Gives(node, next) == [ok |-> TRUE, node |-> node, next |-> next]

\* comment-list?: the first element that is left is the symbol comment.
CommentList(toks, kids) ==
    kids # << >> /\ kids[1].kind = "symbol" /\ toks[kids[1].at] = "comment"

\* Mutant: any bracket that opens with the name comment is dropped.
DropsAnyComment(toks, open, kids) == CommentList(toks, kids)

Drops(toks, open, kids) == toks[open] = "(" /\ CommentList(toks, kids)

RECURSIVE ReadExpr(_, _), ReadKids(_, _, _, _)

\* The elements up to the closer of the bracket at open; what reads as nothing
\* is no element.
ReadKids(toks, open, i, kids) ==
    IF i > Len(toks) THEN Failed(i)
    ELSE IF toks[i] = Closer[toks[open]]
    THEN Gives(IF Drops(toks, open, kids) THEN Nil
               ELSE Node(KindOf[toks[open]], open, kids), i + 1)
    ELSE LET item == ReadExpr(toks, i) IN
         IF ~item.ok THEN item
         ELSE ReadKids(toks, open, item.next,
                       IF item.node = Nil THEN kids ELSE Append(kids, item.node))

\* Metadata and what it is on; either may read as nothing.
ReadMeta(toks, i) ==
    LET meta == ReadExpr(toks, i + 1)
        target == ReadExpr(toks, meta.next) IN
    IF ~meta.ok THEN meta
    ELSE IF ~target.ok THEN target
    ELSE Gives(Node("meta", i, <<meta.node, target.node>>), target.next)

ReadQuote(toks, i) ==
    LET quoted == ReadExpr(toks, i + 1) IN
    IF ~quoted.ok THEN quoted
    ELSE IF quoted.node.kind = "symbol"
    THEN Gives(Node("quoted-symbol", i, <<quoted.node>>), quoted.next)
    ELSE IF quoted.node.kind = "list"
    THEN Gives(Node("quoted-list", i, quoted.node.kids), quoted.next)
    ELSE Failed(i)

ReadExpr(toks, i) ==
    IF i > Len(toks) THEN Failed(i)
    ELSE CASE toks[i] \in DOMAIN Closer -> ReadKids(toks, i, i + 1, << >>)
           [] toks[i] = "^" -> ReadMeta(toks, i)
           [] toks[i] = "'" -> ReadQuote(toks, i)
           [] toks[i] \in {")", "]", "}", "#"} -> Failed(i)
           [] toks[i] \in {"a", "comment"} -> Gives(Node("symbol", i, << >>), i + 1)
           [] toks[i] = "1" -> Gives(Node("literal", i, << >>), i + 1)

\* The loop of build-ast-from-tokens.
RECURSIVE ReadAll(_, _, _)
ReadAll(toks, i, forms) ==
    IF i > Len(toks) THEN [ok |-> TRUE, forms |-> forms]
    ELSE LET r == ReadExpr(toks, i) IN
         IF ~r.ok THEN [ok |-> FALSE, forms |-> forms]
         ELSE ReadAll(toks, r.next, IF r.node = Nil THEN forms ELSE Append(forms, r.node))

-----------------------------------------------------------------------------
(* The same language as a grammar: which spans of tokens are a form, and   *)
(* the tree each stands for.  A span is a form when one of the rules       *)
(* allows it, whoever reads it.                                            *)

Form(i, j, node) == [from |-> i, to |-> j, node |-> node]

Brackets == {<<"(", ")", "list">>, <<"[", "]", "vector">>, <<"|", "|", "pipe-vector">>,
             <<"{", "}", "map">>, <<"#{", "}", "set">>, <<"#(", ")", "hash-fn">>}

\* The ways to cut the tokens i .. j into forms.
RECURSIVE Rows(_, _, _)
Rows(forms, i, j) ==
    IF i > j THEN {<< >>}
    ELSE UNION {{<<f>> \o row : row \in Rows(forms, f.to + 1, j)} :
                  f \in {g \in forms : g.from = i /\ g.to <= j}}

\* The trees of a row.  A comment is a form without a tree.
TreesOf(row) ==
    LET trees == SelectSeq(row, LAMBDA f : f.node # Nil)
    IN [k \in DOMAIN trees |-> trees[k].node]

Names(toks) ==
    {Node("symbol", k, << >>) : k \in {i \in DOMAIN toks : toks[i] \in {"a", "comment"}}}
Literals(toks) == {Node("literal", k, << >>) : k \in {i \in DOMAIN toks : toks[i] = "1"}}

\* A list of which the first element is the name comment is a comment.
IsComment(toks, tree) ==
    /\ tree.kind = "list" /\ tree.kids # << >>
    /\ tree.kids[1] \in Names(toks) /\ toks[tree.kids[1].at] = "comment"

\* A form between brackets.  Inside of bars a bar closes, and opens nothing.
Bracketed(toks, forms, i, j) ==
    UNION {LET Tree(row) == Node(b[3], i, TreesOf(row)) IN
           {Form(i, j, IF IsComment(toks, Tree(row)) THEN Nil ELSE Tree(row)) :
              row \in {r \in Rows(forms, i + 1, j - 1) :
                         b[1] = "|" => \A k \in DOMAIN r : toks[r[k].from] # "|"}} :
           b \in {x \in Brackets : i < j /\ toks[i] = x[1] /\ toks[j] = x[2]}}

\* Metadata and what it is on: two forms, of which either may be a comment.
Annotated(toks, forms, i, j) ==
    {Form(i, j, Node("meta", i, <<row[1].node, row[2].node>>)) :
       row \in {r \in Rows(forms, i + 1, j) : toks[i] = "^" /\ Len(r) = 2}}

\* A name or a list can be quoted.
Quoted(toks, forms, i, j) ==
    {Form(i, j, IF f.node.kind = "symbol" THEN Node("quoted-symbol", i, <<f.node>>)
                ELSE Node("quoted-list", i, f.node.kids)) :
       f \in {g \in forms : /\ toks[i] = "'" /\ g.from = i + 1 /\ g.to = j
                            /\ g.node.kind \in {"symbol", "list"}}}

\* All forms in a text, from short spans to long ones.
RECURSIVE FormsUpTo(_, _)
FormsUpTo(toks, n) ==
    IF n = 0 THEN {}
    ELSE LET less == FormsUpTo(toks, n - 1)
             rules(i, j) == Bracketed(toks, less, i, j) \cup Annotated(toks, less, i, j)
                              \cup Quoted(toks, less, i, j)
         IN less \cup UNION {rules(i, i + n - 1) : i \in 1 .. Len(toks) - n + 1}
                 \cup {Form(t.at, t.at, t) : t \in Names(toks) \cup Literals(toks)}

\* Wherever the reader begins, it finds the one form that begins there, its tree
\* and its end, or no form begins there.  From a whole text it gives the trees
\* of the forms the text is cut into; it fails where the first of these is
\* missing, and has given those before.  r is what it gave for the text.
ReadsGrammar(toks, r) ==
    LET forms == FormsUpTo(toks, Len(toks))
        Begin(i) == {f \in forms : f.from = i} IN
    /\ \A i \in DOMAIN toks :
         LET e == ReadExpr(toks, i) IN
         Begin(i) = IF e.ok THEN {Form(i, e.next - 1, e.node)} ELSE {}
    /\ \E n \in 0 .. Len(toks) :
         /\ {r.forms} = {TreesOf(row) : row \in Rows(forms, 1, n)}
         /\ IF r.ok THEN n = Len(toks) ELSE n < Len(toks) /\ Begin(n + 1) = {}
=============================================================================
