----------------------------- MODULE Tokenizer -----------------------------
(***************************************************************************)
(* What the tokenizer makes of a text (libraries/compiler/tokenizer.lib,   *)
(* compiled into internal/compiler/tokenizer_flag_gen.go).  A text is a    *)
(* sequence of lines, a line a sequence of characters; a token carries the *)
(* characters it was made of and the place where it begins.                *)
(***************************************************************************)
EXTENDS Naturals, Sequences, SequencesExt, FiniteSets

Quote == "\""
Backslash == "\\"
Newline == "\n"
Blanks == {" ", "\t", "\r", ","}
Delimiters == {"(", ")", "[", "]", "{", "}", "^", "'", "|"}

NoToken == [token |-> << >>, line |-> 0, offset |-> 0,
            inString |-> FALSE, triple |-> FALSE, escaped |-> FALSE]

\* The state of the loop over one line: what is left of it, the column, the
\* token begun, and the tokens sent so far.
Scan(line, rest, cur, out) ==
    [line |-> line, rest |-> rest, col |-> 1, cur |-> cur, out |-> out]

Emitted(s) ==
    IF s.cur.token = << >> THEN s.out
    ELSE Append(s.out, [token |-> s.cur.token, line |-> s.cur.line, offset |-> s.cur.offset])

StartsWith(s, prefix) == IsPrefix(prefix, s.rest)
TripleQuote == <<Quote, Quote, Quote>>

\* n characters are read and belong to the token of state cur.
Read(s, n, cur, out) ==
    [s EXCEPT !.rest = SubSeq(@, n + 1, Len(@)), !.col = @ + n, !.cur = cur, !.out = out]

Fresh(s, chars, inString, triple) ==
    [token |-> chars, line |-> s.line, offset |-> s.col,
     inString |-> inString, triple |-> triple, escaped |-> FALSE]

Single(s, chars) == [token |-> chars, line |-> s.line, offset |-> s.col]

Extended(s, chars, escaped) ==
    [s.cur EXCEPT !.token = @ \o chars, !.escaped = escaped]

\* Inside a string of three quotes nothing but three quotes is special.
InTriple(s) ==
    LET cur == Extended(s, <<Head(s.rest)>>, FALSE) IN
    IF StartsWith(s, TripleQuote)
    THEN Read(s, 3, NoToken, Emitted([s EXCEPT !.cur = Extended(s, TripleQuote, FALSE)]))
    ELSE Read(s, 1, cur, s.out)

\* Mutant: an escaped quote ends the string.
InStringNoEscape(s) ==
    LET ch  == Head(s.rest)
        cur == Extended(s, <<ch>>, FALSE) IN
    IF ch = Quote THEN Read(s, 1, NoToken, Emitted([s EXCEPT !.cur = cur]))
    ELSE Read(s, 1, cur, s.out)

\* Inside a string the character after a backslash is part of the string.
InString(s) ==
    LET ch  == Head(s.rest)
        cur == Extended(s, <<ch>>, ~s.cur.escaped /\ ch = Backslash) IN
    IF ~s.cur.escaped /\ ch = Quote
    THEN Read(s, 1, NoToken, Emitted([s EXCEPT !.cur = cur]))
    ELSE Read(s, 1, cur, s.out)

\* A comment ends the line.
AtComment(s) == [s EXCEPT !.rest = << >>, !.cur = NoToken, !.out = Emitted(s)]
AtBlank(s) == Read(s, 1, NoToken, Emitted(s))

\* A token of n characters that needs nothing around it.
AtDelimiter(s, n) ==
    Read(s, n, NoToken, Append(Emitted(s), Single(s, SubSeq(s.rest, 1, n))))

AtQuote(s) ==
    IF StartsWith(s, TripleQuote)
    THEN Read(s, 3, Fresh(s, TripleQuote, TRUE, TRUE), Emitted(s))
    ELSE Read(s, 1, Fresh(s, <<Quote>>, TRUE, FALSE), Emitted(s))

InAtom(s) ==
    Read(s, 1, IF s.cur.token = << >> THEN Fresh(s, <<Head(s.rest)>>, FALSE, FALSE)
               ELSE Extended(s, <<Head(s.rest)>>, FALSE), s.out)

\* One iteration of tokenize-line-step!.
Step(s) ==
    LET ch == Head(s.rest) IN
    CASE s.cur.inString /\ s.cur.triple -> InTriple(s)
      [] s.cur.inString /\ ~s.cur.triple -> InString(s)
      [] ~s.cur.inString /\ ch = ";" -> AtComment(s)
      [] ~s.cur.inString /\ ch \in Blanks -> AtBlank(s)
      [] ~s.cur.inString /\ ch \in Delimiters -> AtDelimiter(s, 1)
      [] ~s.cur.inString /\ ch = Quote -> AtQuote(s)
      [] ~s.cur.inString /\ (StartsWith(s, <<"#", "{">>) \/ StartsWith(s, <<"#", "(">>))
            -> AtDelimiter(s, 2)
      [] OTHER -> InAtom(s)

RECURSIVE LineDone(_)
LineDone(s) ==
    IF s.rest # << >> THEN LineDone(Step(s))
    ELSE IF s.cur.inString THEN s
    ELSE [s EXCEPT !.cur = NoToken, !.out = Emitted(s)]

\* Mutant: a string that goes on in the next line loses the line break.
CarriedFlat(s) == s.cur

\* tokenize-lines!: a string open at the end of a line goes on in the next.
Carried(s) == IF s.cur.inString THEN Extended(s, <<Newline>>, s.cur.escaped) ELSE s.cur

RECURSIVE LinesDone(_, _, _, _)
LinesDone(lines, n, cur, out) ==
    IF n > Len(lines) THEN Emitted(Scan(n, << >>, cur, out))
    ELSE LET s == LineDone(Scan(n, lines[n], cur, out)) IN
         LinesDone(lines, n + 1, IF n < Len(lines) THEN Carried(s) ELSE s.cur, s.out)

\* tokenize-file, once the lines have been read.
TokensOf(lines) == LinesDone(lines, 1, NoToken, << >>)

-----------------------------------------------------------------------------
(* What tokens of a text must be, said without reading it.                 *)

Flat(lines) == FlattenSeq([n \in 1 .. 2 * Len(lines) - 1 |->
                  IF n % 2 = 1 THEN lines[(n + 1) \div 2] ELSE <<Newline>>])
\* The position in the flat text of a place in a line.
Place(lines, line, offset) ==
    offset + FoldLeft(LAMBDA sum, n : sum + Len(lines[n]) + 1, 0, [n \in 1 .. line - 1 |-> n])

\* Tokens stand where they say, one after the other.
Stand(lines, tokens) ==
    LET from(i) == Place(lines, tokens[i].line, tokens[i].offset)
        to(i) == from(i) + Len(tokens[i].token) - 1 IN
    \A i \in DOMAIN tokens :
        /\ SubSeq(Flat(lines), from(i), to(i)) = tokens[i].token
        /\ i > 1 => to(i - 1) < from(i)

\* What no token covers is blank, a line break, or behind a semicolon.
NothingSkipped(lines, tokens) ==
    LET text == Flat(lines)
        covered == UNION {LET p == Place(lines, tokens[i].line, tokens[i].offset)
                          IN p .. p + Len(tokens[i].token) - 1 : i \in DOMAIN tokens}
        free == (1 .. Len(text)) \ covered IN
    \A p \in free :
        \/ text[p] \in Blanks \cup {Newline}
        \/ \E q \in 1 .. p : /\ text[q] = ";"
                             /\ \A r \in q .. p : r \in free /\ text[r] # Newline

IsAtom(token) == token[1] \notin Delimiters \cup {Quote} /\ token \notin {<<"#", "{">>, <<"#", "(">>}

\* Two tokens without anything between them are not two names.
Maximal(lines, tokens) ==
    \A i \in 2 .. Len(tokens) :
        Place(lines, tokens[i].line, tokens[i].offset)
        = Place(lines, tokens[i - 1].line, tokens[i - 1].offset) + Len(tokens[i - 1].token)
        => ~(IsAtom(tokens[i].token) /\ IsAtom(tokens[i - 1].token))

\* Where the string that begins a token ends: at the first quote, or three
\* quotes, that no backslash escapes.
Escaped(token, p) == /\ token[p - 1] = Backslash
                     /\ Cardinality({q \in 2 .. p - 1 : \A r \in q .. p - 1 : token[r] = Backslash}) % 2 = 1
EndsOf(token) ==
    IF IsPrefix(TripleQuote, token)
    THEN {p \in 6 .. Len(token) : SubSeq(token, p - 2, p) = TripleQuote}
    ELSE {p \in 2 .. Len(token) : token[p] = Quote /\ ~Escaped(token, p)}

\* A backslash at the end of a line escapes the first character of the next
\* one, although the line break stands between them.
BreaksEscape(token) ==
    \E p \in 2 .. Len(token) : token[p] = Newline /\ Escaped(token, p)

\* A string ends at its first end; only the last token may have none.
StringsEnd(tokens) ==
    \A i \in DOMAIN tokens :
        tokens[i].token[1] = Quote =>
            \/ BreaksEscape(tokens[i].token)
            \/ EndsOf(tokens[i].token) = {Len(tokens[i].token)}
            \/ i = Len(tokens) /\ EndsOf(tokens[i].token) = {}
=============================================================================
