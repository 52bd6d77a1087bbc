------------------------------ MODULE FrontEnd ------------------------------
(***************************************************************************)
(* From a source file to expanded forms (internal/compiler/                *)
(* source_flag_ast.go, source_tokenizer_bridge.go, and the goroutines of   *)
(* tokenizer.lib, build-ast.lib and expand-macros.lib as compiled into     *)
(* *_flag_gen.go): seven goroutines and the caller, joined by seven        *)
(* channels.  A stage that fails must let the others end.                  *)
(*                                                                         *)
(* A token is one of                                                       *)
(*   "atom"     a form by itself                                           *)
(*   "open"     opens a list, "comment" opens one the reader drops         *)
(*   "close"    closes either                                              *)
(*   "bad"      something the reader throws at                             *)
(*   "odd"      a form the reader accepts and flagValueToExpr rejects      *)
(*              (metadata on a comment: a node with a nil inside)          *)
(* and a form is named by the position of its first token.                 *)
(***************************************************************************)
EXTENDS Integers, Sequences, SequencesExt, FiniteSets

CONSTANTS Files,      \* the files considered, each a sequence of tokens
          MaxTokens,  \* length of the longest
          FlagCap,    \* capacity of the channels made by make-channel (64)
          BridgeCap,  \* capacity of the Go channel of tokens (32)
          ASTCap      \* capacity of the Go channel of forms (8)

ASSUME FrontEndAssumption ==
    /\ Files \subseteq Seq({"atom", "open", "comment", "close", "bad", "odd"})
    /\ MaxTokens \in Nat /\ \A f \in Files : Len(f) <= MaxTokens
    /\ {FlagCap, BridgeCap, ASTCap} \subseteq Nat \ {0}

Goroutines == {"tokenizer", "bridge", "adapter", "parser", "drainer",
               "feeder", "expander", "caller"}

\* Each goroutine but the caller writes one channel, which bears its name.
Channels == Goroutines \ {"caller"}
Capacity(c) == CASE c = "bridge" -> BridgeCap
                 [] c = "drainer" -> ASTCap
                 [] OTHER -> FlagCap

Err == 0        \* an error node, or an ASTForm with Err; forms start at 1
End == MaxTokens + 1   \* what a receiver gets from a closed, empty channel

VARIABLES file,     \* tokens of the file
          breaks,   \* the tokenizer panics when it has sent that many tokens
          buf,      \* buffered items of each channel
          closed,   \* which channels are closed
          pc,       \* where each goroutine stands
          hand,     \* what each goroutine is about to send
          next,     \* tokens sent by the tokenizer; forms sent by the feeder
          stack,    \* the reader's open lists, innermost last
          odd,      \* forms with a node that cannot be converted
          forms,    \* what the caller has of the parser
          expanded, \* what the caller has of the expander
          fate      \* what expansion has done to each form so far

vars == <<file, breaks, buf, closed, pc, hand, next, stack, odd, forms, expanded, fate>>

Never == MaxTokens + 1

Init ==
    /\ file \in Files
    /\ breaks \in (0 .. Len(file)) \cup {Never}
    /\ buf = [c \in Channels |-> << >>]
    /\ closed = [c \in Channels |-> FALSE]
    /\ pc = [g \in Goroutines |->
               CASE g = "tokenizer" -> "run"
                 [] g = "feeder" -> "idle"
                 [] g = "expander" -> "idle"
                 [] OTHER -> "receive"]
    /\ hand = [g \in Goroutines |-> Err]
    /\ next = [g \in {"tokenizer", "feeder"} |-> 0]
    /\ stack = << >>
    /\ odd = {}
    /\ forms = << >>
    /\ expanded = << >>
    /\ fate = << >>

Goto(g, where) == pc' = [pc EXCEPT ![g] = where]
KeepInput == UNCHANGED <<file, breaks>>
KeepResults == UNCHANGED <<forms, expanded, fate>>

-----------------------------------------------------------------------------
(* Channels.  A channel has one writer, which closes it after its last     *)
(* send, so none of the races of module Channel can happen here.           *)

HasRoom(c) == Len(buf[c]) < Capacity(c)
CanReceive(c) == buf[c] # << >> \/ closed[c]
Received(c) == IF buf[c] = << >> THEN End ELSE Head(buf[c])
Pop(c) == buf' = [buf EXCEPT ![c] = IF @ = << >> THEN @ ELSE Tail(@)]

\* The send at which g stands; g goes on at `then`.
Send(g, then) ==
    /\ HasRoom(g)
    /\ buf' = [buf EXCEPT ![g] = Append(@, hand[g])]
    /\ Goto(g, then)
    /\ UNCHANGED closed

\* Mutant: a goroutine ends without closing its channel.
CloseForgotten(g, then) == Goto(g, then) /\ UNCHANGED <<buf, closed>>

Close(g, then) ==
    /\ closed' = [closed EXCEPT ![g] = TRUE]
    /\ Goto(g, then)
    /\ UNCHANGED buf

-----------------------------------------------------------------------------
(* Goroutines.                                                             *)

\* tokenize-file: send each token, then close.  A file that cannot be opened
\* or a line that cannot be read panics, and then nothing closes the channel.
Tokenize ==
    /\ pc["tokenizer"] = "run"
    /\ IF next["tokenizer"] = breaks
       THEN Goto("tokenizer", "end") /\ UNCHANGED <<buf, closed, next>>
       ELSE IF next["tokenizer"] < Len(file)
       THEN /\ HasRoom("tokenizer")
            /\ buf' = [buf EXCEPT !["tokenizer"] = Append(@, next["tokenizer"] + 1)]
            /\ next' = [next EXCEPT !["tokenizer"] = @ + 1]
            /\ UNCHANGED <<closed, pc>>
       ELSE Close("tokenizer", "end") /\ UNCHANGED next
    /\ UNCHANGED <<hand, stack, odd>>
    /\ KeepInput /\ KeepResults

\* A goroutine that copies one channel to another: drainFLAGSourceTokens and
\* sourceTokensToFLAGChannel.
Copy(g, from) ==
    /\ \/ /\ pc[g] = "receive"
          /\ CanReceive(from)
          /\ Pop(from)
          /\ hand' = [hand EXCEPT ![g] = Received(from)]
          /\ Goto(g, IF Received(from) = End THEN "close" ELSE "send")
          /\ UNCHANGED closed
       \/ /\ pc[g] = "send"
          /\ Send(g, "receive")
          /\ UNCHANGED hand
       \/ /\ pc[g] = "close"
          /\ Close(g, "end")
          /\ UNCHANGED hand
    /\ UNCHANGED <<next, stack, odd>>
    /\ KeepInput /\ KeepResults

Bridge == Copy("bridge", "tokenizer")
Adapter == Copy("adapter", "bridge")

\* The reader: what one more token, or the end of the tokens, makes of the
\* open lists.
Opened(t) == stack' = Append(stack, t)

\* A form is complete: it belongs to the list around it, or is sent.
FormRead(t, outer, isOdd) ==
    /\ stack' = outer
    /\ odd' = IF isOdd THEN odd \cup {IF outer = << >> THEN t ELSE outer[Len(outer)]}
              ELSE odd
    /\ IF outer = << >>
       THEN Goto("parser", "send") /\ hand' = [hand EXCEPT !["parser"] = t]
       ELSE Goto("parser", "receive") /\ UNCHANGED hand

\* (comment ...) reads as nothing, whatever is in it.
CommentRead(outer) ==
    /\ stack' = outer
    /\ Goto("parser", "receive")
    /\ UNCHANGED <<hand, odd>>

ReadFails ==
    /\ Goto("parser", "send")
    /\ hand' = [hand EXCEPT !["parser"] = Err]
    /\ UNCHANGED <<stack, odd>>

ReadToken(t) ==
    CASE t = End ->
            IF stack = << >>
            THEN Goto("parser", "close") /\ UNCHANGED <<hand, stack, odd>>
            ELSE ReadFails
      [] t # End /\ file[t] = "atom" -> FormRead(t, stack, FALSE)
      [] t # End /\ file[t] = "odd" -> FormRead(t, stack, TRUE)
      [] t # End /\ file[t] \in {"open", "comment"} ->
            Opened(t) /\ UNCHANGED <<pc, hand, odd>>
      [] t # End /\ file[t] = "close" ->
            IF stack = << >> THEN ReadFails
            ELSE LET outer == SubSeq(stack, 1, Len(stack) - 1)
                     list  == stack[Len(stack)] IN
                 IF file[list] = "comment" THEN CommentRead(outer)
                 ELSE FormRead(list, outer, list \in odd)
      [] t # End /\ file[t] = "bad" -> ReadFails

\* build-ast-from-tokens: after an error node nothing more is read, but the
\* finally clause closes the output and drains the input.
Parse ==
    /\ \/ /\ pc["parser"] = "receive"
          /\ CanReceive("adapter")
          /\ Pop("adapter")
          /\ ReadToken(Received("adapter"))
          /\ UNCHANGED closed
       \/ /\ pc["parser"] = "send"
          /\ Send("parser", IF hand["parser"] = Err THEN "close" ELSE "receive")
          /\ UNCHANGED <<hand, stack, odd>>
       \/ /\ pc["parser"] = "close"
          /\ Close("parser", "drain")
          /\ UNCHANGED <<hand, stack, odd>>
    /\ UNCHANGED next
    /\ KeepInput /\ KeepResults

\* Mutant: the parser ends without draining its input.
DrainSkipped ==
    /\ pc["parser"] = "drain"
    /\ Goto("parser", "end")
    /\ UNCHANGED <<buf, closed, hand, next, stack, odd>>
    /\ KeepInput /\ KeepResults

\* drain-remaining
Drain ==
    /\ pc["parser"] = "drain"
    /\ CanReceive("adapter")
    /\ Pop("adapter")
    /\ Goto("parser", IF Received("adapter") = End THEN "end" ELSE "drain")
    /\ UNCHANGED <<closed, hand, next, stack, odd>>
    /\ KeepInput /\ KeepResults

\* Mutant: flagValueToExpr accepts a node with a nil inside.
ConvertedUnchecked(node) == node

\* flagValueToExpr
Converted(node) == IF node \in odd THEN Err ELSE node

\* drainFLAGAST: a node that is an error, or cannot be converted, is the last.
DrainAST ==
    /\ \/ /\ pc["drainer"] = "receive"
          /\ CanReceive("parser")
          /\ Pop("parser")
          /\ LET node == Received("parser") IN
             /\ hand' = [hand EXCEPT !["drainer"] = Converted(node)]
             /\ Goto("drainer", IF node = End THEN "close" ELSE "send")
          /\ UNCHANGED closed
       \/ /\ pc["drainer"] = "send"
          /\ Send("drainer", IF hand["drainer"] = Err THEN "close" ELSE "receive")
          /\ UNCHANGED hand
       \/ /\ pc["drainer"] = "close"
          /\ Close("drainer", "end")
          /\ UNCHANGED hand
    /\ UNCHANGED <<next, stack, odd>>
    /\ KeepInput /\ KeepResults

\* ParseTokenChannel: collects forms, gives up at the first error.  With all
\* forms the caller goes on to expandFLAGForms, which starts the two others.
CollectForms ==
    /\ pc["caller"] = "receive"
    /\ CanReceive("drainer")
    /\ Pop("drainer")
    /\ LET form == Received("drainer") IN
       CASE form = End -> /\ pc' = [pc EXCEPT !["caller"] = "collect",
                                              !["feeder"] = "run",
                                              !["expander"] = "receive"]
                          /\ UNCHANGED forms
         [] form = Err -> Goto("caller", "parse failed") /\ UNCHANGED forms
         [] OTHER -> forms' = Append(forms, form) /\ UNCHANGED pc
    /\ UNCHANGED <<closed, hand, next, stack, odd, expanded, fate>>
    /\ KeepInput

\* The goroutine of expandFLAGForms.
Feed ==
    /\ pc["feeder"] = "run"
    /\ IF next["feeder"] < Len(forms)
       THEN /\ HasRoom("feeder")
            /\ buf' = [buf EXCEPT !["feeder"] = Append(@, forms[next["feeder"] + 1])]
            /\ next' = [next EXCEPT !["feeder"] = @ + 1]
            /\ UNCHANGED <<closed, pc>>
       ELSE Close("feeder", "end") /\ UNCHANGED next
    /\ UNCHANGED <<hand, stack, odd>>
    /\ KeepInput /\ KeepResults

\* Where expand-macros goes with a form of which f has become.
AfterExpansion(f) == IF f = "macro" THEN "receive" ELSE "send"

\* expand-macros: a form is a macro definition and registered, or is sent
\* expanded, or makes the expansion throw.  Nothing drains the input then.
Expand ==
    /\ \/ /\ pc["expander"] = "receive"
          /\ CanReceive("feeder")
          /\ Pop("feeder")
          /\ IF Received("feeder") = End
             THEN Goto("expander", "close") /\ UNCHANGED <<hand, fate>>
             ELSE \E f \in {"kept", "macro", "throws"} :
                    /\ fate' = Append(fate, f)
                    /\ hand' = [hand EXCEPT !["expander"] =
                                  IF f = "throws" THEN Err ELSE Received("feeder")]
                    /\ Goto("expander", AfterExpansion(f))
          /\ UNCHANGED closed
       \/ /\ pc["expander"] = "send"
          /\ Send("expander", IF hand["expander"] = Err THEN "close" ELSE "receive")
          /\ UNCHANGED <<hand, fate>>
       \/ /\ pc["expander"] = "close"
          /\ Close("expander", "end")
          /\ UNCHANGED <<hand, fate>>
    /\ UNCHANGED <<next, stack, odd, forms, expanded>>
    /\ KeepInput

\* The caller's loop in expandFLAGForms.
CollectExpanded ==
    /\ pc["caller"] = "collect"
    /\ CanReceive("expander")
    /\ Pop("expander")
    /\ LET form == Received("expander") IN
       CASE form = End -> Goto("caller", "done") /\ UNCHANGED expanded
         [] form = Err -> Goto("caller", "expand failed") /\ UNCHANGED expanded
         [] OTHER -> expanded' = Append(expanded, form) /\ UNCHANGED pc
    /\ UNCHANGED <<closed, hand, next, stack, odd, forms, fate>>
    /\ KeepInput

Next == \/ Tokenize \/ Bridge \/ Adapter \/ Parse \/ Drain \/ DrainAST
        \/ CollectForms \/ Feed \/ Expand \/ CollectExpanded

Spec == /\ Init /\ [][Next]_vars
        /\ WF_vars(Tokenize) /\ WF_vars(Bridge) /\ WF_vars(Adapter)
        /\ WF_vars(Parse) /\ WF_vars(Drain) /\ WF_vars(DrainAST)
        /\ WF_vars(CollectForms) /\ WF_vars(Feed) /\ WF_vars(Expand)
        /\ WF_vars(CollectExpanded)
-----------------------------------------------------------------------------
(* What a file says, defined on positions and not by reading it.           *)

Openers == {"open", "comment"}
Depth(i) == Cardinality({j \in 1 .. i : file[j] \in Openers})
            - Cardinality({j \in 1 .. i : file[j] = "close"})
Length == Len(file)

\* The first position at which a reader must give up, Length + 1 if only the end
\* is missing, Never + 1 if the file is well formed.
Wrong == {i \in 1 .. Length : file[i] = "bad" \/ (file[i] = "close" /\ Depth(i) < 0)}
FirstWrong == IF Wrong # {} THEN Min(Wrong)
              ELSE IF Depth(Length) > 0 THEN Length + 1
              ELSE Never + 1

\* The position at which what begins at s is complete.
Ends(s) == {e \in s .. Length : Depth(e) = Depth(s - 1)}
EndOf(s) == IF Ends(s) = {} THEN Never ELSE Min(Ends(s))

Dropped(j) == \E k \in 1 .. j : file[k] = "comment" /\ j <= EndOf(k)
TopForms == {s \in 1 .. Length : /\ Depth(s - 1) = 0
                              /\ file[s] # "close"
                              /\ EndOf(s) < FirstWrong
                              /\ ~Dropped(s)}
Unconvertible(s) == \E j \in s .. EndOf(s) : file[j] = "odd" /\ ~Dropped(j)

\* The position with which the caller is told of an error.
Failures == {EndOf(s) : s \in {f \in TopForms : Unconvertible(f)}}
            \cup (IF FirstWrong > Never THEN {} ELSE {FirstWrong})
WellFormed == Failures = {}
FormsBefore == {s \in TopForms : \A x \in Failures : EndOf(s) < x}

\* The sequence has numbers of S only, in order, and leaves out none between:
\* it is a beginning of the list of all of S.
Begins(s, S) ==
    /\ \A i, j \in DOMAIN s : i < j => s[i] < s[j]
    /\ ToSet(s) \subseteq S
    /\ \A x \in S, y \in ToSet(s) : x < y => x \in ToSet(s)

-----------------------------------------------------------------------------
(* Properties.                                                             *)

Returned == pc["caller"] \in {"parse failed", "expand failed", "done"}
Parsed == pc["caller"] \in {"collect", "expand failed", "done"}

\* The forms expansion keeps: those that are not definitions of macros.
Kept == {forms[i] : i \in {j \in DOMAIN fate : fate[j] = "kept"}}

\* The caller gets every form of a well-formed file, in order and without the
\* comments; of any other file it gets an error, after the forms before it
\* (ParseTokenChannel, with every stage in between).  Expansion returns the
\* forms that are not macros, in the order of the file, and fails exactly when
\* one throws; nothing behind that one is expanded.
FormsRight ==
    /\ Begins(forms, FormsBefore)
    /\ Parsed => WellFormed
    /\ pc["caller"] = "parse failed" => ~WellFormed
    /\ pc["caller"] # "receive" => FormsBefore \subseteq ToSet(forms)
    /\ Begins(expanded, Kept)
    /\ \A i \in DOMAIN fate : fate[i] = "throws" => i = Len(fate)
    /\ pc["caller"] \in {"done", "expand failed"} =>
          /\ Kept \subseteq ToSet(expanded)
          /\ (pc["caller"] = "done" <=> "throws" \notin {fate[i] : i \in DOMAIN fate})
    /\ pc["caller"] = "done" => Len(fate) = Len(forms)

\* Compiling a file returns, with forms or with an error, unless the tokenizer
\* panics before it has sent what the caller could be told of: its channel is
\* then never closed, and the caller waits for ever (tokenizer.lib:278).
CallerReturns ==
    <>(Returned \/ (breaks # Never /\ \A x \in Failures : x > breaks))

\* Every goroutine ends, except
\*  - those behind a tokenizer that panicked, which wait for the end of its tokens;
\*  - those before a form that could not be converted, when more forms follow
\*    than the parser's channel holds: drainFLAGAST has stopped receiving;
\*  - the feeder of an expander that threw, when more forms follow than its
\*    channel holds: expand-macros has stopped receiving.
MayStay(g) ==
    \/ /\ breaks # Never
       /\ g \in {"bridge", "adapter", "parser", "drainer", "caller"}
    \/ /\ g \in {"tokenizer", "bridge", "adapter", "parser"}
       /\ \E s \in TopForms :
            /\ Unconvertible(s)
            /\ Cardinality({t \in TopForms : t > s})
               + (IF FirstWrong > Never THEN 0 ELSE 1) > FlagCap
    \/ /\ g = "feeder"
       /\ "throws" \in {fate[i] : i \in DOMAIN fate}
       /\ Len(forms) - Len(fate) > FlagCap
GoroutinesEnd ==
    <>[](\A g \in Goroutines :
           pc[g] \in {"end", "idle", "parse failed", "expand failed", "done"} \/ MayStay(g))
=============================================================================
