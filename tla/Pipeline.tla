------------------------------ MODULE Pipeline ------------------------------
(***************************************************************************)
(* A channel pipeline (runtime/channel_pipe.go, libraries/async.lib): a    *)
(* channel-lines source, channel-map and channel-filter stages, each a     *)
(* goroutine with an output channel, and a consumer that runs              *)
(* channel-reduce, channel-every? or channel-some?.                        *)
(*                                                                         *)
(* Process 0 is the source, 1 .. N are the stages, N + 1 is the consumer.  *)
(* Process p sends on channel p and receives from channel p - 1.  A send   *)
(* and a receive take the steps they take in module Channel.  Lines are    *)
(* numbered; what the user's functions do to them is in plan.              *)
(***************************************************************************)
EXTENDS Naturals, Sequences, SequencesExt, FiniteSetsExt

CONSTANTS N,          \* number of stages
          K,          \* number of lines the source reads
          BufferSize, \* pipeBufferSize
          Consumers,  \* consumers considered: "reduce", "every", "some"
          MayMapToNil \* whether a mapped function may return nil

ASSUME PipelineAssumption == /\ N \in Nat
                             /\ K \in Nat
                             /\ BufferSize \in Nat \ {0}
                             /\ Consumers \subseteq {"reduce", "every", "some"}
                             /\ MayMapToNil \in BOOLEAN

Stages == 1 .. N
Consumer == N + 1
Processes == 0 .. Consumer
Channels == 0 .. N
Lines == 1 .. K
Nil == 0        \* the FLAG value nil; lines are numbered from 1

VARIABLES plan,    \* what the program asks for, fixed at the start
          buf,     \* buffered values of each channel
          done,    \* which channels are terminated
          pc,      \* where each process stands
          val,     \* the value a process is about to send
          got,     \* values the consumer has folded or tested, in order
          result   \* what the consumer returned; "found" is the last of got

vars == <<plan, buf, done, pc, val, got, result>>

\* kind: what each stage is; kept: lines a filter keeps; nils: lines a mapped
\* function turns into nil; hit: lines on which the consumer's predicate holds.
Plans == [kind : [Stages -> {"map", "filter"}],
          kept : SUBSET Lines,
          nils : IF MayMapToNil THEN SUBSET Lines ELSE {{}},
          hit  : SUBSET Lines,
          consumer : Consumers]

TypeOK ==
    /\ plan \in Plans
    /\ buf \in [Channels -> Seq(Lines \cup {Nil})]
    /\ \A c \in Channels : Len(buf[c]) <= BufferSize
    /\ done \in [Channels -> BOOLEAN]
    /\ pc \in [Processes -> {"receive", "drain", "send", "sending", "close", "exit"}]
    /\ val \in [Processes -> Lines \cup {Nil}]
    /\ got \in Seq(Lines)
    /\ result \in {"pending", "folded", "all", "failed", "found", "none"}

Init ==
    /\ plan \in Plans
    /\ buf = [c \in Channels |-> << >>]
    /\ done = [c \in Channels |-> FALSE]
    /\ pc = [p \in Processes |->
                IF p # 0 THEN "receive" ELSE IF K = 0 THEN "close" ELSE "send"]
    /\ val = [p \in Processes |-> IF p = 0 /\ K > 0 THEN 1 ELSE Nil]
    /\ got = << >>
    /\ result = "pending"

Goto(p, where) == pc' = [pc EXCEPT ![p] = where]

-----------------------------------------------------------------------------
(* What a process does with a value it has received.                       *)

\* channel-map: nil from the input ends the loop, anything else is mapped.
MapGot(p, v) ==
    /\ plan.kind[p] = "map"
    /\ IF v = Nil
       THEN Goto(p, "close") /\ UNCHANGED val
       ELSE /\ Goto(p, "send")
            /\ val' = [val EXCEPT ![p] = IF v \in plan.nils THEN Nil ELSE v]

FilterGot(p, v) ==
    /\ plan.kind[p] = "filter"
    /\ IF v = Nil
       THEN Goto(p, "close") /\ UNCHANGED val
       ELSE IF v \in plan.kept
            THEN Goto(p, "send") /\ val' = [val EXCEPT ![p] = v]
            ELSE Goto(p, "receive") /\ UNCHANGED val

StageGot(p, v) ==
    /\ p \in Stages
    /\ MapGot(p, v) \/ FilterGot(p, v)
    /\ UNCHANGED <<got, result>>

\* channel-reduce folds every value up to the first nil.
ReduceGot(v) ==
    /\ plan.consumer = "reduce"
    /\ IF v = Nil
       THEN /\ result' = "folded"
            /\ Goto(Consumer, "exit")
            /\ UNCHANGED got
       ELSE /\ got' = Append(got, v)
            /\ Goto(Consumer, "receive")
            /\ UNCHANGED result

\* channel-every? closes the channel on the first value that fails.
EveryGot(v) ==
    /\ plan.consumer = "every"
    /\ IF v = Nil
       THEN /\ result' = "all"
            /\ Goto(Consumer, "exit")
            /\ UNCHANGED got
       ELSE /\ got' = Append(got, v)
            /\ Goto(Consumer, IF v \in plan.hit THEN "receive" ELSE "close")
            /\ UNCHANGED result

\* channel-some? closes the channel on the first value that matches.
SomeGot(v) ==
    /\ plan.consumer = "some"
    /\ IF v = Nil
       THEN /\ result' = "none"
            /\ Goto(Consumer, "exit")
            /\ UNCHANGED got
       ELSE /\ got' = Append(got, v)
            /\ Goto(Consumer, IF v \in plan.hit THEN "close" ELSE "receive")
            /\ UNCHANGED result

ConsumerGot(p, v) ==
    /\ p = Consumer
    /\ ReduceGot(v) \/ EveryGot(v) \/ SomeGot(v)
    /\ UNCHANGED val

Got(p, v) == StageGot(p, v) \/ ConsumerGot(p, v)

-----------------------------------------------------------------------------
(* Receiving, as in module Channel.                                        *)

Take(p) == /\ buf[p - 1] # << >>
           /\ buf' = [buf EXCEPT ![p - 1] = Tail(@)]
           /\ Got(p, Head(buf[p - 1]))
           /\ UNCHANGED <<plan, done>>

Receive(p) == pc[p] = "receive" /\ Take(p)

SawDone(p) == /\ pc[p] = "receive"
              /\ done[p - 1]
              /\ Goto(p, "drain")
              /\ UNCHANGED <<plan, buf, done, val, got, result>>

Drain(p) == pc[p] = "drain" /\ Take(p)

\* Mutant: a terminated input is taken to be drained.
EndOfInputEarly(p) == /\ pc[p] = "drain"
                      /\ Got(p, Nil)
                      /\ UNCHANGED <<plan, buf, done>>

\* The end of the input, reported as nil.
EndOfInput(p) == /\ pc[p] = "drain"
                 /\ buf[p - 1] = << >>
                 /\ Got(p, Nil)
                 /\ UNCHANGED <<plan, buf, done>>

-----------------------------------------------------------------------------
(* Sending, as in module Channel; a refused send ends the goroutine.       *)

SendCheck(p) == /\ pc[p] = "send"
                /\ Goto(p, IF done[p] THEN "exit" ELSE "sending")
                /\ UNCHANGED <<plan, buf, done, val, got, result>>

\* The source goes on with the next line, a stage with its next receive.
AfterSend(p) ==
    IF p # 0
    THEN Goto(p, "receive") /\ UNCHANGED val
    ELSE IF val[0] = K
         THEN Goto(0, "close") /\ UNCHANGED val
         ELSE Goto(0, "send") /\ val' = [val EXCEPT ![0] = @ + 1]

Send(p) == /\ pc[p] = "sending"
           /\ Len(buf[p]) < BufferSize
           /\ buf' = [buf EXCEPT ![p] = Append(@, val[p])]
           /\ AfterSend(p)
           /\ UNCHANGED <<plan, done, got, result>>

SendRefused(p) == /\ pc[p] = "sending"
                  /\ done[p]
                  /\ Goto(p, "exit")
                  /\ UNCHANGED <<plan, buf, done, val, got, result>>

-----------------------------------------------------------------------------
(* Closing.                                                                *)

\* Mutant: the loop returns at the end of its input without closing its output.
CloseForgotten(p) == /\ pc[p] = "close"
                     /\ Goto(p, "exit")
                     /\ UNCHANGED <<plan, buf, done, val, got, result>>

\* The source has read all its lines, or a stage has seen the end of its input.
CloseOutput(p) == /\ pc[p] = "close"
                  /\ done' = [done EXCEPT ![p] = TRUE]
                  /\ Goto(p, "exit")
                  /\ UNCHANGED <<plan, buf, val, got, result>>

\* Mutant: the short circuit leaves its channel open.
ShortCircuitOpen == /\ pc[Consumer] = "close"
                    /\ result' = IF plan.consumer = "every" THEN "failed" ELSE "found"
                    /\ Goto(Consumer, "exit")
                    /\ UNCHANGED <<plan, buf, done, val, got>>

\* channel-every? or channel-some? has its answer.
ShortCircuit == /\ pc[Consumer] = "close"
                /\ done' = [done EXCEPT ![N] = TRUE]
                /\ result' = IF plan.consumer = "every" THEN "failed" ELSE "found"
                /\ Goto(Consumer, "exit")
                /\ UNCHANGED <<plan, buf, val, got>>

-----------------------------------------------------------------------------

Receiving(p) == Receive(p) \/ SawDone(p) \/ Drain(p) \/ EndOfInput(p)

Sending(p) == SendCheck(p) \/ Send(p) \/ SendRefused(p) \/ CloseOutput(p)

Next == \/ \E p \in Processes \ {0} : Receiving(p)
        \/ \E p \in Processes \ {Consumer} : Sending(p)
        \/ ShortCircuit

\* Every goroutine whose select has a ready case runs on.
Fairness == /\ \A p \in Processes \ {0} : WF_vars(Receiving(p))
            /\ \A p \in Processes \ {Consumer} : WF_vars(Sending(p))
            /\ WF_vars(ShortCircuit)

Spec == Init /\ [][Next]_vars /\ Fairness

-----------------------------------------------------------------------------
(* Properties.                                                             *)

Filtered(before) == \E q \in Stages : q < before /\ plan.kind[q] = "filter"

\* Line l reaches stage p when no filter before p rejects it.
Reaches(l, p) == Filtered(p) => l \in plan.kept

\* Lines that some mapped function turns into nil.
Nilled == {l \in plan.nils :
              \E p \in Stages : plan.kind[p] = "map" /\ Reaches(l, p)}

\* What the user's functions make of the file, line by line: the stream
\* channel-map and channel-filter promise to the consumer.  Lines are numbered
\* and no function moves them, so a set says which they are and in what order.
Mapped == {l \in Lines : l \notin Nilled /\ Reaches(l, Consumer)}

\* The part of it before the first nil, which is where a receiver stops.
BeforeNil == {l \in Mapped : \A m \in Nilled : l < m}

\* The consumer works on the lines in order, without gaps and without lines
\* the filters reject, however the goroutines of the stages interleave, and it
\* answers for the whole stream, also when it stops early: the termination of
\* a stage's output never overtakes the values in its buffer.
AnswersRight ==
    /\ \A i, j \in DOMAIN got : i < j => got[i] < got[j]
    /\ ToSet(got) \subseteq BeforeNil
    /\ \A l \in BeforeNil, m \in ToSet(got) : l < m => l \in ToSet(got)
    /\ result = "folded" => BeforeNil \subseteq ToSet(got)
    /\ result = "all" => BeforeNil \subseteq plan.hit
    /\ result = "none" => BeforeNil \cap plan.hit = {}
    /\ result = "failed" => ~(BeforeNil \subseteq plan.hit)
    /\ result = "found" => got # << >> /\ Last(got) = Min(BeforeNil \cap plan.hit)

\* The blocking consumers return.
ConsumerReturns == <>(result # "pending")

Stopped == result \in {"failed", "found"}

\* No goroutine of the pipeline is left behind when channel-reduce consumes it
\* and no function returns nil; after a short circuit the goroutine that feeds
\* the consumer stops.  (The ones before it need not: a stage whose send is
\* refused leaves its own input open.)
GoroutinesExit ==
    /\ [](plan.consumer = "reduce" /\ plan.nils = {} =>
              <>(\A p \in Processes : pc[p] = "exit"))
    /\ Stopped ~> pc[N] = "exit"
=============================================================================
