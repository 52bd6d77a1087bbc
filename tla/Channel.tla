------------------------------ MODULE Channel -------------------------------
(***************************************************************************)
(* One FLAG channel (runtime/channel.go) shared by a set of goroutines.    *)
(*                                                                         *)
(* A ChannelObject is a Go channel of values, data, and a Go channel that  *)
(* is only ever closed, done.  Each select statement of the code is one    *)
(* step of the goroutine that executes it, so a send is two steps, a       *)
(* receive one or two, and everything may happen between them.             *)
(*                                                                         *)
(* A message is <<g, n>>, the value goroutine g passes to its n-th call:   *)
(* distinct calls are told apart, payloads are not.                        *)
(***************************************************************************)
EXTENDS Naturals, Sequences, FiniteSets

CONSTANTS Goroutines,  \* the goroutines that hold the channel
          Capacities,  \* what make-channel may be given; 0 is unbuffered
          MaxCalls,    \* bound: channel calls per goroutine
          NoMsg        \* nothing is being sent

ASSUME ChannelAssumption == /\ Capacities \subseteq Nat
                            /\ MaxCalls \in Nat
                            /\ NoMsg \notin Goroutines \X Nat

VARIABLES cap,       \* capacity of the channel, never changed
          data,      \* contents of the Go channel c.data, oldest first
          done,      \* c.done is closed
          pc,        \* where each goroutine stands in its current call
          held,      \* the message of a send under way
          calls,     \* calls begun by each goroutine
          \* History: what the goroutines have been told.
          accepted,  \* messages whose send returned true, in stream order
          delivered, \* messages returned by receives, in stream order
          refused,   \* messages whose send returned false
          ended,     \* some receive returned end-of-stream
          cut        \* Len(accepted) when the channel was terminated

vars == <<cap, data, done, pc, held, calls, accepted, delivered, refused, ended, cut>>
history == <<accepted, delivered, refused, ended, cut>>

Msgs == Goroutines \X (1 .. MaxCalls)

TypeOK ==
    /\ cap \in Capacities
    /\ data \in Seq(Msgs)
    /\ Len(data) <= cap
    /\ done \in BOOLEAN
    /\ pc \in [Goroutines -> {"idle", "sending", "receiving", "draining"}]
    /\ held \in [Goroutines -> Msgs \cup {NoMsg}]
    /\ calls \in [Goroutines -> 0 .. MaxCalls]
    /\ accepted \in Seq(Msgs)
    /\ delivered \in Seq(Msgs)
    /\ refused \in SUBSET Msgs
    /\ ended \in BOOLEAN
    /\ cut \in Nat

Init ==
    /\ cap \in Capacities
    /\ data = << >>
    /\ done = FALSE
    /\ pc = [g \in Goroutines |-> "idle"]
    /\ held = [g \in Goroutines |-> NoMsg]
    /\ calls = [g \in Goroutines |-> 0]
    /\ accepted = << >>
    /\ delivered = << >>
    /\ refused = {}
    /\ ended = FALSE
    /\ cut = 0

-----------------------------------------------------------------------------
(* Beginning and ending a call.                                            *)

Begin(g) == /\ pc[g] = "idle"
            /\ calls[g] < MaxCalls
            /\ calls' = [calls EXCEPT ![g] = @ + 1]

Return(g) == /\ pc' = [pc EXCEPT ![g] = "idle"]
             /\ held' = [held EXCEPT ![g] = NoMsg]
             /\ UNCHANGED calls

-----------------------------------------------------------------------------
(* channel-send                                                            *)

\* First select: a terminated channel refuses at once.
SendRefusedAtOnce(g) ==
    /\ Begin(g)
    /\ done
    /\ refused' = refused \cup {<<g, calls[g] + 1>>}
    /\ UNCHANGED <<data, done, pc, held, accepted, delivered, ended, cut>>

\* Mutant: the first select is missing.
SendUnchecked(g) ==
    /\ Begin(g)
    /\ pc' = [pc EXCEPT ![g] = "sending"]
    /\ held' = [held EXCEPT ![g] = <<g, calls[g] + 1>>]
    /\ UNCHANGED <<data, done, history>>

\* First select, default branch: the send goes on to the second select.
SendCheck(g) ==
    /\ Begin(g)
    /\ ~done
    /\ pc' = [pc EXCEPT ![g] = "sending"]
    /\ held' = [held EXCEPT ![g] = <<g, calls[g] + 1>>]
    /\ UNCHANGED <<data, done, history>>

\* Mutant: done is looked at again after the value has been sent.
SendSecondThoughts(g) ==
    /\ pc[g] = "sending"
    /\ Len(data) < cap
    /\ data' = Append(data, held[g])
    /\ accepted' = Append(accepted, held[g])
    /\ refused' = IF done THEN refused \cup {held[g]} ELSE refused
    /\ Return(g)
    /\ UNCHANGED <<done, delivered, ended, cut>>

\* Mutant: the send is retried although it succeeded.
SendRetried(g) ==
    /\ pc[g] = "sending"
    /\ Len(data) < cap
    /\ data' = Append(data, held[g])
    /\ accepted' = Append(accepted, held[g])
    /\ UNCHANGED <<pc, held, calls, done, delivered, refused, ended, cut>>

\* Second select, case c.data <- value.  The case is chosen whenever it is
\* ready, also when done has been closed since the first select.
SendBuffered(g) ==
    /\ pc[g] = "sending"
    /\ Len(data) < cap
    /\ data' = Append(data, held[g])
    /\ accepted' = Append(accepted, held[g])
    /\ Return(g)
    /\ UNCHANGED <<done, delivered, refused, ended, cut>>

\* Mutant: a plain blocking send, which termination does not interrupt.
SendUninterrupted(g) ==
    /\ pc[g] = "sending"
    /\ done
    /\ Len(data) < cap
    /\ refused' = refused \cup {held[g]}
    /\ Return(g)
    /\ UNCHANGED <<data, done, accepted, delivered, ended, cut>>

\* Second select, case <-c.done.
SendTerminated(g) ==
    /\ pc[g] = "sending"
    /\ done
    /\ refused' = refused \cup {held[g]}
    /\ Return(g)
    /\ UNCHANGED <<data, done, accepted, delivered, ended, cut>>

-----------------------------------------------------------------------------
(* channel-receive (recvChannelValue)                                      *)

ReceiveBegin(g) ==
    /\ Begin(g)
    /\ pc' = [pc EXCEPT ![g] = "receiving"]
    /\ UNCHANGED <<data, done, held, history>>

\* Take the oldest buffered message.
TakeBuffered ==
    /\ data # << >>
    /\ data' = Tail(data)
    /\ delivered' = Append(delivered, Head(data))
    /\ UNCHANGED <<done, accepted, refused, ended, cut>>

\* Outer select, case v := <-c.data.
ReceiveBuffered(g) ==
    /\ pc[g] = "receiving"
    /\ TakeBuffered
    /\ Return(g)

\* Outer select, case <-c.done: also when data is ready, as select chooses
\* among ready cases at random.
ReceiveSawDone(g) ==
    /\ pc[g] = "receiving"
    /\ done
    /\ pc' = [pc EXCEPT ![g] = "draining"]
    /\ UNCHANGED <<data, done, held, calls, history>>

\* Inner select, case v := <-c.data.
DrainBuffered(g) ==
    /\ pc[g] = "draining"
    /\ TakeBuffered
    /\ Return(g)

\* Mutant: done is taken for the end of the stream, the buffer is not drained.
DrainSkipped(g) ==
    /\ pc[g] = "draining"
    /\ ended' = TRUE
    /\ Return(g)
    /\ UNCHANGED <<data, done, accepted, delivered, refused, cut>>

\* Inner select, default: end of stream, nil to the caller.
DrainEmpty(g) ==
    /\ pc[g] = "draining"
    /\ data = << >>
    /\ ended' = TRUE
    /\ Return(g)
    /\ UNCHANGED <<data, done, accepted, delivered, refused, cut>>

-----------------------------------------------------------------------------
(* Unbuffered channels.  A transfer needs one side parked in its select and *)
(* the other one arriving.  Closing done wakes everything that is parked    *)
(* and lets nothing park again, so there is no transfer after termination.  *)

HandOver(s) ==
    /\ cap = 0
    /\ ~done
    /\ pc[s] = "sending"
    /\ accepted' = Append(accepted, held[s])
    /\ delivered' = Append(delivered, held[s])
    /\ held' = [held EXCEPT ![s] = NoMsg]
    /\ UNCHANGED <<data, done, refused, ended, cut>>

Rendezvous(s, r) ==
    /\ pc[r] = "receiving"
    /\ HandOver(s)
    /\ pc' = [pc EXCEPT ![s] = "idle", ![r] = "idle"]
    /\ UNCHANGED calls

-----------------------------------------------------------------------------
(* select with one channel and handler: a receive that never waits.        *)

SelectBuffered(g) ==
    /\ Begin(g)
    /\ TakeBuffered
    /\ UNCHANGED <<pc, held>>

SelectRendezvous(s, g) ==
    /\ Begin(g)
    /\ HandOver(s)
    /\ pc' = [pc EXCEPT ![s] = "idle"]

\* Nothing buffered.  On an unbuffered channel a sender may be inside its
\* select and not parked yet, so a miss is possible although it is sending.
SelectMiss(g) ==
    /\ Begin(g)
    /\ data = << >>
    /\ UNCHANGED <<data, done, pc, held, history>>

-----------------------------------------------------------------------------
(* channel-close: sync.Once makes every call but the first a no-op.        *)

Close(g) ==
    /\ Begin(g)
    /\ done' = TRUE
    /\ cut' = IF done THEN cut ELSE Len(accepted)
    /\ UNCHANGED <<data, pc, held, accepted, delivered, refused, ended>>

-----------------------------------------------------------------------------

\* The steps that carry a call under way forward.
Advance(g) == \/ SendBuffered(g)
              \/ SendTerminated(g)
              \/ ReceiveBuffered(g)
              \/ ReceiveSawDone(g)
              \/ DrainBuffered(g)
              \/ DrainEmpty(g)

Call(g) == \/ SendRefusedAtOnce(g)
           \/ SendCheck(g)
           \/ ReceiveBegin(g)
           \/ SelectBuffered(g)
           \/ SelectMiss(g)
           \/ Close(g)

Meet(s, g) == Rendezvous(s, g) \/ SelectRendezvous(s, g)

Next == /\ \/ \E g \in Goroutines : Call(g) \/ Advance(g)
           \/ \E s, g \in Goroutines : Meet(s, g)
        /\ UNCHANGED cap

Spec == Init /\ [][Next]_vars

\* The Go scheduler runs every goroutine whose select has a ready case.  No
\* goroutine has to begin another call.
Fairness == \A g \in Goroutines : WF_vars(Advance(g) /\ UNCHANGED cap)

FairSpec == Spec /\ Fairness

-----------------------------------------------------------------------------
(* Properties.                                                             *)

\* No message is lost, duplicated or reordered inside the channel: what has
\* been accepted is what has been delivered followed by what is buffered
\* (ChannelSend, recvChannelValue and ChannelSelect all work on c.data).
Conservation == accepted = delivered \o data

\* The answers of channel-send are honest: a message reported as refused is
\* never in the stream, and nobody is still sending a message that is.
HonestAnswers ==
    \A i \in 1 .. Len(accepted) :
        /\ accepted[i] \notin refused
        /\ \A g \in Goroutines : pc[g] = "sending" => held[g] # accepted[i]

\* The messages of one goroutine arrive in the order of its calls, each at
\* most once, whoever receives them and whenever the channel is terminated.
SenderOrder ==
    \A i, j \in 1 .. Len(delivered) :
        i < j /\ delivered[i][1] = delivered[j][1]
            => delivered[i][2] < delivered[j][2]

\* channel-receive reports the end of the stream only when every message
\* accepted before the termination has been handed to some receiver: closing
\* is not a way to lose what has already been sent.
NothingCutOff == ended => Len(delivered) >= cut

\* A goroutine blocked in channel-send or channel-receive when the channel is
\* terminated gets out of the call (docs/async.md: "returns false if it is
\* blocked when termination arrives").
TerminationReleases ==
    \A g \in Goroutines : (done /\ pc[g] # "idle") ~> pc[g] = "idle"

\* The calls under way, as the stream sees them.
Pending == {held[g] : g \in {h \in Goroutines : pc[h] = "sending"}}

Abstract == INSTANCE Stream WITH closed <- done, pending <- Pending

\* The channel implements the stream it promises.
ImplementsStream == Abstract!Spec
=============================================================================
