------------------------------- MODULE Stream -------------------------------
(***************************************************************************)
(* What a FLAG channel promises to the goroutines that share it, in terms  *)
(* of the stream of messages alone (docs/async.md, "Channels").  Calls are *)
(* not visible here except as the set of sends under way: a message is     *)
(* pending from the moment its send has been admitted until the send       *)
(* returns.  Channel implements this specification.                        *)
(***************************************************************************)
EXTENDS Naturals, Sequences

CONSTANTS Msgs,       \* every message that may ever be sent, each at most once
          Capacities  \* what make-channel may be given; 0 is unbuffered

VARIABLES cap,        \* capacity of the channel, never changed
          accepted,   \* messages whose send succeeded, in stream order
          delivered,  \* messages handed to receivers, in stream order
          pending,    \* messages of sends under way
          closed,     \* the channel has been terminated
          ended       \* some receive has reported the end of the stream

vars == <<cap, accepted, delivered, pending, closed, ended>>

Init == /\ cap \in Capacities
        /\ accepted = << >>
        /\ delivered = << >>
        /\ pending = {}
        /\ closed = FALSE
        /\ ended = FALSE

\* Termination admits no new send.
Admit(m) == /\ ~closed
            /\ pending' = pending \cup {m}
            /\ UNCHANGED <<accepted, delivered, closed, ended>>

\* A send succeeds when the buffer has room, before or after termination.
Accept(m) == /\ m \in pending
             /\ Len(accepted) - Len(delivered) < cap
             /\ accepted' = Append(accepted, m)
             /\ pending' = pending \ {m}
             /\ UNCHANGED <<delivered, closed, ended>>

\* Messages leave in the order in which they were accepted.
Deliver == /\ Len(delivered) < Len(accepted)
           /\ delivered' = Append(delivered, accepted[Len(delivered) + 1])
           /\ UNCHANGED <<accepted, pending, closed, ended>>

\* An unbuffered channel moves a message from sender to receiver at once, and
\* never after termination.
Exchange(m) == /\ m \in pending
               /\ cap = 0
               /\ ~closed
               /\ accepted' = Append(accepted, m)
               /\ delivered' = Append(delivered, m)
               /\ pending' = pending \ {m}
               /\ UNCHANGED <<closed, ended>>

\* A send fails only because of termination.
Refuse(m) == /\ m \in pending
             /\ closed
             /\ pending' = pending \ {m}
             /\ UNCHANGED <<accepted, delivered, closed, ended>>

Terminate == /\ closed' = TRUE
             /\ UNCHANGED <<accepted, delivered, pending, ended>>

\* The end of the stream is reported only when the channel is terminated and
\* every accepted message has been handed to a receiver.
End == /\ closed
       /\ delivered = accepted
       /\ ended' = TRUE
       /\ UNCHANGED <<accepted, delivered, pending, closed>>

Next == /\ \/ \E m \in Msgs : Admit(m) \/ Accept(m) \/ Exchange(m) \/ Refuse(m)
           \/ Deliver
           \/ Terminate
           \/ End
        /\ UNCHANGED cap

Spec == Init /\ [][Next]_vars
=============================================================================
