--------------------------- MODULE ChannelProofs ----------------------------
(***************************************************************************)
(* Theorems about Channel, for every set of goroutines, every capacity and *)
(* every bound on the calls.                                               *)
(***************************************************************************)
EXTENDS Channel, TLAPS

\* Taking the head off a buffer that follows s moves one message from the
\* buffer to the end of s.
LEMMA MoveHead ==
    ASSUME NEW S, NEW s \in Seq(S), NEW t \in Seq(S), t # << >>
    PROVE  /\ Head(t) \in S
           /\ Tail(t) \in Seq(S)
           /\ Len(Tail(t)) = Len(t) - 1
           /\ Append(s, Head(t)) \o Tail(t) = s \o t
  OBVIOUS

\* Appending to the buffer appends to the whole stream.
LEMMA AppendRight ==
    ASSUME NEW S, NEW s \in Seq(S), NEW t \in Seq(S), NEW m \in S
    PROVE  s \o Append(t, m) = Append(s \o t, m)
  OBVIOUS

\* With an empty buffer the stream is what has been delivered.
LEMMA EmptyRight ==
    ASSUME NEW S, NEW s \in Seq(S)
    PROVE  s \o << >> = s
  OBVIOUS

-----------------------------------------------------------------------------
(* Types.                                                                  *)

\* A goroutine in its second select is sending the message of its latest call.
SendsLatest ==
    \A g \in Goroutines :
        pc[g] = "sending" => /\ calls[g] \in 1 .. MaxCalls
                             /\ held[g] = <<g, calls[g]>>

TypeInv == TypeOK /\ SendsLatest

LEMMA MsgTyping ==
    ASSUME NEW g \in Goroutines, NEW n \in 1 .. MaxCalls
    PROVE  <<g, n>> \in Msgs
  BY DEF Msgs

LEMMA TypeInit == Init => TypeInv
<1> SUFFICES ASSUME Init PROVE TypeOK /\ SendsLatest
  BY DEF TypeInv
<1>1. << >> \in Seq(Msgs) /\ Len(<< >>) <= cap /\ cap \in Capacities
  BY ChannelAssumption DEF Init
<1>2. TypeOK
  <2>1. /\ pc \in [Goroutines -> {"idle", "sending", "receiving", "draining"}]
        /\ held \in [Goroutines -> Msgs \cup {NoMsg}]
        /\ calls \in [Goroutines -> 0 .. MaxCalls]
    BY ChannelAssumption DEF Init
  <2>2. QED
    BY <1>1, <2>1 DEF Init, TypeOK
<1>3. SendsLatest
  BY DEF Init, SendsLatest
<1>4. QED
  BY <1>2, <1>3

LEMMA TypeStep == TypeInv /\ [Next]_vars => TypeInv'
<1> SUFFICES ASSUME TypeInv, [Next]_vars PROVE TypeInv'
  OBVIOUS
<1>0. cap' = cap
  BY DEF Next, vars
<1> USE <1>0, ChannelAssumption DEF TypeInv, TypeOK, SendsLatest
<1>1. ASSUME NEW g \in Goroutines, SendRefusedAtOnce(g) PROVE TypeInv'
  BY <1>1, MsgTyping DEF SendRefusedAtOnce, Begin
<1>2. ASSUME NEW g \in Goroutines, SendCheck(g) PROVE TypeInv'
  BY <1>2, MsgTyping DEF SendCheck, Begin, history
<1>3. ASSUME NEW g \in Goroutines, SendBuffered(g) PROVE TypeInv'
  <2>1. held[g] \in Msgs
    BY <1>3, MsgTyping DEF SendBuffered
  <2>2. data' \in Seq(Msgs) /\ accepted' \in Seq(Msgs) /\ Len(data') <= cap
    BY <1>3, <2>1 DEF SendBuffered
  <2>3. QED
    BY <1>3, <2>2 DEF SendBuffered, Return
<1>4. ASSUME NEW g \in Goroutines, SendTerminated(g) PROVE TypeInv'
  <2>1. held[g] \in Msgs
    BY <1>4, MsgTyping DEF SendTerminated
  <2>2. refused' \in SUBSET Msgs
    BY <1>4, <2>1 DEF SendTerminated
  <2>3. QED
    BY <1>4, <2>2 DEF SendTerminated, Return
<1>5. ASSUME NEW g \in Goroutines, ReceiveBegin(g) PROVE TypeInv'
  BY <1>5 DEF ReceiveBegin, Begin, history
<1>6. ASSUME NEW g \in Goroutines, ReceiveBuffered(g) PROVE TypeInv'
  BY <1>6, MoveHead DEF ReceiveBuffered, TakeBuffered, Return
<1>7. ASSUME NEW g \in Goroutines, ReceiveSawDone(g) PROVE TypeInv'
  BY <1>7 DEF ReceiveSawDone, history
<1>8. ASSUME NEW g \in Goroutines, DrainBuffered(g) PROVE TypeInv'
  BY <1>8, MoveHead DEF DrainBuffered, TakeBuffered, Return
<1>9. ASSUME NEW g \in Goroutines, DrainEmpty(g) PROVE TypeInv'
  BY <1>9 DEF DrainEmpty, Return
<1>10. ASSUME NEW s \in Goroutines, NEW r \in Goroutines, Rendezvous(s, r)
       PROVE TypeInv'
  <2>1. held[s] \in Msgs
    BY <1>10, MsgTyping DEF Rendezvous, HandOver
  <2>2. accepted' \in Seq(Msgs) /\ delivered' \in Seq(Msgs)
    BY <1>10, <2>1 DEF Rendezvous, HandOver
  <2>3. QED
    BY <1>10, <2>2 DEF Rendezvous, HandOver
<1>11. ASSUME NEW g \in Goroutines, SelectBuffered(g) PROVE TypeInv'
  <2>1. TypeOK'
    BY <1>11, MoveHead DEF SelectBuffered, TakeBuffered, Begin
  <2>2. SendsLatest'
    BY <1>11 DEF SelectBuffered, Begin
  <2>3. QED
    BY <2>1, <2>2
<1>12. ASSUME NEW s \in Goroutines, NEW g \in Goroutines, SelectRendezvous(s, g)
       PROVE TypeInv'
  <2>1. s # g /\ held[s] \in Msgs
    BY <1>12, MsgTyping DEF SelectRendezvous, HandOver, Begin
  <2>2. TypeOK'
    BY <1>12, <2>1 DEF SelectRendezvous, HandOver, Begin
  <2>3. SendsLatest'
    BY <1>12, <2>1 DEF SelectRendezvous, HandOver, Begin
  <2>4. QED
    BY <2>2, <2>3
<1>13. ASSUME NEW g \in Goroutines, SelectMiss(g) PROVE TypeInv'
  BY <1>13 DEF SelectMiss, Begin, history
<1>14. ASSUME NEW g \in Goroutines, Close(g) PROVE TypeInv'
  BY <1>14 DEF Close, Begin
<1>15. CASE UNCHANGED vars
  BY <1>15 DEF vars
<1>16. QED
  BY <1>1, <1>2, <1>3, <1>4, <1>5, <1>6, <1>7, <1>8, <1>9, <1>10, <1>11,
     <1>12, <1>13, <1>14, <1>15 DEF Next, Call, Advance, Meet

\* The variables of the channel and of its callers keep their types, and the
\* buffer never exceeds the capacity given to make-channel.
THEOREM TypeCorrect == Spec => []TypeOK
<1>1. TypeInv => TypeOK
  BY DEF TypeInv
<1>2. QED
  BY <1>1, TypeInit, TypeStep, PTL DEF Spec

-----------------------------------------------------------------------------
(* What is buffered and what has been delivered.                           *)

LEMMA ConservationStep == TypeInv /\ Conservation /\ [Next]_vars => Conservation'
<1> SUFFICES ASSUME TypeInv, Conservation, [Next]_vars PROVE Conservation'
  OBVIOUS
<1> USE DEF TypeInv, TypeOK, Conservation
\* The three ways into the stream.
<1>1. ASSUME NEW g \in Goroutines, SendBuffered(g) PROVE Conservation'
  <2>1. held[g] \in Msgs
    BY <1>1, MsgTyping DEF SendBuffered, SendsLatest
  <2>2. delivered \o Append(data, held[g]) = Append(delivered \o data, held[g])
    BY <2>1, AppendRight
  <2>3. QED
    BY <1>1, <2>2 DEF SendBuffered
<1>2. ASSUME NEW s \in Goroutines, HandOver(s) PROVE Conservation'
  <2>1. held[s] \in Msgs /\ data = << >>
    <3>1. held[s] \in Msgs
      BY <1>2, MsgTyping DEF HandOver, SendsLatest
    <3>2. Len(data) = 0
      BY <1>2 DEF HandOver
    <3>3. QED
      BY <3>1, <3>2
  <2>2. accepted = delivered
    BY <2>1, EmptyRight
  <2>3. accepted' = delivered' /\ data' = << >> /\ delivered' \in Seq(Msgs)
    BY <1>2, <2>1, <2>2 DEF HandOver
  <2>4. QED
    BY <2>3, EmptyRight
\* The one way from the buffer to a receiver.
<1>3. ASSUME TakeBuffered PROVE Conservation'
  BY <1>3, MoveHead DEF TakeBuffered
\* Everything else leaves the stream alone.
<1>4. ASSUME UNCHANGED <<data, accepted, delivered>> PROVE Conservation'
  BY <1>4
<1>5. QED
  BY <1>1, <1>2, <1>3, <1>4 DEF Next, Call, Advance, Meet, SendRefusedAtOnce,
     SendCheck, SendTerminated, ReceiveBegin, ReceiveBuffered, ReceiveSawDone,
     DrainBuffered, DrainEmpty, Rendezvous, SelectBuffered, SelectRendezvous,
     SelectMiss, Close, history, vars

\* Conservation holds for every number of goroutines and every capacity.
THEOREM ConservationCorrect == Spec => []Conservation
<1>1. Init => Conservation
  BY DEF Init, Conservation
<1>2. QED
  BY <1>1, TypeInit, TypeStep, ConservationStep, PTL DEF Spec

-----------------------------------------------------------------------------
(* Answers and order.                                                      *)

\* No message of a call that has not begun is known to the stream, and a send
\* under way is later than everything its goroutine has had answered.
Numbered ==
    /\ \A i \in 1 .. Len(accepted) : accepted[i][2] <= calls[accepted[i][1]]
    /\ \A m \in refused : m[2] <= calls[m[1]]
    /\ \A g \in Goroutines : pc[g] = "sending" =>
          /\ \A i \in 1 .. Len(accepted) :
                accepted[i][1] = g => accepted[i][2] < calls[g]
          /\ \A m \in refused : m[1] = g => m[2] < calls[g]

AcceptedOrder ==
    \A i, j \in 1 .. Len(accepted) :
        i < j /\ accepted[i][1] = accepted[j][1]
            => accepted[i][2] < accepted[j][2]

Disjoint == \A i \in 1 .. Len(accepted) : accepted[i] \notin refused

Ledger == Numbered /\ AcceptedOrder /\ Disjoint

\* The types of the numbers compared in Ledger.
LEMMA LedgerTypes ==
    ASSUME TypeOK
    PROVE  /\ Len(accepted) \in Nat
           /\ \A i \in 1 .. Len(accepted) : accepted[i][1] \in Goroutines
           /\ \A i \in 1 .. Len(accepted) : accepted[i][2] \in Nat
           /\ \A m \in refused : m[1] \in Goroutines /\ m[2] \in Nat
           /\ \A g \in Goroutines : calls[g] \in Nat
<1> \A m \in Msgs : m[1] \in Goroutines /\ m[2] \in Nat
  BY DEF Msgs
<1>1. \A i \in 1 .. Len(accepted) : accepted[i] \in Msgs
  BY DEF TypeOK
<1>2. QED
  BY <1>1, ChannelAssumption DEF TypeOK

\* A step that answers no send.
LEMMA LedgerFrame ==
    ASSUME TypeOK, TypeOK', Ledger,
           UNCHANGED <<accepted, refused>>,
           \A g \in Goroutines : calls[g] <= calls'[g],
           \A g \in Goroutines : pc'[g] = "sending" =>
                pc[g] = "sending" \/ calls[g] < calls'[g]
    PROVE  Ledger'
<1>1. AcceptedOrder' /\ Disjoint'
  BY DEF Ledger, AcceptedOrder, Disjoint
<1>2. \A g \in Goroutines : calls'[g] \in Nat
  BY ChannelAssumption DEF TypeOK
<1>3. \A i \in 1 .. Len(accepted) : accepted[i][2] <= calls'[accepted[i][1]]
  BY <1>2, LedgerTypes DEF Ledger, Numbered
<1>4. \A m \in refused : m[2] <= calls'[m[1]]
  BY <1>2, LedgerTypes DEF Ledger, Numbered
<1>5. ASSUME NEW g \in Goroutines, pc'[g] = "sending"
      PROVE  /\ \A i \in 1 .. Len(accepted) :
                   accepted[i][1] = g => accepted[i][2] < calls'[g]
             /\ \A m \in refused : m[1] = g => m[2] < calls'[g]
  <2>1. CASE pc[g] = "sending"
    BY <1>2, <1>5, <2>1, LedgerTypes DEF Ledger, Numbered
  <2>2. CASE calls[g] < calls'[g]
    BY <1>2, <1>5, <2>2, LedgerTypes DEF Ledger, Numbered
  <2>3. QED
    BY <1>5, <2>1, <2>2
<1>6. QED
  BY <1>1, <1>3, <1>4, <1>5 DEF Ledger, Numbered

\* A send that has passed its first select and is now accepted.
LEMMA LedgerAccept ==
    ASSUME TypeInv, TypeOK', Ledger,
           NEW s \in Goroutines, pc[s] = "sending", pc'[s] = "idle",
           accepted' = Append(accepted, held[s]),
           UNCHANGED refused,
           \A g \in Goroutines : calls[g] <= calls'[g],
           \A g \in Goroutines : pc'[g] = "sending" => pc[g] = "sending"
    PROVE  Ledger'
<1> DEFINE m == held[s]
           n == Len(accepted)
<1>1. m \in Msgs /\ m[1] = s /\ m[2] = calls[s]
  <2>1. m = <<s, calls[s]>> /\ calls[s] \in 1 .. MaxCalls
    BY DEF TypeInv, SendsLatest
  <2>2. QED
    BY <2>1, MsgTyping
<1>2. /\ Len(accepted') = n + 1
      /\ \A i \in 1 .. n : accepted'[i] = accepted[i]
      /\ accepted'[n + 1] = m
  BY <1>1 DEF TypeInv, TypeOK
<1>3. \A g \in Goroutines : calls'[g] \in Nat
  BY ChannelAssumption DEF TypeOK
<1>4. /\ n \in Nat
      /\ \A i \in 1 .. n : accepted[i][1] \in Goroutines /\ accepted[i][2] \in Nat
      /\ \A r \in refused : r[1] \in Goroutines /\ r[2] \in Nat
      /\ \A g \in Goroutines : calls[g] \in Nat
  BY LedgerTypes DEF TypeInv
<1>5. \A i \in 1 .. n + 1 : i \in 1 .. n \/ i = n + 1
  BY <1>4
<1> HIDE DEF m, n
\* The new message is the latest of s, the others are as before.
<1>6. /\ \A i \in 1 .. n : accepted[i][1] = s => accepted[i][2] < m[2]
      /\ \A r \in refused : r[1] = s => r[2] < m[2]
  BY <1>1 DEF Ledger, Numbered, n
<1>7. Numbered'
  <2>1. \A i \in 1 .. n + 1 : accepted'[i][2] <= calls'[accepted'[i][1]]
    <3>1. ASSUME NEW i \in 1 .. n
          PROVE  accepted[i][2] <= calls'[accepted[i][1]]
      <4>1. accepted[i][2] <= calls[accepted[i][1]]
        BY DEF Ledger, Numbered, n
      <4>2. QED
        BY <1>3, <1>4, <4>1
    <3>2. QED
      BY <1>1, <1>2, <1>3, <1>4, <1>5, <3>1
  <2>2. \A r \in refused : r[2] <= calls'[r[1]]
    BY <1>3, <1>4 DEF Ledger, Numbered
  <2>3. ASSUME NEW g \in Goroutines, pc'[g] = "sending"
        PROVE  /\ \A i \in 1 .. n + 1 :
                     accepted'[i][1] = g => accepted'[i][2] < calls'[g]
               /\ \A r \in refused : r[1] = g => r[2] < calls'[g]
    <3>1. g # s
      BY <2>3
    <3>2. /\ \A i \in 1 .. n : accepted[i][1] = g => accepted[i][2] < calls[g]
          /\ \A r \in refused : r[1] = g => r[2] < calls[g]
      BY <2>3 DEF Ledger, Numbered, n
    <3>3. calls[g] <= calls'[g] /\ calls[g] \in Nat /\ calls'[g] \in Nat
      BY <1>3, <1>4
    <3>4. QED
      BY <1>1, <1>2, <1>4, <1>5, <3>1, <3>2, <3>3
  <2>4. QED
    BY <1>2, <2>1, <2>2, <2>3 DEF Numbered
<1>8. AcceptedOrder'
  <2> SUFFICES ASSUME NEW i \in 1 .. n + 1, NEW j \in 1 .. n + 1, i < j,
                      accepted'[i][1] = accepted'[j][1]
               PROVE  accepted'[i][2] < accepted'[j][2]
    BY <1>2 DEF AcceptedOrder
  <2>1. i \in 1 .. n
    BY <1>4
  <2>2. CASE j \in 1 .. n
    BY <1>2, <2>1, <2>2 DEF Ledger, AcceptedOrder, n
  <2>3. CASE j = n + 1
    BY <1>1, <1>2, <1>6, <2>1, <2>3
  <2>4. QED
    BY <1>5, <2>2, <2>3
<1>9. Disjoint'
  <2>1. m \notin refused
    BY <1>1, <1>4, <1>6
  <2>2. \A i \in 1 .. n : accepted[i] \notin refused
    BY DEF Ledger, Disjoint, n
  <2>3. QED
    BY <1>2, <1>5, <2>1, <2>2 DEF Disjoint
<1>10. QED
  BY <1>7, <1>8, <1>9 DEF Ledger

\* A send that is refused in either of its selects; n numbers its call.
LEMMA LedgerRefuse ==
    ASSUME TypeOK, TypeOK', Ledger,
           NEW s \in Goroutines, NEW n \in 1 .. MaxCalls, pc'[s] # "sending",
           (pc[s] = "sending" /\ n = calls[s]) \/ n = calls[s] + 1,
           n <= calls'[s],
           refused' = refused \cup {<<s, n>>},
           UNCHANGED accepted,
           \A g \in Goroutines : calls[g] <= calls'[g],
           \A g \in Goroutines : pc'[g] = "sending" => pc[g] = "sending"
    PROVE  Ledger'
<1> DEFINE k == Len(accepted)
<1>1. /\ k \in Nat
      /\ \A i \in 1 .. k : accepted[i][1] \in Goroutines /\ accepted[i][2] \in Nat
      /\ \A r \in refused : r[1] \in Goroutines /\ r[2] \in Nat
      /\ \A g \in Goroutines : calls[g] \in Nat
  BY LedgerTypes
<1>2. \A g \in Goroutines : calls'[g] \in Nat
  BY ChannelAssumption DEF TypeOK
<1>3. \A i \in 1 .. k : accepted[i][1] = s => accepted[i][2] < n
  <2>1. CASE pc[s] = "sending" /\ n = calls[s]
    BY <2>1 DEF Ledger, Numbered
  <2>2. CASE n = calls[s] + 1
    BY <1>1, <2>2 DEF Ledger, Numbered
  <2>3. QED
    BY <2>1, <2>2
<1>4. Numbered'
  <2>1. \A i \in 1 .. k : accepted[i][2] <= calls'[accepted[i][1]]
    BY <1>1, <1>2 DEF Ledger, Numbered
  <2>2. \A r \in refused : r[2] <= calls'[r[1]]
    BY <1>1, <1>2 DEF Ledger, Numbered
  <2>3. ASSUME NEW g \in Goroutines, pc'[g] = "sending"
        PROVE  /\ \A i \in 1 .. k : accepted[i][1] = g => accepted[i][2] < calls'[g]
               /\ \A r \in refused : r[1] = g => r[2] < calls'[g]
               /\ g # s
    BY <1>1, <1>2, <2>3 DEF Ledger, Numbered
  <2>4. QED
    BY <2>1, <2>2, <2>3 DEF Numbered
<1>5. AcceptedOrder'
  BY DEF Ledger, AcceptedOrder
<1>6. Disjoint'
  BY <1>1, <1>3 DEF Ledger, Disjoint
<1>7. QED
  BY <1>4, <1>5, <1>6 DEF Ledger

LEMMA LedgerStep == TypeInv /\ TypeInv' /\ Ledger /\ [Next]_vars => Ledger'
<1> SUFFICES ASSUME TypeInv, TypeInv', Ledger, [Next]_vars PROVE Ledger'
  OBVIOUS
<1>1. TypeOK /\ TypeOK'
  BY DEF TypeInv
<1>2. \A g \in Goroutines : calls[g] \in 0 .. MaxCalls /\ calls[g] <= calls[g]
  BY <1>1, ChannelAssumption DEF TypeOK
<1>3. ASSUME NEW g \in Goroutines, Begin(g)
      PROVE  /\ \A h \in Goroutines : calls[h] <= calls'[h]
             /\ calls'[g] = calls[g] + 1
             /\ calls[g] + 1 \in 1 .. MaxCalls
             /\ calls[g] < calls'[g]
  BY <1>1, <1>2, <1>3, ChannelAssumption DEF TypeOK, Begin
\* Sends that succeed.
<1>4. ASSUME NEW s \in Goroutines, SendBuffered(s) PROVE Ledger'
  BY <1>1, <1>2, <1>4, LedgerAccept DEF SendBuffered, Return, TypeOK
<1>5. ASSUME NEW s \in Goroutines, NEW r \in Goroutines, Rendezvous(s, r)
      PROVE  Ledger'
  BY <1>1, <1>2, <1>5, LedgerAccept DEF Rendezvous, HandOver, TypeOK
<1>6. ASSUME NEW s \in Goroutines, NEW g \in Goroutines, SelectRendezvous(s, g)
      PROVE  Ledger'
  BY <1>1, <1>3, <1>6, LedgerAccept DEF SelectRendezvous, HandOver, TypeOK
\* Sends that are refused.
<1>7. ASSUME NEW s \in Goroutines, SendRefusedAtOnce(s) PROVE Ledger'
  <2>1. Begin(s) /\ pc' = pc /\ pc[s] = "idle"
    BY <1>7 DEF SendRefusedAtOnce, Begin
  <2>2. calls[s] + 1 <= calls'[s]
    BY <1>2, <1>3, <2>1
  <2>3. QED
    BY <1>1, <1>3, <1>7, <2>1, <2>2, LedgerRefuse DEF SendRefusedAtOnce
<1>8. ASSUME NEW s \in Goroutines, SendTerminated(s) PROVE Ledger'
  <2>1. held[s] = <<s, calls[s]>> /\ calls[s] \in 1 .. MaxCalls
    BY <1>8 DEF SendTerminated, TypeInv, SendsLatest
  <2>2. calls' = calls /\ pc'[s] = "idle"
    BY <1>1, <1>8 DEF SendTerminated, Return, TypeOK
  <2>3. \A g \in Goroutines : pc'[g] = "sending" => pc[g] = "sending"
    BY <1>1, <1>8 DEF SendTerminated, Return, TypeOK
  <2>4. QED
    BY <1>1, <1>2, <1>8, <2>1, <2>2, <2>3, LedgerRefuse DEF SendTerminated
\* Steps that answer no send.
<1>9. ASSUME NEW g \in Goroutines, SendCheck(g) PROVE Ledger'
  BY <1>1, <1>3, <1>9, LedgerFrame DEF SendCheck, TypeOK, history
<1>10. ASSUME NEW g \in Goroutines,
              ReceiveBegin(g) \/ SelectBuffered(g) \/ SelectMiss(g) \/ Close(g)
       PROVE  Ledger'
  BY <1>1, <1>3, <1>10, LedgerFrame
     DEF ReceiveBegin, SelectBuffered, SelectMiss, Close, TakeBuffered, TypeOK,
         history
<1>11. ASSUME NEW g \in Goroutines,
              \/ ReceiveBuffered(g) \/ ReceiveSawDone(g)
              \/ DrainBuffered(g) \/ DrainEmpty(g)
       PROVE  Ledger'
  BY <1>1, <1>2, <1>11, LedgerFrame
     DEF ReceiveBuffered, ReceiveSawDone, DrainBuffered, DrainEmpty,
         TakeBuffered, Return, TypeOK, history
<1>12. CASE UNCHANGED vars
  BY <1>1, <1>2, <1>12, LedgerFrame DEF vars
<1>13. QED
  BY <1>4, <1>5, <1>6, <1>7, <1>8, <1>9, <1>10, <1>11, <1>12
     DEF Next, Call, Advance, Meet

LEMMA LedgerCorrect == Spec => [](TypeInv /\ Ledger /\ Conservation)
<1>1. Init => Ledger /\ Conservation
  BY DEF Init, Ledger, Numbered, AcceptedOrder, Disjoint, Conservation
<1>2. QED
  BY <1>1, TypeInit, TypeStep, ConservationStep, LedgerStep, PTL DEF Spec

\* channel-send never tells a goroutine that a message was refused when the
\* message is in the stream, nor admits it twice.
THEOREM HonestAnswersCorrect == Spec => []HonestAnswers
<1>1. TypeInv /\ Ledger => HonestAnswers
  <2> SUFFICES ASSUME TypeInv, Ledger, NEW i \in 1 .. Len(accepted)
               PROVE  /\ accepted[i] \notin refused
                      /\ \A g \in Goroutines :
                            pc[g] = "sending" => held[g] # accepted[i]
    BY DEF HonestAnswers
  <2>1. accepted[i] \notin refused
    BY DEF Ledger, Disjoint
  <2>2. ASSUME NEW g \in Goroutines, pc[g] = "sending", held[g] = accepted[i]
        PROVE  FALSE
    <3>1. accepted[i][1] = g /\ accepted[i][2] = calls[g]
      BY <2>2 DEF TypeInv, SendsLatest
    <3>2. accepted[i][2] < calls[g] /\ calls[g] \in Nat
      BY <2>2, <3>1, LedgerTypes DEF TypeInv, Ledger, Numbered
    <3>3. QED
      BY <3>1, <3>2
  <2>3. QED
    BY <2>1, <2>2
<1>2. QED
  BY <1>1, LedgerCorrect, PTL

\* Each goroutine's messages are received in the order of its sends and at
\* most once.
THEOREM SenderOrderCorrect == Spec => []SenderOrder
<1>1. TypeInv /\ Ledger /\ Conservation => SenderOrder
  <2> SUFFICES ASSUME TypeInv, Ledger, Conservation PROVE SenderOrder
    OBVIOUS
  <2>1. /\ Len(delivered) <= Len(accepted)
        /\ \A i \in 1 .. Len(delivered) :
              i \in 1 .. Len(accepted) /\ delivered[i] = accepted[i]
    BY DEF TypeInv, TypeOK, Conservation
  <2>2. QED
    BY <2>1 DEF SenderOrder, Ledger, AcceptedOrder
<1>2. QED
  BY <1>1, LedgerCorrect, PTL

-----------------------------------------------------------------------------
(* Termination.                                                            *)

CutInv ==
    /\ cut <= Len(accepted)
    /\ NothingCutOff
    /\ ended => done
    /\ \A g \in Goroutines : pc[g] = "draining" => done

\* Appending m to s, whatever m is.
LEMMA AppendLen ==
    ASSUME NEW S, NEW s \in Seq(S), NEW m
    PROVE  Len(Append(s, m)) = Len(s) + 1
<1>1. s \in Seq(S \cup {m})
  OBVIOUS
<1>2. QED
  BY <1>1

LEMMA CutInit == Init => CutInv
  BY DEF Init, CutInv, NothingCutOff

LEMMA CutStep == TypeInv /\ Conservation /\ CutInv /\ [Next]_vars => CutInv'
<1> SUFFICES ASSUME TypeInv, Conservation, CutInv, [Next]_vars PROVE CutInv'
  OBVIOUS
<1> USE DEF CutInv, NothingCutOff
<1>1. /\ Len(accepted) \in Nat /\ Len(delivered) \in Nat /\ cut \in Nat
      /\ pc \in [Goroutines -> {"idle", "sending", "receiving", "draining"}]
  BY DEF TypeInv, TypeOK
<1>2. \A m : Len(Append(accepted, m)) = Len(accepted) + 1
  BY AppendLen DEF TypeInv, TypeOK
<1>3. \A m : Len(Append(delivered, m)) = Len(delivered) + 1
  BY AppendLen DEF TypeInv, TypeOK
\* The end is seen with an empty buffer: all of accepted has been delivered.
<1>4. ASSUME NEW g \in Goroutines, DrainEmpty(g) PROVE CutInv'
  <2>1. accepted = delivered
    BY <1>4, EmptyRight DEF DrainEmpty, Conservation, TypeInv, TypeOK
  <2>2. QED
    BY <1>1, <1>4, <2>1 DEF DrainEmpty, Return
\* The first termination comes before any end of stream.
<1>5. ASSUME NEW g \in Goroutines, Close(g) PROVE CutInv'
  BY <1>1, <1>5 DEF Close
\* Nothing else lowers delivered or moves cut.
<1>6. ASSUME NEW g \in Goroutines, SendBuffered(g) PROVE CutInv'
  BY <1>1, <1>2, <1>6 DEF SendBuffered, Return
<1>7. ASSUME NEW s \in Goroutines, NEW r \in Goroutines, Meet(s, r) PROVE CutInv'
  BY <1>1, <1>2, <1>3, <1>7
     DEF Meet, Rendezvous, SelectRendezvous, HandOver
<1>8. ASSUME NEW g \in Goroutines,
             ReceiveBuffered(g) \/ DrainBuffered(g) \/ SelectBuffered(g)
      PROVE  CutInv'
  BY <1>1, <1>3, <1>8
     DEF ReceiveBuffered, DrainBuffered, SelectBuffered, TakeBuffered, Return
<1>9. ASSUME NEW g \in Goroutines,
             \/ SendRefusedAtOnce(g) \/ SendCheck(g) \/ SendTerminated(g)
             \/ ReceiveBegin(g) \/ ReceiveSawDone(g) \/ SelectMiss(g)
      PROVE  CutInv'
  BY <1>1, <1>9
     DEF SendRefusedAtOnce, SendCheck, SendTerminated, ReceiveBegin,
         ReceiveSawDone, SelectMiss, Return, history
<1>10. CASE UNCHANGED vars
  BY <1>10 DEF vars
<1>11. QED
  BY <1>4, <1>5, <1>6, <1>7, <1>8, <1>9, <1>10 DEF Next, Call, Advance

\* Terminating a channel loses nothing that was accepted before: a receive
\* reports the end of the stream only after all of it has been received.
THEOREM NothingCutOffCorrect == Spec => []NothingCutOff
<1>1. CutInv => NothingCutOff
  BY DEF CutInv
<1>2. QED
  BY <1>1, CutInit, TypeInit, TypeStep, CutStep, LedgerCorrect, PTL DEF Spec

-----------------------------------------------------------------------------
(* The channel implements the stream it promises.                          *)

\* A step in which nobody begins or ends a send.
LEMMA PendingSame ==
    ASSUME \A g \in Goroutines : (pc'[g] = "sending") = (pc[g] = "sending"),
           \A g \in Goroutines : pc[g] = "sending" => held'[g] = held[g]
    PROVE  Pending' = Pending
  BY DEF Pending

\* A step in which the send of s, and no other, ends.
LEMMA PendingDrop ==
    ASSUME TypeInv, NEW s \in Goroutines, pc[s] = "sending", pc'[s] # "sending",
           \A g \in Goroutines \ {s} : (pc'[g] = "sending") = (pc[g] = "sending"),
           \A g \in Goroutines \ {s} : pc[g] = "sending" => held'[g] = held[g]
    PROVE  /\ held[s] \in Pending
           /\ held[s] \in Msgs
           /\ Pending' = Pending \ {held[s]}
<1>1. /\ \A g \in Goroutines : pc[g] = "sending" => held[g][1] = g
      /\ held[s] \in Msgs
  <2>1. \A g \in Goroutines : pc[g] = "sending" =>
            held[g] = <<g, calls[g]>> /\ calls[g] \in 1 .. MaxCalls
    BY DEF TypeInv, SendsLatest
  <2>2. QED
    BY <2>1, MsgTyping
<1>2. held[s] \in Pending
  BY DEF Pending
<1>3. Pending' \subseteq Pending \ {held[s]}
  <2> SUFFICES ASSUME NEW g \in Goroutines, pc'[g] = "sending"
               PROVE  held'[g] \in Pending /\ held'[g] # held[s]
    BY DEF Pending
  <2>1. g # s /\ pc[g] = "sending" /\ held'[g] = held[g]
    OBVIOUS
  <2>2. QED
    BY <1>1, <2>1 DEF Pending
<1>4. Pending \ {held[s]} \subseteq Pending'
  <2> SUFFICES ASSUME NEW g \in Goroutines, pc[g] = "sending", held[g] # held[s]
               PROVE  held[g] \in Pending'
    BY DEF Pending
  <2>1. g # s /\ pc'[g] = "sending" /\ held'[g] = held[g]
    OBVIOUS
  <2>2. QED
    BY <2>1 DEF Pending
<1>5. QED
  BY <1>1, <1>2, <1>3, <1>4

\* A step in which g begins to send m.
LEMMA PendingAdd ==
    ASSUME NEW g \in Goroutines, NEW m, pc[g] # "sending",
           pc'[g] = "sending", held'[g] = m,
           \A h \in Goroutines \ {g} : pc'[h] = pc[h] /\ held'[h] = held[h]
    PROVE  Pending' = Pending \cup {m}
<1>1. Pending' \subseteq Pending \cup {m}
  BY DEF Pending
<1>2. m \in Pending'
  BY DEF Pending
<1>3. Pending \subseteq Pending'
  <2> SUFFICES ASSUME NEW h \in Goroutines, pc[h] = "sending"
               PROVE  held[h] \in Pending'
    BY DEF Pending
  <2>1. h # g
    OBVIOUS
  <2>2. QED
    BY <2>1 DEF Pending
<1>4. QED
  BY <1>1, <1>2, <1>3

\* The oldest buffered message is the next one of the stream.
LEMMA HeadIsNext ==
    ASSUME TypeInv, Conservation, data # << >>
    PROVE  /\ Len(delivered) < Len(accepted)
           /\ Head(data) = accepted[Len(delivered) + 1]
<1>1. Len(data) \in Nat \ {0}
  BY DEF TypeInv, TypeOK
<1>2. QED
  BY <1>1 DEF TypeInv, TypeOK, Conservation

LEMMA StreamStep ==
    TypeInv /\ Conservation /\ CutInv /\ [Next]_vars
        => [Abstract!Next]_(Abstract!vars)
<1> SUFFICES ASSUME TypeInv, Conservation, CutInv, [Next]_vars
             PROVE  [Abstract!Next]_(Abstract!vars)
  OBVIOUS
<1>1. /\ pc \in [Goroutines -> {"idle", "sending", "receiving", "draining"}]
      /\ held \in [Goroutines -> Msgs \cup {NoMsg}]
      /\ cap' = cap
  BY DEF TypeInv, TypeOK, Next, vars
\* A send passes its first select.
<1>2. ASSUME NEW g \in Goroutines, SendCheck(g) PROVE Abstract!Next
  <2> DEFINE m == <<g, calls[g] + 1>>
  <2>1. m \in Msgs
    BY <1>2, MsgTyping, ChannelAssumption DEF SendCheck, Begin, TypeInv, TypeOK
  <2>2. Pending' = Pending \cup {m}
    BY <1>1, <1>2, PendingAdd DEF SendCheck, Begin
  <2>3. Abstract!Admit(m)
    BY <1>2, <2>2 DEF SendCheck, Abstract!Admit, history
  <2>4. QED
    BY <1>1, <2>1, <2>3 DEF Abstract!Next
\* A send succeeds.
<1>3. ASSUME NEW s \in Goroutines, SendBuffered(s) PROVE Abstract!Next
  <2>1. /\ held[s] \in Pending /\ held[s] \in Msgs
        /\ Pending' = Pending \ {held[s]}
    BY <1>1, <1>3, PendingDrop DEF SendBuffered, Return
  <2>2. Len(accepted) - Len(delivered) = Len(data)
    BY DEF TypeInv, TypeOK, Conservation
  <2>3. Abstract!Accept(held[s])
    BY <1>3, <2>1, <2>2 DEF SendBuffered, Abstract!Accept
  <2>4. QED
    BY <1>1, <2>1, <2>3 DEF Abstract!Next
<1>4. ASSUME NEW s \in Goroutines, NEW r \in Goroutines, Meet(s, r)
      PROVE  Abstract!Next
  <2>1. HandOver(s) /\ pc'[s] = "idle"
    BY <1>1, <1>4 DEF Meet, Rendezvous, SelectRendezvous
  <2>2. \A g \in Goroutines \ {s} : (pc'[g] = "sending") = (pc[g] = "sending")
    BY <1>1, <1>4 DEF Meet, Rendezvous, SelectRendezvous, Begin
  <2>3. /\ held[s] \in Pending /\ held[s] \in Msgs
        /\ Pending' = Pending \ {held[s]}
    BY <1>1, <2>1, <2>2, PendingDrop DEF HandOver
  <2>4. Abstract!Exchange(held[s])
    BY <2>1, <2>3 DEF HandOver, Abstract!Exchange
  <2>5. QED
    BY <1>1, <2>3, <2>4 DEF Abstract!Next
\* A send is refused in its second select.
<1>5. ASSUME NEW s \in Goroutines, SendTerminated(s) PROVE Abstract!Next
  <2>1. /\ held[s] \in Pending /\ held[s] \in Msgs
        /\ Pending' = Pending \ {held[s]}
    BY <1>1, <1>5, PendingDrop DEF SendTerminated, Return
  <2>2. Abstract!Refuse(held[s])
    BY <1>5, <2>1 DEF SendTerminated, Abstract!Refuse
  <2>3. QED
    BY <1>1, <2>1, <2>2 DEF Abstract!Next
\* A buffered message is received.
<1>6. ASSUME NEW g \in Goroutines,
             ReceiveBuffered(g) \/ DrainBuffered(g) \/ SelectBuffered(g)
      PROVE  Abstract!Next
  <2>1. TakeBuffered /\ Pending' = Pending
    BY <1>1, <1>6, PendingSame
       DEF ReceiveBuffered, DrainBuffered, SelectBuffered, Return
  <2>2. Abstract!Deliver
    BY <2>1, HeadIsNext DEF TakeBuffered, Abstract!Deliver
  <2>3. QED
    BY <1>1, <2>2 DEF Abstract!Next
\* The end of the stream is reported.
<1>7. ASSUME NEW g \in Goroutines, DrainEmpty(g) PROVE Abstract!Next
  <2>1. Pending' = Pending
    BY <1>1, <1>7, PendingSame DEF DrainEmpty, Return
  <2>2. delivered = accepted
    BY <1>7, EmptyRight DEF DrainEmpty, Conservation, TypeInv, TypeOK
  <2>3. Abstract!End
    BY <1>7, <2>1, <2>2 DEF DrainEmpty, CutInv, Abstract!End
  <2>4. QED
    BY <1>1, <2>3 DEF Abstract!Next
\* The channel is terminated.
<1>8. ASSUME NEW g \in Goroutines, Close(g) PROVE Abstract!Next
  <2>1. Pending' = Pending
    BY <1>8, PendingSame DEF Close
  <2>2. Abstract!Terminate
    BY <1>8, <2>1 DEF Close, Abstract!Terminate
  <2>3. QED
    BY <1>1, <2>2 DEF Abstract!Next
\* Steps the stream does not see.
<1>9. ASSUME NEW g \in Goroutines,
             SendRefusedAtOnce(g) \/ ReceiveBegin(g) \/ ReceiveSawDone(g)
                \/ SelectMiss(g)
      PROVE  UNCHANGED Abstract!vars
  <2>1. Pending' = Pending
    BY <1>1, <1>9, PendingSame
       DEF SendRefusedAtOnce, ReceiveBegin, ReceiveSawDone, SelectMiss, Begin
  <2>2. QED
    BY <1>1, <1>9, <2>1
       DEF SendRefusedAtOnce, ReceiveBegin, ReceiveSawDone, SelectMiss,
           Abstract!vars, history
<1>10. CASE UNCHANGED vars
  BY <1>10 DEF vars, Abstract!vars, Pending
<1>11. QED
  BY <1>2, <1>3, <1>4, <1>5, <1>6, <1>7, <1>8, <1>9, <1>10
     DEF Next, Call, Advance, Meet

\* Every behaviour of the channel is a behaviour of the stream: the calls of
\* runtime/channel.go keep what docs/async.md promises of a channel.
THEOREM ChannelImplementsStream == Spec => ImplementsStream
<1>1. Init => Abstract!Init
  BY DEF Init, Abstract!Init, Pending
<1>2. QED
  BY <1>1, TypeInit, TypeStep, CutInit, CutStep, LedgerCorrect, StreamStep, PTL
     DEF Spec, ImplementsStream, Abstract!Spec
=============================================================================
