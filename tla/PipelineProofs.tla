--------------------------- MODULE PipelineProofs ---------------------------
(***************************************************************************)
(* Theorems about Pipeline, for every number of stages and lines, every    *)
(* size of the buffers, and whatever the user's functions do to the lines. *)
(***************************************************************************)
EXTENDS Pipeline, TLAPS

-----------------------------------------------------------------------------
(* Sequences of values, of which a receiver takes the part before the      *)
(* first nil.                                                              *)

Values == Lines \cup {Nil}

HasNil(s) == \E i \in DOMAIN s : s[i] = Nil

Before(s, i) == \A j \in 1 .. i : s[j] # Nil

\* The part of s before its first nil is the lines T, in order.
Lists(s, T) ==
    /\ \A i \in DOMAIN s : Before(s, i) => s[i] \in T
    /\ \A i, j \in DOMAIN s : i < j /\ Before(s, j) => s[i] < s[j]
    /\ \A l \in T : \E i \in DOMAIN s : Before(s, i) /\ s[i] = l

LEMMA LineFacts == Nil \notin Lines /\ \A l \in Lines : l \in Nat /\ l >= 1 /\ l <= K
BY PipelineAssumption DEF Nil, Lines

\* At the end of the sequence, or at a nil, there is no line left.
LEMMA ListsNothing ==
    ASSUME NEW s \in Seq(Values), NEW T, Lists(s, T), s = << >> \/ Head(s) = Nil
    PROVE  T = {}
<1> SUFFICES ASSUME NEW l \in T PROVE FALSE
  OBVIOUS
<1>1. PICK i \in DOMAIN s : Before(s, i)
  BY DEF Lists
<1>2. i \in 1 .. Len(s) /\ s # << >> /\ 1 \in 1 .. i
  BY <1>1
<1>3. s[1] # Nil
  BY <1>1, <1>2 DEF Before
<1>4. QED
  BY <1>2, <1>3

\* Otherwise the first value is the least line.
LEMMA ListsHead ==
    ASSUME NEW s \in Seq(Values), NEW T, Lists(s, T), s # << >>, Head(s) # Nil
    PROVE  /\ Head(s) \in T /\ Head(s) \in Lines
           /\ \A l \in T : Head(s) <= l
           /\ Lists(Tail(s), T \ {Head(s)})
           /\ HasNil(Tail(s)) <=> HasNil(s)
<1> USE LineFacts
<1>1. 1 \in DOMAIN s /\ s[1] = Head(s) /\ DOMAIN s = 1 .. Len(s) /\ Head(s) \in Lines
  BY DEF Values
<1>2. Before(s, 1)
  BY <1>1 DEF Before
<1>3. Head(s) \in T
  BY <1>1, <1>2 DEF Lists
<1>4. \A j \in DOMAIN s : Before(s, j) => s[j] \in Lines
  BY <1>1 DEF Before, Values
<1>5. \A j \in DOMAIN s : Before(s, j) /\ j # 1 => s[1] < s[j]
  BY <1>1 DEF Lists
<1>6. \A l \in T : Head(s) <= l
  <2> SUFFICES ASSUME NEW l \in T PROVE Head(s) <= l
    OBVIOUS
  <2>1. PICK i \in DOMAIN s : Before(s, i) /\ s[i] = l
    BY DEF Lists
  <2>2. CASE i = 1
    BY <1>1, <2>1, <2>2
  <2>3. CASE i # 1
    BY <1>1, <1>4, <1>5, <2>1, <2>3
  <2>4. QED
    BY <2>2, <2>3
<1> DEFINE t == Tail(s)
<1>7. /\ t \in Seq(Values) /\ Len(t) = Len(s) - 1 /\ DOMAIN t = 1 .. Len(t)
      /\ \A i \in DOMAIN t : t[i] = s[i + 1] /\ i + 1 \in DOMAIN s
  BY <1>1
<1>8. \A i \in DOMAIN s : i # 1 => i - 1 \in DOMAIN t /\ s[i] = t[i - 1]
  BY <1>1, <1>7
<1> HIDE DEF t
<1>9. \A i \in DOMAIN t : Before(t, i) <=> Before(s, i + 1)
  <2> SUFFICES ASSUME NEW i \in DOMAIN t PROVE Before(t, i) <=> Before(s, i + 1)
    OBVIOUS
  <2>0. i \in 1 .. Len(t) /\ Len(t) \in Nat /\ Len(s) \in Nat
    BY <1>7
  <2>1. ASSUME Before(t, i), NEW j \in 1 .. i + 1 PROVE s[j] # Nil
    <3>1. CASE j = 1
      BY <1>1, <3>1
    <3>2. CASE j # 1
      <4>1. j - 1 \in 1 .. i /\ j \in DOMAIN s
        BY <1>1, <1>7, <2>0, <3>2
      <4>2. QED
        BY <1>8, <2>1, <3>2, <4>1 DEF Before
    <3>3. QED
      BY <3>1, <3>2
  <2>2. ASSUME Before(s, i + 1), NEW j \in 1 .. i PROVE t[j] # Nil
    <3>1. j \in DOMAIN t /\ j + 1 \in 1 .. i + 1
      BY <1>7, <2>0
    <3>2. QED
      BY <1>7, <2>2, <3>1 DEF Before
  <2>3. QED
    BY <2>1, <2>2 DEF Before
<1>10. Lists(t, T \ {Head(s)})
  <2>1. ASSUME NEW i \in DOMAIN t, Before(t, i) PROVE t[i] \in T \ {Head(s)}
    <3>1. i + 1 \in DOMAIN s /\ Before(s, i + 1) /\ i + 1 # 1 /\ t[i] = s[i + 1]
      BY <1>7, <1>9, <2>1
    <3>2. s[i + 1] \in T /\ s[1] < s[i + 1] /\ s[i + 1] \in Lines
      BY <1>4, <1>5, <3>1 DEF Lists
    <3>3. QED
      BY <1>1, <3>1, <3>2
  <2>2. ASSUME NEW i \in DOMAIN t, NEW j \in DOMAIN t, i < j, Before(t, j) PROVE t[i] < t[j]
    <3>1. i + 1 < j + 1
      BY <1>7, <2>2
    <3>2. QED
      BY <1>7, <1>9, <2>2, <3>1 DEF Lists
  <2>3. ASSUME NEW l \in T \ {Head(s)} PROVE \E i \in DOMAIN t : Before(t, i) /\ t[i] = l
    <3>1. PICK i \in DOMAIN s : Before(s, i) /\ s[i] = l
      BY DEF Lists
    <3>2. i # 1
      BY <1>1, <3>1
    <3>3. i - 1 \in DOMAIN t /\ t[i - 1] = l /\ (i - 1) + 1 = i
      BY <1>1, <1>8, <3>1, <3>2
    <3>4. QED
      BY <1>9, <3>1, <3>3
  <2>4. QED
    BY <2>1, <2>2, <2>3 DEF Lists
<1>11. HasNil(t) <=> HasNil(s)
  <2>1. ASSUME HasNil(t) PROVE HasNil(s)
    BY <1>7, <2>1 DEF HasNil
  <2>2. ASSUME HasNil(s) PROVE HasNil(t)
    <3>1. PICK i \in DOMAIN s : s[i] = Nil
      BY <2>2 DEF HasNil
    <3>2. i # 1
      BY <1>1, <3>1
    <3>3. QED
      BY <1>8, <3>1, <3>2 DEF HasNil
  <2>3. QED
    BY <2>1, <2>2
<1>12. QED
  BY <1>1, <1>3, <1>6, <1>10, <1>11 DEF t

LEMMA AppendFacts ==
    ASSUME NEW s \in Seq(Values), NEW v \in Values
    PROVE  LET t == Append(s, v) IN
           /\ Len(t) = Len(s) + 1 /\ DOMAIN s = 1 .. Len(s) /\ DOMAIN t = 1 .. Len(s) + 1
           /\ Len(s) \in Nat
           /\ \A i \in DOMAIN s : t[i] = s[i] /\ (Before(t, i) <=> Before(s, i))
           /\ t[Len(s) + 1] = v
           /\ HasNil(t) <=> HasNil(s) \/ v = Nil
           /\ Before(t, Len(s) + 1) <=> ~HasNil(s) /\ v # Nil
<1> DEFINE t == Append(s, v)
<1>1. /\ Len(t) = Len(s) + 1 /\ DOMAIN s = 1 .. Len(s) /\ DOMAIN t = 1 .. Len(s) + 1
      /\ Len(s) \in Nat /\ \A i \in DOMAIN s : t[i] = s[i]
      /\ t[Len(s) + 1] = v
  OBVIOUS
<1> HIDE DEF t
<1>2. \A i \in DOMAIN s : Before(t, i) <=> Before(s, i)
  <2> SUFFICES ASSUME NEW i \in DOMAIN s PROVE Before(t, i) <=> Before(s, i)
    OBVIOUS
  <2>1. \A j \in 1 .. i : j \in DOMAIN s
    BY <1>1
  <2>2. QED
    BY <1>1, <2>1 DEF Before
<1>3. HasNil(t) <=> HasNil(s) \/ v = Nil
  <2>1. DOMAIN t = DOMAIN s \cup {Len(s) + 1}
    BY <1>1
  <2>2. QED
    BY <1>1, <2>1 DEF HasNil
<1>4. Before(t, Len(s) + 1) <=> ~HasNil(s) /\ v # Nil
  <2>1. 1 .. Len(s) + 1 = DOMAIN t
    BY <1>1
  <2>2. QED
    BY <1>3, <2>1 DEF Before, HasNil
<1>5. QED
  BY <1>1, <1>2, <1>3, <1>4 DEF t

\* A line behind the lines listed so far is listed too.
LEMMA ListsAppend ==
    ASSUME NEW s \in Seq(Values), NEW T, Lists(s, T), ~HasNil(s),
           NEW v \in Lines, \A l \in T : l < v
    PROVE  Lists(Append(s, v), T \cup {v}) /\ ~HasNil(Append(s, v))
<1> DEFINE t == Append(s, v)
<1>0. v \in Values /\ v # Nil
  BY LineFacts DEF Values
<1>1. /\ DOMAIN s = 1 .. Len(s) /\ DOMAIN t = 1 .. Len(s) + 1 /\ Len(s) \in Nat
      /\ \A i \in DOMAIN s : t[i] = s[i] /\ (Before(t, i) <=> Before(s, i))
      /\ t[Len(s) + 1] = v /\ Before(t, Len(s) + 1) /\ ~HasNil(t)
  BY <1>0, AppendFacts
<1> HIDE DEF t
<1>2. \A i \in DOMAIN t : i \in DOMAIN s \/ i = Len(s) + 1
  BY <1>1
<1>3. \A i \in DOMAIN s : Before(s, i)
  BY <1>1 DEF Before, HasNil
<1>4. \A i \in DOMAIN s : t[i] \in T /\ t[i] < v
  BY <1>1, <1>3 DEF Lists
<1>5. ASSUME NEW i \in DOMAIN t, NEW j \in DOMAIN t, i < j PROVE t[i] < t[j]
  <2>1. i \in DOMAIN s
    BY <1>1, <1>5
  <2>2. CASE j \in DOMAIN s
    BY <1>1, <1>3, <1>5, <2>1, <2>2 DEF Lists
  <2>3. CASE j = Len(s) + 1
    BY <1>1, <1>4, <2>1, <2>3
  <2>4. QED
    BY <1>2, <2>2, <2>3
<1>6. \A l \in T : \E i \in DOMAIN s : Before(t, i) /\ t[i] = l
  BY <1>1 DEF Lists
<1>7. DOMAIN s \subseteq DOMAIN t /\ Len(s) + 1 \in DOMAIN t
  BY <1>1
<1>8. QED
  BY <1>1, <1>2, <1>4, <1>5, <1>6, <1>7 DEF Lists, t

\* Nothing behind a nil is listed.
LEMMA ListsBehindNil ==
    ASSUME NEW s \in Seq(Values), NEW T, Lists(s, T), NEW v \in Values, HasNil(s) \/ v = Nil
    PROVE  Lists(Append(s, v), T) /\ HasNil(Append(s, v))
<1> DEFINE t == Append(s, v)
<1>1. /\ DOMAIN s = 1 .. Len(s) /\ DOMAIN t = 1 .. Len(s) + 1 /\ Len(s) \in Nat
      /\ \A i \in DOMAIN s : t[i] = s[i] /\ (Before(t, i) <=> Before(s, i))
      /\ HasNil(t) /\ ~Before(t, Len(s) + 1)
  BY AppendFacts
<1> HIDE DEF t
<1>2. \A i \in DOMAIN t : Before(t, i) => i \in DOMAIN s
  BY <1>1
<1>3. DOMAIN s \subseteq DOMAIN t
  BY <1>1
<1>4. ASSUME NEW i \in DOMAIN t, NEW j \in DOMAIN t, i < j, Before(t, j) PROVE t[i] < t[j]
  <2>1. j \in DOMAIN s /\ i \in DOMAIN s
    BY <1>1, <1>2, <1>4
  <2>2. QED
    BY <1>1, <1>4, <2>1 DEF Lists
<1>5. QED
  BY <1>1, <1>2, <1>3, <1>4 DEF Lists, t

-----------------------------------------------------------------------------
(* What each channel is to carry.                                          *)

\* Lines that a stage up to c turns into nil.
NilledBy(c) == {m \in plan.nils : \E p \in 1 .. c : plan.kind[p] = "map" /\ Reaches(m, p)}

\* Lines to be sent on channel c before its end or its first nil.
Out(c) == {l \in Lines : Reaches(l, c + 1) /\ \A m \in NilledBy(c) : l < m}

LEMMA ChannelFacts ==
    /\ N \in Nat /\ Channels \subseteq Nat /\ 0 \in Channels /\ N \in Channels
    /\ \A p \in Stages : /\ p \in Channels /\ p - 1 \in Channels /\ p \in Processes
                         /\ p # 0 /\ p # Consumer /\ p \in Nat /\ p - 1 # p
    /\ \A p \in Processes : p = 0 \/ p \in Stages \/ p = Consumer
    /\ \A c \in Channels : /\ c \in Processes /\ c + 1 \in Processes /\ c # Consumer
                           /\ c + 1 # 0 /\ c # c + 1 /\ c + 1 - 1 = c
                           /\ (c = 0 \/ c \in Stages)
                           /\ (c + 1 \in Stages \/ c + 1 = Consumer)
    /\ Consumer \in Processes /\ 0 \in Processes /\ Consumer # 0 /\ Consumer - 1 = N
    /\ Consumer \notin Stages
BY PipelineAssumption DEF Channels, Stages, Processes, Consumer

\* The source reads the lines as they are.
LEMMA OutOfSource == plan \in Plans => Out(0) = Lines
<1>1. NilledBy(0) = {}
  BY DEF NilledBy
<1>2. ~Filtered(1)
  BY PipelineAssumption DEF Filtered, Stages
<1>3. QED
  BY <1>1, <1>2 DEF Out, Reaches

LEMMA PlanFacts ==
    ASSUME plan \in Plans
    PROVE  /\ plan.kept \subseteq Lines /\ plan.nils \subseteq Lines /\ plan.hit \subseteq Lines
           /\ \A p \in Stages : plan.kind[p] \in {"map", "filter"}
           /\ plan.consumer \in {"reduce", "every", "some"}
<1>1. plan.nils \subseteq Lines
  BY DEF Plans
<1>2. QED
  BY <1>1, PipelineAssumption DEF Plans

\* A filter sends the lines it keeps.
LEMMA OutOfFilter ==
    ASSUME plan \in Plans, NEW p \in Stages, plan.kind[p] = "filter"
    PROVE  Out(p) = Out(p - 1) \cap plan.kept
<1> USE PipelineAssumption
<1>1. p \in Nat /\ p - 1 \in Nat /\ p - 1 + 1 = p /\ Stages \subseteq Nat
  BY DEF Stages
<1>2. Filtered(p + 1)
  BY <1>1 DEF Filtered
<1>3. NilledBy(p) = NilledBy(p - 1)
  <2>1. \A q \in 1 .. p : q \in 1 .. p - 1 \/ q = p
    BY <1>1
  <2>2. 1 .. p - 1 \subseteq 1 .. p
    BY <1>1
  <2>3. \A m : (\E q \in 1 .. p : plan.kind[q] = "map" /\ Reaches(m, q))
               <=> (\E q \in 1 .. p - 1 : plan.kind[q] = "map" /\ Reaches(m, q))
    BY <2>1, <2>2
  <2>4. QED
    BY <2>3 DEF NilledBy
<1>4. \A l : Reaches(l, p + 1) <=> l \in plan.kept
  BY <1>2 DEF Reaches
<1>5. \A l : l \in plan.kept => Reaches(l, p)
  BY DEF Reaches
<1>6. QED
  BY <1>1, <1>3, <1>4, <1>5 DEF Out

\* A mapped function stops the stream at the first line it turns into nil.
LEMMA OutOfMap ==
    ASSUME plan \in Plans, NEW p \in Stages, plan.kind[p] = "map"
    PROVE  Out(p) = {l \in Out(p - 1) : \A m \in Out(p - 1) \cap plan.nils : l < m}
<1> USE PipelineAssumption
<1>1. p \in Nat /\ p - 1 \in Nat /\ p - 1 + 1 = p /\ Stages \subseteq Nat
  BY DEF Stages
<1>2. Filtered(p + 1) <=> Filtered(p)
  <2>1. \A q \in Stages : q < p + 1 <=> q < p \/ q = p
    BY <1>1
  <2>2. QED
    BY <2>1 DEF Filtered
<1>3. \A l : Reaches(l, p + 1) <=> Reaches(l, p)
  BY <1>2 DEF Reaches
<1>4. NilledBy(p) = NilledBy(p - 1) \cup {m \in plan.nils : Reaches(m, p)}
  <2>1. \A q \in 1 .. p : q \in 1 .. p - 1 \/ q = p
    BY <1>1
  <2>2. 1 .. p - 1 \subseteq 1 .. p /\ p \in 1 .. p
    BY <1>1 DEF Stages
  <2>3. \A m : (\E q \in 1 .. p : plan.kind[q] = "map" /\ Reaches(m, q))
               <=> Reaches(m, p) \/ \E q \in 1 .. p - 1 : plan.kind[q] = "map" /\ Reaches(m, q)
    BY <2>1, <2>2
  <2>4. QED
    BY <2>3 DEF NilledBy
<1>5. plan.nils \subseteq Lines /\ NilledBy(p - 1) \subseteq Lines /\ Lines \subseteq Nat
  BY PlanFacts DEF NilledBy, Lines
<1>6. ASSUME NEW l \in Out(p - 1), \A m \in Out(p - 1) \cap plan.nils : l < m,
             NEW m \in plan.nils, Reaches(m, p)
      PROVE  l < m
  <2>1. CASE m \in Out(p - 1)
    BY <1>6, <2>1
  <2>2. CASE m \notin Out(p - 1)
    <3>1. PICK k \in NilledBy(p - 1) : ~(m < k)
      BY <1>1, <1>5, <1>6, <2>2 DEF Out
    <3>2. l < k /\ l \in Lines
      BY <3>1 DEF Out
    <3>3. l \in Nat /\ m \in Nat /\ k \in Nat
      BY <1>5, <1>6, <3>1, <3>2
    <3>4. QED
      BY <3>1, <3>2, <3>3
  <2>3. QED
    BY <2>1, <2>2
<1>7. \A l \in Out(p - 1) : Reaches(l, p)
  BY <1>1 DEF Out
<1>8. ASSUME NEW l \in Lines
      PROVE  l \in Out(p) <=> l \in Out(p - 1) /\ \A m \in Out(p - 1) \cap plan.nils : l < m
  <2>1. ASSUME l \in Out(p) PROVE l \in Out(p - 1) /\ \A m \in Out(p - 1) \cap plan.nils : l < m
    BY <1>1, <1>3, <1>4, <1>7, <2>1 DEF Out
  <2>2. ASSUME l \in Out(p - 1), \A m \in Out(p - 1) \cap plan.nils : l < m PROVE l \in Out(p)
    <3>1. \A m \in NilledBy(p - 1) : l < m
      BY <2>2 DEF Out
    <3>2. \A m \in plan.nils : Reaches(m, p) => l < m
      BY <1>6, <2>2
    <3>3. QED
      BY <1>3, <1>4, <1>7, <2>2, <3>1, <3>2 DEF Out
  <2>3. QED
    BY <2>1, <2>2
<1>9. Out(p) \subseteq Lines /\ Out(p - 1) \subseteq Lines
  BY DEF Out
<1>10. QED
  BY <1>8, <1>9

LEMMA OutShrinks ==
    ASSUME plan \in Plans, NEW p \in Stages
    PROVE  Out(p) \subseteq Out(p - 1)
BY OutOfMap, OutOfFilter, PlanFacts

\* The last channel is to carry what the consumer is promised.
LEMMA OutToConsumer ==
    ASSUME plan \in Plans
    PROVE  Out(N) = BeforeNil
<1>1. NilledBy(N) = Nilled
  BY DEF NilledBy, Nilled, Stages
<1>2. Nilled \subseteq Lines /\ Lines \subseteq Nat
  BY PlanFacts DEF Nilled, Lines
<1>3. \A l \in Lines : ~(l < l)
  BY <1>2
<1>4. QED
  BY <1>1, <1>2, <1>3 DEF Out, BeforeNil, Mapped, Consumer

-----------------------------------------------------------------------------
(* The inductive invariant.  a[c] is the last line the receiver of channel *)
(* c has taken; what a nil stood for is not in the state, so the invariant *)
(* says that there is such an a.                                           *)

\* The process is still to receive, or on its way back to it.
Open(p) == pc[p] \in {"receive", "drain", "send", "sending"}

\* The line the value in the hand of a process comes from.
InHand(p, a) == IF p = 0 THEN val[0] ELSE a[p - 1]

\* The last line that process p has sent or dropped.
Dealt(p, a) ==
    IF pc[p] \in {"send", "sending"} THEN InHand(p, a) - 1
    ELSE IF pc[p] \in {"receive", "drain"} THEN a[p - 1] ELSE K

\* A stage is about to send what its function makes of the line it took last.
HandRight(p, a) ==
    pc[p] \in {"send", "sending"} =>
        /\ a[p - 1] \in Out(p - 1)
        /\ plan.kind[p] = "filter" => a[p - 1] \in plan.kept
        /\ val[p] = IF plan.kind[p] = "map" /\ a[p - 1] \in plan.nils THEN Nil ELSE a[p - 1]

\* Sent on channel c and not yet taken.
Waiting(c, a) == {l \in Out(c) : a[c] < l /\ l <= Dealt(c, a)}

\* A nil is in the buffer exactly from when the lines of the channel end there.
NilRight(c, a) ==
    /\ HasNil(buf[c]) => \A l \in Out(c) : l <= Dealt(c, a)
    /\ c \in Stages /\ plan.kind[c] = "map" =>
          \A m \in Out(c - 1) \cap plan.nils : m <= Dealt(c, a) => HasNil(buf[c])

\* While the receiver is open its sender is the only one to terminate channel c.
ChannelRight(c, a) ==
    Open(c + 1) => /\ a[c] <= Dealt(c, a)
                   /\ Lists(buf[c], Waiting(c, a))
                   /\ NilRight(c, a)
                   /\ pc[c + 1] = "drain" => done[c]
                   /\ done[c] => pc[c] = "exit"

\* The consumer goes on behind line l.
GoesOn(l) == /\ plan.consumer = "every" => l \in plan.hit
             /\ plan.consumer = "some" => l \notin plan.hit

ConsumerRight ==
    /\ pc[Consumer] # "exit" => result = "pending"
    /\ pc[Consumer] \in {"receive", "drain"} => \A i \in DOMAIN got : GoesOn(got[i])
    /\ pc[Consumer] = "close" => /\ got # << >> /\ ~GoesOn(got[Len(got)])
                                 /\ \A i \in DOMAIN got : i < Len(got) => GoesOn(got[i])

Places ==
    /\ pc[0] \notin {"receive", "drain"}
    /\ pc[0] \in {"send", "sending"} => val[0] \in Lines
    /\ pc[Consumer] \notin {"send", "sending"}

\* The answers the consumer has returned.
Answer ==
    /\ result = "folded" => BeforeNil \subseteq ToSet(got)
    /\ result = "all" => BeforeNil \subseteq plan.hit
    /\ result = "none" => BeforeNil \cap plan.hit = {}
    /\ result = "failed" => ~(BeforeNil \subseteq plan.hit)
    /\ result = "found" => got # << >> /\ Last(got) = Min(BeforeNil \cap plan.hit)

Flow(a) == /\ \A p \in Stages : HandRight(p, a)
           /\ \A c \in Channels : ChannelRight(c, a)
           /\ Lists(got, {l \in Out(N) : l <= a[N]})

Taken == [Channels -> 0 .. K]

IInv == /\ TypeOK /\ Places /\ ConsumerRight /\ Answer
        /\ \E a \in Taken : Flow(a)

LEMMA InvInit == Init => IInv
<1> SUFFICES ASSUME Init PROVE IInv
  OBVIOUS
<1> USE ChannelFacts, PipelineAssumption, LineFacts
<1> DEFINE a == [c \in Channels |-> 0]
<1>1. /\ \A p \in Processes : p # 0 => pc[p] = "receive"
      /\ pc[0] = (IF K = 0 THEN "close" ELSE "send") /\ (K > 0 => val[0] = 1)
      /\ pc \in [Processes -> {"receive", "close", "send"}]
      /\ got = << >> /\ result = "pending"
      /\ \A c \in Channels : buf[c] = << >> /\ done[c] = FALSE
  BY DEF Init
<1>2. val \in [Processes -> Lines \cup {Nil}]
  BY DEF Init, Lines
<1>3. TypeOK
  BY <1>1, <1>2 DEF Init, TypeOK
<1>4. Places /\ ConsumerRight /\ Answer
  BY <1>1 DEF Places, ConsumerRight, Answer, Lines
<1>5. a \in Taken
  BY DEF Taken
<1>6. \A s, T : s = << >> /\ T = {} => Lists(s, T)
  BY DEF Lists
<1>7. ASSUME NEW c \in Channels PROVE ChannelRight(c, a)
  <2>1. Dealt(c, a) = 0 /\ a[c] = 0
    <3>1. CASE c = 0
      BY <1>1, <3>1 DEF Dealt, InHand
    <3>2. CASE c \in Stages
      BY <1>1, <3>2 DEF Dealt
    <3>3. QED
      BY <3>1, <3>2
  <2>2. Waiting(c, a) = {}
    BY <2>1 DEF Waiting, Out
  <2>3. buf[c] = << >> /\ Lists(buf[c], Waiting(c, a))
    BY <1>1, <1>6, <2>2
  <2>4. ~HasNil(buf[c])
    BY <2>3 DEF HasNil
  <2>5. NilRight(c, a)
    <3>1. \A m \in Out(c - 1) : ~(m <= 0)
      BY DEF Out
    <3> HIDE DEF a
    <3>2. QED
      BY <2>1, <2>4, <3>1 DEF NilRight
  <2>6. QED
    BY <1>1, <2>1, <2>3, <2>5 DEF ChannelRight
<1>8. Lists(got, {l \in Out(N) : l <= a[N]})
  <2>1. {l \in Out(N) : l <= a[N]} = {}
    BY DEF Out
  <2>2. QED
    BY <1>1, <1>6, <2>1
<1>9. \A p \in Stages : HandRight(p, a)
  BY <1>1 DEF HandRight
<1>10. QED
  BY <1>3, <1>4, <1>5, <1>7, <1>8, <1>9 DEF IInv, Flow

-----------------------------------------------------------------------------
(* Steps.  A step of process p concerns its input p - 1 and its output p.  *)

LEMMA PlanUnchanged ==
    ASSUME plan' = plan
    PROVE  /\ \A c : Out(c)' = Out(c)
           /\ BeforeNil' = BeforeNil
           /\ \A l : GoesOn(l)' <=> GoesOn(l)
<1>1. \A l, p : Reaches(l, p)' <=> Reaches(l, p)
  BY DEF Reaches, Filtered
<1>2. \A c : NilledBy(c)' = NilledBy(c)
  BY <1>1 DEF NilledBy
<1>3. Nilled' = Nilled
  BY <1>1 DEF Nilled
<1>4. Mapped' = Mapped
  BY <1>1, <1>3 DEF Mapped
<1>5. \A c : Out(c)' = Out(c)
  BY <1>1, <1>2 DEF Out
<1>6. BeforeNil' = BeforeNil
  BY <1>3, <1>4 DEF BeforeNil
<1>7. QED
  BY <1>5, <1>6 DEF GoesOn

\* What Got does not say of the other processes.
StepOf(p, a, b) ==
    /\ p \in Processes
    /\ a \in Taken /\ b \in Taken
    /\ plan' = plan
    /\ \A q \in Processes \ {p} : pc'[q] = pc[q] /\ val'[q] = val[q]
    /\ \A c \in Channels \ {p - 1, p} : buf'[c] = buf[c]
    /\ \A c \in Channels \ {p} : done'[c] = done[c]
    /\ \A c \in Channels \ {p - 1} : b[c] = a[c]

\* The other processes and channels are as before.
LEMMA Elsewhere ==
    ASSUME NEW p, NEW a, NEW b, StepOf(p, a, b), Flow(a), Places
    PROVE  /\ \A c \in Channels \ {p} : Dealt(c, b)' = Dealt(c, a)
           /\ \A q \in Stages \ {p} : HandRight(q, b)'
           /\ \A c \in Channels \ {p - 1, p} : ChannelRight(c, b)'
<1> USE ChannelFacts, PlanUnchanged
<1>1. ASSUME NEW q \in Stages \ {p} PROVE a[q - 1] = b[q - 1]
  <2>1. q - 1 \in Channels \ {p - 1}
    BY DEF StepOf, Stages, Processes
  <2>2. QED
    BY <2>1 DEF StepOf
<1>2. \A q \in Processes \ {p} : pc'[q] = pc[q] /\ val'[q] = val[q]
  BY DEF StepOf
<1>3. \A c \in Channels \ {p} : InHand(c, b)' = InHand(c, a)
  BY <1>1, <1>2 DEF InHand
<1>4. \A c \in Channels \ {p} : Dealt(c, b)' = Dealt(c, a)
  <2> SUFFICES ASSUME NEW c \in Channels \ {p} PROVE Dealt(c, b)' = Dealt(c, a)
    OBVIOUS
  <2>1. pc'[c] = pc[c] /\ InHand(c, b)' = InHand(c, a)
    BY <1>2, <1>3
  <2>2. CASE c = 0
    BY <2>1, <2>2 DEF Dealt, Places
  <2>3. CASE c \in Stages
    BY <1>1, <2>1, <2>3 DEF Dealt
  <2>4. QED
    BY <2>2, <2>3
<1>5. \A q \in Stages \ {p} : HandRight(q, b)'
  <2> SUFFICES ASSUME NEW q \in Stages \ {p} PROVE HandRight(q, b)'
    OBVIOUS
  <2>1. pc'[q] = pc[q] /\ val'[q] = val[q] /\ a[q - 1] = b[q - 1] /\ HandRight(q, a)
    BY <1>1, <1>2 DEF Flow
  <2>2. plan' = plan /\ \A c : Out(c)' = Out(c)
    BY DEF StepOf
  <2>3. QED
    BY <2>1, <2>2 DEF HandRight
<1>6. \A c \in Channels \ {p - 1, p} : ChannelRight(c, b)'
  <2> SUFFICES ASSUME NEW c \in Channels \ {p - 1, p} PROVE ChannelRight(c, b)'
    OBVIOUS
  <2>1. c + 1 # p
    BY DEF StepOf, Processes, Channels
  <2>2. /\ pc'[c + 1] = pc[c + 1] /\ pc'[c] = pc[c] /\ buf'[c] = buf[c] /\ done'[c] = done[c]
        /\ b[c] = a[c] /\ Dealt(c, b)' = Dealt(c, a) /\ ChannelRight(c, a)
    BY <1>2, <1>4, <2>1 DEF StepOf, Flow
  <2>3. plan' = plan /\ \A x : Out(x)' = Out(x)
    BY DEF StepOf
  <2>4. Waiting(c, b)' = Waiting(c, a)
    BY <2>2, <2>3 DEF Waiting
  <2>5. NilRight(c, b)' <=> NilRight(c, a)
    BY <2>2, <2>3 DEF NilRight
  <2>6. QED
    BY <2>2, <2>4, <2>5 DEF ChannelRight, Open
<1>7. QED
  BY <1>4, <1>5, <1>6

\* What the sender's progress means for its channel when it sends nothing.
LEMMA NothingSent ==
    ASSUME NEW p \in Channels, NEW a, NEW b, StepOf(p, a, b), Flow(a), TypeOK,
           buf'[p] = buf[p], b[p] = a[p],
           Dealt(p, a) \in Int, Dealt(p, b)' \in Int, Dealt(p, a) <= Dealt(p, b)',
           \A l \in Out(p) : Dealt(p, a) < l => Dealt(p, b)' < l,
           p \in Stages /\ plan.kind[p] = "map" =>
              \A m \in Out(p - 1) \cap plan.nils : Dealt(p, a) < m => Dealt(p, b)' < m,
           done[p] => done'[p],
           Open(p + 1) /\ done'[p] => pc'[p] = "exit"
    PROVE  ChannelRight(p, b)'
<1> USE ChannelFacts
<1>1. pc'[p + 1] = pc[p + 1]
  BY DEF StepOf
<1>2. Open(p + 1)' <=> Open(p + 1)
  BY <1>1 DEF Open
<1> SUFFICES ASSUME Open(p + 1) PROVE ChannelRight(p, b)'
  BY <1>2 DEF ChannelRight
<1>3. /\ a[p] <= Dealt(p, a) /\ Lists(buf[p], Waiting(p, a)) /\ NilRight(p, a)
      /\ pc[p + 1] = "drain" => done[p]
  BY DEF Flow, ChannelRight
<1>4. a[p] \in Int /\ Out(p) \subseteq Int /\ Out(p - 1) \subseteq Int
  BY LineFacts DEF StepOf, Taken, Out
<1>5. plan' = plan /\ \A c : Out(c)' = Out(c)
  BY PlanUnchanged DEF StepOf
<1>6. \A l \in Out(p) : l <= Dealt(p, b)' <=> l <= Dealt(p, a)
  BY <1>4
<1>7. Waiting(p, b)' = Waiting(p, a)
  BY <1>5, <1>6 DEF Waiting
<1>8. p \in Stages /\ plan.kind[p] = "map" =>
         \A m \in Out(p - 1) \cap plan.nils : m <= Dealt(p, b)' <=> m <= Dealt(p, a)
  BY <1>4
<1>9. NilRight(p, b)'
  BY <1>3, <1>5, <1>6, <1>8 DEF NilRight
<1>10. a[p] <= Dealt(p, b)'
  BY <1>3, <1>4
<1>11. QED
  BY <1>1, <1>3, <1>7, <1>9, <1>10 DEF ChannelRight

\* The progress of a sender is a number of lines.
LEMMA DealtInt ==
    ASSUME TypeOK, Places, NEW a \in Taken, NEW c \in Channels
    PROVE  Dealt(c, a) \in Int
<1> USE ChannelFacts, LineFacts, PipelineAssumption
<1>1. \A x \in Channels : a[x] \in Int
  BY DEF Taken
<1>2. CASE c = 0
  BY <1>2 DEF Dealt, InHand, Places
<1>3. CASE c \in Stages
  BY <1>1, <1>3 DEF Dealt, InHand
<1>4. QED
  BY <1>2, <1>3

-----------------------------------------------------------------------------
(* Input.                                                                  *)

\* The value at the head of the buffer is the next line of the channel.
LEMMA NextLine ==
    ASSUME TypeOK, Places, NEW a \in Taken, Flow(a), NEW c \in Channels, Open(c + 1),
           buf[c] # << >>, Head(buf[c]) # Nil
    PROVE  LET v == Head(buf[c]) IN
           /\ v \in Out(c) /\ v \in Lines /\ a[c] < v /\ v <= Dealt(c, a)
           /\ \A l \in Out(c) : a[c] < l => v <= l
           /\ Lists(Tail(buf[c]), {l \in Out(c) : v < l /\ l <= Dealt(c, a)})
           /\ HasNil(Tail(buf[c])) <=> HasNil(buf[c])
<1> DEFINE v == Head(buf[c])
<1> USE LineFacts
<1>1. Lists(buf[c], Waiting(c, a)) /\ buf[c] \in Seq(Values)
  BY DEF Flow, ChannelRight, TypeOK, Values
<1>2. /\ v \in Waiting(c, a) /\ v \in Lines
      /\ \A l \in Waiting(c, a) : v <= l
      /\ Lists(Tail(buf[c]), Waiting(c, a) \ {v})
      /\ HasNil(Tail(buf[c])) <=> HasNil(buf[c])
  BY <1>1, ListsHead
<1> HIDE DEF v
<1>3. a[c] \in Int /\ Dealt(c, a) \in Int /\ Out(c) \subseteq Int /\ v \in Int
  BY <1>2, DealtInt DEF Taken, Out
<1>4. v \in Out(c) /\ a[c] < v /\ v <= Dealt(c, a)
  BY <1>2 DEF Waiting
<1>5. \A l \in Out(c) : a[c] < l => v <= l
  BY <1>2, <1>3, <1>4 DEF Waiting
<1>6. Waiting(c, a) \ {v} = {l \in Out(c) : v < l /\ l <= Dealt(c, a)}
  BY <1>3, <1>4, <1>5 DEF Waiting
<1>7. QED
  BY <1>2, <1>4, <1>5, <1>6 DEF v

\* At a nil, or at the end of a terminated channel, all lines have been taken.
LEMMA NoLineLeft ==
    ASSUME TypeOK, Places, NEW a \in Taken, Flow(a), NEW c \in Channels, Open(c + 1),
           \/ buf[c] # << >> /\ Head(buf[c]) = Nil
           \/ buf[c] = << >> /\ pc[c + 1] = "drain"
    PROVE  \A l \in Out(c) : l <= a[c]
<1> USE LineFacts, ChannelFacts
<1>1. Lists(buf[c], Waiting(c, a)) /\ buf[c] \in Seq(Values) /\ NilRight(c, a)
      /\ (pc[c + 1] = "drain" => pc[c] = "exit")
  BY DEF Flow, ChannelRight, TypeOK, Values
<1>2. Waiting(c, a) = {}
  BY <1>1, ListsNothing
<1>3. \A l \in Out(c) : l <= Dealt(c, a)
  <2>1. CASE buf[c] # << >> /\ Head(buf[c]) = Nil
    <3>1. 1 \in DOMAIN buf[c] /\ buf[c][1] = Nil
      BY <1>1, <2>1
    <3>2. QED
      BY <1>1, <3>1 DEF HasNil, NilRight
  <2>2. CASE pc[c + 1] = "drain"
    <3>1. Dealt(c, a) = K
      BY <1>1, <2>2 DEF Dealt
    <3>2. QED
      BY <3>1 DEF Out
  <2>3. QED
    BY <2>1, <2>2
<1>4. a[c] \in Int /\ Dealt(c, a) \in Int /\ Out(c) \subseteq Int
  BY DealtInt DEF Taken, Out
<1>5. QED
  BY <1>2, <1>3, <1>4 DEF Waiting

\* The input of p once the value at its head, line v, is taken.
LEMMA InputTaken ==
    ASSUME TypeOK, Places, NEW p \in Processes \ {0}, NEW a, NEW b, StepOf(p, a, b), Flow(a),
           Open(p), buf[p - 1] # << >>, Head(buf[p - 1]) # Nil,
           b[p - 1] = Head(buf[p - 1]), buf'[p - 1] = Tail(buf[p - 1]),
           pc'[p] # "drain"
    PROVE  ChannelRight(p - 1, b)'
<1> DEFINE c == p - 1
           v == Head(buf[c])
<1> USE ChannelFacts
<1>1. c \in Channels /\ c + 1 = p /\ c # p /\ a \in Taken
  BY DEF StepOf, Processes, Channels, Consumer
<1> HIDE DEF c
<1>2. /\ v <= Dealt(c, a)
      /\ Lists(Tail(buf[c]), {l \in Out(c) : v < l /\ l <= Dealt(c, a)})
      /\ HasNil(Tail(buf[c])) <=> HasNil(buf[c])
  BY <1>1, NextLine DEF c
<1>3. buf'[c] = Tail(buf[c]) /\ b[c] = v /\ done'[c] = done[c] /\ pc'[c] = pc[c]
  BY <1>1 DEF StepOf, c
<1>4. Dealt(c, b)' = Dealt(c, a)
  BY <1>1, Elsewhere
<1>5. plan' = plan /\ \A x : Out(x)' = Out(x)
  BY PlanUnchanged DEF StepOf
<1>6. NilRight(c, a) /\ (done[c] => pc[c] = "exit")
  BY <1>1 DEF Flow, ChannelRight
<1> HIDE DEF v
<1>7. Waiting(c, b)' = {l \in Out(c) : v < l /\ l <= Dealt(c, a)}
  BY <1>3, <1>4, <1>5 DEF Waiting
<1>8. NilRight(c, b)'
  BY <1>2, <1>3, <1>4, <1>5, <1>6 DEF NilRight
<1>9. ChannelRight(c, b)'
  BY <1>1, <1>2, <1>3, <1>4, <1>6, <1>7, <1>8 DEF ChannelRight
<1>10. QED
  BY <1>9 DEF c

\* What a stage does with a line.
LEMMA StageGotLine ==
    ASSUME TypeOK, NEW p \in Stages, NEW v \in Lines, StageGot(p, v)
    PROVE  /\ \A q \in Processes \ {p} : pc'[q] = pc[q] /\ val'[q] = val[q]
           /\ got' = got /\ result' = result
           /\ \/ /\ pc'[p] = "send"
                 /\ val'[p] = IF plan.kind[p] = "map" /\ v \in plan.nils THEN Nil ELSE v
                 /\ plan.kind[p] = "filter" => v \in plan.kept
              \/ /\ pc'[p] = "receive" /\ plan.kind[p] = "filter" /\ v \notin plan.kept
BY LineFacts, ChannelFacts DEF StageGot, MapGot, FilterGot, Goto, TypeOK

LEMMA StageTakesLine ==
    ASSUME TypeOK, Places, NEW p \in Stages, NEW a \in Taken, Flow(a),
           pc[p] \in {"receive", "drain"}, Take(p), Head(buf[p - 1]) # Nil
    PROVE  \E b \in Taken : Flow(b)'
<1> USE ChannelFacts, LineFacts
<1>1. p - 1 \in Channels /\ p \in Channels /\ p \in Processes \ {0} /\ Open(p) /\ p - 1 + 1 = p
      /\ p - 1 # p /\ p - 1 # N
  BY DEF Open, Stages
<1>2. /\ buf[p - 1] # << >> /\ buf' = [buf EXCEPT ![p - 1] = Tail(@)]
      /\ plan' = plan /\ done' = done
  BY DEF Take
<1>0. /\ Head(buf[p - 1]) \in Lines /\ Head(buf[p - 1]) \in Out(p - 1)
      /\ a[p - 1] < Head(buf[p - 1]) /\ Head(buf[p - 1]) <= Dealt(p - 1, a)
      /\ \A l \in Out(p - 1) : a[p - 1] < l => Head(buf[p - 1]) <= l
  <2> DEFINE c == p - 1
  <2>1. c \in Channels /\ Open(c + 1) /\ buf[c] # << >> /\ Head(buf[c]) # Nil
    BY <1>1, <1>2
  <2> HIDE DEF c
  <2>2. /\ Head(buf[c]) \in Lines /\ Head(buf[c]) \in Out(c)
        /\ a[c] < Head(buf[c]) /\ Head(buf[c]) <= Dealt(c, a)
        /\ \A l \in Out(c) : a[c] < l => Head(buf[c]) <= l
    BY <2>1, NextLine
  <2>3. QED
    BY <2>2 DEF c
<1>3. PICK v \in Lines : v = Head(buf[p - 1])
  BY <1>0
<1>4. /\ v \in Out(p - 1) /\ a[p - 1] < v /\ v <= Dealt(p - 1, a)
      /\ \A l \in Out(p - 1) : a[p - 1] < l => v <= l
  BY <1>0, <1>3
<1>5. StageGot(p, v)
  BY <1>1, <1>3 DEF Take, Got, ConsumerGot
<1> DEFINE b == [a EXCEPT ![p - 1] = v]
<1>6. b \in Taken /\ b[p - 1] = v /\ \A c \in Channels \ {p - 1} : b[c] = a[c]
  BY <1>1, <1>3 DEF Taken
<1> HIDE DEF b
<1>7. /\ buf'[p - 1] = Tail(buf[p - 1]) /\ \A c \in Channels \ {p - 1} : buf'[c] = buf[c]
  BY <1>1, <1>2 DEF TypeOK
<1>8. StepOf(p, a, b)
  BY <1>1, <1>2, <1>5, <1>6, <1>7, StageGotLine DEF StepOf
<1>9. /\ \A q \in Stages \ {p} : HandRight(q, b)'
      /\ \A c \in Channels \ {p - 1, p} : ChannelRight(c, b)'
  BY <1>8, Elsewhere
<1>10. \/ /\ pc'[p] = "send"
          /\ val'[p] = IF plan.kind[p] = "map" /\ v \in plan.nils THEN Nil ELSE v
          /\ plan.kind[p] = "filter" => v \in plan.kept
       \/ /\ pc'[p] = "receive" /\ plan.kind[p] = "filter" /\ v \notin plan.kept
  BY <1>5, StageGotLine
<1>11. ChannelRight(p - 1, b)'
  BY <1>1, <1>2, <1>3, <1>6, <1>7, <1>8, <1>10, InputTaken
<1>12. HandRight(p, b)'
  <2>1. \A c : Out(c)' = Out(c)
    BY <1>2, PlanUnchanged
  <2>2. QED
    BY <1>2, <1>4, <1>6, <1>10, <2>1 DEF HandRight
<1>13. ChannelRight(p, b)'
  <2>0. \A x \in Channels : a[x] \in Int /\ Out(x) \subseteq Int
    BY DEF Taken, Out
  <2>1. Dealt(p, a) = a[p - 1] /\ a[p - 1] \in Int /\ v \in Int
    BY <1>1, <2>0 DEF Dealt
  <2>2. Out(p) \subseteq Out(p - 1) /\ Out(p - 1) \subseteq Int
    BY <1>1, <2>0, OutShrinks DEF TypeOK
  <2>3. Dealt(p, b)' = IF pc'[p] = "send" THEN v - 1 ELSE v
    BY <1>6, <1>10 DEF Dealt, InHand
  <2>4. a[p - 1] <= Dealt(p, b)' /\ Dealt(p, b)' \in Int
    BY <1>4, <2>1, <2>3
  <2>5. \A l \in Out(p - 1) : a[p - 1] < l => v - 1 < l /\ (l = v \/ v < l)
    BY <1>4, <2>1, <2>2
  <2>6. \A l \in Out(p) : Dealt(p, a) < l => Dealt(p, b)' < l
    <3>1. CASE pc'[p] = "send"
      BY <2>1, <2>2, <2>3, <2>5, <3>1
    <3>2. CASE pc'[p] = "receive"
      <4>1. v \notin Out(p)
        BY <1>10, <3>2, OutOfFilter DEF TypeOK
      <4>2. QED
        BY <2>1, <2>2, <2>3, <2>5, <3>2, <4>1
    <3>3. QED
      BY <1>10, <3>1, <3>2
  <2>7. plan.kind[p] = "map" =>
           \A m \in Out(p - 1) \cap plan.nils : Dealt(p, a) < m => Dealt(p, b)' < m
    BY <1>10, <2>1, <2>3, <2>5
  <2>8. Open(p + 1) => ~done[p]
    BY <1>1 DEF Flow, ChannelRight
  <2>9. QED
    BY <1>1, <1>2, <1>6, <1>7, <1>8, <2>1, <2>4, <2>6, <2>7, <2>8, NothingSent
<1>14. Lists(got', {l \in Out(N)' : l <= b[N]})
  <2>1. got' = got /\ Out(N)' = Out(N) /\ b[N] = a[N]
    BY <1>1, <1>2, <1>5, <1>6, StageGotLine, PlanUnchanged
  <2>2. QED
    BY <2>1 DEF Flow
<1>15. QED
  BY <1>6, <1>9, <1>11, <1>12, <1>13, <1>14 DEF Flow

\* A stage sees a nil, or the end of its input.
LEMMA StageEnds ==
    ASSUME TypeOK, Places, NEW p \in Stages, NEW a \in Taken, Flow(a),
           pc[p] \in {"receive", "drain"},
           \/ Take(p) /\ Head(buf[p - 1]) = Nil
           \/ EndOfInput(p)
    PROVE  Flow(a)'
<1> USE ChannelFacts, LineFacts
<1>1. p - 1 \in Channels /\ p \in Channels /\ p \in Processes \ {0} /\ Open(p) /\ p - 1 + 1 = p
      /\ p - 1 # p /\ p - 1 # N
  BY DEF Open, Stages
<1>2. /\ plan' = plan /\ done' = done /\ StageGot(p, Nil)
      /\ \A c \in Channels \ {p - 1} : buf'[c] = buf[c]
  BY <1>1 DEF Take, EndOfInput, Got, ConsumerGot, TypeOK
<1>3. pc' = [pc EXCEPT ![p] = "close"] /\ val' = val /\ got' = got
  BY <1>2 DEF StageGot, MapGot, FilterGot, Goto
<1>4. pc'[p] = "close" /\ \A q \in Processes \ {p} : pc'[q] = pc[q] /\ val'[q] = val[q]
  BY <1>1, <1>3 DEF TypeOK
<1>5. StepOf(p, a, a)
  BY <1>1, <1>2, <1>4 DEF StepOf
<1>6. /\ \A q \in Stages \ {p} : HandRight(q, a)'
      /\ \A c \in Channels \ {p - 1, p} : ChannelRight(c, a)'
  BY <1>5, Elsewhere
<1>7. HandRight(p, a)'
  BY <1>4 DEF HandRight
<1>8. ChannelRight(p - 1, a)'
  BY <1>1, <1>4 DEF ChannelRight, Open
<1>9. \A l \in Out(p - 1) : l <= a[p - 1]
  <2> DEFINE c == p - 1
  <2>1. c \in Channels /\ Open(c + 1)
        /\ (\/ buf[c] # << >> /\ Head(buf[c]) = Nil
            \/ buf[c] = << >> /\ pc[c + 1] = "drain")
    BY <1>1 DEF Take, EndOfInput
  <2> HIDE DEF c
  <2>2. \A l \in Out(c) : l <= a[c]
    BY <2>1, NoLineLeft
  <2>3. QED
    BY <2>2 DEF c
<1>10. ChannelRight(p, a)'
  <2>0. \A x \in Channels : a[x] \in 0 .. K /\ Out(x) \subseteq Int
    BY DEF Taken, Out
  <2>1. Dealt(p, a) = a[p - 1] /\ a[p - 1] \in Int /\ a[p - 1] <= K
    <3>1. a[p - 1] \in 0 .. K /\ K \in Nat
      BY <1>1, <2>0, PipelineAssumption
    <3>2. Dealt(p, a) = a[p - 1]
      BY <1>1 DEF Dealt
    <3>3. QED
      BY <3>1, <3>2
  <2>2. Dealt(p, a)' = K /\ K \in Int
    BY <1>4, PipelineAssumption DEF Dealt
  <2>3. Out(p) \subseteq Out(p - 1) /\ Out(p - 1) \subseteq Int
    BY <1>1, <2>0, OutShrinks DEF TypeOK
  <2>4. \A l \in Out(p - 1) : ~(a[p - 1] < l)
    BY <1>9, <2>1, <2>3
  <2>5. \A l \in Out(p) : Dealt(p, a) < l => Dealt(p, a)' < l
    BY <2>1, <2>3, <2>4
  <2>6. \A m \in Out(p - 1) \cap plan.nils : Dealt(p, a) < m => Dealt(p, a)' < m
    BY <2>1, <2>4
  <2>7. Open(p + 1) => ~done[p]
    BY <1>1 DEF Flow, ChannelRight
  <2>8. QED
    BY <1>1, <1>2, <1>5, <2>1, <2>2, <2>5, <2>6, <2>7, NothingSent
<1>11. Lists(got', {l \in Out(N)' : l <= a[N]})
  <2>1. Out(N)' = Out(N)
    BY <1>2, PlanUnchanged
  <2>2. QED
    BY <1>3, <2>1 DEF Flow
<1>12. QED
  BY <1>6, <1>7, <1>8, <1>10, <1>11 DEF Flow

\* What is said of a buffer stays true as long as nobody touches it.
LEMMA BufferUnchanged ==
    ASSUME plan' = plan, NEW c \in Channels, NEW a, buf'[c] = buf[c],
           Dealt(c, a)' = Dealt(c, a)
    PROVE  Waiting(c, a)' = Waiting(c, a) /\ (NilRight(c, a)' <=> NilRight(c, a))
<1>1. \A d : Out(d)' = Out(d)
  BY PlanUnchanged
<1>2. QED
  BY <1>1 DEF Waiting, NilRight

\* A receiver sees that its channel is terminated and goes to drain it.
LEMMA ReceiverSawDone ==
    ASSUME TypeOK, Places, NEW p \in Processes \ {0}, NEW a \in Taken, Flow(a), SawDone(p)
    PROVE  Flow(a)'
<1> USE ChannelFacts
<1>1. /\ pc[p] = "receive" /\ done[p - 1] /\ pc' = [pc EXCEPT ![p] = "drain"]
      /\ UNCHANGED <<plan, buf, done, val, got, result>>
  BY DEF SawDone, Goto
<1>2. pc'[p] = "drain" /\ \A q \in Processes \ {p} : pc'[q] = pc[q]
  BY <1>1 DEF TypeOK
<1>3. StepOf(p, a, a)
  BY <1>1, <1>2 DEF StepOf
<1>4. p - 1 \in Channels /\ p - 1 + 1 = p /\ p - 1 # p
  BY DEF Channels, Processes, Consumer
<1>5. /\ \A c \in Channels \ {p} : Dealt(c, a)' = Dealt(c, a)
      /\ \A q \in Stages \ {p} : HandRight(q, a)'
      /\ \A c \in Channels \ {p - 1, p} : ChannelRight(c, a)'
  BY <1>3, Elsewhere
<1>6. plan' = plan /\ \A c : Out(c)' = Out(c)
  BY <1>1, PlanUnchanged
<1>7. \A c \in Channels : Dealt(c, a)' = Dealt(c, a)
  BY <1>1, <1>2, <1>5 DEF Dealt
<1>8. \A c \in Channels : Waiting(c, a)' = Waiting(c, a) /\ (NilRight(c, a)' <=> NilRight(c, a))
  BY <1>1, <1>7, BufferUnchanged
<1>9. \A c \in Channels : Open(c + 1)' => Open(c + 1)
  BY <1>1, <1>2 DEF Open
<1>10. ASSUME NEW c \in Channels, Open(c + 1)' PROVE ChannelRight(c, a)'
  <2>1. ChannelRight(c, a) /\ Open(c + 1)
    BY <1>9, <1>10 DEF Flow
  <2>2. pc'[c + 1] = "drain" => done'[c]
    BY <1>1, <1>2, <2>1 DEF ChannelRight
  <2>3. done'[c] => pc'[c] = "exit"
    BY <1>1, <1>2, <2>1 DEF ChannelRight
  <2>4. QED
    BY <1>1, <1>7, <1>8, <2>1, <2>2, <2>3 DEF ChannelRight
<1>11. \A c \in Channels : ChannelRight(c, a)'
  BY <1>10 DEF ChannelRight
<1>12. \A q \in Stages : HandRight(q, a)'
  BY <1>2, <1>5 DEF HandRight
<1>13. QED
  BY <1>1, <1>6, <1>11, <1>12 DEF Flow

-----------------------------------------------------------------------------
(* Output.                                                                 *)

\* The input of a stage that sends or closes.
LEMMA InputUntouched ==
    ASSUME Places, NEW p \in Stages, NEW a, StepOf(p, a, a), Flow(a),
           buf'[p - 1] = buf[p - 1], Open(p)' => Open(p), pc'[p] # "drain"
    PROVE  ChannelRight(p - 1, a)'
<1> DEFINE c == p - 1
<1> USE ChannelFacts
<1>1. c \in Channels /\ c + 1 = p /\ c # p
  BY DEF Stages
<1> HIDE DEF c
<1>2. buf'[c] = buf[c] /\ done'[c] = done[c] /\ pc'[c] = pc[c] /\ plan' = plan
  BY <1>1 DEF StepOf, c
<1>3. Dealt(c, a)' = Dealt(c, a)
  BY <1>1, Elsewhere
<1>4. \A x : Out(x)' = Out(x)
  BY <1>2, PlanUnchanged
<1>5. Waiting(c, a)' = Waiting(c, a) /\ (NilRight(c, a)' <=> NilRight(c, a))
  BY <1>2, <1>3, <1>4 DEF Waiting, NilRight
<1>6. ChannelRight(c, a)'
  BY <1>1, <1>2, <1>3, <1>5 DEF Flow, ChannelRight
<1>7. QED
  BY <1>6 DEF c

\* A sender finds out whether its channel is terminated, or terminates it.
LEMMA SenderChecks ==
    ASSUME TypeOK, Places, NEW p \in Channels, NEW a \in Taken, Flow(a),
           SendCheck(p) \/ SendRefused(p) \/ CloseOutput(p)
    PROVE  Flow(a)'
<1> USE ChannelFacts
<1>1. /\ plan' = plan /\ buf' = buf /\ val' = val /\ got' = got
      /\ \A c \in Channels \ {p} : done'[c] = done[c]
      /\ done[p] => done'[p]
  BY DEF SendCheck, SendRefused, CloseOutput, TypeOK
<1>2. /\ \A q \in Processes \ {p} : pc'[q] = pc[q]
      /\ \/ pc[p] = "send" /\ pc'[p] = "sending" /\ ~done'[p]
         \/ pc[p] \in {"send", "sending"} /\ pc'[p] = "exit" /\ done[p]
         \/ pc[p] = "close" /\ pc'[p] = "exit"
  BY DEF SendCheck, SendRefused, CloseOutput, Goto, TypeOK
<1>3. StepOf(p, a, a)
  BY <1>1, <1>2 DEF StepOf
<1>4. /\ \A q \in Stages \ {p} : HandRight(q, a)'
      /\ \A c \in Channels \ {p - 1, p} : ChannelRight(c, a)'
  BY <1>3, Elsewhere
<1>5. \A c : Out(c)' = Out(c)
  BY <1>1, PlanUnchanged
<1>6. p \in Stages => ChannelRight(p - 1, a)'
  BY <1>1, <1>2, <1>3, InputUntouched DEF Open
<1>7. p \in Stages => HandRight(p, a)'
  BY <1>1, <1>2, <1>5 DEF Flow, HandRight
<1>8. ChannelRight(p, a)'
  <2>1. Open(p + 1)' <=> Open(p + 1)
    BY <1>2 DEF Open
  <2>2. CASE pc'[p] = "exit" /\ pc[p] # "close"
    <3>1. ~Open(p + 1)
      BY <1>2, <2>2 DEF Flow, ChannelRight
    <3>2. QED
      BY <2>1, <3>1 DEF ChannelRight
  <2>3. CASE \/ pc[p] = "send" /\ pc'[p] = "sending" /\ ~done'[p]
             \/ pc[p] = "close" /\ pc'[p] = "exit"
    <3>1. Dealt(p, a)' = Dealt(p, a)
      BY <1>1, <2>3 DEF Dealt, InHand
    <3>2. Dealt(p, a) \in Int
      BY DealtInt
    <3>3. Open(p + 1) /\ done'[p] => pc'[p] = "exit"
      BY <2>3
    <3>4. QED
      BY <1>1, <1>3, <3>1, <3>2, <3>3, NothingSent
  <2>4. \/ pc'[p] = "exit" /\ pc[p] # "close"
        \/ pc[p] = "send" /\ pc'[p] = "sending" /\ ~done'[p]
        \/ pc[p] = "close" /\ pc'[p] = "exit"
    BY <1>2
  <2>5. QED
    BY <2>2, <2>3, <2>4
<1>9. \A c \in Channels : c = p - 1 => p \in Stages
  BY DEF Channels
<1>10. Lists(got', {l \in Out(N)' : l <= a[N]})
  BY <1>1, <1>5 DEF Flow
<1>11. QED
  BY <1>4, <1>6, <1>7, <1>8, <1>9, <1>10 DEF Flow

\* The line in the hand of a sender goes into the buffer of its channel.
LEMMA SenderSends ==
    ASSUME TypeOK, Places, NEW p \in Channels, NEW a \in Taken, Flow(a), Send(p)
    PROVE  Flow(a)'
<1> USE ChannelFacts, LineFacts
<1>1. /\ pc[p] = "sending" /\ buf' = [buf EXCEPT ![p] = Append(@, val[p])]
      /\ plan' = plan /\ done' = done /\ got' = got
      /\ \A q \in Processes \ {p} : pc'[q] = pc[q] /\ val'[q] = val[q]
      /\ p # 0 => pc'[p] = "receive" /\ val' = val
      /\ p = 0 => \/ pc'[0] = "close" /\ val[0] = K
                  \/ pc'[0] = "send" /\ val'[0] = val[0] + 1
  BY DEF Send, AfterSend, Goto, TypeOK
<1>2. buf'[p] = Append(buf[p], val[p]) /\ \A c \in Channels \ {p} : buf'[c] = buf[c]
  BY <1>1 DEF TypeOK
<1>3. StepOf(p, a, a)
  BY <1>1, <1>2 DEF StepOf
<1>4. /\ \A q \in Stages \ {p} : HandRight(q, a)'
      /\ \A c \in Channels \ {p - 1, p} : ChannelRight(c, a)'
  BY <1>3, Elsewhere
<1>5. \A c : Out(c)' = Out(c)
  BY <1>1, PlanUnchanged
<1>6. p \in Stages => ChannelRight(p - 1, a)'
  BY <1>1, <1>2, <1>3, InputUntouched DEF Open
<1>7. p \in Stages => HandRight(p, a)'
  BY <1>1 DEF HandRight
<1>8. ChannelRight(p, a)'
  <2>1. (Open(p + 1)' <=> Open(p + 1)) /\ pc'[p + 1] = pc[p + 1]
    BY <1>1 DEF Open
  <2> SUFFICES ASSUME Open(p + 1) PROVE ChannelRight(p, a)'
    BY <2>1 DEF ChannelRight
  <2>2. /\ a[p] <= Dealt(p, a) /\ Lists(buf[p], Waiting(p, a)) /\ NilRight(p, a)
        /\ pc[p + 1] # "drain" /\ ~done[p]
    BY <1>1 DEF Flow, ChannelRight
  <2>3. PICK d \in Lines : d = InHand(p, a)
    <3>1. CASE p = 0
      BY <1>1, <3>1 DEF Places, InHand
    <3>2. CASE p \in Stages
      BY <1>1, <3>2 DEF Flow, HandRight, InHand, Out
    <3>3. QED
      BY <3>1, <3>2
  <2>4. Dealt(p, a) = d - 1 /\ Dealt(p, a)' = d
    <3>1. CASE p = 0
      BY <1>1, <2>3, <3>1 DEF Dealt, InHand
    <3>2. CASE p \in Stages
      BY <1>1, <2>3, <3>2 DEF Dealt, InHand
    <3>3. QED
      BY <3>1, <3>2
  <2>5. a[p] \in Int /\ d \in Int /\ Out(p) \subseteq Int
    BY DEF Taken, Out
  <2>6. \A l \in Int : l <= d <=> l <= d - 1 \/ l = d
    BY <2>5
  <2>7. buf[p] \in Seq(Values) /\ val[p] \in Values
    BY DEF TypeOK, Values
  \* What the value is, and what it means for the nils of the channel.
  <2>8. /\ val[p] = Nil => \A l \in Out(p) : l <= d - 1
        /\ val[p] # Nil => val[p] = d /\ (~HasNil(buf[p]) => d \in Out(p))
        /\ p \in Stages /\ plan.kind[p] = "map" /\ d \in plan.nils => val[p] = Nil
    <3>1. CASE p = 0
      <4>1. val[p] = d /\ d # Nil /\ p \notin Stages
        BY <2>3, <3>1 DEF InHand, Stages
      <4>2. d \in Out(p)
        BY <3>1, OutOfSource DEF TypeOK
      <4>3. QED
        BY <4>1, <4>2
    <3>2. CASE p \in Stages
      <4>1. /\ d = a[p - 1] /\ d \in Out(p - 1)
            /\ plan.kind[p] = "filter" => d \in plan.kept
            /\ val[p] = IF plan.kind[p] = "map" /\ d \in plan.nils THEN Nil ELSE d
        BY <1>1, <2>3, <3>2 DEF Flow, HandRight, InHand
      <4>2. CASE plan.kind[p] = "filter"
        <5>1. Out(p) = Out(p - 1) \cap plan.kept
          BY <3>2, <4>2, OutOfFilter DEF TypeOK
        <5>2. d \in Out(p) /\ val[p] = d /\ d # Nil
          BY <2>5, <4>1, <4>2, <5>1
        <5>3. QED
          BY <4>2, <5>2
      <4>3. CASE plan.kind[p] = "map"
        <5>1. Out(p) = {l \in Out(p - 1) : \A m \in Out(p - 1) \cap plan.nils : l < m}
          BY <3>2, <4>3, OutOfMap DEF TypeOK
        <5>2. Out(p - 1) \subseteq Int
          BY DEF Out
        <5>3. CASE d \in plan.nils
          <6>1. \A l \in Out(p) : l < d
            BY <4>1, <5>1, <5>3
          <6>2. QED
            BY <2>5, <4>1, <4>3, <5>3, <6>1
        <5>4. CASE d \notin plan.nils
          <6>1. ASSUME ~HasNil(buf[p]), NEW m \in Out(p - 1) \cap plan.nils PROVE d < m
            <7>1. ~(m <= d - 1) /\ m # d
              BY <2>2, <2>4, <3>2, <4>3, <5>4, <6>1 DEF NilRight
            <7>2. QED
              BY <2>5, <5>2, <7>1
          <6>2. QED
            BY <4>1, <5>1, <5>4, <6>1
        <5>5. QED
          BY <5>3, <5>4
      <4>4. QED
        BY <3>2, <4>2, <4>3, PlanFacts DEF TypeOK
    <3>3. QED
      BY <3>1, <3>2
  <2>9. Lists(buf'[p], {l \in Out(p) : a[p] < l /\ l <= d})
        /\ (HasNil(buf'[p]) <=> HasNil(buf[p]) \/ val[p] = Nil)
    <3> DEFINE T == {l \in Out(p) : a[p] < l /\ l <= d}
    <3>1. HasNil(buf'[p]) <=> HasNil(buf[p]) \/ val[p] = Nil
      BY <1>2, <2>7, AppendFacts
    <3>2. CASE HasNil(buf[p]) \/ val[p] = Nil
      <4>1. \A l \in Out(p) : l <= d - 1
        BY <2>2, <2>4, <2>8, <3>2 DEF NilRight
      <4>2. T = Waiting(p, a)
        BY <2>4, <2>5, <2>6, <4>1 DEF Waiting
      <4>3. Lists(Append(buf[p], val[p]), T)
        BY <2>2, <2>7, <3>2, <4>2, ListsBehindNil
      <4>4. QED
        BY <1>2, <3>1, <4>3
    <3>3. CASE ~HasNil(buf[p]) /\ val[p] # Nil
      <4>1. val[p] = d /\ d \in Out(p) /\ a[p] < d
        BY <2>2, <2>4, <2>5, <2>8, <3>3
      <4>2. T = Waiting(p, a) \cup {d}
        BY <2>4, <2>5, <2>6, <4>1 DEF Waiting
      <4>3. \A l \in Waiting(p, a) : l < d
        BY <2>4, <2>5 DEF Waiting
      <4>4. Lists(Append(buf[p], d), Waiting(p, a) \cup {d})
        BY <2>2, <2>7, <3>3, <4>3, ListsAppend
      <4>5. QED
        BY <1>2, <3>1, <4>1, <4>2, <4>4
    <3>4. QED
      BY <3>2, <3>3
  <2>10. Waiting(p, a)' = {l \in Out(p) : a[p] < l /\ l <= d}
    BY <1>5, <2>4 DEF Waiting
  <2>11. NilRight(p, a)'
    <3>1. HasNil(buf[p]) \/ val[p] = Nil => \A l \in Out(p) : l <= d
      BY <2>2, <2>4, <2>5, <2>6, <2>8 DEF NilRight
    <3>2. ASSUME p \in Stages, plan.kind[p] = "map",
                 NEW m \in Out(p - 1) \cap plan.nils, m <= d
          PROVE  HasNil(buf'[p])
      <4>1. m <= d - 1 \/ m = d
        BY <2>6, <3>2 DEF Out
      <4>2. QED
        BY <2>2, <2>4, <2>8, <2>9, <3>2, <4>1 DEF NilRight
    <3>3. QED
      BY <1>1, <1>5, <2>4, <2>9, <3>1, <3>2 DEF NilRight
  <2>12. a[p] <= d
    BY <2>2, <2>4, <2>5
  <2>13. QED
    BY <1>1, <2>1, <2>2, <2>4, <2>9, <2>10, <2>11, <2>12 DEF ChannelRight
<1>9. \A c \in Channels : c = p - 1 => p \in Stages
  BY DEF Channels
<1>10. Lists(got', {l \in Out(N)' : l <= a[N]})
  BY <1>1, <1>5 DEF Flow
<1>11. QED
  BY <1>4, <1>6, <1>7, <1>8, <1>9, <1>10 DEF Flow

-----------------------------------------------------------------------------
(* The consumer.                                                           *)

LEMMA ConsumerGotFacts ==
    ASSUME TypeOK, NEW v \in Values, ConsumerGot(Consumer, v)
    PROVE  /\ \A q \in Processes \ {Consumer} : pc'[q] = pc[q]
           /\ val' = val
           /\ v = Nil => /\ got' = got /\ pc'[Consumer] = "exit"
                        /\ result' = CASE plan.consumer = "reduce" -> "folded"
                                        [] plan.consumer = "every" -> "all"
                                        [] plan.consumer = "some" -> "none"
           /\ v # Nil => /\ got' = Append(got, v) /\ result' = result
                        /\ pc'[Consumer] = IF GoesOn(v) THEN "receive" ELSE "close"
<1> USE ChannelFacts
<1>0. ASSUME NEW w, Goto(Consumer, w)
      PROVE  pc'[Consumer] = w /\ \A q \in Processes \ {Consumer} : pc'[q] = pc[q]
  BY <1>0 DEF Goto, TypeOK
<1>1. CASE ReduceGot(v)
  BY <1>0, <1>1 DEF ConsumerGot, ReduceGot, GoesOn
<1>2. CASE EveryGot(v)
  BY <1>0, <1>2 DEF ConsumerGot, EveryGot, GoesOn
<1>3. CASE SomeGot(v)
  BY <1>0, <1>3 DEF ConsumerGot, SomeGot, GoesOn
<1>4. QED
  BY <1>1, <1>2, <1>3 DEF ConsumerGot

\* There is no nil in got, so all of it is listed.
LEMMA GotIsListed ==
    ASSUME TypeOK, NEW T, Lists(got, T)
    PROVE  /\ ToSet(got) = T /\ ~HasNil(got) /\ got \in Seq(Values)
           /\ \A i, j \in DOMAIN got : i < j => got[i] < got[j]
<1>1. got \in Seq(Values) /\ got \in Seq(Lines) /\ DOMAIN got = 1 .. Len(got) /\ Len(got) \in Nat
  BY DEF TypeOK, Values
<1>2. \A i \in DOMAIN got : got[i] \in Lines
  BY <1>1
<1>3. ~HasNil(got)
  BY <1>2, LineFacts DEF HasNil
<1>4. \A i \in DOMAIN got : Before(got, i)
  BY <1>1, <1>3 DEF Before, HasNil
<1>5. QED
  BY <1>1, <1>3, <1>4 DEF Lists, ToSet

\* The consumer folds or tests the next line.
LEMMA ConsumerTakesLine ==
    ASSUME IInv, NEW a \in Taken, Flow(a),
           pc[Consumer] \in {"receive", "drain"}, Take(Consumer), Head(buf[N]) # Nil
    PROVE  (\E b \in Taken : Flow(b)') /\ ConsumerRight' /\ Answer'
<1> USE ChannelFacts, LineFacts
<1>1. TypeOK /\ Places /\ ConsumerRight /\ Answer /\ Open(Consumer) /\ N + 1 = Consumer
  BY DEF IInv, Open, Consumer
<1>2. /\ buf[N] # << >> /\ buf' = [buf EXCEPT ![N] = Tail(@)]
      /\ plan' = plan /\ done' = done
  BY DEF Take
<1>3. /\ Head(buf[N]) \in Lines /\ Head(buf[N]) \in Out(N)
      /\ a[N] < Head(buf[N]) /\ \A l \in Out(N) : a[N] < l => Head(buf[N]) <= l
  <2>1. N \in Channels /\ Open(N + 1)
    BY <1>1
  <2> HIDE ChannelFacts, LineFacts
  <2>2. QED
    BY <1>1, <1>2, <2>1, NextLine
<1>4. PICK v \in Lines : v = Head(buf[N])
  BY <1>3
<1>5. ConsumerGot(Consumer, v)
  BY <1>4 DEF Take, Got, StageGot
<1>6. /\ \A q \in Processes \ {Consumer} : pc'[q] = pc[q]
      /\ val' = val /\ got' = Append(got, v) /\ result' = result
      /\ pc'[Consumer] = IF GoesOn(v) THEN "receive" ELSE "close"
  <2>1. v \in Values /\ v # Nil
    BY DEF Values
  <2>2. QED
    BY <1>1, <1>5, <2>1, ConsumerGotFacts
<1> DEFINE b == [a EXCEPT ![N] = v]
<1>7. b \in Taken /\ b[N] = v /\ \A c \in Channels \ {N} : b[c] = a[c]
  BY DEF Taken
<1> HIDE DEF b
<1>8. buf'[N] = Tail(buf[N]) /\ \A c \in Channels \ {N} : buf'[c] = buf[c]
  BY <1>1, <1>2 DEF TypeOK
<1>9. StepOf(Consumer, a, b)
  BY <1>2, <1>6, <1>7, <1>8 DEF StepOf
<1>10. /\ \A q \in Stages \ {Consumer} : HandRight(q, b)'
       /\ \A c \in Channels \ {N, Consumer} : ChannelRight(c, b)'
  BY <1>1, <1>9, Elsewhere
<1>11. ChannelRight(N, b)'
  <2>1. ChannelRight(Consumer - 1, b)'
    BY <1>1, <1>2, <1>4, <1>6, <1>7, <1>8, <1>9, InputTaken
  <2>2. QED
    BY <2>1
<1>12. Out(N)' = Out(N) /\ BeforeNil' = BeforeNil /\ \A l : GoesOn(l)' <=> GoesOn(l)
  BY <1>2, PlanUnchanged
<1> DEFINE T == {l \in Out(N) : l <= a[N]}
<1>13. /\ Lists(got, T) /\ ~HasNil(got) /\ got \in Seq(Values) /\ got \in Seq(Lines)
  BY <1>1, GotIsListed DEF Flow, TypeOK
<1>14. a[N] \in Int /\ v \in Int /\ Out(N) \subseteq Int
  BY DEF Taken, Out
<1>15. T \cup {v} = {l \in Out(N) : l <= v}
  BY <1>3, <1>4, <1>14
<1>16. Lists(got', {l \in Out(N) : l <= v})
  <2>1. \A l \in T : l < v
    BY <1>3, <1>4, <1>14
  <2> HIDE DEF T
  <2>2. Lists(Append(got, v), T \cup {v})
    BY <1>13, <2>1, ListsAppend
  <2>3. QED
    BY <1>6, <1>15, <2>2
<1>17. Flow(b)'
  <2>1. Lists(got', {l \in Out(N)' : l <= b[N]})
    BY <1>7, <1>12, <1>16
  <2>2. QED
    BY <1>10, <1>11, <2>1 DEF Flow
<1>18. ConsumerRight'
  <2>1. /\ Len(got') = Len(got) + 1 /\ DOMAIN got = 1 .. Len(got) /\ Len(got) \in Nat
        /\ DOMAIN got' = 1 .. Len(got) + 1 /\ got'[Len(got')] = v /\ got' # << >>
        /\ \A i \in DOMAIN got : got'[i] = got[i]
    BY <1>6, <1>13
  <2>2. \A i \in DOMAIN got : GoesOn(got[i])
    BY <1>1 DEF ConsumerRight
  <2>3. \A i \in DOMAIN got' : i < Len(got') => i \in DOMAIN got
    BY <2>1
  <2>4. \A i \in DOMAIN got' : i \in DOMAIN got \/ i = Len(got')
    BY <2>1
  <2>5. result' = "pending"
    BY <1>1, <1>6 DEF ConsumerRight
  <2>6. GoesOn(v) => \A i \in DOMAIN got' : GoesOn(got'[i])
    BY <2>1, <2>2, <2>4
  <2>7. ~GoesOn(v) => ~GoesOn(got'[Len(got')])
    BY <2>1
  <2>8. \A i \in DOMAIN got' : i < Len(got') => GoesOn(got'[i])
    BY <2>1, <2>2, <2>3
  <2>9. QED
    BY <1>2, <1>6, <2>1, <2>5, <2>6, <2>7, <2>8 DEF ConsumerRight, GoesOn
<1>19. Answer'
  <2>1. result' = "pending"
    BY <1>1, <1>6 DEF ConsumerRight
  <2>2. QED
    BY <2>1 DEF Answer
<1>20. QED
  BY <1>7, <1>17, <1>18, <1>19

\* The consumer sees a nil, or the end of the last channel.
LEMMA ConsumerEnds ==
    ASSUME IInv, NEW a \in Taken, Flow(a), pc[Consumer] \in {"receive", "drain"},
           \/ Take(Consumer) /\ Head(buf[N]) = Nil
           \/ EndOfInput(Consumer)
    PROVE  Flow(a)' /\ ConsumerRight' /\ Answer'
<1> USE ChannelFacts, LineFacts
<1>1. TypeOK /\ Places /\ ConsumerRight /\ Answer /\ Open(Consumer) /\ N + 1 = Consumer
  BY DEF IInv, Open, Consumer
<1>2. /\ plan' = plan /\ done' = done /\ ConsumerGot(Consumer, Nil)
      /\ \A c \in Channels \ {N} : buf'[c] = buf[c]
  BY <1>1 DEF Take, EndOfInput, Got, StageGot, TypeOK
<1>3. /\ \A q \in Processes \ {Consumer} : pc'[q] = pc[q]
      /\ val' = val /\ got' = got /\ pc'[Consumer] = "exit"
      /\ result' = CASE plan.consumer = "reduce" -> "folded"
                     [] plan.consumer = "every" -> "all"
                     [] plan.consumer = "some" -> "none"
  BY <1>1, <1>2, ConsumerGotFacts DEF Values
<1>4. StepOf(Consumer, a, a)
  BY <1>2, <1>3 DEF StepOf
<1>5. /\ \A q \in Stages \ {Consumer} : HandRight(q, a)'
      /\ \A c \in Channels \ {N, Consumer} : ChannelRight(c, a)'
  BY <1>1, <1>4, Elsewhere
<1>6. ChannelRight(N, a)'
  BY <1>1, <1>3 DEF ChannelRight, Open
<1>7. Out(N)' = Out(N) /\ BeforeNil' = BeforeNil
  BY <1>2, PlanUnchanged
<1>8. Flow(a)'
  <2>1. Lists(got', {l \in Out(N)' : l <= a[N]})
    BY <1>3, <1>7 DEF Flow
  <2>2. QED
    BY <1>5, <1>6, <2>1 DEF Flow
<1>9. ConsumerRight'
  BY <1>3 DEF ConsumerRight
<1>10. \A l \in Out(N) : l <= a[N]
  <2>1. \/ buf[N] # << >> /\ Head(buf[N]) = Nil
        \/ buf[N] = << >> /\ pc[N + 1] = "drain"
    BY <1>1 DEF Take, EndOfInput
  <2>2. QED
    BY <1>1, <2>1, NoLineLeft
<1>11. ToSet(got) = BeforeNil
  <2>1. {l \in Out(N) : l <= a[N]} = BeforeNil
    BY <1>1, <1>10, OutToConsumer DEF TypeOK
  <2>2. Lists(got, BeforeNil)
    BY <2>1 DEF Flow
  <2>3. QED
    BY <1>1, <2>2, GotIsListed
<1>12. \A l \in BeforeNil : GoesOn(l)
  BY <1>1, <1>11 DEF ConsumerRight, ToSet
<1>13. Answer'
  <2>1. plan.consumer \in {"reduce", "every", "some"}
    BY <1>1, PlanFacts DEF TypeOK
  <2>2. CASE plan.consumer = "reduce"
    <3>1. result' = "folded" /\ BeforeNil \subseteq ToSet(got)'
      BY <1>3, <1>11, <2>2 DEF ToSet
    <3>2. QED
      BY <1>7, <3>1 DEF Answer
  <2>3. CASE plan.consumer = "every"
    <3>1. result' = "all" /\ BeforeNil \subseteq plan.hit
      BY <1>3, <1>12, <2>3 DEF GoesOn
    <3>2. QED
      BY <1>2, <1>7, <3>1 DEF Answer
  <2>4. CASE plan.consumer = "some"
    <3>1. result' = "none" /\ BeforeNil \cap plan.hit = {}
      BY <1>3, <1>12, <2>4 DEF GoesOn
    <3>2. QED
      BY <1>2, <1>7, <3>1 DEF Answer
  <2>5. QED
    BY <2>1, <2>2, <2>3, <2>4
<1>14. QED
  BY <1>8, <1>9, <1>13

\* The last line received is the first that answers the question.
LEMMA ConsumerShorts ==
    ASSUME IInv, NEW a \in Taken, Flow(a), ShortCircuit
    PROVE  Flow(a)' /\ ConsumerRight' /\ Answer'
<1> USE ChannelFacts, LineFacts
<1>1. TypeOK /\ Places /\ ConsumerRight /\ Answer /\ N + 1 = Consumer
  BY DEF IInv, Consumer
<1>2. /\ pc[Consumer] = "close" /\ pc' = [pc EXCEPT ![Consumer] = "exit"]
      /\ done' = [done EXCEPT ![N] = TRUE]
      /\ result' = (IF plan.consumer = "every" THEN "failed" ELSE "found")
      /\ UNCHANGED <<plan, buf, val, got>>
  BY DEF ShortCircuit, Goto
<1>3. /\ pc'[Consumer] = "exit" /\ \A q \in Processes \ {Consumer} : pc'[q] = pc[q]
      /\ \A c \in Channels \ {N} : done'[c] = done[c]
  BY <1>1, <1>2 DEF TypeOK
<1>4. Out(N)' = Out(N) /\ BeforeNil' = BeforeNil /\ \A c : Out(c)' = Out(c)
  BY <1>2, PlanUnchanged
<1>5. /\ \A c \in Channels : Dealt(c, a)' = Dealt(c, a)
      /\ \A q \in Stages : HandRight(q, a)'
  BY <1>2, <1>3, <1>4 DEF Dealt, InHand, HandRight, Flow
<1>6. ASSUME NEW c \in Channels PROVE ChannelRight(c, a)'
  <2>1. CASE c = N
    BY <1>1, <1>3, <2>1 DEF ChannelRight, Open
  <2>2. CASE c # N
    <3>1. c + 1 # Consumer
      BY <2>2 DEF Channels, Consumer
    <3>2. pc'[c] = pc[c] /\ pc'[c + 1] = pc[c + 1] /\ done'[c] = done[c]
      BY <1>3, <2>2, <3>1
    <3>3. Waiting(c, a)' = Waiting(c, a) /\ (NilRight(c, a)' <=> NilRight(c, a))
      BY <1>2, <1>4, <1>5 DEF Waiting, NilRight
    <3>4. QED
      BY <1>2, <1>5, <3>2, <3>3 DEF Flow, ChannelRight, Open
  <2>3. QED
    BY <2>1, <2>2
<1>7. Flow(a)'
  BY <1>2, <1>4, <1>5, <1>6 DEF Flow
<1>8. ConsumerRight'
  BY <1>3 DEF ConsumerRight
<1> DEFINE T == {l \in Out(N) : l <= a[N]}
           x == got[Len(got)]
<1>9. /\ T = {l \in BeforeNil : l <= a[N]} /\ ToSet(got) = T /\ got \in Seq(Lines)
      /\ \A i, j \in DOMAIN got : i < j => got[i] < got[j]
  BY <1>1, GotIsListed, OutToConsumer DEF Flow, TypeOK
<1>10. /\ got # << >> /\ ~GoesOn(x) /\ \A i \in DOMAIN got : i < Len(got) => GoesOn(got[i])
  BY <1>1, <1>2 DEF ConsumerRight
<1>11. DOMAIN got = 1 .. Len(got) /\ Len(got) \in Nat /\ Len(got) \in DOMAIN got
  BY <1>9, <1>10
<1>12. x \in T /\ x \in BeforeNil /\ x \in Lines
  <2>1. x \in ToSet(got)
    BY <1>11 DEF ToSet
  <2>2. x \in Lines
    BY <1>9, <1>11
  <2>3. QED
    BY <1>9, <2>1, <2>2
<1>13. \A l \in BeforeNil : ~GoesOn(l) => x <= l
  <2> SUFFICES ASSUME NEW l \in BeforeNil, ~GoesOn(l) PROVE x <= l
    OBVIOUS
  <2>1. x \in Nat /\ l \in Nat /\ a[N] \in Int
    BY <1>12 DEF BeforeNil, Mapped, Taken
  <2>2. CASE l <= a[N]
    <3>1. PICK i \in DOMAIN got : got[i] = l
      BY <1>9, <2>2 DEF ToSet
    <3>2. i = Len(got)
      BY <1>10, <1>11, <3>1
    <3>3. QED
      BY <2>1, <3>1, <3>2
  <2>3. CASE ~(l <= a[N])
    BY <1>12, <2>1, <2>3
  <2>4. QED
    BY <2>2, <2>3
<1>14. Answer'
  <2>1. plan.consumer \in {"every", "some"}
    BY <1>1, <1>10, PlanFacts DEF TypeOK, GoesOn
  <2>2. CASE plan.consumer = "every"
    <3>1. result' = "failed" /\ x \notin plan.hit
      BY <1>2, <1>10, <2>2 DEF GoesOn
    <3>2. QED
      BY <1>2, <1>4, <1>12, <3>1 DEF Answer
  <2>3. CASE plan.consumer = "some"
    <3>1. /\ result' = "found" /\ x \in plan.hit
          /\ \A l \in BeforeNil \cap plan.hit : x <= l
      BY <1>2, <1>10, <1>13, <2>3 DEF GoesOn
    <3>2. \A l \in BeforeNil : l \in Nat
      BY DEF BeforeNil, Mapped
    <3>3. Min(BeforeNil \cap plan.hit) = x
      <4> HIDE DEF x
      <4>1. x \in BeforeNil \cap plan.hit /\ x \in Nat
        BY <1>12, <3>1, <3>2
      <4>2. \A y \in BeforeNil \cap plan.hit :
               (\A l \in BeforeNil \cap plan.hit : y <= l) => y = x
        BY <3>1, <3>2, <4>1
      <4>3. QED
        BY <3>1, <4>1, <4>2, Zenon DEF Min
    <3>4. Last(got) = x
      BY DEF Last
    <3>5. QED
      BY <1>2, <1>4, <1>10, <3>1, <3>3, <3>4 DEF Answer
  <2>4. QED
    BY <2>1, <2>2, <2>3
<1>15. QED
  BY <1>7, <1>8, <1>14

-----------------------------------------------------------------------------
(* The invariant is kept.                                                  *)

\* What the code of a process may make of a value.
LEMMA GotTypes ==
    ASSUME TypeOK, Places, NEW p \in Processes \ {0}, NEW v \in Values, Got(p, v)
    PROVE  /\ pc' \in [Processes -> {"receive", "drain", "send", "sending", "close", "exit"}]
           /\ val' \in [Processes -> Lines \cup {Nil}]
           /\ got' \in Seq(Lines)
           /\ result' \in {"pending", "folded", "all", "failed", "found", "none"}
           /\ pc'[0] = pc[0] /\ val'[0] = val[0]
           /\ pc'[Consumer] \notin {"send", "sending"}
<1> USE ChannelFacts, LineFacts
<1>1. CASE StageGot(p, v)
  <2>1. p \in Stages /\ got' = got /\ result' = result
    BY <1>1 DEF StageGot
  <2>2. CASE v = Nil
    <3>1. pc' = [pc EXCEPT ![p] = "close"] /\ val' = val
      BY <1>1, <2>2 DEF StageGot, MapGot, FilterGot, Goto
    <3>2. QED
      BY <2>1, <3>1 DEF TypeOK, Places
  <2>3. CASE v # Nil
    <3>1. \E w \in Values, x \in {"send", "receive"} :
             pc' = [pc EXCEPT ![p] = x] /\ val' = [val EXCEPT ![p] = w]
      <4>1. CASE MapGot(p, v)
        BY <2>3, <4>1 DEF MapGot, Goto, Values
      <4>2. CASE FilterGot(p, v) /\ v \in plan.kept
        BY <2>3, <4>2 DEF FilterGot, Goto
      <4>3. CASE FilterGot(p, v) /\ v \notin plan.kept
        <5>1. pc' = [pc EXCEPT ![p] = "receive"] /\ val' = val
          BY <2>3, <4>3 DEF FilterGot, Goto
        <5>2. val[p] \in Values /\ val' = [val EXCEPT ![p] = val[p]]
          BY <2>1, <5>1 DEF TypeOK, Values
        <5>3. QED
          BY <5>1, <5>2
      <4>4. QED
        BY <1>1, <4>1, <4>2, <4>3 DEF StageGot
    <3>2. PICK w \in Values, x \in {"send", "receive"} :
             pc' = [pc EXCEPT ![p] = x] /\ val' = [val EXCEPT ![p] = w]
      BY <3>1
    <3>3. /\ pc' \in [Processes -> {"receive", "drain", "send", "sending", "close", "exit"}]
          /\ pc'[0] = pc[0] /\ pc'[Consumer] = pc[Consumer]
      BY <2>1, <3>2 DEF TypeOK
    <3>4. val' \in [Processes -> Lines \cup {Nil}] /\ val'[0] = val[0]
      BY <2>1, <3>2 DEF TypeOK, Values
    <3>5. QED
      BY <2>1, <3>3, <3>4 DEF TypeOK, Places
  <2>4. QED
    BY <2>2, <2>3
<1>2. CASE ConsumerGot(p, v)
  <2>1. p = Consumer /\ val' = val
    BY <1>2 DEF ConsumerGot
  <2>2. /\ pc' \in [Processes -> {"receive", "drain", "send", "sending", "close", "exit"}]
        /\ pc'[0] = pc[0] /\ pc'[Consumer] \in {"receive", "close", "exit"}
    <3>1. PICK w \in {"receive", "close", "exit"} : pc' = [pc EXCEPT ![Consumer] = w]
      BY <1>2, <2>1 DEF ConsumerGot, ReduceGot, EveryGot, SomeGot, Goto
    <3>2. QED
      BY <3>1 DEF TypeOK
  <2>3. got' = got \/ (v # Nil /\ got' = Append(got, v))
    BY <1>2 DEF ConsumerGot, ReduceGot, EveryGot, SomeGot
  <2>4. result' \in {result, "folded", "all", "none"}
    BY <1>2 DEF ConsumerGot, ReduceGot, EveryGot, SomeGot
  <2>5. got' \in Seq(Lines)
    <3>1. v # Nil => v \in Lines
      BY DEF Values
    <3>2. got \in Seq(Lines)
      BY DEF TypeOK
    <3>3. ASSUME v \in Lines PROVE Append(got, v) \in Seq(Lines)
      BY <3>2, <3>3
    <3>4. QED
      BY <2>3, <3>1, <3>2, <3>3
  <2>6. QED
    BY <2>1, <2>2, <2>4, <2>5 DEF TypeOK
<1>3. QED
  BY <1>1, <1>2 DEF Got

LEMMA ReceivingTypes ==
    ASSUME TypeOK, Places, NEW p \in Processes \ {0}, Receiving(p)
    PROVE  TypeOK' /\ Places'
<1> USE ChannelFacts, LineFacts
<1>1. p - 1 \in Channels
  BY DEF Channels, Processes, Consumer
<1>2. CASE SawDone(p)
  BY <1>2 DEF SawDone, Goto, TypeOK, Places
<1>3. CASE Take(p)
  <2>1. buf[p - 1] \in Seq(Values) /\ buf[p - 1] # << >> /\ Len(buf[p - 1]) <= BufferSize
    BY <1>1, <1>3 DEF TypeOK, Values, Take
  <2>2. /\ Head(buf[p - 1]) \in Values /\ Tail(buf[p - 1]) \in Seq(Values)
        /\ Len(Tail(buf[p - 1])) <= BufferSize
    BY <2>1, PipelineAssumption
  <2>3. /\ buf' = [buf EXCEPT ![p - 1] = Tail(buf[p - 1])] /\ plan' = plan /\ done' = done
        /\ Got(p, Head(buf[p - 1]))
    BY <1>3 DEF Take
  <2>4. buf' \in [Channels -> Seq(Values)] /\ \A c \in Channels : Len(buf'[c]) <= BufferSize
    BY <1>1, <2>2, <2>3 DEF TypeOK, Values
  <2>5. QED
    BY <2>2, <2>3, <2>4, GotTypes DEF TypeOK, Places, Values
<1>4. CASE EndOfInput(p)
  <2>1. UNCHANGED <<plan, buf, done>> /\ Got(p, Nil) /\ Nil \in Values
    BY <1>4 DEF EndOfInput, Values
  <2>2. QED
    BY <2>1, GotTypes DEF TypeOK, Places
<1>5. QED
  BY <1>2, <1>3, <1>4 DEF Receiving, Receive, Drain

LEMMA SendingTypes ==
    ASSUME TypeOK, Places, NEW p \in Processes \ {Consumer}, Sending(p)
    PROVE  TypeOK' /\ Places'
<1> USE ChannelFacts, LineFacts
<1>1. p \in Channels
  BY DEF Channels, Processes, Consumer, Stages
<1>2. CASE SendCheck(p)
  BY <1>2 DEF SendCheck, Goto, TypeOK, Places
<1>3. CASE SendRefused(p)
  BY <1>3 DEF SendRefused, Goto, TypeOK, Places
<1>4. CASE CloseOutput(p)
  BY <1>4 DEF CloseOutput, Goto, TypeOK, Places
<1>5. CASE Send(p)
  <2>1. /\ buf[p] \in Seq(Values) /\ val[p] \in Values /\ Len(buf[p]) < BufferSize
        /\ buf' = [buf EXCEPT ![p] = Append(buf[p], val[p])]
        /\ UNCHANGED <<plan, done, got, result>> /\ AfterSend(p)
    BY <1>1, <1>5 DEF Send, TypeOK, Values
  <2>2. Append(buf[p], val[p]) \in Seq(Values) /\ Len(Append(buf[p], val[p])) <= BufferSize
    BY <2>1, PipelineAssumption
  <2>3. buf' \in [Channels -> Seq(Values)] /\ \A c \in Channels : Len(buf'[c]) <= BufferSize
    BY <1>1, <2>1, <2>2 DEF TypeOK, Values
  <2>4. CASE p # 0
    <3>1. pc' = [pc EXCEPT ![p] = "receive"] /\ val' = val
      BY <2>1, <2>4 DEF AfterSend, Goto
    <3>2. TypeOK'
      BY <2>1, <2>3, <3>1 DEF TypeOK, Values
    <3>3. pc'[0] = pc[0] /\ pc'[Consumer] = pc[Consumer]
      BY <2>4, <3>1 DEF TypeOK
    <3>4. QED
      BY <3>1, <3>2, <3>3 DEF Places
  <2>5. CASE p = 0 /\ val[0] = K
    <3>1. pc' = [pc EXCEPT ![0] = "close"] /\ val' = val
      BY <2>1, <2>5 DEF AfterSend, Goto
    <3>2. QED
      BY <2>1, <2>3, <2>5, <3>1 DEF TypeOK, Places, Values
  <2>6. CASE p = 0 /\ val[0] # K
    <3>1. val[0] + 1 \in Lines
      BY <1>5, <2>6, PipelineAssumption DEF Send, Places, Lines
    <3>2. pc' = [pc EXCEPT ![0] = "send"] /\ val' = [val EXCEPT ![0] = val[0] + 1]
      BY <2>1, <2>6 DEF AfterSend, Goto
    <3>3. QED
      BY <2>1, <2>3, <3>1, <3>2 DEF TypeOK, Places, Values
  <2>7. QED
    BY <2>4, <2>5, <2>6
<1>6. QED
  BY <1>2, <1>3, <1>4, <1>5 DEF Sending

\* A step that is not the consumer's does not concern its answer.
LEMMA ConsumerUntouched ==
    ASSUME ConsumerRight, Answer, plan' = plan, got' = got, result' = result,
           pc'[Consumer] = pc[Consumer]
    PROVE  ConsumerRight' /\ Answer'
<1>1. BeforeNil' = BeforeNil
  BY PlanUnchanged
<1>2. QED
  BY <1>1 DEF ConsumerRight, Answer, GoesOn, ToSet, Last

LEMMA InvStep == IInv /\ [Next]_vars => IInv'
<1> SUFFICES ASSUME IInv, [Next]_vars PROVE IInv'
  OBVIOUS
<1> USE ChannelFacts
<1>1. PICK a \in Taken : Flow(a)
  BY DEF IInv
<1>2. TypeOK /\ Places /\ ConsumerRight /\ Answer
  BY DEF IInv
<1>3. ASSUME NEW p \in Processes \ {0}, Receiving(p) PROVE IInv'
  <2>1. TypeOK' /\ Places'
    BY <1>2, <1>3, ReceivingTypes
  <2>2. \/ SawDone(p)
        \/ pc[p] \in {"receive", "drain"} /\ Take(p) /\ Head(buf[p - 1]) # Nil
        \/ pc[p] \in {"receive", "drain"} /\ Take(p) /\ Head(buf[p - 1]) = Nil
        \/ pc[p] \in {"receive", "drain"} /\ EndOfInput(p)
    BY <1>3 DEF Receiving, Receive, Drain, EndOfInput
  <2>3. CASE SawDone(p)
    <3>1. Flow(a)'
      BY <1>1, <1>2, <2>3, ReceiverSawDone
    <3>2. ConsumerRight' /\ Answer'
      <4>1. pc' = [pc EXCEPT ![p] = "drain"] /\ pc[p] = "receive"
            /\ UNCHANGED <<plan, got, result>>
        BY <2>3 DEF SawDone, Goto
      <4>2. CASE p # Consumer
        BY <1>2, <4>1, <4>2, ConsumerUntouched DEF TypeOK
      <4>3. CASE p = Consumer
        <5>1. pc'[Consumer] = "drain" /\ pc[Consumer] = "receive"
          BY <1>2, <4>1, <4>3 DEF TypeOK
        <5>2. BeforeNil' = BeforeNil
          BY <4>1, PlanUnchanged
        <5>3. QED
          BY <1>2, <4>1, <5>1, <5>2 DEF ConsumerRight, Answer, GoesOn, ToSet, Last
      <4>4. QED
        BY <4>2, <4>3
    <3>3. QED
      BY <2>1, <3>1, <3>2 DEF IInv, Taken
  <2>4. CASE p = Consumer /\ ~SawDone(p)
    <3>1. (\E b \in Taken : Flow(b)') /\ ConsumerRight' /\ Answer'
      BY <1>1, <2>2, <2>4, ConsumerTakesLine, ConsumerEnds
    <3>2. QED
      BY <2>1, <3>1 DEF IInv, Taken
  <2>5. CASE p \in Stages /\ ~SawDone(p)
    <3>1. \E b \in Taken : Flow(b)'
      BY <1>1, <1>2, <2>2, <2>5, StageTakesLine, StageEnds
    <3>2. PICK v : StageGot(p, v) /\ plan' = plan
      BY <2>2, <2>5 DEF Take, EndOfInput, Got, ConsumerGot
    <3>3. got' = got /\ result' = result /\ pc'[Consumer] = pc[Consumer]
      BY <1>2, <2>5, <3>2 DEF StageGot, MapGot, FilterGot, Goto, TypeOK
    <3>4. ConsumerRight' /\ Answer'
      BY <1>2, <3>2, <3>3, ConsumerUntouched
    <3>5. QED
      BY <2>1, <3>1, <3>4 DEF IInv, Taken
  <2>6. QED
    BY <2>3, <2>4, <2>5
<1>4. ASSUME NEW p \in Processes \ {Consumer}, Sending(p) PROVE IInv'
  <2>1. TypeOK' /\ Places'
    BY <1>2, <1>4, SendingTypes
  <2>2. p \in Channels
    OBVIOUS
  <2>3. Flow(a)'
    BY <1>1, <1>2, <1>4, <2>2, SenderChecks, SenderSends DEF Sending
  <2>4. got' = got /\ result' = result /\ pc'[Consumer] = pc[Consumer] /\ plan' = plan
    BY <1>2, <1>4 DEF Sending, SendCheck, Send, SendRefused, CloseOutput, AfterSend, Goto, TypeOK
  <2>5. ConsumerRight' /\ Answer'
    BY <1>2, <2>4, ConsumerUntouched
  <2>6. QED
    BY <2>1, <2>3, <2>5 DEF IInv, Taken
<1>5. CASE ShortCircuit
  <2>1. TypeOK' /\ Places'
    BY <1>2, <1>5, PlanFacts DEF ShortCircuit, Goto, TypeOK, Places
  <2>2. QED
    BY <1>1, <1>5, <2>1, ConsumerShorts DEF IInv, Taken
<1>6. CASE UNCHANGED vars
  <2>1. BeforeNil' = BeforeNil /\ \A c : Out(c)' = Out(c)
    BY <1>6, PlanUnchanged DEF vars
  <2>2. TypeOK' /\ Places' /\ ConsumerRight' /\ Answer'
    BY <1>2, <1>6, ConsumerUntouched DEF vars, TypeOK, Places
  <2>3. \A c \in Channels : Dealt(c, a)' = Dealt(c, a)
    BY <1>6 DEF vars, Dealt, InHand
  <2>4. \A c \in Channels : Waiting(c, a)' = Waiting(c, a) /\ (NilRight(c, a)' <=> NilRight(c, a))
    BY <1>6, <2>3, BufferUnchanged DEF vars
  <2>5. Flow(a)'
    BY <1>1, <1>6, <2>1, <2>3, <2>4 DEF vars, Flow, HandRight, ChannelRight, Open
  <2>6. QED
    BY <2>2, <2>5 DEF IInv, Taken
<1>7. QED
  BY <1>3, <1>4, <1>5, <1>6 DEF Next

LEMMA InductiveInvariant == Spec => []IInv
BY InvInit, InvStep, PTL DEF Spec

\* No buffer holds more than BufferSize values, and a process has a line, or
\* nil, in its hand.
THEOREM TypeCorrect == Spec => []TypeOK
BY InductiveInvariant, PTL DEF IInv

\* Whatever the stages do and however their goroutines interleave, the consumer
\* works on the promised lines in order and without gaps, and channel-reduce,
\* channel-every? and channel-some? answer for the whole stream.
THEOREM AnswersRightCorrect == Spec => []AnswersRight
<1>1. IInv => AnswersRight
  <2> SUFFICES ASSUME IInv PROVE AnswersRight
    OBVIOUS
  <2>1. PICK a \in Taken : Flow(a)
    BY DEF IInv
  <2>2. TypeOK /\ Answer
    BY DEF IInv
  <2>3. /\ ToSet(got) = {l \in BeforeNil : l <= a[N]}
        /\ \A i, j \in DOMAIN got : i < j => got[i] < got[j]
    BY <2>1, <2>2, GotIsListed, OutToConsumer DEF Flow, TypeOK
  <2>4. a[N] \in Int /\ BeforeNil \subseteq Int
    BY ChannelFacts DEF Taken, BeforeNil, Mapped, Lines
  <2>5. ASSUME NEW l \in BeforeNil, NEW m \in ToSet(got), l < m PROVE l \in ToSet(got)
    <3>1. l \in Int /\ m \in Int /\ m <= a[N] /\ a[N] \in Int
      BY <2>3, <2>4
    <3>2. l <= a[N]
      BY <2>5, <3>1
    <3>3. QED
      BY <2>3, <3>2
  <2>6. QED
    BY <2>2, <2>3, <2>5 DEF AnswersRight, Answer
<1>2. QED
  BY <1>1, InductiveInvariant, PTL
=============================================================================
