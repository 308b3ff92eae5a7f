----------------------- MODULE HermesEventStreamProofs -----------------------
(***************************************************************************)
(* Proofs about HermesEventStream, for any clients and any bounds.         *)
(***************************************************************************)
EXTENDS HermesEventStream, TLAPS

-----------------------------------------------------------------------------
(* Sequences of messages. *)

LEMMA HeadTail ==
  ASSUME NEW S, NEW s \in Seq(S), s # <<>>
  PROVE  /\ Head(s) \in S /\ Tail(s) \in Seq(S)
         /\ Head(s) = s[1] /\ 1 \in DOMAIN s
         /\ \A i \in DOMAIN Tail(s) : i + 1 \in DOMAIN s /\ Tail(s)[i] = s[i + 1]
  OBVIOUS

LEMMA StoredMessages ==
  ASSUME log \in Seq(Kinds), NEW a \in Nat
  PROVE  /\ Stored(a) \in Seq(Messages)
         /\ \A i \in DOMAIN Stored(a) :
              /\ i \in Nat /\ i >= 1
              /\ a + i \in DOMAIN log
              /\ Stored(a)[i].seq = a + i /\ Stored(a)[i].kind = log[a + i]
<1>1. \A i \in 1..(Len(log) - a) : a + i \in 1..Len(log) /\ log[a + i] \in Kinds
  OBVIOUS
<1>2. \A i \in 1..(Len(log) - a) : [seq |-> a + i, kind |-> log[a + i]] \in Messages
  BY <1>1 DEF Messages
<1>3. CASE Len(log) >= a
  <2>1. Len(log) - a \in Nat
    BY <1>3
  <2>2. Stored(a) \in [1..(Len(log) - a) -> Messages] /\ DOMAIN Stored(a) = 1..(Len(log) - a)
    BY <1>2 DEF Stored
  <2>3. Stored(a) \in Seq(Messages)
    BY <2>1, <2>2
  <2>4. \A i \in DOMAIN Stored(a) : Stored(a)[i] = [seq |-> a + i, kind |-> log[a + i]]
    BY <2>2 DEF Stored
  <2> QED BY <1>1, <2>2, <2>3, <2>4
<1>4. CASE Len(log) < a
  <2>1. 1..(Len(log) - a) = 1..0
    BY <1>4
  <2>2. Stored(a) \in [1..0 -> Messages] /\ DOMAIN Stored(a) = 1..0
    BY <1>2, <2>1 DEF Stored
  <2> QED BY <2>2
<1> QED BY <1>3, <1>4

\* Replays, whole or cut off.
Prefixes(t) == {t} \cup {SubSeq(t, 1, n) : n \in 1..Len(t)}

LEMMA PrefixMessages ==
  ASSUME NEW t \in Seq(Messages), NEW p \in Prefixes(t)
  PROVE  /\ p \in Seq(Messages)
         /\ \A i \in DOMAIN p : i \in DOMAIN t /\ p[i] = t[i]
<1>1. CASE p = t
  BY <1>1
<1>2. ASSUME NEW n \in 1..Len(t), p = SubSeq(t, 1, n)
      PROVE  p \in Seq(Messages) /\ \A i \in DOMAIN p : i \in DOMAIN t /\ p[i] = t[i]
  BY <1>2
<1> QED BY <1>1, <1>2 DEF Prefixes

LEMMA AfterIsNumber ==
  ASSUME TypeOK, NEW c \in Clients
  PROVE  After(c) \in Nat
<1>1. shown[c] \in Seq(Messages)
  BY DEF TypeOK
<1>2. CASE shown[c] = <<>>
  BY <1>2 DEF After
<1>3. CASE shown[c] # <<>>
  <2>1. shown[c][Len(shown[c])] \in Messages
    BY <1>1, <1>3
  <2> QED BY <1>3, <2>1 DEF After, Messages
<1> QED BY <1>2, <1>3

-----------------------------------------------------------------------------
(* Type correctness. *)

LEMMA TypeInit == Init => TypeOK
  BY DEF Init, TypeOK

LEMMA PublishType ==
  ASSUME TypeOK, NEW kind \in Kinds, Publish(kind)
  PROVE  /\ pending' \in Kinds \cup {NoRow}
         /\ inbox' \in [Clients -> Seq(Messages)]
         /\ UNCHANGED <<log, conn, known, shown, bounds>>
<1>1. [seq |-> NextSeq, kind |-> kind] \in Messages
  BY DEF TypeOK, NextSeq, Messages
<1>2. \A c \in Clients : Append(inbox[c], [seq |-> NextSeq, kind |-> kind]) \in Seq(Messages)
  BY <1>1 DEF TypeOK
<1>3. inbox' \in [Clients -> Seq(Messages)]
  BY <1>2 DEF Publish, TypeOK
<1> QED BY <1>3 DEF Publish

LEMMA WriterType ==
  ASSUME TypeOK, WriterStep
  PROVE  TypeOK'
<1>0. "event" \in Kinds /\ "cancel" \in Kinds /\ "final" \in Kinds
  BY DEF Kinds
<1>1. CASE WorkerEvent
  <2>1. Publish("event") /\ UNCHANGED <<status, runner, canceller>>
    BY <1>1 DEF WorkerEvent
  <2> QED BY <1>0, <2>1, PublishType DEF TypeOK, streams, bounds
<1>2. CASE WorkerEnds
  <2>1. Publish("final") /\ runner' = "ending" /\ UNCHANGED <<status, canceller>>
    BY <1>2 DEF WorkerEnds
  <2> QED BY <1>0, <2>1, PublishType DEF TypeOK, streams, bounds
<1>3. CASE WorkerCancels
  <2>1. Publish("final") /\ runner' = "cancelling" /\ UNCHANGED <<status, canceller>>
    BY <1>3 DEF WorkerCancels
  <2> QED BY <1>0, <2>1, PublishType DEF TypeOK, streams, bounds
<1>4. CASE CancelLoad
  BY <1>4 DEF CancelLoad, TypeOK, streams, bounds
<1>5. CASE CancelEvent
  <2>1. Publish("cancel") /\ canceller' = "done" /\ UNCHANGED <<status, runner>>
    BY <1>5 DEF CancelEvent
  <2> QED BY <1>0, <2>1, PublishType DEF TypeOK, streams, bounds
<1>6. CASE Commit
  <2>1. log' \in Seq(Kinds) /\ pending' = NoRow
    BY <1>6 DEF Commit, TypeOK
  <2>2. /\ status' \in {"open", "cancel_requested", "terminal"}
        /\ runner' \in {"starting", "streaming", "failing", "ending", "cancelling", "done", "dead"}
    BY <1>6 DEF Commit, TypeOK
  <2> QED BY <1>6, <2>1, <2>2 DEF Commit, TypeOK, streams, bounds
<1> QED BY <1>1, <1>2, <1>3, <1>4, <1>5, <1>6 DEF WriterStep

LEMMA StreamType ==
  ASSUME TypeOK, NEW c \in Clients, Connect(c) \/ StreamStep(c) \/ Drop(c)
  PROVE  TypeOK'
<1>1. CASE Connect(c)
  <2>1. (status = "terminal") \in BOOLEAN
    BY Zenon
  <2> QED BY <1>1, <2>1 DEF Connect, TypeOK, writers, bounds
<1>2. CASE Subscribe(c)
  BY <1>2 DEF Subscribe, TypeOK, writers, bounds
<1>3. CASE Replay(c)
  <2>1. Stored(After(c)) \in Seq(Messages)
    BY AfterIsNumber, StoredMessages DEF TypeOK
  <2>2. shown[c] \o Stored(After(c)) \in Seq(Messages)
    BY <2>1 DEF TypeOK
  <2>3. shown' \in [Clients -> Seq(Messages)]
    BY <1>3, <2>2 DEF Replay, TypeOK
  <2>4. conn' \in [Clients -> {"off", "asked", "subscribed", "live", "closed"}]
    <3>1. CASE known[c]
      BY <1>3, <3>1 DEF Replay, TypeOK
    <3>2. CASE ~known[c]
      BY <1>3, <3>2 DEF Replay, TypeOK
    <3> QED BY <3>1, <3>2
  <2>5. inbox' \in [Clients -> Seq(Messages)]
    <3>1. <<>> \in Seq(Messages)
      OBVIOUS
    <3>2. inbox' = [inbox EXCEPT ![c] = <<>>] \/ inbox' = inbox
      BY <1>3 DEF Replay
    <3> QED BY <3>1, <3>2 DEF TypeOK
  <2> QED BY <1>3, <2>3, <2>4, <2>5 DEF Replay, TypeOK, writers, bounds
<1>4. CASE Deliver(c)
  <2>1. Head(inbox[c]) \in Messages /\ Tail(inbox[c]) \in Seq(Messages)
    BY <1>4, HeadTail DEF Deliver, TypeOK
  <2>2. shown' \in [Clients -> Seq(Messages)]
    <3>1. shown' = shown \/ shown' = [shown EXCEPT ![c] = Append(@, Head(inbox[c]))]
      BY <1>4 DEF Deliver, Send
    <3>2. Append(shown[c], Head(inbox[c])) \in Seq(Messages)
      BY <2>1 DEF TypeOK
    <3> QED BY <3>1, <3>2 DEF TypeOK
  <2>3. /\ conn' \in [Clients -> {"off", "asked", "subscribed", "live", "closed"}]
        /\ inbox' \in [Clients -> Seq(Messages)]
    <3>1. conn' = conn \/ conn' = [conn EXCEPT ![c] = "closed"]
      BY <1>4 DEF Deliver, Send
    <3>2. inbox' = [inbox EXCEPT ![c] = <<>>] \/ inbox' = [inbox EXCEPT ![c] = Tail(@)]
      BY <1>4 DEF Deliver, Send
    <3>3. <<>> \in Seq(Messages)
      OBVIOUS
    <3> QED BY <2>1, <3>1, <3>2, <3>3 DEF TypeOK
  <2> QED BY <1>4, <2>2, <2>3 DEF Deliver, TypeOK, writers, bounds
<1>5. CASE Drop(c)
  <2>1. /\ conn' \in [Clients -> {"off", "asked", "subscribed", "live", "closed"}]
        /\ inbox' \in [Clients -> Seq(Messages)]
        /\ drops' \in Nat
    BY <1>5 DEF Drop, TypeOK
  <2>2. shown' \in [Clients -> Seq(Messages)]
    <3>1. Stored(After(c)) \in Seq(Messages)
      BY AfterIsNumber, StoredMessages DEF TypeOK
    <3>2. shown' = shown \/ \E t \in Prefixes(Stored(After(c))) : shown' = [shown EXCEPT ![c] = @ \o t]
      BY <1>5 DEF Drop, Prefixes
    <3>3. \A t \in Prefixes(Stored(After(c))) : shown[c] \o t \in Seq(Messages)
      BY <3>1, PrefixMessages DEF TypeOK
    <3> QED BY <3>2, <3>3 DEF TypeOK
  <2> QED BY <1>5, <2>1, <2>2 DEF Drop, TypeOK, writers
<1> QED BY <1>1, <1>2, <1>3, <1>4, <1>5 DEF StreamStep

LEMMA FaultType ==
  ASSUME TypeOK, Rollback \/ Restart
  PROVE  TypeOK'
<1>1. CASE Rollback
  <2>1. runner' \in {"starting", "streaming", "failing", "ending", "cancelling", "done", "dead"}
    BY <1>1 DEF Rollback, TypeOK
  <2> QED BY <1>1, <2>1 DEF Rollback, TypeOK, streams
<1>2. CASE Restart
  BY <1>2 DEF Restart, TypeOK
<1> QED BY <1>1, <1>2

LEMMA TypeNext == TypeOK /\ [Next]_vars => TypeOK'
<1> SUFFICES ASSUME TypeOK, [Next]_vars PROVE TypeOK'
  OBVIOUS
<1>1. CASE UNCHANGED vars
  BY <1>1 DEF vars, writers, streams, bounds, TypeOK
<1> QED BY <1>1, WriterType, StreamType, FaultType DEF Next

\* Every variable keeps its type.
THEOREM TypeCorrect == Spec => []TypeOK
  BY TypeInit, TypeNext, PTL DEF Spec
-----------------------------------------------------------------------------
(* What a client is sent is in order: every step appends messages with     *)
(* numbers after the last one, whatever happens to the rows.               *)

Ordered(s) == \A i, j \in DOMAIN s : i < j => s[i].seq < s[j].seq

LEMMA SeqNumber ==
  ASSUME NEW s \in Seq(Messages), NEW i \in DOMAIN s
  PROVE  s[i] \in Messages /\ s[i].seq \in Nat
<1>1. s[i] \in Messages
  OBVIOUS
<1> QED BY <1>1 DEF Messages

LEMMA OrderedAppend ==
  ASSUME NEW s \in Seq(Messages), NEW m \in Messages, Ordered(s),
         s # <<>> => m.seq > s[Len(s)].seq
  PROVE  Ordered(Append(s, m))
<1>1. \A i \in DOMAIN s : s[i].seq \in Nat
  BY SeqNumber
<1>2. \A i \in DOMAIN s : s[i].seq < m.seq
  <2> SUFFICES ASSUME NEW i \in DOMAIN s PROVE s[i].seq < m.seq
    OBVIOUS
  <2>1. s # <<>> /\ Len(s) \in DOMAIN s /\ i <= Len(s)
    OBVIOUS
  <2>2. s[i].seq <= s[Len(s)].seq
    BY <1>1, <2>1 DEF Ordered
  <2> QED BY <1>1, <2>1, <2>2 DEF Messages
<1> SUFFICES ASSUME NEW i \in DOMAIN Append(s, m), NEW j \in DOMAIN Append(s, m), i < j
             PROVE  Append(s, m)[i].seq < Append(s, m)[j].seq
  BY DEF Ordered
<1>3. i \in DOMAIN s /\ Append(s, m)[i] = s[i]
  OBVIOUS
<1>4. CASE j \in DOMAIN s
  <2>1. Append(s, m)[j] = s[j]
    BY <1>4
  <2> QED BY <1>3, <1>4, <2>1 DEF Ordered
<1>5. CASE j \notin DOMAIN s
  <2>1. Append(s, m)[j] = m
    BY <1>5
  <2> QED BY <1>2, <1>3, <2>1
<1> QED BY <1>4, <1>5

LEMMA OrderedConcat ==
  ASSUME NEW s \in Seq(Messages), NEW t \in Seq(Messages), Ordered(s), Ordered(t),
         \A j \in DOMAIN t : s # <<>> => t[j].seq > s[Len(s)].seq
  PROVE  Ordered(s \o t)
<1>1. \A i \in DOMAIN s : s[i].seq \in Nat
  BY SeqNumber
<1>2. \A j \in DOMAIN t : t[j].seq \in Nat
  BY SeqNumber
<1>3. ASSUME NEW i \in DOMAIN s, NEW j \in DOMAIN t PROVE s[i].seq < t[j].seq
  <2>1. s # <<>> /\ Len(s) \in DOMAIN s /\ i <= Len(s)
    OBVIOUS
  <2>2. s[i].seq <= s[Len(s)].seq
    BY <1>1, <2>1 DEF Ordered
  <2> QED BY <1>1, <1>2, <2>1, <2>2
<1> SUFFICES ASSUME NEW i \in DOMAIN (s \o t), NEW j \in DOMAIN (s \o t), i < j
             PROVE  (s \o t)[i].seq < (s \o t)[j].seq
  BY DEF Ordered
<1>4. CASE j <= Len(s)
  <2>1. i \in DOMAIN s /\ j \in DOMAIN s /\ (s \o t)[i] = s[i] /\ (s \o t)[j] = s[j]
    BY <1>4
  <2> QED BY <2>1 DEF Ordered
<1>5. CASE i <= Len(s) /\ j > Len(s)
  <2>1. i \in DOMAIN s /\ (s \o t)[i] = s[i]
    BY <1>5
  <2>2. j - Len(s) \in DOMAIN t /\ (s \o t)[j] = t[j - Len(s)]
    BY <1>5
  <2> QED BY <1>3, <2>1, <2>2
<1>6. CASE i > Len(s)
  <2>1. /\ i - Len(s) \in DOMAIN t /\ (s \o t)[i] = t[i - Len(s)]
        /\ j - Len(s) \in DOMAIN t /\ (s \o t)[j] = t[j - Len(s)]
    BY <1>6
  <2>2. i - Len(s) < j - Len(s)
    OBVIOUS
  <2> QED BY <2>1, <2>2 DEF Ordered
<1> QED BY <1>4, <1>5, <1>6

OrderInv == TypeOK /\ ShownInOrder

LEMMA OrderMeaning == ShownInOrder <=> \A c \in Clients : Ordered(shown[c])
  BY DEF ShownInOrder, Ordered

LEMMA AppendsToShown ==
  ASSUME OrderInv, NEW c \in Clients, NEW t \in Seq(Messages), Ordered(t),
         \A j \in DOMAIN t : t[j].seq > After(c),
         shown' = [shown EXCEPT ![c] = @ \o t]
  PROVE  \A d \in Clients : Ordered(shown'[d])
<1>1. shown[c] \in Seq(Messages) /\ \A d \in Clients : Ordered(shown[d])
  BY OrderMeaning DEF OrderInv, TypeOK
<1>2. Ordered(shown[c] \o t)
  BY <1>1, OrderedConcat DEF After
<1>3. \A d \in Clients : shown'[d] = IF d = c THEN shown[c] \o t ELSE shown[d]
  BY DEF OrderInv, TypeOK
<1> QED BY <1>1, <1>2, <1>3

LEMMA SentInOrder ==
  ASSUME OrderInv, NEW c \in Clients, StreamStep(c) \/ Drop(c)
  PROVE  \A d \in Clients : Ordered(shown'[d])
<1>1. \A d \in Clients : Ordered(shown[d])
  BY OrderMeaning DEF OrderInv
<1>2. CASE UNCHANGED shown
  BY <1>1, <1>2
<1>3. ASSUME NEW t \in Prefixes(Stored(After(c))), shown' = [shown EXCEPT ![c] = @ \o t]
      PROVE  \A d \in Clients : Ordered(shown'[d])
  <2>1. After(c) \in Nat
    BY AfterIsNumber DEF OrderInv
  <2>2. /\ Stored(After(c)) \in Seq(Messages)
        /\ \A i \in DOMAIN Stored(After(c)) :
             i \in Nat /\ i >= 1 /\ Stored(After(c))[i].seq = After(c) + i
    BY <2>1, StoredMessages DEF OrderInv, TypeOK
  <2>3. /\ t \in Seq(Messages)
        /\ \A i \in DOMAIN t : i \in Nat /\ i >= 1 /\ t[i].seq = After(c) + i
    BY <2>2, PrefixMessages
  <2>4. Ordered(t)
    BY <2>1, <2>3 DEF Ordered
  <2>5. \A i \in DOMAIN t : t[i].seq > After(c)
    BY <2>1, <2>3
  <2> QED BY <1>3, <2>3, <2>4, <2>5, AppendsToShown
<1>4. CASE Deliver(c) /\ ~UNCHANGED shown
  <2>1. /\ inbox[c] # <<>>
        /\ Head(inbox[c]).seq > After(c)
        /\ shown' = [shown EXCEPT ![c] = Append(@, Head(inbox[c]))]
    BY <1>4 DEF Deliver, Send
  <2>2. Head(inbox[c]) \in Messages
    BY <2>1, HeadTail DEF OrderInv, TypeOK
  <2>3. shown[c] \in Seq(Messages) /\ (shown[c] # <<>> => After(c) = shown[c][Len(shown[c])].seq)
    BY DEF OrderInv, TypeOK, After
  <2>4. Ordered(Append(shown[c], Head(inbox[c])))
    BY <1>1, <2>1, <2>2, <2>3, OrderedAppend
  <2>5. \A d \in Clients : shown'[d] = IF d = c THEN Append(shown[c], Head(inbox[c])) ELSE shown[d]
    BY <2>1 DEF OrderInv, TypeOK
  <2> QED BY <1>1, <2>4, <2>5
<1>5. CASE Subscribe(c)
  BY <1>2, <1>5 DEF Subscribe
<1>6. CASE Replay(c) \/ Drop(c)
  BY <1>2, <1>3, <1>6 DEF Replay, Drop, Prefixes
<1> QED BY <1>2, <1>4, <1>5, <1>6 DEF StreamStep

LEMMA OrderNext == OrderInv /\ [Next]_vars => OrderInv'
<1> SUFFICES ASSUME OrderInv, [Next]_vars PROVE OrderInv'
  OBVIOUS
<1>1. TypeOK'
  BY TypeNext DEF OrderInv
<1>2. CASE UNCHANGED shown
  BY <1>1, <1>2 DEF OrderInv, ShownInOrder
<1>3. CASE \E c \in Clients : StreamStep(c) \/ Drop(c)
  <2>1. \A d \in Clients : Ordered(shown'[d])
    BY <1>3, SentInOrder
  <2> QED BY <1>1, <2>1 DEF OrderInv, ShownInOrder, Ordered
<1>4. CASE WriterStep
  BY <1>2, <1>4 DEF WriterStep, WorkerEvent, WorkerEnds, WorkerCancels, CancelLoad, CancelEvent,
                    Commit, Publish, streams
<1>5. CASE Rollback \/ Restart
  BY <1>2, <1>5 DEF Rollback, Restart, streams
<1>6. CASE \E c \in Clients : Connect(c)
  BY <1>2, <1>6 DEF Connect
<1>7. CASE UNCHANGED vars
  BY <1>2, <1>7 DEF vars, streams
<1> QED BY <1>3, <1>4, <1>5, <1>6, <1>7 DEF Next

\* No client is sent an event twice or out of order, over any number of
\* connections, rollbacks and restarts.
THEOREM EventsInOrder == Spec => []ShownInOrder
<1>1. Init => OrderInv
  BY TypeInit DEF Init, OrderInv, ShownInOrder
<1>2. OrderInv => ShownInOrder
  BY DEF OrderInv
<1> QED BY <1>1, <1>2, OrderNext, PTL DEF Spec
-----------------------------------------------------------------------------
(* While no transaction fails and the process stays up, what is published  *)
(* is recorded: what was sent, and what is on a queue, is a row or about   *)
(* to be one.                                                              *)

RecordedIn(rows, row, m) ==
  \/ m.seq \in DOMAIN rows /\ rows[m.seq] = m.kind
  \/ m.seq = Len(rows) + 1 /\ row = m.kind

EndIn(rows, row) == row = "final" \/ \E n \in DOMAIN rows : rows[n] = "final"

RecordInv ==
  /\ TypeOK
  /\ \A c \in Clients : \A i \in DOMAIN shown[c] : RecordedIn(log, pending, shown[c][i])
  /\ \A c \in Clients : \A i \in DOMAIN inbox[c] : RecordedIn(log, pending, inbox[c][i])
  /\ status = "terminal" => EndIn(log, NoRow)
  /\ \A c \in Clients : known[c] => EndIn(log, NoRow)
  /\ \A c \in Clients : conn[c] = "closed" => EndIn(log, pending)

\* The cases of a step without faults.
LEMMA FaultFree ==
  ASSUME NoFault', TypeOK, [Next]_vars
  PROVE  \/ \E k \in Kinds : Publish(k) /\ UNCHANGED status
         \/ Commit
         \/ UNCHANGED writers /\ \E c \in Clients : Connect(c) \/ StreamStep(c) \/ Drop(c)
         \/ UNCHANGED <<log, pending, status, streams>>
<1>1. ~Rollback /\ ~Restart
  BY DEF NoFault, TypeOK, Rollback, Restart
<1>2. CASE WriterStep
  <2>1. CASE WorkerEvent \/ WorkerEnds \/ WorkerCancels \/ CancelEvent
    BY <2>1 DEF WorkerEvent, WorkerEnds, WorkerCancels, CancelEvent, Kinds
  <2>2. CASE CancelLoad
    BY <2>2 DEF CancelLoad
  <2> QED BY <1>2, <2>1, <2>2 DEF WriterStep
<1>3. ASSUME NEW c \in Clients, Connect(c) \/ StreamStep(c) \/ Drop(c) PROVE UNCHANGED writers
  BY <1>3 DEF Connect, StreamStep, Subscribe, Replay, Deliver, Drop
<1>4. CASE UNCHANGED vars
  BY <1>4 DEF vars, writers, streams
<1> QED BY <1>1, <1>2, <1>3, <1>4 DEF Next

LEMMA RowsAppend ==
  ASSUME TypeOK, Commit
  PROVE  /\ log' = Append(log, pending) /\ pending \in Kinds /\ pending' = NoRow
         /\ \A n \in DOMAIN log : n \in DOMAIN log' /\ log'[n] = log[n]
         /\ Len(log) + 1 \in DOMAIN log' /\ log'[Len(log) + 1] = pending
         /\ UNCHANGED <<streams, canceller>>
<1>1. log \in Seq(Kinds) /\ pending \in Kinds /\ log' = Append(log, pending)
  BY DEF Commit, TypeOK
<1> QED BY <1>1 DEF Commit

LEMMA RecordedStays ==
  ASSUME NoFault', TypeOK, [Next]_vars
  PROVE  \A m \in Messages : RecordedIn(log, pending, m) => RecordedIn(log', pending', m)
<1> SUFFICES ASSUME NEW m \in Messages, RecordedIn(log, pending, m)
             PROVE  RecordedIn(log', pending', m)
  OBVIOUS
<1>1. m.kind # NoRow
  BY DEF Messages, Kinds, NoRow
<1>2. CASE \E k \in Kinds : Publish(k)
  <2>1. pending = NoRow /\ log' = log
    BY <1>2 DEF Publish
  <2> QED BY <1>1, <2>1 DEF RecordedIn
<1>3. CASE Commit
  BY <1>3, RowsAppend DEF RecordedIn
<1>4. CASE UNCHANGED <<log, pending>>
  BY <1>4 DEF RecordedIn
<1> QED BY <1>2, <1>3, <1>4, FaultFree DEF writers

LEMMA EndStays ==
  ASSUME NoFault', TypeOK, [Next]_vars
  PROVE  /\ EndIn(log, pending) => EndIn(log', pending')
         /\ EndIn(log, NoRow) => EndIn(log', NoRow)
<1>1. CASE \E k \in Kinds : Publish(k)
  <2>1. pending = NoRow /\ log' = log
    BY <1>1 DEF Publish
  <2>2. NoRow # "final"
    BY DEF NoRow
  <2> QED BY <2>1, <2>2 DEF EndIn
<1>2. CASE Commit
  BY <1>2, RowsAppend DEF EndIn
<1>3. CASE UNCHANGED <<log, pending>>
  BY <1>3 DEF EndIn
<1> QED BY <1>1, <1>2, <1>3, FaultFree DEF writers

LEMMA QueueRecorded ==
  ASSUME NoFault', RecordInv, [Next]_vars
  PROVE  \A c \in Clients : \A i \in DOMAIN inbox'[c] : RecordedIn(log', pending', inbox'[c][i])
<1> SUFFICES ASSUME NEW c \in Clients
             PROVE  \A i \in DOMAIN inbox'[c] : RecordedIn(log', pending', inbox'[c][i])
  OBVIOUS
<1>0. inbox[c] \in Seq(Messages)
  BY DEF RecordInv, TypeOK
<1>1. \A i \in DOMAIN inbox[c] : inbox[c][i] \in Messages /\ RecordedIn(log', pending', inbox[c][i])
  BY <1>0, SeqNumber, RecordedStays DEF RecordInv
<1>2. CASE \E k \in Kinds : Publish(k)
  <2>1. PICK k \in Kinds : Publish(k)
    BY <1>2
  <2> DEFINE m == [seq |-> NextSeq, kind |-> k]
  <2>2. inbox'[c] = inbox[c] \/ inbox'[c] = Append(inbox[c], m)
    BY <2>1 DEF Publish
  <2>3. RecordedIn(log', pending', m)
    BY <2>1 DEF Publish, RecordedIn, NextSeq
  <2>4. \A i \in DOMAIN Append(inbox[c], m) :
          Append(inbox[c], m)[i] = m \/ (i \in DOMAIN inbox[c] /\ Append(inbox[c], m)[i] = inbox[c][i])
    BY <1>0
  <2> QED BY <1>1, <2>2, <2>3, <2>4
<1>3. CASE UNCHANGED inbox
  BY <1>1, <1>3
<1>4. ASSUME NEW d \in Clients, Connect(d) \/ StreamStep(d) \/ Drop(d)
      PROVE  \A i \in DOMAIN inbox'[c] : RecordedIn(log', pending', inbox'[c][i])
  <2>1. \/ UNCHANGED inbox
        \/ inbox' = [inbox EXCEPT ![d] = <<>>]
        \/ inbox[d] # <<>> /\ inbox' = [inbox EXCEPT ![d] = Tail(@)]
    BY <1>4 DEF Connect, StreamStep, Subscribe, Replay, Deliver, Send, Drop
  <2>2. inbox'[c] = inbox[c] \/ inbox'[c] = <<>> \/ (inbox[c] # <<>> /\ inbox'[c] = Tail(inbox[c]))
    BY <2>1 DEF RecordInv, TypeOK
  <2>3. CASE inbox[c] # <<>> /\ inbox'[c] = Tail(inbox[c])
    BY <1>0, <1>1, <2>3, HeadTail
  <2> QED BY <1>1, <2>2, <2>3
<1>5. CASE Commit
  BY <1>3, <1>5, RowsAppend DEF RecordInv, streams
<1> QED BY <1>2, <1>3, <1>4, <1>5, FaultFree DEF RecordInv, streams

LEMMA SentRecorded ==
  ASSUME NoFault', RecordInv, [Next]_vars
  PROVE  \A c \in Clients : \A i \in DOMAIN shown'[c] : RecordedIn(log', pending', shown'[c][i])
<1> SUFFICES ASSUME NEW c \in Clients
             PROVE  \A i \in DOMAIN shown'[c] : RecordedIn(log', pending', shown'[c][i])
  OBVIOUS
<1>0. shown[c] \in Seq(Messages) /\ inbox[c] \in Seq(Messages)
  BY DEF RecordInv, TypeOK
<1>1. \A i \in DOMAIN shown[c] : RecordedIn(log', pending', shown[c][i])
  BY <1>0, SeqNumber, RecordedStays DEF RecordInv
<1>2. CASE UNCHANGED shown
  BY <1>1, <1>2
<1>3. ASSUME NEW d \in Clients, NEW t \in Prefixes(Stored(After(d))), UNCHANGED writers,
             shown' = [shown EXCEPT ![d] = @ \o t]
      PROVE  \A i \in DOMAIN shown'[c] : RecordedIn(log', pending', shown'[c][i])
  <2>1. After(d) \in Nat /\ log \in Seq(Kinds)
    BY AfterIsNumber DEF RecordInv, TypeOK
  <2>2. log' = log /\ pending' = pending
    BY <1>3 DEF writers
  <2>3. t \in Seq(Messages) /\ \A i \in DOMAIN t : RecordedIn(log', pending', t[i])
    BY <2>1, <2>2, StoredMessages, PrefixMessages DEF RecordedIn
  <2>4. shown'[c] = shown[c] \/ shown'[c] = shown[c] \o t
    BY <1>3 DEF RecordInv, TypeOK
  <2>5. \A i \in DOMAIN (shown[c] \o t) :
          \/ i \in DOMAIN shown[c] /\ (shown[c] \o t)[i] = shown[c][i]
          \/ i - Len(shown[c]) \in DOMAIN t /\ (shown[c] \o t)[i] = t[i - Len(shown[c])]
    BY <1>0, <2>3
  <2> QED BY <1>1, <2>3, <2>4, <2>5
<1>4. ASSUME NEW d \in Clients, Deliver(d)
      PROVE  \A i \in DOMAIN shown'[c] : RecordedIn(log', pending', shown'[c][i])
  <2> DEFINE m == Head(inbox[d])
  <2>1. inbox[d] # <<>> /\ inbox[d] \in Seq(Messages) /\ log' = log /\ pending' = pending
    BY <1>4 DEF Deliver, writers, RecordInv, TypeOK
  <2>2. RecordedIn(log', pending', m)
    BY <2>1, HeadTail DEF RecordInv
  <2>3. shown'[c] = shown[c] \/ shown'[c] = Append(shown[c], m)
    BY <1>4 DEF Deliver, Send, RecordInv, TypeOK
  <2>4. \A i \in DOMAIN Append(shown[c], m) :
          Append(shown[c], m)[i] = m \/ (i \in DOMAIN shown[c] /\ Append(shown[c], m)[i] = shown[c][i])
    BY <1>0
  <2> QED BY <1>1, <2>2, <2>3, <2>4
<1>5. ASSUME NEW d \in Clients, Connect(d) \/ Subscribe(d) \/ Replay(d) \/ Drop(d)
      PROVE  \A i \in DOMAIN shown'[c] : RecordedIn(log', pending', shown'[c][i])
  BY <1>2, <1>3, <1>5 DEF Connect, Subscribe, Replay, Drop, Prefixes
<1>6. CASE Commit \/ \E k \in Kinds : Publish(k)
  BY <1>2, <1>6, RowsAppend DEF RecordInv, streams, Publish
<1> QED BY <1>2, <1>4, <1>5, <1>6, FaultFree DEF RecordInv, streams, StreamStep

LEMMA EndRecorded ==
  ASSUME NoFault', RecordInv, [Next]_vars
  PROVE  /\ status' = "terminal" => EndIn(log', NoRow)
         /\ \A c \in Clients : known'[c] => EndIn(log', NoRow)
<1>1. EndIn(log, NoRow) => EndIn(log', NoRow)
  BY EndStays DEF RecordInv
<1>2. status' = "terminal" => EndIn(log', NoRow)
  <2>1. CASE UNCHANGED status
    BY <1>1, <2>1 DEF RecordInv
  <2>2. CASE Commit
    <3>1. ~UNCHANGED status => pending = "final" \/ status' # "terminal"
      BY <2>2 DEF Commit
    <3> QED BY <2>1, <2>2, <3>1, RowsAppend DEF EndIn, RecordInv
  <2> QED BY <2>1, <2>2, FaultFree DEF writers, RecordInv
<1>3. ASSUME NEW c \in Clients, known'[c] PROVE EndIn(log', NoRow)
  <2>1. CASE UNCHANGED known
    BY <1>1, <1>3, <2>1 DEF RecordInv
  <2>2. ASSUME NEW d \in Clients, Connect(d) PROVE EndIn(log', NoRow)
    <3>1. known'[c] = known[c] \/ known'[c] = (status = "terminal")
      BY <2>2 DEF Connect, RecordInv, TypeOK
    <3> QED BY <1>1, <1>3, <3>1 DEF RecordInv
  <2>3. ASSUME NEW d \in Clients, StreamStep(d) \/ Drop(d) PROVE UNCHANGED known
    BY <2>3 DEF StreamStep, Subscribe, Replay, Deliver, Drop
  <2>4. CASE Commit \/ \E k \in Kinds : Publish(k)
    BY <2>1, <2>4, RowsAppend DEF RecordInv, streams, Publish
  <2> QED BY <2>1, <2>2, <2>3, <2>4, FaultFree DEF RecordInv, streams
<1> QED BY <1>2, <1>3

LEMMA ClosedRecorded ==
  ASSUME NoFault', RecordInv, [Next]_vars
  PROVE  \A c \in Clients : conn'[c] = "closed" => EndIn(log', pending')
<1> SUFFICES ASSUME NEW c \in Clients, conn'[c] = "closed"
             PROVE  EndIn(log', pending')
  OBVIOUS
<1>1. EndIn(log, pending) => EndIn(log', pending')
  BY EndStays DEF RecordInv
<1>2. CASE conn[c] = "closed"
  BY <1>1, <1>2 DEF RecordInv
<1>3. ASSUME NEW d \in Clients, Replay(d), conn[c] # "closed" PROVE EndIn(log, pending)
  <2>1. known[c]
    BY <1>3 DEF Replay, RecordInv, TypeOK
  <2> QED BY <2>1 DEF RecordInv, EndIn, NoRow
<1>4. ASSUME NEW d \in Clients, Deliver(d), conn[c] # "closed" PROVE EndIn(log, pending)
  <2>1. c = d /\ inbox[d] # <<>> /\ Head(inbox[d]).kind = "final"
    BY <1>4 DEF Deliver, Send, RecordInv, TypeOK
  <2>2. inbox[d] \in Seq(Messages)
    BY DEF RecordInv, TypeOK
  <2>3. RecordedIn(log, pending, Head(inbox[d]))
    BY <2>1, <2>2, HeadTail DEF RecordInv
  <2> QED BY <2>1, <2>3 DEF RecordedIn, EndIn
<1>5. ASSUME NEW d \in Clients, Connect(d) \/ Subscribe(d) \/ Drop(d) PROVE conn[c] = "closed"
  BY <1>5 DEF Connect, Subscribe, Drop, RecordInv, TypeOK
<1>6. CASE UNCHANGED conn
  BY <1>2, <1>6
<1>7. CASE Commit \/ \E k \in Kinds : Publish(k)
  BY <1>6, <1>7, RowsAppend DEF RecordInv, streams, Publish
<1> QED BY <1>1, <1>2, <1>3, <1>4, <1>5, <1>6, <1>7, FaultFree DEF RecordInv, streams, StreamStep

\* The invariant: as long as nothing has failed, RecordInv.
SoundInv == TypeOK /\ (NoFault => RecordInv)

LEMMA SoundInit == Init => SoundInv
  BY TypeInit DEF Init, SoundInv, RecordInv

LEMMA SoundNext == SoundInv /\ [Next]_vars => SoundInv'
<1> SUFFICES ASSUME SoundInv, [Next]_vars PROVE SoundInv'
  OBVIOUS
<1>1. TypeOK'
  BY TypeNext DEF SoundInv
<1>2. ASSUME NoFault' PROVE RecordInv'
  <2>1. NoFault
    <3>1. ~Rollback /\ ~Restart
      BY <1>2 DEF NoFault, SoundInv, TypeOK, Rollback, Restart
    <3>2. CASE WriterStep
      BY <1>2, <3>2 DEF NoFault, WriterStep, WorkerEvent, WorkerEnds, WorkerCancels, CancelLoad,
                        CancelEvent, Commit, Publish, bounds
    <3>3. ASSUME NEW c \in Clients, Connect(c) \/ StreamStep(c) \/ Drop(c) PROVE NoFault
      BY <1>2, <3>3 DEF NoFault, Connect, StreamStep, Subscribe, Replay, Deliver, Drop, bounds
    <3>4. CASE UNCHANGED vars
      BY <1>2, <3>4 DEF NoFault, vars, bounds
    <3> QED BY <3>1, <3>2, <3>3, <3>4 DEF Next
  <2>2. RecordInv
    BY <2>1 DEF SoundInv
  <2> QED BY <1>1, <1>2, <2>2, QueueRecorded, SentRecorded, EndRecorded, ClosedRecorded
          DEF RecordInv, NoRow
<1> QED BY <1>1, <1>2 DEF SoundInv

\* Everything a client was sent is in the table or about to be, until a
\* transaction fails after its publish or the process ends in one.
THEOREM SentEventsAreRecorded == Spec => []ShownIsRecorded
<1>1. SoundInv => ShownIsRecorded
  BY DEF SoundInv, RecordInv, ShownIsRecorded, Persisted, Uncommitted, RecordedIn, NextSeq
<1> QED BY SoundInit, SoundNext, <1>1, PTL DEF Spec

\* Until then, a stream that closed by itself belongs to a task that has ended.
THEOREM ClosedStreamsEnded == Spec => []ClosedAfterEnd
<1>1. SoundInv => ClosedAfterEnd
  BY DEF SoundInv, RecordInv, ClosedAfterEnd, EndIn
<1> QED BY SoundInit, SoundNext, <1>1, PTL DEF Spec
=============================================================================
