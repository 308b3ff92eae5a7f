--------------------------- MODULE TunnelAgentProofs ---------------------------
(***************************************************************************)
(* Proofs about TunnelAgent: the frames of every request are in order, and *)
(* a cancel and the end of a connection find every request that runs; for  *)
(* any number of requests, connections, ids and chunks.                    *)
(*                                                                         *)
(* The two need each other.  That a 499 comes once rests on the entries of *)
(* _inflight, which never name a task that was cancelled already; and a    *)
(* report of a failure is only sent where nothing final was, since a       *)
(* connection that has ended does not come back.                           *)
(***************************************************************************)
EXTENDS TunnelAgent, TLAPS

\* Nothing comes after a final frame; no final frame yet, after the start.
Ordered(fs) == \A i \in DOMAIN fs : fs[i] \in Finals => i = Len(fs)
Begun(fs) ==
  /\ fs # <<>> /\ fs[1] = "start"
  /\ \A i \in DOMAIN fs : fs[i] \notin Finals /\ (fs[i] = "start" => i = 1)

\* What was sent for a request, where its task is.
Sequenced(r) ==
  /\ InOrder(frames[r], cancel[r] = "taken")
  /\ place[r] \in {"unborn", "new"} => frames[r] = <<>>
  /\ place[r] = "call" => Begun(frames[r])
  /\ place[r] = "sending" =>
       /\ frame[r] = "start" => frames[r] = <<>>
       /\ frame[r] \in {"chunk", "end"} => Begun(frames[r])
       /\ frame[r] = "failed" /\ Up(r) => Begun(frames[r])
       /\ frame[r] = "cancelled" => cancel[r] = "taken" /\ Ordered(frames[r])
  /\ place[r] = "written" =>
       /\ frames[r] # <<>> /\ frames[r][Len(frames[r])] = frame[r]
       /\ frame[r] \in {"start", "chunk"} => Begun(frames[r])
       /\ frame[r] = "end" => Ordered(frames[r])
       /\ frame[r] = "cancelled" => cancel[r] = "taken"
  /\ place[r] = "done" /\ Up(r) /\ cancel[r] = "no" => Answered(frames[r])

Born ==
  \A r \in Requests :
    /\ place[r] = "unborn" <=> r > arrived
    /\ ofConn[r] <= connection
    /\ IF place[r] = "unborn" THEN cancel[r] = "no" ELSE ofId[r] \in Ids

\* The connection that is used has not ended in the orderly way.
Orderly ==
  /\ gone \subseteq 0..connection
  /\ loop \in {"hello", "recv", "pong"} => connection \notin gone

\* Among the requests that have come, no other has the id.
Only(r) == \A q \in Requests : place[q] # "unborn" /\ ofId[q] = ofId[r] => q = r

Found ==
  \A r \in Requests :
    Running(r) /\ cancel[r] = "no" /\ Only(r) =>
      inflight[ofId[r]] = r /\ ofConn[r] \notin gone

Entered ==
  \A i \in Ids : inflight[i] # None =>
    /\ Running(inflight[i]) /\ ofId[inflight[i]] = i
    /\ cancel[inflight[i]] = "no"

IInv == TypeOK /\ Born /\ Orderly /\ Found /\ Entered /\ \A r \in Requests : Sequenced(r)

-----------------------------------------------------------------------------
(* Sequences of frames. *)

LEMMA AppendFacts ==
  ASSUME NEW fs \in Seq(Frames), NEW f \in Frames
  PROVE  /\ Append(fs, f) \in Seq(Frames)
         /\ Len(Append(fs, f)) = Len(fs) + 1 /\ Len(fs) \in Nat
         /\ DOMAIN fs = 1..Len(fs) /\ DOMAIN Append(fs, f) = 1..(Len(fs) + 1)
         /\ Append(fs, f)[Len(fs) + 1] = f
         /\ \A i \in 1..Len(fs) : Append(fs, f)[i] = fs[i]
         /\ Append(fs, f) # <<>>
OBVIOUS

\* The start of an answer.
LEMMA SendStart ==
  ASSUME NEW taken
  PROVE  Begun(Append(<<>>, "start")) /\ InOrder(Append(<<>>, "start"), taken)
<1>1. Append(<<>>, "start") = <<"start">>
  OBVIOUS
<1> QED BY <1>1 DEF Begun, InOrder, Finals

\* One more chunk.
LEMMA SendChunk ==
  ASSUME NEW fs \in Seq(Frames), NEW taken, Begun(fs)
  PROVE  Begun(Append(fs, "chunk")) /\ InOrder(Append(fs, "chunk"), taken)
<1>1. "chunk" \in Frames /\ "chunk" \notin Finals /\ "start" \notin Finals
  BY DEF Frames, Finals
<1>2. fs # <<>> => Len(fs) >= 1
  OBVIOUS
<1> QED BY <1>1, <1>2, AppendFacts DEF Begun, InOrder

\* The final frame.
LEMMA SendFinal ==
  ASSUME NEW fs \in Seq(Frames), NEW taken, Begun(fs), NEW f \in {"end", "failed"}
  PROVE  Ordered(Append(fs, f)) /\ InOrder(Append(fs, f), taken)
<1>1. f \in Frames /\ f # "start" /\ "start" \notin Finals
  BY DEF Frames, Finals
<1>2. Len(fs) >= 1
  BY DEF Begun
<1> QED BY <1>1, <1>2, AppendFacts DEF Begun, InOrder, Ordered

\* The 499 of a request that was cancelled.
LEMMA SendCancelled ==
  ASSUME NEW fs \in Seq(Frames), Ordered(fs), InOrder(fs, TRUE)
  PROVE  InOrder(Append(fs, "cancelled"), TRUE)
<1> DEFINE gs == Append(fs, "cancelled")
<1>1. "cancelled" \in Frames /\ "cancelled" # "start"
  BY DEF Frames, Finals
<1>2. /\ Len(gs) = Len(fs) + 1 /\ Len(fs) \in Nat
      /\ DOMAIN fs = 1..Len(fs) /\ DOMAIN gs = 1..(Len(fs) + 1)
      /\ gs[Len(fs) + 1] = "cancelled" /\ \A i \in 1..Len(fs) : gs[i] = fs[i]
  BY <1>1, AppendFacts
<1> HIDE DEF gs
<1>3. ASSUME NEW i \in DOMAIN gs
      PROVE  /\ gs[i] = "start" => i = 1
             /\ i = 1 => gs[i] \in {"start", "cancelled"}
             /\ gs[i] \in Finals => i = Len(gs) \/ (i + 1 = Len(gs) /\ gs[i + 1] = "cancelled")
  <2>1. CASE i = Len(fs) + 1
    BY <1>2, <2>1
  <2>2. CASE i \in 1..Len(fs)
    <3>1. gs[i] = fs[i] /\ i \in DOMAIN fs
      BY <1>2, <2>2
    <3>2. gs[i] \in Finals => i = Len(fs)
      BY <3>1 DEF Ordered
    <3> QED BY <1>2, <3>1, <3>2 DEF InOrder
  <2> QED BY <1>2, <2>1, <2>2
<1> QED BY <1>3 DEF InOrder, gs

LEMMA LaterTaken ==
  ASSUME NEW fs, NEW a \in BOOLEAN, InOrder(fs, a)
  PROVE  InOrder(fs, TRUE)
BY DEF InOrder

LEMMA BegunIsOrdered ==
  ASSUME NEW fs, Begun(fs)
  PROVE  Ordered(fs)
BY DEF Begun, Ordered

-----------------------------------------------------------------------------
(* The receiving coroutine. *)

\* The tasks and _inflight stay; a connection that has ended does not come back.
LEMMA LoopKeeps ==
  ASSUME IInv, TypeOK', Orderly', connection <= connection', gone' = gone,
         UNCHANGED <<arrived, ofId, ofConn, place, frame, cancel, inflight, frames>>,
         \A r \in Requests : Up(r)' => Up(r)
  PROVE  IInv'
<1>1. \A r \in Requests : Sequenced(r)'
  <2> SUFFICES ASSUME NEW r \in Requests PROVE Sequenced(r)'
    OBVIOUS
  <2>1. Sequenced(r) /\ (Up(r)' => Up(r))
    BY DEF IInv
  <2> QED BY <2>1 DEF Sequenced
<1>2. Born'
  <2>1. connection \in Nat /\ connection' \in Nat /\ \A r \in Requests : ofConn[r] \in Nat
    BY DEF IInv, TypeOK
  <2> QED BY <2>1 DEF IInv, Born
<1>3. Found'
  BY DEF IInv, Found, Running, Only
<1>4. Entered'
  BY DEF IInv, Entered, Running
<1> QED BY <1>1, <1>2, <1>3, <1>4 DEF IInv

LEMMA ConnectStep ==
  ASSUME IInv, Connect PROVE IInv'
<1>1. /\ UNCHANGED <<backoff, gone, arrived, ofId, ofConn, place, frame, cancel, inflight, holder, frames>>
      /\ \/ loop' = "hello" /\ connection' = connection + 1 /\ live' = TRUE
         \/ loop' = "pause" /\ connection' = connection /\ live' = live
  BY DEF Connect
<1>2. connection \in Nat /\ TypeOK /\ Orderly
  BY DEF IInv, TypeOK
<1>3. TypeOK'
  <2>1. connection' \in Nat /\ loop' \in {"connect", "pause", "hello", "recv", "pong"}
    BY <1>1, <1>2
  <2>2. live' \in BOOLEAN
    BY <1>1, <1>2 DEF TypeOK
  <2> QED BY <1>1, <1>2, <2>1, <2>2 DEF TypeOK
<1>4. Orderly'
  BY <1>1, <1>2 DEF Orderly
<1>5. ASSUME NEW r \in Requests, Up(r)' PROVE Up(r)
  <2>1. ofConn[r] <= connection /\ ofConn[r] \in Nat
    BY <1>2 DEF IInv, Born, TypeOK
  <2>2. ofConn[r] # connection + 1
    BY <1>2, <2>1
  <2>3. ofConn[r] = connection'
    BY <1>1, <1>5 DEF Up
  <2>4. live' = live /\ connection' = connection
    BY <1>1, <2>2, <2>3
  <2> QED BY <1>5, <2>3, <2>4 DEF Up
<1>6. connection <= connection'
  BY <1>1, <1>2
<1> QED BY <1>1, <1>3, <1>4, <1>5, <1>6, LoopKeeps

LEMMA LoopSteps ==
  ASSUME IInv, HelloAnswer \/ Wake \/ ReceivePing \/ Pong \/ ReceiveGarbage \/ Lose
  PROVE  IInv'
<1>1. /\ UNCHANGED <<connection, gone, arrived, ofId, ofConn, place, frame, cancel, inflight, holder, frames>>
      /\ live' = live \/ live' = FALSE
      /\ backoff' = backoff \/ backoff' = Doubled(backoff)
      /\ \/ loop' \in {"pause", "connect"}
         \/ loop' = loop
         \/ loop \in {"hello", "recv", "pong"} /\ loop' \in {"recv", "pong"}
  BY DEF HelloAnswer, Wake, ReceivePing, Pong, ReceiveGarbage, Lose
<1>2. TypeOK /\ Orderly
  BY DEF IInv
<1>3. TypeOK'
  <2>1. Doubled(backoff) \in 1..MaxBackoff
    BY <1>2, TunnelBounds DEF TypeOK, Doubled
  <2> QED BY <1>1, <1>2, <2>1 DEF TypeOK
<1>4. Orderly'
  BY <1>1, <1>2 DEF Orderly
<1>5. \A r \in Requests : Up(r)' => Up(r)
  BY <1>1 DEF Up
<1>6. connection <= connection'
  BY <1>1, <1>2 DEF TypeOK
<1> QED BY <1>1, <1>3, <1>4, <1>5, <1>6, LoopKeeps

LEMMA ReceiveRequestStep ==
  ASSUME IInv, NEW i \in Ids, ReceiveRequest(i) PROVE IInv'
<1> DEFINE n == arrived + 1
<1>1. /\ loop = "recv" /\ arrived < MaxRequests /\ arrived' = n
      /\ ofId' = [ofId EXCEPT ![n] = i] /\ ofConn' = [ofConn EXCEPT ![n] = connection]
      /\ place' = [place EXCEPT ![n] = "new"] /\ inflight' = [inflight EXCEPT ![i] = n]
      /\ UNCHANGED <<loop, backoff, connection, live, gone, frame, cancel, holder, frames>>
  BY DEF ReceiveRequest, loopVars
<1>2. TypeOK /\ Born /\ Orderly /\ Found /\ Entered
  BY DEF IInv
<1>3. n \in Requests /\ arrived \in Nat /\ n > arrived /\ n # None /\ connection \in Nat
  BY <1>1, <1>2, TunnelBounds DEF TypeOK, Requests, None
<1>5. place[n] = "unborn" /\ cancel[n] = "no"
  BY <1>2, <1>3 DEF Born
<1> HIDE DEF n
<1>6. TypeOK'
  <2>1. arrived' \in 0..MaxRequests
    BY <1>1, <1>2, <1>3, TunnelBounds DEF TypeOK, n
  <2>2. ofId' \in [Requests -> Ids \cup {None}] /\ ofConn' \in [Requests -> Nat]
    BY <1>1, <1>2, <1>3 DEF TypeOK
  <2>3. place' \in [Requests -> Places] /\ inflight' \in [Ids -> Requests \cup {None}]
    BY <1>1, <1>2, <1>3 DEF TypeOK, Places
  <2> QED BY <1>1, <1>2, <2>1, <2>2, <2>3 DEF TypeOK
<1>7. /\ \A q \in Requests : /\ ofId'[q] = IF q = n THEN i ELSE ofId[q]
                             /\ ofConn'[q] = IF q = n THEN connection ELSE ofConn[q]
                             /\ place'[q] = IF q = n THEN "new" ELSE place[q]
      /\ \A j \in Ids : inflight'[j] = IF j = i THEN n ELSE inflight[j]
  BY <1>1, <1>2, <1>3 DEF TypeOK
<1>8. Born'
  <2>1. \A r \in Requests : (r > arrived' <=> r > arrived /\ r # n) /\ ofConn[r] <= connection
    BY <1>1, <1>2, <1>3 DEF Born, Requests, n
  <2>2. connection <= connection
    BY <1>3
  <2> QED BY <1>1, <1>2, <1>5, <1>7, <2>1, <2>2 DEF Born
<1>9. Orderly'
  BY <1>1, <1>2 DEF Orderly
<1>10. ASSUME NEW r \in Requests PROVE Sequenced(r)'
  <2>1. Sequenced(r) /\ Sequenced(n)
    BY <1>3 DEF IInv
  <2>2. CASE r = n
    BY <1>1, <1>5, <1>7, <2>1, <2>2 DEF Sequenced
  <2>3. CASE r # n
    <3>1. Up(r)' <=> Up(r)
      BY <1>1, <1>7, <2>3 DEF Up
    <3> QED BY <1>1, <1>7, <2>1, <2>3, <3>1 DEF Sequenced
  <2> QED BY <2>2, <2>3
<1>11. Found'
  <2> SUFFICES ASSUME NEW r \in Requests, (Running(r) /\ cancel[r] = "no" /\ Only(r))'
               PROVE  (inflight[ofId[r]] = r /\ ofConn[r] \notin gone)'
    BY DEF Found
  <2>1. CASE r = n
    <3>1. connection \notin gone
      BY <1>1, <1>2 DEF Orderly
    <3> QED BY <1>1, <1>3, <1>7, <2>1, <3>1
  <2>2. CASE r # n
    <3>1. ofId[r] # i
      BY <1>3, <1>7, <2>2 DEF Only
    <3>2. Running(r) /\ cancel[r] = "no" /\ Only(r)
      BY <1>1, <1>5, <1>7, <2>2 DEF Running, Only
    <3>3. ofId[r] \in Ids
      BY <1>2, <3>2 DEF Born, Running
    <3> QED BY <1>1, <1>2, <1>7, <2>2, <3>1, <3>2, <3>3 DEF Found
  <2> QED BY <2>1, <2>2
<1>12. Entered'
  <2> SUFFICES ASSUME NEW j \in Ids, inflight'[j] # None
               PROVE  (/\ Running(inflight[j]) /\ ofId[inflight[j]] = j
                       /\ cancel[inflight[j]] = "no")'
    BY DEF Entered
  <2>1. CASE j = i
    BY <1>1, <1>3, <1>5, <1>7, <2>1 DEF Running
  <2>2. CASE j # i
    <3>1. inflight'[j] = inflight[j] /\ inflight[j] \in Requests /\ inflight[j] # n
      BY <1>2, <1>5, <1>7, <2>2 DEF Entered, TypeOK, Running
    <3> QED BY <1>1, <1>2, <1>7, <2>2, <3>1 DEF Entered, Running
  <2> QED BY <2>1, <2>2
<1> QED BY <1>6, <1>8, <1>9, <1>10, <1>11, <1>12 DEF IInv
\* Requests are cancelled and their entries leave: what is in _inflight was not cancelled,
\* and still is not.
LEMMA CancelKeeps ==
  ASSUME IInv, TypeOK', Orderly',
         UNCHANGED <<connection, arrived, ofId, ofConn, place, frame, frames>>,
         live' = live, NEW ts,
         \A r \in ts : r \in Requests =>
           Running(r) /\ cancel[r] = "no" /\ inflight'[ofId[r]] # r,
         cancel' = CancelOf(ts),
         \A i \in Ids : inflight'[i] = inflight[i] \/ (inflight'[i] = None /\ inflight[i] \in ts \cup {None}),
         \A r \in Requests : r \notin ts /\ Running(r) /\ cancel[r] = "no" /\ Only(r)
                               => ofConn[r] \notin gone'
  PROVE  IInv'
<1>1. TypeOK /\ Born /\ Found /\ Entered
  BY DEF IInv
<1>2. \A r \in Requests : cancel'[r] = IF r \in ts THEN "asked" ELSE cancel[r]
  BY DEF CancelOf
<1>3. \A r \in Requests : Up(r)' <=> Up(r)
  BY DEF Up
<1>4. ASSUME NEW r \in Requests PROVE Sequenced(r)'
  <2>1. Sequenced(r)
    BY DEF IInv
  <2>2. cancel'[r] = cancel[r] \/ (cancel[r] = "no" /\ cancel'[r] = "asked")
    BY <1>2
  <2> QED BY <1>3, <2>1, <2>2 DEF Sequenced
<1>5. Born'
  BY <1>1, <1>2 DEF Born, Running
<1>6. Found'
  <2> SUFFICES ASSUME NEW r \in Requests, (Running(r) /\ cancel[r] = "no" /\ Only(r))'
               PROVE  (inflight[ofId[r]] = r /\ ofConn[r] \notin gone)'
    BY DEF Found
  <2>1. r \notin ts /\ Running(r) /\ cancel[r] = "no" /\ Only(r)
    BY <1>2 DEF Running, Only
  <2>2. inflight[ofId[r]] = r /\ ofId[r] \in Ids /\ r # None
    BY <1>1, <2>1 DEF Found, Born, Running, Requests, None
  <2> QED BY <2>1, <2>2
<1>7. Entered'
  <2> SUFFICES ASSUME NEW i \in Ids, inflight'[i] # None
               PROVE  (/\ Running(inflight[i]) /\ ofId[inflight[i]] = i
                       /\ cancel[inflight[i]] = "no")'
    BY DEF Entered
  <2>1. inflight'[i] = inflight[i] /\ inflight[i] \in Requests
    BY <1>1 DEF TypeOK
  <2>2. Running(inflight[i]) /\ ofId[inflight[i]] = i /\ cancel[inflight[i]] = "no"
    BY <1>1, <2>1 DEF Entered
  <2>3. inflight[i] \notin ts
    BY <2>1, <2>2
  <2> QED BY <1>2, <2>1, <2>2, <2>3 DEF Running
<1> QED BY <1>4, <1>5, <1>6, <1>7 DEF IInv

LEMMA ReceiveCancelStep ==
  ASSUME IInv, NEW i \in Ids, ReceiveCancel(i) PROVE IInv'
<1>1. /\ inflight[i] # None /\ cancel' = CancelOf({inflight[i]})
      /\ inflight' = [inflight EXCEPT ![i] = None]
      /\ UNCHANGED <<loop, backoff, connection, live, gone, arrived, ofId, ofConn, place, frame, holder, frames>>
  BY DEF ReceiveCancel, loopVars
<1>2. TypeOK /\ Found /\ Entered
  BY DEF IInv
<1>3. /\ inflight[i] \in Requests /\ Running(inflight[i]) /\ cancel[inflight[i]] = "no"
      /\ ofId[inflight[i]] = i /\ inflight'[i] = None /\ inflight[i] # None
  BY <1>1, <1>2 DEF TypeOK, Entered
<1>4. TypeOK'
  <2>1. cancel' \in [Requests -> {"no", "asked", "taken"}]
    BY <1>1, <1>2 DEF TypeOK, CancelOf
  <2>2. inflight' \in [Ids -> Requests \cup {None}]
    BY <1>1, <1>2 DEF TypeOK
  <2> QED BY <1>1, <1>2, <2>1, <2>2 DEF TypeOK
<1>5. Orderly'
  BY <1>1 DEF IInv, Orderly
<1>6. /\ \A r \in {inflight[i]} : r \in Requests =>
           Running(r) /\ cancel[r] = "no" /\ inflight'[ofId[r]] # r
      /\ \A j \in Ids : inflight'[j] = inflight[j] \/ (inflight'[j] = None /\ inflight[j] \in {inflight[i]} \cup {None})
  BY <1>1, <1>2, <1>3 DEF TypeOK
<1>7. \A r \in Requests : r \notin {inflight[i]} /\ Running(r) /\ cancel[r] = "no" /\ Only(r)
                            => ofConn[r] \notin gone'
  BY <1>1, <1>2 DEF Found
<1> QED BY <1>1, <1>4, <1>5, <1>6, <1>7, CancelKeeps

LEMMA GoneStep ==
  ASSUME IInv, Gone PROVE IInv'
<1>1. /\ loop' = "connect" /\ backoff' = 1 /\ gone' = gone \cup {connection}
      /\ cancel' = CancelOf(Entries) /\ inflight' = [i \in Ids |-> None]
      /\ UNCHANGED <<connection, live, arrived, ofId, ofConn, place, frame, holder, frames>>
  BY DEF Gone
<1>2. TypeOK /\ Found /\ Entered /\ Born
  BY DEF IInv
<1>3. TypeOK'
  <2>1. cancel' \in [Requests -> {"no", "asked", "taken"}]
    BY <1>1, <1>2 DEF TypeOK, CancelOf
  <2>2. inflight' \in [Ids -> Requests \cup {None}]
    BY <1>1
  <2>3. backoff' \in 1..MaxBackoff
    BY <1>1, TunnelBounds
  <2> QED BY <1>1, <1>2, <2>1, <2>2, <2>3 DEF TypeOK
<1>4. Orderly'
  BY <1>1, <1>2 DEF IInv, Orderly, TypeOK
<1>5. /\ \A r \in Entries : r \in Requests =>
           Running(r) /\ cancel[r] = "no" /\ inflight'[ofId[r]] # r
      /\ \A i \in Ids : inflight'[i] = None /\ inflight[i] \in Entries
  <2>1. ASSUME NEW r \in Entries, r \in Requests
        PROVE Running(r) /\ cancel[r] = "no" /\ inflight'[ofId[r]] # r
    <3>1. PICK i \in Ids : r = inflight[i]
      BY <2>1 DEF Entries
    <3>2. r # None
      BY <2>1 DEF Requests, None
    <3> QED BY <1>1, <1>2, <3>1, <3>2 DEF Entered
  <2> QED BY <1>1, <2>1 DEF Entries
<1>6. ASSUME NEW r \in Requests, r \notin Entries, Running(r), cancel[r] = "no", Only(r)
      PROVE ofConn[r] \notin gone'
  <2>1. inflight[ofId[r]] = r /\ ofId[r] \in Ids
    BY <1>2, <1>6 DEF Found, Born, Running
  <2> QED BY <1>6, <2>1 DEF Entries
<1> QED BY <1>1, <1>3, <1>4, <1>5, <1>6, CancelKeeps

-----------------------------------------------------------------------------
(* The task of a request. *)

\* It changes nothing but its own and, at its end, the entry of its id.
TaskKeeps(r) ==
  /\ place[r] \notin {"unborn", "done"} /\ place'[r] # "unborn"
  /\ UNCHANGED <<loop, backoff, connection, live, gone, arrived, ofId, ofConn>>
  /\ \A q \in Requests \ {r} :
       place'[q] = place[q] /\ frame'[q] = frame[q] /\ cancel'[q] = cancel[q] /\ frames'[q] = frames[q]
  /\ \/ cancel'[r] = cancel[r]
     \/ cancel[r] = "asked" /\ cancel'[r] = "taken"
  /\ \/ inflight' = inflight /\ (Running(r)' \/ cancel[r] = "asked")
     \/ inflight' = [inflight EXCEPT ![ofId[r]] = None] /\ ~Running(r)'

LEMMA TaskStep ==
  ASSUME IInv, NEW r \in Requests, TaskKeeps(r), TypeOK', Sequenced(r)'
  PROVE  IInv'
<1>1. TypeOK /\ Born /\ Orderly /\ Found /\ Entered
  BY DEF IInv
<1>2. ASSUME NEW q \in Requests PROVE Sequenced(q)'
  <2>1. CASE q = r
    BY <2>1
  <2>2. CASE q # r
    <3>1. Sequenced(q) /\ (Up(q)' <=> Up(q))
      BY DEF IInv, Up, TaskKeeps
    <3>2. place'[q] = place[q] /\ frame'[q] = frame[q] /\ cancel'[q] = cancel[q] /\ frames'[q] = frames[q]
      BY <2>2 DEF TaskKeeps
    <3>3. Up(q)' <=> Up(q)
      BY <3>1
    <3> QED BY <3>1, <3>2, <3>3 DEF Sequenced
  <2> QED BY <2>1, <2>2
<1>3. Born'
  BY <1>1 DEF Born, TaskKeeps
<1>4. Orderly'
  BY <1>1 DEF Orderly, TaskKeeps
<1>5. \A q \in Requests : q # r => (Running(q)' <=> Running(q)) /\ cancel'[q] = cancel[q]
  BY DEF Running, TaskKeeps
<1>6. Running(r) /\ \A q \in Requests : Only(q)' => Only(q)
  BY DEF Running, Only, TaskKeeps
<1>7. ofId[r] \in Ids /\ ofId' = ofId /\ ofConn' = ofConn /\ gone' = gone
  BY <1>1 DEF Born, TaskKeeps
<1>8. Found'
  <2> SUFFICES ASSUME NEW q \in Requests, Running(q)', cancel'[q] = "no", Only(q)'
               PROVE  inflight'[ofId[q]] = q /\ ofConn[q] \notin gone
    BY <1>7 DEF Found
  <2>1. Running(q) /\ cancel[q] = "no" /\ Only(q)
    BY <1>5, <1>6 DEF TaskKeeps
  <2>2. inflight[ofId[q]] = q /\ ofConn[q] \notin gone /\ ofId[q] \in Ids
    BY <1>1, <2>1 DEF Found, Born, Running
  <2>3. CASE q = r
    BY <2>2, <2>3 DEF TaskKeeps
  <2>4. CASE q # r
    <3>1. ofId[q] # ofId[r]
      BY <1>6, <2>1, <2>4 DEF Only, Running
    <3> QED BY <1>1, <2>2, <3>1 DEF TaskKeeps, TypeOK
  <2> QED BY <2>3, <2>4
<1>9. Entered'
  <2> SUFFICES ASSUME NEW i \in Ids, inflight'[i] # None
               PROVE  /\ Running(inflight[i])' /\ ofId[inflight'[i]] = i
                      /\ cancel'[inflight'[i]] = "no"
    BY <1>7 DEF Entered
  <2>1. inflight'[i] = inflight[i]
    BY <1>1, <1>7 DEF TaskKeeps, TypeOK
  <2>2. /\ Running(inflight[i]) /\ ofId[inflight[i]] = i
        /\ cancel[inflight[i]] = "no" /\ inflight[i] \in Requests
    BY <1>1, <2>1 DEF Entered, TypeOK
  <2>3. CASE inflight[i] = r
    <3>1. cancel[r] = "no" /\ cancel'[r] = "no" /\ i = ofId[r]
      BY <2>2, <2>3 DEF TaskKeeps
    <3>2. inflight'[i] = r
      BY <2>1, <2>3
    <3>3. r # None
      BY <2>1, <2>3
    <3>4. Running(r)'
      BY <1>1, <1>7, <3>1, <3>2, <3>3 DEF TaskKeeps, TypeOK
    <3> QED BY <2>1, <2>2, <2>3, <3>1, <3>4 DEF Running
  <2>4. CASE inflight[i] # r
    <3>1. Running(inflight[i]) /\ inflight'[i] \in Requests /\ inflight'[i] # r
      BY <2>1, <2>2, <2>4
    <3> QED BY <1>5, <2>1, <2>2, <2>4 DEF Running
  <2> QED BY <2>3, <2>4
<1> QED BY <1>2, <1>3, <1>4, <1>8, <1>9 DEF IInv
\* The frames of the task that moves, and what is known of it.
LEMMA AtTask ==
  ASSUME IInv, NEW r \in Requests
  PROVE  /\ TypeOK /\ Sequenced(r) /\ frames[r] \in Seq(Frames) /\ r # None
         /\ place[r] \in Places /\ frame[r] \in Frames
         /\ place[r] # "unborn" => ofId[r] \in Ids
BY DEF IInv, TypeOK, Born, Requests, None

\* Put, with or without Finish.
LEMMA PutTypes ==
  ASSUME TypeOK, NEW r \in Requests, NEW p \in Places, NEW f \in Frames, Put(r, p, f)
  PROVE  /\ place' \in [Requests -> Places] /\ frame' \in [Requests -> Frames]
         /\ place'[r] = p /\ frame'[r] = f
         /\ \A q \in Requests \ {r} : place'[q] = place[q] /\ frame'[q] = frame[q]
BY DEF TypeOK, Put

LEMMA PlaceNames ==
  /\ Places = {"unborn", "new", "sending", "written", "call", "done"}
  /\ Frames = {"start", "chunk", "end", "failed", "cancelled"}
  /\ Finals = {"end", "failed", "cancelled"}
BY DEF Places, Frames, Finals

\* The task goes on to a frame, and sends nothing yet.
LEMMA NextFrame ==
  ASSUME IInv, NEW r \in Requests, NEW f \in Frames,
         place[r] \in {"new", "call"}, Put(r, "sending", f),
         place[r] = "new" => f = "start",
         place[r] = "call" => f \in {"chunk", "end", "failed"},
         UNCHANGED <<loopVars, arrived, ofId, ofConn, cancel, inflight, holder, frames>>
  PROVE  IInv'
<1>1. TypeOK /\ Sequenced(r)
  BY AtTask
<1>2. /\ place' \in [Requests -> Places] /\ frame' \in [Requests -> Frames]
      /\ place'[r] = "sending" /\ frame'[r] = f
      /\ \A q \in Requests \ {r} : place'[q] = place[q] /\ frame'[q] = frame[q]
  BY <1>1, PutTypes, PlaceNames
<1>3. TypeOK'
  BY <1>1, <1>2 DEF TypeOK, loopVars
<1>4. TaskKeeps(r)
  BY <1>2 DEF TaskKeeps, Running, loopVars
<1>5. Sequenced(r)'
  BY <1>1, <1>2 DEF Sequenced
<1> QED BY <1>3, <1>4, <1>5, TaskStep

LEMMA CallSteps ==
  ASSUME IInv, NEW r \in Requests, Begin(r) \/ CallFails(r) \/ Reply(r) \/ Chunk(r)
  PROVE  IInv'
<1>1. PICK f \in {"start", "failed", "end", "chunk"} :
        /\ place[r] \in {"new", "call"} /\ Put(r, "sending", f)
        /\ place[r] = "new" => f = "start"
        /\ place[r] = "call" => f \in {"chunk", "end", "failed"}
        /\ UNCHANGED <<loopVars, arrived, ofId, ofConn, cancel, inflight, holder, frames>>
  BY DEF Begin, CallFails, Reply, Chunk
<1> QED BY <1>1, NextFrame, PlaceNames

\* A send raises: its connection has ended.
LEMMA RaisedStep ==
  ASSUME IInv, NEW r \in Requests, place[r] \in {"sending", "written"}, ~Up(r), Raised(r),
         holder' \in Requests \cup {None},
         UNCHANGED <<loopVars, arrived, ofId, ofConn, cancel, frames>>
  PROVE  IInv'
<1>1. TypeOK /\ Sequenced(r) /\ ofId[r] \in Ids
  BY AtTask
<1>2. ~Up(r)'
  BY DEF Up, loopVars
<1>3. CASE Put(r, "done", "start") /\ inflight' = [inflight EXCEPT ![ofId[r]] = None]
  <2>1. /\ place' \in [Requests -> Places] /\ frame' \in [Requests -> Frames]
        /\ place'[r] = "done" /\ frame'[r] = "start"
        /\ \A q \in Requests \ {r} : place'[q] = place[q] /\ frame'[q] = frame[q]
    BY <1>1, <1>3, PutTypes, PlaceNames
  <2>2. TypeOK'
    <3>1. inflight' \in [Ids -> Requests \cup {None}]
      BY <1>1, <1>3 DEF TypeOK
    <3> QED BY <1>1, <2>1, <3>1 DEF TypeOK, loopVars
  <2>3. TaskKeeps(r)
    BY <1>3, <2>1 DEF TaskKeeps, Running, loopVars
  <2>4. Sequenced(r)'
    BY <1>1, <1>2, <2>1 DEF Sequenced
  <2> QED BY <2>2, <2>3, <2>4, TaskStep
<1>4. CASE Put(r, "sending", "failed") /\ UNCHANGED inflight
  <2>1. /\ place' \in [Requests -> Places] /\ frame' \in [Requests -> Frames]
        /\ place'[r] = "sending" /\ frame'[r] = "failed"
        /\ \A q \in Requests \ {r} : place'[q] = place[q] /\ frame'[q] = frame[q]
    BY <1>1, <1>4, PutTypes, PlaceNames
  <2>2. TypeOK'
    BY <1>1, <1>4, <2>1 DEF TypeOK, loopVars
  <2>3. TaskKeeps(r)
    BY <1>4, <2>1 DEF TaskKeeps, Running, loopVars
  <2>4. Sequenced(r)'
    BY <1>1, <1>2, <2>1 DEF Sequenced
  <2> QED BY <2>2, <2>3, <2>4, TaskStep
<1> QED BY <1>3, <1>4 DEF Raised, Finish

\* A frame is handed to the websocket.
LEMMA WriteFrame ==
  ASSUME IInv, NEW r \in Requests, place[r] = "sending", Up(r),
         Put(r, "written", frame[r]), holder' = r,
         frames' = [frames EXCEPT ![r] = Append(@, frame[r])],
         UNCHANGED <<loopVars, arrived, ofId, ofConn, cancel, inflight>>
  PROVE  IInv'
<1> DEFINE fs == frames[r]
           f == frame[r]
           gs == Append(fs, f)
<1>1. TypeOK /\ Sequenced(r) /\ fs \in Seq(Frames) /\ f \in Frames
  BY AtTask
<1>2. /\ place' \in [Requests -> Places] /\ frame' \in [Requests -> Frames]
      /\ place'[r] = "written" /\ frame'[r] = f
      /\ \A q \in Requests \ {r} : place'[q] = place[q] /\ frame'[q] = frame[q]
  BY <1>1, PutTypes, PlaceNames
<1>3. /\ gs \in Seq(Frames) /\ Len(gs) = Len(fs) + 1 /\ gs[Len(fs) + 1] = f /\ gs # <<>>
      /\ Len(fs) \in Nat
  BY <1>1, AppendFacts
<1>4. frames' \in [Requests -> Seq(Frames)] /\ frames'[r] = gs
      /\ \A q \in Requests \ {r} : frames'[q] = frames[q]
  <2>1. frames' = [frames EXCEPT ![r] = gs]
    OBVIOUS
  <2> HIDE DEF gs
  <2> QED BY <1>1, <1>3, <2>1 DEF TypeOK
<1>5. TypeOK'
  BY <1>1, <1>2, <1>4 DEF TypeOK, loopVars
<1>6. TaskKeeps(r)
  BY <1>2, <1>4 DEF TaskKeeps, Running, loopVars
<1>7. Sequenced(r)'
  <2>1. cancel'[r] = cancel[r] /\ frames'[r][Len(frames'[r])] = f
    BY <1>3, <1>4
  <2>2. CASE f = "start"
    <3>1. fs = <<>>
      BY <1>1, <2>2 DEF Sequenced
    <3>2. Begun(gs) /\ InOrder(gs, cancel[r] = "taken")
      BY <2>2, <3>1, SendStart
    <3> QED BY <1>2, <1>3, <1>4, <2>1, <2>2, <3>2 DEF Sequenced
  <2>3. CASE f = "chunk"
    <3>1. Begun(gs) /\ InOrder(gs, cancel[r] = "taken")
      BY <1>1, <2>3, SendChunk DEF Sequenced
    <3> QED BY <1>2, <1>3, <1>4, <2>1, <2>3, <3>1 DEF Sequenced
  <2>4. CASE f \in {"end", "failed"}
    <3>1. Ordered(gs) /\ InOrder(gs, cancel[r] = "taken")
      BY <1>1, <2>4, SendFinal DEF Sequenced
    <3> QED BY <1>2, <1>3, <1>4, <2>1, <2>4, <3>1 DEF Sequenced
  <2>5. CASE f = "cancelled"
    <3>1. cancel[r] = "taken" /\ Ordered(fs) /\ InOrder(fs, TRUE)
      BY <1>1, <2>5 DEF Sequenced
    <3>2. InOrder(gs, cancel[r] = "taken")
      BY <1>1, <2>5, <3>1, SendCancelled
    <3> QED BY <1>2, <1>3, <1>4, <2>1, <2>5, <3>1, <3>2 DEF Sequenced
  <2> QED BY <1>1, <2>2, <2>3, <2>4, <2>5, PlaceNames
<1> QED BY <1>5, <1>6, <1>7, TaskStep

LEMMA WriteStep ==
  ASSUME IInv, NEW r \in Requests, Write(r) PROVE IInv'
<1>1. place[r] = "sending" /\ UNCHANGED <<loopVars, arrived, ofId, ofConn, cancel>>
  BY DEF Write
<1>2. CASE Up(r)
  BY <1>1, <1>2, WriteFrame DEF Write
<1>3. CASE ~Up(r)
  <2>1. Raised(r) /\ UNCHANGED <<holder, frames>>
    BY <1>3 DEF Write
  <2>2. holder \in Requests \cup {None}
    BY DEF IInv, TypeOK
  <2> QED BY <1>1, <1>3, <2>1, <2>2, RaisedStep
<1> QED BY <1>2, <1>3

LEMMA SentStep ==
  ASSUME IInv, NEW r \in Requests, Sent(r) PROVE IInv'
<1>1. place[r] = "written" /\ holder' = None /\ UNCHANGED <<loopVars, arrived, ofId, ofConn, cancel, frames>>
  BY DEF Sent
<1>2. TypeOK /\ Sequenced(r) /\ ofId[r] \in Ids /\ frames[r] \in Seq(Frames)
  BY <1>1, AtTask
<1>3. CASE frame[r] \in {"start", "chunk"} /\ Put(r, "call", "start") /\ UNCHANGED inflight
  <2>1. /\ place' \in [Requests -> Places] /\ frame' \in [Requests -> Frames]
        /\ place'[r] = "call" /\ frame'[r] = "start"
        /\ \A q \in Requests \ {r} : place'[q] = place[q] /\ frame'[q] = frame[q]
    BY <1>2, <1>3, PutTypes, PlaceNames
  <2>2. TypeOK'
    BY <1>1, <1>2, <1>3, <2>1 DEF TypeOK, loopVars
  <2>3. TaskKeeps(r)
    BY <1>1, <1>3, <2>1 DEF TaskKeeps, Running, loopVars
  <2>4. Sequenced(r)'
    BY <1>1, <1>2, <1>3, <2>1 DEF Sequenced
  <2> QED BY <2>2, <2>3, <2>4, TaskStep
<1>4. CASE frame[r] \in Finals /\ Finish(r)
  <2>1. /\ place' \in [Requests -> Places] /\ frame' \in [Requests -> Frames]
        /\ place'[r] = "done" /\ frame'[r] = "start"
        /\ \A q \in Requests \ {r} : place'[q] = place[q] /\ frame'[q] = frame[q]
    BY <1>2, <1>4, PutTypes, PlaceNames DEF Finish
  <2>2. inflight' = [inflight EXCEPT ![ofId[r]] = None]
    BY <1>4 DEF Finish
  <2>3. TypeOK'
    <3>1. inflight' \in [Ids -> Requests \cup {None}]
      BY <1>2, <2>2 DEF TypeOK
    <3> QED BY <1>1, <1>2, <2>1, <3>1 DEF TypeOK, loopVars
  <2>4. TaskKeeps(r)
    BY <1>1, <2>1, <2>2 DEF TaskKeeps, Running, loopVars
  <2>5. Sequenced(r)'
    <3>1. Answered(frames[r])
      BY <1>1, <1>2, <1>4 DEF Sequenced, Answered
    <3> QED BY <1>1, <1>2, <2>1, <3>1 DEF Sequenced
  <2> QED BY <2>3, <2>4, <2>5, TaskStep
<1>5. CASE ~Up(r) /\ Raised(r)
  BY <1>1, <1>5, RaisedStep
<1> QED BY <1>3, <1>4, <1>5 DEF Sent

LEMMA ThrownStep ==
  ASSUME IInv, NEW r \in Requests, Thrown(r) PROVE IInv'
<1>1. /\ cancel[r] = "asked" /\ cancel' = [cancel EXCEPT ![r] = "taken"]
      /\ holder' = IF holder = r THEN None ELSE holder
      /\ UNCHANGED <<loopVars, arrived, ofId, ofConn, frames>>
  BY DEF Thrown
<1>2. TypeOK /\ Sequenced(r)
  BY AtTask
<1>3. /\ cancel' \in [Requests -> {"no", "asked", "taken"}] /\ cancel'[r] = "taken"
      /\ \A q \in Requests \ {r} : cancel'[q] = cancel[q]
      /\ holder' \in Requests \cup {None}
  BY <1>1, <1>2 DEF TypeOK
<1>4. InOrder(frames[r], TRUE)
  BY <1>2, LaterTaken DEF Sequenced
<1>5. CASE place[r] = "new" /\ Put(r, "done", "start") /\ UNCHANGED inflight
  <2>1. /\ place' \in [Requests -> Places] /\ frame' \in [Requests -> Frames]
        /\ place'[r] = "done" /\ frame'[r] = "start"
        /\ \A q \in Requests \ {r} : place'[q] = place[q] /\ frame'[q] = frame[q]
    BY <1>2, <1>5, PutTypes, PlaceNames
  <2>2. TypeOK'
    BY <1>1, <1>2, <1>3, <1>5, <2>1 DEF TypeOK, loopVars
  <2>3. TaskKeeps(r)
    BY <1>1, <1>3, <1>5, <2>1 DEF TaskKeeps, Running, loopVars
  <2>4. Sequenced(r)'
    BY <1>1, <1>3, <1>4, <2>1 DEF Sequenced
  <2> QED BY <2>2, <2>3, <2>4, TaskStep
<1>6. CASE place[r] \in {"sending", "written"} /\ frame[r] = "failed" /\ Finish(r)
  <2>0. ofId[r] \in Ids
    BY <1>6, AtTask
  <2>1. /\ place' \in [Requests -> Places] /\ frame' \in [Requests -> Frames]
        /\ place'[r] = "done" /\ frame'[r] = "start"
        /\ \A q \in Requests \ {r} : place'[q] = place[q] /\ frame'[q] = frame[q]
    BY <1>2, <1>6, PutTypes, PlaceNames DEF Finish
  <2>2. inflight' = [inflight EXCEPT ![ofId[r]] = None]
    BY <1>6 DEF Finish
  <2>3. TypeOK'
    <3>1. inflight' \in [Ids -> Requests \cup {None}]
      BY <1>2, <2>0, <2>2 DEF TypeOK
    <3> QED BY <1>1, <1>2, <1>3, <2>1, <3>1 DEF TypeOK, loopVars
  <2>4. TaskKeeps(r)
    BY <1>1, <1>3, <1>6, <2>1, <2>2 DEF TaskKeeps, Running, loopVars
  <2>5. Sequenced(r)'
    BY <1>1, <1>3, <1>4, <2>1 DEF Sequenced
  <2> QED BY <2>3, <2>4, <2>5, TaskStep
<1>7. CASE /\ (place[r] \in {"sending", "written"} /\ frame[r] # "failed") \/ place[r] = "call"
           /\ Put(r, "sending", "cancelled") /\ UNCHANGED inflight
  <2>1. /\ place' \in [Requests -> Places] /\ frame' \in [Requests -> Frames]
        /\ place'[r] = "sending" /\ frame'[r] = "cancelled"
        /\ \A q \in Requests \ {r} : place'[q] = place[q] /\ frame'[q] = frame[q]
    BY <1>2, <1>7, PutTypes, PlaceNames
  <2>2. TypeOK'
    BY <1>1, <1>2, <1>3, <1>7, <2>1 DEF TypeOK, loopVars
  <2>3. TaskKeeps(r)
    BY <1>1, <1>3, <1>7, <2>1 DEF TaskKeeps, Running, loopVars
  <2>4. Ordered(frames[r])
    <3>1. CASE place[r] = "sending" /\ frame[r] = "start"
      BY <1>2, <3>1 DEF Sequenced, Ordered
    <3>2. CASE place[r] = "written" /\ frame[r] = "end"
      BY <1>2, <3>2 DEF Sequenced
    <3>3. CASE Begun(frames[r])
      BY <3>3, BegunIsOrdered
    <3>4. place[r] \in {"sending", "written"} => frame[r] \in {"start", "chunk", "end"}
      BY <1>1, <1>2, <1>7, AtTask, PlaceNames DEF Sequenced
    <3> QED BY <1>2, <1>7, <3>1, <3>2, <3>3, <3>4 DEF Sequenced
  <2>5. Sequenced(r)'
    BY <1>1, <1>3, <1>4, <2>1, <2>4 DEF Sequenced
  <2> QED BY <2>2, <2>3, <2>5, TaskStep
<1> QED BY <1>5, <1>6, <1>7 DEF Thrown

-----------------------------------------------------------------------------
(* The invariant, and what follows from it. *)

THEOREM InitIInv == Init => IInv
<1> SUFFICES ASSUME Init PROVE IInv
  OBVIOUS
<1>1. TypeOK
  <2>1. backoff \in 1..MaxBackoff /\ arrived \in 0..MaxRequests
    BY TunnelBounds DEF Init
  <2>2. frames \in [Requests -> Seq(Frames)]
    BY DEF Init
  <2>3. /\ place \in [Requests -> Places] /\ frame \in [Requests -> Frames]
        /\ cancel \in [Requests -> {"no", "asked", "taken"}]
    BY DEF Init, Places, Frames
  <2>4. /\ ofId \in [Requests -> Ids \cup {None}] /\ ofConn \in [Requests -> Nat]
        /\ inflight \in [Ids -> Requests \cup {None}] /\ holder \in Requests \cup {None}
    BY DEF Init
  <2>5. connection \in Nat /\ live \in BOOLEAN /\ gone \subseteq Nat /\ loop = "connect"
    BY DEF Init
  <2> QED BY <2>1, <2>2, <2>3, <2>4, <2>5 DEF TypeOK
<1>2. Born
  BY TunnelBounds DEF Init, Born, Requests
<1>3. Orderly /\ Found /\ Entered
  BY DEF Init, Orderly, Found, Entered, Running
<1>4. \A r \in Requests : Sequenced(r)
  BY DEF Init, Sequenced, InOrder
<1> QED BY <1>1, <1>2, <1>3, <1>4 DEF IInv

THEOREM StepIInv == IInv /\ [Next]_vars => IInv'
<1> SUFFICES ASSUME IInv, [Next]_vars PROVE IInv'
  OBVIOUS
<1>1. CASE UNCHANGED vars
  <2>1. TypeOK' /\ Orderly' /\ connection <= connection'
    BY <1>1 DEF vars, IInv, TypeOK, Orderly
  <2>2. \A r \in Requests : Up(r)' => Up(r)
    BY <1>1 DEF vars, Up
  <2> QED BY <1>1, <2>1, <2>2, LoopKeeps DEF vars
<1>2. CASE Loop
  BY <1>2, ConnectStep, LoopSteps, ReceiveRequestStep, ReceiveCancelStep, GoneStep DEF Loop
<1>3. ASSUME NEW r \in Requests, Task(r) PROVE IInv'
  BY <1>3, CallSteps, WriteStep, SentStep, ThrownStep DEF Task
<1> QED BY <1>1, <1>2, <1>3 DEF Next

LEMMA Invariance == Spec => []IInv
BY InitIInv, StepIInv, PTL DEF Spec

\* Every variable keeps its type.
THEOREM TypeCorrect == Spec => []TypeOK
<1>1. IInv => TypeOK
  BY DEF IInv
<1> QED BY Invariance, <1>1, PTL

\* The frames of a request are in order, with one final frame but for the 499 that a
\* late cancel adds; a request that nobody cancelled, of a connection that stands, has
\* ended with one.
THEOREM FramesInOrder == Spec => []FrameOrder
<1>1. IInv => FrameOrder
  BY DEF IInv, Sequenced, FrameOrder
<1> QED BY Invariance, <1>1, PTL

\* A cancel, or the end of its connection, finds every request that runs under an id
\* of its own, and nothing else.
THEOREM CancelFinds == Spec => []CancelFindsRequest
<1>1. IInv => CancelFindsRequest
  <2> SUFFICES ASSUME IInv PROVE CancelFindsRequest
    OBVIOUS
  <2>1. \A r \in Requests : OwnId(r) => Only(r)
    BY DEF OwnId, Only
  <2> QED BY <2>1 DEF IInv, Found, Entered, CancelFindsRequest
<1> QED BY Invariance, <1>1, PTL

=============================================================================
