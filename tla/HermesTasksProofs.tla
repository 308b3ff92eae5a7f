-------------------------- MODULE HermesTasksProofs --------------------------
(***************************************************************************)
(* Proofs about HermesTasks for every number of tasks, workers, cancel     *)
(* requests, crashes and faults.                                           *)
(*                                                                         *)
(* SingleOwner is the heart: the runner takes no lock on a task, and what  *)
(* it does to a row is right only because nobody else owns the task.  The  *)
(* rest of the inductive invariant says what the owner may rely on at each *)
(* place it can be, and what the rows look like whoever owns them.         *)
(***************************************************************************)
EXTENDS HermesTasks, FiniteSetTheorems, TLAPS

\* A worker has a task exactly when it does not wait for the queue, and
\* nothing is in memory while the process is down.
Placement ==
  /\ \A w \in Workers : pc[w] = "idle" <=> job[w] = NoTask
  /\ ~up => accepted = {} /\ queue = <<>> /\ \A w \in Workers : job[w] = NoTask

\* The task is with the process, and not yet submitted to Hermes by it.
Waiting(t) ==
  \/ t \in accepted \cup Queued
  \/ \E w \in Workers : job[w] = t /\ pc[w] \in {"loading", "starting"}

\* What the columns of a row say about each other.
RowOK(t) ==
  /\ status[t] = NoStatus => ~started[t] /\ ~ended[t] /\ runs[t] = 0
  /\ status[t] \in TerminalStatuses => ended[t]
  /\ ended[t] => status[t] \in TerminalStatuses \cup {"cancel_requested"}
  /\ started[t] <=> runs[t] > 0
  /\ charges[t] <= 1
  /\ charges[t] > 0 => started[t] /\ ended[t]

\* What a worker knows of the row of its task.
WorkerOK(w) ==
  LET t == job[w] IN
  /\ pc[w] = "starting" => seen[w] \in OpenStatuses
  /\ pc[w] = "starting" /\ seen[w] # "cancel_requested" => ~ended[t]
  /\ pc[w] \in {"streaming", "loaded", "numbered", "completing"} => started[t] /\ ~ended[t]
  /\ pc[w] = "failing" => started[t]
  /\ pc[w] \in {"settle", "settleCancelled", "charge", "chargeCancelled"} =>
       started[t] /\ ended[t]
  /\ pc[w] \in {"charge", "chargeCancelled"} => charges[t] = 0

\* A cancel handler that loaded a row found one.
CancelOK(c) == cpc[c] = "loaded" => ctask[c] \in Tasks /\ status[ctask[c]] # NoStatus

\* Only open tasks wait; what a create handler holds has not ended.
WaitingOK ==
  /\ \A t \in accepted \cup Queued \cup Held : status[t] # NoStatus
  /\ \A t \in accepted : ~ended[t]
  /\ \A t \in Tasks : Waiting(t) => status[t] \in OpenStatuses

\* runs counts processes: no more than the crashes so far before this process
\* submits the task, and while there is no process.
RunsOK ==
  \A t \in Tasks :
    /\ runs[t] <= crashes + 1
    /\ ~up \/ Waiting(t) => runs[t] <= crashes

IInv ==
  /\ TypeOK
  /\ SingleOwner
  /\ Placement
  /\ WaitingOK
  /\ \A t \in Tasks : RowOK(t)
  /\ \A w \in Workers : WorkerOK(w)
  /\ \A c \in Cancels : CancelOK(c)
  /\ OpenTaskHasOwner
  /\ RunsOK

-----------------------------------------------------------------------------
(* Lemmas about the queue. *)

\* Appending an element that is not there keeps a sequence free of repetitions.
LEMMA AppendFresh ==
  ASSUME NEW S, NEW q \in Seq(S), NEW t \in S, IsInjective(q), t \notin Range(q)
  PROVE  /\ Append(q, t) \in Seq(S)
         /\ IsInjective(Append(q, t))
         /\ Range(Append(q, t)) = Range(q) \cup {t}
<1>1. /\ Append(q, t) \in Seq(S)
      /\ DOMAIN Append(q, t) = DOMAIN q \cup {Len(q) + 1}
      /\ \A i \in DOMAIN q : Append(q, t)[i] = q[i]
      /\ Append(q, t)[Len(q) + 1] = t
  OBVIOUS
<1>2. Len(q) + 1 \notin DOMAIN q
  OBVIOUS
<1>3. Range(Append(q, t)) = Range(q) \cup {t}
  BY <1>1, Zenon DEF Range
<1>4. IsInjective(Append(q, t))
  BY <1>1, <1>2, Zenon DEF IsInjective, Range
<1> QED
  BY <1>1, <1>3, <1>4

\* Taking the head of a sequence without repetitions removes exactly it.
LEMMA TakeHead ==
  ASSUME NEW S, NEW q \in Seq(S), q # <<>>, IsInjective(q)
  PROVE  /\ Head(q) \in S
         /\ Tail(q) \in Seq(S)
         /\ IsInjective(Tail(q))
         /\ Head(q) \in Range(q)
         /\ Range(Tail(q)) = Range(q) \ {Head(q)}
<1>1. /\ Head(q) \in S
      /\ Tail(q) \in Seq(S)
      /\ 1 \in DOMAIN q
      /\ Head(q) = q[1]
      /\ DOMAIN Tail(q) = 1..(Len(q) - 1)
      /\ DOMAIN q = 1..Len(q)
      /\ \A i \in DOMAIN Tail(q) : Tail(q)[i] = q[i + 1]
  OBVIOUS
<1>2. IsInjective(Tail(q))
  BY <1>1 DEF IsInjective
<1>3. Range(Tail(q)) = Range(q) \ {Head(q)}
  <2>1. ASSUME NEW x \in Range(Tail(q)) PROVE x \in Range(q) \ {Head(q)}
    BY <1>1, <2>1 DEF Range, IsInjective
  <2>2. ASSUME NEW x \in Range(q), x # Head(q) PROVE x \in Range(Tail(q))
    <3>1. PICK i \in DOMAIN q : q[i] = x
      BY <2>2 DEF Range
    <3>2. i - 1 \in DOMAIN Tail(q) /\ Tail(q)[i - 1] = x
      BY <1>1, <2>2, <3>1
    <3> QED
      BY <3>2 DEF Range
  <2> QED
    BY <2>1, <2>2
<1> QED
  BY <1>1, <1>2, <1>3 DEF Range

\* requeue_open_tasks puts exactly the given tasks on the queue, each once.
LEMMA Requeued ==
  ASSUME NEW S \in SUBSET Tasks, NEW q \in InOrder(S)
  PROVE  q \in Seq(Tasks) /\ IsInjective(q) /\ Range(q) = S
<1>1. Cardinality(S) \in Nat
  <2>1. IsFiniteSet(Tasks)
    BY NumTasksAssumption, FS_Interval DEF Tasks
  <2> QED
    BY <2>1, FS_Subset, FS_CardinalityType
<1>2. /\ q \in [1..Cardinality(S) -> S]
      /\ \A t \in S : \E i \in 1..Cardinality(S) : q[i] = t
      /\ \A i, j \in 1..Cardinality(S) : i < j => q[i] < q[j]
  BY DEF InOrder, Surjection
<1>3. q \in Seq(Tasks)
  <2>1. q \in [1..Cardinality(S) -> Tasks]
    BY <1>1, <1>2
  <2> QED
    BY <1>1, <2>1
<1>4. ASSUME NEW i \in 1..Cardinality(S), NEW j \in 1..Cardinality(S), q[i] = q[j]
      PROVE  i = j
  <2>1. q[i] \in Int /\ q[j] \in Int
    <3>1. q[i] \in Tasks /\ q[j] \in Tasks
      BY <1>2
    <3> QED
      BY <3>1, NumTasksAssumption DEF Tasks
  <2>2. ~(i < j) /\ ~(j < i)
    BY <1>2, <1>4, <2>1
  <2> QED
    BY <1>1, <2>2
<1>5. IsInjective(q)
  BY <1>2, <1>4 DEF IsInjective
<1>6. Range(q) = S
  BY <1>2 DEF Range
<1> QED
  BY <1>3, <1>5, <1>6

-----------------------------------------------------------------------------
(* Type correctness. *)

LEMMA TypeInit == Init => TypeOK
  BY DEF Init, TypeOK, Statuses, WorkerStates, Tasks, NoTask, NoStatus

LEMMA TypeNext == IInv /\ [Next]_vars => TypeOK'
<1> SUFFICES ASSUME IInv, [Next]_vars PROVE TypeOK'
  OBVIOUS
<1>t. /\ TypeOK
      /\ \A w \in Workers : pc[w] # "idle" => job[w] \in Tasks
      /\ \A c \in Cancels : cpc[c] = "loaded" => ctask[c] \in Tasks
  BY DEF IInv, TypeOK, Placement, CancelOK
<1> USE <1>t DEF TypeOK, rows, worker, cancel, env
<1>1. ASSUME NEW t \in Tasks, CreateTask(t) PROVE TypeOK'
  BY <1>1 DEF CreateTask, Statuses, OpenStatuses
<1>2. ASSUME NEW t \in Tasks, Enqueue(t) PROVE TypeOK'
  BY <1>2 DEF Enqueue
<1>3. ASSUME NEW c \in Cancels, NEW t \in Tasks, CancelLoad(c, t) PROVE TypeOK'
  BY <1>3 DEF CancelLoad
<1>4. ASSUME NEW c \in Cancels, CancelWrite(c) PROVE TypeOK'
  BY <1>4 DEF CancelWrite, AppendEvent, Statuses, OpenStatuses
<1>5. ASSUME NEW w \in Workers, WorkerStep(w) \/ Abort(w) \/ WorkerDies(w) PROVE TypeOK'
  <2> USE DEF WorkerStates, InTry, OutsideTry, Goto, AppendEvent, EndAs, Charge, Release
  <2>1. CASE Dequeue(w)
    BY <2>1 DEF Dequeue
  <2>2. CASE MarkRunningLoad(w)
    BY <2>2 DEF MarkRunningLoad
  <2>3. CASE MarkRunningCancelled(w)
    BY <2>3 DEF MarkRunningCancelled, Statuses, TerminalStatuses
  <2>4. CASE MarkRunning(w)
    BY <2>4 DEF MarkRunning, Statuses, OpenStatuses
  <2>5. CASE EventLoad(w)
    BY <2>5 DEF EventLoad
  <2>6. CASE EventCancelled(w)
    BY <2>6 DEF EventCancelled, Statuses, TerminalStatuses
  <2>7. CASE EventDelta(w)
    BY <2>7 DEF EventDelta
  <2>8. CASE EventNumber(w)
    BY <2>8 DEF EventNumber
  <2>9. CASE EventInsert(w)
    <3>1. \/ pc' = [pc EXCEPT ![w] = "streaming"] /\ AppendEvent(job[w])
          \/ pc' = [pc EXCEPT ![w] = "failing"] /\ lastSeq' = lastSeq
      BY <2>9, Zenon DEF EventInsert
    <3>j. job[w] \in Tasks
      BY <2>9 DEF EventInsert
    <3>2. CASE pc' = [pc EXCEPT ![w] = "streaming"] /\ AppendEvent(job[w])
      BY <2>9, <3>2, <3>j DEF EventInsert
    <3>4. CASE pc' = [pc EXCEPT ![w] = "failing"] /\ lastSeq' = lastSeq
      BY <2>9, <3>4 DEF EventInsert
    <3> QED
      BY <3>1, <3>2, <3>4
  <2>10. CASE StreamEnds(w)
    BY <2>10 DEF StreamEnds
  <2>11. CASE MarkFailed(w)
    BY <2>11 DEF MarkFailed, Statuses, TerminalStatuses
  <2>12. CASE MarkCompleted(w)
    BY <2>12 DEF MarkCompleted, Statuses, TerminalStatuses
  <2>13. CASE SettleLoad(w, "settle", "charge")
    BY <2>13 DEF SettleLoad
  <2>14. CASE SettleLoad(w, "settleCancelled", "chargeCancelled")
    BY <2>14 DEF SettleLoad
  <2>15. CASE SettleCommit(w)
    BY <2>15 DEF SettleCommit
  <2>16. CASE SettleCancelledCommit(w)
    <3>1. charges' \in [Tasks -> Nat]
      BY <2>16 DEF SettleCancelledCommit
    <3>2. pc' \in [Workers -> WorkerStates] /\ job' \in [Workers -> Tasks \cup {NoTask}]
      BY <2>16 DEF SettleCancelledCommit
    <3> QED
      BY <2>16, <3>1, <3>2 DEF SettleCancelledCommit
  <2>17. CASE Abort(w)
    BY <2>17 DEF Abort
  <2>18. CASE WorkerDies(w)
    BY <2>18 DEF WorkerDies
  <2> QED
    BY <1>5, <2>1, <2>2, <2>3, <2>4, <2>5, <2>6, <2>7, <2>8, <2>9, <2>10, <2>11,
       <2>12, <2>13, <2>14, <2>15, <2>16, <2>17, <2>18 DEF WorkerStep
<1>6. CASE Crash
  <2>1. queue' \in Seq(Tasks) /\ accepted' \in SUBSET Tasks
    BY <1>6 DEF Crash
  <2>2. /\ pc' \in [Workers -> WorkerStates]
        /\ job' \in [Workers -> Tasks \cup {NoTask}]
        /\ seen' \in [Workers -> Statuses \cup {NoStatus}]
        /\ base' \in [Workers -> Nat]
    BY <1>6 DEF Crash, WorkerStates
  <2>3. /\ cpc' \in [Cancels -> {"unsent", "loaded", "done"}]
        /\ ctask' \in [Cancels -> Tasks \cup {NoTask}]
        /\ cseen' \in [Cancels -> Statuses \cup {NoStatus}]
    BY <1>6 DEF Crash
  <2>4. up' \in BOOLEAN /\ crashes' \in Nat
    <3>1. up' = FALSE /\ crashes' = crashes + 1
      BY <1>6, Zenon DEF Crash
    <3>2. up' \in BOOLEAN
      BY <3>1, Zenon
    <3>3. crashes' \in Nat
      BY <3>1
    <3> QED
      BY <3>2, <3>3
  <2>5. UNCHANGED rows /\ faults' \in Nat
    BY <1>6 DEF Crash
  <2> QED
    BY <2>1, <2>2, <2>3, <2>4, <2>5
<1>7. CASE Restart
  <2>1. queue' \in InOrder({t \in Tasks : status[t] \in OpenStatuses})
    BY <1>7 DEF Restart, RequeueOpenTasks
  <2>2. queue' \in Seq(Tasks)
    BY <2>1, Requeued
  <2> QED
    BY <1>7, <2>2 DEF Restart
<1>8. CASE Quiet
  BY <1>8 DEF Quiet, vars
<1>9. CASE UNCHANGED vars
  BY <1>9 DEF vars
<1> QED
  BY <1>1, <1>2, <1>3, <1>4, <1>5, <1>6, <1>7, <1>8, <1>9 DEF Next
-----------------------------------------------------------------------------
(* What the steps of a worker leave alone. *)

AnyWorkerStep(w) == WorkerStep(w) \/ Abort(w) \/ WorkerDies(w)

\* A worker dequeues, goes on with its task, or gives it up.
LEMMA WorkerMoves ==
  ASSUME TypeOK, NEW w \in Workers, AnyWorkerStep(w)
  PROVE  /\ up /\ up' = up /\ accepted' = accepted /\ crashes' = crashes
         /\ \/ Dequeue(w)
            \/ /\ queue' = queue /\ job' = job /\ pc[w] # "idle"
               /\ \E x : x # "idle" /\ pc' = [pc EXCEPT ![w] = x]
            \/ queue' = queue /\ pc[w] # "idle" /\ Release(w)
<1> USE DEF Goto, InTry, OutsideTry, env
<1>1. CASE Dequeue(w)
  BY <1>1, Zenon DEF Dequeue
<1>2. CASE MarkRunningLoad(w)
  BY <1>2 DEF MarkRunningLoad
<1>3. CASE MarkRunningCancelled(w)
  BY <1>3 DEF MarkRunningCancelled
<1>4. CASE MarkRunning(w)
  BY <1>4 DEF MarkRunning
<1>5. CASE EventLoad(w)
  BY <1>5 DEF EventLoad
<1>6. CASE EventCancelled(w)
  BY <1>6 DEF EventCancelled
<1>7. CASE EventDelta(w)
  BY <1>7 DEF EventDelta
<1>8. CASE EventNumber(w)
  BY <1>8 DEF EventNumber
<1>9. CASE EventInsert(w)
  BY <1>9 DEF EventInsert
<1>10. CASE StreamEnds(w)
  BY <1>10 DEF StreamEnds
<1>11. CASE MarkFailed(w)
  BY <1>11 DEF MarkFailed
<1>12. CASE MarkCompleted(w)
  BY <1>12 DEF MarkCompleted
<1>13. CASE SettleLoad(w, "settle", "charge")
  BY <1>13 DEF SettleLoad
<1>14. CASE SettleLoad(w, "settleCancelled", "chargeCancelled")
  BY <1>14 DEF SettleLoad
<1>15. CASE SettleCommit(w)
  BY <1>15 DEF SettleCommit
<1>16. CASE SettleCancelledCommit(w)
  BY <1>16 DEF SettleCancelledCommit
<1>17. CASE Abort(w)
  BY <1>17 DEF Abort
<1>18. CASE WorkerDies(w)
  BY <1>18 DEF WorkerDies
<1> QED
  BY <1>1, <1>2, <1>3, <1>4, <1>5, <1>6, <1>7, <1>8, <1>9, <1>10, <1>11, <1>12,
     <1>13, <1>14, <1>15, <1>16, <1>17, <1>18 DEF AnyWorkerStep, WorkerStep

\* A worker writes no row but its task's, and no variable of another worker.
LEMMA OnlyOwnTask ==
  ASSUME TypeOK, NEW w \in Workers, AnyWorkerStep(w)
  PROVE  /\ \A t \in Tasks : t # job[w] =>
              /\ status'[t] = status[t] /\ started'[t] = started[t]
              /\ ended'[t] = ended[t] /\ charges'[t] = charges[t] /\ runs'[t] = runs[t]
         /\ \A v \in Workers : v # w => pc'[v] = pc[v] /\ job'[v] = job[v] /\ seen'[v] = seen[v]
         /\ UNCHANGED cancel
<1> USE DEF TypeOK, Goto, Release, EndAs, AppendEvent, Charge, rows, cancel
<1>1. CASE Dequeue(w)
  BY <1>1 DEF Dequeue
<1>2. CASE MarkRunningLoad(w)
  BY <1>2 DEF MarkRunningLoad
<1>3. CASE MarkRunningCancelled(w)
  BY <1>3 DEF MarkRunningCancelled
<1>4. CASE MarkRunning(w)
  BY <1>4 DEF MarkRunning
<1>5. CASE EventLoad(w)
  BY <1>5 DEF EventLoad
<1>6. CASE EventCancelled(w)
  BY <1>6 DEF EventCancelled
<1>7. CASE EventDelta(w)
  BY <1>7 DEF EventDelta
<1>8. CASE EventNumber(w)
  BY <1>8 DEF EventNumber
<1>9. CASE EventInsert(w)
  BY <1>9 DEF EventInsert
<1>10. CASE StreamEnds(w)
  BY <1>10 DEF StreamEnds
<1>11. CASE MarkFailed(w)
  BY <1>11 DEF MarkFailed
<1>12. CASE MarkCompleted(w)
  BY <1>12 DEF MarkCompleted
<1>13. CASE SettleLoad(w, "settle", "charge")
  BY <1>13 DEF SettleLoad
<1>14. CASE SettleLoad(w, "settleCancelled", "chargeCancelled")
  BY <1>14 DEF SettleLoad
<1>15. CASE SettleCommit(w)
  BY <1>15 DEF SettleCommit
<1>16. CASE SettleCancelledCommit(w)
  BY <1>16 DEF SettleCancelledCommit
<1>17. CASE Abort(w)
  BY <1>17 DEF Abort
<1>18. CASE WorkerDies(w)
  BY <1>18 DEF WorkerDies
<1> QED
  BY <1>1, <1>2, <1>3, <1>4, <1>5, <1>6, <1>7, <1>8, <1>9, <1>10, <1>11, <1>12,
     <1>13, <1>14, <1>15, <1>16, <1>17, <1>18 DEF AnyWorkerStep, WorkerStep

-----------------------------------------------------------------------------
(* A task has one owner at most. *)

\* SingleOwner and Placement, element by element.
Places(q, acc, j, p, u) ==
  /\ IsInjective(q)
  /\ acc \cap Range(q) = {}
  /\ \A w \in Workers : j[w] # NoTask => j[w] \notin acc \cup Range(q)
  /\ \A w, v \in Workers : j[w] = j[v] /\ j[w] # NoTask => w = v
  /\ \A w \in Workers : p[w] = "idle" <=> j[w] = NoTask
  /\ ~u => acc = {} /\ q = <<>> /\ \A w \in Workers : j[w] = NoTask

LEMMA PlacesMeaning ==
  ASSUME job \in [Workers -> Tasks \cup {NoTask}]
  PROVE  SingleOwner /\ Placement <=> Places(queue, accepted, job, pc, up)
<1>1. Held = {job[w] : w \in Workers} \ {NoTask}
  BY DEF Held, Range
<1>2. Held \cap (accepted \cup Queued) = {}
        <=> \A w \in Workers : job[w] # NoTask => job[w] \notin accepted \cup Range(queue)
  BY <1>1, Zenon DEF Queued
<1> QED
  BY <1>2, Zenon DEF SingleOwner, Placement, Places, Queued

LEMMA PlacesMeaningNext ==
  ASSUME job' \in [Workers -> Tasks \cup {NoTask}]
  PROVE  (SingleOwner /\ Placement)' <=> Places(queue', accepted', job', pc', up')
<1>1. Held' = {job'[w] : w \in Workers} \ {NoTask}
  BY DEF Held, Range
<1>2. (Held \cap (accepted \cup Queued) = {})'
        <=> \A w \in Workers : job'[w] # NoTask => job'[w] \notin accepted' \cup Range(queue')
  BY <1>1, Zenon DEF Queued
<1> QED
  BY <1>2, Zenon DEF SingleOwner, Placement, Places, Queued

\* Every step keeps each task with one owner.
LEMMA OwnerNext == IInv /\ [Next]_vars => (SingleOwner /\ Placement)'
<1> SUFFICES ASSUME IInv, [Next]_vars PROVE (SingleOwner /\ Placement)'
  OBVIOUS
<1>t. TypeOK /\ TypeOK'
  BY TypeNext DEF IInv
<1>p. Places(queue, accepted, job, pc, up)
  BY <1>t, PlacesMeaning DEF IInv, TypeOK
<1> SUFFICES Places(queue', accepted', job', pc', up')
  BY <1>t, PlacesMeaningNext DEF TypeOK
<1>0. NoTask \notin Tasks
  BY NumTasksAssumption DEF Tasks, NoTask
<1>1. ASSUME NEW t \in Tasks, CreateTask(t) PROVE Places(queue', accepted', job', pc', up')
  <2>1. /\ queue' = queue /\ job' = job /\ pc' = pc /\ up' = up /\ up
        /\ accepted' = accepted \cup {t}
        /\ status[t] = NoStatus
    BY <1>1 DEF CreateTask, worker, env
  <2>2. t \notin accepted \cup Queued \cup Held
    BY <2>1 DEF IInv, WaitingOK
  <2>3. t \notin Range(queue) /\ \A w \in Workers : job[w] # t
    BY <2>2, <1>t, <1>0 DEF Queued, Held, Range, TypeOK
  <2> QED
    BY <1>p, <2>1, <2>3, Zenon DEF Places
<1>2. ASSUME NEW t \in Tasks, Enqueue(t) PROVE Places(queue', accepted', job', pc', up')
  <2>1. /\ queue' = Append(queue, t) /\ job' = job /\ pc' = pc /\ up' = up /\ up
        /\ accepted' = accepted \ {t}
        /\ t \in accepted
    BY <1>2 DEF Enqueue, worker, env
  <2>2. IsInjective(queue') /\ Range(queue') = Range(queue) \cup {t}
    <3>1. t \notin Range(queue) /\ IsInjective(queue) /\ queue \in Seq(Tasks)
      BY <1>p, <1>t, <2>1, Zenon DEF Places, TypeOK
    <3> QED
      BY <2>1, <3>1, AppendFresh
  <2>3. accepted' \cap Range(queue') = {}
    BY <1>p, <2>1, <2>2 DEF Places
  <2>4. accepted' \cup Range(queue') = accepted \cup Range(queue)
    BY <2>1, <2>2
  <2> QED
    BY <1>p, <2>1, <2>2, <2>3, <2>4, Zenon DEF Places
<1>3. ASSUME NEW c \in Cancels, CancelWrite(c) \/ \E t \in Tasks : CancelLoad(c, t)
      PROVE  Places(queue', accepted', job', pc', up')
  <2>1. /\ queue' = queue /\ job' = job /\ pc' = pc /\ up' = up /\ accepted' = accepted
    BY <1>3 DEF CancelWrite, CancelLoad, worker, env
  <2> QED
    BY <1>p, <2>1, Zenon
<1>4. ASSUME NEW w \in Workers, AnyWorkerStep(w) PROVE Places(queue', accepted', job', pc', up')
  <2>0. up /\ up' = up /\ accepted' = accepted
    BY <1>4, <1>t, WorkerMoves
  <2>1. CASE Dequeue(w)
    <3>1. /\ queue # <<>> /\ pc[w] = "idle"
          /\ pc' = [pc EXCEPT ![w] = "loading"]
          /\ job' = [job EXCEPT ![w] = Head(queue)]
          /\ queue' = Tail(queue)
      BY <2>1 DEF Dequeue, Goto
    <3>2. /\ Head(queue) \in Tasks
          /\ IsInjective(queue')
          /\ Head(queue) \in Range(queue)
          /\ Range(queue') = Range(queue) \ {Head(queue)}
      <4>1. IsInjective(queue) /\ queue \in Seq(Tasks)
        BY <1>p, <1>t, Zenon DEF Places, TypeOK
      <4> QED
        BY <3>1, <4>1, TakeHead
    <3>3. job'[w] = Head(queue) /\ pc'[w] = "loading"
      BY <1>t, <3>1 DEF TypeOK
    <3>4. \A v \in Workers : v # w => job'[v] = job[v] /\ pc'[v] = pc[v]
      BY <1>t, <3>1 DEF TypeOK
    <3>5. \A v \in Workers : job[v] # Head(queue)
      BY <1>p, <1>0, <3>2 DEF Places
    <3>6. Head(queue) # NoTask
      BY <1>0, <3>2
    <3>7. \A v \in Workers : pc'[v] = "idle" <=> job'[v] = NoTask
      BY <1>p, <3>3, <3>4, <3>6 DEF Places
    <3>8. \A v, u \in Workers : job'[v] = job'[u] /\ job'[v] # NoTask => v = u
      BY <1>p, <3>3, <3>4, <3>5, Zenon DEF Places
    <3>9. \A v \in Workers : job'[v] # NoTask => job'[v] \notin accepted' \cup Range(queue')
      BY <1>p, <2>0, <3>2, <3>3, <3>4 DEF Places
    <3>10. accepted' \cap Range(queue') = {}
      BY <1>p, <2>0, <3>2 DEF Places
    <3> QED
      BY <2>0, <3>2, <3>7, <3>8, <3>9, <3>10, Zenon DEF Places
  <2>2. CASE /\ queue' = queue /\ job' = job /\ pc[w] # "idle"
             /\ \E x : x # "idle" /\ pc' = [pc EXCEPT ![w] = x]
    <3>1. \A v \in Workers : pc'[v] = "idle" <=> pc[v] = "idle"
      BY <1>t, <2>2 DEF TypeOK
    <3> QED
      BY <1>p, <2>0, <2>2, <3>1, Zenon DEF Places
  <2>3. CASE queue' = queue /\ pc[w] # "idle" /\ Release(w)
    <3>1. job'[w] = NoTask /\ pc'[w] = "idle"
      BY <1>t, <2>3 DEF TypeOK, Release
    <3>2. \A v \in Workers : v # w => job'[v] = job[v] /\ pc'[v] = pc[v]
      BY <1>t, <2>3 DEF TypeOK, Release
    <3>3. \A v \in Workers : job'[v] # NoTask => job'[v] = job[v] /\ v # w
      BY <3>1, <3>2, Zenon
    <3>4. \A v \in Workers : pc'[v] = "idle" <=> job'[v] = NoTask
      BY <1>p, <3>1, <3>2, Zenon DEF Places
    <3> QED
      BY <1>p, <2>0, <2>3, <3>3, <3>4, Zenon DEF Places
  <2> QED
    BY <1>4, <1>t, <2>1, <2>2, <2>3, WorkerMoves
<1>5. CASE Crash
  <2>1. /\ queue' = <<>> /\ accepted' = {}
        /\ pc' = [w \in Workers |-> "idle"] /\ job' = [w \in Workers |-> NoTask]
    BY <1>5 DEF Crash
  <2>2. \A w \in Workers : pc'[w] = "idle" /\ job'[w] = NoTask
    BY <2>1
  <2>3. IsInjective(queue')
    BY <2>1 DEF IsInjective
  <2> QED
    BY <2>1, <2>2, <2>3, Zenon DEF Places
<1>6. CASE Restart
  <2>1. /\ accepted' = accepted /\ job' = job /\ pc' = pc /\ ~up /\ up'
        /\ queue' \in InOrder({t \in Tasks : status[t] \in OpenStatuses})
    BY <1>6 DEF Restart, RequeueOpenTasks, worker
  <2>2. IsInjective(queue')
    BY <2>1, Requeued
  <2>3. accepted' = {} /\ \A w \in Workers : job'[w] = NoTask
    BY <1>p, <2>1, Zenon DEF Places
  <2>4. \A w \in Workers : pc'[w] = "idle" <=> job'[w] = NoTask
    BY <1>p, <2>1, Zenon DEF Places
  <2> QED
    BY <2>1, <2>2, <2>3, <2>4, Zenon DEF Places
<1>7. CASE UNCHANGED vars
  BY <1>7, <1>p DEF vars, worker
<1> QED
  BY <1>1, <1>2, <1>3, <1>4, <1>5, <1>6, <1>7, Zenon DEF Next, Quiet, AnyWorkerStep

-----------------------------------------------------------------------------
(* The rows, and what workers know of them. *)

\* Facts about the task of a worker, in a form the steps below can cite.
LEMMA WorkerHasTask ==
  ASSUME IInv, NEW w \in Workers, pc[w] # "idle"
  PROVE  /\ job[w] \in Tasks /\ RowOK(job[w]) /\ WorkerOK(w)
         /\ status[job[w]] # NoStatus
         /\ \A v \in Workers : v # w => job[v] # job[w]
<1>1. job[w] \in Tasks
  BY DEF IInv, TypeOK, Placement
<1>2. \A v \in Workers : v # w => job[v] # job[w]
  BY <1>1 DEF IInv, SingleOwner, Placement
<1>3. status[job[w]] # NoStatus
  <2>1. job[w] \in Held
    BY <1>1, NumTasksAssumption DEF Held, Range, IInv, TypeOK, Tasks, NoTask
  <2> QED
    BY <2>1 DEF IInv, WaitingOK
<1>4. RowOK(job[w]) /\ WorkerOK(w)
  BY <1>1, Zenon DEF IInv
<1> QED
  BY <1>1, <1>2, <1>3, <1>4

\* A worker that waits for the settlement finds a row that says so, and so on:
\* a step of a worker keeps the row of its task and what it knows of it right.
LEMMA OwnTaskNext ==
  ASSUME IInv, NEW w \in Workers, AnyWorkerStep(w), NEW t \in Tasks, job[w] = t
  PROVE  RowOK(t)' /\ WorkerOK(w)'
<1>t. TypeOK /\ pc[w] # "idle" /\ job[w] = t /\ RowOK(t) /\ WorkerOK(w) /\ status[t] # NoStatus
  <2>1. pc[w] # "idle"
    BY NumTasksAssumption DEF IInv, Placement, Tasks, NoTask
  <2> QED
    BY <2>1, WorkerHasTask DEF IInv
<1> USE <1>t DEF TypeOK, RowOK, WorkerOK, Goto, Release, EndAs, Charge, AppendEvent,
      Statuses, OpenStatuses, TerminalStatuses, NoStatus
<1>1. CASE Dequeue(w)
  BY <1>1 DEF Dequeue
<1>2. CASE MarkRunningLoad(w)
  <2>1. Waiting(t)
    BY <1>2 DEF MarkRunningLoad, Waiting
  <2>2. status[t] \in OpenStatuses
    BY <2>1 DEF IInv, WaitingOK
  <2> QED
    BY <1>2, <2>2 DEF MarkRunningLoad, rows
<1>3. CASE MarkRunningCancelled(w)
  BY <1>3 DEF MarkRunningCancelled
<1>4. CASE MarkRunning(w)
  BY <1>4 DEF MarkRunning
<1>5. CASE EventLoad(w)
  BY <1>5 DEF EventLoad, rows
<1>6. CASE EventCancelled(w)
  BY <1>6 DEF EventCancelled
<1>7. CASE EventDelta(w)
  BY <1>7 DEF EventDelta
<1>8. CASE EventNumber(w)
  BY <1>8 DEF EventNumber, rows
<1>9. CASE EventInsert(w)
  BY <1>9 DEF EventInsert
<1>10. CASE StreamEnds(w)
  BY <1>10 DEF StreamEnds, rows
<1>11. CASE MarkFailed(w)
  BY <1>11 DEF MarkFailed
<1>12. CASE MarkCompleted(w)
  BY <1>12 DEF MarkCompleted
<1>13. CASE SettleLoad(w, "settle", "charge")
  BY <1>13 DEF SettleLoad, rows, Billable
<1>14. CASE SettleLoad(w, "settleCancelled", "chargeCancelled")
  BY <1>14 DEF SettleLoad, rows, Billable
<1>15. CASE SettleCommit(w)
  BY <1>15 DEF SettleCommit
<1>16. CASE SettleCancelledCommit(w)
  BY <1>16 DEF SettleCancelledCommit
<1>17. CASE Abort(w)
  BY <1>17 DEF Abort, rows, InTry
<1>18. CASE WorkerDies(w)
  BY <1>18 DEF WorkerDies, rows
<1> QED
  BY <1>1, <1>2, <1>3, <1>4, <1>5, <1>6, <1>7, <1>8, <1>9, <1>10, <1>11, <1>12,
     <1>13, <1>14, <1>15, <1>16, <1>17, <1>18 DEF AnyWorkerStep, WorkerStep

\* Every step keeps every row and every worker's knowledge right.
LEMMA RowNext ==
  IInv /\ [Next]_vars => (\A t \in Tasks : RowOK(t))' /\ (\A w \in Workers : WorkerOK(w))'
<1> SUFFICES ASSUME IInv, [Next]_vars
             PROVE  (\A t \in Tasks : RowOK(t))' /\ (\A w \in Workers : WorkerOK(w))'
  OBVIOUS
<1>t. /\ TypeOK
      /\ \A t \in Tasks : RowOK(t)
      /\ \A w \in Workers : WorkerOK(w)
      /\ \A w \in Workers : pc[w] # "idle" => job[w] \in Tasks
  BY WorkerHasTask, Zenon DEF IInv
<1>c. \A c \in Cancels : cpc[c] = "loaded" => ctask[c] \in Tasks /\ status[ctask[c]] # NoStatus
  BY DEF IInv, CancelOK
<1> DEFINE SameWorkers == /\ UNCHANGED <<started, ended, charges, runs>>
                          /\ UNCHANGED <<pc, job, seen>>
<1>0. ASSUME SameWorkers PROVE (\A w \in Workers : WorkerOK(w))'
  BY <1>0, <1>t DEF WorkerOK
<1>1. ASSUME NEW t \in Tasks, CreateTask(t)
      PROVE  (\A x \in Tasks : RowOK(x))' /\ (\A w \in Workers : WorkerOK(w))'
  <2>1. SameWorkers /\ status[t] = NoStatus /\ status' = [status EXCEPT ![t] = "queued"]
    BY <1>1 DEF CreateTask, worker
  <2>2. \A x \in Tasks : RowOK(x)'
    BY <2>1, <1>t DEF TypeOK, RowOK, NoStatus, TerminalStatuses
  <2> QED
    BY <1>0, <2>1, <2>2
<1>2. ASSUME NEW t \in Tasks, Enqueue(t)
      PROVE  (\A x \in Tasks : RowOK(x))' /\ (\A w \in Workers : WorkerOK(w))'
  BY <1>2, <1>0, <1>t DEF Enqueue, rows, worker, RowOK
<1>3. ASSUME NEW c \in Cancels, CancelWrite(c)
      PROVE  (\A x \in Tasks : RowOK(x))' /\ (\A w \in Workers : WorkerOK(w))'
  <2>1. /\ SameWorkers
        /\ ctask[c] \in Tasks /\ status[ctask[c]] # NoStatus
        /\ \/ status' = status
           \/ status' = [status EXCEPT ![ctask[c]] = "cancel_requested"]
    BY <1>3, <1>c DEF CancelWrite, worker
  <2>2. \A x \in Tasks : RowOK(x)'
    BY <2>1, <1>t DEF TypeOK, RowOK, NoStatus, TerminalStatuses
  <2> QED
    BY <1>0, <2>1, <2>2
<1>4. ASSUME NEW c \in Cancels, NEW t \in Tasks, CancelLoad(c, t)
      PROVE  (\A x \in Tasks : RowOK(x))' /\ (\A w \in Workers : WorkerOK(w))'
  BY <1>4, <1>0, <1>t DEF CancelLoad, rows, worker, RowOK
<1>5. ASSUME NEW w \in Workers, AnyWorkerStep(w)
      PROVE  (\A x \in Tasks : RowOK(x))' /\ (\A v \in Workers : WorkerOK(v))'
  <2>1. ASSUME NEW x \in Tasks, x # job[w] PROVE RowOK(x)'
    BY <1>5, <1>t, <2>1, OnlyOwnTask DEF RowOK
  <2>2. ASSUME NEW x \in Tasks, x = job[w] PROVE RowOK(x)'
    BY <1>5, <2>2, OwnTaskNext
  <2>3. ASSUME NEW v \in Workers, v # w PROVE WorkerOK(v)'
    <3>1. pc'[v] = pc[v] /\ job'[v] = job[v] /\ seen'[v] = seen[v]
      BY <1>5, <1>t, <2>3, OnlyOwnTask
    <3>2. CASE pc[v] = "idle"
      BY <3>1, <3>2 DEF WorkerOK
    <3>3. CASE pc[v] # "idle"
      <4>1. job[v] \in Tasks /\ job[w] # job[v] /\ WorkerOK(v)
        BY <2>3, <3>3, WorkerHasTask, Zenon
      <4>2. /\ status'[job[v]] = status[job[v]] /\ started'[job[v]] = started[job[v]]
            /\ ended'[job[v]] = ended[job[v]] /\ charges'[job[v]] = charges[job[v]]
        BY <1>5, <1>t, <4>1, OnlyOwnTask
      <4> QED
        BY <3>1, <4>1, <4>2 DEF WorkerOK
    <3> QED
      BY <3>2, <3>3
  <2>4. WorkerOK(w)'
    <3>1. CASE pc[w] = "idle"
      <4>1. Dequeue(w)
        BY <1>5, <1>t, <3>1, WorkerMoves
      <4>2. pc'[w] = "loading"
        BY <1>t, <4>1 DEF Dequeue, Goto, TypeOK
      <4> QED
        BY <4>2 DEF WorkerOK
    <3>2. CASE pc[w] # "idle"
      BY <1>5, <1>t, <3>2, OwnTaskNext
    <3> QED
      BY <3>1, <3>2
  <2> QED
    BY <2>1, <2>2, <2>3, <2>4
<1>6. CASE Crash
  <2>1. UNCHANGED rows /\ \A w \in Workers : pc'[w] = "idle"
    BY <1>6 DEF Crash
  <2> QED
    BY <2>1, <1>t DEF rows, RowOK, WorkerOK
<1>7. CASE Restart
  BY <1>7, <1>0, <1>t DEF Restart, rows, worker, RowOK
<1>8. CASE UNCHANGED vars
  BY <1>8, <1>0, <1>t DEF vars, rows, worker, RowOK
<1> QED
  BY <1>1, <1>2, <1>3, <1>4, <1>5, <1>6, <1>7, <1>8, Zenon DEF Next, Quiet, AnyWorkerStep

-----------------------------------------------------------------------------
(* Waiting tasks, open tasks and submissions. *)

\* What a step of a worker does to its task: it never takes the row away or
\* reopens the task, gives up only an ended one, and submits it only when it
\* stops waiting.
LEMMA OwnTaskEffect ==
  ASSUME IInv, NEW w \in Workers, AnyWorkerStep(w), ~Dequeue(w), NEW t \in Tasks, job[w] = t
  PROVE  /\ status'[t] # NoStatus
         /\ ended[t] => ended'[t]
         /\ pc'[w] = "idle" => ended'[t]
         /\ \/ MarkRunningLoad(w)
            \/ pc'[w] \notin {"loading", "starting"}
         /\ \/ runs'[t] = runs[t]
            \/ runs'[t] = runs[t] + 1 /\ pc[w] = "starting"
<1>t. TypeOK /\ pc[w] # "idle" /\ job[w] = t /\ WorkerOK(w) /\ status[t] # NoStatus
  <2>1. pc[w] # "idle"
    BY NumTasksAssumption DEF IInv, Placement, Tasks, NoTask
  <2> QED
    BY <2>1, WorkerHasTask DEF IInv
<1> USE <1>t DEF TypeOK, WorkerOK, Goto, Release, EndAs, Charge, AppendEvent, NoStatus
<1>2. CASE MarkRunningLoad(w)
  BY <1>2 DEF MarkRunningLoad, rows
<1>3. CASE MarkRunningCancelled(w)
  BY <1>3 DEF MarkRunningCancelled
<1>4. CASE MarkRunning(w)
  BY <1>4 DEF MarkRunning
<1>5. CASE EventLoad(w)
  BY <1>5 DEF EventLoad, rows
<1>6. CASE EventCancelled(w)
  BY <1>6 DEF EventCancelled
<1>7. CASE EventDelta(w)
  BY <1>7 DEF EventDelta
<1>8. CASE EventNumber(w)
  BY <1>8 DEF EventNumber, rows
<1>9. CASE EventInsert(w)
  BY <1>9 DEF EventInsert
<1>10. CASE StreamEnds(w)
  BY <1>10 DEF StreamEnds, rows
<1>11. CASE MarkFailed(w)
  BY <1>11 DEF MarkFailed
<1>12. CASE MarkCompleted(w)
  BY <1>12 DEF MarkCompleted
<1>13. CASE SettleLoad(w, "settle", "charge")
  BY <1>13 DEF SettleLoad, rows
<1>14. CASE SettleLoad(w, "settleCancelled", "chargeCancelled")
  BY <1>14 DEF SettleLoad, rows
<1>15. CASE SettleCommit(w)
  BY <1>15 DEF SettleCommit
<1>16. CASE SettleCancelledCommit(w)
  BY <1>16 DEF SettleCancelledCommit
<1>17. CASE Abort(w)
  BY <1>17 DEF Abort, rows
<1>18. CASE WorkerDies(w)
  BY <1>18 DEF WorkerDies, rows
<1> QED
  BY <1>2, <1>3, <1>4, <1>5, <1>6, <1>7, <1>8, <1>9, <1>10, <1>11, <1>12,
     <1>13, <1>14, <1>15, <1>16, <1>17, <1>18 DEF AnyWorkerStep, WorkerStep

\* Rows stay, and ended tasks stay ended.
LEMMA RowsStay ==
  ASSUME IInv, [Next]_vars, NEW t \in Tasks
  PROVE  /\ status[t] # NoStatus => status'[t] # NoStatus
         /\ ended[t] => ended'[t]
<1>t. TypeOK
  BY DEF IInv
<1> USE <1>t DEF TypeOK, NoStatus
<1>1. ASSUME NEW x \in Tasks, CreateTask(x) \/ Enqueue(x)
      PROVE  (status[t] # NoStatus => status'[t] # NoStatus) /\ (ended[t] => ended'[t])
  BY <1>1 DEF CreateTask, Enqueue, rows
<1>2. ASSUME NEW c \in Cancels, CancelWrite(c) \/ \E x \in Tasks : CancelLoad(c, x)
      PROVE  (status[t] # NoStatus => status'[t] # NoStatus) /\ (ended[t] => ended'[t])
  BY <1>2 DEF CancelWrite, CancelLoad, rows
<1>3. ASSUME NEW w \in Workers, AnyWorkerStep(w)
      PROVE  (status[t] # NoStatus => status'[t] # NoStatus) /\ (ended[t] => ended'[t])
  <2>1. CASE Dequeue(w)
    BY <2>1 DEF Dequeue, rows
  <2>2. CASE t # job[w]
    BY <1>3, <2>2, OnlyOwnTask
  <2>3. CASE ~Dequeue(w) /\ t = job[w]
    BY <1>3, <2>3, OwnTaskEffect
  <2> QED
    BY <2>1, <2>2, <2>3
<1>4. CASE Crash \/ Restart
  BY <1>4 DEF Crash, Restart, rows
<1>5. CASE UNCHANGED vars
  BY <1>5 DEF vars, rows
<1> QED
  BY <1>1, <1>2, <1>3, <1>4, <1>5, Zenon DEF Next, Quiet, AnyWorkerStep

LEMMA CancelNext == IInv /\ [Next]_vars => (\A c \in Cancels : CancelOK(c))'
<1> SUFFICES ASSUME IInv, [Next]_vars, NEW c \in Cancels PROVE CancelOK(c)'
  OBVIOUS
<1>t. TypeOK /\ CancelOK(c)
  BY DEF IInv
<1>1. CASE UNCHANGED <<cpc, ctask>>
  BY <1>1, <1>t, RowsStay DEF CancelOK
<1>2. ASSUME NEW d \in Cancels, NEW t \in Tasks, CancelLoad(d, t) PROVE CancelOK(c)'
  <2>1. status' = status /\ status[t] # NoStatus
    BY <1>2 DEF CancelLoad, rows
  <2> QED
    BY <1>2, <1>t, <2>1 DEF CancelLoad, CancelOK, TypeOK
<1>3. ASSUME NEW d \in Cancels, CancelWrite(d) PROVE CancelOK(c)'
  <2>1. CASE c = d
    BY <1>3, <1>t, <2>1 DEF CancelWrite, CancelOK, TypeOK
  <2>2. CASE c # d
    <3>1. cpc'[c] = cpc[c] /\ ctask'[c] = ctask[c]
      BY <1>3, <1>t, <2>2 DEF CancelWrite, TypeOK
    <3> QED
      BY <1>t, <3>1, RowsStay DEF CancelOK
  <2> QED
    BY <2>1, <2>2
<1>4. CASE Crash
  BY <1>4, <1>t DEF Crash, CancelOK, TypeOK
<1>5. ASSUME NEW w \in Workers, AnyWorkerStep(w) PROVE CancelOK(c)'
  BY <1>1, <1>5, <1>t, OnlyOwnTask DEF cancel
<1>6. ASSUME NEW t \in Tasks, CreateTask(t) \/ Enqueue(t) PROVE CancelOK(c)'
  BY <1>1, <1>6 DEF CreateTask, Enqueue, cancel
<1>7. CASE Restart \/ UNCHANGED vars
  BY <1>1, <1>7 DEF Restart, vars, cancel
<1> QED
  BY <1>2, <1>3, <1>4, <1>5, <1>6, <1>7, Zenon DEF Next, Quiet, AnyWorkerStep

\* Who has a task, as seen from the owner variables.
LEMMA OwnedMeaning ==
  /\ TypeOK => \A t \in Tasks : t \in Held <=> \E w \in Workers : job[w] = t
  /\ TypeOK' => \A t \in Tasks : t \in Held' <=> \E w \in Workers : job'[w] = t
<1>1. NoTask \notin Tasks
  BY NumTasksAssumption DEF Tasks, NoTask
<1> QED
  BY <1>1 DEF Held, Range, TypeOK

\* A worker's step gives the process no task, makes none wait, and takes away
\* only an ended one.
LEMMA WorkerKeepsTasks ==
  ASSUME IInv, TypeOK', NEW w \in Workers, AnyWorkerStep(w), NEW t \in Tasks
  PROVE  /\ t \in (accepted \cup Queued \cup Held)' => t \in accepted \cup Queued \cup Held
         /\ t \in accepted \cup Queued \cup Held =>
              ended'[t] \/ t \in (accepted \cup Queued \cup Held)'
         /\ Waiting(t)' => Waiting(t) /\ (t = job[w] => Dequeue(w) \/ MarkRunningLoad(w))
<1>t. TypeOK
  BY DEF IInv
<1>0. accepted' = accepted
  BY <1>t, WorkerMoves
<1>j. \A v \in Workers : v # w => pc'[v] = pc[v] /\ job'[v] = job[v]
  BY <1>t, OnlyOwnTask
<1>1. CASE Dequeue(w)
  <2>1. /\ queue # <<>> /\ queue' = Tail(queue) /\ pc[w] = "idle"
        /\ job' = [job EXCEPT ![w] = Head(queue)]
    BY <1>1 DEF Dequeue, Goto
  <2>2. job'[w] = Head(queue) /\ job[w] = NoTask
    BY <1>t, <2>1 DEF TypeOK, IInv, Placement
  <2>3. Head(queue) \in Queued /\ Queued' = Queued \ {Head(queue)}
    <3>1. queue \in Seq(Tasks) /\ IsInjective(queue)
      BY <1>t, Zenon DEF TypeOK, IInv, SingleOwner
    <3> QED
      BY <2>1, <3>1, TakeHead DEF Queued
  <2>4. t \in Held' <=> t \in Held \/ t = Head(queue)
    BY <1>t, <1>j, <2>2, OwnedMeaning, NumTasksAssumption DEF Tasks, NoTask
  <2>5. Waiting(t)' => Waiting(t)
    BY <1>0, <1>j, <2>2, <2>3 DEF Waiting
  <2> QED
    BY <1>0, <1>1, <2>3, <2>4, <2>5
<1>2. CASE ~Dequeue(w)
  <2>1. queue' = queue /\ pc[w] # "idle"
    BY <1>t, <1>2, WorkerMoves
  <2>2. job[w] \in Tasks /\ \A v \in Workers : v # w => job[v] # job[w]
    BY <2>1, WorkerHasTask
  <2>3. Queued' = Queued
    BY <2>1 DEF Queued
  <2>4. \/ job' = job
        \/ job'[w] = NoTask /\ pc'[w] = "idle"
    BY <1>t, <1>2, WorkerMoves DEF Release, TypeOK
  <2>5. t \in Held' => t \in Held
    BY <1>t, <1>j, <2>4, OwnedMeaning, NumTasksAssumption DEF Tasks, NoTask
  <2>6. t \in Held => ended'[t] \/ t \in Held'
    <3>1. CASE t # job[w]
      BY <1>t, <1>j, <3>1, OwnedMeaning
    <3>2. CASE t = job[w] /\ job' = job
      BY <1>t, <3>2, OwnedMeaning
    <3>3. CASE t = job[w] /\ pc'[w] = "idle"
      BY <1>2, <3>3, OwnTaskEffect
    <3> QED
      BY <2>4, <3>1, <3>2, <3>3
  <2>7. Waiting(t)' => Waiting(t) /\ (t = job[w] => Dequeue(w) \/ MarkRunningLoad(w))
    <3> SUFFICES ASSUME Waiting(t)'
                 PROVE  Waiting(t) /\ (t = job[w] => MarkRunningLoad(w))
      OBVIOUS
    <3>1. \/ t \in accepted \cup Queued
          \/ \E v \in Workers : job'[v] = t /\ pc'[v] \in {"loading", "starting"}
      BY <1>0, <2>3 DEF Waiting
    <3>2. CASE t \in accepted \cup Queued
      <4>1. t \notin Held
        BY <3>2 DEF IInv, SingleOwner
      <4>2. t # job[w]
        BY <1>t, <4>1, OwnedMeaning
      <4> QED
        BY <3>2, <4>2 DEF Waiting
    <3>3. ASSUME NEW v \in Workers, v # w, job'[v] = t, pc'[v] \in {"loading", "starting"}
          PROVE  Waiting(t) /\ t # job[w]
      BY <1>j, <2>2, <3>3 DEF Waiting
    <3>4. CASE job'[w] = t /\ pc'[w] \in {"loading", "starting"}
      <4>1. job[w] = t
        BY <2>4, <3>4, NumTasksAssumption DEF Tasks, NoTask
      <4>2. MarkRunningLoad(w)
        BY <1>2, <3>4, <4>1, OwnTaskEffect
      <4> QED
        BY <4>1, <4>2 DEF Waiting, MarkRunningLoad, Goto
    <3> QED
      BY <3>1, <3>2, <3>3, <3>4
  <2> QED
    BY <1>0, <2>3, <2>5, <2>6, <2>7
<1> QED
  BY <1>1, <1>2

\* Whatever the step, only open tasks wait, and nothing owned lacks a row.
LEMMA WaitingNext == IInv /\ [Next]_vars => WaitingOK'
<1> SUFFICES ASSUME IInv, [Next]_vars PROVE WaitingOK'
  OBVIOUS
<1>t. TypeOK /\ TypeOK' /\ WaitingOK /\ \A t \in Tasks : RowOK(t)
  BY TypeNext DEF IInv
<1>m. \A t \in Tasks : t \in Held <=> \E w \in Workers : job[w] = t
  BY <1>t, OwnedMeaning
<1>m2. \A t \in Tasks : t \in Held' <=> \E w \in Workers : job'[w] = t
  BY <1>t, OwnedMeaning
<1>s. /\ accepted \cup Queued \cup Held \subseteq Tasks
      /\ (accepted \cup Queued \cup Held)' \subseteq Tasks
  BY <1>t DEF TypeOK, Queued, Held, Range
<1> DEFINE Owned == accepted \cup Queued \cup Held
<1> SUFFICES ASSUME NEW t \in Tasks
             PROVE  /\ t \in Owned' => status'[t] # NoStatus
                    /\ t \in accepted' => ~ended'[t]
                    /\ Waiting(t)' => status'[t] \in OpenStatuses
  BY <1>s, Zenon DEF WaitingOK
<1>o. /\ t \in Owned => status[t] # NoStatus /\ status'[t] # NoStatus
      /\ t \in accepted => ~ended[t]
      /\ Waiting(t) => status[t] \in OpenStatuses
  BY <1>t, RowsStay DEF WaitingOK
<1> HIDE DEF Owned
<1> DEFINE Goal == /\ t \in Owned' => status'[t] # NoStatus
                   /\ t \in accepted' => ~ended'[t]
                   /\ Waiting(t)' => status'[t] \in OpenStatuses
<1> SUFFICES Goal
  OBVIOUS
<1>1. ASSUME NEW x \in Tasks, CreateTask(x) PROVE Goal
  <2>1. /\ accepted' = accepted \cup {x} /\ UNCHANGED <<queue, job, pc, ended>>
        /\ status[x] = NoStatus /\ status' = [status EXCEPT ![x] = "queued"]
    BY <1>1 DEF CreateTask, worker
  <2>2. ~ended[x]
    BY <1>t, <2>1 DEF RowOK
  <2>3. CASE t = x
    BY <1>t, <2>1, <2>2, <2>3 DEF TypeOK, NoStatus, OpenStatuses
  <2>4. CASE t # x
    <3>1. status'[t] = status[t]
      BY <1>t, <2>1, <2>4 DEF TypeOK
    <3>2. /\ t \in Owned' <=> t \in Owned
          /\ t \in accepted' <=> t \in accepted
          /\ Waiting(t)' <=> Waiting(t)
      BY <2>1, <2>4 DEF Owned, Queued, Held, Waiting
    <3> QED
      BY <1>o, <2>1, <3>1, <3>2
  <2> QED
    BY <2>3, <2>4
<1>2. ASSUME NEW x \in Tasks, Enqueue(x) PROVE Goal
  <2>1. /\ x \in accepted /\ accepted' = accepted \ {x} /\ queue' = Append(queue, x)
        /\ UNCHANGED <<job, pc, ended, status>>
    BY <1>2 DEF Enqueue, worker, rows
  <2>2. Queued' = Queued \cup {x}
    <3>1. queue \in Seq(Tasks) /\ IsInjective(queue) /\ x \notin Range(queue)
      BY <1>t, <2>1, Zenon DEF TypeOK, IInv, SingleOwner, Queued
    <3> QED
      BY <2>1, <3>1, AppendFresh DEF Queued
  <2>3. t \in Owned' <=> t \in Owned
    BY <2>1, <2>2 DEF Owned, Held
  <2>4. Waiting(t)' <=> Waiting(t)
    BY <2>1, <2>2 DEF Waiting
  <2> QED
    BY <1>o, <2>1, <2>3, <2>4
<1>3. ASSUME NEW c \in Cancels, CancelWrite(c) \/ \E x \in Tasks : CancelLoad(c, x) PROVE Goal
  <2>1. /\ UNCHANGED <<accepted, queue, job, pc, ended>>
        /\ status'[t] = status[t] \/ status'[t] = "cancel_requested"
    BY <1>3, <1>t DEF CancelWrite, CancelLoad, worker, rows, TypeOK
  <2>2. (t \in Owned' <=> t \in Owned) /\ (Waiting(t)' <=> Waiting(t))
    BY <2>1 DEF Owned, Queued, Held, Waiting
  <2> QED
    BY <1>o, <2>1, <2>2 DEF OpenStatuses
<1>4. ASSUME NEW w \in Workers, AnyWorkerStep(w) PROVE Goal
  <2>1. /\ t \in Owned' => t \in Owned
        /\ Waiting(t)' => Waiting(t) /\ (t = job[w] => Dequeue(w) \/ MarkRunningLoad(w))
    BY <1>4, <1>t, WorkerKeepsTasks DEF Owned
  <2>2. t \in accepted' => t \in accepted /\ ended'[t] = ended[t]
    <3>1. accepted' = accepted
      BY <1>4, <1>t, WorkerMoves
    <3>2. t \in accepted => t # job[w]
      BY <1>m DEF IInv, SingleOwner
    <3> QED
      BY <1>4, <1>t, <3>1, <3>2, OnlyOwnTask
  <2>3. Waiting(t)' => status'[t] = status[t]
    BY <1>4, <1>t, <2>1, OnlyOwnTask DEF Dequeue, MarkRunningLoad, rows
  <2> QED
    BY <1>o, <2>1, <2>2, <2>3
<1>5. CASE Crash
  <2>1. accepted' = {} /\ queue' = <<>> /\ job' = [w \in Workers |-> NoTask]
    BY <1>5 DEF Crash
  <2>2. t \notin Owned' /\ ~Waiting(t)'
    <3>1. ~(\E w \in Workers : job'[w] = t)
      BY <2>1, NumTasksAssumption DEF Tasks, NoTask
    <3>2. Queued' = {}
      BY <2>1 DEF Queued, Range
    <3> QED
      BY <1>m2, <2>1, <3>1, <3>2 DEF Owned, Waiting
  <2> QED
    BY <2>1, <2>2
<1>6. CASE Restart
  <2>1. /\ UNCHANGED <<accepted, job, pc, status, ended>> /\ accepted = {}
        /\ \A w \in Workers : job[w] = NoTask
        /\ queue' \in InOrder({x \in Tasks : status[x] \in OpenStatuses})
    BY <1>6 DEF Restart, RequeueOpenTasks, worker, rows, IInv, Placement
  <2>2. Queued' = {x \in Tasks : status[x] \in OpenStatuses}
    BY <2>1, Requeued DEF Queued
  <2>3. ~(\E w \in Workers : job'[w] = t)
    BY <2>1, NumTasksAssumption DEF Tasks, NoTask
  <2>4. (t \in Owned' \/ Waiting(t)') => status[t] \in OpenStatuses
    BY <1>m2, <2>1, <2>2, <2>3 DEF Owned, Waiting
  <2> QED
    BY <2>1, <2>4 DEF OpenStatuses, NoStatus
<1>7. CASE UNCHANGED vars
  BY <1>7, <1>o DEF vars, rows, worker, Owned, Queued, Held, Waiting
<1> QED
  BY <1>1, <1>2, <1>3, <1>4, <1>5, <1>6, <1>7, Zenon DEF Next, Quiet, AnyWorkerStep

\* No step lets the process forget an open task.
LEMMA OpenNext == IInv /\ [Next]_vars => OpenTaskHasOwner'
<1> SUFFICES ASSUME IInv, [Next]_vars, up', NEW t \in Tasks,
                    status'[t] \in OpenStatuses, ~ended'[t]
             PROVE  t \in (accepted \cup Queued \cup Held)'
  BY DEF OpenTaskHasOwner
<1>t. TypeOK /\ TypeOK' /\ ~ended[t] /\ RowOK(t)
  BY TypeNext, RowsStay DEF IInv
<1>o. up /\ status[t] \in OpenStatuses => t \in accepted \cup Queued \cup Held
  BY <1>t DEF IInv, OpenTaskHasOwner
<1>1. ASSUME NEW x \in Tasks, CreateTask(x) PROVE t \in (accepted \cup Queued \cup Held)'
  <2>1. /\ up /\ accepted' = accepted \cup {x} /\ UNCHANGED <<queue, job>>
        /\ status' = [status EXCEPT ![x] = "queued"]
    BY <1>1 DEF CreateTask, worker
  <2>2. CASE t = x
    BY <2>1, <2>2
  <2>3. CASE t # x
    BY <1>o, <1>t, <2>1, <2>3 DEF TypeOK, Queued, Held
  <2> QED
    BY <2>2, <2>3
<1>2. ASSUME NEW x \in Tasks, Enqueue(x) PROVE t \in (accepted \cup Queued \cup Held)'
  <2>1. /\ up /\ x \in accepted /\ accepted' = accepted \ {x} /\ queue' = Append(queue, x)
        /\ UNCHANGED <<job, status>>
    BY <1>2 DEF Enqueue, worker, rows
  <2>2. Queued' = Queued \cup {x}
    <3>1. queue \in Seq(Tasks) /\ IsInjective(queue) /\ x \notin Range(queue)
      BY <1>t, <2>1, Zenon DEF TypeOK, IInv, SingleOwner, Queued
    <3> QED
      BY <2>1, <3>1, AppendFresh DEF Queued
  <2> QED
    BY <1>o, <2>1, <2>2 DEF Held
<1>3. ASSUME NEW c \in Cancels, CancelWrite(c) \/ \E x \in Tasks : CancelLoad(c, x)
      PROVE  t \in (accepted \cup Queued \cup Held)'
  <2>1. /\ up /\ UNCHANGED <<accepted, queue, job>>
        /\ status'[t] = status[t] \/ (CancelWrite(c) /\ cpc[c] = "loaded" /\ ctask[c] = t)
    BY <1>3, <1>t DEF CancelWrite, CancelLoad, worker, rows, TypeOK
  <2>2. status[t] # NoStatus
    BY <2>1 DEF IInv, CancelOK, OpenStatuses, NoStatus
  <2>3. status[t] \in OpenStatuses
    BY <1>t, <2>2 DEF TypeOK, RowOK, Statuses
  <2> QED
    BY <1>o, <2>1, <2>3 DEF Queued, Held
<1>4. ASSUME NEW w \in Workers, AnyWorkerStep(w) PROVE t \in (accepted \cup Queued \cup Held)'
  <2>1. up
    BY <1>4, <1>t, WorkerMoves
  <2>2. t \in accepted \cup Queued \cup Held
    <3>1. CASE t = job[w]
      BY <1>t, <3>1, OwnedMeaning
    <3>2. CASE t # job[w]
      BY <1>4, <1>o, <1>t, <2>1, <3>2, OnlyOwnTask
    <3> QED
      BY <3>1, <3>2
  <2> QED
    BY <1>4, <1>t, <2>2, WorkerKeepsTasks
<1>5. CASE Crash
  BY <1>5 DEF Crash
<1>6. CASE Restart
  <2>1. /\ status' = status
        /\ queue' \in InOrder({x \in Tasks : status[x] \in OpenStatuses})
    BY <1>6 DEF Restart, RequeueOpenTasks, rows
  <2>2. Queued' = {x \in Tasks : status[x] \in OpenStatuses}
    BY <2>1, Requeued DEF Queued
  <2> QED
    BY <2>1, <2>2
<1>7. CASE UNCHANGED vars
  BY <1>7, <1>o DEF vars, rows, worker, Queued, Held
<1> QED
  BY <1>1, <1>2, <1>3, <1>4, <1>5, <1>6, <1>7, Zenon DEF Next, Quiet, AnyWorkerStep

\* A task is submitted only by a worker for which it waits.
LEMMA RunsNext == IInv /\ [Next]_vars => RunsOK'
<1> SUFFICES ASSUME IInv, [Next]_vars, NEW t \in Tasks
             PROVE  /\ runs'[t] <= crashes' + 1
                    /\ ~up' \/ Waiting(t)' => runs'[t] <= crashes'
  BY DEF RunsOK
<1>t. /\ TypeOK /\ TypeOK' /\ RowOK(t)
      /\ runs[t] <= crashes + 1
      /\ ~up \/ Waiting(t) => runs[t] <= crashes
      /\ runs[t] \in Nat /\ crashes \in Nat /\ runs'[t] \in Nat /\ crashes' \in Nat
  BY TypeNext DEF IInv, RunsOK, TypeOK
<1>1. ASSUME NEW x \in Tasks, CreateTask(x)
      PROVE  runs'[t] <= crashes' + 1 /\ (~up' \/ Waiting(t)' => runs'[t] <= crashes')
  <2>1. /\ accepted' = accepted \cup {x} /\ UNCHANGED <<queue, job, pc, runs, up, crashes>>
        /\ status[x] = NoStatus
    BY <1>1 DEF CreateTask, worker, env
  <2>2. CASE t = x
    BY <1>t, <2>1, <2>2 DEF RowOK
  <2>3. CASE t # x
    BY <1>t, <2>1, <2>3 DEF Waiting, Queued
  <2> QED
    BY <2>2, <2>3
<1>2. ASSUME NEW x \in Tasks, Enqueue(x)
      PROVE  runs'[t] <= crashes' + 1 /\ (~up' \/ Waiting(t)' => runs'[t] <= crashes')
  <2>1. /\ x \in accepted /\ accepted' = accepted \ {x} /\ queue' = Append(queue, x)
        /\ UNCHANGED <<job, pc, runs, up, crashes>>
    BY <1>2 DEF Enqueue, worker, rows, env
  <2>2. Queued' = Queued \cup {x}
    <3>1. queue \in Seq(Tasks) /\ IsInjective(queue) /\ x \notin Range(queue)
      BY <1>t, <2>1, Zenon DEF TypeOK, IInv, SingleOwner, Queued
    <3> QED
      BY <2>1, <3>1, AppendFresh DEF Queued
  <2>3. Waiting(t)' <=> Waiting(t)
    BY <2>1, <2>2 DEF Waiting
  <2> QED
    BY <1>t, <2>1, <2>3
<1>3. ASSUME NEW c \in Cancels, CancelWrite(c) \/ \E x \in Tasks : CancelLoad(c, x)
      PROVE  runs'[t] <= crashes' + 1 /\ (~up' \/ Waiting(t)' => runs'[t] <= crashes')
  <2>1. UNCHANGED <<accepted, queue, job, pc, runs, up, crashes>>
    BY <1>3 DEF CancelWrite, CancelLoad, worker, rows, env
  <2> QED
    BY <1>t, <2>1 DEF Waiting, Queued
<1>4. ASSUME NEW w \in Workers, AnyWorkerStep(w)
      PROVE  runs'[t] <= crashes' + 1 /\ (~up' \/ Waiting(t)' => runs'[t] <= crashes')
  <2>1. up /\ up' = up /\ crashes' = crashes
    BY <1>4, <1>t, WorkerMoves
  <2>2. CASE t # job[w] \/ Dequeue(w)
    <3>1. runs'[t] = runs[t]
      BY <1>4, <1>t, <2>2, OnlyOwnTask DEF Dequeue, rows
    <3>2. Waiting(t)' => Waiting(t)
      BY <1>4, <1>t, WorkerKeepsTasks
    <3> QED
      BY <1>t, <2>1, <3>1, <3>2
  <2>3. CASE t = job[w] /\ ~Dequeue(w)
    <3>1. \/ runs'[t] = runs[t]
          \/ runs'[t] = runs[t] + 1 /\ pc[w] = "starting"
      BY <1>4, <2>3, OwnTaskEffect
    <3>2. pc[w] = "starting" => Waiting(t)
      BY <2>3 DEF Waiting
    <3>3. Waiting(t)' => Waiting(t) /\ MarkRunningLoad(w)
      BY <1>4, <1>t, <2>3, WorkerKeepsTasks
    <3>4. MarkRunningLoad(w) => runs' = runs
      BY DEF MarkRunningLoad, rows
    <3> QED
      BY <1>t, <2>1, <3>1, <3>2, <3>3, <3>4
  <2> QED
    BY <2>2, <2>3
<1>5. CASE Crash
  <2>1. runs' = runs /\ crashes' = crashes + 1
    BY <1>5 DEF Crash, rows
  <2> QED
    BY <1>t, <2>1
<1>6. CASE Restart
  BY <1>6, <1>t DEF Restart, rows
<1>7. CASE UNCHANGED vars
  BY <1>7, <1>t DEF vars, rows, worker, Waiting, Queued
<1> QED
  BY <1>1, <1>2, <1>3, <1>4, <1>5, <1>6, <1>7, Zenon DEF Next, Quiet, AnyWorkerStep

-----------------------------------------------------------------------------
(* The theorems. *)

LEMMA InvInit == Init => IInv
<1> SUFFICES ASSUME Init PROVE IInv
  OBVIOUS
<1>1. /\ accepted = {} /\ queue = <<>> /\ up
      /\ \A w \in Workers : job[w] = NoTask /\ pc[w] = "idle"
      /\ \A c \in Cancels : cpc[c] = "unsent"
      /\ \A t \in Tasks : /\ status[t] = NoStatus /\ ~started[t] /\ ~ended[t]
                          /\ charges[t] = 0 /\ runs[t] = 0
      /\ crashes = 0
  BY DEF Init
<1>2. TypeOK
  BY TypeInit
<1>3. Queued = {} /\ Held = {}
  BY <1>1, <1>2 DEF Queued, Held, Range, TypeOK
<1>4. SingleOwner
  BY <1>1, <1>3 DEF SingleOwner, IsInjective
<1>5. Placement /\ WaitingOK /\ RunsOK
  BY <1>1, <1>3 DEF Placement, WaitingOK, RunsOK, Waiting
<1>6. \A t \in Tasks : RowOK(t)
  BY <1>1 DEF RowOK, NoStatus, TerminalStatuses
<1>7. (\A w \in Workers : WorkerOK(w)) /\ (\A c \in Cancels : CancelOK(c))
  BY <1>1 DEF WorkerOK, CancelOK
<1>8. OpenTaskHasOwner
  BY <1>1 DEF OpenTaskHasOwner, OpenStatuses, NoStatus
<1> QED
  BY <1>2, <1>4, <1>5, <1>6, <1>7, <1>8 DEF IInv

LEMMA InvNext == IInv /\ [Next]_vars => IInv'
  BY TypeNext, OwnerNext, WaitingNext, RowNext, CancelNext, OpenNext, RunsNext, Zenon DEF IInv

LEMMA Invariance == Spec => []IInv
  BY InvInit, InvNext, PTL DEF Spec

\* The columns of a row, the queue and the workers' variables have their types
\* whatever the handlers, the runner and the process do.
THEOREM TypeCorrect == Spec => []TypeOK
<1>1. IInv => TypeOK
  BY DEF IInv
<1> QED
  BY <1>1, Invariance, PTL

\* Enqueueing, dequeueing and requeue_open_tasks never give a task to two
\* owners, for any number of workers and restarts.
THEOREM TasksHaveOneOwner == Spec => []SingleOwner
<1>1. IInv => SingleOwner
  BY DEF IInv
<1> QED
  BY <1>1, Invariance, PTL

\* A running process has every open task with a create handler, the queue or a
\* worker, unless a late cancel handler has reopened the row of an ended task.
THEOREM NoTaskForgotten == Spec => []OpenTaskHasOwner
<1>1. IInv => OpenTaskHasOwner
  BY DEF IInv
<1> QED
  BY <1>1, Invariance, PTL

\* _settle_runtime_usage charges the runtime of a task at most once, and only
\* after it was submitted and has ended.
THEOREM NoDoubleCharge == Spec => []ChargedAtMostOnce
<1>1. IInv => ChargedAtMostOnce
  BY DEF IInv, RowOK, ChargedAtMostOnce
<1> QED
  BY <1>1, Invariance, PTL

\* A process submits a task to Hermes at most once.
THEOREM NoResubmission == Spec => []SubmittedOncePerProcess
<1>1. IInv => SubmittedOncePerProcess
  BY DEF IInv, RunsOK, SubmittedOncePerProcess
<1> QED
  BY <1>1, Invariance, PTL

-----------------------------------------------------------------------------
(* The runner implements the contract. *)

\* The phase of each task: what the refinement mapping of Contract computes.  The
\* submissions and the charges are counted by both specifications.
PhaseMap == [t \in Tasks |-> IF status[t] = NoStatus THEN "absent"
                             ELSE IF ended[t] THEN "ended" ELSE "open"]

\* The initial state is one of the contract's.
LEMMA ContractInit == Init => Contract!Init
<1> SUFFICES ASSUME Init PROVE Contract!Init
  OBVIOUS
<1>1. /\ \A t \in Tasks : status[t] = NoStatus
      /\ runs = [t \in Tasks |-> 0] /\ charges = [t \in Tasks |-> 0]
  BY DEF Init
<1>2. PhaseMap = [t \in Tasks |-> "absent"]
  BY <1>1 DEF PhaseMap
<1> QED
  BY <1>1, <1>2, Zenon DEF Contract!Init, PhaseMap

\* A step that neither creates a row nor ends a task leaves the phases alone.
LEMMA SamePhases ==
  ASSUME \A t \in Tasks : /\ status'[t] = NoStatus <=> status[t] = NoStatus
                          /\ ended'[t] <=> ended[t]
  PROVE  PhaseMap' = PhaseMap
<1>1. \A t \in Tasks :
        (IF status'[t] = NoStatus THEN "absent" ELSE IF ended'[t] THEN "ended" ELSE "open")
        = (IF status[t] = NoStatus THEN "absent" ELSE IF ended[t] THEN "ended" ELSE "open")
  OBVIOUS
<1> QED
  BY <1>1, Zenon DEF PhaseMap

\* A step that changes no column the mapping looks at is a stutter.
LEMMA ContractStutter ==
  ASSUME PhaseMap' = PhaseMap, runs' = runs, charges' = charges
  PROVE  UNCHANGED Contract!vars
BY Zenon DEF Contract!vars, PhaseMap

\* Ending a task is End the first time and a stutter after it.
LEMMA ContractEnd ==
  ASSUME IInv, NEW t \in Tasks, NEW s \in TerminalStatuses, status[t] # NoStatus, EndAs(t, s)
  PROVE  [Contract!Next]_(Contract!vars)
<1>t. TypeOK
  BY DEF IInv
<1>1. /\ status' = [status EXCEPT ![t] = s] /\ s # NoStatus
      /\ ended' = [ended EXCEPT ![t] = TRUE]
      /\ charges' = charges /\ runs' = runs
  BY DEF EndAs, TerminalStatuses, NoStatus
<1>2. CASE ended[t]
  <2>1. PhaseMap' = PhaseMap
    BY <1>1, <1>2, <1>t, SamePhases DEF TypeOK
  <2> QED
    BY <1>1, <2>1, ContractStutter
<1>3. CASE ~ended[t]
  <2>1. PhaseMap[t] = "open"
    BY <1>3 DEF PhaseMap
  <2>2. PhaseMap' = [PhaseMap EXCEPT ![t] = "ended"]
    <3>1. \A x \in Tasks : x # t => status'[x] = status[x] /\ ended'[x] = ended[x]
      BY <1>1, <1>t DEF TypeOK
    <3>2. status'[t] # NoStatus /\ ended'[t]
      BY <1>1, <1>t DEF TypeOK
    <3> QED
      BY <3>1, <3>2 DEF PhaseMap
  <2>3. Contract!End(t)
    BY <1>1, <2>1, <2>2, Zenon DEF Contract!End, PhaseMap
  <2> QED
    BY <2>3, Zenon DEF Contract!Next
<1> QED
  BY <1>2, <1>3

\* Charging an ended, submitted, uncharged task is Charge.
LEMMA ContractCharge ==
  ASSUME IInv, NEW t \in Tasks, Charge(t), status[t] # NoStatus, started[t], ended[t], charges[t] = 0
  PROVE  [Contract!Next]_(Contract!vars)
<1>t. TypeOK /\ RowOK(t)
  BY DEF IInv
<1>1. charges' = [charges EXCEPT ![t] = @ + 1] /\ UNCHANGED <<status, ended, runs>>
  BY DEF Charge
<1>2. PhaseMap' = PhaseMap /\ PhaseMap[t] = "ended" /\ runs[t] > 0
  BY <1>1, <1>t DEF PhaseMap, RowOK
<1>3. charges' = [charges EXCEPT ![t] = 1]
  BY <1>1
<1>4. Contract!Charge(t)
  BY <1>1, <1>2, <1>3, Zenon DEF Contract!Charge, PhaseMap
<1> QED
  BY <1>4, Zenon DEF Contract!Next

\* Submitting an open task is Submit.
LEMMA ContractSubmit ==
  ASSUME IInv, NEW w \in Workers, MarkRunning(w)
  PROVE  [Contract!Next]_(Contract!vars)
<1> DEFINE t == job[w]
<1>t. /\ TypeOK /\ t \in Tasks /\ status[t] # NoStatus /\ ~ended[t]
  <2>1. pc[w] = "starting" /\ seen[w] # "cancel_requested"
    BY DEF MarkRunning, Goto
  <2> QED
    BY <2>1, WorkerHasTask DEF IInv, WorkerOK
<1>1. /\ runs' = [runs EXCEPT ![t] = @ + 1] /\ UNCHANGED <<ended, charges>>
      /\ status' = status \/ status' = [status EXCEPT ![t] = "running"]
  BY DEF MarkRunning
<1> HIDE DEF t
<1>2. PhaseMap' = PhaseMap
  <2>1. \A x \in Tasks : status'[x] = NoStatus <=> status[x] = NoStatus
    BY <1>1, <1>t DEF TypeOK, NoStatus
  <2> QED
    BY <1>1, <2>1, SamePhases
<1>3. PhaseMap[t] = "open"
  BY <1>t DEF PhaseMap
<1>4. Contract!Submit(t)
  BY <1>1, <1>2, <1>3, Zenon DEF Contract!Submit, PhaseMap
<1> QED
  BY <1>t, <1>4, Zenon DEF Contract!Next

\* Every step is a step of the contract or a stutter.
LEMMA ContractNext == IInv /\ [Next]_vars => [Contract!Next]_(Contract!vars)
<1> SUFFICES ASSUME IInv, [Next]_vars PROVE [Contract!Next]_(Contract!vars)
  OBVIOUS
<1>t. TypeOK
  BY DEF IInv
<1>s. ASSUME UNCHANGED <<status, ended, runs, charges>> PROVE [Contract!Next]_(Contract!vars)
  <2>1. PhaseMap' = PhaseMap
    BY <1>s, Zenon DEF PhaseMap
  <2> QED
    BY <1>s, <2>1, ContractStutter
<1>1. ASSUME NEW t \in Tasks, CreateTask(t) PROVE [Contract!Next]_(Contract!vars)
  <2>1. /\ status[t] = NoStatus /\ status' = [status EXCEPT ![t] = "queued"]
        /\ UNCHANGED <<ended, charges, runs>> /\ ~ended[t]
    BY <1>1 DEF CreateTask, IInv, RowOK
  <2>2. PhaseMap[t] = "absent"
    BY <2>1 DEF PhaseMap
  <2>3. PhaseMap' = [PhaseMap EXCEPT ![t] = "open"]
    <3>1. \A x \in Tasks : x # t => status'[x] = status[x]
      BY <1>t, <2>1 DEF TypeOK
    <3>2. status'[t] # NoStatus
      BY <1>t, <2>1 DEF TypeOK, NoStatus
    <3> QED
      BY <2>1, <3>1, <3>2 DEF PhaseMap
  <2>4. Contract!Accept(t)
    BY <2>1, <2>2, <2>3, Zenon DEF Contract!Accept, PhaseMap
  <2> QED
    BY <2>4, Zenon DEF Contract!Next
<1>2. ASSUME NEW t \in Tasks, Enqueue(t) PROVE [Contract!Next]_(Contract!vars)
  BY <1>2, <1>s DEF Enqueue, rows
<1>3. ASSUME NEW c \in Cancels, NEW t \in Tasks, CancelLoad(c, t)
      PROVE  [Contract!Next]_(Contract!vars)
  BY <1>3, <1>s DEF CancelLoad, rows
<1>4. ASSUME NEW c \in Cancels, CancelWrite(c) PROVE [Contract!Next]_(Contract!vars)
  <2>1. /\ UNCHANGED <<ended, charges, runs>>
        /\ status[ctask[c]] # NoStatus
        /\ status' = status \/ status' = [status EXCEPT ![ctask[c]] = "cancel_requested"]
    BY <1>4 DEF CancelWrite, IInv, CancelOK
  <2>2. \A x \in Tasks : status'[x] = NoStatus <=> status[x] = NoStatus
    BY <1>t, <2>1 DEF TypeOK, NoStatus
  <2>3. PhaseMap' = PhaseMap
    BY <2>1, <2>2, SamePhases
  <2> QED
    BY <2>1, <2>3, ContractStutter
<1>5. ASSUME NEW w \in Workers, AnyWorkerStep(w) PROVE [Contract!Next]_(Contract!vars)
  <2> USE DEF Goto, InTry
  <2>h. pc[w] # "idle" =>
          /\ job[w] \in Tasks /\ status[job[w]] # NoStatus
          /\ pc[w] \in {"charge", "chargeCancelled"} =>
               started[job[w]] /\ ended[job[w]] /\ charges[job[w]] = 0
    BY WorkerHasTask DEF WorkerOK
  <2>1. CASE Dequeue(w) \/ MarkRunningLoad(w) \/ EventLoad(w) \/ EventNumber(w)
    BY <2>1, <1>s DEF Dequeue, MarkRunningLoad, EventLoad, EventNumber, rows
  <2>2. CASE MarkRunningCancelled(w)
    BY <2>2, <2>h, ContractEnd DEF MarkRunningCancelled, TerminalStatuses
  <2>3. CASE MarkRunning(w)
    BY <2>3, ContractSubmit
  <2>4. CASE EventCancelled(w)
    BY <2>4, <2>h, ContractEnd DEF EventCancelled, TerminalStatuses
  <2>5. CASE EventDelta(w) \/ EventInsert(w)
    BY <2>5, <1>s DEF EventDelta, EventInsert
  <2>6. CASE StreamEnds(w) \/ Abort(w) \/ WorkerDies(w)
    BY <2>6, <1>s DEF StreamEnds, Abort, WorkerDies, rows
  <2>7. CASE MarkFailed(w)
    BY <2>7, <2>h, ContractEnd DEF MarkFailed, TerminalStatuses
  <2>8. CASE MarkCompleted(w)
    BY <2>8, <2>h, ContractEnd DEF MarkCompleted, TerminalStatuses
  <2>9. CASE SettleLoad(w, "settle", "charge") \/ SettleLoad(w, "settleCancelled", "chargeCancelled")
    BY <2>9, <1>s DEF SettleLoad, rows
  <2>10. CASE SettleCommit(w)
    BY <2>10, <2>h, ContractCharge DEF SettleCommit
  <2>11. CASE SettleCancelledCommit(w)
    BY <2>11, <2>h, ContractCharge DEF SettleCancelledCommit
  <2> QED
    BY <1>5, <2>1, <2>2, <2>3, <2>4, <2>5, <2>6, <2>7, <2>8, <2>9, <2>10, <2>11
       DEF AnyWorkerStep, WorkerStep
<1>6. CASE Crash \/ Restart \/ UNCHANGED vars
  BY <1>6, <1>s DEF Crash, Restart, vars, rows
<1> QED
  BY <1>1, <1>2, <1>3, <1>4, <1>5, <1>6, Zenon DEF Next, Quiet, AnyWorkerStep

\* The handlers, the runner and its restarts implement HermesTaskContract: no
\* submission after the end of a task, no charge before it, and no second one.
THEOREM RunnerImplementsContract == Spec => ImplementsContract
<1>1. Init => Contract!Init
  BY ContractInit
<1>2. IInv /\ [Next]_vars => [Contract!Next]_(Contract!vars)
  BY ContractNext
<1> QED
  BY <1>1, <1>2, Invariance, PTL DEF Spec, ImplementsContract, Contract!Spec
=============================================================================
