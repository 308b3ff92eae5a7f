----------------------------- MODULE HermesTasks -----------------------------
(***************************************************************************)
(* The life of Hermes tasks: the API handlers that accept and cancel them, *)
(* the in-process queue and workers of HermesTaskRunner, the task rows in  *)
(* the database, and crashes and restarts of the process.                  *)
(*                                                                         *)
(* A step is the code between two awaits that other coroutines can         *)
(* observe.  The database is SQLite behind SQLAlchemy: a row is loaded     *)
(* outside any transaction, and the first write of a session takes the     *)
(* write lock until commit.  So loading a row is a step of its own, and    *)
(* everything a session writes is one later step.  An UPDATE names only    *)
(* the columns whose value differs from the one that was loaded, which is  *)
(* why the handlers keep the status they saw.                              *)
(***************************************************************************)
EXTENDS Integers, Sequences, FiniteSets, Functions

CONSTANTS
  NumTasks,   \* tasks the clients may create, in the order of created_at
  Workers,    \* worker coroutines: max_concurrent_tasks of them
  Cancels,    \* cancel requests the clients may send
  MaxSeq,     \* bound: no more stream events once a task has this many
  MaxCrashes, \* bound on the times the process ends and is started again
  MaxFaults   \* bound on database errors outside the runner's try block

ASSUME NumTasksAssumption == NumTasks \in Nat \ {0}
ASSUME BoundsAssumption == MaxSeq \in Nat /\ MaxCrashes \in Nat /\ MaxFaults \in Nat

Tasks == 1..NumTasks
NoTask == 0

\* The statuses requeue_open_tasks selects.
OpenStatuses == {"queued", "running", "cancel_requested"}
\* HERMES_TERMINAL_STATUSES without expired, which nothing in the code assigns.
TerminalStatuses == {"completed", "failed", "cancelled"}
Statuses == OpenStatuses \cup TerminalStatuses
NoStatus == "none"

VARIABLES
  status,   \* column status; NoStatus while there is no row
  started,  \* started_at is not NULL
  ended,    \* completed_at is not NULL
  lastSeq,  \* max(seq) over the events of the task
  charges,  \* rows of type hermes_task_runtime in the credit ledger
  runs,     \* history: times the task was submitted to Hermes
  up,       \* the process runs
  accepted, \* committed by a create handler that has not enqueued them yet
  queue,    \* HermesTaskRunner.queue
  pc,       \* where each worker is
  job,      \* the task each worker has dequeued
  seen,     \* the status each worker loaded last
  base,     \* the max(seq) each worker read last
  cpc,      \* where each cancel request is
  ctask,    \* the task it names
  cseen,    \* the status it loaded
  crashes, faults

rows == <<status, started, ended, lastSeq, charges, runs>>
worker == <<pc, job, seen, base>>
cancel == <<cpc, ctask, cseen>>
env == <<up, crashes, faults>>
vars == <<rows, up, accepted, queue, worker, cancel, crashes, faults>>

InTry == {"streaming", "loaded", "numbered", "settleCancelled", "chargeCancelled"}
OutsideTry == {"loading", "starting", "completing", "failing", "settle", "charge"}
WorkerStates == {"idle", "dead"} \cup InTry \cup OutsideTry

TypeOK ==
  /\ status \in [Tasks -> Statuses \cup {NoStatus}]
  /\ started \in [Tasks -> BOOLEAN]
  /\ ended \in [Tasks -> BOOLEAN]
  /\ lastSeq \in [Tasks -> Nat]
  /\ charges \in [Tasks -> Nat]
  /\ runs \in [Tasks -> Nat]
  /\ up \in BOOLEAN
  /\ accepted \in SUBSET Tasks
  /\ queue \in Seq(Tasks)
  /\ pc \in [Workers -> WorkerStates]
  /\ job \in [Workers -> Tasks \cup {NoTask}]
  /\ seen \in [Workers -> Statuses \cup {NoStatus}]
  /\ base \in [Workers -> Nat]
  /\ cpc \in [Cancels -> {"unsent", "loaded", "done"}]
  /\ ctask \in [Cancels -> Tasks \cup {NoTask}]
  /\ cseen \in [Cancels -> Statuses \cup {NoStatus}]
  /\ crashes \in Nat
  /\ faults \in Nat

Init ==
  /\ status = [t \in Tasks |-> NoStatus]
  /\ started = [t \in Tasks |-> FALSE]
  /\ ended = [t \in Tasks |-> FALSE]
  /\ lastSeq = [t \in Tasks |-> 0]
  /\ charges = [t \in Tasks |-> 0]
  /\ runs = [t \in Tasks |-> 0]
  /\ up = TRUE
  /\ accepted = {}
  /\ queue = <<>>
  /\ pc = [w \in Workers |-> "idle"]
  /\ job = [w \in Workers |-> NoTask]
  /\ seen = [w \in Workers |-> NoStatus]
  /\ base = [w \in Workers |-> 0]
  /\ cpc = [c \in Cancels |-> "unsent"]
  /\ ctask = [c \in Cancels |-> NoTask]
  /\ cseen = [c \in Cancels |-> NoStatus]
  /\ crashes = 0
  /\ faults = 0

-----------------------------------------------------------------------------
(* What several handlers do to a row. *)

\* append_hermes_task_event in a session that already holds the write lock.
AppendEvent(t) == lastSeq' = [lastSeq EXCEPT ![t] = @ + 1]

\* The runner ends a task: whatever the status column holds is overwritten.
EndAs(t, s) ==
  /\ status' = [status EXCEPT ![t] = s]
  /\ ended' = [ended EXCEPT ![t] = TRUE]
  /\ AppendEvent(t)
  /\ UNCHANGED <<started, charges, runs>>

\* Worker w goes from one place to another within the same task.
Goto(w, from, to) ==
  /\ up
  /\ pc[w] = from
  /\ pc' = [pc EXCEPT ![w] = to]

\* Worker w returns from run_task_once and waits for the queue again.
Release(w) ==
  /\ pc' = [pc EXCEPT ![w] = "idle"]
  /\ job' = [job EXCEPT ![w] = NoTask]

-----------------------------------------------------------------------------
(* The create and cancel handlers. *)

\* POST /v1/hermes/tasks, up to the commit of the row (and of the start fee).
CreateTask(t) ==
  /\ up
  /\ status[t] = NoStatus
  /\ status' = [status EXCEPT ![t] = "queued"]
  /\ accepted' = accepted \cup {t}
  /\ UNCHANGED <<started, ended, lastSeq, charges, runs, queue, worker, cancel, env>>

\* The same handler after the commit: runner.enqueue(task.id).
Enqueue(t) ==
  /\ up
  /\ t \in accepted
  /\ accepted' = accepted \ {t}
  /\ queue' = Append(queue, t)
  /\ UNCHANGED <<rows, worker, cancel, env>>

\* POST /v1/hermes/tasks/{id}/cancel: load the task; a terminal one is left alone.
CancelLoad(c, t) ==
  /\ up
  /\ cpc[c] = "unsent"
  /\ status[t] # NoStatus
  /\ IF status[t] \in TerminalStatuses
       THEN /\ cpc' = [cpc EXCEPT ![c] = "done"]
            /\ UNCHANGED <<ctask, cseen>>
       ELSE /\ cpc' = [cpc EXCEPT ![c] = "loaded"]
            /\ ctask' = [ctask EXCEPT ![c] = t]
            /\ cseen' = [cseen EXCEPT ![c] = status[t]]
  /\ UNCHANGED <<rows, accepted, queue, worker, env>>

\* The same handler's transaction.  The status column is in the UPDATE unless
\* the handler loaded cancel_requested; the event is written in any case.
CancelWrite(c) ==
  /\ up
  /\ cpc[c] = "loaded"
  /\ status' = IF cseen[c] = "cancel_requested"
                 THEN status
                 ELSE [status EXCEPT ![ctask[c]] = "cancel_requested"]
  /\ AppendEvent(ctask[c])
  /\ cpc' = [cpc EXCEPT ![c] = "done"]
  /\ ctask' = [ctask EXCEPT ![c] = NoTask]
  /\ cseen' = [cseen EXCEPT ![c] = NoStatus]
  /\ UNCHANGED <<started, ended, charges, runs, accepted, queue, worker, env>>

-----------------------------------------------------------------------------
(* The workers. *)

\* Mutant: the worker looks at the head of the queue without taking it.
DequeuePeeks(w) ==
  /\ Goto(w, "idle", "loading")
  /\ queue # <<>>
  /\ job' = [job EXCEPT ![w] = Head(queue)]
  /\ UNCHANGED <<rows, accepted, queue, seen, base, cancel, env>>

\* _worker: take the next task id off the queue.
Dequeue(w) ==
  /\ Goto(w, "idle", "loading")
  /\ queue # <<>>
  /\ job' = [job EXCEPT ![w] = Head(queue)]
  /\ queue' = Tail(queue)
  /\ UNCHANGED <<rows, accepted, seen, base, cancel, env>>

\* _mark_running: load the task.
MarkRunningLoad(w) ==
  /\ Goto(w, "loading", "starting")
  /\ seen' = [seen EXCEPT ![w] = status[job[w]]]
  /\ UNCHANGED <<rows, accepted, queue, job, base, cancel, env>>

\* _mark_running, the task was loaded with a cancel request: cancel it and
\* return without a runtime charge.
MarkRunningCancelled(w) ==
  /\ up
  /\ pc[w] = "starting"
  /\ seen[w] = "cancel_requested"
  /\ EndAs(job[w], "cancelled")
  /\ Release(w)
  /\ seen' = [seen EXCEPT ![w] = NoStatus]
  /\ UNCHANGED <<accepted, queue, base, cancel, env>>

\* _mark_running otherwise: running, started_at kept if set, and on to Hermes.
\* A task loaded as running keeps the status column as it is now.
MarkRunning(w) ==
  LET t == job[w] IN
  /\ Goto(w, "starting", "streaming")
  /\ seen[w] # "cancel_requested"
  /\ status' = IF seen[w] = "running" THEN status
                                      ELSE [status EXCEPT ![t] = "running"]
  /\ started' = [started EXCEPT ![t] = TRUE]
  /\ runs' = [runs EXCEPT ![t] = @ + 1]
  /\ AppendEvent(t)
  /\ seen' = [seen EXCEPT ![w] = NoStatus]
  /\ UNCHANGED <<ended, charges, accepted, queue, job, base, cancel, env>>

\* An event of the Hermes stream arrived: load the task.
EventLoad(w) ==
  /\ Goto(w, "streaming", "loaded")
  /\ lastSeq[job[w]] < MaxSeq
  /\ seen' = [seen EXCEPT ![w] = status[job[w]]]
  /\ UNCHANGED <<rows, accepted, queue, job, base, cancel, env>>

\* Mutant: a cancelled task is not settled.
EventCancelledUnsettled(w) ==
  /\ up
  /\ pc[w] = "loaded"
  /\ seen[w] = "cancel_requested"
  /\ EndAs(job[w], "cancelled")
  /\ Release(w)
  /\ seen' = [seen EXCEPT ![w] = NoStatus]
  /\ UNCHANGED <<accepted, queue, base, cancel, env>>

\* The task was loaded with a cancel request: stop streaming, commit cancelled.
EventCancelled(w) ==
  /\ Goto(w, "loaded", "settleCancelled")
  /\ seen[w] = "cancel_requested"
  /\ EndAs(job[w], "cancelled")
  /\ seen' = [seen EXCEPT ![w] = NoStatus]
  /\ UNCHANGED <<accepted, queue, job, base, cancel, env>>

\* A text delta changes output_text, so the row is written before max(seq) is
\* read: the number and the insert are one transaction.
EventDelta(w) ==
  /\ Goto(w, "loaded", "streaming")
  /\ seen[w] # "cancel_requested"
  /\ AppendEvent(job[w])
  /\ seen' = [seen EXCEPT ![w] = NoStatus]
  /\ UNCHANGED <<status, started, ended, charges, runs, accepted, queue, job, base, cancel, env>>

\* Any other event leaves the row clean: max(seq) is read without the lock.
EventNumber(w) ==
  /\ Goto(w, "loaded", "numbered")
  /\ seen[w] # "cancel_requested"
  /\ base' = [base EXCEPT ![w] = lastSeq[job[w]]]
  /\ seen' = [seen EXCEPT ![w] = NoStatus]
  /\ UNCHANGED <<rows, accepted, queue, job, cancel, env>>

\* The insert of that event: the unique constraint (task_id, seq) rejects it
\* when a cancel handler has used the number, and run_task_once catches that.
EventInsert(w) ==
  /\ up
  /\ pc[w] = "numbered"
  /\ IF base[w] = lastSeq[job[w]]
       THEN /\ pc' = [pc EXCEPT ![w] = "streaming"]
            /\ AppendEvent(job[w])
       ELSE /\ pc' = [pc EXCEPT ![w] = "failing"]
            /\ UNCHANGED lastSeq
  /\ base' = [base EXCEPT ![w] = 0]
  /\ UNCHANGED <<status, started, ended, charges, runs, accepted, queue, job, seen, cancel, env>>

\* The Hermes stream ends without an error.
StreamEnds(w) ==
  /\ Goto(w, "streaming", "completing")
  /\ UNCHANGED <<rows, accepted, queue, job, seen, base, cancel, env>>

\* Mutant: a task whose stream broke is started again.
AbortRetries(w) ==
  /\ up
  /\ pc[w] \in InTry
  /\ pc' = [pc EXCEPT ![w] = "loading"]
  /\ seen' = [seen EXCEPT ![w] = NoStatus]
  /\ base' = [base EXCEPT ![w] = 0]
  /\ UNCHANGED <<rows, accepted, queue, job, cancel, env>>

\* The runtime limit, an error of Hermes, or an error of the database inside
\* the try block: the session is rolled back and one of the handlers runs.
Abort(w) ==
  /\ up
  /\ pc[w] \in InTry
  /\ pc' = [pc EXCEPT ![w] = "failing"]
  /\ seen' = [seen EXCEPT ![w] = NoStatus]
  /\ base' = [base EXCEPT ![w] = 0]
  /\ UNCHANGED <<rows, accepted, queue, job, cancel, env>>

\* Mutant: the status of an overdue task is "expired", which nothing handles.
MarkExpired(w) ==
  /\ Goto(w, "failing", "settle")
  /\ EndAs(job[w], "expired")
  /\ UNCHANGED <<accepted, queue, job, seen, base, cancel, env>>

\* _mark_failed.
MarkFailed(w) ==
  /\ Goto(w, "failing", "settle")
  /\ EndAs(job[w], "failed")
  /\ UNCHANGED <<accepted, queue, job, seen, base, cancel, env>>

\* _mark_completed.
MarkCompleted(w) ==
  /\ Goto(w, "completing", "settle")
  /\ EndAs(job[w], "completed")
  /\ UNCHANGED <<accepted, queue, job, seen, base, cancel, env>>

\* Mutant: runtime_usage_record_id is not looked at.
BillableAgain(t) == started[t] /\ ended[t]

\* _settle_runtime_usage charges a task that ran, ended, and has no
\* runtime_usage_record_id yet.  (Its runtime is positive: the clock is read
\* when it starts and when it ends.)
Billable(t) == charges[t] = 0 /\ started[t] /\ ended[t]

\* _settle_runtime_usage: load the task and decide.
SettleLoad(w, from, to) ==
  /\ up
  /\ pc[w] = from
  /\ IF Billable(job[w])
       THEN /\ pc' = [pc EXCEPT ![w] = to]
            /\ UNCHANGED job
       ELSE Release(w)
  /\ UNCHANGED <<rows, accepted, queue, seen, base, cancel, env>>

\* The charge and runtime_usage_record_id, in one transaction.
Charge(t) ==
  /\ charges' = [charges EXCEPT ![t] = @ + 1]
  /\ UNCHANGED <<status, started, ended, lastSeq, runs>>

SettleCommit(w) ==
  /\ up
  /\ pc[w] = "charge"
  /\ Charge(job[w])
  /\ Release(w)
  /\ UNCHANGED <<accepted, queue, seen, base, cancel, env>>

\* The settlement of a cancelled task is inside the try block: the runtime
\* limit may strike while the commit is awaited, and the task then fails.
SettleCancelledCommit(w) ==
  /\ up
  /\ pc[w] = "chargeCancelled"
  /\ Charge(job[w])
  /\ \/ Release(w)
     \/ /\ pc' = [pc EXCEPT ![w] = "failing"]
        /\ UNCHANGED job
  /\ UNCHANGED <<accepted, queue, seen, base, cancel, env>>

\* A database error outside the try block ends the worker coroutine: _worker
\* has no except clause.  job keeps the task it died with.
WorkerDies(w) ==
  /\ up
  /\ faults < MaxFaults
  /\ pc[w] \in OutsideTry
  /\ pc' = [pc EXCEPT ![w] = "dead"]
  /\ seen' = [seen EXCEPT ![w] = NoStatus]
  /\ faults' = faults + 1
  /\ UNCHANGED <<rows, up, accepted, queue, job, base, cancel, crashes>>

-----------------------------------------------------------------------------
(* The process. *)

\* The process is killed, or stop() cancels the workers: every CancelledError
\* passes the except clauses, so either way only the rows survive.
Crash ==
  /\ up
  /\ crashes < MaxCrashes
  /\ crashes' = crashes + 1
  /\ up' = FALSE
  /\ accepted' = {}
  /\ queue' = <<>>
  /\ pc' = [w \in Workers |-> "idle"]
  /\ job' = [w \in Workers |-> NoTask]
  /\ seen' = [w \in Workers |-> NoStatus]
  /\ base' = [w \in Workers |-> 0]
  /\ cpc' = [c \in Cancels |-> IF cpc[c] = "loaded" THEN "done" ELSE cpc[c]]
  /\ ctask' = [c \in Cancels |-> NoTask]
  /\ cseen' = [c \in Cancels |-> NoStatus]
  /\ UNCHANGED <<rows, faults>>

\* The elements of S, a set of tasks, in the order of created_at.
InOrder(S) ==
  {q \in Surjection(1..Cardinality(S), S) : \A i, j \in DOMAIN q : i < j => q[i] < q[j]}

\* Mutant: only tasks no worker had started are requeued.
RequeueQueuedTasks == queue' \in InOrder({t \in Tasks : status[t] = "queued"})

\* requeue_open_tasks, called by lifespan before the workers start.
RequeueOpenTasks == queue' \in InOrder({t \in Tasks : status[t] \in OpenStatuses})

Restart ==
  /\ ~up
  /\ up' = TRUE
  /\ RequeueOpenTasks
  /\ UNCHANGED <<rows, accepted, worker, cancel, crashes, faults>>

\* Nothing can be done until a client comes: every worker waits or is gone.
Quiet ==
  /\ up
  /\ accepted = {}
  /\ \A w \in Workers : pc[w] = "dead" \/ (pc[w] = "idle" /\ queue = <<>>)
  /\ UNCHANGED vars

-----------------------------------------------------------------------------
WorkerStep(w) ==
  \/ Dequeue(w)
  \/ MarkRunningLoad(w)
  \/ MarkRunningCancelled(w)
  \/ MarkRunning(w)
  \/ EventLoad(w)
  \/ EventCancelled(w)
  \/ EventDelta(w)
  \/ EventNumber(w)
  \/ EventInsert(w)
  \/ StreamEnds(w)
  \/ MarkFailed(w)
  \/ MarkCompleted(w)
  \/ SettleLoad(w, "settle", "charge")
  \/ SettleLoad(w, "settleCancelled", "chargeCancelled")
  \/ SettleCommit(w)
  \/ SettleCancelledCommit(w)

Next ==
  \/ \E t \in Tasks : CreateTask(t) \/ Enqueue(t)
  \/ \E c \in Cancels : CancelWrite(c) \/ \E t \in Tasks : CancelLoad(c, t)
  \/ \E w \in Workers : WorkerStep(w) \/ Abort(w) \/ WorkerDies(w)
  \/ Crash
  \/ Restart
  \/ Quiet

Spec == Init /\ [][Next]_vars

\* The event loop runs every coroutine that can run, the Hermes stream gives
\* an event or ends (asyncio.timeout cuts it off), and systemd restarts the
\* process (Restart=always).  Clients owe nothing.
Fairness ==
  /\ \A w \in Workers : WF_vars(WorkerStep(w))
  /\ \A t \in Tasks : WF_vars(Enqueue(t))
  /\ WF_vars(Restart)

FairSpec == Spec /\ Fairness

-----------------------------------------------------------------------------
(* Properties. *)

Queued == Range(queue)
Held == Range(job) \ {NoTask}

\* A task is never processed twice at the same time: it is with at most one of
\* the create handler, the queue (once) and one worker, across crashes,
\* requeue_open_tasks and new tasks coming in.  The queue, the runner and the
\* settlement take no lock on a task, so everything else rests on this.
SingleOwner ==
  /\ IsInjective(queue)
  /\ accepted \cap Queued = {}
  /\ Held \cap (accepted \cup Queued) = {}
  /\ \A w, v \in Workers : job[w] = job[v] /\ job[w] # NoTask => w = v

\* No open task is forgotten while the process is up: if its row says queued,
\* running or cancel_requested then a create handler, the queue or a worker
\* (perhaps one that died with it) has it.  The one exception is a task that
\* had ended and whose terminal status a late cancel handler overwrote.
OpenTaskHasOwner ==
  up => \A t \in Tasks :
          status[t] \in OpenStatuses /\ ~ended[t] => t \in accepted \cup Queued \cup Held

\* The runtime of a task is charged at most once, and only if it was submitted
\* to Hermes and has ended, although _settle_runtime_usage checks
\* runtime_usage_record_id in one step and sets it in another.
ChargedAtMostOnce ==
  \A t \in Tasks :
    /\ charges[t] <= 1
    /\ charges[t] > 0 => ended[t] /\ runs[t] > 0

\* A process submits a task to Hermes at most once; only a restart repeats it.
SubmittedOncePerProcess == \A t \in Tasks : runs[t] <= crashes + 1

\* The runner implements the contract: no submission after the end, no charge
\* before it and no second one after it, no end without acceptance.
Contract == INSTANCE HermesTaskContract WITH
  phase <- [t \in Tasks |-> IF status[t] = NoStatus THEN "absent"
                            ELSE IF ended[t] THEN "ended" ELSE "open"],
  submissions <- runs

ImplementsContract == Contract!Spec

\* The worker that had the task has died with it.
DiedWith(t) == \E w \in Workers : pc[w] = "dead" /\ job[w] = t

\* Every accepted task ends, whatever crashes and cancel requests happen: a restart
\* picks up what the process left behind, and a worker that dies takes no other task
\* than its own with it, as long as another one is left.
EveryTaskEnds ==
  \A t \in Tasks :
    (status[t] = "queued") ~> (ended[t] \/ DiedWith(t) \/ \A w \in Workers : pc[w] = "dead")

\* A task that was submitted is charged for its runtime, however it ends, unless
\* the process or the worker ends first.
SubmittedIsCharged ==
  \A t \in Tasks : \A k \in 0..MaxCrashes :
    (crashes = k /\ \E w \in Workers : job[w] = t /\ pc[w] \in InTry)
      ~> (charges[t] = 1 \/ crashes > k \/ DiedWith(t))
=============================================================================
