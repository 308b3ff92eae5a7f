-------------------------- MODULE HermesEventStream --------------------------
(***************************************************************************)
(* The events of one Hermes task and the clients that read them from       *)
(* GET /v1/hermes/tasks/{id}/events: the rows of hermes_task_events, the   *)
(* in-process HermesTaskEventBus, and the SSE generators.                  *)
(*                                                                         *)
(* append_hermes_task_event publishes on the bus after the flush of the    *)
(* row and before the commit of its caller, which may still fail.  Writers *)
(* exclude each other from the flush to the commit (the write lock of the  *)
(* database), so at most one row is pending.  The writers are the worker   *)
(* that runs the task and one cancel handler.                              *)
(***************************************************************************)
EXTENDS Integers, Sequences

CONSTANTS
  Clients,      \* each reads the stream, and reads on from its last id if cut off
  MaxEvents,    \* bound on the rows
  MaxRollbacks, \* bound on transactions that fail after the publish
  MaxRestarts,  \* bound on the times the process ends and is started again
  MaxDrops      \* bound on the connections that clients lose or close

ASSUME StreamBounds == {MaxEvents, MaxRollbacks, MaxRestarts, MaxDrops} \subseteq Nat

\* Rows: of the worker's stream, of a cancel handler, of the worker's end.
Kinds == {"event", "cancel", "final"}
NoRow == "none"

VARIABLES
  log,       \* the kinds of the committed rows: the n-th has seq n
  pending,   \* the kind of the row that is flushed and published, not committed
  status,    \* of the task: open, cancel_requested or terminal
  runner,    \* where the worker that runs the task is
  canceller, \* where the cancel handler is
  conn,      \* the state of each client's stream
  known,     \* task.status was terminal when the stream's handler loaded it
  inbox,     \* the subscriber queue of each stream
  shown,     \* what each client has been sent, over all its connections
  rollbacks, restarts, drops

writers == <<log, pending, status, runner, canceller>>
streams == <<conn, known, inbox, shown>>
bounds == <<rollbacks, restarts, drops>>
vars == <<writers, streams, bounds>>

Messages == [seq : Nat, kind : Kinds]

TypeOK ==
  /\ log \in Seq(Kinds)
  /\ pending \in Kinds \cup {NoRow}
  /\ status \in {"open", "cancel_requested", "terminal"}
  /\ runner \in {"starting", "streaming", "failing", "ending", "cancelling", "done", "dead"}
  /\ canceller \in {"idle", "loaded", "done"}
  /\ conn \in [Clients -> {"off", "asked", "subscribed", "live", "closed"}]
  /\ known \in [Clients -> BOOLEAN]
  /\ inbox \in [Clients -> Seq(Messages)]
  /\ shown \in [Clients -> Seq(Messages)]
  /\ rollbacks \in Nat /\ restarts \in Nat /\ drops \in Nat

Init ==
  /\ log = <<>>
  /\ pending = NoRow
  /\ status = "open"
  /\ runner = "starting"
  /\ canceller = "idle"
  /\ conn = [c \in Clients |-> "off"]
  /\ known = [c \in Clients |-> FALSE]
  /\ inbox = [c \in Clients |-> <<>>]
  /\ shown = [c \in Clients |-> <<>>]
  /\ rollbacks = 0 /\ restarts = 0 /\ drops = 0

-----------------------------------------------------------------------------
(* The writers. *)

NextSeq == Len(log) + 1
Subscribed(c) == conn[c] \in {"subscribed", "live"}

\* append_hermes_task_event: flush the row, put it on every subscriber's queue.
Publish(kind) ==
  /\ pending = NoRow
  /\ pending' = kind
  /\ inbox' = [c \in Clients |-> IF Subscribed(c)
                                   THEN Append(inbox[c], [seq |-> NextSeq, kind |-> kind])
                                   ELSE inbox[c]]
  /\ UNCHANGED <<log, conn, known, shown, bounds>>

\* _mark_running, or an event of the Hermes stream.
WorkerEvent ==
  /\ runner \in {"starting", "streaming"}
  /\ Len(log) < MaxEvents
  /\ Publish("event")
  /\ UNCHANGED <<status, runner, canceller>>

\* The end of the task, outside the try block: _mark_completed, _mark_failed, or
\* _mark_cancelled in _mark_running.
WorkerEnds ==
  /\ \/ runner \in {"streaming", "failing"}
     \/ runner = "starting" /\ status = "cancel_requested"
  /\ Publish("final")
  /\ runner' = "ending"
  /\ UNCHANGED <<status, canceller>>

\* _mark_cancelled in the loop over the stream, inside the try block.
WorkerCancels ==
  /\ runner = "streaming"
  /\ status = "cancel_requested"
  /\ Publish("final")
  /\ runner' = "cancelling"
  /\ UNCHANGED <<status, canceller>>

\* The cancel handler loads the task, and later writes what it has decided.
CancelLoad ==
  /\ canceller = "idle"
  /\ canceller' = IF status = "terminal" THEN "done" ELSE "loaded"
  /\ UNCHANGED <<log, pending, status, runner, streams, bounds>>

CancelEvent ==
  /\ canceller = "loaded"
  /\ Publish("cancel")
  /\ canceller' = "done"
  /\ UNCHANGED <<status, runner>>

\* Mutant: the caller does not commit.
ForgetCommit ==
  /\ pending # NoRow
  /\ pending' = NoRow
  /\ UNCHANGED <<log, status, runner, canceller, streams, bounds>>

\* The caller commits the row with the status it goes with.  _mark_running leaves
\* the status column alone if it had loaded running.  After the commit of a task
\* cancelled inside the try block the runtime limit may still make it fail.
Commit ==
  /\ pending # NoRow
  /\ log' = Append(log, pending)
  /\ pending' = NoRow
  /\ \/ pending = "final" /\ status' = "terminal" /\ runner' = "done"
     \/ pending = "final" /\ status' = "terminal" /\ runner = "cancelling" /\ runner' = "failing"
     \/ pending = "cancel" /\ status' = "cancel_requested" /\ UNCHANGED runner
     \/ pending = "event" /\ runner' = "streaming" /\ UNCHANGED status
     \/ pending = "event" /\ runner = "starting" /\ runner' = "streaming" /\ status' = "open"
  /\ UNCHANGED <<canceller, streams, bounds>>

\* Mutant: a row without content stays behind.
RollbackLeavesRow ==
  /\ pending # NoRow
  /\ rollbacks < MaxRollbacks
  /\ rollbacks' = rollbacks + 1
  /\ log' = Append(log, NoRow)
  /\ pending' = NoRow
  /\ UNCHANGED <<status, runner, canceller, streams, restarts, drops>>

\* The transaction fails.  Inside the try block (the runtime limit strikes in the
\* commit, or the database fails) the worker goes on to mark the task failed;
\* outside it the error kills the worker; the cancel handler answers 500.
Rollback ==
  /\ pending # NoRow
  /\ rollbacks < MaxRollbacks
  /\ rollbacks' = rollbacks + 1
  /\ pending' = NoRow
  /\ runner' = CASE pending = "cancel" -> runner
                 [] runner \in {"streaming", "cancelling"} -> "failing"
                 [] OTHER -> "dead"
  /\ UNCHANGED <<log, status, canceller, streams, restarts, drops>>

-----------------------------------------------------------------------------
(* The streams. *)

\* after_seq of a new request, current_after_seq of a running stream: the id of
\* the last event the client was sent.
After(c) == IF shown[c] = <<>> THEN 0 ELSE shown[c][Len(shown[c])].seq

\* stream_task_events: load the task.
Connect(c) ==
  /\ conn[c] = "off"
  /\ conn' = [conn EXCEPT ![c] = "asked"]
  /\ known' = [known EXCEPT ![c] = status = "terminal"]
  /\ UNCHANGED <<writers, inbox, shown, bounds>>

\* event_stream: subscribe.
Subscribe(c) ==
  /\ conn[c] = "asked"
  /\ conn' = [conn EXCEPT ![c] = "subscribed"]
  /\ UNCHANGED <<writers, known, inbox, shown, bounds>>

\* list_hermes_task_events: the committed rows with seq > after.
Stored(after) ==
  [i \in 1..(Len(log) - after) |-> [seq |-> after + i, kind |-> log[after + i]]]

\* Send the stored events; return if the status loaded before is terminal.
Replay(c) ==
  /\ conn[c] = "subscribed"
  /\ shown' = [shown EXCEPT ![c] = @ \o Stored(After(c))]
  /\ IF known[c]
       THEN /\ conn' = [conn EXCEPT ![c] = "closed"]
            /\ inbox' = [inbox EXCEPT ![c] = <<>>]
       ELSE /\ conn' = [conn EXCEPT ![c] = "live"]
            /\ UNCHANGED inbox
  /\ UNCHANGED <<writers, known, bounds>>

\* Mutant: cancel_requested counts as terminal.
SendUntilCancel(c, m) ==
  /\ shown' = [shown EXCEPT ![c] = Append(@, m)]
  /\ IF m.kind # "event"
       THEN /\ conn' = [conn EXCEPT ![c] = "closed"]
            /\ inbox' = [inbox EXCEPT ![c] = <<>>]
       ELSE /\ inbox' = [inbox EXCEPT ![c] = Tail(@)]
            /\ UNCHANGED conn

\* Send a message; return after one with a terminal status.
Send(c, m) ==
  /\ shown' = [shown EXCEPT ![c] = Append(@, m)]
  /\ IF m.kind = "final"
       THEN /\ conn' = [conn EXCEPT ![c] = "closed"]
            /\ inbox' = [inbox EXCEPT ![c] = <<>>]
       ELSE /\ inbox' = [inbox EXCEPT ![c] = Tail(@)]
            /\ UNCHANGED conn

\* Mutant: everything on the queue is sent.
DeliverAll(c) ==
  /\ conn[c] = "live"
  /\ inbox[c] # <<>>
  /\ Send(c, Head(inbox[c]))
  /\ UNCHANGED <<writers, known, bounds>>

\* Take a message off the queue: skip it if the client has its number already.
Deliver(c) ==
  /\ conn[c] = "live"
  /\ inbox[c] # <<>>
  /\ \/ /\ Head(inbox[c]).seq > After(c)
        /\ Send(c, Head(inbox[c]))
     \/ /\ Head(inbox[c]).seq <= After(c)
        /\ inbox' = [inbox EXCEPT ![c] = Tail(@)]
        /\ UNCHANGED <<conn, shown>>
  /\ UNCHANGED <<writers, known, bounds>>

\* Mutant: unsubscribing one client removes all of them from the bus.
DropAll(c) ==
  /\ conn[c] \in {"asked", "subscribed", "live"}
  /\ drops < MaxDrops
  /\ drops' = drops + 1
  /\ conn' = [conn EXCEPT ![c] = "off"]
  /\ inbox' = [d \in Clients |-> <<>>]
  /\ UNCHANGED <<writers, known, shown, rollbacks, restarts>>

\* The connection ends on the client's side, perhaps in the middle of the replay:
\* unsubscribe.  (A restart in the middle of a replay is a Drop and a Restart.)
Drop(c) ==
  /\ conn[c] \in {"asked", "subscribed", "live"}
  /\ drops < MaxDrops
  /\ drops' = drops + 1
  /\ conn' = [conn EXCEPT ![c] = "off"]
  /\ inbox' = [inbox EXCEPT ![c] = <<>>]
  /\ \/ UNCHANGED shown
     \/ /\ conn[c] = "subscribed"
        /\ \E n \in 1..Len(Stored(After(c))) :
             shown' = [shown EXCEPT ![c] = @ \o SubSeq(Stored(After(c)), 1, n)]
  /\ UNCHANGED <<writers, known, rollbacks, restarts>>

\* The process ends and starts again: the pending row and the bus are lost, and
\* an open task is given to a new worker.
Restart ==
  /\ restarts < MaxRestarts
  /\ restarts' = restarts + 1
  /\ pending' = NoRow
  /\ runner' = IF status = "terminal" THEN "done" ELSE "starting"
  /\ canceller' = IF canceller = "loaded" THEN "done" ELSE canceller
  /\ conn' = [c \in Clients |-> IF conn[c] = "closed" THEN "closed" ELSE "off"]
  /\ inbox' = [c \in Clients |-> <<>>]
  /\ UNCHANGED <<log, status, known, shown, rollbacks, drops>>

-----------------------------------------------------------------------------
WriterStep == WorkerEvent \/ WorkerEnds \/ WorkerCancels \/ CancelLoad \/ CancelEvent \/ Commit

StreamStep(c) == Subscribe(c) \/ Replay(c) \/ Deliver(c)

Next ==
  \/ WriterStep
  \/ Rollback
  \/ \E c \in Clients : Connect(c) \/ StreamStep(c) \/ Drop(c)
  \/ Restart

Spec == Init /\ [][Next]_vars

\* The event loop runs a generator that has something to send, and finishes a
\* transaction that has begun.
Fairness ==
  /\ WF_vars(Commit)
  /\ \A c \in Clients : WF_vars(StreamStep(c))

FairSpec == Spec /\ Fairness

-----------------------------------------------------------------------------
(* Properties. *)

\* No client is sent an id twice or out of order, although replay and the
\* queue overlap, numbers are used again after a rollback, and clients resume.
ShownInOrder ==
  \A c \in Clients : \A i, j \in DOMAIN shown[c] : i < j => shown[c][i].seq < shown[c][j].seq

\* No transaction has failed after its publish, nor was one cut off.
NoFault == rollbacks = 0 /\ restarts = 0

\* What a client was sent under an id is the row with that seq, or the row that
\* is published but not yet committed, until a transaction fails or the process
\* ends.  That it is always a row, as the design document says, is
\* ToldIsPersisted, and does not hold.
Persisted(m) == m.seq \in DOMAIN log /\ log[m.seq] = m.kind
Uncommitted(m) == m.seq = NextSeq /\ pending = m.kind
ShownIsRecorded ==
  NoFault =>
    \A c \in Clients : \A i \in DOMAIN shown[c] : Persisted(shown[c][i]) \/ Uncommitted(shown[c][i])

\* Subscribers are only told of rows that are persisted (design document of the
\* task API: "The worker persists every normalized event before notifying local
\* subscribers").  append_hermes_task_event tells them before the commit.
ToldIsPersisted == \A c \in Clients : \A i \in DOMAIN inbox[c] : Persisted(inbox[c][i])

\* A stream only closes by itself when the end of its task is recorded, or about
\* to be (until a transaction fails or the process ends).
ClosedAfterEnd ==
  NoFault =>
    \A c \in Clients :
      conn[c] = "closed" => "final" \in {log[n] : n \in DOMAIN log} \cup {pending}

\* A live stream that the bus has told of the end of the task, under a number the
\* client does not have, closes: what else is on the queue does not make it skip
\* the message, until a transaction fails that had published the same number.
Told(c) ==
  \E i \in DOMAIN inbox[c] : inbox[c][i].kind = "final" /\ inbox[c][i].seq > After(c)
ToldStreamCloses ==
  \A c \in Clients :
    (conn[c] = "live" /\ Told(c) /\ rollbacks = 0)
      ~> (conn[c] \in {"closed", "off"} \/ rollbacks > 0)
=============================================================================
