------------------------------ MODULE TunnelAgent ------------------------------
(***************************************************************************)
(* The tunnel agent: one coroutine that receives frames on a websocket and *)
(* reconnects when it ends, and one task for each request it received.     *)
(* Requests are numbered by their arrival; what the local gateway does     *)
(* with a request is an answer, some chunks or a failure.                  *)
(***************************************************************************)
EXTENDS Naturals, Sequences

CONSTANTS
    Ids,            \* the request ids the peer uses, perhaps more than once
    MaxRequests,    \* bound: requests received
    MaxConnections, \* bound: connections made
    MaxChunks,      \* bound: chunks of one streamed answer
    MaxBackoff      \* reconnect_max_seconds, in units of the base

ASSUME TunnelBounds ==
    /\ MaxRequests \in Nat
    /\ MaxConnections \in Nat
    /\ MaxChunks \in Nat
    /\ MaxBackoff \in Nat \ {0}

Requests == 1..MaxRequests
None == 0

(* What a request's task can be sending. *)
Finals == {"end", "failed", "cancelled"}
Frames == {"start", "chunk"} \cup Finals
Places == {"unborn", "new", "sending", "written", "call", "done"}

VARIABLES
    loop,       \* where run_forever is
    backoff,    \* its local variable
    connection, \* the number of the connection it made last
    live,       \* that connection is not closed
    gone,       \* connections that ended with EOFError or ConnectionClosed
    arrived,    \* requests received so far
    ofId, ofConn, \* id and connection of each request
    place,      \* where each request's task is
    frame,      \* the frame the task sends, else "start"
    cancel,     \* task.cancel(): "no", "asked" or "taken" by the task
    inflight,   \* _inflight: the task under each id
    holder,     \* the task that has _send_lock
    frames      \* what was handed to the websocket for each request

loopVars == <<loop, backoff, connection, live, gone>>
vars == <<loop, backoff, connection, live, gone, arrived, ofId, ofConn, place,
          frame, cancel, inflight, holder, frames>>

Init ==
    /\ loop = "connect" /\ backoff = 1 /\ connection = 0 /\ live = FALSE
    /\ gone = {} /\ arrived = 0
    /\ ofId = [r \in Requests |-> None]
    /\ ofConn = [r \in Requests |-> 0]
    /\ place = [r \in Requests |-> "unborn"]
    /\ frame = [r \in Requests |-> "start"]
    /\ cancel = [r \in Requests |-> "no"]
    /\ inflight = [i \in Ids |-> None]
    /\ holder = None
    /\ frames = [r \in Requests |-> <<>>]

Up(r) == live /\ ofConn[r] = connection

-----------------------------------------------------------------------------
(* The receiving coroutine *)

(* A connection is made and the signed hello sent, or that fails. *)
Connect ==
    /\ loop = "connect" /\ connection < MaxConnections
    /\ \/ /\ holder = None
          /\ loop' = "hello" /\ connection' = connection + 1 /\ live' = TRUE
       \/ loop' = "pause" /\ UNCHANGED <<connection, live>>
    /\ UNCHANGED <<backoff, gone, arrived, ofId, ofConn, place, frame, cancel,
                   inflight, holder, frames>>

(* The first frame is a hello_ack; any other, and a closed connection, is an
   error outside the try block. *)
HelloAnswer ==
    /\ loop = "hello"
    /\ \/ live /\ loop' = "recv" /\ live' = live
       \/ loop' = "pause" /\ live' = FALSE
    /\ UNCHANGED <<backoff, connection, gone, arrived, ofId, ofConn, place,
                   frame, cancel, inflight, holder, frames>>

(* sleep_fn(backoff), then twice as long the next time. *)
Doubled(b) == IF 2 * b < MaxBackoff THEN 2 * b ELSE MaxBackoff
Wake ==
    /\ loop = "pause"
    /\ loop' = "connect" /\ backoff' = Doubled(backoff)
    /\ UNCHANGED <<connection, live, gone, arrived, ofId, ofConn, place, frame,
                   cancel, inflight, holder, frames>>

(* A request: its task is created and takes the entry of its id. Frames that
   came before the end of the connection are still received. *)
ReceiveRequest(i) ==
    /\ loop = "recv" /\ arrived < MaxRequests
    /\ arrived' = arrived + 1
    /\ ofId' = [ofId EXCEPT ![arrived + 1] = i]
    /\ ofConn' = [ofConn EXCEPT ![arrived + 1] = connection]
    /\ place' = [place EXCEPT ![arrived + 1] = "new"]
    /\ inflight' = [inflight EXCEPT ![i] = arrived + 1]
    /\ UNCHANGED <<loopVars, frame, cancel, holder, frames>>

CancelOf(ts) == [r \in Requests |-> IF r \in ts THEN "asked" ELSE cancel[r]]

(* Mutant: the entry is only looked up, not popped. *)
ReceiveCancelKeeps(i) ==
    /\ loop = "recv" /\ inflight[i] # None
    /\ cancel' = CancelOf({inflight[i]})
    /\ UNCHANGED <<loopVars, arrived, ofId, ofConn, place, frame, inflight, holder, frames>>

ReceiveCancel(i) ==
    /\ loop = "recv" /\ inflight[i] # None
    /\ cancel' = CancelOf({inflight[i]})
    /\ inflight' = [inflight EXCEPT ![i] = None]
    /\ UNCHANGED <<loopVars, arrived, ofId, ofConn, place, frame, holder, frames>>

(* A ping is answered under the send lock; nothing is received meanwhile. *)
ReceivePing ==
    /\ loop = "recv" /\ live
    /\ loop' = "pong"
    /\ UNCHANGED <<backoff, connection, live, gone, arrived, ofId, ofConn, place,
                   frame, cancel, inflight, holder, frames>>
Pong ==
    /\ loop = "pong" /\ live /\ holder = None
    /\ loop' = "recv"
    /\ UNCHANGED <<backoff, connection, live, gone, arrived, ofId, ofConn, place,
                   frame, cancel, inflight, holder, frames>>

(* A frame that does not parse ends the connection and leaves the tasks. *)
ReceiveGarbage ==
    /\ loop = "recv"
    /\ loop' = "pause" /\ live' = FALSE
    /\ UNCHANGED <<backoff, connection, gone, arrived, ofId, ofConn, place,
                   frame, cancel, inflight, holder, frames>>

(* The peer or the network closes the connection. *)
Lose ==
    /\ live /\ live' = FALSE
    /\ UNCHANGED <<loop, backoff, connection, gone, arrived, ofId, ofConn, place,
                   frame, cancel, inflight, holder, frames>>

(* EOFError, ConnectionClosed: every task in flight is cancelled, and the next
   connection is made without a pause. *)
Entries == {inflight[i] : i \in Ids}
Gone ==
    /\ loop \in {"recv", "pong"} /\ ~live
    /\ loop' = "connect" /\ backoff' = 1
    /\ gone' = gone \cup {connection}
    /\ cancel' = CancelOf(Entries)
    /\ inflight' = [i \in Ids |-> None]
    /\ UNCHANGED <<connection, live, arrived, ofId, ofConn, place, frame, holder, frames>>

-----------------------------------------------------------------------------
(* The task of a request. After task.cancel() its next step is Thrown. *)

Runs(r) == cancel[r] # "asked"

Put(r, p, f) ==
    /\ place' = [place EXCEPT ![r] = p]
    /\ frame' = [frame EXCEPT ![r] = f]

(* The finally clause removes whatever is stored under the id. *)
Finish(r) ==
    /\ Put(r, "done", "start")
    /\ inflight' = [inflight EXCEPT ![ofId[r]] = None]

(* An exception of a send: it is reported, unless it came from the report. *)
Raised(r) ==
    IF frame[r] \in {"failed", "cancelled"}
    THEN Finish(r)
    ELSE Put(r, "sending", "failed") /\ UNCHANGED inflight

Begin(r) ==
    /\ Runs(r) /\ place[r] = "new"
    /\ Put(r, "sending", "start")
    /\ UNCHANGED <<loopVars, arrived, ofId, ofConn, cancel, inflight, holder, frames>>

(* With the send lock, the frame is handed to the websocket, which may wait
   for its buffer to drain; a closed connection raises. *)
Write(r) ==
    /\ Runs(r) /\ place[r] = "sending" /\ holder = None
    /\ \/ /\ Up(r)
          /\ Put(r, "written", frame[r])
          /\ holder' = r
          /\ frames' = [frames EXCEPT ![r] = Append(@, frame[r])]
          /\ UNCHANGED inflight
       \/ /\ ~Up(r)
          /\ Raised(r)
          /\ UNCHANGED <<holder, frames>>
    /\ UNCHANGED <<loopVars, arrived, ofId, ofConn, cancel>>

(* The send returns, or raises because the connection ended. *)
Sent(r) ==
    /\ Runs(r) /\ place[r] = "written"
    /\ holder' = None
    /\ \/ frame[r] \in {"start", "chunk"} /\ Put(r, "call", "start") /\ UNCHANGED inflight
       \/ frame[r] \in Finals /\ Finish(r)
       \/ ~Up(r) /\ Raised(r)
    /\ UNCHANGED <<loopVars, arrived, ofId, ofConn, cancel, frames>>

(* While it waits for the dispatcher. A payload is refused, or the dispatcher
   raises: an error status, a lost connection or its time-out. *)
CallFails(r) ==
    /\ Runs(r) /\ place[r] = "call"
    /\ Put(r, "sending", "failed")
    /\ UNCHANGED <<loopVars, arrived, ofId, ofConn, cancel, inflight, holder, frames>>

(* One answer, or the end of a stream. *)
Reply(r) ==
    /\ Runs(r) /\ place[r] = "call"
    /\ Put(r, "sending", "end")
    /\ UNCHANGED <<loopVars, arrived, ofId, ofConn, cancel, inflight, holder, frames>>

(* One more chunk of a streamed completion. *)
Chunk(r) ==
    /\ Runs(r) /\ place[r] = "call" /\ Len(frames[r]) <= MaxChunks
    /\ Put(r, "sending", "chunk")
    /\ UNCHANGED <<loopVars, arrived, ofId, ofConn, cancel, inflight, holder, frames>>

(* Mutant: the handler of a 499 forgets that it may be in a report already. *)
ThrownAgain(r) ==
    /\ cancel[r] = "asked"
    /\ cancel' = [cancel EXCEPT ![r] = "taken"]
    /\ holder' = IF holder = r THEN None ELSE holder
    /\ \/ place[r] = "new" /\ Put(r, "done", "start")
       \/ place[r] \in {"sending", "written", "call"} /\ Put(r, "sending", "failed")
    /\ UNCHANGED <<loopVars, arrived, ofId, ofConn, inflight, frames>>

(* Mutant: a cancelled send keeps the lock. *)
ThrownHolding(r) ==
    /\ cancel[r] = "asked"
    /\ cancel' = [cancel EXCEPT ![r] = "taken"]
    /\ Put(r, IF place[r] = "new" THEN "done" ELSE "sending", "cancelled")
    /\ UNCHANGED <<loopVars, arrived, ofId, ofConn, inflight, holder, frames>>

(* CancelledError is raised where the task waits: before its try block nothing
   is done at all; in the report of a failure the task ends; else it reports 499. *)
Thrown(r) ==
    /\ cancel[r] = "asked"
    /\ cancel' = [cancel EXCEPT ![r] = "taken"]
    /\ holder' = IF holder = r THEN None ELSE holder
    /\ \/ place[r] = "new" /\ Put(r, "done", "start") /\ UNCHANGED inflight
       \/ /\ place[r] \in {"sending", "written"} /\ frame[r] = "failed"
          /\ Finish(r)
       \/ /\ \/ place[r] \in {"sending", "written"} /\ frame[r] # "failed"
             \/ place[r] = "call"
          /\ Put(r, "sending", "cancelled") /\ UNCHANGED inflight
    /\ UNCHANGED <<loopVars, arrived, ofId, ofConn, frames>>

Task(r) ==
    \/ Begin(r) \/ Write(r) \/ Sent(r) \/ CallFails(r) \/ Reply(r) \/ Chunk(r)
    \/ Thrown(r)

-----------------------------------------------------------------------------
Loop ==
    \/ Connect \/ HelloAnswer \/ Wake
    \/ \E i \in Ids : ReceiveRequest(i) \/ ReceiveCancel(i)
    \/ ReceivePing \/ Pong \/ ReceiveGarbage \/ Lose \/ Gone

Next ==
    \/ Loop
    \/ \E r \in Requests : Task(r)

(* The event loop runs every task that can run, calls to the gateway time out,
   and the peer reads what it is sent or closes. *)
Spec == Init /\ [][Next]_vars /\ \A r \in Requests : WF_vars(Task(r))

-----------------------------------------------------------------------------
(* Properties *)

TypeOK ==
    /\ loop \in {"connect", "pause", "hello", "recv", "pong"}
    /\ backoff \in 1..MaxBackoff
    /\ connection \in Nat /\ live \in BOOLEAN /\ gone \subseteq Nat
    /\ arrived \in 0..MaxRequests
    /\ ofId \in [Requests -> Ids \cup {None}]
    /\ ofConn \in [Requests -> Nat]
    /\ place \in [Requests -> Places]
    /\ frame \in [Requests -> Frames]
    /\ cancel \in [Requests -> {"no", "asked", "taken"}]
    /\ inflight \in [Ids -> Requests \cup {None}]
    /\ holder \in Requests \cup {None}
    /\ frames \in [Requests -> Seq(Frames)]

Running(r) == place[r] \notin {"unborn", "done"}

(* What the peer is sent for a request begins with its start, or is the one
   word that it was cancelled before; a final frame is the last, save that
   a cancel that strikes while the answer drains adds its 499 to it. A request
   of a connection that still stands, which nobody cancelled, has ended with
   its final frame. *)
Answered(fs) == fs # <<>> /\ fs[Len(fs)] \in Finals
InOrder(fs, cancelled) ==
    \A i \in DOMAIN fs :
        /\ fs[i] = "start" => i = 1
        /\ i = 1 => fs[i] \in {"start", "cancelled"}
        /\ fs[i] \in Finals =>
              \/ i = Len(fs)
              \/ i + 1 = Len(fs) /\ fs[i + 1] = "cancelled" /\ cancelled
FrameOrder ==
    \A r \in Requests :
        /\ InOrder(frames[r], cancel[r] = "taken")
        /\ place[r] = "done" /\ Up(r) /\ cancel[r] = "no" => Answered(frames[r])

(* A request that runs, that nobody cancelled and whose id no other request
   was given, is where a cancel or the end of a connection finds it: it has
   the entry of its id, and its connection has not ended in the orderly way,
   which cancels everything. _inflight holds nothing else. *)
OwnId(r) == \A q \in Requests : ofId[q] = ofId[r] => q = r
CancelFindsRequest ==
    /\ \A r \in Requests :
          Running(r) /\ cancel[r] = "no" /\ OwnId(r) =>
              inflight[ofId[r]] = r /\ ofConn[r] \notin gone
    /\ \A i \in Ids :
          inflight[i] # None =>
              /\ Running(inflight[i]) /\ ofId[inflight[i]] = i
              /\ cancel[inflight[i]] = "no"

(* Every request's task comes to its end, whatever its connection does. *)
EveryRequestEnds == <>[](\A r \in Requests : ~Running(r))

=============================================================================
