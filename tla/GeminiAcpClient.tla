--------------------------- MODULE GeminiAcpClient ---------------------------
(***************************************************************************)
(* One slot of the orchestrator and its GeminiAcpClient.  Requests hold    *)
(* the slot's lock in turn; each opens the session and sets the model when *)
(* the slot's cache says so, and prompts the process.  A client that       *)
(* leaves a stream gives up the lock at once: what the stream left behind  *)
(* (its prompt, its queue, the cancel of its session) is cleaned up beside *)
(* the next request.  Processes die, write lines that are no JSON, refuse  *)
(* and keep silent; a time-out closes the process that is current then.    *)
(***************************************************************************)
EXTENDS Naturals, Sequences

CONSTANTS
    Models,       \* the models requests ask for
    Asks,         \* what each request may ask: a mode and a model
    MaxRequests,  \* bound: requests, numbered as they get the lock
    MaxProcesses, \* bound: processes started
    MaxFaults,    \* bound: deaths, lines that are no JSON, and refusals
    MaxLeaves     \* bound: clients that leave

ASSUME AcpBounds == MaxRequests \in Nat /\ MaxProcesses \in Nat
                    /\ MaxFaults \in Nat /\ MaxLeaves \in Nat

Requests == 1..MaxRequests
Processes == 1..MaxProcesses
None == 0
NoModel == "none"
ASSUME AcpModels == NoModel \notin Models

\* Each request may have two calls under way: its own, and a session/cancel.
Calls == Requests \X {"own", "cancel"}
Own(r) == <<r, "own">>
Cancel(r) == <<r, "cancel">>
Methods == {"initialize", "new_session", "set_model", "prompt", "cancel_session"}
Modes == {"chat", "stream"}

VARIABLES
    process,     \* _process, a number, or None
    readerTask,  \* _reader_task: the process it reads, or None
    started,     \* processes started so far
    alive,       \* those whose returncode is None
    reading,     \* those whose reader has not finished
    shut,        \* those whose stdin was closed
    call,        \* how far each call is
    method,      \* of each own call
    closing,     \* the process, or reader, that each call's close() awaits
    inbox,       \* what each process was sent and has not answered
    initialized, session, model, \* the cache of the slot
    holder,      \* who has its lock
    taken,       \* requests that got the lock so far
    pc, mode, wanted, \* of each request; wanted is its model
    queue,       \* _prompt_streams: the stream that listens to each session
    ofSession,   \* the session of each prompt, named for who opened it
    homeOf,      \* the process that opened each session
    runs,        \* the model each session is set to
    said, got,   \* prompts that made an update; whose updates each request got
    cut,         \* prompts that a session/cancel ended
    answeredBy,  \* the model that answered each prompt
    faults, leaves

handles == <<process, readerTask, started, alive, reading, shut>>
calls == <<call, method, closing, inbox>>
cache == <<initialized, session, model>>
users == <<holder, taken, pc, mode, wanted>>
truth == <<ofSession, homeOf, runs, said, got, cut, answeredBy>>
bounds == <<faults, leaves>>
vars == <<handles, calls, cache, users, queue, truth, bounds>>

Init ==
    /\ process = None /\ readerTask = None /\ started = 0
    /\ alive = {} /\ reading = {} /\ shut = {}
    /\ call = [c \in Calls |-> "none"]
    /\ method = [r \in Requests |-> "initialize"]
    /\ closing = [r \in Requests |-> None]
    /\ inbox = [p \in Processes |-> <<>>]
    /\ initialized = FALSE /\ session = None /\ model = NoModel
    /\ holder = None /\ taken = 0
    /\ pc = [r \in Requests |-> "idle"]
    /\ mode = [r \in Requests |-> "chat"]
    /\ wanted = [r \in Requests |-> NoModel]
    /\ queue = [s \in Requests |-> None]
    /\ ofSession = [r \in Requests |-> None]
    /\ homeOf = [s \in Requests |-> None]
    /\ runs = [s \in Requests |-> NoModel]
    /\ said = {} /\ cut = {}
    /\ got = [r \in Requests |-> {}]
    /\ answeredBy = [r \in Requests |-> NoModel]
    /\ faults = 0 /\ leaves = 0

-----------------------------------------------------------------------------
(* _request *)

Healthy == process # None /\ process \in alive /\ readerTask # None

\* _ensure_started finds a healthy process, and the call is written to it, or
\* forgets the one there was and starts another.
Issue(c, m) ==
    IF Healthy
    THEN /\ IF process \in shut
            THEN call' = [call EXCEPT ![c] = "error"] /\ UNCHANGED inbox
            ELSE /\ call' = [call EXCEPT ![c] = "pending"]
                 /\ inbox' = [inbox EXCEPT ![process] = Append(@, <<c[1], m>>)]
         /\ UNCHANGED <<process, readerTask>>
    ELSE /\ call' = [call EXCEPT ![c] = "starting"]
         /\ process' = None /\ readerTask' = None
         /\ UNCHANGED inbox

\* A call whose caller is gone has its result forgotten.
Result(c, how) == IF pc[c[1]] = "left" THEN "none" ELSE how

MethodOf(c) == IF c[2] = "own" THEN method[c[1]] ELSE "cancel_session"

\* create_subprocess_exec returns, and the call is written; or it raises.
Spawned(c) ==
    /\ call[c] = "starting" /\ started < MaxProcesses
    /\ started' = started + 1
    /\ process' = started + 1 /\ readerTask' = started + 1
    /\ alive' = alive \cup {started + 1} /\ reading' = reading \cup {started + 1}
    /\ call' = [call EXCEPT ![c] = "pending"]
    /\ inbox' = [inbox EXCEPT ![started + 1] = Append(@, <<c[1], MethodOf(c)>>)]
    /\ UNCHANGED <<shut, method, closing, cache, users, queue, truth, bounds>>
SpawnFails(c) ==
    /\ call[c] = "starting"
    /\ call' = [call EXCEPT ![c] = Result(c, "error")]
    /\ UNCHANGED <<handles, method, closing, inbox, cache, users, queue, truth, bounds>>

\* Time passes only when nothing is ready to run.
Quiet ==
    /\ reading \subseteq alive
    /\ \A q \in Requests :
          /\ pc[q] # "abandoned" /\ call[Own(q)] # "ready"
          /\ pc[q] = "using" => call[Own(q)] \notin {"ok", "error"}

\* Mutant: a time-out leaves the process as it is.
TimeOutOnly(r) ==
    /\ Quiet /\ call[Own(r)] = "pending"
    /\ call' = [call EXCEPT ![Own(r)] = Result(Own(r), "error")]
    /\ UNCHANGED <<handles, method, closing, inbox, cache, users, queue, truth, bounds>>

\* 30 seconds passed.  close() shuts and terminates the process that is current,
\* which need not be the one that was asked.
TimeOut(r) ==
    /\ Quiet /\ call[Own(r)] = "pending"
    /\ IF process = None
       THEN call' = [call EXCEPT ![Own(r)] = Result(Own(r), "error")] /\ UNCHANGED <<closing, shut>>
       ELSE /\ call' = [call EXCEPT ![Own(r)] = "closing"]
            /\ closing' = [closing EXCEPT ![r] = process]
            /\ shut' = shut \cup {process}
    /\ UNCHANGED <<process, readerTask, started, alive, reading, method, inbox,
                   cache, users, queue, truth, bounds>>

\* Mutant: the process is only asked to end.
KillNobody(r) ==
    /\ Quiet /\ call[Own(r)] = "closing" /\ closing[r] \in alive
    /\ UNCHANGED vars

\* The process did not end in 3 seconds: the current one is killed.
Kill(r) ==
    /\ Quiet /\ call[Own(r)] = "closing" /\ closing[r] \in alive
    /\ IF process = None
       THEN call' = [call EXCEPT ![Own(r)] = Result(Own(r), "error")] /\ UNCHANGED <<alive, closing>>
       ELSE /\ alive' = alive \ {process}
            /\ closing' = [closing EXCEPT ![r] = process]
            /\ UNCHANGED call
    /\ UNCHANGED <<process, readerTask, started, reading, shut, method, inbox,
                   cache, users, queue, truth, bounds>>

\* It ended; the reader there is now is awaited, and the handles are reset.
Reset(r) ==
    /\ process' = None /\ readerTask' = None
    /\ call' = [call EXCEPT ![Own(r)] = Result(Own(r), "error")]
    /\ closing' = [closing EXCEPT ![r] = None]
Ended(r) ==
    /\ call[Own(r)] = "closing" /\ closing[r] \notin alive
    /\ IF readerTask = None
       THEN Reset(r)
       ELSE /\ call' = [call EXCEPT ![Own(r)] = "joining"]
            /\ closing' = [closing EXCEPT ![r] = readerTask]
            /\ UNCHANGED <<process, readerTask>>
    /\ UNCHANGED <<started, alive, reading, shut, method, inbox, cache, users, queue, truth, bounds>>
Joined(r) ==
    /\ call[Own(r)] = "joining" /\ closing[r] \notin reading
    /\ Reset(r)
    /\ UNCHANGED <<started, alive, reading, shut, method, inbox, cache, users,
                   queue, truth, bounds>>

\* A reader finishes: every pending call fails, also one of another process,
\* and _reader_task is dropped, also when it is another one.  A close() that is
\* cancelled while it awaits a reader cancels the reader with it.
Failed(f) == [c \in Calls |-> IF f[c] = "pending" THEN Result(c, "error") ELSE f[c]]
Abandon(cs) ==
    LET joined == {closing[r] : r \in {q \in Requests : Own(q) \in cs /\ call[Own(q)] = "joining"}}
        left == [c \in Calls |-> IF c \in cs THEN "none" ELSE call[c]] IN
    IF joined \cap reading = {}
    THEN call' = left /\ UNCHANGED <<reading, readerTask>>
    ELSE call' = Failed(left) /\ reading' = reading \ joined /\ readerTask' = None

-----------------------------------------------------------------------------
(* The process and its reader *)

Fault(isOne) ==
    IF isOne THEN faults < MaxFaults /\ faults' = faults + 1 ELSE UNCHANGED faults

Die(p) ==
    /\ p \in alive /\ alive' = alive \ {p}
    /\ Fault(p \notin shut)
    /\ inbox' = [inbox EXCEPT ![p] = <<>>]
    /\ UNCHANGED <<process, readerTask, started, reading, shut, call, method,
                   closing, cache, users, queue, truth, leaves>>

\* The end of the output, or a line that is no JSON from a process that lives.
ReaderEnds(p) ==
    /\ p \in reading /\ reading' = reading \ {p}
    /\ Fault(p \in alive)
    /\ readerTask' = None
    /\ call' = Failed(call)
    /\ inbox' = [inbox EXCEPT ![p] = <<>>]
    /\ UNCHANGED <<process, started, alive, shut, method, closing, cache, users,
                   queue, truth, leaves>>

Live(p) == p \in alive /\ p \in reading
Position(p, i) ==
    /\ i \in DOMAIN inbox[p]
    /\ \A j \in 1..(i - 1) : inbox[p][j][2] = "prompt"
Without(s, i) == SubSeq(s, 1, i - 1) \o SubSeq(s, i + 1, Len(s))

\* The process takes its messages in order, but works on prompts meanwhile.  A
\* session that it did not open it refuses, and it may refuse anything else.
Knows(p, r) == ofSession[r] # None /\ homeOf[ofSession[r]] = p
Effect(p, r, m) ==
    LET s == ofSession[r] IN
    \/ /\ m = "initialize"
       /\ UNCHANGED <<homeOf, runs, cut, answeredBy>>
    \/ /\ m = "new_session"
       /\ homeOf' = [homeOf EXCEPT ![r] = p]
       /\ UNCHANGED <<runs, cut, answeredBy>>
    \/ /\ m = "set_model" /\ Knows(p, r)
       /\ runs' = [runs EXCEPT ![s] = wanted[r]]
       /\ UNCHANGED <<homeOf, cut, answeredBy>>
    \/ /\ m = "prompt" /\ Knows(p, r)
       /\ answeredBy' = [answeredBy EXCEPT ![r] = runs[s]]
       /\ UNCHANGED <<homeOf, runs, cut>>
    \/ /\ m = "cancel_session" /\ Knows(p, r)
       /\ cut' = cut \cup {q \in Requests : ofSession[q] = s /\
                              \E j \in DOMAIN inbox[p] : inbox[p][j] = <<q, "prompt">>}
       /\ UNCHANGED <<homeOf, runs, answeredBy>>

\* An answer is read, and resolves the future of its call if that still waits.
CallOf(msg) == IF msg[2] = "cancel_session" THEN Cancel(msg[1]) ELSE Own(msg[1])
Resolve(c, how) ==
    call' = IF call[c] = "pending" THEN [call EXCEPT ![c] = Result(c, how)] ELSE call
Answer(p) ==
    /\ Live(p)
    /\ \E i \in DOMAIN inbox[p] :
          LET msg == inbox[p][i] IN
          /\ Position(p, i)
          /\ inbox' = [inbox EXCEPT ![p] = Without(@, i)]
          /\ \/ /\ Effect(p, msg[1], msg[2]) /\ Resolve(CallOf(msg), "ok")
                /\ UNCHANGED faults
             \/ /\ Resolve(CallOf(msg), "error")
                /\ Fault(msg[2] \in {"initialize", "new_session"} \/ Knows(p, msg[1]))
                /\ UNCHANGED <<homeOf, runs, cut, answeredBy>>
    /\ UNCHANGED <<handles, method, closing, cache, users, queue, ofSession, said,
                   got, leaves>>

\* A session/update of a running prompt goes to whoever listens to its session:
\* a stream by its queue, a chat by the list it made for the time of its call.
Listeners(s) ==
    ({queue[s]} \ {None}) \cup
    {r \in Requests : pc[r] = "using" /\ mode[r] = "chat" /\ method[r] = "prompt"
                      /\ ofSession[r] = s}
Update(p) ==
    /\ Live(p)
    /\ \E i \in DOMAIN inbox[p] :
          LET q == inbox[p][i][1]
              s == ofSession[q] IN
          /\ Position(p, i) /\ inbox[p][i][2] = "prompt" /\ Knows(p, q)
          /\ q \notin said \cup cut
          /\ said' = said \cup {q}
          /\ got' = [r \in Requests |-> IF r \in Listeners(s) THEN got[r] \cup {q} ELSE got[r]]
    /\ UNCHANGED <<handles, calls, cache, users, queue, ofSession, homeOf, runs,
                   cut, answeredBy, bounds>>

-----------------------------------------------------------------------------
(* _ensure_gemini_acp_process_locked, _ensure_gemini_acp_session_locked and  *)
(* what follows them, with the slot's lock.                                  *)

\* What a request that finds the cache so has to call next.
Stage(w, i, s, cached) ==
    CASE ~i -> "initialize"
      [] i /\ s = None -> "new_session"
      [] i /\ s # None /\ cached # w -> "set_model"
      [] OTHER -> "prompt"

\* Mutant: the model is recorded when it is asked for.
GoOnRecording(r, m, w, i, s, cached) ==
    LET next == Stage(w, i, s, cached) IN
    /\ initialized' = i /\ session' = s
    /\ model' = IF next = "set_model" THEN w ELSE cached
    /\ pc' = [pc EXCEPT ![r] = "using"] /\ holder' = r
    /\ method' = [method EXCEPT ![r] = next]
    /\ ofSession' = [ofSession EXCEPT ![r] = s]
    /\ IF next = "prompt" /\ m = "stream"
       THEN /\ queue' = [queue EXCEPT ![s] = r]
            /\ call' = [call EXCEPT ![Own(r)] = "ready"]
            /\ UNCHANGED <<process, readerTask, inbox>>
       ELSE Issue(Own(r), next) /\ UNCHANGED queue

\* The cache is so by now, and the next call is made.
GoOn(r, m, w, i, s, cached) ==
    LET next == Stage(w, i, s, cached) IN
    /\ initialized' = i /\ session' = s /\ model' = cached
    /\ pc' = [pc EXCEPT ![r] = "using"] /\ holder' = r
    /\ method' = [method EXCEPT ![r] = next]
    /\ ofSession' = [ofSession EXCEPT ![r] = s]
    /\ IF next = "prompt" /\ m = "stream"
       THEN /\ queue' = [queue EXCEPT ![s] = r]
            /\ call' = [call EXCEPT ![Own(r)] = "ready"]
            /\ UNCHANGED <<process, readerTask, inbox>>
       ELSE Issue(Own(r), next) /\ UNCHANGED queue

\* A request gets the lock.  The cache of a client that is not healthy is void.
Take(m, w) ==
    LET r == taken + 1 IN
    /\ holder = None /\ r \in Requests /\ <<m, w>> \in Asks[r]
    /\ taken' = r
    /\ mode' = [mode EXCEPT ![r] = m] /\ wanted' = [wanted EXCEPT ![r] = w]
    /\ IF Healthy
       THEN GoOn(r, m, w, initialized, session, model)
       ELSE GoOn(r, m, w, FALSE, None, NoModel)
    /\ UNCHANGED <<started, alive, reading, shut, closing, homeOf, runs, said,
                   got, cut, answeredBy, bounds>>

\* The task that prompt_stream made for its call runs.
RunTask(r) ==
    /\ call[Own(r)] = "ready"
    /\ Issue(Own(r), "prompt")
    /\ UNCHANGED <<started, alive, reading, shut, method, closing, cache, users,
                   queue, truth, bounds>>

\* A call of the session's preparation returned: the cache records it.
Prepared(r) ==
    /\ pc[r] = "using" /\ call[Own(r)] = "ok" /\ method[r] # "prompt"
    /\ CASE method[r] = "initialize" -> GoOn(r, mode[r], wanted[r], TRUE, session, model)
         [] method[r] = "new_session" -> GoOn(r, mode[r], wanted[r], initialized, r, NoModel)
         [] OTHER -> GoOn(r, mode[r], wanted[r], initialized, session, wanted[r])
    /\ UNCHANGED <<started, alive, reading, shut, closing, taken, mode, wanted,
                   homeOf, runs, said, got, cut, answeredBy, bounds>>

\* A stream's queue is dropped by the name of its session, whoever has it now.
Drop(r) ==
    queue' = IF mode[r] = "stream" /\ method[r] = "prompt"
             THEN [queue EXCEPT ![ofSession[r]] = None] ELSE queue
Forget(r) == call' = [call EXCEPT ![Own(r)] = "none"]
\* Mutant: a clean-up releases the lock once more.
LeavesReleasing(r, to) ==
    /\ pc' = [pc EXCEPT ![r] = to]
    /\ holder' = None

Leaves(r, to) ==
    /\ pc' = [pc EXCEPT ![r] = to]
    /\ holder' = IF holder = r THEN None ELSE holder

\* The prompt is answered: a chat is done, a stream has its end to send.
Prompted(r) ==
    /\ pc[r] = "using" /\ call[Own(r)] = "ok" /\ method[r] = "prompt"
    /\ IF mode[r] = "chat"
       THEN Leaves(r, "done")
       ELSE pc' = [pc EXCEPT ![r] = "closing"] /\ UNCHANGED holder
    /\ Forget(r)
    /\ UNCHANGED <<handles, method, closing, inbox, cache, taken, mode, wanted, queue, truth, bounds>>
Finish(r) ==
    /\ pc[r] = "closing"
    /\ Leaves(r, "done") /\ Drop(r)
    /\ UNCHANGED <<handles, calls, cache, taken, mode, wanted, truth, bounds>>

\* Any call raises: the request gives up the slot, and leaves the cache.
Fail(r) ==
    /\ pc[r] = "using" /\ call[Own(r)] = "error"
    /\ Leaves(r, "failed") /\ Drop(r) /\ Forget(r)
    /\ UNCHANGED <<handles, method, closing, inbox, cache, taken, mode, wanted, truth, bounds>>

-----------------------------------------------------------------------------
(* The client of a stream leaves. *)

Unresolved(r) == call[Own(r)] \in {"ready", "starting", "pending", "closing", "joining"}

\* In a call of the preparation, which is cancelled with the request.
LeavePreparing(r) ==
    /\ leaves < MaxLeaves /\ leaves' = leaves + 1
    /\ mode[r] = "stream" /\ pc[r] = "using" /\ method[r] # "prompt"
    /\ Leaves(r, "left")
    /\ Abandon({Own(r)})
    /\ UNCHANGED <<process, started, alive, shut, method, closing, inbox, cache,
                   taken, mode, wanted, queue, truth, faults>>

\* What prompt_stream does about a prompt that still runs.
SendCancel(r) == Drop(r) /\ Issue(Cancel(r), "cancel_session")

\* While prompt_stream waits: it cleans up at once, with the lock.
LeaveWaiting(r) ==
    /\ leaves < MaxLeaves /\ leaves' = leaves + 1
    /\ mode[r] = "stream" /\ pc[r] = "using" /\ method[r] = "prompt" /\ Unresolved(r)
    /\ pc' = [pc EXCEPT ![r] = "leaving"]
    /\ SendCancel(r)
    /\ UNCHANGED <<started, alive, reading, shut, method, closing, cache, holder,
                   taken, mode, wanted, truth, faults>>

\* While the stream is suspended at a yield: the generators are finalised one
\* after the other, and the lock is released before prompt_stream hears of it.
LeaveYielding(r) ==
    /\ leaves < MaxLeaves /\ leaves' = leaves + 1
    /\ mode[r] = "stream" /\ method[r] = "prompt"
    /\ (pc[r] = "using" /\ got[r] # {}) \/ pc[r] = "closing"
    /\ Leaves(r, "abandoned")
    /\ UNCHANGED <<handles, calls, cache, taken, mode, wanted, queue, truth, faults>>
CleanUp(r) ==
    /\ pc[r] = "abandoned"
    /\ IF Unresolved(r)
       THEN SendCancel(r) /\ pc' = [pc EXCEPT ![r] = "detached"]
       ELSE /\ Drop(r) /\ pc' = [pc EXCEPT ![r] = "left"]
            /\ UNCHANGED <<process, readerTask, call, inbox>>
    /\ UNCHANGED <<started, alive, reading, shut, method, closing, cache, holder,
                   taken, mode, wanted, truth, bounds>>

\* The cancel was answered, failed, or had its second: the prompt's task is
\* cancelled.  A request that is cancelled again meanwhile leaves it running.
CleanedUp(r) ==
    /\ pc[r] \in {"leaving", "detached"}
    /\ Leaves(r, "left")
    /\ Abandon({Own(r), Cancel(r)}) \/ (pc[r] = "leaving" /\ Abandon({Cancel(r)}))
    /\ UNCHANGED <<process, started, alive, shut, method, closing, inbox, cache,
                   taken, mode, wanted, queue, truth, bounds>>

-----------------------------------------------------------------------------
CallStep(r) ==
    \/ \E c \in {Own(r), Cancel(r)} : Spawned(c) \/ SpawnFails(c)
    \/ TimeOut(r) \/ Kill(r) \/ Ended(r) \/ Joined(r)
RequestStep(r) ==
    \/ RunTask(r) \/ Prepared(r) \/ Prompted(r) \/ Finish(r) \/ Fail(r)
    \/ CleanUp(r) \/ CleanedUp(r)
Leave(r) == LeavePreparing(r) \/ LeaveWaiting(r) \/ LeaveYielding(r)

Next ==
    \/ \E m \in Modes, w \in Models : Take(m, w)
    \/ \E r \in Requests : CallStep(r) \/ RequestStep(r) \/ Leave(r)
    \/ \E p \in Processes : Die(p) \/ ReaderEnds(p) \/ Answer(p) \/ Update(p)

\* The event loop runs what is ready, and time passes; a dead process's output
\* ends.  Processes promise nothing.
Spec ==
    /\ Init /\ [][Next]_vars
    /\ \A r \in Requests : WF_vars(CallStep(r)) /\ WF_vars(RequestStep(r))
    /\ \A p \in Processes : WF_vars(p \notin alive /\ ReaderEnds(p))

-----------------------------------------------------------------------------
\* Types; and the slot's lock is held by the one request that is between taking
\* and releasing it, also while streams that were left are cleaned up beside it.
TypeOK ==
    /\ process \in Processes \cup {None} /\ readerTask \in Processes \cup {None}
    /\ started \in 0..MaxProcesses
    /\ alive \subseteq Processes /\ reading \subseteq Processes /\ shut \subseteq Processes
    /\ call \in [Calls -> {"none", "ready", "starting", "pending", "closing",
                           "joining", "ok", "error"}]
    /\ method \in [Requests -> Methods]
    /\ closing \in [Requests -> Processes \cup {None}]
    /\ inbox \in [Processes -> Seq(Requests \X Methods)]
    /\ initialized \in BOOLEAN /\ session \in Requests \cup {None}
    /\ model \in Models \cup {NoModel}
    /\ holder \in Requests \cup {None} /\ taken \in 0..MaxRequests
    /\ pc \in [Requests -> {"idle", "using", "closing", "leaving", "abandoned",
                            "detached", "done", "failed", "left"}]
    /\ mode \in [Requests -> Modes]
    /\ wanted \in [Requests -> Models \cup {NoModel}]
    /\ queue \in [Requests -> Requests \cup {None}]
    /\ ofSession \in [Requests -> Requests \cup {None}]
    /\ homeOf \in [Requests -> Processes \cup {None}]
    /\ runs \in [Requests -> Models \cup {NoModel}]
    /\ said \subseteq Requests /\ cut \subseteq Requests
    /\ got \in [Requests -> SUBSET Requests]
    /\ answeredBy \in [Requests -> Models \cup {NoModel}]
    /\ faults \in 0..MaxFaults /\ leaves \in 0..MaxLeaves
    /\ \A r \in Requests : holder = r <=> pc[r] \in {"using", "closing", "leaving"}

Quit(q) == pc[q] \in {"leaving", "abandoned", "detached", "left"}
QuitIn(m, r) == \E q \in Requests : q # r /\ Quit(q) /\ method[q] = m /\ ofSession[q] = ofSession[r]

\* A request that was answered got the updates of its own prompt, all of them
\* and no others, and its prompt ran to its end, whatever prompts of the session
\* failed or timed out before it; only a stream that was left in the same
\* session may take updates from it, add some or cancel its prompt.
OwnUpdates ==
    \A r \in Requests :
        pc[r] = "done" /\ ~QuitIn("prompt", r) => got[r] = said \cap {r} /\ r \notin cut

\* The model that answered a request is the one it asked for, although the
\* cache, not the process, says which model a session has: through refusals,
\* time-outs and restarts; save that a stream was left while it set the model.
RightModel ==
    \A r \in Requests :
        pc[r] = "done" /\ ~QuitIn("set_model", r) => answeredBy[r] = wanted[r]

\* Every request that got the slot gives it up, and every stream that was left
\* is cleaned up: no close() waits for ever for a process or for a reader,
\* although it may find another one than it began with.
EveryRequestEnds ==
    <>[](\A r \in Requests : pc[r] \in {"idle", "done", "failed", "left"})

=============================================================================
