--------------------------- MODULE GeminiAcpSlots ---------------------------
(***************************************************************************)
(* The slots of ChatOrchestrator: each has a Gemini ACP process and a lock *)
(* that one user at a time holds.  The users are the chat requests of one  *)
(* provider and, for each runtime (the slots made together for one key of  *)
(* the process pool), a task that warms up cold slots in the background.   *)
(* A failed request throws the runtime away and tries a new one, while the *)
(* users of the old one go on with it.                                     *)
(*                                                                         *)
(* An asyncio.Lock is a flag and a line of those who wait.  release clears *)
(* the flag and wakes the first in line, who takes the lock when the event *)
(* loop comes to it; in between the lock looks unlocked, and acquire joins *)
(* the line.  Everything between two awaits that really wait is one step.  *)
(***************************************************************************)
EXTENDS Integers, SequencesExt

CONSTANTS
  Requests,    \* the chat requests, numbered as they come
  Streams,     \* those that are streamed
  NumSlots,    \* gemini_acp_pool_size
  Prewarm,     \* gemini_acp_prewarm_enabled
  MaxRuntimes, \* bound on the runtimes that are made
  MaxCancels   \* bound on the requests whose client leaves

Slots == 1..NumSlots
Runtimes == 1..MaxRuntimes

ASSUME SlotsAssumption == NumSlots \in Nat \ {0}
ASSUME SlotBounds == MaxRuntimes \in Nat \ {0} /\ MaxCancels \in Nat
ASSUME RequestsAssumption ==
  Requests \subseteq Int \ Runtimes /\ Streams \subseteq Requests
ASSUME PrewarmAssumption == Prewarm \in BOOLEAN

\* The users of slots: the requests, and the warm-up task of each runtime.
Users == Requests \cup Runtimes
Places == Runtimes \X Slots

VARIABLES
  current,     \* the runtime in the process pool, 0 if there is none
  made,        \* the runtimes made so far are 1..made
  broken,      \* history: the runtimes in which a request has failed
  initialized, \* of each slot: its process was initialized
  locked,      \* the flag of each slot's lock
  line,        \* the line of each slot's lock
  waiters,     \* the slot's count of requests in its line
  nextSlot,    \* where the next scan of each runtime begins
  choosing,    \* the flag of each runtime's selection_lock
  door,        \* the line of each runtime's selection_lock
  pc,          \* where each user is
  at,          \* its runtime and slot
  retried,     \* the requests in their second attempt
  cancels

slots == <<initialized, locked, line, waiters>>
selection == <<nextSlot, choosing, door>>
pool == <<current, made, broken>>
vars == <<pool, slots, selection, pc, at, retried, cancels>>

Using == {"starting", "prompting", "emitting", "closing"}
Waiting == {"selecting", "handoff", "waiting", "queued"}
Ended == {"done", "fallback", "failed", "cancelled"}

TypeOK ==
  /\ current \in 0..made
  /\ made \in 0..MaxRuntimes
  /\ broken \in SUBSET Runtimes
  /\ initialized \in [Places -> BOOLEAN]
  /\ locked \in [Places -> BOOLEAN]
  /\ line \in [Places -> Seq(Users)]
  /\ waiters \in [Places -> Nat]
  /\ nextSlot \in [Runtimes -> Slots]
  /\ choosing \in [Runtimes -> BOOLEAN]
  /\ door \in [Runtimes -> Seq(Requests)]
  /\ pc \in [Users -> {"idle", "scheduled", "over"} \cup Using \cup Waiting \cup Ended]
  /\ at \in [Users -> (0..MaxRuntimes) \X (0..NumSlots)]
  /\ retried \in SUBSET Requests
  /\ cancels \in Nat

\* prewarm_provider has initialized the first slots of the first runtime, up to
\* the one that failed; or it had no provider to prepare.
Init ==
  /\ \/ current = 0 /\ made = 0 /\ initialized = [x \in Places |-> FALSE]
     \/ /\ Prewarm /\ current = 1 /\ made = 1
        /\ \E n \in 0..NumSlots : initialized = [x \in Places |-> x[1] = 1 /\ x[2] <= n]
  /\ broken = {}
  /\ locked = [x \in Places |-> FALSE]
  /\ line = [x \in Places |-> <<>>]
  /\ waiters = [x \in Places |-> 0]
  /\ nextSlot = [g \in Runtimes |-> 1]
  /\ choosing = [g \in Runtimes |-> FALSE]
  /\ door = [g \in Runtimes |-> <<>>]
  /\ pc = [u \in Users |-> "idle"]
  /\ at = [u \in Users |-> <<0, 0>>]
  /\ retried = {}
  /\ cancels = 0

-----------------------------------------------------------------------------
(* Locks. *)

\* The user goes to a place in the code and in the runtimes.
Go(u, to, x) ==
  /\ pc' = [pc EXCEPT ![u] = to]
  /\ at' = [at EXCEPT ![u] = x]

Join(u, x) == line' = [line EXCEPT ![x] = Append(@, u)]
Leave(u, x) ==
  \E i \in 1..Len(line[x]) : line[x][i] = u /\ line' = [line EXCEPT ![x] = RemoveAt(@, i)]

\* The event loop comes to the first in the line of a lock that was released.
Woken(u) ==
  /\ ~locked[at[u]]
  /\ line[at[u]] # <<>>
  /\ Head(line[at[u]]) = u

\* The user has the lock and looks at the process, which may have died: prompt
\* it (after opening a session and setting the model), or initialize it first.
Occupy(u, x) ==
  /\ locked' = [locked EXCEPT ![x] = TRUE]
  /\ \/ /\ initialized[x]
        /\ Go(u, "prompting", x)
        /\ UNCHANGED initialized
     \/ /\ Go(u, "starting", x)
        /\ initialized' = [initialized EXCEPT ![x] = FALSE]

-----------------------------------------------------------------------------
(* _acquire_gemini_acp_slot. *)

Warm(g) == {s \in Slots : initialized[<<g, s>>]}
Eligible(g) == IF Warm(g) = {} THEN Slots ELSE Warm(g)
Unlocked(g) == {s \in Eligible(g) : ~locked[<<g, s>>]}
LeastWanted(g) == {s \in Eligible(g) : \A t \in Eligible(g) : waiters[<<g, s>>] <= waiters[<<g, t>>]}

\* Slot s is the first of S in a scan that begins at nextSlot.
Turn(g, s) == (s - nextSlot[g]) % NumSlots
IsFirst(g, s, S) == s \in S /\ \A t \in S : Turn(g, s) <= Turn(g, t)

\* Mutant: the index is not taken modulo the number of slots.
AfterIndex(s) == s + 1
After(s) == (s % NumSlots) + 1

\* The choice, with the selection lock held: an unlocked slot is taken, at once if
\* nobody is in its line, and otherwise after them, still holding the selection
\* lock; if all are locked, release the selection lock and wait for one.
Select(r, g) ==
  \E s \in Slots :
    /\ nextSlot' = [nextSlot EXCEPT ![g] = After(s)]
    /\ \/ /\ IsFirst(g, s, Unlocked(g))
          /\ line[<<g, s>>] = <<>>
          /\ Occupy(r, <<g, s>>)
          /\ UNCHANGED <<line, waiters, choosing>>
       \/ /\ IsFirst(g, s, Unlocked(g))
          /\ line[<<g, s>>] # <<>>
          /\ Go(r, "handoff", <<g, s>>)
          /\ Join(r, <<g, s>>)
          /\ choosing' = [choosing EXCEPT ![g] = TRUE]
          /\ UNCHANGED <<initialized, locked, waiters>>
       \/ /\ Unlocked(g) = {} /\ IsFirst(g, s, LeastWanted(g))
          /\ Go(r, "waiting", <<g, s>>)
          /\ Join(r, <<g, s>>)
          /\ waiters' = [waiters EXCEPT ![<<g, s>>] = @ + 1]
          /\ UNCHANGED <<initialized, locked, choosing>>

\* _gemini_acp_runtime: get_or_create on the process pool.
CurrentRuntime(g) ==
  IF current = 0
    THEN g \in Runtimes /\ g = made + 1 /\ made' = g /\ current' = g
    ELSE g = current /\ UNCHANGED <<made, current>>

\* A request comes to ACP, and goes as far as it can without waiting.
Begin(r) ==
  /\ pc[r] = "idle"
  /\ \A q \in Requests : q < r => pc[q] # "idle"
  /\ \E g \in Runtimes :
       /\ CurrentRuntime(g)
       /\ IF ~choosing[g] /\ door[g] = <<>>
            THEN Select(r, g) /\ UNCHANGED door
            ELSE /\ door' = [door EXCEPT ![g] = Append(@, r)]
                 /\ Go(r, "selecting", <<g, 0>>)
                 /\ UNCHANGED <<slots, nextSlot, choosing>>
  /\ UNCHANGED <<broken, retried, cancels>>

\* The selection lock was released, and the first at the door gets it.
Enter(r) ==
  LET g == at[r][1] IN
  /\ pc[r] = "selecting"
  /\ ~choosing[g]
  /\ door[g] # <<>> /\ Head(door[g]) = r
  /\ door' = [door EXCEPT ![g] = Tail(@)]
  /\ Select(r, g)
  /\ UNCHANGED <<pool, retried, cancels>>

\* Mutant: waiters is not decremented.
ServedUncounted(r) ==
  /\ pc[r] \in {"handoff", "waiting"}
  /\ Woken(r)
  /\ Occupy(r, at[r])
  /\ line' = [line EXCEPT ![at[r]] = Tail(@)]
  /\ choosing' = IF pc[r] = "handoff" THEN [choosing EXCEPT ![at[r][1]] = FALSE] ELSE choosing
  /\ UNCHANGED <<pool, waiters, nextSlot, door, retried, cancels>>

\* A request gets the lock it waits for, and gives up the selection lock if it has it.
Served(r) ==
  /\ pc[r] \in {"handoff", "waiting"}
  /\ Woken(r)
  /\ Occupy(r, at[r])
  /\ line' = [line EXCEPT ![at[r]] = Tail(@)]
  /\ IF pc[r] = "handoff"
       THEN choosing' = [choosing EXCEPT ![at[r][1]] = FALSE] /\ UNCHANGED waiters
       ELSE /\ waiters' = [waiters EXCEPT ![at[r]] = IF @ = 0 THEN 0 ELSE @ - 1]
            /\ UNCHANGED choosing
  /\ UNCHANGED <<pool, nextSlot, door, retried, cancels>>

-----------------------------------------------------------------------------
(* _gemini_acp_chat and _gemini_acp_stream_chat, with the lock of a slot. *)

Release(x) == locked' = [locked EXCEPT ![x] = FALSE]

\* client.initialize returns, to a request or to a warm-up.
InitDone(u) ==
  /\ pc[u] = "starting"
  /\ initialized' = [initialized EXCEPT ![at[u]] = TRUE]
  /\ Go(u, "prompting", at[u])
  /\ UNCHANGED <<pool, locked, line, waiters, selection, retried, cancels>>

\* The first chunk of an answer goes to the client.
Emit(r) ==
  /\ r \in Streams
  /\ pc[r] = "prompting"
  /\ Go(r, "emitting", at[r])
  /\ UNCHANGED <<pool, slots, selection, retried, cancels>>

\* _schedule_gemini_acp_pool_warmup, by a request that goes on to a place.
Schedule(r, to) ==
  LET g == at[r][1]
      starts == Prewarm /\ NumSlots > 1 /\ pc[g] = "idle" IN
  /\ pc' = [pc EXCEPT ![r] = to, ![g] = IF starts THEN "scheduled" ELSE @]
  /\ at' = [at EXCEPT ![g] = IF starts THEN <<g, 0>> ELSE @]

\* Mutant: a chat returns without releasing the lock.
AnswerHolding(r) ==
  /\ pc[r] \in {"prompting", "emitting"}
  /\ Schedule(r, IF r \in Streams THEN "closing" ELSE "done")
  /\ UNCHANGED <<pool, slots, selection, retried, cancels>>

\* The prompt has its result.  A chat is done; a stream has yet to send the end.
Answer(r) ==
  /\ pc[r] \in {"prompting", "emitting"}
  /\ IF r \in Streams
       THEN Schedule(r, "closing") /\ UNCHANGED locked
       ELSE Schedule(r, "done") /\ Release(at[r])
  /\ UNCHANGED <<pool, initialized, line, waiters, selection, retried, cancels>>

Close(r) ==
  /\ pc[r] = "closing"
  /\ Go(r, "done", at[r])
  /\ Release(at[r])
  /\ UNCHANGED <<pool, initialized, line, waiters, selection, retried, cancels>>

\* The first attempt of run or stream_prepared fails before any output: it
\* invalidates whatever runtime the pool has, and the second one makes a new
\* runtime and takes its first slot, all before anyone else can run.
Retry(r) ==
  LET g == made + 1 IN
  /\ pc[r] \in {"starting", "prompting"}
  /\ r \notin retried
  /\ made < MaxRuntimes
  /\ made' = g
  /\ current' = g
  /\ broken' = broken \cup {at[r][1]}
  /\ Go(r, "starting", <<g, 1>>)
  /\ locked' = [locked EXCEPT ![at[r]] = FALSE, ![<<g, 1>>] = TRUE]
  /\ nextSlot' = [nextSlot EXCEPT ![g] = After(1)]
  /\ retried' = retried \cup {r}
  /\ UNCHANGED <<initialized, line, waiters, choosing, door, cancels>>

\* Mutant: the last failure does not invalidate the runtime.
GiveUpKeeping(r) ==
  /\ \/ pc[r] \in {"starting", "prompting"} /\ r \in retried /\ Go(r, "fallback", at[r])
     \/ pc[r] = "emitting" /\ Go(r, "failed", at[r])
  /\ Release(at[r])
  /\ broken' = broken \cup {at[r][1]}
  /\ UNCHANGED <<current, made, initialized, line, waiters, selection, retried, cancels>>

\* The second attempt fails, and the request falls back to the command line; or one
\* fails after output, and so does the request.
GiveUp(r) ==
  /\ \/ pc[r] \in {"starting", "prompting"} /\ r \in retried /\ Go(r, "fallback", at[r])
     \/ pc[r] = "emitting" /\ Go(r, "failed", at[r])
  /\ Release(at[r])
  /\ current' = 0
  /\ broken' = broken \cup {at[r][1]}
  /\ UNCHANGED <<made, initialized, line, waiters, selection, retried, cancels>>

-----------------------------------------------------------------------------
(* The client of a stream leaves: the request is cancelled where it is.  The *)
(* runtime stays, and so does a count in waiters.                            *)

CancelSelecting(r) ==
  /\ pc[r] = "selecting"
  /\ \E i \in 1..Len(door[at[r][1]]) :
       door[at[r][1]][i] = r /\ door' = [door EXCEPT ![at[r][1]] = RemoveAt(@, i)]
  /\ UNCHANGED <<slots, nextSlot, choosing>>

\* Mutant: the selection lock is not given up.
CancelHandoffHolding(r) ==
  /\ pc[r] = "handoff"
  /\ Leave(r, at[r])
  /\ UNCHANGED <<initialized, locked, waiters, selection>>

CancelHandoff(r) ==
  /\ pc[r] = "handoff"
  /\ Leave(r, at[r])
  /\ choosing' = [choosing EXCEPT ![at[r][1]] = FALSE]
  /\ UNCHANGED <<initialized, locked, waiters, nextSlot, door>>

\* Mutant: the lock is released by a request that waits for it.
CancelWaitingReleases(r) ==
  /\ pc[r] = "waiting"
  /\ Leave(r, at[r])
  /\ Release(at[r])
  /\ UNCHANGED <<initialized, waiters, selection>>

CancelWaiting(r) ==
  /\ pc[r] = "waiting"
  /\ Leave(r, at[r])
  /\ UNCHANGED <<initialized, locked, waiters, selection>>

CancelUsing(r) ==
  /\ pc[r] \in Using
  /\ Release(at[r])
  /\ UNCHANGED <<initialized, line, waiters, selection>>

Cancel(r) ==
  /\ r \in Streams
  /\ cancels < MaxCancels
  /\ cancels' = cancels + 1
  /\ CancelSelecting(r) \/ CancelHandoff(r) \/ CancelWaiting(r) \/ CancelUsing(r)
  /\ Go(r, "cancelled", at[r])
  /\ UNCHANGED <<pool, retried>>

-----------------------------------------------------------------------------
(* _warm_gemini_acp_idle_slots, the warm-up task of runtime g. *)

\* The first slot after slot i that looks cold and unlocked: its lock is taken, or
\* waited for if it has a line; without one the task is over.  The flags and the
\* lines are lk and ln by now.
GoOn(g, i, lk, ln) ==
  LET cold == {j \in Slots : j > i /\ ~initialized[<<g, j>>] /\ ~lk[<<g, j>>]} IN
  \/ /\ cold = {}
     /\ Go(g, "over", <<g, 0>>)
     /\ locked' = lk /\ line' = ln
  \/ \E j \in cold :
       /\ \A k \in cold : j <= k
       /\ IF ln[<<g, j>>] = <<>>
            THEN /\ Go(g, "starting", <<g, j>>)
                 /\ locked' = [lk EXCEPT ![<<g, j>>] = TRUE] /\ line' = ln
            ELSE /\ Go(g, "queued", <<g, j>>)
                 /\ line' = [ln EXCEPT ![<<g, j>>] = Append(@, g)] /\ locked' = lk

WarmBegin(g) ==
  /\ pc[g] = "scheduled"
  /\ GoOn(g, 0, locked, line)
  /\ UNCHANGED <<pool, initialized, waiters, selection, retried, cancels>>

\* It gets a lock it waited for, to find the slot cold or initialized meanwhile.
WarmTake(g) ==
  LET x == at[g]
      left == [line EXCEPT ![x] = Tail(@)] IN
  /\ pc[g] = "queued"
  /\ Woken(g)
  /\ IF initialized[x]
       THEN GoOn(g, x[2], locked, left)
       ELSE Go(g, "starting", x) /\ line' = left /\ locked' = [locked EXCEPT ![x] = TRUE]
  /\ UNCHANGED <<pool, initialized, waiters, selection, retried, cancels>>

\* The slot has its session and model.
WarmNext(g) ==
  /\ pc[g] = "prompting"
  /\ GoOn(g, at[g][2], [locked EXCEPT ![at[g]] = FALSE], line)
  /\ UNCHANGED <<pool, initialized, waiters, selection, retried, cancels>>

WarmFails(g) ==
  /\ pc[g] \in {"starting", "prompting"}
  /\ Go(g, "over", <<g, 0>>)
  /\ Release(at[g])
  /\ UNCHANGED <<pool, initialized, line, waiters, selection, retried, cancels>>

\* clear_warmup, called after the task has ended.
WarmClear(g) ==
  /\ pc[g] = "over"
  /\ Go(g, "idle", at[g])
  /\ UNCHANGED <<pool, slots, selection, retried, cancels>>

-----------------------------------------------------------------------------

RequestStep(r) ==
  Enter(r) \/ Served(r) \/ InitDone(r) \/ Emit(r) \/ Answer(r) \/ Close(r) \/ Retry(r) \/ GiveUp(r)
WarmStep(g) ==
  WarmBegin(g) \/ WarmTake(g) \/ InitDone(g) \/ WarmNext(g) \/ WarmFails(g) \/ WarmClear(g)

Next ==
  \/ \E r \in Requests : Begin(r) \/ RequestStep(r) \/ Cancel(r)
  \/ \E g \in Runtimes : WarmStep(g)

Spec == Init /\ [][Next]_vars

\* The event loop runs whoever can run.  What a slot's process is asked is answered
\* or times out, and the client of a stream takes what it is sent or leaves.
FairSpec ==
  /\ Spec
  /\ \A r \in Requests : WF_vars(RequestStep(r))
  /\ \A g \in Runtimes : WF_vars(WarmStep(g))

-----------------------------------------------------------------------------

UsersOf(x) == {u \in Users : pc[u] \in Using /\ at[u] = x}
Choosers(g) == {r \in Requests : pc[r] = "handoff" /\ at[r][1] = g}

\* A slot's lock is set exactly when one user is between the acquire and the release
\* in its finally clause, whoever waited, was cancelled, warmed up or retried; and the
\* selection lock is held exactly by the one request that waits with it.
LockIsUser ==
  /\ \A x \in Places : IF locked[x] THEN \E u \in Users : UsersOf(x) = {u} ELSE UsersOf(x) = {}
  /\ \A g \in Runtimes :
       IF choosing[g] THEN \E r \in Requests : Choosers(g) = {r} ELSE Choosers(g) = {}

\* The count by which a full pool chooses a slot is the number of requests that wait
\* for it, or more, for those that were cancelled there: by one for each at most, however
\* the others were served, and never less.
WaitersCounted ==
  \A x \in Places :
    LET waiting == Cardinality({r \in Requests : pc[r] = "waiting" /\ at[r] = x}) IN
    waiting <= waiters[x] /\ waiters[x] <= waiting + cancels

\* No request comes to a runtime in which one has failed: it is not in the pool, also
\* when requests of several runtimes fail, retry and invalidate in any order.
BrokenIsGone == current \notin broken

\* Every request that came to ACP gets a slot and ends, with an answer, a fallback or
\* an error: no one waits for a lock for ever, in whatever order requests and warm-ups
\* queue, hold the selection lock while they queue, and leave.
EveryRequestEnds == <>[](\A r \in Requests : pc[r] \in {"idle"} \cup Ended)

=============================================================================
