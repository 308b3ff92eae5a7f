---------------------------- MODULE ChatCompletion ----------------------------
(***************************************************************************)
(* Chat completions of one API key, from the check of its limits to the    *)
(* row that records the request: custom providers of the account and       *)
(* platform models, streamed or not, with the rounds of the builtin tool   *)
(* web_fetch, and with the routes that a provider's answer may be asked    *)
(* for one after the other.                                                *)
(*                                                                         *)
(* Every await is a step of its own.  Time is a count of ticks.  What the  *)
(* answers say, and what they cost, is left out: a row says for how many   *)
(* answers of the provider it charges.                                     *)
(***************************************************************************)
EXTENDS Integers, Sequences, FiniteSets

CONSTANTS
  Asks,     \* for each request, what it may ask for
  Limits,   \* the windows of the key, [ticks, most] each, shortest first
  NoLimit,  \* most, of a window that has no limit
  Plans,    \* the routes that a provider may have, in their order
  MaxTime   \* bound on the time

Requests == DOMAIN Asks
Rounds == 3   \* MAX_BUILTIN_TOOL_ROUNDS
Kinds == [custom : BOOLEAN, stream : BOOLEAN, tools : BOOLEAN, models : BOOLEAN]

ASSUME AsksAssumption == \A r \in Requests : Asks[r] \subseteq Kinds
ASSUME LimitsAssumption ==
  NoLimit \notin Nat /\ Limits \in Seq([ticks : Nat, most : Nat \cup {NoLimit}])

VARIABLES
  now,      \* the time
  rows,     \* usage_records of the key
  pc,       \* how far each request is
  ask,      \* what it asks for
  since,    \* when it began: the now of enforce_limits
  window,   \* the window it checks next
  plan,     \* the routes of the provider it uses
  route,    \* the one it tries, counted from 1
  sent,     \* history: the routes whose chunks its client got, 0 for a stored result
  calls,    \* history: the answers it got from providers
  usages,   \* the usages it has collected of tool rounds
  peak      \* history: the most requests that were in flight together

time == <<now, rows>>
doing == <<ask, since, window>>
using == <<plan, route, sent, calls, usages>>
vars == <<time, pc, doing, using, peak>>

Ended == {"idle", "refused", "failed", "gone", "done"}
InFlight == {r \in Requests : pc[r] \notin Ended}

\* Where a request is that has passed its limits.
Passed ==
  {"custom", "access", "prepare", "quote", "find", "run", "again",
   "serve", "replay", "error", "broken", "success", "settle"}

TypeOK ==
  /\ now \in Nat
  /\ rows \subseteq [of : Requests, outcome : {"success", "error", "limited"},
                     at : Nat, rounds : Nat]
  /\ pc \in [Requests -> Ended \cup {"limits", "limited"} \cup Passed]
  /\ ask \in [Requests -> Kinds]
  /\ since \in [Requests -> Nat] /\ window \in [Requests -> Nat \ {0}]
  /\ plan \in [Requests -> Plans \cup {<< >>}] /\ route \in [Requests -> Nat \ {0}]
  /\ sent \in [Requests -> SUBSET Nat]
  /\ calls \in [Requests -> Nat] /\ usages \in [Requests -> Nat]
  /\ peak \in Nat

Init ==
  /\ now = 0 /\ rows = {} /\ peak = 0
  /\ pc = [r \in Requests |-> "idle"]
  /\ ask \in [Requests -> UNION {Asks[r] : r \in Requests}]
  /\ \A r \in Requests : ask[r] \in Asks[r]
  /\ since = [r \in Requests |-> 0]
  /\ window = [r \in Requests |-> 1]
  /\ plan = [r \in Requests |-> << >>]
  /\ route = [r \in Requests |-> 1]
  /\ sent = [r \in Requests |-> {}]
  /\ calls = [r \in Requests |-> 0]
  /\ usages = [r \in Requests |-> 0]

-----------------------------------------------------------------------------
Goes(r, from, to) == pc[r] = from /\ pc' = [pc EXCEPT ![r] = to]

\* What a request was doing is forgotten at its end.
Ends(r, from, to) ==
  /\ Goes(r, from, to)
  /\ plan' = [plan EXCEPT ![r] = << >>] /\ route' = [route EXCEPT ![r] = 1]
  /\ sent' = [sent EXCEPT ![r] = {}] /\ usages' = [usages EXCEPT ![r] = 0]
  /\ UNCHANGED <<now, doing, calls, peak>>

\* record_usage, or the row of settle_inference: written and committed in one step.
Records(r, outcome, rounds) ==
  rows' = rows \cup {[of |-> r, outcome |-> outcome, at |-> now, rounds |-> rounds]}

Fails(r, from, to) == Ends(r, from, to) /\ UNCHANGED rows

(* The limits of the key. *)

Arrive(r) ==
  /\ Goes(r, "idle", "limits")
  /\ since' = [since EXCEPT ![r] = now]
  /\ peak' = IF Cardinality(InFlight) >= peak THEN Cardinality(InFlight) + 1 ELSE peak
  /\ UNCHANGED <<time, ask, window, using>>

\* Mutant: a request that failed is not counted.
SuccessCounts == {"success", "limited"}

CountedOutcomes == {"success", "error", "limited"}

InWindow(r, w) ==
  {x \in rows : x.outcome \in CountedOutcomes /\ x.at >= since[r] - w.ticks}

Exceeded(r, w) == w.most # NoLimit /\ Cardinality(InWindow(r, w)) >= w.most

Check(r) ==
  /\ pc[r] = "limits"
  /\ window[r] <= Len(Limits)
  /\ IF Exceeded(r, Limits[window[r]])
     THEN /\ Goes(r, "limits", "limited")
          /\ window' = [window EXCEPT ![r] = 1] /\ since' = [since EXCEPT ![r] = 0]
     ELSE window' = [window EXCEPT ![r] = @ + 1] /\ UNCHANGED <<pc, since>>
  /\ UNCHANGED <<time, ask, using, peak>>

\* 429: the refusal is recorded too, and counts from then on.
Refuse(r) == Ends(r, "limited", "refused") /\ Records(r, "limited", 0)

-----------------------------------------------------------------------------
(* The way to a provider. *)

Step(r, from, to) == Goes(r, from, to) /\ UNCHANGED <<time, doing, using, peak>>

\* list_models needs no more; a chat completion looks for a custom provider.
Resolve(r) ==
  /\ window[r] > Len(Limits)
  /\ Goes(r, "limits", IF ask[r].models THEN "success"
                       ELSE IF ask[r].custom THEN "custom" ELSE "access")
  /\ window' = [window EXCEPT ![r] = 1] /\ since' = [since EXCEPT ![r] = 0]
  /\ UNCHANGED <<time, ask, using, peak>>

\* execute_custom_completion and stream_custom_completion turn what a provider or its
\* settings may cause into errors that the handler records; other exceptions it does not.
CustomAnswers(r) == Step(r, "custom", "success")
CustomFails(r) == Step(r, "custom", IF ask[r].stream THEN "broken" ELSE "error")
CustomRaises(r) == Fails(r, "custom", "failed")

Access(r) == Step(r, "access", "prepare") \/ Step(r, "access", "error")

Uses(r, p) ==
  /\ plan' = [plan EXCEPT ![r] = p]
  /\ route' = [route EXCEPT ![r] = 1]
  /\ UNCHANGED <<time, doing, sent, calls, usages, peak>>

\* orchestrator.prepare finds the model's provider, as the catalog is at that time.
Finds(r, from, to) ==
  \/ Goes(r, from, to) /\ \E p \in Plans : Uses(r, p)
  \/ Step(r, from, "error")

Prepare(r) == Finds(r, "prepare", "quote")

\* A stream without tools goes to the provider that prepare has found; all else looks
\* for it again.  402, 404 and 409 are not recorded.
Quote(r) ==
  \/ Step(r, "quote", IF ask[r].stream /\ ~ask[r].tools THEN "serve" ELSE "find")
  \/ Fails(r, "quote", "failed")

-----------------------------------------------------------------------------
(* orchestrator.run: a whole answer. *)

Find(r) == Finds(r, "find", "run")

NextRoute(r) ==
  /\ route[r] < Len(plan[r])
  /\ route' = [route EXCEPT ![r] = @ + 1]
  /\ UNCHANGED <<time, pc, doing, plan, sent, calls, usages, peak>>

\* A route fails, and the next is tried; what the last one raises is not recorded.
RunFails(r) ==
  /\ pc[r] = "run"
  /\ \/ NextRoute(r)
     \/ route[r] = Len(plan[r]) /\ Fails(r, "run", "failed")

Gets(r, to, more) ==
  /\ Goes(r, "run", to)
  /\ calls' = [calls EXCEPT ![r] = @ + 1]
  /\ usages' = [usages EXCEPT ![r] = @ + more]
  /\ plan' = [plan EXCEPT ![r] = << >>]
  /\ route' = [route EXCEPT ![r] = 1]
  /\ UNCHANGED <<time, doing, sent, peak>>

\* The answer that needs no tool is the result; a stream replays that of its probe.
Result(r) == Gets(r, IF ask[r].stream THEN "replay" ELSE "settle", 0)

\* Mutant: the usage of a round is lost when the tool is run.
ToolFree(r) ==
  /\ ask[r].tools /\ usages[r] < Rounds
  /\ Gets(r, IF ask[r].stream THEN "again" ELSE "find", 0)

\* The answer asks for the tool, or the request wants it used: after its result the
\* provider is asked again.  A stream does this once, before it begins.
Tool(r) ==
  /\ ask[r].tools /\ usages[r] < Rounds
  /\ Gets(r, IF ask[r].stream THEN "again" ELSE "find", 1)

Again(r) == Finds(r, "again", "serve")

-----------------------------------------------------------------------------
(* The body of a stream. *)

Sends(r, n) ==
  /\ sent' = [sent EXCEPT ![r] = @ \cup {n}]
  /\ UNCHANGED <<time, pc, doing, plan, route, calls, usages, peak>>

Emit(r) == pc[r] = "serve" /\ Sends(r, route[r])
Replay(r) == pc[r] = "replay" /\ Sends(r, 0)

\* Mutant: the next route is tried even after a part of an answer was sent.
StreamBreaksAnyway(r) ==
  /\ pc[r] = "serve"
  /\ \/ NextRoute(r)
     \/ route[r] = Len(plan[r]) /\ Step(r, "serve", "broken")

\* stream_prepared: the next route is only tried if this one sent nothing.
StreamBreaks(r) ==
  /\ pc[r] = "serve"
  /\ \/ route[r] \notin sent[r] /\ NextRoute(r)
     \/ (route[r] \in sent[r] \/ route[r] = Len(plan[r])) /\ Step(r, "serve", "broken")

StreamEnds(r) ==
  /\ route[r] \in sent[r]
  /\ Goes(r, "serve", "settle")
  /\ calls' = [calls EXCEPT ![r] = @ + 1]
  /\ UNCHANGED <<time, doing, plan, route, sent, usages, peak>>

ReplayEnds(r) == 0 \in sent[r] /\ Step(r, "replay", "settle")

\* The client leaves: the generator is closed where it waits, and records nothing.
Leave(r) ==
  /\ ask[r].stream
  /\ pc[r] \in {"custom", "serve", "replay", "broken", "success", "settle"}
  /\ Fails(r, pc[r], "gone")

-----------------------------------------------------------------------------
(* The row of the request. *)

Success(r) == Ends(r, "success", "done") /\ Records(r, "success", 0)
Settle(r) == Ends(r, "settle", "done") /\ Records(r, "success", usages[r] + 1)

\* A failure of the custom provider, of a stream, or to find the model.
Error(r) == \E from \in {"error", "broken"} : Ends(r, from, "failed") /\ Records(r, "error", 0)

Tick ==
  /\ now < MaxTime
  /\ now' = now + 1
  /\ UNCHANGED <<rows, pc, doing, using, peak>>

Next ==
  \/ \E r \in Requests :
       \/ Arrive(r) \/ Check(r) \/ Refuse(r) \/ Resolve(r)
       \/ CustomAnswers(r) \/ CustomFails(r) \/ CustomRaises(r)
       \/ Access(r) \/ Prepare(r) \/ Quote(r)
       \/ Find(r) \/ RunFails(r) \/ Result(r) \/ Tool(r) \/ Again(r)
       \/ Emit(r) \/ Replay(r) \/ StreamBreaks(r) \/ StreamEnds(r) \/ ReplayEnds(r)
       \/ Leave(r) \/ Success(r) \/ Settle(r) \/ Error(r)
  \/ Tick

Spec == Init /\ [][Next]_vars

-----------------------------------------------------------------------------
(* Properties. *)

Served == {x \in rows : x.outcome # "limited"}

Permitted(w) == IF w.most = 0 THEN 0 ELSE w.most - 1 + peak

\* enforce_limits: of the requests that were served, a window of the key never holds
\* more than one less than its limit and those that were in flight together, whatever
\* passes the check while others have not recorded their end; and none if its limit is 0.
LimitHolds ==
  \A k \in DOMAIN Limits : \A t \in 0..now :
    Limits[k].most # NoLimit =>
      Cardinality({x \in Served : t - Limits[k].ticks <= x.at /\ x.at <= t})
        <= Permitted(Limits[k])

\* stream_prepared: the chunks that a client gets are all of one route.
OneAnswer == \A r \in Requests : Cardinality(sent[r]) <= 1

RowsOf(r) == {x \in rows : x.of = r}

\* create_chat_completion: a request leaves one row at most.  It leaves one of success
\* when its client has got the whole answer, which charges for every answer that the
\* provider has given for it, and then only.
OneRow ==
  \A r \in Requests :
    /\ Cardinality(RowsOf(r)) <= 1
    /\ pc[r] = "done" <=> \E x \in RowsOf(r) : x.outcome = "success"
    /\ \A x \in RowsOf(r) : x.outcome = "success" => x.rounds = calls[r]
=============================================================================
