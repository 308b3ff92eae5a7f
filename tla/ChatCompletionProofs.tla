------------------------- MODULE ChatCompletionProofs -------------------------
(***************************************************************************)
(* Proofs about ChatCompletion: a client gets chunks of one route, a       *)
(* request leaves one row, which charges for the answers that it got, and  *)
(* the limits of a key hold but for the requests in flight together; for   *)
(* any number of requests, windows, routes and ticks.                      *)
(*                                                                         *)
(* What a request may have sent, and how many answers its row will charge  *)
(* for, depend on its place alone.  The limits need a count of those who   *)
(* have passed a window and have no row yet: with the rows of the window   *)
(* they are never more than the property permits.                          *)
(***************************************************************************)
EXTENDS ChatCompletion, FiniteSetTheorems, TLAPS

\* The routes that a client may have chunks of.
Chunks(r) ==
  /\ pc[r] = "serve" => sent[r] \subseteq {route[r]}
  /\ pc[r] = "replay" => sent[r] \subseteq {0}
  /\ pc[r] \in {"settle", "broken"} => \E n \in Nat : sent[r] \subseteq {n}
  /\ pc[r] \notin {"serve", "replay", "settle", "broken"} => sent[r] = {}

\* The answers that its row is to charge for.
Charged(r) ==
  /\ pc[r] \in {"find", "run", "again", "serve"} => calls[r] = usages[r]
  /\ pc[r] \in {"replay", "settle"} => calls[r] = usages[r] + 1
  /\ pc[r] \in {"idle", "limits", "limited", "custom", "success", "access", "prepare", "quote"} =>
       calls[r] = 0 /\ usages[r] = 0

\* The row is written when the request ends.
Recorded(r) ==
  /\ r \in InFlight \/ pc[r] = "idle" => RowsOf(r) = {}
  /\ pc[r] = "done" => \E x \in RowsOf(r) :
       RowsOf(r) = {x} /\ x.outcome = "success" /\ x.rounds = calls[r]
  /\ pc[r] \in {"refused", "failed", "gone"} =>
       \/ RowsOf(r) = {}
       \/ \E x \in RowsOf(r) : RowsOf(r) = {x} /\ x.outcome # "success"

Orderly(r) == Chunks(r) /\ Charged(r) /\ Recorded(r)

IInv == TypeOK /\ \A r \in Requests : Orderly(r)

Names == Ended \cup {"limits", "limited"} \cup Passed

-----------------------------------------------------------------------------
(* Kinds of steps. *)

\* Nothing but request r changes, and no row is written but its own.
Alone(r) ==
  /\ \A q \in Requests \ {r} :
       /\ pc'[q] = pc[q] /\ sent'[q] = sent[q] /\ route'[q] = route[q]
       /\ calls'[q] = calls[q] /\ usages'[q] = usages[q]
  /\ \A x \in rows : x \in rows'
  /\ \A x \in rows' : x \in rows \/ x.of = r

LEMMA AloneKeeps ==
  ASSUME NEW r \in Requests, Alone(r), NEW q \in Requests \ {r}, Orderly(q)
  PROVE  Orderly(q)'
<1>1. RowsOf(q)' = RowsOf(q)
  BY DEF Alone, RowsOf
<1>2. /\ pc'[q] = pc[q] /\ sent'[q] = sent[q] /\ route'[q] = route[q]
      /\ calls'[q] = calls[q] /\ usages'[q] = usages[q]
  BY DEF Alone
<1>3. (q \in InFlight)' <=> q \in InFlight
  BY <1>2 DEF InFlight
<1> QED BY <1>1, <1>2, <1>3 DEF Orderly, Chunks, Charged, Recorded

\* A step of one request is right if it is typed and leaves the request orderly.
LEMMA OneStep ==
  ASSUME IInv, NEW r \in Requests, Alone(r), TypeOK', Orderly(r)'
  PROVE  IInv'
BY AloneKeeps DEF IInv

\* What a step does to the row of its request.
LEMMA NoRow ==
  ASSUME NEW r, rows' = rows
  PROVE  RowsOf(r)' = RowsOf(r)
BY DEF RowsOf

LEMMA ItsRow ==
  ASSUME NEW r, NEW outcome, NEW rounds, Records(r, outcome, rounds), RowsOf(r) = {}
  PROVE  \E x \in RowsOf(r)' :
           RowsOf(r)' = {x} /\ x.outcome = outcome /\ x.rounds = rounds
<1> DEFINE x == [of |-> r, outcome |-> outcome, at |-> now, rounds |-> rounds]
<1>1. RowsOf(r)' = {x}
  BY DEF RowsOf, Records
<1> QED BY <1>1

LEMMA RowTypes ==
  ASSUME TypeOK, NEW r \in Requests, NEW outcome \in {"success", "error", "limited"},
         NEW rounds \in Nat, Records(r, outcome, rounds)
  PROVE  /\ rows' \subseteq [of : Requests, outcome : {"success", "error", "limited"},
                             at : Nat, rounds : Nat]
         /\ \A x \in rows : x \in rows'
         /\ \A x \in rows' : x \in rows \/ x.of = r
BY DEF TypeOK, Records

\* A request that ends.
LEMMA EndsStep ==
  ASSUME IInv, NEW r \in Requests, NEW from \in Names, NEW to \in Ended \ {"idle"},
         from \notin Ended, Ends(r, from, to),
         \/ to # "done" /\ rows' = rows
         \/ to # "done" /\ \E o \in {"error", "limited"} : Records(r, o, 0)
         \/ to = "done" /\ Records(r, "success", calls[r])
  PROVE  IInv'
<1>1. /\ pc' = [pc EXCEPT ![r] = to] /\ pc[r] = from
      /\ plan' = [plan EXCEPT ![r] = << >>] /\ route' = [route EXCEPT ![r] = 1]
      /\ sent' = [sent EXCEPT ![r] = {}] /\ usages' = [usages EXCEPT ![r] = 0]
      /\ UNCHANGED <<now, ask, since, window, calls, peak>>
  BY DEF Ends, Goes, doing
<1>2. TypeOK /\ RowsOf(r) = {}
  BY <1>1 DEF IInv, Orderly, Recorded, InFlight
<1>3. /\ rows' \subseteq [of : Requests, outcome : {"success", "error", "limited"},
                          at : Nat, rounds : Nat]
      /\ \A x \in rows : x \in rows'
      /\ \A x \in rows' : x \in rows \/ x.of = r
  <2>1. calls[r] \in Nat /\ 0 \in Nat
    BY <1>2 DEF TypeOK
  <2> QED BY <1>2, <2>1, RowTypes DEF TypeOK
<1>4. Alone(r)
  BY <1>1, <1>2, <1>3 DEF Alone, TypeOK
<1>5. TypeOK'
  BY <1>1, <1>2, <1>3 DEF TypeOK, Names
<1>6. Orderly(r)'
  <2>1. pc'[r] = to /\ sent'[r] = {} /\ calls'[r] = calls[r]
    BY <1>1, <1>2 DEF TypeOK
  <2>2. Chunks(r)' /\ Charged(r)'
    BY <2>1 DEF Chunks, Charged, Ended
  <2>3. Recorded(r)'
    <3>1. (r \notin InFlight)' /\ to # "idle"
      BY <2>1 DEF InFlight
    <3>2. CASE to # "done" /\ rows' = rows
      BY <1>2, <2>1, <3>1, <3>2, NoRow DEF Recorded, Ended
    <3>3. CASE to # "done" /\ \E o \in {"error", "limited"} : Records(r, o, 0)
      <4>1. \E x \in RowsOf(r)' : RowsOf(r)' = {x} /\ x.outcome \in {"error", "limited"}
        BY <1>2, <3>3, ItsRow
      <4> QED BY <2>1, <3>1, <3>3, <4>1 DEF Recorded, Ended
    <3>4. CASE to = "done" /\ Records(r, "success", calls[r])
      <4>1. \E x \in RowsOf(r)' :
              RowsOf(r)' = {x} /\ x.outcome = "success" /\ x.rounds = calls[r]
        BY <1>2, <3>4, ItsRow
      <4> QED BY <2>1, <3>1, <3>4, <4>1 DEF Recorded, Ended
    <3> QED BY <3>2, <3>3, <3>4
  <2> QED BY <2>2, <2>3 DEF Orderly
<1> QED BY <1>4, <1>5, <1>6, OneStep

\* A request that goes on, writing no row.
Onward(r, to) ==
  /\ pc[r] \notin Ended \/ pc[r] = "idle"
  /\ to \in Names \ Ended
  /\ pc' = [pc EXCEPT ![r] = to]
  /\ \A q \in Requests \ {r} :
       /\ sent'[q] = sent[q] /\ route'[q] = route[q]
       /\ calls'[q] = calls[q] /\ usages'[q] = usages[q]
  /\ UNCHANGED rows

LEMMA OnwardStep ==
  ASSUME IInv, NEW r \in Requests, NEW to, Onward(r, to), TypeOK',
         (Chunks(r) /\ Charged(r))'
  PROVE  IInv'
<1>1. TypeOK /\ RowsOf(r) = {}
  BY DEF IInv, Orderly, Recorded, InFlight, Onward
<1>2. Alone(r)
  BY <1>1 DEF Alone, Onward, TypeOK
<1>3. pc'[r] = to /\ to \notin Ended
  BY <1>1 DEF Onward, TypeOK
<1>4. Recorded(r)'
  BY <1>1, <1>3, NoRow DEF Onward, Recorded, Ended
<1> QED BY <1>2, <1>4, OneStep DEF Orderly
-----------------------------------------------------------------------------
(* The steps of a request. *)

\* Step(r, from, to): only the place changes.
LEMMA StepStep ==
  ASSUME IInv, NEW r \in Requests, NEW from \in Names \ Ended, NEW to \in Names \ Ended,
         Step(r, from, to),
         from \notin {"serve", "replay"}
           => \/ from \in {"custom", "access"} /\ to \in {"success", "access", "prepare", "error", "broken"}
              \/ to = "error" /\ sent[r] = {},
         from = "serve" => to = "broken",
         from = "replay" => to = "settle"
  PROVE  IInv'
<1>1. /\ pc' = [pc EXCEPT ![r] = to] /\ pc[r] = from
      /\ UNCHANGED <<now, rows, ask, since, window, plan, route, sent, calls, usages, peak>>
  BY DEF Step, Goes, time, doing, using
<1>2. TypeOK /\ Chunks(r) /\ Charged(r)
  BY DEF IInv, Orderly
<1>3. TypeOK'
  BY <1>1, <1>2 DEF TypeOK, Names
<1>4. Onward(r, to)
  BY <1>1 DEF Onward
<1>5. pc'[r] = to /\ sent'[r] = sent[r] /\ calls'[r] = calls[r] /\ usages'[r] = usages[r]
  BY <1>1, <1>2 DEF TypeOK
<1>6. Chunks(r)'
  <2>1. route[r] \in Nat /\ 0 \in Nat
    BY <1>2 DEF TypeOK
  <2> QED BY <1>1, <1>2, <1>5, <2>1 DEF Chunks
<1>7. Charged(r)'
  BY <1>1, <1>2, <1>5 DEF Charged
<1> QED BY <1>3, <1>4, <1>6, <1>7, OnwardStep

LEMMA ArriveStep ==
  ASSUME IInv, NEW r \in Requests, Arrive(r), Cardinality(InFlight) \in Nat PROVE IInv'
<1>1. /\ pc' = [pc EXCEPT ![r] = "limits"] /\ pc[r] = "idle"
      /\ since' = [since EXCEPT ![r] = now] /\ peak' \in Nat
      /\ UNCHANGED <<now, rows, ask, window, plan, route, sent, calls, usages>>
  BY DEF Arrive, Goes, time, using, IInv, TypeOK
<1>2. TypeOK /\ Chunks(r) /\ Charged(r)
  BY DEF IInv, Orderly
<1>3. TypeOK'
  BY <1>1, <1>2 DEF TypeOK
<1>4. Onward(r, "limits")
  BY <1>1 DEF Onward, Names, Ended
<1>5. (Chunks(r) /\ Charged(r))'
  BY <1>1, <1>2 DEF Chunks, Charged, TypeOK
<1> QED BY <1>3, <1>4, <1>5, OnwardStep

LEMMA CheckStep ==
  ASSUME IInv, NEW r \in Requests, Check(r) PROVE IInv'
<1>1. /\ pc[r] = "limits"
      /\ UNCHANGED <<now, rows, ask, plan, route, sent, calls, usages, peak>>
  BY DEF Check, time, using
<1>2. TypeOK /\ Chunks(r) /\ Charged(r)
  BY DEF IInv, Orderly
<1>3. \/ /\ pc' = [pc EXCEPT ![r] = "limited"]
         /\ window' = [window EXCEPT ![r] = 1] /\ since' = [since EXCEPT ![r] = 0]
      \/ pc' = pc /\ since' = since /\ window' = [window EXCEPT ![r] = @ + 1]
  BY DEF Check, Goes
<1>4. TypeOK'
  <2>1. since' \in [Requests -> Nat]
    <3>1. since \in [Requests -> Nat] /\ 0 \in Nat
      BY <1>2 DEF TypeOK
    <3>2. since' = since \/ since' = [since EXCEPT ![r] = 0]
      BY <1>3
    <3> QED BY <3>1, <3>2
  <2>3. window' \in [Requests -> Nat \ {0}]
    <3>1. window \in [Requests -> Nat \ {0}] /\ window[r] + 1 \in Nat \ {0} /\ 1 \in Nat \ {0}
      BY <1>2 DEF TypeOK
    <3>2. \E n \in Nat \ {0} : window' = [window EXCEPT ![r] = n]
      BY <1>3, <3>1
    <3> QED BY <3>1, <3>2
  <2>2. pc' \in [Requests -> Ended \cup {"limits", "limited"} \cup Passed]
    BY <1>2, <1>3 DEF TypeOK
  <2> QED BY <1>1, <1>2, <2>1, <2>2, <2>3 DEF TypeOK
<1>5. \E to \in {"limits", "limited"} : Onward(r, to)
  BY <1>1, <1>2, <1>3 DEF Onward, Names, Ended, TypeOK
<1>6. (Chunks(r) /\ Charged(r))'
  BY <1>1, <1>2, <1>3 DEF Chunks, Charged, TypeOK
<1> QED BY <1>4, <1>5, <1>6, OnwardStep

LEMMA ResolveStep ==
  ASSUME IInv, NEW r \in Requests, Resolve(r) PROVE IInv'
<1>1. /\ pc[r] = "limits"
      /\ \E to \in {"success", "custom", "access"} : pc' = [pc EXCEPT ![r] = to]
      /\ window' = [window EXCEPT ![r] = 1] /\ since' = [since EXCEPT ![r] = 0]
      /\ UNCHANGED <<now, rows, ask, plan, route, sent, calls, usages, peak>>
  BY DEF Resolve, Goes, time, using
<1>2. TypeOK /\ Chunks(r) /\ Charged(r)
  BY DEF IInv, Orderly
<1>3. TypeOK'
  BY <1>1, <1>2 DEF TypeOK, Passed
<1>4. \E to \in {"success", "custom", "access"} : Onward(r, to)
  BY <1>1 DEF Onward, Names, Ended, Passed
<1>5. (Chunks(r) /\ Charged(r))'
  BY <1>1, <1>2 DEF Chunks, Charged, TypeOK
<1> QED BY <1>3, <1>4, <1>5, OnwardStep

\* A provider is found, or it is not.
LEMMA FindsStep ==
  ASSUME IInv, NEW r \in Requests, NEW from, NEW to, Finds(r, from, to),
         \/ from = "prepare" /\ to = "quote"
         \/ from = "find" /\ to = "run"
         \/ from = "again" /\ to = "serve"
  PROVE  IInv'
<1>0. /\ pc[r] = from /\ TypeOK /\ Chunks(r) /\ Charged(r)
      /\ from \in Names \ Ended /\ to \in Names \ Ended /\ "error" \in Names \ Ended
  BY DEF Finds, Goes, Step, IInv, Orderly, Names, Passed, Ended
<1>1. CASE Goes(r, from, to) /\ \E p \in Plans : Uses(r, p)
  <2>1. /\ pc' = [pc EXCEPT ![r] = to]
        /\ \E p \in Plans : plan' = [plan EXCEPT ![r] = p]
        /\ route' = [route EXCEPT ![r] = 1]
        /\ UNCHANGED <<now, rows, ask, since, window, sent, calls, usages, peak>>
    BY <1>1 DEF Goes, Uses, time, doing
  <2>2. TypeOK'
    BY <1>0, <2>1 DEF TypeOK, Names
  <2>3. Onward(r, to)
    BY <1>0, <2>1, <2>2 DEF Onward, TypeOK
  <2>4. (Chunks(r) /\ Charged(r))'
    BY <1>0, <2>1 DEF Chunks, Charged, TypeOK
  <2> QED BY <2>2, <2>3, <2>4, OnwardStep
<1>2. CASE Step(r, from, "error")
  <2>1. sent[r] = {}
    BY <1>0 DEF Chunks
  <2> QED BY <1>0, <1>2, <2>1, StepStep
<1> QED BY <1>1, <1>2 DEF Finds

LEMMA NextRouteStep ==
  ASSUME IInv, NEW r \in Requests, pc[r] \in {"run", "serve"}, sent[r] = {}, NextRoute(r)
  PROVE  IInv'
<1>1. /\ pc' = pc /\ route' = [route EXCEPT ![r] = @ + 1]
      /\ UNCHANGED <<now, rows, ask, since, window, plan, sent, calls, usages, peak>>
  BY DEF NextRoute, time, doing
<1>2. TypeOK /\ Chunks(r) /\ Charged(r)
  BY DEF IInv, Orderly
<1>3. TypeOK'
  BY <1>1, <1>2 DEF TypeOK
<1>4. Onward(r, pc[r])
  BY <1>1, <1>2 DEF Onward, TypeOK, Names, Passed, Ended
<1>5. (Chunks(r) /\ Charged(r))'
  BY <1>1, <1>2 DEF Chunks, Charged
<1> QED BY <1>3, <1>4, <1>5, OnwardStep

LEMMA FailsStep ==
  ASSUME IInv, NEW r \in Requests, NEW from \in Names \ Ended,
         Fails(r, from, "failed") \/ Fails(r, from, "gone")
  PROVE  IInv'
<1>1. "failed" \in Ended \ {"idle"} /\ "gone" \in Ended \ {"idle"}
  BY DEF Ended
<1> QED BY <1>1, EndsStep DEF Fails

LEMMA RunFailsStep ==
  ASSUME IInv, NEW r \in Requests, RunFails(r) PROVE IInv'
<1>1. sent[r] = {} /\ "run" \in Names \ Ended /\ pc[r] = "run"
  BY DEF RunFails, IInv, Orderly, Chunks, Names, Passed, Ended
<1> QED BY <1>1, NextRouteStep, FailsStep DEF RunFails

LEMMA GetsStep ==
  ASSUME IInv, NEW r \in Requests, NEW to, NEW more, Gets(r, to, more),
         \/ more = 0 /\ to \in {"replay", "settle"}
         \/ more = 1 /\ to \in {"again", "find"}
  PROVE  IInv'
<1>1. /\ pc' = [pc EXCEPT ![r] = to] /\ pc[r] = "run"
      /\ calls' = [calls EXCEPT ![r] = @ + 1]
      /\ usages' = [usages EXCEPT ![r] = @ + more]
      /\ plan' = [plan EXCEPT ![r] = << >>] /\ route' = [route EXCEPT ![r] = 1]
      /\ UNCHANGED <<now, rows, ask, since, window, sent, peak>>
  BY DEF Gets, Goes, time, doing
<1>2. TypeOK /\ Chunks(r) /\ Charged(r)
  BY DEF IInv, Orderly
<1>3. TypeOK'
  <2>1. /\ calls' \in [Requests -> Nat] /\ usages' \in [Requests -> Nat]
        /\ route' \in [Requests -> Nat \ {0}]
    BY <1>1, <1>2 DEF TypeOK
  <2>2. pc' \in [Requests -> Ended \cup {"limits", "limited"} \cup Passed]
    BY <1>1, <1>2 DEF TypeOK, Passed
  <2>3. plan' \in [Requests -> Plans \cup {<< >>}]
    BY <1>1, <1>2 DEF TypeOK
  <2> QED BY <1>1, <1>2, <2>1, <2>2, <2>3 DEF TypeOK
<1>4. Onward(r, to)
  BY <1>1, <1>2 DEF Onward, Names, Ended, Passed, TypeOK
<1>5. pc'[r] = to /\ sent'[r] = {} /\ calls'[r] = calls[r] + 1 /\ usages'[r] = usages[r] + more
  BY <1>1, <1>2 DEF Chunks, TypeOK
<1>6. Chunks(r)' /\ Charged(r)'
  <2>1. calls[r] = usages[r] /\ usages[r] \in Nat
    BY <1>1, <1>2 DEF Charged, TypeOK
  <2>2. Chunks(r)'
    BY <1>5 DEF Chunks
  <2>3. Charged(r)'
    BY <1>5, <2>1 DEF Charged
  <2> QED BY <2>2, <2>3
<1> QED BY <1>3, <1>4, <1>6, OnwardStep

LEMMA SendsStep ==
  ASSUME IInv, NEW r \in Requests, NEW n, Sends(r, n),
         \/ pc[r] = "serve" /\ n = route[r]
         \/ pc[r] = "replay" /\ n = 0
  PROVE  IInv'
<1>1. /\ sent' = [sent EXCEPT ![r] = @ \cup {n}]
      /\ UNCHANGED <<now, rows, pc, ask, since, window, plan, route, calls, usages, peak>>
  BY DEF Sends, time, doing
<1>2. TypeOK /\ Chunks(r) /\ Charged(r)
  BY DEF IInv, Orderly
<1>3. TypeOK'
  BY <1>1, <1>2 DEF TypeOK
<1>4. Onward(r, pc[r])
  BY <1>1, <1>2 DEF Onward, TypeOK, Names, Passed, Ended
<1>5. (Chunks(r) /\ Charged(r))'
  BY <1>1, <1>2 DEF Chunks, Charged, TypeOK
<1> QED BY <1>3, <1>4, <1>5, OnwardStep

LEMMA StreamBreaksStep ==
  ASSUME IInv, NEW r \in Requests, StreamBreaks(r) PROVE IInv'
<1>1. pc[r] = "serve" /\ Chunks(r) /\ "serve" \in Names \ Ended /\ "broken" \in Names \ Ended
  BY DEF StreamBreaks, IInv, Orderly, Names, Passed, Ended
<1>2. CASE route[r] \notin sent[r] /\ NextRoute(r)
  <2>1. sent[r] = {}
    BY <1>1, <1>2 DEF Chunks
  <2> QED BY <1>1, <1>2, <2>1, NextRouteStep
<1>3. CASE Step(r, "serve", "broken")
  BY <1>1, <1>3, StepStep
<1> QED BY <1>2, <1>3 DEF StreamBreaks

LEMMA StreamEndsStep ==
  ASSUME IInv, NEW r \in Requests, StreamEnds(r) PROVE IInv'
<1>1. /\ pc' = [pc EXCEPT ![r] = "settle"] /\ pc[r] = "serve"
      /\ calls' = [calls EXCEPT ![r] = @ + 1]
      /\ UNCHANGED <<now, rows, ask, since, window, plan, route, sent, usages, peak>>
  BY DEF StreamEnds, Goes, time, doing
<1>2. TypeOK /\ Chunks(r) /\ Charged(r)
  BY DEF IInv, Orderly
<1>3. TypeOK'
  BY <1>1, <1>2 DEF TypeOK, Passed
<1>4. Onward(r, "settle")
  BY <1>1, <1>2 DEF Onward, Names, Ended, Passed, TypeOK
<1>5. (Chunks(r) /\ Charged(r))'
  <2>1. route[r] \in Nat
    BY <1>2 DEF TypeOK
  <2> QED BY <1>1, <1>2, <2>1 DEF Chunks, Charged, TypeOK
<1> QED BY <1>3, <1>4, <1>5, OnwardStep

LEMMA TickStep ==
  ASSUME IInv, Tick PROVE IInv'
<1>1. now' = now + 1 /\ UNCHANGED <<rows, pc, ask, since, window, plan, route, sent, calls, usages, peak>>
  BY DEF Tick, doing, using
<1>2. TypeOK'
  BY <1>1 DEF IInv, TypeOK
<1>3. ASSUME NEW r \in Requests PROVE Orderly(r)'
  BY <1>1 DEF IInv, Orderly, Chunks, Charged, Recorded, RowsOf, InFlight
<1> QED BY <1>2, <1>3 DEF IInv

\* The steps that end a request.
LEMMA EndSteps ==
  ASSUME IInv, NEW r \in Requests,
         Refuse(r) \/ CustomRaises(r) \/ Leave(r) \/ Success(r) \/ Settle(r) \/ Error(r)
  PROVE  IInv'
<1>1. /\ Names \ Ended = {"limits", "limited"} \cup Passed
      /\ {"refused", "failed", "gone", "done"} \subseteq Ended \ {"idle"}
      /\ Ended \subseteq Names
  BY DEF Names, Ended, Passed
<1>2. Charged(r)
  BY DEF IInv, Orderly
<1>3. CASE Refuse(r)
  BY <1>1, <1>3, EndsStep DEF Refuse
<1>4. CASE CustomRaises(r)
  BY <1>1, <1>4, FailsStep DEF CustomRaises, Passed
<1>5. CASE Leave(r)
  <2>1. pc[r] \in Names \ Ended
    BY <1>1, <1>5 DEF Leave, Passed
  <2> QED BY <1>5, <2>1, FailsStep DEF Leave
<1>6. CASE Success(r)
  <2>1. pc[r] = "success" /\ calls[r] = 0
    BY <1>2, <1>6 DEF Success, Ends, Goes, Charged
  <2>2. "success" \in Names /\ "success" \notin Ended /\ "done" \in Ended \ {"idle"}
    BY DEF Names, Ended, Passed
  <2>3. Ends(r, "success", "done") /\ Records(r, "success", calls[r])
    BY <1>6, <2>1 DEF Success
  <2> QED BY <2>2, <2>3, EndsStep
<1>7. CASE Settle(r)
  <2>1. pc[r] = "settle" /\ calls[r] = usages[r] + 1
    BY <1>2, <1>7 DEF Settle, Ends, Goes, Charged
  <2>2. "settle" \in Names /\ "settle" \notin Ended /\ "done" \in Ended \ {"idle"}
    BY DEF Names, Ended, Passed
  <2>3. Ends(r, "settle", "done") /\ Records(r, "success", calls[r])
    BY <1>7, <2>1 DEF Settle
  <2> QED BY <2>2, <2>3, EndsStep
<1>8. CASE Error(r)
  <2>1. PICK from \in {"error", "broken"} : Ends(r, from, "failed") /\ Records(r, "error", 0)
    BY <1>8 DEF Error
  <2>2. from \in Names /\ from \notin Ended /\ "failed" \in Ended \ {"idle"}
    BY DEF Names, Ended, Passed
  <2> QED BY <2>1, <2>2, EndsStep
<1> QED BY <1>3, <1>4, <1>5, <1>6, <1>7, <1>8

\* The steps on the way to a provider, and with it.
LEMMA WaySteps ==
  ASSUME IInv, NEW r \in Requests,
         \/ CustomAnswers(r) \/ CustomFails(r) \/ Access(r) \/ Prepare(r) \/ Quote(r)
         \/ Find(r) \/ Again(r) \/ ReplayEnds(r)
  PROVE  IInv'
<1>1. /\ Passed \subseteq Names \ Ended
      /\ Passed = {"custom", "access", "prepare", "quote", "find", "run", "again",
                   "serve", "replay", "error", "broken", "success", "settle"}
  BY DEF Names, Ended, Passed
<1>2. CASE CustomAnswers(r) \/ CustomFails(r) \/ Access(r)
  <2>1. \E from \in {"custom", "access"}, to \in {"success", "prepare", "error", "broken"} :
          Step(r, from, to)
    BY <1>2 DEF CustomAnswers, CustomFails, Access
  <2> QED BY <1>1, <2>1, StepStep
<1>3. CASE Prepare(r) \/ Find(r) \/ Again(r)
  BY <1>3, FindsStep DEF Prepare, Find, Again
<1>4. CASE ReplayEnds(r)
  BY <1>1, <1>4, StepStep DEF ReplayEnds
<1>5. CASE Quote(r)
  <2>1. CASE Fails(r, "quote", "failed")
    BY <1>1, <2>1, FailsStep
  <2>2. CASE \E to \in {"serve", "find"} : Step(r, "quote", to)
    <3>1. PICK to \in {"serve", "find"} : Step(r, "quote", to)
      BY <2>2
    <3>2. /\ pc' = [pc EXCEPT ![r] = to] /\ pc[r] = "quote"
          /\ UNCHANGED <<now, rows, ask, since, window, plan, route, sent, calls, usages, peak>>
      BY <3>1 DEF Step, Goes, time, doing, using
    <3>3. TypeOK /\ Chunks(r) /\ Charged(r)
      BY DEF IInv, Orderly
    <3>4. TypeOK'
      BY <3>2, <3>3 DEF TypeOK, Passed
    <3>5. Onward(r, to)
      BY <1>1, <3>2 DEF Onward, Names, Ended
    <3>6. (Chunks(r) /\ Charged(r))'
      BY <3>2, <3>3 DEF Chunks, Charged, TypeOK
    <3> QED BY <3>4, <3>5, <3>6, OnwardStep
  <2> QED BY <1>5, <2>1, <2>2 DEF Quote
<1> QED BY <1>2, <1>3, <1>4, <1>5

LEMMA AnswerSteps ==
  ASSUME IInv, NEW r \in Requests,
         Result(r) \/ Tool(r) \/ Emit(r) \/ Replay(r)
  PROVE  IInv'
BY GetsStep, SendsStep DEF Result, Tool, Emit, Replay
-----------------------------------------------------------------------------
(* The limits. *)

Limited == {k \in DOMAIN Limits : Limits[k].most # NoLimit}

\* The rows that fill window k now, and those up to a time t.
Recent(k) == {x \in Served : now - Limits[k].ticks <= x.at}
Upto(k, t) == {x \in Served : t - Limits[k].ticks <= x.at /\ x.at <= t}

\* The requests that have passed window k and have no row yet.
Past(k) ==
  {r \in Requests : pc[r] \in Passed \/ (pc[r] = "limits" /\ window[r] > k)}

Finite == IsFiniteSet(rows) /\ IsFiniteSet(InFlight) /\ Cardinality(InFlight) <= peak
Timely ==
  /\ \A x \in rows : x.at <= now
  /\ \A r \in Requests : since[r] <= now
Fresh == \A r \in Requests : pc[r] = "idle" => window[r] = 1
Room(k) == Cardinality(Recent(k)) + Cardinality(Past(k)) <= Permitted(Limits[k])
Held(k) == \A t \in 0..now : Cardinality(Upto(k, t)) <= Permitted(Limits[k])

LInv == Finite /\ Timely /\ Fresh /\ \A k \in Limited : Room(k) /\ Held(k)

LEMMA LimitTypes ==
  ASSUME NEW k \in Limited
  PROVE  /\ Limits[k].ticks \in Nat /\ Limits[k].most \in Nat
         /\ k \in Nat /\ k <= Len(Limits) /\ k >= 1 /\ Len(Limits) \in Nat
<1>1. /\ Len(Limits) \in Nat /\ DOMAIN Limits = 1..Len(Limits)
      /\ \A i \in DOMAIN Limits : Limits[i] \in [ticks : Nat, most : Nat \cup {NoLimit}]
  <2> DEFINE Windows == [ticks : Nat, most : Nat \cup {NoLimit}]
  <2>1. Limits \in Seq(Windows)
    BY LimitsAssumption
  <2> HIDE DEF Windows
  <2>2. Limits \in [1..Len(Limits) -> Windows] /\ Len(Limits) \in Nat
    BY <2>1
  <2>3. DOMAIN Limits = 1..Len(Limits) /\ \A i \in DOMAIN Limits : Limits[i] \in Windows
    BY <2>2
  <2> QED BY <2>2, <2>3 DEF Windows
<1>2. k \in 1..Len(Limits) /\ Limits[k] \in [ticks : Nat, most : Nat \cup {NoLimit}]
  BY <1>1 DEF Limited
<1>3. Limits[k].ticks \in Nat /\ Limits[k].most \in Nat
  BY <1>2 DEF Limited
<1> QED BY <1>1, <1>2, <1>3

LEMMA Counts ==
  ASSUME NEW S, NEW T, IsFiniteSet(T), S \subseteq T
  PROVE  /\ IsFiniteSet(S) /\ Cardinality(S) \in Nat /\ Cardinality(T) \in Nat
         /\ Cardinality(S) <= Cardinality(T)
BY FS_Subset, FS_CardinalityType

\* The sets that are counted are finite.
LEMMA Countable ==
  ASSUME TypeOK, Finite, NEW k
  PROVE  /\ Served \subseteq rows /\ IsFiniteSet(Recent(k)) /\ Cardinality(Recent(k)) \in Nat
         /\ \A t : IsFiniteSet(Upto(k, t)) /\ Cardinality(Upto(k, t)) \in Nat
         /\ Past(k) \subseteq InFlight /\ IsFiniteSet(Past(k)) /\ Cardinality(Past(k)) \in Nat
         /\ Cardinality(Past(k)) <= Cardinality(InFlight) /\ Cardinality(InFlight) \in Nat
<1>1. Past(k) \subseteq InFlight
  BY DEF Past, InFlight, Passed, Ended
<1>2. Recent(k) \subseteq rows /\ Served \subseteq rows /\ \A t : Upto(k, t) \subseteq rows
  BY DEF Recent, Served, Upto
<1> QED BY <1>1, <1>2, Counts DEF Finite

LEMMA PermittedGrows ==
  ASSUME TypeOK, NEW k \in Limited, peak' \in Nat, peak <= peak'
  PROVE  /\ Permitted(Limits[k]) \in Int /\ Permitted(Limits[k])' \in Int
         /\ Permitted(Limits[k]) <= Permitted(Limits[k])'
BY LimitTypes DEF Permitted, TypeOK

\* If no row is written and the time stays, the windows hold what they held; it is
\* enough that nobody passes one.
LEMMA NobodyPasses ==
  ASSUME TypeOK, LInv, TypeOK', rows' = rows, now' = now, Finite', peak <= peak',
         \A r \in Requests : since'[r] <= now', Fresh',
         NEW k \in Limited, Past(k)' \subseteq Past(k)
  PROVE  Room(k)' /\ Held(k)'
<1>1. Recent(k)' = Recent(k) /\ \A t : Upto(k, t)' = Upto(k, t)
  BY DEF Recent, Upto, Served
<1>2. Cardinality(Past(k)') <= Cardinality(Past(k)) /\ Cardinality(Past(k)') \in Nat
  BY Countable, Counts DEF LInv
<1>3. Room(k) /\ Held(k)
  BY DEF LInv
<1>4. peak' \in Nat
  BY DEF TypeOK
<1>5. Permitted(Limits[k]) \in Int /\ Permitted(Limits[k])' \in Int /\ Permitted(Limits[k]) <= Permitted(Limits[k])'
  BY <1>4, PermittedGrows
<1>6. Room(k)'
  <2>1. Cardinality(Recent(k)) \in Nat /\ Cardinality(Past(k)) \in Nat
    BY Countable DEF LInv
  <2> QED BY <1>1, <1>2, <1>3, <1>5, <2>1 DEF Room
<1>7. Held(k)'
  <2>1. \A t : Cardinality(Upto(k, t)) \in Nat
    BY Countable DEF LInv
  <2> QED BY <1>1, <1>3, <1>5, <2>1 DEF Held
<1> QED BY <1>6, <1>7

\* Who is on the way, or stays, adds to no count.
LEMMA FewerKeep ==
  ASSUME IInv, LInv, IInv', rows' = rows, now' = now, peak' = peak,
         InFlight' \subseteq InFlight, \A r \in Requests : since'[r] <= now', Fresh',
         \A k \in Limited : Past(k)' \subseteq Past(k)
  PROVE  LInv'
<1>1. Finite'
  <2>1. /\ IsFiniteSet(InFlight') /\ Cardinality(InFlight') \in Nat /\ Cardinality(InFlight) \in Nat
        /\ Cardinality(InFlight') <= Cardinality(InFlight)
    BY Counts DEF LInv, Finite
  <2>2. peak \in Nat
    BY DEF IInv, TypeOK
  <2> QED BY <2>1, <2>2 DEF LInv, Finite
<1>2. Timely'
  BY DEF LInv, Timely
<1>3. TypeOK /\ TypeOK' /\ peak <= peak'
  <2>1. TypeOK /\ TypeOK'
    BY DEF IInv
  <2>2. peak \in Nat
    BY <2>1 DEF TypeOK
  <2> QED BY <2>1, <2>2
<1>4. \A k \in Limited : Room(k)' /\ Held(k)'
  BY <1>1, <1>3, NobodyPasses
<1> QED BY <1>1, <1>2, <1>4 DEF LInv

\* A request that has passed the limits goes on, and may end without a row.
LEMMA PassedMoves ==
  ASSUME IInv, LInv, IInv', NEW r \in Requests, NEW to \in Names \ {"idle"},
         pc' = [pc EXCEPT ![r] = to],
         pc[r] \in Passed,
         UNCHANGED <<now, rows, since, window, peak>>
  PROVE  LInv'
<1>1. TypeOK
  BY DEF IInv
<1>2. InFlight' \subseteq InFlight
  BY <1>1 DEF InFlight, Passed, Ended, TypeOK
<1>3. \A k \in Limited : Past(k)' \subseteq Past(k)
  BY <1>1 DEF Past, TypeOK
<1>4. Fresh' /\ \A q \in Requests : since'[q] <= now'
  BY <1>1 DEF LInv, Fresh, Timely, TypeOK
<1> QED BY <1>2, <1>3, <1>4, FewerKeep

\* An answer or a chunk leaves everybody where he is.
LEMMA NobodyMoves ==
  ASSUME IInv, LInv, IInv', UNCHANGED <<now, rows, pc, since, window, peak>>
  PROVE  LInv'
<1>1. InFlight' = InFlight /\ \A k \in Limited : Past(k)' = Past(k)
  BY DEF InFlight, Past
<1>2. Fresh' /\ \A q \in Requests : since'[q] <= now'
  BY DEF LInv, Fresh, Timely
<1> QED BY <1>1, <1>2, FewerKeep

LEMMA ArriveLimit ==
  ASSUME IInv, LInv, IInv', NEW r \in Requests, Arrive(r) PROVE LInv'
<1>1. /\ pc' = [pc EXCEPT ![r] = "limits"] /\ pc[r] = "idle"
      /\ since' = [since EXCEPT ![r] = now]
      /\ peak' = IF Cardinality(InFlight) >= peak THEN Cardinality(InFlight) + 1 ELSE peak
      /\ UNCHANGED <<now, rows, window>>
  BY DEF Arrive, Goes, time
<1>2. TypeOK /\ TypeOK'
  BY DEF IInv
<1>3. InFlight' = InFlight \cup {r} /\ r \notin InFlight
  BY <1>1, <1>2 DEF InFlight, Ended, TypeOK
<1>4. Cardinality(InFlight) \in Nat /\ Cardinality(InFlight) <= peak /\ peak \in Nat
  BY <1>2, Countable DEF LInv, Finite, TypeOK
<1>5. Finite' /\ peak <= peak'
  <2>1. IsFiniteSet(InFlight') /\ Cardinality(InFlight') = Cardinality(InFlight) + 1
    BY <1>3, FS_AddElement DEF LInv, Finite
  <2> QED BY <1>1, <1>4, <2>1 DEF LInv, Finite
<1>6. Fresh' /\ Timely'
  BY <1>1, <1>2 DEF LInv, Fresh, Timely, TypeOK
<1>7. \A k \in Limited : Past(k)' \subseteq Past(k)
  <2> SUFFICES ASSUME NEW k \in Limited PROVE Past(k)' \subseteq Past(k)
    OBVIOUS
  <2>1. window[r] = 1 /\ k >= 1 /\ k \in Nat
    BY <1>1, LimitTypes DEF LInv, Fresh
  <2>2. pc'[r] \notin Passed
    BY <1>1, <1>2 DEF Passed, TypeOK
  <2> QED BY <1>1, <1>2, <2>1, <2>2 DEF Past, TypeOK
<1>8. \A k \in Limited : Room(k)' /\ Held(k)'
  BY <1>1, <1>2, <1>5, <1>6, <1>7, NobodyPasses DEF Timely
<1> QED BY <1>5, <1>6, <1>8 DEF LInv

\* A request that passes window k finds fewer rows than its limit; of those in flight
\* with it there are peak at most.
LEMMA PassRoom ==
  ASSUME TypeOK, LInv, NEW r \in Requests, NEW k \in Limited, ~Exceeded(r, Limits[k]),
         TypeOK', Finite', rows' = rows, now' = now, peak' = peak
  PROVE  Room(k)'
<1>1. Limits[k].most \in Nat /\ Limits[k].ticks \in Nat /\ Limits[k].most # NoLimit
  BY LimitTypes DEF Limited
<1>2. Recent(k) \subseteq InWindow(r, Limits[k]) /\ InWindow(r, Limits[k]) \subseteq rows
  <2>1. since[r] <= now /\ since[r] \in Nat /\ now \in Nat
    BY DEF LInv, Timely, TypeOK
  <2>2. \A x \in rows : x.at \in Nat /\ x.outcome \in CountedOutcomes
    BY DEF TypeOK, CountedOutcomes
  <2> QED BY <1>1, <2>1, <2>2 DEF Recent, Served, InWindow
<1>3. Cardinality(Recent(k)) <= Limits[k].most - 1 /\ Limits[k].most # 0
  <2>1. IsFiniteSet(InWindow(r, Limits[k]))
    BY <1>2, Counts DEF LInv, Finite
  <2>2. /\ Cardinality(Recent(k)) <= Cardinality(InWindow(r, Limits[k]))
        /\ Cardinality(Recent(k)) \in Nat /\ Cardinality(InWindow(r, Limits[k])) \in Nat
    BY <1>2, <2>1, Counts
  <2>3. ~(Cardinality(InWindow(r, Limits[k])) >= Limits[k].most)
    BY <1>1 DEF Exceeded
  <2> QED BY <1>1, <2>2, <2>3
<1>4. Recent(k)' = Recent(k)
  BY DEF Recent, Served
<1>5. Cardinality(Past(k)') <= peak' /\ Cardinality(Past(k)') \in Nat
  <2>1. /\ Past(k)' \subseteq InFlight' /\ IsFiniteSet(InFlight') /\ Cardinality(InFlight') <= peak'
    BY DEF Past, InFlight, Passed, Ended, Finite
  <2>2. peak' \in Nat
    BY DEF TypeOK
  <2> QED BY <2>1, <2>2, Counts
<1>6. Cardinality(Recent(k)) \in Nat
  BY Countable DEF LInv
<1>7. peak' \in Nat
  BY DEF TypeOK
<1> QED BY <1>1, <1>3, <1>4, <1>5, <1>6, <1>7 DEF Room, Permitted

LEMMA CheckLimit ==
  ASSUME IInv, LInv, IInv', NEW r \in Requests, Check(r) PROVE LInv'
<1>1. /\ pc[r] = "limits" /\ window[r] <= Len(Limits)
      /\ UNCHANGED <<now, rows, peak>> /\ TypeOK /\ TypeOK'
  BY DEF Check, time, IInv
<1>2. CASE /\ pc' = [pc EXCEPT ![r] = "limited"]
           /\ window' = [window EXCEPT ![r] = 1] /\ since' = [since EXCEPT ![r] = 0]
  <2>1. InFlight' \subseteq InFlight
    BY <1>1, <1>2 DEF InFlight, Ended, TypeOK
  <2>2. \A k \in Limited : Past(k)' \subseteq Past(k)
    BY <1>1, <1>2 DEF Past, Passed, TypeOK
  <2>3. Fresh'
    BY <1>1, <1>2 DEF LInv, Fresh, TypeOK
  <2>4. \A q \in Requests : since'[q] <= now'
    <3>1. 0 <= now
      BY <1>1 DEF TypeOK
    <3> QED BY <1>1, <1>2, <3>1 DEF LInv, Timely, TypeOK
  <2> QED BY <1>1, <2>1, <2>2, <2>3, <2>4, FewerKeep
<1>3. CASE /\ ~Exceeded(r, Limits[window[r]])
           /\ pc' = pc /\ since' = since /\ window' = [window EXCEPT ![r] = @ + 1]
  <2>1. InFlight' = InFlight
    BY <1>3 DEF InFlight
  <2>2. Finite' /\ Timely' /\ Fresh'
    BY <1>1, <1>3, <2>1 DEF LInv, Finite, Timely, Fresh, TypeOK
  <2>3. ASSUME NEW k \in Limited, k = window[r] PROVE Room(k)'
    BY <1>1, <1>3, <2>2, <2>3, PassRoom
  <2>4. ASSUME NEW k \in Limited, k # window[r] PROVE Past(k)' \subseteq Past(k)
    <3>1. window[r] \in Nat /\ k \in Nat
      BY <1>1, LimitTypes DEF TypeOK
    <3> QED BY <1>1, <1>3, <2>4, <3>1 DEF Past, TypeOK
  <2>5. ASSUME NEW k \in Limited PROVE Held(k)'
    <3>1. Held(k) /\ \A t : Upto(k, t)' = Upto(k, t)
      BY <1>1 DEF LInv, Upto, Served
    <3>2. Permitted(Limits[k])' = Permitted(Limits[k])
      BY <1>1 DEF Permitted
    <3> QED BY <1>1, <3>1, <3>2 DEF Held
  <2>6. ASSUME NEW k \in Limited, k # window[r] PROVE Room(k)'
    <3>1. peak <= peak' /\ \A q \in Requests : since'[q] <= now'
      BY <1>1, <2>2 DEF Timely, TypeOK
    <3> QED BY <1>1, <2>2, <2>4, <2>6, <3>1, NobodyPasses
  <2> QED BY <2>2, <2>3, <2>5, <2>6 DEF LInv
<1> QED BY <1>2, <1>3 DEF Check, Goes

LEMMA ResolveLimit ==
  ASSUME IInv, LInv, IInv', NEW r \in Requests, Resolve(r) PROVE LInv'
<1>1. /\ pc[r] = "limits" /\ window[r] > Len(Limits)
      /\ \E to \in {"success", "custom", "access"} : pc' = [pc EXCEPT ![r] = to]
      /\ window' = [window EXCEPT ![r] = 1] /\ since' = [since EXCEPT ![r] = 0]
      /\ UNCHANGED <<now, rows, peak>>
  BY DEF Resolve, Goes, time
<1>2. TypeOK
  BY DEF IInv
<1>3. InFlight' \subseteq InFlight
  BY <1>1, <1>2 DEF InFlight, Ended, TypeOK
<1>4. ASSUME NEW k \in Limited PROVE Past(k)' \subseteq Past(k)
  <2>1. window[r] > k
    BY <1>1, <1>2, LimitTypes DEF TypeOK
  <2> QED BY <1>1, <1>2, <2>1 DEF Past, TypeOK
<1>5. Fresh'
  BY <1>1, <1>2 DEF LInv, Fresh, TypeOK
<1>6. \A q \in Requests : since'[q] <= now'
  <2>1. 0 <= now
    BY <1>2 DEF TypeOK
  <2> QED BY <1>1, <1>2, <2>1 DEF LInv, Timely, TypeOK
<1> QED BY <1>1, <1>3, <1>4, <1>5, <1>6, FewerKeep

\* A row is written by a request that leaves the count of those without one.
LEMMA RowRoom ==
  ASSUME TypeOK, LInv, NEW r \in Requests, NEW row, row.at = now,
         rows' = rows \cup {row}, now' = now, peak' = peak,
         NEW k \in Limited,
         \/ row.outcome = "limited" /\ Past(k)' \subseteq Past(k)
         \/ r \in Past(k) /\ Past(k)' \subseteq Past(k) \ {r}
  PROVE  Room(k)' /\ Held(k)'
<1>1. /\ Limits[k].ticks \in Nat /\ now \in Nat /\ Room(k) /\ Held(k)
      /\ Permitted(Limits[k])' = Permitted(Limits[k]) /\ Permitted(Limits[k]) \in Int
  BY LimitTypes, PermittedGrows DEF LInv, TypeOK, Permitted
<1>2. /\ IsFiniteSet(Recent(k)) /\ Cardinality(Recent(k)) \in Nat
      /\ IsFiniteSet(Past(k)) /\ Cardinality(Past(k)) \in Nat
  BY Countable DEF LInv
<1>3. Recent(k)' \subseteq Recent(k) \cup {row} /\ Recent(k) \subseteq Recent(k)'
  BY DEF Recent, Served
<1>4. row.outcome = "limited" => Recent(k)' = Recent(k)
  BY DEF Recent, Served
<1>5. Cardinality(Recent(k)') + Cardinality(Past(k)') <= Cardinality(Recent(k)) + Cardinality(Past(k))
  <2>1. CASE row.outcome = "limited" /\ Past(k)' \subseteq Past(k)
    <3>1. Cardinality(Past(k)') <= Cardinality(Past(k)) /\ Cardinality(Past(k)') \in Nat
      BY <1>2, <2>1, Counts
    <3> QED BY <1>2, <1>4, <2>1, <3>1
  <2>2. CASE r \in Past(k) /\ Past(k)' \subseteq Past(k) \ {r}
    <3>1. IsFiniteSet(Past(k) \ {r}) /\ Cardinality(Past(k) \ {r}) = Cardinality(Past(k)) - 1
      BY <1>2, <2>2, FS_RemoveElement
    <3>2. Cardinality(Past(k)') <= Cardinality(Past(k)) - 1 /\ Cardinality(Past(k)') \in Nat
      BY <2>2, <3>1, Counts
    <3>3. IsFiniteSet(Recent(k) \cup {row}) /\ Cardinality(Recent(k) \cup {row}) <= Cardinality(Recent(k)) + 1
          /\ Cardinality(Recent(k) \cup {row}) \in Nat
      <4>1. CASE row \in Recent(k)
        <5>1. Recent(k) \cup {row} = Recent(k)
          BY <4>1
        <5> QED BY <1>2, <5>1
      <4>2. CASE row \notin Recent(k)
        BY <1>2, <4>2, FS_AddElement
      <4> QED BY <4>1, <4>2
    <3>4. /\ Cardinality(Recent(k)') <= Cardinality(Recent(k) \cup {row}) /\ Cardinality(Recent(k)') \in Nat
      BY <1>3, <3>3, Counts
    <3> QED BY <1>2, <3>2, <3>3, <3>4
  <2> QED BY <2>1, <2>2
<1>6. Cardinality(Recent(k)') \in Nat /\ Cardinality(Past(k)') \in Nat
  <2>1. IsFiniteSet(Recent(k) \cup {row})
    BY <1>2, FS_AddElement
  <2>2. Past(k)' \subseteq Past(k)
    OBVIOUS
  <2> QED BY <1>2, <1>3, <2>1, <2>2, Counts
<1>7. Room(k)'
  BY <1>1, <1>2, <1>5, <1>6 DEF Room
<1>8. ASSUME NEW t \in 0..now PROVE Cardinality(Upto(k, t)') <= Permitted(Limits[k])'
  <2>1. CASE t = now
    <3>1. Upto(k, t)' \subseteq Recent(k)'
      BY <2>1 DEF Upto, Recent
    <3>2. IsFiniteSet(Recent(k)')
      <4>1. IsFiniteSet(Recent(k) \cup {row})
        BY <1>2, FS_AddElement
      <4> QED BY <1>3, <4>1, Counts
    <3>3. Cardinality(Upto(k, t)') <= Cardinality(Recent(k)') /\ Cardinality(Upto(k, t)') \in Nat
      BY <3>1, <3>2, Counts
    <3> QED BY <1>1, <1>6, <1>7, <3>3 DEF Room
  <2>2. CASE t # now
    <3>1. t < now
      BY <1>1, <2>2
    <3>2. Upto(k, t)' = Upto(k, t)
      BY <1>1, <3>1 DEF Upto, Served
    <3> QED BY <1>1, <3>2 DEF Held
  <2> QED BY <2>1, <2>2
<1> QED BY <1>7, <1>8 DEF Held

\* A request ends, and its row is written with it.
LEMMA RecordLimit ==
  ASSUME IInv, LInv, IInv', NEW r \in Requests, NEW from \in Names, NEW to \in Ended \ {"idle"},
         NEW outcome, NEW rounds,
         Ends(r, from, to), Records(r, outcome, rounds),
         from \in Passed \/ (from = "limited" /\ outcome = "limited")
  PROVE  LInv'
<1> DEFINE row == [of |-> r, outcome |-> outcome, at |-> now, rounds |-> rounds]
<1>1. /\ pc' = [pc EXCEPT ![r] = to] /\ pc[r] = from
      /\ UNCHANGED <<now, since, window, peak>> /\ TypeOK /\ TypeOK'
  BY DEF Ends, Goes, doing, IInv
<1>2. rows' = rows \cup {row} /\ row.at = now /\ row.outcome = outcome
  BY DEF Records
<1> HIDE DEF row
<1>3. InFlight' \subseteq InFlight
  BY <1>1 DEF InFlight, Ended, TypeOK
<1>4. Finite'
  <2>1. IsFiniteSet(rows')
    BY <1>2, FS_AddElement DEF LInv, Finite
  <2>2. /\ IsFiniteSet(InFlight') /\ Cardinality(InFlight') \in Nat /\ Cardinality(InFlight) \in Nat
        /\ Cardinality(InFlight') <= Cardinality(InFlight)
    BY <1>3, Counts DEF LInv, Finite
  <2>3. peak \in Nat
    BY <1>1 DEF TypeOK
  <2> QED BY <1>1, <2>1, <2>2, <2>3 DEF LInv, Finite
<1>5. Timely' /\ Fresh'
  <2>1. now <= now
    BY <1>1 DEF TypeOK
  <2>2. Timely'
    BY <1>1, <1>2, <2>1 DEF LInv, Timely
  <2>3. Fresh'
    BY <1>1 DEF LInv, Fresh, TypeOK
  <2> QED BY <2>2, <2>3
<1>6. ASSUME NEW k \in Limited PROVE Room(k)' /\ Held(k)'
  <2>1. pc'[r] \notin Passed /\ pc'[r] # "limits"
    BY <1>1 DEF Passed, Ended, TypeOK
  <2>2. Past(k)' \subseteq Past(k) \ {r} /\ Past(k)' \subseteq Past(k)
    BY <1>1, <2>1 DEF Past, TypeOK
  <2>3. from \in Passed => r \in Past(k)
    BY <1>1 DEF Past
  <2> QED BY <1>1, <1>2, <2>2, <2>3, RowRoom
<1> QED BY <1>4, <1>5, <1>6 DEF LInv

LEMMA TickLimit ==
  ASSUME IInv, LInv, IInv', Tick PROVE LInv'
<1>1. /\ now' = now + 1 /\ UNCHANGED <<rows, pc, since, window, peak>>
      /\ TypeOK /\ now \in Nat
  BY DEF Tick, doing, IInv, TypeOK
<1>2. Finite'
  BY <1>1 DEF LInv, Finite, InFlight
<1>3. Timely' /\ Fresh'
  BY <1>1 DEF LInv, Timely, Fresh, TypeOK
<1>4. ASSUME NEW k \in Limited PROVE Room(k)' /\ Held(k)'
  <2>1. /\ Limits[k].ticks \in Nat /\ Room(k) /\ Held(k)
        /\ Permitted(Limits[k])' = Permitted(Limits[k]) /\ Permitted(Limits[k]) \in Int
    BY <1>1, LimitTypes, PermittedGrows DEF LInv, TypeOK, Permitted
  <2>2. \A x \in rows : x.at \in Nat
    BY <1>1 DEF TypeOK
  <2>3. Recent(k)' \subseteq Recent(k) /\ Past(k)' = Past(k)
    BY <1>1, <2>1, <2>2 DEF Recent, Served, Past
  <2>4. /\ IsFiniteSet(Recent(k)) /\ Cardinality(Recent(k)) \in Nat /\ Cardinality(Past(k)) \in Nat
    BY <1>1, Countable DEF LInv
  <2>5. Cardinality(Recent(k)') <= Cardinality(Recent(k)) /\ Cardinality(Recent(k)') \in Nat
    BY <2>3, <2>4, Counts
  <2>6. Room(k)'
    BY <2>1, <2>3, <2>4, <2>5 DEF Room
  <2>7. ASSUME NEW t \in 0..now' PROVE Cardinality(Upto(k, t)') <= Permitted(Limits[k])'
    <3>1. Upto(k, t)' = Upto(k, t)
      BY <1>1 DEF Upto, Served
    <3>2. CASE t \in 0..now
      BY <2>1, <3>1, <3>2 DEF Held
    <3>3. CASE t = now + 1
      <4>1. Upto(k, t) \subseteq Recent(k)'
        BY <1>1, <2>1, <2>2, <3>3 DEF Upto, Recent, Served
      <4>2. IsFiniteSet(Recent(k)')
        BY <2>3, <2>4, Counts
      <4>3. Cardinality(Upto(k, t)) <= Cardinality(Recent(k)') /\ Cardinality(Upto(k, t)) \in Nat
        BY <4>1, <4>2, Counts
      <4> QED BY <2>1, <2>3, <2>4, <2>5, <2>6, <3>1, <4>3 DEF Room
    <3> QED BY <1>1, <3>2, <3>3
  <2> QED BY <2>6, <2>7 DEF Held
<1> QED BY <1>2, <1>3, <1>4 DEF LInv
-----------------------------------------------------------------------------
(* The invariants, and what follows from them. *)

THEOREM InitInv == Init => IInv /\ LInv
<1> SUFFICES ASSUME Init PROVE IInv /\ LInv
  OBVIOUS
<1>1. TypeOK
  <2>1. ask \in [Requests -> Kinds]
    BY AsksAssumption DEF Init
  <2> QED BY <2>1 DEF Init, TypeOK, Ended
<1>2. \A r \in Requests : Orderly(r)
  BY DEF Init, Orderly, Chunks, Charged, Recorded, RowsOf
<1>3. InFlight = {} /\ Served = {} /\ rows = {}
  BY DEF Init, InFlight, Ended, Served
<1>4. Finite /\ Timely /\ Fresh
  BY <1>1, <1>3, FS_EmptySet DEF Init, Finite, Timely, Fresh
<1>5. ASSUME NEW k \in Limited PROVE Room(k) /\ Held(k)
  <2>1. Past(k) = {} /\ Recent(k) = {} /\ \A t : Upto(k, t) = {}
    BY <1>3 DEF Init, Past, Recent, Upto, Passed
  <2>2. Permitted(Limits[k]) \in Nat
    BY <1>1, LimitTypes DEF Permitted, TypeOK
  <2> QED BY <2>1, <2>2, FS_EmptySet DEF Room, Held
<1> QED BY <1>1, <1>2, <1>4, <1>5 DEF IInv, LInv

THEOREM StepIInv == IInv /\ LInv /\ [Next]_vars => IInv'
<1> SUFFICES ASSUME IInv, LInv, [Next]_vars PROVE IInv'
  OBVIOUS
<1>1. CASE UNCHANGED vars
  BY <1>1 DEF vars, time, doing, using, IInv, TypeOK, Orderly, Chunks, Charged, Recorded,
              RowsOf, InFlight
<1>2. ASSUME NEW r \in Requests,
        \/ Arrive(r) \/ Check(r) \/ Refuse(r) \/ Resolve(r)
        \/ CustomAnswers(r) \/ CustomFails(r) \/ CustomRaises(r)
        \/ Access(r) \/ Prepare(r) \/ Quote(r)
        \/ Find(r) \/ RunFails(r) \/ Result(r) \/ Tool(r) \/ Again(r)
        \/ Emit(r) \/ Replay(r) \/ StreamBreaks(r) \/ StreamEnds(r) \/ ReplayEnds(r)
        \/ Leave(r) \/ Success(r) \/ Settle(r) \/ Error(r)
      PROVE IInv'
  <2>1. Cardinality(InFlight) \in Nat
    BY FS_CardinalityType DEF LInv, Finite
  <2> QED BY <1>2, <2>1, ArriveStep, CheckStep, ResolveStep, EndSteps, WaySteps, AnswerSteps,
             RunFailsStep, StreamBreaksStep, StreamEndsStep
<1> QED BY <1>1, <1>2, TickStep DEF Next

\* A step that gets on with a request beyond its limits.
LEMMA OnwardLimit ==
  ASSUME IInv, LInv, IInv', NEW r \in Requests,
         \/ CustomAnswers(r) \/ CustomFails(r) \/ CustomRaises(r)
         \/ Access(r) \/ Prepare(r) \/ Quote(r)
         \/ Find(r) \/ RunFails(r) \/ Result(r) \/ Tool(r) \/ Again(r)
         \/ Emit(r) \/ Replay(r) \/ StreamBreaks(r) \/ StreamEnds(r) \/ ReplayEnds(r)
         \/ Leave(r)
  PROVE  LInv'
<1>1. /\ UNCHANGED <<now, rows, since, window, peak>>
      /\ pc' = pc \/ \E to \in Names \ {"idle"} : pc' = [pc EXCEPT ![r] = to]
  BY DEF CustomAnswers, CustomFails, CustomRaises, Access, Prepare, Quote, Find, RunFails,
         Result, Tool, Again, Emit, Replay, StreamBreaks, StreamEnds, ReplayEnds, Leave,
         Step, Fails, Ends, Finds, Uses, Gets, Goes, Sends, NextRoute,
         time, doing, Names, Ended, Passed
<1>2. pc[r] \in Passed
  BY DEF CustomAnswers, CustomFails, CustomRaises, Access, Prepare, Quote, Find, RunFails,
         Result, Tool, Again, Emit, Replay, StreamBreaks, StreamEnds, ReplayEnds, Leave,
         Step, Fails, Ends, Finds, Gets, Goes, Passed
<1> QED BY <1>1, <1>2, PassedMoves, NobodyMoves

LEMMA EndLimit ==
  ASSUME IInv, LInv, IInv', NEW r \in Requests,
         Refuse(r) \/ Success(r) \/ Settle(r) \/ Error(r)
  PROVE  LInv'
<1>1. {"limited", "success", "settle", "error", "broken"} \subseteq Names
  BY DEF Names, Passed
<1>2. {"success", "settle", "error", "broken"} \subseteq Passed
  BY DEF Passed
<1>3. {"refused", "done", "failed"} \subseteq Ended \ {"idle"}
  BY DEF Ended
<1>4. CASE Refuse(r)
  BY <1>1, <1>3, <1>4, RecordLimit DEF Refuse
<1>5. CASE Success(r)
  BY <1>1, <1>2, <1>3, <1>5, RecordLimit DEF Success
<1>6. CASE Settle(r)
  BY <1>1, <1>2, <1>3, <1>6, RecordLimit DEF Settle
<1>7. CASE Error(r)
  BY <1>1, <1>2, <1>3, <1>7, RecordLimit DEF Error
<1> QED BY <1>4, <1>5, <1>6, <1>7

THEOREM StepLInv == IInv /\ LInv /\ [Next]_vars => LInv'
<1> SUFFICES ASSUME IInv, LInv, [Next]_vars PROVE LInv'
  OBVIOUS
<1>0. IInv'
  BY StepIInv
<1>1. CASE UNCHANGED vars
  <2>1. UNCHANGED <<now, rows, pc, since, window, peak>>
    BY <1>1 DEF vars, time, doing
  <2> QED BY <1>0, <2>1, NobodyMoves
<1>2. ASSUME NEW r \in Requests,
        \/ Arrive(r) \/ Check(r) \/ Refuse(r) \/ Resolve(r)
        \/ CustomAnswers(r) \/ CustomFails(r) \/ CustomRaises(r)
        \/ Access(r) \/ Prepare(r) \/ Quote(r)
        \/ Find(r) \/ RunFails(r) \/ Result(r) \/ Tool(r) \/ Again(r)
        \/ Emit(r) \/ Replay(r) \/ StreamBreaks(r) \/ StreamEnds(r) \/ ReplayEnds(r)
        \/ Leave(r) \/ Success(r) \/ Settle(r) \/ Error(r)
      PROVE LInv'
  BY <1>0, <1>2, ArriveLimit, CheckLimit, ResolveLimit, OnwardLimit, EndLimit
<1> QED BY <1>0, <1>1, <1>2, TickLimit DEF Next

LEMMA Invariance == Spec => [](IInv /\ LInv)
BY InitInv, StepIInv, StepLInv, PTL DEF Spec

\* Every variable keeps its type.
THEOREM TypeCorrect == Spec => []TypeOK
<1>1. IInv => TypeOK
  BY DEF IInv
<1> QED BY Invariance, <1>1, PTL

\* A client gets chunks of one route at most: the next route is not tried once this one
\* has sent something.
THEOREM AnswersAreOne == Spec => []OneAnswer
<1>1. IInv => OneAnswer
  <2> SUFFICES ASSUME IInv, NEW r \in Requests PROVE Cardinality(sent[r]) <= 1
    BY DEF OneAnswer
  <2>1. Chunks(r) /\ route[r] \in Nat
    BY DEF IInv, Orderly, TypeOK
  <2>2. PICK n \in Nat : sent[r] \subseteq {n}
    <3>1. 0 \in Nat
      OBVIOUS
    <3> QED BY <2>1, <3>1 DEF Chunks
  <2>3. IsFiniteSet({n}) /\ Cardinality({n}) = 1
    BY FS_Singleton
  <2> QED BY <2>2, <2>3, Counts
<1> QED BY Invariance, <1>1, PTL

\* A request leaves one row at most, and one of success exactly when it is done, which
\* charges for every answer that it got.
THEOREM RowsAreOne == Spec => []OneRow
<1>1. IInv => OneRow
  <2> SUFFICES ASSUME IInv, NEW r \in Requests
               PROVE  /\ Cardinality(RowsOf(r)) <= 1
                      /\ pc[r] = "done" <=> \E x \in RowsOf(r) : x.outcome = "success"
                      /\ \A x \in RowsOf(r) : x.outcome = "success" => x.rounds = calls[r]
    BY DEF OneRow
  <2>1. Recorded(r) /\ pc[r] \in Ended \cup {"limits", "limited"} \cup Passed
    BY DEF IInv, Orderly, TypeOK
  <2>2. r \in InFlight \/ pc[r] \in {"idle", "refused", "failed", "gone", "done"}
    BY DEF InFlight, Ended
  <2>3. pc[r] = "done" => r \notin InFlight
    BY DEF InFlight, Ended
  <2>4. RowsOf(r) = {} \/ \E x \in RowsOf(r) : RowsOf(r) = {x}
    BY <2>1, <2>2 DEF Recorded
  <2>5. Cardinality(RowsOf(r)) <= 1
    <3>1. CASE RowsOf(r) = {}
      BY <3>1, FS_EmptySet
    <3>2. CASE \E x \in RowsOf(r) : RowsOf(r) = {x}
      <4>1. PICK x \in RowsOf(r) : RowsOf(r) = {x}
        BY <3>2
      <4>2. Cardinality({x}) = 1
        BY FS_Singleton
      <4> QED BY <4>1, <4>2
    <3> QED BY <2>4, <3>1, <3>2
  <2> QED BY <2>1, <2>2, <2>3, <2>5 DEF Recorded
<1> QED BY Invariance, <1>1, PTL

\* No window of the key ever holds more served requests than one less than its limit and
\* those that were in flight together.
THEOREM LimitsHold == Spec => []LimitHolds
<1>1. IInv /\ LInv => LimitHolds
  BY DEF LInv, Held, Upto, Limited, LimitHolds
<1> QED BY Invariance, <1>1, PTL

=============================================================================
