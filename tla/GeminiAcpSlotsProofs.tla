------------------------ MODULE GeminiAcpSlotsProofs ------------------------
(***************************************************************************)
(* Proofs about GeminiAcpSlots: a slot has one user at a time, and no      *)
(* request comes to a runtime in which one failed, for any number of       *)
(* slots, requests and runtimes.  The inductive invariant relates the two  *)
(* locks to the places of their users, and keeps users out of the runtimes *)
(* that are not made yet, since a retry takes a lock there unseen.         *)
(***************************************************************************)
EXTENDS GeminiAcpSlots, FiniteSetTheorems, TLAPS

Names == {"idle", "scheduled", "over"} \cup Using \cup Waiting \cup Ended
Spots == (0..MaxRuntimes) \X (0..NumSlots)

\* The users of slots exclude each other, and the locks tell that they are there.
Exclusive(p, a, lk) ==
  /\ \A u, v \in Users : p[u] \in Using /\ p[v] \in Using /\ a[u] = a[v] => u = v
  /\ \A x \in Places : lk[x] <=> \E u \in Users : p[u] \in Using /\ a[u] = x

\* The same of the requests that hold a selection lock and wait.
Chosen(p, a, ch) ==
  /\ \A q, r \in Requests :
       p[q] = "handoff" /\ p[r] = "handoff" /\ a[q][1] = a[r][1] => q = r
  /\ \A g \in Runtimes : ch[g] <=> \E r \in Requests : p[r] = "handoff" /\ a[r][1] = g

\* Users are in runtimes that have been made.
Placed(p, a, m) ==
  /\ \A u \in Users :
       p[u] \in Using \cup {"handoff", "waiting", "queued"} => a[u] \in (1..m) \X Slots
  /\ \A r \in Requests : p[r] = "selecting" => a[r][1] \in 1..m
  /\ \A g \in Runtimes : p[g] # "idle" => g <= m

\* The runtimes that failed have been made and left.
LeftBehind(c, m, b) == c \notin b /\ b \subseteq 1..m

IInv ==
  /\ TypeOK
  /\ Exclusive(pc, at, locked)
  /\ Chosen(pc, at, choosing)
  /\ Placed(pc, at, made)
  /\ LeftBehind(current, made, broken)

-----------------------------------------------------------------------------
(* Moving one user. *)

LEMMA StayOut ==
  ASSUME NEW p \in [Users -> Names], NEW a \in [Users -> Spots], NEW lk,
         NEW u \in Users, NEW to, NEW y,
         Exclusive(p, a, lk), p[u] \notin Using, to \notin Using
  PROVE  Exclusive([p EXCEPT ![u] = to], [a EXCEPT ![u] = y], lk)
BY DEF Exclusive

LEMMA StayIn ==
  ASSUME NEW p \in [Users -> Names], NEW a \in [Users -> Spots], NEW lk,
         NEW u \in Users, NEW to,
         Exclusive(p, a, lk), p[u] \in Using, to \in Using
  PROVE  Exclusive([p EXCEPT ![u] = to], [a EXCEPT ![u] = a[u]], lk)
BY DEF Exclusive

LEMMA ComeIn ==
  ASSUME NEW p \in [Users -> Names], NEW a \in [Users -> Spots], NEW lk \in [Places -> BOOLEAN],
         NEW u \in Users, NEW to, NEW y \in Places,
         Exclusive(p, a, lk), p[u] \notin Using, to \in Using, ~lk[y]
  PROVE  Exclusive([p EXCEPT ![u] = to], [a EXCEPT ![u] = y], [lk EXCEPT ![y] = TRUE])
BY DEF Exclusive

LEMMA GoOut ==
  ASSUME NEW p \in [Users -> Names], NEW a \in [Users -> Spots], NEW lk \in [Places -> BOOLEAN],
         NEW u \in Users, NEW to, NEW y,
         Exclusive(p, a, lk), p[u] \in Using, to \notin Using
  PROVE  Exclusive([p EXCEPT ![u] = to], [a EXCEPT ![u] = y], [lk EXCEPT ![a[u]] = FALSE])
BY DEF Exclusive

LEMMA NobodyChosen ==
  ASSUME NEW p \in [Users -> Names], NEW a \in [Users -> Spots], NEW ch,
         NEW u \in Users, NEW to, NEW y,
         Chosen(p, a, ch), p[u] # "handoff", to # "handoff"
  PROVE  Chosen([p EXCEPT ![u] = to], [a EXCEPT ![u] = y], ch)
BY DEF Chosen, Users

LEMMA ChosenComesIn ==
  ASSUME NEW p \in [Users -> Names], NEW a \in [Users -> Spots], NEW ch \in [Runtimes -> BOOLEAN],
         NEW r \in Requests, NEW g \in Runtimes, NEW s \in Slots,
         Chosen(p, a, ch), p[r] # "handoff", ~ch[g]
  PROVE  Chosen([p EXCEPT ![r] = "handoff"], [a EXCEPT ![r] = <<g, s>>], [ch EXCEPT ![g] = TRUE])
BY DEF Chosen, Users

LEMMA ChosenGoesOut ==
  ASSUME NEW p \in [Users -> Names], NEW a \in [Users -> Spots], NEW ch \in [Runtimes -> BOOLEAN],
         NEW r \in Requests, NEW to, NEW y,
         Chosen(p, a, ch), p[r] = "handoff", to # "handoff"
  PROVE  Chosen([p EXCEPT ![r] = to], [a EXCEPT ![r] = y], [ch EXCEPT ![a[r][1]] = FALSE])
BY DEF Chosen, Users

LEMMA PlacedMoves ==
  ASSUME NEW p \in [Users -> Names], NEW a \in [Users -> Spots], NEW m \in 0..MaxRuntimes,
         NEW u \in Users, NEW to, NEW y,
         Placed(p, a, m),
         to \in Using \cup {"handoff", "waiting", "queued"} => y \in (1..m) \X Slots,
         to = "selecting" => y[1] \in 1..m,
         u \in Runtimes => u <= m
  PROVE  Placed([p EXCEPT ![u] = to], [a EXCEPT ![u] = y], m)
BY DEF Placed, Users

LEMMA PlacedGrows ==
  ASSUME NEW p, NEW a, NEW m \in 0..MaxRuntimes, NEW n \in m..MaxRuntimes, Placed(p, a, m)
  PROVE  Placed(p, a, n)
<1>1. 1..m \subseteq 1..n /\ (1..m) \X Slots \subseteq (1..n) \X Slots
  BY SlotBounds
<1>2. \A g \in Runtimes : g <= m => g <= n
  BY SlotBounds DEF Runtimes
<1> QED BY <1>1, <1>2 DEF Placed

-----------------------------------------------------------------------------
(* Initial states. *)

THEOREM InitIInv == Init => IInv
<1> SUFFICES ASSUME Init PROVE IInv
  OBVIOUS
<1>1. TypeOK
  <2>1. current \in 0..made /\ made \in 0..MaxRuntimes
    BY SlotBounds DEF Init
  <2>2. initialized \in [Places -> BOOLEAN]
    BY Zenon DEF Init
  <2>3. nextSlot \in [Runtimes -> Slots]
    BY SlotsAssumption DEF Init, Slots
  <2>4. at \in [Users -> (0..MaxRuntimes) \X (0..NumSlots)]
    BY SlotsAssumption, SlotBounds DEF Init
  <2>5. /\ line \in [Places -> Seq(Users)]
        /\ door \in [Runtimes -> Seq(Requests)]
        /\ waiters \in [Places -> Nat]
        /\ locked \in [Places -> BOOLEAN]
        /\ choosing \in [Runtimes -> BOOLEAN]
    BY DEF Init
  <2>6. broken \in SUBSET Runtimes /\ retried \in SUBSET Requests /\ cancels \in Nat
    BY DEF Init
  <2>7. pc \in [Users -> {"idle", "scheduled", "over"} \cup Using \cup Waiting \cup Ended]
    BY DEF Init
  <2> QED BY <2>1, <2>2, <2>3, <2>4, <2>5, <2>6, <2>7 DEF TypeOK
<1>2. Exclusive(pc, at, locked)
  BY DEF Init, Exclusive, Using
<1>3. Chosen(pc, at, choosing)
  BY DEF Init, Chosen, Users
<1>4. Placed(pc, at, made)
  BY DEF Init, Placed, Using, Users
<1>5. LeftBehind(current, made, broken)
  BY DEF Init, LeftBehind
<1> QED BY <1>1, <1>2, <1>3, <1>4, <1>5 DEF IInv

-----------------------------------------------------------------------------
(* Steps. *)

\* Where a user of a slot, or of a slot's line, is.
LEMMA AtPlace ==
  ASSUME IInv, NEW u \in Users,
         pc[u] \in Using \cup {"handoff", "waiting", "queued"}
  PROVE  /\ at[u] \in (1..made) \X Slots
         /\ at[u] \in Places
         /\ at[u] \in Spots
         /\ at[u][1] \in 1..made
         /\ at[u][1] \in Runtimes
<1>1. at[u] \in (1..made) \X Slots
  BY DEF IInv, Placed
<1>2. 1..made \subseteq Runtimes
  BY SlotBounds DEF IInv, TypeOK, Runtimes
<1>3. (1..made) \X Slots \subseteq Places /\ Places \subseteq Spots
  BY <1>2, SlotsAssumption, SlotBounds DEF Places, Spots, Slots, Runtimes
<1> QED BY <1>1, <1>2, <1>3

LEMMA Types ==
  ASSUME IInv
  PROVE  /\ pc \in [Users -> Names] /\ at \in [Users -> Spots]
         /\ locked \in [Places -> BOOLEAN] /\ choosing \in [Runtimes -> BOOLEAN]
         /\ made \in 0..MaxRuntimes
         /\ Requests \subseteq Users /\ Runtimes \subseteq Users
BY DEF IInv, TypeOK, Names, Spots, Users

LEMMA GoTypes ==
  ASSUME IInv, NEW u \in Users, NEW to \in Names, NEW y \in Spots, Go(u, to, y)
  PROVE  /\ pc' \in [Users -> {"idle", "scheduled", "over"} \cup Using \cup Waiting \cup Ended]
         /\ at' \in [Users -> (0..MaxRuntimes) \X (0..NumSlots)]
BY Types DEF Go, Names, Spots

\* A user of a slot goes on with it.
LEMMA KeepSlot ==
  ASSUME IInv, NEW u \in Users, NEW to \in Using,
         pc[u] \in Using, Go(u, to, at[u])
  PROVE  /\ pc' \in [Users -> {"idle", "scheduled", "over"} \cup Using \cup Waiting \cup Ended]
         /\ at' \in [Users -> (0..MaxRuntimes) \X (0..NumSlots)]
         /\ Exclusive(pc', at', locked)
         /\ Chosen(pc', at', choosing)
         /\ Placed(pc', at', made)
<1>1. /\ to \in Names /\ to # "handoff" /\ to # "selecting"
      /\ pc[u] # "handoff" /\ pc[u] # "idle"
  BY DEF Using, Names
<1>2. pc' = [pc EXCEPT ![u] = to] /\ at' = [at EXCEPT ![u] = at[u]]
  BY DEF Go
<1>3. at[u] \in Spots /\ at[u] \in (1..made) \X Slots
  BY AtPlace
<1>4. Exclusive(pc', at', locked)
  BY <1>1, <1>2, StayIn, Types DEF IInv
<1>5. Chosen(pc', at', choosing)
  BY <1>1, <1>2, NobodyChosen, Types DEF IInv
<1>6. Placed(pc', at', made)
  <2>1. u \in Runtimes => u <= made
    BY <1>1 DEF IInv, Placed
  <2> QED BY <1>1, <1>2, <1>3, <2>1, PlacedMoves, Types DEF IInv
<1> QED BY <1>1, <1>3, <1>4, <1>5, <1>6, GoTypes

LEMMA InitDoneStep ==
  ASSUME IInv, NEW u \in Users, InitDone(u) PROVE IInv'
<1>1. pc[u] \in Using /\ "prompting" \in Using
  BY DEF InitDone, Using
<1>2. initialized' \in [Places -> BOOLEAN]
  BY DEF InitDone, IInv, TypeOK
<1>3. Go(u, "prompting", at[u])
  BY DEF InitDone
<1> QED BY <1>1, <1>2, <1>3, KeepSlot DEF InitDone, IInv, TypeOK, LeftBehind, pool, selection

LEMMA EmitStep ==
  ASSUME IInv, NEW r \in Requests, Emit(r) PROVE IInv'
<1>1. r \in Users /\ pc[r] \in Using /\ "emitting" \in Using
  BY DEF Emit, Using, Users
<1>2. Go(r, "emitting", at[r])
  BY DEF Emit
<1> QED BY <1>1, <1>2, KeepSlot DEF Emit, IInv, TypeOK, LeftBehind, pool, slots, selection

\* What it takes to leave a slot for a place where no lock is held.
LEMMA LeaveSlot ==
  ASSUME IInv, NEW u \in Users, NEW to \in Ended \cup {"over"}, NEW y \in Spots,
         pc[u] \in Using, Go(u, to, y), Release(at[u])
  PROVE  /\ pc' \in [Users -> {"idle", "scheduled", "over"} \cup Using \cup Waiting \cup Ended]
         /\ at' \in [Users -> (0..MaxRuntimes) \X (0..NumSlots)]
         /\ locked' \in [Places -> BOOLEAN]
         /\ Exclusive(pc', at', locked')
         /\ Chosen(pc', at', choosing)
         /\ Placed(pc', at', made)
<1>1. /\ to \in Names /\ to \notin Using /\ to # "handoff" /\ to # "idle" /\ to # "selecting"
      /\ to \notin Using \cup {"handoff", "waiting", "queued"}
      /\ pc[u] # "handoff" /\ pc[u] # "idle"
  BY DEF Using, Names, Ended
<1>2. pc' = [pc EXCEPT ![u] = to] /\ at' = [at EXCEPT ![u] = y] /\ locked' = [locked EXCEPT ![at[u]] = FALSE]
  BY DEF Go, Release
<1>3. locked' \in [Places -> BOOLEAN]
  BY <1>2, Types
<1>4. Exclusive(pc', at', locked')
  BY <1>1, <1>2, GoOut, Types DEF IInv
<1>5. Chosen(pc', at', choosing)
  BY <1>1, <1>2, NobodyChosen, Types DEF IInv
<1>6. Placed(pc', at', made)
  <2>1. u \in Runtimes => u <= made
    BY <1>1 DEF IInv, Placed
  <2> QED BY <1>1, <1>2, <2>1, PlacedMoves, Types DEF IInv
<1> QED BY <1>1, <1>3, <1>4, <1>5, <1>6, GoTypes

LEMMA CloseStep ==
  ASSUME IInv, NEW r \in Requests, Close(r) PROVE IInv'
<1>1. r \in Users /\ pc[r] \in Using /\ "done" \in Ended
  BY DEF Close, Using, Users, Ended
<1>2. at[r] \in Spots
  BY <1>1, AtPlace
<1>3. Go(r, "done", at[r]) /\ Release(at[r])
  BY DEF Close
<1> QED BY <1>1, <1>2, <1>3, LeaveSlot DEF Close, IInv, TypeOK, LeftBehind, pool, selection

LEMMA WarmFailsStep ==
  ASSUME IInv, NEW g \in Runtimes, WarmFails(g) PROVE IInv'
<1>1. g \in Users /\ pc[g] \in Using /\ <<g, 0>> \in Spots
  BY SlotsAssumption, SlotBounds DEF WarmFails, Using, Users, Spots, Runtimes
<1>2. Go(g, "over", <<g, 0>>) /\ Release(at[g])
  BY DEF WarmFails
<1> QED BY <1>1, <1>2, LeaveSlot DEF WarmFails, IInv, TypeOK, LeftBehind, pool, selection

LEMMA GiveUpStep ==
  ASSUME IInv, NEW r \in Requests, GiveUp(r) PROVE IInv'
<1>1. r \in Users /\ pc[r] \in Using
  BY DEF GiveUp, Using, Users
<1>2. at[r] \in Spots /\ at[r][1] \in 1..made /\ at[r][1] \in Runtimes
  BY <1>1, AtPlace
<1>3. PICK to \in Ended : Go(r, to, at[r])
  BY DEF GiveUp, Ended
<1>4. Release(at[r])
  BY DEF GiveUp
<1>5. LeftBehind(current', made', broken')
  <2>1. current' = 0 /\ made' = made /\ broken' = broken \cup {at[r][1]}
    BY DEF GiveUp
  <2>2. broken \subseteq 1..made
    BY DEF IInv, LeftBehind
  <2>3. broken \cup {at[r][1]} \subseteq 1..made
    BY <1>2, <2>2
  <2>4. 0 \notin 1..made
    BY Types, SlotBounds
  <2> QED BY <2>1, <2>3, <2>4 DEF LeftBehind
<1>6. current' \in 0..made' /\ broken' \in SUBSET Runtimes
  BY <1>2 DEF GiveUp, IInv, TypeOK
<1> QED BY <1>1, <1>2, <1>3, <1>4, <1>5, <1>6, LeaveSlot DEF GiveUp, IInv, TypeOK, selection

\* A warm-up may be scheduled in the runtime of a user of a slot.
LEMMA Scheduling ==
  ASSUME IInv, NEW r \in Requests, pc[r] \in Using, NEW b \in BOOLEAN,
         b => pc[at[r][1]] = "idle"
  PROVE  LET g == at[r][1]
             p == [pc EXCEPT ![g] = IF b THEN "scheduled" ELSE @]
             a == [at EXCEPT ![g] = IF b THEN <<g, 0>> ELSE @] IN
         /\ p \in [Users -> Names] /\ a \in [Users -> Spots]
         /\ p[r] = pc[r] /\ a[r] = at[r]
         /\ Exclusive(p, a, locked) /\ Chosen(p, a, choosing) /\ Placed(p, a, made)
<1> DEFINE g == at[r][1]
           p == [pc EXCEPT ![g] = IF b THEN "scheduled" ELSE @]
           a == [at EXCEPT ![g] = IF b THEN <<g, 0>> ELSE @]
<1>1. r \in Users /\ g \in 1..made /\ g \in Runtimes /\ g \in Users /\ g # r
  BY AtPlace, Types, RequestsAssumption DEF Users
<1>2. CASE ~b
  <2>1. p = pc /\ a = at
    BY <1>2, Types
  <2> QED BY <2>1, Types DEF IInv
<1>3. CASE b
  <2>1. p = [pc EXCEPT ![g] = "scheduled"] /\ a = [at EXCEPT ![g] = <<g, 0>>]
    BY <1>3
  <2>2. pc[g] \notin Using /\ pc[g] # "handoff"
    BY <1>3 DEF Using
  <2>3. /\ "scheduled" \notin Using \cup {"handoff", "waiting", "queued"} /\ "scheduled" # "selecting"
        /\ "scheduled" \in Names
    BY DEF Using, Names
  <2>4. <<g, 0>> \in Spots
    BY <1>1, SlotsAssumption, SlotBounds DEF Spots, Runtimes
  <2>5. p \in [Users -> Names] /\ a \in [Users -> Spots] /\ p[r] = pc[r] /\ a[r] = at[r]
    BY <1>1, <2>1, <2>3, <2>4, Types
  <2>6. Exclusive(p, a, locked)
    BY <1>1, <2>1, <2>2, <2>3, StayOut, Types DEF IInv
  <2>7. Chosen(p, a, choosing)
    BY <1>1, <2>1, <2>2, <2>3, NobodyChosen, Types DEF IInv
  <2>8. Placed(p, a, made)
    <3>1. g <= made
      BY <1>1, Types
    <3> QED BY <1>1, <2>1, <2>3, <3>1, PlacedMoves, Types DEF IInv
  <2> QED BY <2>5, <2>6, <2>7, <2>8
<1> QED BY <1>2, <1>3

LEMMA AnswerStep ==
  ASSUME IInv, NEW r \in Requests, Answer(r) PROVE IInv'
<1> DEFINE g == at[r][1]
           b == Prewarm /\ NumSlots > 1 /\ pc[g] = "idle"
           p == [pc EXCEPT ![g] = IF b THEN "scheduled" ELSE @]
           a == [at EXCEPT ![g] = IF b THEN <<g, 0>> ELSE @]
           to == IF r \in Streams THEN "closing" ELSE "done"
<1>1. pc[r] \in Using /\ r \in Users
  BY DEF Answer, Using, Users
<1>2. g # r /\ at[r] \in (1..made) \X Slots
  BY <1>1, AtPlace, RequestsAssumption
<1>3. /\ p \in [Users -> Names] /\ a \in [Users -> Spots]
      /\ p[r] = pc[r] /\ a[r] = at[r]
      /\ Exclusive(p, a, locked) /\ Chosen(p, a, choosing) /\ Placed(p, a, made)
  BY <1>1, Scheduling, Zenon
<1>4. /\ pc' = [p EXCEPT ![r] = to] /\ at' = [a EXCEPT ![r] = a[r]]
      /\ locked' = IF r \in Streams THEN locked ELSE [locked EXCEPT ![a[r]] = FALSE]
  <2>1. at' = a /\ pc' = [pc EXCEPT ![r] = to, ![g] = IF b THEN "scheduled" ELSE @]
    BY DEF Answer, Schedule
  <2>2. locked' = IF r \in Streams THEN locked ELSE [locked EXCEPT ![at[r]] = FALSE]
    BY DEF Answer, Release, slots
  <2>3. [pc EXCEPT ![r] = to, ![g] = IF b THEN "scheduled" ELSE @] = [p EXCEPT ![r] = to]
    BY <1>2, Types
  <2> HIDE DEF p, a, to, b
  <2> QED BY <1>3, <2>1, <2>2, <2>3
<1>5. /\ UNCHANGED <<initialized, line, waiters, choosing, nextSlot, door, retried, cancels>>
      /\ UNCHANGED <<current, made, broken>>
  BY DEF Answer, pool, selection
<1>6. to \in Names /\ to # "handoff" /\ to # "selecting" /\ p[r] # "handoff" /\ p[r] \in Using
  BY <1>1, <1>3 DEF Names, Using, Ended
<1>7. r \notin Runtimes
  BY RequestsAssumption
<1> HIDE DEF p, a, to, b, g
<1>8. pc' \in [Users -> Names] /\ at' \in [Users -> Spots] /\ locked' \in [Places -> BOOLEAN]
  BY <1>3, <1>4, <1>6, Types
<1>9. Chosen(pc', at', choosing)
  BY <1>1, <1>3, <1>4, <1>6, NobodyChosen
<1>10. Placed(pc', at', made)
  BY <1>1, <1>2, <1>3, <1>4, <1>6, <1>7, PlacedMoves, Types
<1>11. Exclusive(pc', at', locked')
  <2>1. CASE r \in Streams
    <3>1. to \in Using
      BY <2>1 DEF to, Using
    <3> QED BY <1>1, <1>3, <1>4, <1>6, <2>1, <3>1, StayIn
  <2>2. CASE r \notin Streams
    <3>1. to \notin Using
      BY <2>2 DEF to, Using
    <3> QED BY <1>1, <1>3, <1>4, <1>6, <2>2, <3>1, GoOut, Types
  <2> QED BY <2>1, <2>2
<1>12. TypeOK'
  BY <1>5, <1>8 DEF IInv, TypeOK, Names, Spots
<1> QED BY <1>5, <1>9, <1>10, <1>11, <1>12 DEF IInv, LeftBehind

LEMMA RetryStep ==
  ASSUME IInv, NEW r \in Requests, Retry(r) PROVE IInv'
<1> DEFINE g == made + 1
           x == at[r]
           p == [pc EXCEPT ![r] = "idle"]
           lk == [locked EXCEPT ![x] = FALSE]
<1>1. /\ pc[r] \in Using /\ r \in Users /\ r \notin Runtimes /\ pc[r] # "handoff"
      /\ "idle" \notin Using /\ "starting" \in Using /\ "idle" \in Names /\ "starting" \in Names
  BY RequestsAssumption DEF Retry, Using, Users, Names
<1>2. x \in (1..made) \X Slots /\ x[1] \in 1..made /\ x[1] \in Runtimes /\ x \in Spots
  BY <1>1, AtPlace
<1>3. g \in Runtimes /\ g \in made..MaxRuntimes /\ g \in 1..g /\ 1 \in Slots
  BY Types, SlotBounds, SlotsAssumption DEF Retry, Runtimes, Slots
<1>4. <<g, 1>> \in Places /\ <<g, 1>> \in Spots /\ <<g, 1>> \in (1..g) \X Slots /\ <<g, 1>> # x
  <2>1. <<g, 1>> \in (1..g) \X Slots
    BY <1>3
  <2>2. <<g, 1>> \in Places
    BY <1>3 DEF Places
  <2>3. <<g, 1>> \in Spots
    <3>1. g \in 0..MaxRuntimes /\ 1 \in 0..NumSlots
      BY <1>3, SlotBounds, SlotsAssumption DEF Runtimes, Slots
    <3> QED BY <3>1 DEF Spots
  <2>4. x[1] # g
    BY <1>2, Types
  <2> QED BY <2>1, <2>2, <2>3, <2>4
<1>5. ~locked[<<g, 1>>]
  <2>1. \A u \in Users : pc[u] \in Using => at[u] # <<g, 1>>
    <3> SUFFICES ASSUME NEW u \in Users, pc[u] \in Using PROVE at[u] # <<g, 1>>
      OBVIOUS
    <3>1. at[u][1] \in 1..made
      BY AtPlace
    <3> QED BY <3>1, Types, SlotBounds
  <2> QED BY <1>4, <2>1 DEF IInv, Exclusive
<1>6. /\ pc' = [p EXCEPT ![r] = "starting"]
      /\ at' = [at EXCEPT ![r] = <<g, 1>>]
      /\ at' = [[at EXCEPT ![r] = x] EXCEPT ![r] = <<g, 1>>]
      /\ locked' = [lk EXCEPT ![<<g, 1>>] = TRUE]
  BY Types DEF Retry, Go
<1>7. /\ UNCHANGED <<initialized, line, waiters, choosing, door, cancels>>
      /\ made' = g /\ current' = g /\ broken' = broken \cup {x[1]}
      /\ nextSlot' = [nextSlot EXCEPT ![g] = After(1)] /\ retried' = retried \cup {r}
  BY DEF Retry
<1>8. p \in [Users -> Names] /\ [at EXCEPT ![r] = x] \in [Users -> Spots] /\ lk \in [Places -> BOOLEAN] /\ p[r] \notin Using
  BY <1>1, <1>2, Types
<1>9. Exclusive(p, [at EXCEPT ![r] = x], lk)
  BY <1>1, GoOut, Types DEF IInv
<1>10. ~lk[<<g, 1>>]
  BY <1>4, <1>5, Types
<1> HIDE DEF p, lk
<1>11. Exclusive(pc', at', locked')
  BY <1>1, <1>4, <1>6, <1>8, <1>9, <1>10, ComeIn
<1>12. pc' \in [Users -> Names] /\ at' \in [Users -> Spots] /\ locked' \in [Places -> BOOLEAN]
  BY <1>1, <1>4, <1>6, <1>8
<1>13. pc' = [pc EXCEPT ![r] = "starting"]
  BY DEF Retry, Go
<1>14. Chosen(pc', at', choosing')
  <2>1. "starting" # "handoff" /\ at' = [at EXCEPT ![r] = <<g, 1>>]
    BY <1>6
  <2>2. Chosen(pc, at, choosing)
    BY DEF IInv
  <2>3. Chosen([pc EXCEPT ![r] = "starting"], [at EXCEPT ![r] = <<g, 1>>], choosing)
    BY <1>1, <2>1, <2>2, NobodyChosen, Types
  <2> QED BY <1>7, <1>13, <2>1, <2>3
<1>15. Placed(pc', at', made')
  <2>1. Placed(pc, at, g) /\ g \in 0..MaxRuntimes
    BY <1>3, PlacedGrows, Types DEF IInv
  <2> HIDE DEF g
  <2> QED BY <1>1, <1>4, <1>6, <1>7, <1>13, <2>1, PlacedMoves, Types
<1>16. LeftBehind(current', made', broken')
  <2>1. broken \cup {x[1]} \subseteq 1..made
    BY <1>2 DEF IInv, LeftBehind
  <2>2. g \notin 1..made /\ 1..made \subseteq 1..g
    BY Types, SlotBounds
  <2> HIDE DEF g, x
  <2> QED BY <1>7, <2>1, <2>2 DEF LeftBehind
<1>17. TypeOK'
  <2>1. current' \in 0..made' /\ made' \in 0..MaxRuntimes
    BY <1>3, <1>7, Types, SlotBounds DEF Runtimes
  <2>2. nextSlot' \in [Runtimes -> Slots]
    <3>1. After(1) \in Slots
      BY SlotsAssumption DEF After, Slots
    <3> QED BY <1>7, <3>1 DEF IInv, TypeOK
  <2>3. broken' \in SUBSET Runtimes /\ retried' \in SUBSET Requests
    BY <1>2, <1>7 DEF IInv, TypeOK
  <2> QED BY <1>7, <1>12, <2>1, <2>2, <2>3 DEF IInv, TypeOK, Names, Spots
<1> QED BY <1>11, <1>14, <1>15, <1>16, <1>17 DEF IInv

\* A user takes the unlocked lock of a slot, in a runtime made by now.
LEMMA TakeSlot ==
  ASSUME IInv, NEW u \in Users, NEW m \in made..MaxRuntimes, NEW x \in (1..m) \X Slots,
         pc[u] \notin Using, ~locked[x], u \in Runtimes => u <= m, Occupy(u, x)
  PROVE  /\ pc' \in [Users -> Names] /\ at' \in [Users -> Spots]
         /\ locked' \in [Places -> BOOLEAN] /\ initialized' \in [Places -> BOOLEAN]
         /\ Exclusive(pc', at', locked')
         /\ Placed(pc', at', m)
         /\ \E to \in Using : Go(u, to, x)
<1>1. PICK to \in {"starting", "prompting"} : Go(u, to, x)
  BY DEF Occupy
<1>2. to \in Using /\ to \in Names /\ to # "selecting"
  BY DEF Using, Names
<1>3. pc' = [pc EXCEPT ![u] = to] /\ at' = [at EXCEPT ![u] = x]
  BY <1>1 DEF Go
<1>4. locked' = [locked EXCEPT ![x] = TRUE]
  BY DEF Occupy
<1>5. m \in 0..MaxRuntimes
  BY Types, SlotBounds
<1>6. x \in Places /\ x \in Spots
  BY <1>5, SlotBounds, SlotsAssumption DEF Places, Spots, Slots, Runtimes
<1>7. initialized' \in [Places -> BOOLEAN]
  BY <1>6 DEF Occupy, IInv, TypeOK
<1>8. pc' \in [Users -> Names] /\ at' \in [Users -> Spots] /\ locked' \in [Places -> BOOLEAN]
  BY <1>2, <1>3, <1>4, <1>6, Types
<1>9. Exclusive(pc', at', locked')
  <2>1. Exclusive(pc, at, locked)
    BY DEF IInv
  <2> QED BY <1>2, <1>3, <1>4, <1>6, <2>1, ComeIn, Types
<1>10. Placed(pc', at', m)
  <2>1. Placed(pc, at, m)
    BY PlacedGrows, Types DEF IInv
  <2> QED BY <1>2, <1>3, <1>5, <2>1, PlacedMoves, Types
<1> QED BY <1>1, <1>2, <1>7, <1>8, <1>9, <1>10

\* A user without a slot goes where it has none either.
LEMMA GoElsewhere ==
  ASSUME IInv, NEW u \in Users, NEW m \in made..MaxRuntimes,
         NEW to \in Names \ Using, NEW x \in Spots,
         pc[u] \notin Using, Go(u, to, x), u \in Runtimes => u <= m,
         to \in {"handoff", "waiting", "queued"} => x \in (1..m) \X Slots,
         to = "selecting" => x[1] \in 1..m
  PROVE  /\ pc' \in [Users -> Names] /\ at' \in [Users -> Spots]
         /\ Exclusive(pc', at', locked)
         /\ Placed(pc', at', m)
<1>1. pc' = [pc EXCEPT ![u] = to] /\ at' = [at EXCEPT ![u] = x]
  BY DEF Go
<1>2. pc' \in [Users -> Names] /\ at' \in [Users -> Spots]
  BY <1>1, Types
<1>3. Exclusive(pc', at', locked)
  <2>1. Exclusive(pc, at, locked)
    BY DEF IInv
  <2> QED BY <1>1, <2>1, StayOut, Types
<1>4. Placed(pc', at', m)
  <2>1. Placed(pc, at, m) /\ m \in 0..MaxRuntimes
    BY PlacedGrows, Types, SlotBounds DEF IInv
  <2>2. to \in Using \cup {"handoff", "waiting", "queued"} => x \in (1..m) \X Slots
    OBVIOUS
  <2> QED BY <1>1, <2>1, <2>2, PlacedMoves, Types
<1> QED BY <1>2, <1>3, <1>4

\* The selection lock is nothing to a user who has it neither before nor after.
LEMMA NotChosen ==
  ASSUME IInv, NEW u \in Users, NEW to, NEW x,
         pc[u] # "handoff", to # "handoff", Go(u, to, x)
  PROVE  Chosen(pc', at', choosing)
<1>1. Chosen(pc, at, choosing)
  BY DEF IInv
<1>2. pc' = [pc EXCEPT ![u] = to] /\ at' = [at EXCEPT ![u] = x]
  BY DEF Go
<1> QED BY <1>1, <1>2, NobodyChosen, Types

LEMMA SelectStep ==
  ASSUME IInv, NEW r \in Requests, NEW m \in made..MaxRuntimes, NEW g \in 1..m,
         pc[r] \in {"idle", "selecting"}, ~choosing[g], Select(r, g)
  PROVE  /\ pc' \in [Users -> Names] /\ at' \in [Users -> Spots]
         /\ locked' \in [Places -> BOOLEAN] /\ initialized' \in [Places -> BOOLEAN]
         /\ line' \in [Places -> Seq(Users)] /\ waiters' \in [Places -> Nat]
         /\ nextSlot' \in [Runtimes -> Slots] /\ choosing' \in [Runtimes -> BOOLEAN]
         /\ Exclusive(pc', at', locked') /\ Chosen(pc', at', choosing') /\ Placed(pc', at', m)
<1>1. /\ r \in Users /\ r \notin Runtimes
      /\ pc[r] \notin Using /\ pc[r] # "handoff"
      /\ {"handoff", "waiting"} \subseteq Names \ Using
  BY RequestsAssumption DEF Users, Using, Names, Waiting
<1>2. m \in 0..MaxRuntimes /\ g \in Runtimes
  BY Types, SlotBounds DEF Runtimes
<1>3. /\ locked \in [Places -> BOOLEAN] /\ initialized \in [Places -> BOOLEAN]
      /\ line \in [Places -> Seq(Users)] /\ waiters \in [Places -> Nat]
      /\ nextSlot \in [Runtimes -> Slots] /\ choosing \in [Runtimes -> BOOLEAN]
  BY DEF IInv, TypeOK
<1>4. PICK s \in Slots :
        /\ nextSlot' = [nextSlot EXCEPT ![g] = After(s)]
        /\ \/ /\ IsFirst(g, s, Unlocked(g))
              /\ Occupy(r, <<g, s>>)
              /\ UNCHANGED <<line, waiters, choosing>>
           \/ /\ Go(r, "handoff", <<g, s>>)
              /\ Join(r, <<g, s>>)
              /\ choosing' = [choosing EXCEPT ![g] = TRUE]
              /\ UNCHANGED <<initialized, locked, waiters>>
           \/ /\ Go(r, "waiting", <<g, s>>)
              /\ Join(r, <<g, s>>)
              /\ waiters' = [waiters EXCEPT ![<<g, s>>] = @ + 1]
              /\ UNCHANGED <<initialized, locked, choosing>>
  BY DEF Select
<1>5. <<g, s>> \in (1..m) \X Slots /\ <<g, s>> \in Places /\ <<g, s>> \in Spots
  BY <1>2, SlotsAssumption, SlotBounds DEF Places, Spots, Slots, Runtimes
<1>6. nextSlot' \in [Runtimes -> Slots]
  <2>1. After(s) \in Slots
    BY SlotsAssumption DEF After, Slots
  <2> QED BY <1>3, <1>4, <2>1
<1>7. CASE IsFirst(g, s, Unlocked(g)) /\ Occupy(r, <<g, s>>) /\ UNCHANGED <<line, waiters, choosing>>
  <2>1. ~locked[<<g, s>>]
    BY <1>7 DEF IsFirst, Unlocked
  <2>2. /\ pc' \in [Users -> Names] /\ at' \in [Users -> Spots]
        /\ locked' \in [Places -> BOOLEAN] /\ initialized' \in [Places -> BOOLEAN]
        /\ Exclusive(pc', at', locked') /\ Placed(pc', at', m)
        /\ \E to \in Using : Go(r, to, <<g, s>>)
    BY <1>1, <1>5, <1>7, <2>1, TakeSlot
  <2>3. PICK to \in Using : Go(r, to, <<g, s>>)
    BY <2>2
  <2>4. to # "handoff"
    BY DEF Using
  <2>5. Chosen(pc', at', choosing)
    BY <1>1, <2>3, <2>4, NotChosen
  <2> QED BY <1>3, <1>6, <1>7, <2>2, <2>5
<1>8. CASE /\ Go(r, "handoff", <<g, s>>)
           /\ Join(r, <<g, s>>)
           /\ choosing' = [choosing EXCEPT ![g] = TRUE]
           /\ UNCHANGED <<initialized, locked, waiters>>
  <2>1. /\ pc' \in [Users -> Names] /\ at' \in [Users -> Spots]
        /\ Exclusive(pc', at', locked) /\ Placed(pc', at', m)
    BY <1>1, <1>5, <1>8, GoElsewhere
  <2>2. Chosen(pc', at', choosing')
    <3>1. pc' = [pc EXCEPT ![r] = "handoff"] /\ at' = [at EXCEPT ![r] = <<g, s>>]
      BY <1>8 DEF Go
    <3>2. Chosen(pc, at, choosing)
      BY DEF IInv
    <3> QED BY <1>1, <1>2, <1>3, <1>8, <3>1, <3>2, ChosenComesIn, Types
  <2>3. line' \in [Places -> Seq(Users)]
    BY <1>1, <1>3, <1>5, <1>8 DEF Join
  <2> QED BY <1>2, <1>3, <1>6, <1>8, <2>1, <2>2, <2>3
<1>9. CASE /\ Go(r, "waiting", <<g, s>>)
           /\ Join(r, <<g, s>>)
           /\ waiters' = [waiters EXCEPT ![<<g, s>>] = @ + 1]
           /\ UNCHANGED <<initialized, locked, choosing>>
  <2>1. /\ pc' \in [Users -> Names] /\ at' \in [Users -> Spots]
        /\ Exclusive(pc', at', locked) /\ Placed(pc', at', m)
    BY <1>1, <1>5, <1>9, GoElsewhere
  <2>2. Chosen(pc', at', choosing)
    BY <1>1, <1>9, NotChosen
  <2>3. line' \in [Places -> Seq(Users)]
    BY <1>1, <1>3, <1>5, <1>9 DEF Join
  <2>4. waiters' \in [Places -> Nat]
    BY <1>3, <1>5, <1>9
  <2> QED BY <1>3, <1>6, <1>9, <2>1, <2>2, <2>3, <2>4
<1> QED BY <1>4, <1>7, <1>8, <1>9

LEMMA BeginStep ==
  ASSUME IInv, NEW r \in Requests, Begin(r) PROVE IInv'
<1>1. PICK g \in Runtimes :
        /\ CurrentRuntime(g)
        /\ \/ ~choosing[g] /\ Select(r, g) /\ UNCHANGED door
           \/ /\ door' = [door EXCEPT ![g] = Append(@, r)]
              /\ Go(r, "selecting", <<g, 0>>)
              /\ UNCHANGED <<slots, nextSlot, choosing>>
  BY DEF Begin
<1>2. pc[r] = "idle" /\ UNCHANGED <<broken, retried, cancels>> /\ r \in Users /\ r \notin Runtimes
  BY RequestsAssumption DEF Begin, Users
<1>3. /\ made' \in made..MaxRuntimes /\ made' \in 0..MaxRuntimes
      /\ g \in 1..made' /\ current' \in 0..made'
      /\ \/ current' = current /\ made' = made
         \/ current' = made + 1 /\ made' = made + 1
  <2>1. current \in 0..made /\ made \in 0..MaxRuntimes /\ g \in 1..MaxRuntimes /\ MaxRuntimes \in Nat
    BY <1>1, SlotBounds DEF Runtimes, IInv, TypeOK
  <2>2. CASE current = 0
    <3>1. g = made + 1 /\ made' = g /\ current' = g
      BY <1>1, <2>2 DEF CurrentRuntime
    <3> QED BY <2>1, <3>1
  <2>3. CASE current # 0
    <3>1. g = current /\ made' = made /\ current' = current
      BY <1>1, <2>3 DEF CurrentRuntime
    <3> QED BY <2>1, <3>1
  <2> QED BY <2>2, <2>3
<1>4. LeftBehind(current', made', broken')
  <2>1. current \notin broken /\ broken \subseteq 1..made
    BY DEF IInv, LeftBehind
  <2>2. made + 1 \notin 1..made /\ 1..made \subseteq 1..(made + 1)
    BY Types, SlotBounds
  <2> QED BY <1>2, <1>3, <2>1, <2>2 DEF LeftBehind
<1>5. CASE ~choosing[g] /\ Select(r, g) /\ UNCHANGED door
  <2>1. /\ pc' \in [Users -> Names] /\ at' \in [Users -> Spots]
        /\ locked' \in [Places -> BOOLEAN] /\ initialized' \in [Places -> BOOLEAN]
        /\ line' \in [Places -> Seq(Users)] /\ waiters' \in [Places -> Nat]
        /\ nextSlot' \in [Runtimes -> Slots] /\ choosing' \in [Runtimes -> BOOLEAN]
        /\ Exclusive(pc', at', locked') /\ Chosen(pc', at', choosing') /\ Placed(pc', at', made')
    BY <1>2, <1>3, <1>5, SelectStep
  <2>2. TypeOK'
    BY <1>2, <1>3, <1>5, <2>1 DEF IInv, TypeOK, Names, Spots
  <2> QED BY <1>4, <2>1, <2>2 DEF IInv
<1>6. CASE /\ door' = [door EXCEPT ![g] = Append(@, r)]
           /\ Go(r, "selecting", <<g, 0>>)
           /\ UNCHANGED <<slots, nextSlot, choosing>>
  <2>1. "selecting" \in Names \ Using /\ "selecting" # "handoff" /\ pc[r] # "handoff" /\ pc[r] \notin Using
    BY <1>2 DEF Names, Using, Waiting
  <2>2. <<g, 0>> \in Spots
    BY SlotsAssumption, SlotBounds DEF Spots, Runtimes
  <2>3. /\ pc' \in [Users -> Names] /\ at' \in [Users -> Spots]
        /\ Exclusive(pc', at', locked) /\ Placed(pc', at', made')
    BY <1>2, <1>3, <1>6, <2>1, <2>2, GoElsewhere
  <2>4. Chosen(pc', at', choosing)
    BY <1>2, <1>6, <2>1, NotChosen
  <2>5. door' \in [Runtimes -> Seq(Requests)]
    BY <1>6 DEF IInv, TypeOK
  <2>6. UNCHANGED <<initialized, locked, line, waiters, nextSlot, choosing>>
    BY <1>6 DEF slots
  <2>7. TypeOK'
    BY <1>2, <1>3, <2>3, <2>5, <2>6 DEF IInv, TypeOK, Names, Spots
  <2> QED BY <1>4, <2>3, <2>4, <2>6, <2>7 DEF IInv
<1> QED BY <1>1, <1>5, <1>6

LEMMA EnterStep ==
  ASSUME IInv, NEW r \in Requests, Enter(r) PROVE IInv'
<1> DEFINE g == at[r][1]
<1>1. /\ pc[r] = "selecting" /\ r \in Users
      /\ ~choosing[g] /\ Select(r, g)
      /\ UNCHANGED <<current, made, broken, retried, cancels>>
      /\ door[g] # <<>> /\ door' = [door EXCEPT ![g] = Tail(@)]
  BY DEF Enter, Users, pool
<1>2. g \in 1..made /\ g \in Runtimes /\ made \in made..MaxRuntimes
  BY <1>1, Types, SlotBounds DEF IInv, Placed, Runtimes
<1>3. door' \in [Runtimes -> Seq(Requests)]
  <2>1. door \in [Runtimes -> Seq(Requests)] /\ door[g] \in Seq(Requests)
    BY <1>2 DEF IInv, TypeOK
  <2>2. Tail(door[g]) \in Seq(Requests)
    BY <1>1, <2>1
  <2> HIDE DEF g
  <2> QED BY <1>1, <2>1, <2>2
<1>4. /\ pc' \in [Users -> Names] /\ at' \in [Users -> Spots]
      /\ locked' \in [Places -> BOOLEAN] /\ initialized' \in [Places -> BOOLEAN]
      /\ line' \in [Places -> Seq(Users)] /\ waiters' \in [Places -> Nat]
      /\ nextSlot' \in [Runtimes -> Slots] /\ choosing' \in [Runtimes -> BOOLEAN]
      /\ Exclusive(pc', at', locked') /\ Chosen(pc', at', choosing') /\ Placed(pc', at', made)
  BY <1>1, <1>2, SelectStep
<1>5. TypeOK'
  BY <1>1, <1>3, <1>4 DEF IInv, TypeOK, Names, Spots
<1>6. LeftBehind(current', made', broken')
  BY <1>1 DEF IInv
<1> QED BY <1>1, <1>4, <1>5, <1>6 DEF IInv

LEMMA ServedStep ==
  ASSUME IInv, NEW r \in Requests, Served(r) PROVE IInv'
<1> DEFINE x == at[r]
<1>1. /\ pc[r] \in {"handoff", "waiting"} /\ pc[r] \notin Using
      /\ r \in Users /\ r \notin Runtimes
  BY RequestsAssumption DEF Served, Users, Using
<1>2. /\ ~locked[x] /\ line[x] # <<>> /\ Occupy(r, x)
      /\ line' = [line EXCEPT ![x] = Tail(@)]
      /\ UNCHANGED <<current, made, broken, nextSlot, door, retried, cancels>>
  BY DEF Served, Woken, pool
<1>3. x \in (1..made) \X Slots /\ x \in Places /\ x[1] \in Runtimes /\ made \in made..MaxRuntimes
  BY <1>1, AtPlace, Types, SlotBounds
<1>4. /\ pc' \in [Users -> Names] /\ at' \in [Users -> Spots]
      /\ locked' \in [Places -> BOOLEAN] /\ initialized' \in [Places -> BOOLEAN]
      /\ Exclusive(pc', at', locked') /\ Placed(pc', at', made)
      /\ \E to \in Using : Go(r, to, x)
  BY <1>1, <1>2, <1>3, TakeSlot
<1>5. line' \in [Places -> Seq(Users)]
  <2>1. line \in [Places -> Seq(Users)] /\ line[x] \in Seq(Users)
    BY <1>3 DEF IInv, TypeOK
  <2>2. Tail(line[x]) \in Seq(Users)
    BY <1>2, <2>1
  <2> HIDE DEF x
  <2> QED BY <1>2, <2>1, <2>2
<1>6. PICK to \in Using : Go(r, to, x)
  BY <1>4
<1>7. pc' = [pc EXCEPT ![r] = to] /\ at' = [at EXCEPT ![r] = x] /\ to # "handoff"
  BY <1>6 DEF Go, Using
<1>8. waiters' \in [Places -> Nat] /\ choosing' \in [Runtimes -> BOOLEAN] /\ Chosen(pc', at', choosing')
  <2>1. /\ waiters \in [Places -> Nat] /\ choosing \in [Runtimes -> BOOLEAN]
        /\ Chosen(pc, at, choosing)
    BY DEF IInv, TypeOK
  <2>2. CASE pc[r] = "handoff"
    <3>1. choosing' = [choosing EXCEPT ![x[1]] = FALSE] /\ UNCHANGED waiters
      BY <2>2 DEF Served
    <3>2. Chosen(pc', at', choosing')
      BY <1>7, <2>1, <2>2, <3>1, ChosenGoesOut, Types
    <3> QED BY <2>1, <3>1, <3>2
  <2>3. CASE pc[r] = "waiting"
    <3>1. waiters' = [waiters EXCEPT ![x] = IF @ = 0 THEN 0 ELSE @ - 1] /\ UNCHANGED choosing
      BY <2>3 DEF Served
    <3>2. Chosen(pc', at', choosing)
      BY <1>1, <1>6, <1>7, <2>3, NotChosen
    <3>3. waiters' \in [Places -> Nat]
      <4> DEFINE v == IF waiters[x] = 0 THEN 0 ELSE waiters[x] - 1
      <4>1. v \in Nat
        BY <1>3, <2>1
      <4>2. waiters' = [waiters EXCEPT ![x] = v]
        BY <3>1
      <4> HIDE DEF v, x
      <4> QED BY <2>1, <4>1, <4>2
    <3> QED BY <2>1, <3>1, <3>2, <3>3
  <2> QED BY <1>1, <2>2, <2>3
<1>9. TypeOK'
  BY <1>2, <1>4, <1>5, <1>8 DEF IInv, TypeOK, Names, Spots
<1>10. LeftBehind(current', made', broken')
  BY <1>2 DEF IInv
<1> QED BY <1>2, <1>4, <1>8, <1>9, <1>10 DEF IInv

LEMMA RemoveAtType ==
  ASSUME NEW S, NEW s \in Seq(S), NEW i \in 1..Len(s)
  PROVE  RemoveAt(s, i) \in Seq(S)
<1>1. SubSeq(s, 1, i - 1) \in Seq(S) /\ SubSeq(s, i + 1, Len(s)) \in Seq(S)
  OBVIOUS
<1> QED BY <1>1 DEF RemoveAt

LEMMA LeaveType ==
  ASSUME IInv, NEW u, NEW x \in Places, Leave(u, x)
  PROVE  line' \in [Places -> Seq(Users)]
<1>1. PICK i \in 1..Len(line[x]) : line' = [line EXCEPT ![x] = RemoveAt(@, i)]
  BY DEF Leave
<1>2. line \in [Places -> Seq(Users)] /\ line[x] \in Seq(Users)
  BY DEF IInv, TypeOK
<1>3. RemoveAt(line[x], i) \in Seq(Users)
  BY <1>2, RemoveAtType
<1> QED BY <1>1, <1>2, <1>3

LEMMA CancelStep ==
  ASSUME IInv, NEW r \in Requests, Cancel(r) PROVE IInv'
<1>1. /\ r \in Users /\ r \notin Runtimes /\ Go(r, "cancelled", at[r])
      /\ cancels' \in Nat
      /\ UNCHANGED <<current, made, broken, retried>>
  BY RequestsAssumption DEF Cancel, Users, pool, IInv, TypeOK
<1>2. /\ "cancelled" \in Ended /\ "cancelled" \in Names \ Using
      /\ "cancelled" \notin {"handoff", "waiting", "queued", "selecting"}
  BY DEF Ended, Names, Using
<1>3. at[r] \in Spots /\ made \in made..MaxRuntimes
  BY <1>1, Types, SlotBounds
<1>4. LeftBehind(current', made', broken')
  BY <1>1 DEF IInv
<1>5. ASSUME pc[r] \notin Using
      PROVE  /\ pc' \in [Users -> Names] /\ at' \in [Users -> Spots]
             /\ Exclusive(pc', at', locked) /\ Placed(pc', at', made)
  BY <1>1, <1>2, <1>3, <1>5, GoElsewhere
<1>6. CASE CancelSelecting(r)
  <2>1. pc[r] = "selecting" /\ pc[r] \notin Using /\ UNCHANGED <<initialized, locked, line, waiters, nextSlot, choosing>>
    BY <1>6 DEF CancelSelecting, Using, slots
  <2>2. at[r][1] \in Runtimes
    BY <2>1, Types, SlotBounds DEF IInv, Placed, Runtimes
  <2>3. door' \in [Runtimes -> Seq(Requests)]
    <3> DEFINE g == at[r][1]
    <3>1. PICK i \in 1..Len(door[g]) : door' = [door EXCEPT ![g] = RemoveAt(@, i)]
      BY <1>6 DEF CancelSelecting
    <3>2. door \in [Runtimes -> Seq(Requests)] /\ door[g] \in Seq(Requests)
      BY <2>2 DEF IInv, TypeOK
    <3>3. RemoveAt(door[g], i) \in Seq(Requests)
      BY <3>2, RemoveAtType
    <3> QED BY <3>1, <3>2, <3>3
  <2>4. Chosen(pc', at', choosing)
    BY <1>1, <1>2, <2>1, NotChosen
  <2>5. TypeOK'
    BY <1>1, <1>5, <2>1, <2>3 DEF IInv, TypeOK, Names, Spots
  <2> QED BY <1>1, <1>4, <1>5, <2>1, <2>4, <2>5 DEF IInv
<1>7. CASE CancelHandoff(r)
  <2>1. /\ pc[r] = "handoff" /\ pc[r] \notin Using /\ Leave(r, at[r])
        /\ choosing' = [choosing EXCEPT ![at[r][1]] = FALSE]
        /\ UNCHANGED <<initialized, locked, waiters, nextSlot, door>>
    BY <1>7 DEF CancelHandoff, Using
  <2>2. line' \in [Places -> Seq(Users)] /\ choosing' \in [Runtimes -> BOOLEAN]
    BY <1>1, <2>1, AtPlace, LeaveType, Types
  <2>3. Chosen(pc', at', choosing')
    <3>1. pc' = [pc EXCEPT ![r] = "cancelled"] /\ at' = [at EXCEPT ![r] = at[r]]
      BY <1>1 DEF Go
    <3>2. Chosen(pc, at, choosing)
      BY DEF IInv
    <3> QED BY <1>2, <2>1, <3>1, <3>2, ChosenGoesOut, Types
  <2>4. TypeOK'
    BY <1>1, <1>5, <2>1, <2>2 DEF IInv, TypeOK, Names, Spots
  <2> QED BY <1>1, <1>4, <1>5, <2>1, <2>3, <2>4 DEF IInv
<1>8. CASE CancelWaiting(r)
  <2>1. /\ pc[r] = "waiting" /\ pc[r] \notin Using /\ Leave(r, at[r])
        /\ UNCHANGED <<initialized, locked, waiters, nextSlot, choosing, door>>
    BY <1>8 DEF CancelWaiting, Using, selection
  <2>2. line' \in [Places -> Seq(Users)]
    BY <1>1, <2>1, AtPlace, LeaveType
  <2>3. Chosen(pc', at', choosing)
    BY <1>1, <1>2, <2>1, NotChosen
  <2>4. TypeOK'
    BY <1>1, <1>5, <2>1, <2>2 DEF IInv, TypeOK, Names, Spots
  <2> QED BY <1>1, <1>4, <1>5, <2>1, <2>3, <2>4 DEF IInv
<1>9. CASE CancelUsing(r)
  <2>1. pc[r] \in Using /\ Release(at[r])
        /\ UNCHANGED <<initialized, line, waiters, nextSlot, choosing, door>>
    BY <1>9 DEF CancelUsing, selection
  <2> QED BY <1>1, <1>2, <1>3, <1>4, <2>1, LeaveSlot DEF IInv, TypeOK
<1> QED BY <1>6, <1>7, <1>8, <1>9 DEF Cancel

\* The warm-up of a runtime has left its slot, if it had one, and goes on.
LEMMA GoOnStep ==
  ASSUME IInv, NEW g \in Runtimes, g <= made, pc[g] # "handoff", NEW i,
         NEW lk \in [Places -> BOOLEAN], NEW ln \in [Places -> Seq(Users)],
         Exclusive([pc EXCEPT ![g] = "idle"], at, lk),
         GoOn(g, i, lk, ln)
  PROVE  /\ pc' \in [Users -> Names] /\ at' \in [Users -> Spots]
         /\ locked' \in [Places -> BOOLEAN] /\ line' \in [Places -> Seq(Users)]
         /\ Exclusive(pc', at', locked') /\ Chosen(pc', at', choosing) /\ Placed(pc', at', made)
<1> DEFINE p == [pc EXCEPT ![g] = "idle"]
<1>1. /\ g \in Users /\ p \in [Users -> Names] /\ p[g] \notin Using
      /\ {"over", "queued"} \subseteq Names \ Using /\ "starting" \in Names /\ "starting" \in Using
  BY Types DEF Names, Using, Waiting
<1>2. /\ \A j \in Slots : <<g, j>> \in (1..made) \X Slots /\ <<g, j>> \in Places /\ <<g, j>> \in Spots
      /\ <<g, 0>> \in Spots
  BY SlotsAssumption, SlotBounds, Types DEF Places, Spots, Slots, Runtimes
<1>3. PICK to \in {"over", "queued", "starting"}, y \in Spots :
        /\ Go(g, to, y)
        /\ \/ to = "over" /\ locked' = lk /\ line' = ln
           \/ /\ to = "queued" /\ y \in (1..made) \X Slots /\ y \in Places
              /\ locked' = lk /\ line' = [ln EXCEPT ![y] = Append(@, g)]
           \/ /\ to = "starting" /\ y \in (1..made) \X Slots /\ y \in Places /\ ~lk[y]
              /\ locked' = [lk EXCEPT ![y] = TRUE] /\ line' = ln
  <2> DEFINE cold == {j \in Slots : j > i /\ ~initialized[<<g, j>>] /\ ~lk[<<g, j>>]}
  <2>1. CASE Go(g, "over", <<g, 0>>) /\ locked' = lk /\ line' = ln
    BY <1>2, <2>1
  <2>2. CASE \E j \in cold :
               IF ln[<<g, j>>] = <<>>
                 THEN /\ Go(g, "starting", <<g, j>>)
                      /\ locked' = [lk EXCEPT ![<<g, j>>] = TRUE] /\ line' = ln
                 ELSE /\ Go(g, "queued", <<g, j>>)
                      /\ line' = [ln EXCEPT ![<<g, j>>] = Append(@, g)] /\ locked' = lk
    <3>1. PICK j \in cold :
               IF ln[<<g, j>>] = <<>>
                 THEN /\ Go(g, "starting", <<g, j>>)
                      /\ locked' = [lk EXCEPT ![<<g, j>>] = TRUE] /\ line' = ln
                 ELSE /\ Go(g, "queued", <<g, j>>)
                      /\ line' = [ln EXCEPT ![<<g, j>>] = Append(@, g)] /\ locked' = lk
      BY <2>2
    <3>2. j \in Slots /\ ~lk[<<g, j>>]
      OBVIOUS
    <3> HIDE DEF cold
    <3> QED BY <1>2, <3>1, <3>2
  <2> QED BY <2>1, <2>2 DEF GoOn
<1>4. /\ pc' = [pc EXCEPT ![g] = to] /\ at' = [at EXCEPT ![g] = y]
      /\ pc' = [p EXCEPT ![g] = to]
  BY <1>3, Types DEF Go
<1>5. to \in Names /\ to # "handoff" /\ to # "selecting"
  BY <1>1, <1>3
<1>6. pc' \in [Users -> Names] /\ at' \in [Users -> Spots]
  BY <1>1, <1>4, <1>5, Types
<1>7. locked' \in [Places -> BOOLEAN] /\ line' \in [Places -> Seq(Users)]
  <2>1. CASE to = "over"
    BY <1>3, <2>1
  <2>2. CASE to = "queued"
    <3>1. y \in Places /\ locked' = lk /\ line' = [ln EXCEPT ![y] = Append(@, g)]
      BY <1>3, <2>2
    <3>2. Append(ln[y], g) \in Seq(Users)
      BY <1>1, <3>1
    <3> QED BY <3>1, <3>2
  <2>3. CASE to = "starting"
    BY <1>3, <2>3
  <2> QED BY <1>3, <2>1, <2>2, <2>3
<1>8. Chosen(pc', at', choosing)
  <2>1. Chosen(pc, at, choosing)
    BY DEF IInv
  <2> QED BY <1>1, <1>4, <1>5, <2>1, NobodyChosen, Types
<1>9. Placed(pc', at', made)
  <2>1. to \in Using \cup {"handoff", "waiting", "queued"} => y \in (1..made) \X Slots
    BY <1>1, <1>3
  <2>2. Placed(pc, at, made)
    BY DEF IInv
  <2> QED BY <1>1, <1>4, <1>5, <2>1, <2>2, PlacedMoves, Types
<1>10. Exclusive(pc', at', locked')
  <2>1. CASE to \in {"over", "queued"}
    <3>1. locked' = lk /\ to \notin Using
      BY <1>1, <1>3, <2>1
    <3> HIDE DEF p
    <3> QED BY <1>1, <1>4, <3>1, StayOut, Types DEF p
  <2>2. CASE to = "starting"
    <3>1. locked' = [lk EXCEPT ![y] = TRUE] /\ ~lk[y] /\ y \in Places
      BY <1>3, <2>2
    <3> QED BY <1>1, <1>4, <2>2, <3>1, ComeIn, Types
  <2> QED BY <1>3, <2>1, <2>2
<1> QED BY <1>6, <1>7, <1>8, <1>9, <1>10

\* A warm-up without a slot.
LEMMA WarmIdle ==
  ASSUME IInv, NEW g \in Runtimes, pc[g] \in {"scheduled", "queued"}
  PROVE  Exclusive([pc EXCEPT ![g] = "idle"], at, locked) /\ g <= made
<1>1. g \in Users /\ pc[g] \notin Using /\ "idle" \notin Using
  BY DEF Users, Using
<1>2. [at EXCEPT ![g] = at[g]] = at
  BY Types
<1>3. Exclusive([pc EXCEPT ![g] = "idle"], [at EXCEPT ![g] = at[g]], locked)
  BY <1>1, StayOut, Types DEF IInv
<1> QED BY <1>2, <1>3 DEF IInv, Placed

LEMMA WarmBeginStep ==
  ASSUME IInv, NEW g \in Runtimes, WarmBegin(g) PROVE IInv'
<1>1. /\ pc[g] = "scheduled" /\ GoOn(g, 0, locked, line)
      /\ UNCHANGED <<current, made, broken, initialized, waiters, nextSlot, choosing, door, retried, cancels>>
  BY DEF WarmBegin, pool, selection
<1>2. locked \in [Places -> BOOLEAN] /\ line \in [Places -> Seq(Users)]
  BY DEF IInv, TypeOK
<1>3. /\ pc' \in [Users -> Names] /\ at' \in [Users -> Spots]
      /\ locked' \in [Places -> BOOLEAN] /\ line' \in [Places -> Seq(Users)]
      /\ Exclusive(pc', at', locked') /\ Chosen(pc', at', choosing) /\ Placed(pc', at', made)
  BY <1>1, <1>2, WarmIdle, GoOnStep
<1> QED BY <1>1, <1>3 DEF IInv, TypeOK, LeftBehind, Names, Spots

LEMMA WarmNextStep ==
  ASSUME IInv, NEW g \in Runtimes, WarmNext(g) PROVE IInv'
<1> DEFINE lk == [locked EXCEPT ![at[g]] = FALSE]
<1>1. /\ pc[g] = "prompting" /\ pc[g] \in Using /\ g \in Users /\ "idle" \notin Using
      /\ GoOn(g, at[g][2], lk, line)
      /\ UNCHANGED <<current, made, broken, initialized, waiters, nextSlot, choosing, door, retried, cancels>>
  BY DEF WarmNext, Using, Users, pool, selection
<1>2. lk \in [Places -> BOOLEAN] /\ line \in [Places -> Seq(Users)]
  BY DEF IInv, TypeOK
<1>3. Exclusive([pc EXCEPT ![g] = "idle"], at, lk) /\ g <= made
  <2>1. [at EXCEPT ![g] = at[g]] = at
    BY Types
  <2>2. Exclusive([pc EXCEPT ![g] = "idle"], [at EXCEPT ![g] = at[g]], lk)
    BY <1>1, GoOut, Types DEF IInv
  <2> QED BY <1>1, <2>1, <2>2 DEF IInv, Placed
<1> HIDE DEF lk
<1>4. /\ pc' \in [Users -> Names] /\ at' \in [Users -> Spots]
      /\ locked' \in [Places -> BOOLEAN] /\ line' \in [Places -> Seq(Users)]
      /\ Exclusive(pc', at', locked') /\ Chosen(pc', at', choosing) /\ Placed(pc', at', made)
  BY <1>1, <1>2, <1>3, GoOnStep
<1> QED BY <1>1, <1>4 DEF IInv, TypeOK, LeftBehind, Names, Spots

LEMMA WarmTakeStep ==
  ASSUME IInv, NEW g \in Runtimes, WarmTake(g) PROVE IInv'
<1> DEFINE x == at[g]
           left == [line EXCEPT ![x] = Tail(@)]
<1>1. /\ pc[g] = "queued" /\ g \in Users /\ ~locked[x] /\ line[x] # <<>>
      /\ UNCHANGED <<current, made, broken, initialized, waiters, nextSlot, choosing, door, retried, cancels>>
  BY DEF WarmTake, Woken, Users, pool, selection
<1>2. x \in Places /\ x \in Spots /\ x \in (1..made) \X Slots
  BY <1>1, AtPlace
<1>3. locked \in [Places -> BOOLEAN] /\ left \in [Places -> Seq(Users)]
  <2>1. line \in [Places -> Seq(Users)] /\ line[x] \in Seq(Users)
    BY <1>2 DEF IInv, TypeOK
  <2>2. Tail(line[x]) \in Seq(Users)
    BY <1>1, <2>1
  <2> HIDE DEF x
  <2> QED BY <2>1, <2>2, Types
<1>4. /\ pc' \in [Users -> Names] /\ at' \in [Users -> Spots]
      /\ locked' \in [Places -> BOOLEAN] /\ line' \in [Places -> Seq(Users)]
      /\ Exclusive(pc', at', locked') /\ Chosen(pc', at', choosing) /\ Placed(pc', at', made)
  <2>1. CASE GoOn(g, x[2], locked, left)
    <3> HIDE DEF left
    <3> QED BY <1>1, <1>3, <2>1, WarmIdle, GoOnStep
  <2>2. CASE Go(g, "starting", x) /\ line' = left /\ locked' = [locked EXCEPT ![x] = TRUE]
    <3>1. pc' = [pc EXCEPT ![g] = "starting"] /\ at' = [at EXCEPT ![g] = x]
      BY <2>2 DEF Go
    <3>2. "starting" \in Using /\ "starting" \in Names /\ pc[g] \notin Using
      BY <1>1 DEF Using, Names
    <3>3. Exclusive(pc', at', locked')
      BY <1>1, <1>2, <2>2, <3>1, <3>2, ComeIn, Types DEF IInv
    <3>4. Chosen(pc', at', choosing)
      BY <1>1, <2>2, NotChosen
    <3>5. Placed(pc', at', made)
      BY <1>1, <1>2, <3>1, WarmIdle, PlacedMoves, Types DEF IInv
    <3> HIDE DEF left, x
    <3> QED BY <1>2, <1>3, <2>2, <3>1, <3>2, <3>3, <3>4, <3>5, Types
  <2> QED BY <2>1, <2>2 DEF WarmTake
<1> QED BY <1>1, <1>4 DEF IInv, TypeOK, LeftBehind, Names, Spots

LEMMA WarmClearStep ==
  ASSUME IInv, NEW g \in Runtimes, WarmClear(g) PROVE IInv'
<1>1. /\ pc[g] = "over" /\ pc[g] \notin Using /\ pc[g] # "handoff" /\ g \in Users
      /\ "idle" \in Names \ Using /\ "idle" \notin {"handoff", "waiting", "queued", "selecting"}
      /\ Go(g, "idle", at[g])
      /\ UNCHANGED <<current, made, broken, initialized, locked, line, waiters>>
      /\ UNCHANGED <<nextSlot, choosing, door, retried, cancels>>
  BY DEF WarmClear, Using, Users, Names, pool, slots, selection
<1>2. at[g] \in Spots /\ made \in made..MaxRuntimes /\ g <= made
  BY <1>1, Types, SlotBounds DEF IInv, Placed
<1>3. /\ pc' \in [Users -> Names] /\ at' \in [Users -> Spots]
      /\ Exclusive(pc', at', locked) /\ Placed(pc', at', made)
  BY <1>1, <1>2, GoElsewhere
<1>4. Chosen(pc', at', choosing)
  BY <1>1, NotChosen
<1> QED BY <1>1, <1>3, <1>4 DEF IInv, TypeOK, LeftBehind, Names, Spots

-----------------------------------------------------------------------------
(* The invariant, and what follows from it. *)

THEOREM StepIInv == IInv /\ [Next]_vars => IInv'
<1> SUFFICES ASSUME IInv, [Next]_vars PROVE IInv'
  OBVIOUS
<1>1. CASE UNCHANGED vars
  BY <1>1 DEF vars, pool, slots, selection, IInv, TypeOK, LeftBehind
<1>2. ASSUME NEW r \in Requests, Begin(r) \/ RequestStep(r) \/ Cancel(r)
      PROVE IInv'
  BY <1>2, BeginStep, EnterStep, ServedStep, InitDoneStep, EmitStep, AnswerStep, CloseStep,
     RetryStep, GiveUpStep, CancelStep, Types DEF RequestStep
<1>3. ASSUME NEW g \in Runtimes, WarmStep(g)
      PROVE IInv'
  BY <1>3, WarmBeginStep, WarmTakeStep, InitDoneStep, WarmNextStep, WarmFailsStep, WarmClearStep,
     Types DEF WarmStep
<1> QED BY <1>1, <1>2, <1>3 DEF Next

\* Every variable keeps its type; in particular the next slot is one of the runtime's.
THEOREM TypeCorrect == Spec => []TypeOK
<1>1. IInv => TypeOK
  BY DEF IInv
<1> QED BY InitIInv, StepIInv, <1>1, PTL DEF Spec

\* A slot serves one user at a time, and its lock says so.
THEOREM OneUserPerSlot == Spec => []LockIsUser
<1>1. IInv => LockIsUser
  <2> SUFFICES ASSUME IInv PROVE LockIsUser
    OBVIOUS
  <2>0. Exclusive(pc, at, locked) /\ Chosen(pc, at, choosing)
    BY DEF IInv
  <2>1. ASSUME NEW x \in Places
        PROVE  IF locked[x] THEN \E u \in Users : UsersOf(x) = {u} ELSE UsersOf(x) = {}
    <3>1. CASE locked[x]
      <4>1. PICK u \in Users : pc[u] \in Using /\ at[u] = x
        BY <2>0, <3>1 DEF Exclusive
      <4>2. UsersOf(x) = {u}
        BY <2>0, <4>1 DEF Exclusive, UsersOf
      <4> QED BY <3>1, <4>2
    <3>2. CASE ~locked[x]
      <4>1. UsersOf(x) = {}
        BY <2>0, <3>2 DEF Exclusive, UsersOf
      <4> QED BY <3>2, <4>1
    <3> QED BY <3>1, <3>2
  <2>2. ASSUME NEW g \in Runtimes
        PROVE  IF choosing[g] THEN \E r \in Requests : Choosers(g) = {r} ELSE Choosers(g) = {}
    <3>1. CASE choosing[g]
      <4>1. PICK r \in Requests : pc[r] = "handoff" /\ at[r][1] = g
        BY <2>0, <3>1 DEF Chosen
      <4>2. Choosers(g) = {r}
        BY <2>0, <4>1 DEF Chosen, Choosers
      <4> QED BY <3>1, <4>2
    <3>2. CASE ~choosing[g]
      <4>1. Choosers(g) = {}
        BY <2>0, <3>2 DEF Chosen, Choosers
      <4> QED BY <3>2, <4>1
    <3> QED BY <3>1, <3>2
  <2> QED BY <2>1, <2>2 DEF LockIsUser
<1> QED BY InitIInv, StepIInv, <1>1, PTL DEF Spec

\* A runtime in which a request failed is never in the pool again.
THEOREM FailedRuntimeIsGone == Spec => []BrokenIsGone
<1>1. IInv => BrokenIsGone
  BY DEF IInv, LeftBehind, BrokenIsGone
<1> QED BY InitIInv, StepIInv, <1>1, PTL DEF Spec

-----------------------------------------------------------------------------
(* The count of those who wait. *)

WaitingFor(x) == {r \in Requests : pc[r] = "waiting" /\ at[r] = x}

\* A count n stands for the set S, with at most c too many.
Tally(n, S, c) ==
  /\ IsFiniteSet(S)
  /\ n >= Cardinality(S)
  /\ n <= Cardinality(S) + c

Counted == \A x \in Places : Tally(waiters[x], WaitingFor(x), cancels)

LEMMA TallyJoins ==
  ASSUME NEW n \in Nat, NEW S, NEW c \in Nat, NEW r, r \notin S, Tally(n, S, c)
  PROVE  Tally(n + 1, S \cup {r}, c)
<1>1. /\ IsFiniteSet(S \cup {r}) /\ Cardinality(S \cup {r}) = Cardinality(S) + 1
      /\ Cardinality(S) \in Nat
  BY FS_AddElement, FS_CardinalityType DEF Tally
<1> QED BY <1>1 DEF Tally

LEMMA TallyServed ==
  ASSUME NEW n \in Nat, NEW S, NEW c \in Nat, NEW r \in S, Tally(n, S, c)
  PROVE  Tally(IF n = 0 THEN 0 ELSE n - 1, S \ {r}, c)
<1>1. /\ IsFiniteSet(S \ {r}) /\ Cardinality(S \ {r}) = Cardinality(S) - 1
      /\ Cardinality(S) \in Nat /\ Cardinality(S \ {r}) \in Nat
  BY FS_RemoveElement, FS_CardinalityType DEF Tally
<1> QED BY <1>1 DEF Tally

LEMMA TallyLeft ==
  ASSUME NEW n \in Nat, NEW S, NEW c \in Nat, NEW r, Tally(n, S, c)
  PROVE  Tally(n, S \ {r}, c + 1)
<1>1. CASE r \in S
  <2>1. /\ IsFiniteSet(S \ {r}) /\ Cardinality(S \ {r}) = Cardinality(S) - 1
        /\ Cardinality(S) \in Nat
    BY <1>1, FS_RemoveElement, FS_CardinalityType DEF Tally
  <2> QED BY <2>1 DEF Tally
<1>2. CASE r \notin S
  <2>1. S \ {r} = S /\ Cardinality(S) \in Nat
    BY <1>2, FS_CardinalityType DEF Tally
  <2> QED BY <2>1 DEF Tally
<1> QED BY <1>1, <1>2

\* Whoever waits goes on to, and nobody comes.
NobodyWaits ==
  \A r \in Requests :
    pc[r] = "waiting" \/ pc'[r] = "waiting" => pc'[r] = pc[r] /\ at'[r] = at[r]

LEMMA GoUnseen ==
  ASSUME IInv, NEW u \in Users, NEW to, NEW y, Go(u, to, y),
         u \in Requests => pc[u] # "waiting" /\ to # "waiting"
  PROVE  NobodyWaits
BY Types DEF Go, NobodyWaits

LEMMA CountKept ==
  ASSUME Counted, NobodyWaits, waiters' = waiters, cancels' = cancels
  PROVE  Counted'
<1>1. \A x \in Places : WaitingFor(x)' = WaitingFor(x)
  BY DEF NobodyWaits, WaitingFor
<1> QED BY <1>1 DEF Counted

LEMMA SelectCount ==
  ASSUME IInv, Counted, NEW r \in Requests, NEW g \in Runtimes,
         pc[r] # "waiting", Select(r, g), cancels' = cancels
  PROVE  Counted'
<1>1. PICK s \in Slots :
        \/ Occupy(r, <<g, s>>) /\ UNCHANGED waiters
        \/ Go(r, "handoff", <<g, s>>) /\ UNCHANGED waiters
        \/ Go(r, "waiting", <<g, s>>) /\ waiters' = [waiters EXCEPT ![<<g, s>>] = @ + 1]
  BY DEF Select
<1>2. r \in Users
  BY DEF Users
<1>3. CASE Occupy(r, <<g, s>>) /\ UNCHANGED waiters
  <2>1. NobodyWaits
    <3>1. Go(r, "prompting", <<g, s>>) \/ Go(r, "starting", <<g, s>>)
      BY <1>3 DEF Occupy
    <3> QED BY <1>2, <3>1, GoUnseen
  <2> QED BY <1>3, <2>1, CountKept
<1>4. CASE Go(r, "handoff", <<g, s>>) /\ UNCHANGED waiters
  BY <1>2, <1>4, GoUnseen, CountKept
<1>5. CASE Go(r, "waiting", <<g, s>>) /\ waiters' = [waiters EXCEPT ![<<g, s>>] = @ + 1]
  <2>1. <<g, s>> \in Places /\ waiters \in [Places -> Nat] /\ cancels \in Nat
    BY DEF Places, IInv, TypeOK
  <2>2. ASSUME NEW x \in Places PROVE Tally(waiters'[x], WaitingFor(x)', cancels')
    <3>1. /\ Tally(waiters[x], WaitingFor(x), cancels) /\ waiters[x] \in Nat
          /\ r \notin WaitingFor(x)
      BY <2>1 DEF Counted, WaitingFor
    <3>2. WaitingFor(x)' = IF x = <<g, s>> THEN WaitingFor(x) \cup {r} ELSE WaitingFor(x)
      BY <1>2, <1>5, Types DEF Go, WaitingFor
    <3>3. waiters'[x] = IF x = <<g, s>> THEN waiters[x] + 1 ELSE waiters[x]
      BY <1>5, <2>1
    <3> QED BY <2>1, <3>1, <3>2, <3>3, TallyJoins
  <2> QED BY <2>2 DEF Counted
<1> QED BY <1>1, <1>3, <1>4, <1>5

LEMMA BeginCount ==
  ASSUME IInv, Counted, NEW r \in Requests, Begin(r) PROVE Counted'
<1>1. pc[r] # "waiting" /\ cancels' = cancels /\ r \in Users
  BY DEF Begin, Users
<1>2. PICK g \in Runtimes :
        IF ~choosing[g] /\ door[g] = <<>>
          THEN Select(r, g) /\ UNCHANGED door
          ELSE /\ door' = [door EXCEPT ![g] = Append(@, r)]
               /\ Go(r, "selecting", <<g, 0>>)
               /\ UNCHANGED <<slots, nextSlot, choosing>>
  BY Zenon DEF Begin
<1>3. Select(r, g) \/ (Go(r, "selecting", <<g, 0>>) /\ UNCHANGED waiters)
  <2>1. CASE ~choosing[g] /\ door[g] = <<>>
    <3>1. Select(r, g)
      BY <1>2, <2>1, Zenon
    <3> QED BY <3>1
  <2>2. CASE ~(~choosing[g] /\ door[g] = <<>>)
    <3>1. Go(r, "selecting", <<g, 0>>) /\ UNCHANGED <<slots, nextSlot, choosing>>
      BY <1>2, <2>2, Zenon
    <3> QED BY <3>1 DEF slots
  <2> QED BY <2>1, <2>2
<1> QED BY <1>1, <1>3, SelectCount, GoUnseen, CountKept

LEMMA EnterCount ==
  ASSUME IInv, Counted, NEW r \in Requests, Enter(r) PROVE Counted'
<1>1. /\ pc[r] # "waiting" /\ cancels' = cancels /\ r \in Users
      /\ Select(r, at[r][1]) /\ pc[r] = "selecting"
  BY DEF Enter, Users
<1>2. at[r][1] \in Runtimes
  <2>1. at[r][1] \in 1..made /\ made \in 0..MaxRuntimes
    BY <1>1 DEF IInv, Placed, TypeOK
  <2> QED BY <2>1, SlotBounds DEF Runtimes
<1> QED BY <1>1, <1>2, SelectCount

LEMMA ServedCount ==
  ASSUME IInv, Counted, NEW r \in Requests, Served(r) PROVE Counted'
<1>1. /\ Go(r, "prompting", at[r]) \/ Go(r, "starting", at[r])
      /\ cancels' = cancels /\ r \in Users
  BY DEF Served, Occupy, Users
<1>2. CASE pc[r] = "handoff"
  <2>1. UNCHANGED waiters
    BY <1>2 DEF Served
  <2> QED BY <1>1, <1>2, <2>1, GoUnseen, CountKept
<1>3. CASE pc[r] = "waiting"
  <2>1. waiters' = [waiters EXCEPT ![at[r]] = IF @ = 0 THEN 0 ELSE @ - 1]
    BY <1>3 DEF Served
  <2>2. at[r] \in Places /\ waiters \in [Places -> Nat] /\ cancels \in Nat
    BY <1>1, <1>3, AtPlace DEF IInv, TypeOK
  <2>3. ASSUME NEW x \in Places PROVE Tally(waiters'[x], WaitingFor(x)', cancels')
    <3>1. Tally(waiters[x], WaitingFor(x), cancels) /\ waiters[x] \in Nat
      BY <2>2 DEF Counted
    <3>2. WaitingFor(x)' = IF x = at[r] THEN WaitingFor(x) \ {r} ELSE WaitingFor(x)
      BY <1>1, <1>3, Types DEF Go, WaitingFor
    <3>3. waiters'[x] = IF x = at[r] THEN IF waiters[x] = 0 THEN 0 ELSE waiters[x] - 1 ELSE waiters[x]
      BY <2>1, <2>2
    <3>4. x = at[r] => r \in WaitingFor(x)
      BY <1>3 DEF WaitingFor
    <3>5. CASE x = at[r]
      <4>1. Tally(IF waiters[x] = 0 THEN 0 ELSE waiters[x] - 1, WaitingFor(x) \ {r}, cancels)
        BY <2>2, <3>1, <3>4, <3>5, TallyServed
      <4> QED BY <1>1, <3>2, <3>3, <3>5, <4>1
    <3>6. CASE x # at[r]
      BY <1>1, <3>1, <3>2, <3>3, <3>6
    <3> QED BY <3>5, <3>6
  <2> QED BY <2>3 DEF Counted
<1> QED BY <1>2, <1>3 DEF Served

LEMMA CancelCount ==
  ASSUME IInv, Counted, NEW r \in Requests, Cancel(r) PROVE Counted'
<1>1. /\ Go(r, "cancelled", at[r]) /\ r \in Users
      /\ waiters' = waiters /\ cancels' = cancels + 1
  BY DEF Cancel, CancelSelecting, CancelHandoff, CancelWaiting, CancelUsing, slots, Users
<1>2. cancels \in Nat /\ waiters \in [Places -> Nat]
  BY <1>1 DEF IInv, TypeOK
<1>3. \A x \in Places : WaitingFor(x)' = WaitingFor(x) \ {r}
  BY <1>1, Types DEF Go, WaitingFor
<1>4. ASSUME NEW x \in Places PROVE Tally(waiters'[x], WaitingFor(x)', cancels')
  <2>1. Tally(waiters[x], WaitingFor(x), cancels) /\ waiters[x] \in Nat
    BY <1>2 DEF Counted
  <2>2. Tally(waiters[x], WaitingFor(x) \ {r}, cancels')
    BY <1>1, <1>2, <2>1, TallyLeft
  <2> QED BY <1>1, <1>3, <2>2
<1> QED BY <1>4 DEF Counted

LEMMA RequestCount ==
  ASSUME IInv, Counted, NEW r \in Requests,
         InitDone(r) \/ Emit(r) \/ Answer(r) \/ Close(r) \/ Retry(r) \/ GiveUp(r)
  PROVE  Counted'
<1>1. waiters' = waiters /\ cancels' = cancels /\ r \in Users /\ pc[r] \in Using
  BY DEF InitDone, Emit, Answer, Close, Retry, GiveUp, slots, Users, Using
<1>2. pc[r] # "waiting"
  BY <1>1 DEF Using
<1>3. CASE ~Answer(r)
  <2>1. \E to \in {"prompting", "emitting", "done", "starting", "fallback", "failed"} : \E y : Go(r, to, y)
    BY <1>3 DEF InitDone, Emit, Close, Retry, GiveUp
  <2>2. NobodyWaits
    BY <1>1, <1>2, <2>1, GoUnseen
  <2> QED BY <1>1, <2>2, CountKept
<1>4. CASE Answer(r)
  <2>1. at[r][1] \in Runtimes /\ at[r][1] \notin Requests
    BY <1>1, AtPlace, RequestsAssumption
  <2>2. \E to \in {"closing", "done"} : Schedule(r, to)
    BY <1>4 DEF Answer
  <2>3. \A q \in Requests : q # r => pc'[q] = pc[q] /\ at'[q] = at[q]
    BY <2>1, <2>2, Types DEF Schedule
  <2>4. pc'[r] # "waiting"
    BY <1>1, <2>1, <2>2, Types DEF Schedule
  <2>5. NobodyWaits
    BY <1>2, <2>3, <2>4 DEF NobodyWaits
  <2> QED BY <1>1, <2>5, CountKept
<1> QED BY <1>3, <1>4

LEMMA WarmCount ==
  ASSUME IInv, Counted, NEW g \in Runtimes, WarmStep(g) PROVE Counted'
<1>1. waiters' = waiters /\ cancels' = cancels /\ g \in Users /\ g \notin Requests
  BY RequestsAssumption
     DEF WarmStep, WarmBegin, WarmTake, InitDone, WarmNext, WarmFails, WarmClear, slots, Users
<1>2. \E to, y : Go(g, to, y)
  BY DEF WarmStep, WarmBegin, WarmTake, InitDone, WarmNext, WarmFails, WarmClear, GoOn
<1>3. NobodyWaits
  BY <1>1, <1>2, GoUnseen
<1> QED BY <1>1, <1>3, CountKept

\* The count by which a full pool chooses is never too low, and too high by at most
\* the number of requests that were cancelled.
THEOREM WaitersAreCounted == Spec => []WaitersCounted
<1>1. Init => Counted
  <2> SUFFICES ASSUME Init PROVE Counted
    OBVIOUS
  <2>1. cancels = 0 /\ \A x \in Places : WaitingFor(x) = {} /\ waiters[x] = 0
    BY DEF Init, WaitingFor, Users
  <2> QED BY <2>1, FS_EmptySet DEF Counted, Tally
<1>2. IInv /\ Counted /\ [Next]_vars => Counted'
  <2> SUFFICES ASSUME IInv, Counted, [Next]_vars PROVE Counted'
    OBVIOUS
  <2>1. CASE UNCHANGED vars
    BY <2>1 DEF vars, slots, Counted, WaitingFor
  <2>2. ASSUME NEW r \in Requests, Begin(r) \/ RequestStep(r) \/ Cancel(r)
        PROVE  Counted'
    BY <2>2, BeginCount, EnterCount, ServedCount, RequestCount, CancelCount DEF RequestStep
  <2>3. ASSUME NEW g \in Runtimes, WarmStep(g)
        PROVE  Counted'
    BY <2>3, WarmCount
  <2> QED BY <2>1, <2>2, <2>3 DEF Next
<1>3. Counted => WaitersCounted
  BY DEF Counted, Tally, WaitersCounted, WaitingFor
<1> QED BY InitIInv, StepIInv, <1>1, <1>2, <1>3, PTL DEF Spec

=============================================================================
