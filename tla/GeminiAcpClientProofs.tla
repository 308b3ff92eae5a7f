------------------------ MODULE GeminiAcpClientProofs ------------------------
(***************************************************************************)
(* Proofs about GeminiAcpClient: a request that was answered got the       *)
(* updates of its own prompt and the model it asked for, whatever failed,  *)
(* timed out or was left before it; for any number of requests, processes  *)
(* and faults.                                                             *)
(*                                                                         *)
(* The cache of the slot may be wrong about a process, and prompts that    *)
(* failed may run on in it.  Both come to nothing because the process is   *)
(* useless by then: no call can reach it any more (Stray).  So a request   *)
(* that can still be answered (Good) has no such prompt beside it (Alone)  *)
(* but of streams that were left, which the properties except.             *)
(***************************************************************************)
EXTENDS GeminiAcpClient, SequenceTheorems, TLAPS

Mail(p) == {inbox[p][i] : i \in DOMAIN inbox[p]}
Sent(p, q) == <<q, method[q]>> \in Mail(p)

\* No call will be written to process p again.
Useless(p) == process # p \/ readerTask = None

\* The cache, and what the requests took from it.
CacheOK ==
  /\ ~initialized => session = None
  /\ session = None => model = NoModel
Begun(q) ==
  /\ pc[q] = "idle" <=> q > taken
  /\ IF pc[q] = "idle" THEN method[q] = "initialize" /\ ofSession[q] = None ELSE wanted[q] \in Models
  /\ pc[q] \in {"using", "closing", "leaving"} =>
       /\ ofSession[q] = session
       /\ method[q] = Stage(wanted[q], initialized, session, model)
  /\ pc[q] \in {"closing", "leaving", "abandoned", "detached", "done"} => method[q] = "prompt"
  /\ method[q] # "cancel_session"
  /\ method[q] \in {"set_model", "prompt"} => ofSession[q] # None

\* The calls that a request may have.
CallsOK(q) ==
  /\ pc[q] = "using" => call[Own(q)] # "none"
  /\ pc[q] \in {"idle", "closing", "done", "failed"} => call[Own(q)] = "none"
  /\ ~Quit(q) \/ method[q] # "prompt" => call[Cancel(q)] = "none"
  /\ call[Own(q)] = "ready" => method[q] = "prompt"

\* A message is the one of its request's call, and there once.
Apart(p) ==
  \A i, j \in DOMAIN inbox[p] :
    i # j /\ inbox[p][i] = inbox[p][j] => inbox[p][i][2] = "cancel_session"
MailOK(p) ==
  /\ Apart(p)
  /\ \A q \in Requests, m \in Methods :
       <<q, m>> \in Mail(p) =>
         /\ p <= started
         /\ IF m = "cancel_session"
            THEN Quit(q) /\ method[q] = "prompt"
            ELSE /\ m = method[q] /\ pc[q] \notin {"idle", "closing", "done"}
                 /\ call[Own(q)] \notin {"ready", "starting", "ok"}
                 /\ \A o \in Processes : <<q, m>> \in Mail(o) => o = p

\* What a request that failed has left in a process.
Stray(q) ==
  pc[q] = "failed" \/ (pc[q] = "using" /\ call[Own(q)] = "error") =>
    \A p \in Processes : Sent(p, q) => Useless(p)

Opened(s) == homeOf[s] \in 1..started /\ method[s] \in {"set_model", "prompt"}
SessionOK(q) ==
  /\ ofSession[q] # None => Opened(ofSession[q])
  /\ method[q] = "new_session" /\ call[Own(q)] = "ok" => homeOf[q] \in 1..started

QueueOK(q) ==
  /\ \A s \in Requests : queue[s] = q =>
       /\ ofSession[q] = s /\ method[q] = "prompt" /\ mode[q] = "stream"
       /\ pc[q] \in {"using", "closing", "abandoned"}
  /\ mode[q] = "stream" /\ method[q] = "prompt" /\ pc[q] \in {"using", "closing"} =>
       queue[ofSession[q]] = q \/ QuitIn("prompt", q)
ClearOK(q) == method[q] # "prompt" => got[q] = {} /\ q \notin said \cup cut

\* The request was answered, or its prompt can still be.
Home(q) == homeOf[ofSession[q]]
Good(q) ==
  /\ method[q] = "prompt"
  /\ \/ pc[q] \in {"closing", "done"}
     \/ pc[q] = "using" /\ call[Own(q)] = "ok"
     \/ pc[q] = "using" /\ call[Own(q)] = "ready" /\ ~Useless(Home(q))
     \/ pc[q] = "using" /\ call[Own(q)] = "pending" /\ Sent(Home(q), q)
Alone(q) ==
  Good(q) /\ pc[q] # "done" =>
    \A o \in Requests : Sent(Home(q), o) /\ ~Quit(o) => o = q
UpdatesOK(q) ==
  Good(q) => QuitIn("prompt", q) \/ (got[q] = said \cap {q} /\ q \notin cut)

\* A session has model w, but for a stream that was left while it set the model.
SetQuit(s) == \E q \in Requests : Quit(q) /\ method[q] = "set_model" /\ ofSession[q] = s
Runs(s, w) == runs[s] = w \/ SetQuit(s)

\* The cache is right about the model, or useless, or being set.
Setting(r) ==
  pc[r] = "using" /\ method[r] = "set_model" /\ call[Own(r)] \in {"closing", "joining", "ok"}
ModelOK ==
  session # None /\ model # NoModel =>
    Runs(session, model) \/ Useless(homeOf[session]) \/ \E r \in Requests : Setting(r)
AnswersOK(q) ==
  /\ pc[q] = "using" /\ method[q] = "set_model" /\ call[Own(q)] = "ok" =>
       Runs(ofSession[q], wanted[q]) \/ Useless(Home(q))
  /\ Good(q) /\ pc[q] = "using" /\ call[Own(q)] # "ok" => Runs(ofSession[q], wanted[q])
  /\ Good(q) /\ (pc[q] # "using" \/ call[Own(q)] = "ok") =>
       answeredBy[q] = wanted[q] \/ SetQuit(ofSession[q])

IInv ==
  /\ TypeOK /\ CacheOK /\ ModelOK /\ process <= started
  /\ session # None => Opened(session)
  /\ \A p \in Processes : MailOK(p)
  /\ \A q \in Requests :
       /\ Begun(q) /\ CallsOK(q) /\ Stray(q) /\ SessionOK(q) /\ QueueOK(q) /\ ClearOK(q)
       /\ Alone(q) /\ UpdatesOK(q) /\ AnswersOK(q)

-----------------------------------------------------------------------------
(* Sequences of messages, and calls. *)

LEMMA AppendElements ==
  ASSUME NEW S, NEW s \in Seq(S), NEW e \in S
  PROVE  /\ Append(s, e) \in Seq(S)
         /\ DOMAIN s = 1..Len(s) /\ Len(s) \in Nat
         /\ DOMAIN Append(s, e) = 1..(Len(s) + 1)
         /\ Append(s, e)[Len(s) + 1] = e
         /\ \A i \in 1..Len(s) : Append(s, e)[i] = s[i]
OBVIOUS

\* A message is written to the end of an inbox.
LEMMA Added ==
  ASSUME TypeOK, NEW P \in Processes, NEW msg \in Requests \X Methods,
         inbox' = [inbox EXCEPT ![P] = Append(@, msg)]
  PROVE  /\ inbox' \in [Processes -> Seq(Requests \X Methods)]
         /\ \A p \in Processes : \A x : x \in Mail(p)' => x \in Mail(p) \/ (p = P /\ x = msg)
         /\ \A p \in Processes : \A x : x \in Mail(p) => x \in Mail(p)'
         /\ msg \in Mail(P)'
         /\ (msg \notin Mail(P) \/ msg[2] = "cancel_session") /\ Apart(P) => Apart(P)'
         /\ \A p \in Processes : p # P /\ Apart(p) => Apart(p)'
<1> DEFINE S == Requests \X Methods
           s == inbox[P]
           t == Append(s, msg)
<1>1. inbox \in [Processes -> Seq(S)] /\ s \in Seq(S) /\ msg \in S
  BY DEF TypeOK
<1>2. inbox'[P] = t /\ \A p \in Processes : p # P => inbox'[p] = inbox[p]
  BY <1>1
<1> HIDE DEF S
<1>3. /\ t \in Seq(S) /\ DOMAIN s = 1..Len(s) /\ Len(s) \in Nat
      /\ DOMAIN t = 1..(Len(s) + 1) /\ t[Len(s) + 1] = msg
      /\ \A i \in 1..Len(s) : t[i] = s[i]
  BY <1>1, AppendElements
<1> HIDE DEF t, s
<1>4. inbox' \in [Processes -> Seq(S)]
  BY <1>1, <1>3 DEF t, s
<1>5. Mail(P) = {s[i] : i \in DOMAIN s} /\ Mail(P)' = {t[i] : i \in DOMAIN t}
  BY <1>2 DEF Mail, s
<1>6. \A x : x \in Mail(P)' <=> x \in Mail(P) \/ x = msg
  <2> TAKE x
  <2>1. ASSUME x \in Mail(P)' PROVE x \in Mail(P) \/ x = msg
    <3>1. PICK i \in DOMAIN t : x = t[i]
      BY <1>5, <2>1
    <3>2. i = Len(s) + 1 \/ i \in 1..Len(s)
      BY <1>3
    <3> QED BY <1>3, <1>5, <3>1, <3>2
  <2>2. ASSUME x \in Mail(P) PROVE x \in Mail(P)'
    <3>1. PICK i \in DOMAIN s : x = s[i]
      BY <1>5, <2>2
    <3>2. i \in DOMAIN t /\ t[i] = x
      BY <1>3, <3>1
    <3> QED BY <1>5, <3>2
  <2>3. msg \in Mail(P)'
    <3>1. Len(s) + 1 \in DOMAIN t
      BY <1>3
    <3> QED BY <1>3, <1>5, <3>1
  <2> QED BY <2>1, <2>2, <2>3
<1>7. \A p \in Processes : p # P => Mail(p)' = Mail(p) /\ (Apart(p) => Apart(p)')
  BY <1>2 DEF Mail, Apart
<1>8. ASSUME msg \notin Mail(P) \/ msg[2] = "cancel_session", Apart(P) PROVE Apart(P)'
  <2>1. ASSUME NEW i \in DOMAIN t, NEW j \in DOMAIN t, i # j, t[i] = t[j]
        PROVE  t[i][2] = "cancel_session"
    <3>1. CASE i \in 1..Len(s) /\ j \in 1..Len(s)
      <4>1. s[i] = s[j] /\ t[i] = s[i] /\ i \in DOMAIN s /\ j \in DOMAIN s
        BY <1>3, <2>1, <3>1
      <4> QED BY <1>8, <2>1, <4>1 DEF Apart, s
    <3>2. CASE i = Len(s) + 1
      <4>1. j \in DOMAIN s /\ t[j] = s[j] /\ t[i] = msg
        BY <1>3, <2>1, <3>2
      <4>2. msg \in Mail(P)
        BY <1>5, <2>1, <4>1
      <4> QED BY <1>8, <4>1, <4>2
    <3>3. CASE j = Len(s) + 1
      <4>1. i \in DOMAIN s /\ t[i] = s[i] /\ t[j] = msg
        BY <1>3, <2>1, <3>3
      <4>2. msg \in Mail(P)
        BY <1>5, <2>1, <4>1
      <4> QED BY <1>8, <2>1, <4>1, <4>2
    <3> QED BY <1>3, <3>1, <3>2, <3>3
  <2> QED BY <1>2, <2>1 DEF Apart
<1>9. \A p \in Processes : \A x : x \in Mail(p)' => x \in Mail(p) \/ (p = P /\ x = msg)
  BY <1>6, <1>7
<1>10. \A p \in Processes : \A x : x \in Mail(p) => x \in Mail(p)'
  BY <1>6, <1>7
<1> QED BY <1>4, <1>6, <1>7, <1>8, <1>9, <1>10 DEF S

\* Message i leaves the inbox.
LEMMA Removed ==
  ASSUME TypeOK, NEW P \in Processes, NEW i \in DOMAIN inbox[P], Apart(P),
         inbox' = [inbox EXCEPT ![P] = Without(@, i)]
  PROVE  /\ inbox' \in [Processes -> Seq(Requests \X Methods)]
         /\ \A p \in Processes : Mail(p)' \subseteq Mail(p)
         /\ inbox[P][i][2] # "cancel_session" => inbox[P][i] \notin Mail(P)'
         /\ Apart(P)' /\ \A p \in Processes : p # P => Mail(p)' = Mail(p) /\ inbox'[p] = inbox[p]
<1> DEFINE S == Requests \X Methods
           s == inbox[P]
           t == Without(s, i)
           n == Len(s)
           at(j) == IF j < i THEN j ELSE j + 1
<1>1. inbox \in [Processes -> Seq(S)] /\ s \in Seq(S)
  BY DEF TypeOK
<1>2. inbox'[P] = t /\ \A p \in Processes : p # P => inbox'[p] = inbox[p]
  BY <1>1
<1> HIDE DEF S
<1>3. n \in Nat /\ DOMAIN s = 1..n /\ i \in 1..n
  BY <1>1
<1>4. /\ t \in Seq(S) /\ DOMAIN t = 1..(n - 1)
      /\ \A j \in 1..(n - 1) : t[j] = s[at(j)]
  <2> DEFINE a == SubSeq(s, 1, i - 1)
             b == SubSeq(s, i + 1, n)
  <2>1. t = a \o b
    BY DEF Without
  <2>2. /\ a \in Seq(S) /\ Len(a) = i - 1
        /\ \A j \in 1..(i - 1) : a[j] = s[j]
    <3>1. \A j \in 1..(i - 1) : s[j] \in S
      BY <1>1, <1>3
    <3> HIDE DEF s, n
    <3>2. 1 \in Int /\ i - 1 \in Int
      BY <1>3
    <3>3. /\ a \in Seq(S) /\ Len(a) = IF 1 <= i - 1 THEN (i - 1) - 1 + 1 ELSE 0
          /\ \A j \in 1..((i - 1) - 1 + 1) : a[j] = s[1 + j - 1]
      BY <3>1, <3>2, SubSeqProperties
    <3> HIDE DEF a
    <3> QED BY <1>3, <3>3
  <2>3. /\ b \in Seq(S) /\ Len(b) = n - i
        /\ \A j \in 1..(n - i) : b[j] = s[j + i]
    <3>1. \A j \in (i + 1)..n : s[j] \in S
      BY <1>1, <1>3
    <3> HIDE DEF s, n
    <3>2. i + 1 \in Int /\ n \in Int
      BY <1>3
    <3>3. /\ b \in Seq(S) /\ Len(b) = IF i + 1 <= n THEN n - (i + 1) + 1 ELSE 0
          /\ \A j \in 1..(n - (i + 1) + 1) : b[j] = s[(i + 1) + j - 1]
      BY <3>1, <3>2, SubSeqProperties
    <3> HIDE DEF a, b
    <3>4. \A j \in 1..(n - i) : (i + 1) + j - 1 = j + i /\ j \in 1..(n - (i + 1) + 1)
      BY <1>3
    <3> QED BY <1>3, <3>3, <3>4
  <2> HIDE DEF a, b
  <2>4. /\ a \o b \in Seq(S) /\ Len(a \o b) = Len(a) + Len(b)
        /\ DOMAIN (a \o b) = 1..(Len(a) + Len(b))
        /\ \A j \in 1..(Len(a) + Len(b)) :
              (a \o b)[j] = IF j <= Len(a) THEN a[j] ELSE b[j - Len(a)]
    <3>1. /\ a \o b \in Seq(S) /\ Len(a \o b) = Len(a) + Len(b)
          /\ \A j \in 1..Len(a) + Len(b) :
                (a \o b)[j] = IF j <= Len(a) THEN a[j] ELSE b[j - Len(a)]
      BY <2>2, <2>3, ConcatProperties
    <3> DEFINE e == a \o b
    <3>2. e \in Seq(S) /\ Len(e) = Len(a) + Len(b)
      BY <3>1
    <3> HIDE DEF e
    <3>3. DOMAIN e = 1..(Len(a) + Len(b))
      BY <3>2
    <3> QED BY <3>1, <3>3 DEF e
  <2>5. Len(a) + Len(b) = n - 1
    BY <1>3, <2>2, <2>3
  <2>6. ASSUME NEW j \in 1..(n - 1) PROVE (a \o b)[j] = s[at(j)]
    <3>1. CASE j < i
      <4>1. j <= Len(a) /\ j \in 1..(i - 1)
        BY <1>3, <2>2, <3>1
      <4> QED BY <2>2, <2>4, <2>5, <3>1, <4>1
    <3>2. CASE ~(j < i)
      <4>1. ~(j <= Len(a)) /\ j - Len(a) \in 1..(n - i) /\ (j - Len(a)) + i = j + 1
        BY <1>3, <2>2, <3>2
      <4> QED BY <2>3, <2>4, <2>5, <3>2, <4>1
    <3> QED BY <3>1, <3>2
  <2> QED BY <2>1, <2>4, <2>5, <2>6
<1>5. ASSUME NEW j \in 1..(n - 1) PROVE at(j) \in 1..n /\ at(j) # i
  BY <1>3
<1>6. ASSUME NEW j \in 1..(n - 1), NEW k \in 1..(n - 1), j # k PROVE at(j) # at(k)
  BY <1>3, <1>6
<1> HIDE DEF t, s, n, at
<1>7. inbox' \in [Processes -> Seq(S)]
  BY <1>1, <1>4 DEF t, s
<1>8. Mail(P) = {s[j] : j \in DOMAIN s} /\ Mail(P)' = {t[j] : j \in DOMAIN t}
  BY <1>2 DEF Mail, s
<1>9. Mail(P)' \subseteq Mail(P)
  BY <1>3, <1>4, <1>5, <1>8
<1>10. \A j, k \in 1..n : j # k /\ s[j] = s[k] => s[j][2] = "cancel_session"
  BY <1>3 DEF Apart, s
<1>11. s[i][2] # "cancel_session" => s[i] \notin Mail(P)'
  BY <1>3, <1>4, <1>5, <1>8, <1>10
<1>12. Apart(P)'
  <2>1. ASSUME NEW j \in 1..(n - 1), NEW k \in 1..(n - 1), j # k, t[j] = t[k]
        PROVE  t[j][2] = "cancel_session"
    BY <1>4, <1>5, <1>6, <1>10, <2>1
  <2>2. \A j, k \in DOMAIN inbox'[P] :
          j # k /\ inbox'[P][j] = inbox'[P][k] => inbox'[P][j][2] = "cancel_session"
    <3> TAKE j, k \in DOMAIN inbox'[P]
    <3>1. j \in 1..(n - 1) /\ k \in 1..(n - 1) /\ inbox'[P] = t
      BY <1>2, <1>4
    <3> QED BY <2>1, <3>1
  <2> QED BY <2>2 DEF Apart
<1>13. \A p \in Processes : p # P => Mail(p)' = Mail(p)
  BY <1>2 DEF Mail
<1> QED BY <1>2, <1>7, <1>9, <1>11, <1>12, <1>13 DEF S, s

\* An inbox is emptied.
LEMMA Emptied ==
  ASSUME TypeOK, NEW P \in Processes, inbox' = [inbox EXCEPT ![P] = <<>>]
  PROVE  /\ inbox' \in [Processes -> Seq(Requests \X Methods)]
         /\ \A p \in Processes : Mail(p)' \subseteq Mail(p) /\ (Apart(p) => Apart(p)')
<1>1. inbox \in [Processes -> Seq(Requests \X Methods)]
  BY DEF TypeOK
<1>2. inbox'[P] = <<>> /\ \A p \in Processes : p # P => inbox'[p] = inbox[p]
  BY <1>1
<1>3. \A p \in Processes : p # P => Mail(p)' = Mail(p) /\ (Apart(p) => Apart(p)')
  BY <1>2 DEF Mail, Apart
<1>4. DOMAIN inbox'[P] = {}
  BY <1>2
<1>5. Mail(P)' = {} /\ Apart(P)'
  BY <1>4 DEF Mail, Apart
<1> QED BY <1>1, <1>3, <1>5

LEMMA CallFacts ==
  /\ \A q \in Requests : Own(q) \in Calls /\ Cancel(q) \in Calls
  /\ \A q : Own(q)[1] = q /\ Own(q)[2] = "own" /\ Cancel(q)[1] = q /\ Cancel(q)[2] = "cancel"
  /\ \A q, o : Own(q) # Cancel(o) /\ (Own(q) = Own(o) => q = o) /\ (Cancel(q) = Cancel(o) => q = o)
  /\ \A c \in Calls : c[1] \in Requests /\ (c = Own(c[1]) \/ c = Cancel(c[1]))
BY DEF Own, Cancel, Calls

-----------------------------------------------------------------------------
(* Types. *)

States == {"none", "ready", "starting", "pending", "closing", "joining", "ok", "error"}
Places == {"idle", "using", "closing", "leaving", "abandoned", "detached", "done", "failed", "left"}
CallsOf(c) == \A d \in Calls : d # c => call'[d] = call[d]

\* What _request writes.
LEMMA IssueFacts ==
  ASSUME TypeOK, NEW c \in Calls, NEW m \in Methods, Issue(c, m)
  PROVE  /\ process' \in Processes \cup {None} /\ readerTask' \in Processes \cup {None}
         /\ call' \in [Calls -> States] /\ CallsOf(c)
         /\ inbox' \in [Processes -> Seq(Requests \X Methods)]
         /\ \/ /\ call'[c] = "error" /\ process' = process /\ readerTask' = readerTask
               /\ inbox' = inbox
            \/ /\ call'[c] = "starting" /\ process' = None /\ readerTask' = None
               /\ inbox' = inbox
            \/ /\ call'[c] = "pending" /\ process' = process /\ readerTask' = readerTask
               /\ process \in Processes /\ process # None /\ readerTask # None
               /\ inbox' = [inbox EXCEPT ![process] = Append(@, <<c[1], m>>)]
<1>1. /\ call \in [Calls -> States] /\ inbox \in [Processes -> Seq(Requests \X Methods)]
      /\ process \in Processes \cup {None} /\ readerTask \in Processes \cup {None}
  BY DEF TypeOK, States
<1>2. c[1] \in Requests
  BY CallFacts
<1>3. \E n \in {"error", "starting", "pending"} : call' = [call EXCEPT ![c] = n]
  BY DEF Issue
<1>4. call' \in [Calls -> States] /\ CallsOf(c)
  BY <1>1, <1>3 DEF States, CallsOf
<1>5. CASE Healthy /\ process \in shut
  <2>1. call' = [call EXCEPT ![c] = "error"] /\ UNCHANGED <<inbox, process, readerTask>>
    BY <1>5 DEF Issue
  <2> QED BY <1>1, <1>4, <2>1
<1>6. CASE Healthy /\ process \notin shut
  <2>1. /\ call' = [call EXCEPT ![c] = "pending"] /\ process' = process /\ readerTask' = readerTask
        /\ inbox' = [inbox EXCEPT ![process] = Append(@, <<c[1], m>>)]
    BY <1>6 DEF Issue
  <2>2. process \in Processes /\ process # None /\ readerTask # None
    BY <1>1, <1>6 DEF Healthy
  <2> DEFINE msg == <<c[1], m>>
  <2>3. msg \in Requests \X Methods /\ inbox' = [inbox EXCEPT ![process] = Append(@, msg)]
    BY <1>2, <2>1
  <2> HIDE DEF msg
  <2>4. inbox' \in [Processes -> Seq(Requests \X Methods)]
    BY <2>2, <2>3, Added
  <2> QED BY <1>1, <1>4, <2>1, <2>2, <2>4
<1>7. CASE ~Healthy
  <2>1. call' = [call EXCEPT ![c] = "starting"] /\ process' = None /\ readerTask' = None /\ inbox' = inbox
    BY <1>7 DEF Issue
  <2> QED BY <1>1, <1>4, <2>1
<1> QED BY <1>5, <1>6, <1>7

\* A reader finished: what it does to a call.
FailsOr(c, how) ==
  \/ call'[c] = how
  \/ /\ how = "pending" /\ readerTask' = None
     /\ call'[c] = IF pc[c[1]] = "left" THEN "none" ELSE "error"

\* Calls whose task is cancelled.
LEMMA AbandonFacts ==
  ASSUME TypeOK, NEW cs \in SUBSET Calls, Abandon(cs)
  PROVE  /\ reading' \subseteq Processes /\ readerTask' \in {readerTask, None}
         /\ call' \in [Calls -> States]
         /\ \A c \in cs : call'[c] = "none"
         /\ \A c \in Calls \ cs : FailsOr(c, call[c])
<1> DEFINE joined == {closing[r] : r \in {q \in Requests : Own(q) \in cs /\ call[Own(q)] = "joining"}}
           rest == [c \in Calls |-> IF c \in cs THEN "none" ELSE call[c]]
<1>1. \/ call' = rest /\ reading' = reading /\ readerTask' = readerTask
      \/ call' = Failed(rest) /\ reading' = reading \ joined /\ readerTask' = None
  BY DEF Abandon
<1> HIDE DEF joined
<1>2. call \in [Calls -> States] /\ reading \subseteq Processes
  BY DEF TypeOK, States
<1>3. CASE call' = rest /\ reading' = reading /\ readerTask' = readerTask
  <2>1. call' \in [Calls -> States]
    BY <1>2, <1>3 DEF States
  <2>2. \A c \in cs : call'[c] = "none"
    BY <1>3
  <2>3. \A c \in Calls \ cs : call'[c] = call[c]
    BY <1>3
  <2> QED BY <1>2, <1>3, <2>1, <2>2, <2>3 DEF FailsOr
<1>4. CASE call' = Failed(rest) /\ reading' = reading \ joined /\ readerTask' = None
  <2>1. call' = [c \in Calls |-> IF rest[c] = "pending" THEN Result(c, "error") ELSE rest[c]]
    BY <1>4 DEF Failed
  <2>2. \A c \in cs : call'[c] = "none"
    BY <2>1
  <2>3. ASSUME NEW c \in Calls, c \notin cs PROVE FailsOr(c, call[c]) /\ call'[c] \in States
    <3>1. rest[c] = call[c]
      BY <2>3
    <3>2. call'[c] = IF call[c] = "pending" THEN Result(c, "error") ELSE call[c]
      BY <2>1, <3>1
    <3>3. call[c] \in States
      BY <1>2
    <3> QED BY <1>4, <3>2, <3>3 DEF FailsOr, Result, States
  <2>4. call' \in [Calls -> States]
    <3> HIDE DEF rest
    <3>1. \A c \in Calls : call'[c] \in States
      BY <2>2, <2>3 DEF States
    <3> QED BY <2>1, <3>1
  <2> QED BY <1>2, <1>4, <2>2, <2>3, <2>4
<1> QED BY <1>1, <1>3, <1>4

LEMMA DropFacts ==
  ASSUME TypeOK, NEW r \in Requests, Drop(r)
  PROVE  /\ queue' \in [Requests -> Requests \cup {None}]
         /\ \A s \in Requests : queue'[s] = queue[s] \/ (queue'[s] = None /\ s = ofSession[r])
         /\ mode[r] = "stream" /\ method[r] = "prompt" /\ ofSession[r] \in Requests =>
              queue'[ofSession[r]] = None
         /\ (mode[r] = "stream" /\ method[r] = "prompt") \/ queue' = queue
<1>1. queue \in [Requests -> Requests \cup {None}]
  BY DEF TypeOK
<1>2. CASE mode[r] = "stream" /\ method[r] = "prompt"
  <2>1. queue' = [queue EXCEPT ![ofSession[r]] = None]
    BY <1>2 DEF Drop
  <2> QED BY <1>1, <1>2, <2>1
<1>3. CASE ~(mode[r] = "stream" /\ method[r] = "prompt")
  <2>1. queue' = queue
    BY <1>3 DEF Drop
  <2> QED BY <1>1, <1>3, <2>1
<1> QED BY <1>2, <1>3

LEMMA CallTypes ==
  ASSUME TypeOK, NEW c \in Calls
  PROVE  /\ call \in [Calls -> States] /\ States = {"none", "ready", "starting", "pending", "closing", "joining", "ok", "error"}
         /\ \A h : Result(c, h) \in {"none", h}
BY DEF TypeOK, States, Result

\* The calls and the processes.
LEMMA CallStepTypes ==
  ASSUME TypeOK, NEW r \in Requests, CallStep(r)
  PROVE  TypeOK'
<1>0. /\ call \in [Calls -> States] /\ closing \in [Requests -> Processes \cup {None}]
      /\ alive \subseteq Processes /\ reading \subseteq Processes /\ shut \subseteq Processes
      /\ process \in Processes \cup {None} /\ readerTask \in Processes \cup {None}
      /\ started \in 0..MaxProcesses
  BY DEF TypeOK, States
<1>1. ASSUME NEW c \in {Own(r), Cancel(r)}, Spawned(c) PROVE TypeOK'
  <2> DEFINE msg == <<c[1], MethodOf(c)>>
  <2>1. started + 1 \in Processes /\ started + 1 \in 0..MaxProcesses
    BY <1>0, <1>1, AcpBounds DEF Spawned, Processes
  <2>2. c \in Calls /\ msg \in Requests \X Methods
    <3>1. c \in Calls /\ c[1] \in Requests
      BY CallFacts
    <3>2. MethodOf(c) \in Methods
      BY <3>1 DEF TypeOK, MethodOf, Methods
    <3> QED BY <3>1, <3>2
  <2>3. /\ inbox' = [inbox EXCEPT ![started + 1] = Append(@, msg)]
        /\ call' = [call EXCEPT ![c] = "pending"]
        /\ started' = started + 1 /\ process' = started + 1 /\ readerTask' = started + 1
        /\ alive' = alive \cup {started + 1} /\ reading' = reading \cup {started + 1}
        /\ UNCHANGED <<shut, method, closing, cache, users, queue, truth, bounds>>
    BY <1>1 DEF Spawned
  <2> HIDE DEF msg
  <2>4. inbox' \in [Processes -> Seq(Requests \X Methods)]
    BY <2>1, <2>2, <2>3, Added
  <2>5. call' \in [Calls -> States]
    BY <1>0, <2>3 DEF States
  <2> QED BY <1>0, <2>1, <2>3, <2>4, <2>5 DEF TypeOK, States, cache, users, truth, bounds
<1>2. ASSUME NEW c \in {Own(r), Cancel(r)}, SpawnFails(c) PROVE TypeOK'
  <2>1. c \in Calls
    BY CallFacts
  <2>2. call' \in [Calls -> States]
    <3>1. Result(c, "error") \in States
      BY <2>1, CallTypes
    <3> QED BY <1>0, <1>2, <3>1 DEF SpawnFails
  <2> QED BY <1>2, <2>2 DEF SpawnFails, TypeOK, States, handles, cache, users, truth, bounds
<1>3. Own(r) \in Calls /\ Result(Own(r), "error") \in States /\ "closing" \in States /\ "joining" \in States
  BY CallFacts, CallTypes
<1>4. CASE TimeOut(r)
  <2>1. /\ \E n \in States : call' = [call EXCEPT ![Own(r)] = n]
        /\ \/ closing' = closing /\ shut' = shut
           \/ /\ process # None /\ closing' = [closing EXCEPT ![r] = process]
              /\ shut' = shut \cup {process}
        /\ UNCHANGED <<process, readerTask, started, alive, reading, method, inbox,
                       cache, users, queue, truth, bounds>>
    BY <1>3, <1>4 DEF TimeOut
  <2>2. call' \in [Calls -> States]
    BY <1>0, <2>1
  <2>3. closing' \in [Requests -> Processes \cup {None}] /\ shut' \subseteq Processes
    BY <1>0, <2>1
  <2> QED BY <2>1, <2>2, <2>3 DEF TypeOK, States, cache, users, truth, bounds
<1>5. CASE Kill(r)
  <2>1. /\ \E n \in States : call' = [call EXCEPT ![Own(r)] = n] \/ call' = call
        /\ closing' = closing \/ closing' = [closing EXCEPT ![r] = process]
        /\ alive' \subseteq alive
        /\ UNCHANGED <<process, readerTask, started, reading, shut, method, inbox,
                   cache, users, queue, truth, bounds>>
    BY <1>3, <1>5 DEF Kill
  <2>2. call' \in [Calls -> States]
    BY <1>0, <2>1
  <2>3. closing' \in [Requests -> Processes \cup {None}] /\ alive' \subseteq Processes
    BY <1>0, <2>1
  <2> QED BY <2>1, <2>2, <2>3 DEF TypeOK, States, cache, users, truth, bounds
<1>6. CASE Ended(r) \/ Joined(r)
  <2>1. /\ \E n \in States : call' = [call EXCEPT ![Own(r)] = n]
        /\ \E p \in Processes \cup {None} : closing' = [closing EXCEPT ![r] = p]
        /\ process' \in {process, None} /\ readerTask' \in {readerTask, None}
        /\ UNCHANGED <<started, alive, reading, shut, method, inbox, cache, users, queue, truth, bounds>>
    BY <1>0, <1>3, <1>6 DEF Ended, Joined, Reset
  <2>2. call' \in [Calls -> States]
    BY <1>0, <2>1
  <2>3. /\ closing' \in [Requests -> Processes \cup {None}]
        /\ process' \in Processes \cup {None} /\ readerTask' \in Processes \cup {None}
    BY <1>0, <2>1
  <2> QED BY <2>1, <2>2, <2>3 DEF TypeOK, States, cache, users, truth, bounds
<1> QED BY <1>1, <1>2, <1>4, <1>5, <1>6 DEF CallStep

LEMMA ProcessTypes ==
  ASSUME TypeOK, NEW p \in Processes, Die(p) \/ ReaderEnds(p) \/ Update(p)
  PROVE  TypeOK'
<1>1. /\ faults' \in 0..MaxFaults
      /\ \/ Die(p) \/ ReaderEnds(p)
         \/ Update(p)
  <2>1. faults \in 0..MaxFaults
    BY DEF TypeOK
  <2> QED BY <2>1, AcpBounds DEF Die, ReaderEnds, Update, Fault, bounds
<1>2. CASE Die(p)
  <2>1. inbox' \in [Processes -> Seq(Requests \X Methods)]
    BY <1>2, Emptied DEF Die
  <2> QED BY <1>1, <1>2, <2>1 DEF Die, TypeOK, cache, users, truth
<1>3. CASE ReaderEnds(p)
  <2>1. inbox' \in [Processes -> Seq(Requests \X Methods)]
    BY <1>3, Emptied DEF ReaderEnds
  <2>2. call' \in [Calls -> States]
    <3>1. ASSUME NEW c \in Calls
          PROVE  (IF call[c] = "pending" THEN Result(c, "error") ELSE call[c]) \in States
      BY CallTypes
    <3>2. call' = [c \in Calls |-> IF call[c] = "pending" THEN Result(c, "error") ELSE call[c]]
      BY <1>3 DEF ReaderEnds, Failed
    <3> QED BY <3>1, <3>2
  <2> QED BY <1>1, <1>3, <2>1, <2>2 DEF ReaderEnds, TypeOK, States, cache, users, truth
<1>4. CASE Update(p)
  <2>1. PICK i \in DOMAIN inbox[p] :
          /\ said' = said \cup {inbox[p][i][1]}
          /\ got' = [r \in Requests |-> IF r \in Listeners(ofSession[inbox[p][i][1]])
                                        THEN got[r] \cup {inbox[p][i][1]} ELSE got[r]]
    BY <1>4 DEF Update
  <2>2. inbox[p][i][1] \in Requests
    <3>1. inbox[p] \in Seq(Requests \X Methods)
      BY DEF TypeOK
    <3> DEFINE S == Requests \X Methods
    <3> HIDE DEF S
    <3>2. inbox[p][i] \in S
      BY <3>1 DEF S
    <3> QED BY <3>2 DEF S
  <2>3. said' \subseteq Requests /\ got' \in [Requests -> SUBSET Requests]
    BY <2>1, <2>2 DEF TypeOK
  <2> QED BY <1>1, <1>4, <2>3 DEF Update, TypeOK, handles, calls, cache, users, bounds
<1> QED BY <1>1, <1>2, <1>3, <1>4

LEMMA StageFacts ==
  ASSUME NEW w, NEW i \in BOOLEAN, NEW s, NEW cached
  PROVE  /\ Stage(w, i, s, cached) \in Methods \ {"cancel_session"}
         /\ Stage(w, i, s, cached) = "initialize" <=> ~i
         /\ Stage(w, i, s, cached) = "new_session" <=> i /\ s = None
         /\ Stage(w, i, s, cached) = "set_model" <=> i /\ s # None /\ cached # w
         /\ Stage(w, i, s, cached) = "prompt" <=> i /\ s # None /\ cached = w
BY DEF Stage, Methods

\* The own call of a request was issued.
Issued(r, m) ==
  \/ /\ call'[Own(r)] = "error" /\ process' = process /\ readerTask' = readerTask
     /\ inbox' = inbox
  \/ /\ call'[Own(r)] = "starting" /\ process' = None /\ readerTask' = None
     /\ inbox' = inbox
  \/ /\ call'[Own(r)] = "pending" /\ process' = process /\ readerTask' = readerTask
     /\ process \in Processes /\ process # None /\ readerTask # None
     /\ inbox' = [inbox EXCEPT ![process] = Append(@, <<r, m>>)]
OthersKept(r) ==
  \A d \in Calls : d # Own(r) => call'[d] = call[d]

\* A call is issued, or a stream listens to session s.
GoneOn(r, m, s, next) ==
  \/ /\ next = "prompt" /\ m = "stream" /\ s # None
     /\ queue'[s] = r /\ (\A o \in Requests : o # s => queue'[o] = queue[o])
     /\ call'[Own(r)] = "ready"
     /\ process' = process /\ readerTask' = readerTask /\ inbox' = inbox
  \/ ~(next = "prompt" /\ m = "stream") /\ Issued(r, next) /\ queue' = queue

\* The end of GoOn.
GoesOn(r, m, s, next) ==
  IF next = "prompt" /\ m = "stream"
  THEN /\ queue' = [queue EXCEPT ![s] = r]
       /\ call' = [call EXCEPT ![Own(r)] = "ready"]
       /\ UNCHANGED <<process, readerTask, inbox>>
  ELSE Issue(Own(r), next) /\ UNCHANGED queue
IssueTyped ==
  /\ process' \in Processes \cup {None} /\ readerTask' \in Processes \cup {None}
  /\ call' \in [Calls -> States]
  /\ inbox' \in [Processes -> Seq(Requests \X Methods)]
  /\ queue' \in [Requests -> Requests \cup {None}]

LEMMA GoOnFacts ==
  ASSUME TypeOK, NEW r \in Requests, NEW m, NEW s \in Requests \cup {None},
         NEW next \in Methods, next = "prompt" => s # None, GoesOn(r, m, s, next)
  PROVE  IssueTyped /\ OthersKept(r) /\ GoneOn(r, m, s, next)
<1>1. Own(r) \in Calls /\ Own(r)[1] = r
  BY CallFacts
<1>2. CASE next = "prompt" /\ m = "stream"
  <2>1. /\ queue' = [queue EXCEPT ![s] = r]
        /\ call' = [call EXCEPT ![Own(r)] = "ready"]
        /\ process' = process /\ readerTask' = readerTask /\ inbox' = inbox
    BY <1>2 DEF GoesOn
  <2>2. call' \in [Calls -> States] /\ OthersKept(r) /\ call'[Own(r)] = "ready"
    BY <1>1, <2>1, CallTypes DEF OthersKept
  <2>3. /\ process' \in Processes \cup {None} /\ readerTask' \in Processes \cup {None}
        /\ inbox' \in [Processes -> Seq(Requests \X Methods)]
    BY <2>1 DEF TypeOK
  <2>4. /\ queue' \in [Requests -> Requests \cup {None}] /\ s # None
        /\ queue'[s] = r /\ \A o \in Requests : o # s => queue'[o] = queue[o]
    BY <1>2, <2>1 DEF TypeOK
  <2> QED BY <1>2, <2>1, <2>2, <2>3, <2>4 DEF GoneOn, IssueTyped
<1>3. CASE ~(next = "prompt" /\ m = "stream")
  <2>1. Issue(Own(r), next) /\ queue' = queue
    BY <1>3 DEF GoesOn
  <2>2. /\ process' \in Processes \cup {None} /\ readerTask' \in Processes \cup {None}
        /\ call' \in [Calls -> States] /\ OthersKept(r) /\ Issued(r, next)
        /\ inbox' \in [Processes -> Seq(Requests \X Methods)]
    BY <1>1, <2>1, IssueFacts DEF CallsOf, OthersKept, Issued
  <2>3. queue' \in [Requests -> Requests \cup {None}]
    BY <2>1 DEF TypeOK
  <2> QED BY <1>3, <2>1, <2>2, <2>3 DEF GoneOn, IssueTyped
<1> QED BY <1>2, <1>3

\* The places of the requests, and the lock.
LEMMA PlaceTypes ==
  ASSUME TypeOK, NEW r \in Requests, NEW to \in Places, pc' = [pc EXCEPT ![r] = to],
         \/ Leaves(r, to) /\ to \notin {"using", "closing", "leaving"}
         \/ to \in {"using", "closing", "leaving"} /\ holder' = r /\ holder \in {r, None}
         \/ /\ pc[r] \in {"using", "closing", "leaving"} <=> to \in {"using", "closing", "leaving"}
            /\ holder' = holder
  PROVE  /\ pc' \in [Requests -> Places] /\ holder' \in Requests \cup {None}
         /\ \A q \in Requests : holder' = q <=> pc'[q] \in {"using", "closing", "leaving"}
<1>1. /\ pc \in [Requests -> Places] /\ holder \in Requests \cup {None}
      /\ \A q \in Requests : holder = q <=> pc[q] \in {"using", "closing", "leaving"}
  BY DEF TypeOK, Places
<1>2. pc' \in [Requests -> Places] /\ pc'[r] = to /\ \A q \in Requests : q # r => pc'[q] = pc[q]
  BY <1>1
<1>3. r # None
  BY DEF Requests, None
<1>4. holder' \in Requests \cup {None}
  BY <1>1 DEF Leaves
<1>5. ASSUME NEW q \in Requests
      PROVE  holder' = q <=> pc'[q] \in {"using", "closing", "leaving"}
  <2>1. q # None /\ (holder = q <=> pc[q] \in {"using", "closing", "leaving"})
    BY <1>1 DEF Requests, None
  <2>2. CASE Leaves(r, to) /\ to \notin {"using", "closing", "leaving"}
    <3>1. holder' = IF holder = r THEN None ELSE holder
      BY <2>2 DEF Leaves
    <3> QED BY <1>1, <1>2, <1>3, <2>1, <2>2, <3>1
  <2>3. CASE to \in {"using", "closing", "leaving"} /\ holder' = r /\ holder \in {r, None}
    BY <1>1, <1>2, <2>1, <2>3
  <2>4. CASE /\ pc[r] \in {"using", "closing", "leaving"} <=> to \in {"using", "closing", "leaving"}
             /\ holder' = holder
    BY <1>1, <1>2, <2>1, <2>4
  <2> QED BY <2>2, <2>3, <2>4
<1> QED BY <1>2, <1>4, <1>5

LEMMA TakeTypes ==
  ASSUME TypeOK, NEW m \in Modes, NEW w \in Models, Take(m, w)
  PROVE  TypeOK'
<1>0. PICK r \in Requests : r = taken + 1
  BY DEF Take
<1>1. /\ holder = None /\ taken' = r
      /\ mode' = [mode EXCEPT ![r] = m] /\ wanted' = [wanted EXCEPT ![r] = w]
      /\ UNCHANGED <<started, alive, reading, shut, closing, homeOf, runs, said,
                   got, cut, answeredBy, bounds>>
  BY <1>0 DEF Take
<1>2. PICK i \in BOOLEAN, s \in Requests \cup {None}, cached \in Models \cup {NoModel} :
        GoOn(r, m, w, i, s, cached)
  <2>1. CASE Healthy
    BY <1>0, <2>1 DEF Take, TypeOK
  <2>2. CASE ~Healthy
    BY <1>0, <2>2 DEF Take
  <2> QED BY <2>1, <2>2
<1>3. PICK next \in Methods \ {"cancel_session"} :
        /\ next = Stage(w, i, s, cached) /\ (next = "prompt" => s # None)
        /\ initialized' = i /\ session' = s /\ model' = cached /\ holder' = r
        /\ pc' = [pc EXCEPT ![r] = "using"] /\ method' = [method EXCEPT ![r] = next]
        /\ ofSession' = [ofSession EXCEPT ![r] = s] /\ GoesOn(r, m, s, next)
  <2> DEFINE next == Stage(w, i, s, cached)
  <2>1. next \in Methods \ {"cancel_session"} /\ (next = "prompt" => s # None)
    BY StageFacts
  <2>2. /\ initialized' = i /\ session' = s /\ model' = cached /\ holder' = r
        /\ pc' = [pc EXCEPT ![r] = "using"] /\ method' = [method EXCEPT ![r] = next]
        /\ ofSession' = [ofSession EXCEPT ![r] = s] /\ GoesOn(r, m, s, next)
    BY <1>2 DEF GoOn, GoesOn
  <2> QED BY <2>1, <2>2
<1>4. IssueTyped
  BY <1>3, GoOnFacts
<1>5. /\ pc' \in [Requests -> Places] /\ holder' \in Requests \cup {None}
      /\ \A q \in Requests : holder' = q <=> pc'[q] \in {"using", "closing", "leaving"}
  <2>1. "using" \in Places /\ "using" \in {"using", "closing", "leaving"}
    BY DEF Places
  <2> QED BY <1>1, <1>3, <2>1, PlaceTypes
<1>6. taken' \in 0..MaxRequests
  BY <1>1 DEF Requests
<1>7. /\ method' \in [Requests -> Methods] /\ ofSession' \in [Requests -> Requests \cup {None}]
      /\ mode' \in [Requests -> Modes] /\ wanted' \in [Requests -> Models \cup {NoModel}]
  BY <1>1, <1>3, <1>4 DEF TypeOK
<1> QED BY <1>1, <1>3, <1>4, <1>5, <1>6, <1>7 DEF IssueTyped, TypeOK, States, Places, bounds

LEMMA PreparedTypes ==
  ASSUME TypeOK, NEW r \in Requests, Prepared(r)
  PROVE  TypeOK'
<1>1. /\ pc[r] = "using"
      /\ UNCHANGED <<started, alive, reading, shut, closing, taken, mode, wanted,
                     homeOf, runs, said, got, cut, answeredBy, bounds>>
  BY DEF Prepared
<1>2. PICK i \in BOOLEAN, s \in Requests \cup {None}, cached \in Models \cup {NoModel} :
        GoOn(r, mode[r], wanted[r], i, s, cached)
  <2>1. CASE method[r] = "initialize"
    BY <2>1 DEF Prepared, TypeOK
  <2>2. CASE method[r] = "new_session"
    BY <2>2 DEF Prepared, TypeOK
  <2>3. CASE method[r] \notin {"initialize", "new_session"}
    BY <2>3 DEF Prepared, TypeOK
  <2> QED BY <2>1, <2>2, <2>3
<1>3. PICK m \in Modes, w \in Models \cup {NoModel} : m = mode[r] /\ w = wanted[r]
  BY DEF TypeOK
<1>4. PICK next \in Methods \ {"cancel_session"} :
        /\ next = Stage(w, i, s, cached) /\ (next = "prompt" => s # None)
        /\ initialized' = i /\ session' = s /\ model' = cached /\ holder' = r
        /\ pc' = [pc EXCEPT ![r] = "using"] /\ method' = [method EXCEPT ![r] = next]
        /\ ofSession' = [ofSession EXCEPT ![r] = s] /\ GoesOn(r, m, s, next)
  <2>1. GoOn(r, m, w, i, s, cached)
    BY <1>2, <1>3
  <2> DEFINE next == Stage(w, i, s, cached)
  <2>2. next \in Methods \ {"cancel_session"} /\ (next = "prompt" => s # None)
    BY StageFacts
  <2>3. /\ initialized' = i /\ session' = s /\ model' = cached /\ holder' = r
        /\ pc' = [pc EXCEPT ![r] = "using"] /\ method' = [method EXCEPT ![r] = next]
        /\ ofSession' = [ofSession EXCEPT ![r] = s] /\ GoesOn(r, m, s, next)
    BY <2>1 DEF GoOn, GoesOn
  <2> QED BY <2>2, <2>3
<1>5. IssueTyped
  BY <1>4, GoOnFacts
<1>6. /\ pc' \in [Requests -> Places] /\ holder' \in Requests \cup {None}
      /\ \A q \in Requests : holder' = q <=> pc'[q] \in {"using", "closing", "leaving"}
  <2>1. "using" \in Places /\ "using" \in {"using", "closing", "leaving"}
    BY DEF Places
  <2>2. holder = r
    BY <1>1 DEF TypeOK
  <2> QED BY <1>4, <2>1, <2>2, PlaceTypes
<1>7. method' \in [Requests -> Methods] /\ ofSession' \in [Requests -> Requests \cup {None}]
  BY <1>4, <1>5 DEF TypeOK
<1> QED BY <1>1, <1>4, <1>5, <1>6, <1>7 DEF IssueTyped, TypeOK, States, Places, bounds

\* A request that moves on its way out, or whose clean-up does.
LEMMA LeavingTypes ==
  ASSUME TypeOK, NEW r \in Requests,
         \/ Prompted(r) \/ Finish(r) \/ Fail(r) \/ CleanUp(r) \/ CleanedUp(r) \/ Leave(r)
  PROVE  /\ pc' \in [Requests -> Places] /\ holder' \in Requests \cup {None}
         /\ \A q \in Requests : holder' = q <=> pc'[q] \in {"using", "closing", "leaving"}
<1> USE DEF Places
<1>1. CASE Prompted(r) /\ mode[r] = "chat"
  <2>1. Leaves(r, "done") /\ pc' = [pc EXCEPT ![r] = "done"]
    BY <1>1 DEF Prompted, Leaves
  <2> QED BY <2>1, PlaceTypes
<1>2. CASE Prompted(r) /\ mode[r] # "chat"
  <2>1. pc[r] = "using" /\ pc' = [pc EXCEPT ![r] = "closing"] /\ holder' = holder
    BY <1>2 DEF Prompted
  <2> QED BY <2>1, PlaceTypes
<1>3. CASE Finish(r)
  <2>1. Leaves(r, "done") /\ pc' = [pc EXCEPT ![r] = "done"]
    BY <1>3 DEF Finish, Leaves
  <2> QED BY <2>1, PlaceTypes
<1>4. CASE Fail(r)
  <2>1. Leaves(r, "failed") /\ pc' = [pc EXCEPT ![r] = "failed"]
    BY <1>4 DEF Fail, Leaves
  <2> QED BY <2>1, PlaceTypes
<1>5. CASE CleanUp(r)
  <2>1. PICK to \in {"detached", "left"} : pc' = [pc EXCEPT ![r] = to]
    BY <1>5 DEF CleanUp
  <2>2. pc[r] = "abandoned" /\ holder' = holder
    BY <1>5 DEF CleanUp
  <2> QED BY <2>1, <2>2, PlaceTypes
<1>6. CASE CleanedUp(r) \/ LeavePreparing(r)
  <2>1. Leaves(r, "left") /\ pc' = [pc EXCEPT ![r] = "left"]
    BY <1>6 DEF CleanedUp, LeavePreparing, Leaves
  <2> QED BY <2>1, PlaceTypes
<1>7. CASE LeaveWaiting(r)
  <2>1. pc[r] = "using" /\ pc' = [pc EXCEPT ![r] = "leaving"] /\ holder' = holder
    BY <1>7 DEF LeaveWaiting
  <2> QED BY <2>1, PlaceTypes
<1>8. CASE LeaveYielding(r)
  <2>1. Leaves(r, "abandoned") /\ pc' = [pc EXCEPT ![r] = "abandoned"]
    BY <1>8 DEF LeaveYielding, Leaves
  <2> QED BY <2>1, PlaceTypes
<1> QED BY <1>1, <1>2, <1>3, <1>4, <1>5, <1>6, <1>7, <1>8 DEF Leave

LEMMA OutTypes ==
  ASSUME TypeOK, NEW r \in Requests, Prompted(r) \/ Finish(r) \/ Fail(r)
  PROVE  TypeOK'
<1>1. /\ pc' \in [Requests -> Places] /\ holder' \in Requests \cup {None}
      /\ \A q \in Requests : holder' = q <=> pc'[q] \in {"using", "closing", "leaving"}
  BY LeavingTypes
<1>2. call' = call \/ call' = [call EXCEPT ![Own(r)] = "none"]
  BY DEF Prompted, Finish, Fail, Forget, calls
<1>3. call' \in [Calls -> States]
  <2>1. "none" \in States
    BY DEF States
  <2> QED BY <1>2, <2>1 DEF TypeOK, States
<1>4. queue' \in [Requests -> Requests \cup {None}]
  <2>1. queue' = queue \/ Drop(r)
    BY DEF Prompted, Finish, Fail
  <2>2. CASE queue' = queue
    BY <2>2 DEF TypeOK
  <2>3. CASE Drop(r)
    BY <2>3, DropFacts
  <2> QED BY <2>1, <2>2, <2>3
<1>5. UNCHANGED <<handles, method, closing, inbox, cache, taken, mode, wanted, truth, bounds>>
  BY DEF Prompted, Finish, Fail, calls
<1> QED BY <1>1, <1>3, <1>4, <1>5 DEF TypeOK, States, Places, handles, cache, truth, bounds

LEMMA RunTaskTypes ==
  ASSUME TypeOK, NEW r \in Requests, RunTask(r)
  PROVE  TypeOK'
<1>1. Issue(Own(r), "prompt") /\ "prompt" \in Methods /\ Own(r) \in Calls
  BY CallFacts DEF RunTask, Methods
<1>2. /\ process' \in Processes \cup {None} /\ readerTask' \in Processes \cup {None}
      /\ call' \in [Calls -> States] /\ inbox' \in [Processes -> Seq(Requests \X Methods)]
  BY <1>1, IssueFacts
<1> QED BY <1>2 DEF RunTask, TypeOK, States, cache, users, truth, bounds

RestTyped ==
  /\ process' \in Processes \cup {None} /\ readerTask' \in Processes \cup {None}
  /\ reading' \subseteq Processes
  /\ call' \in [Calls -> States]
  /\ inbox' \in [Processes -> Seq(Requests \X Methods)]
  /\ queue' \in [Requests -> Requests \cup {None}]

LEMMA LeaveTypes ==
  ASSUME TypeOK, NEW r \in Requests, Leave(r) \/ CleanUp(r) \/ CleanedUp(r)
  PROVE  TypeOK'
<1>1. /\ pc' \in [Requests -> Places] /\ holder' \in Requests \cup {None}
      /\ \A q \in Requests : holder' = q <=> pc'[q] \in {"using", "closing", "leaving"}
  BY LeavingTypes
<1>2. leaves' \in 0..MaxLeaves /\ faults' = faults
  <2>1. leaves \in 0..MaxLeaves
    BY DEF TypeOK
  <2>2. leaves' = leaves \/ (leaves < MaxLeaves /\ leaves' = leaves + 1)
    BY DEF Leave, LeavePreparing, LeaveWaiting, LeaveYielding, CleanUp, CleanedUp, bounds
  <2>3. faults' = faults
    BY DEF Leave, LeavePreparing, LeaveWaiting, LeaveYielding, CleanUp, CleanedUp, bounds
  <2> QED BY <2>1, <2>2, <2>3, AcpBounds
<1>3. UNCHANGED <<started, alive, shut, method, closing, cache, taken, mode, wanted, truth>>
  BY DEF Leave, LeavePreparing, LeaveWaiting, LeaveYielding, CleanUp, CleanedUp, handles, calls
<1>4. ASSUME UNCHANGED <<process, inbox, queue>>, NEW cs \in SUBSET Calls, Abandon(cs) PROVE RestTyped
  <2>1. reading' \subseteq Processes /\ readerTask' \in {readerTask, None} /\ call' \in [Calls -> States]
    BY <1>4, AbandonFacts
  <2> QED BY <1>4, <2>1 DEF TypeOK, RestTyped
<1>5. ASSUME SendCancel(r), reading' = reading PROVE RestTyped
  <2>1. Issue(Cancel(r), "cancel_session") /\ "cancel_session" \in Methods /\ Cancel(r) \in Calls
    BY <1>5, CallFacts DEF SendCancel, Methods
  <2>2. /\ process' \in Processes \cup {None} /\ readerTask' \in Processes \cup {None}
        /\ call' \in [Calls -> States] /\ inbox' \in [Processes -> Seq(Requests \X Methods)]
    BY <2>1, IssueFacts
  <2>3. queue' \in [Requests -> Requests \cup {None}]
    BY <1>5, DropFacts DEF SendCancel
  <2> QED BY <1>5, <2>2, <2>3 DEF TypeOK, RestTyped
<1>6. ASSUME LeavePreparing(r) PROVE RestTyped
  <2>1. {Own(r)} \in SUBSET Calls
    BY CallFacts
  <2>2. PICK cs \in SUBSET Calls : Abandon(cs)
    BY <1>6, <2>1 DEF LeavePreparing
  <2>3. UNCHANGED <<process, inbox, queue>>
    BY <1>6 DEF LeavePreparing
  <2> QED BY <1>4, <2>2, <2>3
<1>7. ASSUME CleanedUp(r) PROVE RestTyped
  <2>1. {Own(r), Cancel(r)} \in SUBSET Calls /\ {Cancel(r)} \in SUBSET Calls
    BY CallFacts
  <2>2. PICK cs \in SUBSET Calls : Abandon(cs)
    BY <1>7, <2>1 DEF CleanedUp
  <2>3. UNCHANGED <<process, inbox, queue>>
    BY <1>7 DEF CleanedUp
  <2> QED BY <1>4, <2>2, <2>3
<1>8. ASSUME LeaveWaiting(r) PROVE RestTyped
  <2>1. SendCancel(r) /\ reading' = reading
    BY <1>8 DEF LeaveWaiting
  <2> QED BY <1>5, <2>1
<1>9. ASSUME LeaveYielding(r) PROVE RestTyped
  <2>1. UNCHANGED <<process, readerTask, reading, call, inbox, queue>>
    BY <1>9 DEF LeaveYielding, handles, calls
  <2> QED BY <2>1 DEF RestTyped, TypeOK, States
<1>10. ASSUME CleanUp(r) /\ Unresolved(r) PROVE RestTyped
  <2>1. SendCancel(r) /\ reading' = reading
    BY <1>10 DEF CleanUp
  <2> QED BY <1>5, <2>1
<1>11. ASSUME CleanUp(r) /\ ~Unresolved(r) PROVE RestTyped
  <2>1. queue' \in [Requests -> Requests \cup {None}]
    BY <1>11, DropFacts DEF CleanUp
  <2>2. UNCHANGED <<process, readerTask, reading, call, inbox>>
    BY <1>11 DEF CleanUp
  <2> QED BY <2>1, <2>2 DEF RestTyped, TypeOK, States
<1>12. RestTyped
  BY <1>6, <1>7, <1>8, <1>9, <1>10, <1>11 DEF Leave
<1> QED BY <1>1, <1>2, <1>3, <1>12 DEF RestTyped, TypeOK, States, Places, cache, truth

LEMMA ResolveTypes ==
  ASSUME TypeOK, NEW c \in Calls, NEW how \in {"ok", "error"}, Resolve(c, how)
  PROVE  call' \in [Calls -> States]
<1>1. Result(c, how) \in States
  BY DEF Result, States
<1>2. CASE call[c] = "pending"
  <2>1. call' = [call EXCEPT ![c] = Result(c, how)]
    BY <1>2 DEF Resolve
  <2> QED BY <1>1, <2>1, CallTypes
<1>3. CASE call[c] # "pending"
  <2>1. call' = call
    BY <1>3 DEF Resolve
  <2> QED BY <2>1, CallTypes
<1> QED BY <1>2, <1>3

LEMMA MessageTypes ==
  ASSUME TypeOK, NEW p \in Processes, NEW i \in DOMAIN inbox[p]
  PROVE  /\ inbox[p][i] \in Requests \X Methods
         /\ inbox[p][i][1] \in Requests /\ inbox[p][i][2] \in Methods
         /\ inbox[p][i] = <<inbox[p][i][1], inbox[p][i][2]>>
         /\ inbox[p][i] \in Mail(p)
<1> DEFINE S == Requests \X Methods
<1>1. inbox[p] \in Seq(S)
  BY DEF TypeOK
<1> HIDE DEF S
<1>2. inbox[p][i] \in S
  BY <1>1
<1> QED BY <1>2 DEF S, Mail

LEMMA AnswerTypes ==
  ASSUME TypeOK, NEW p \in Processes, Answer(p), Apart(p)
  PROVE  TypeOK'
<1>1. PICK i \in DOMAIN inbox[p] :
        LET msg == inbox[p][i] IN
        /\ inbox' = [inbox EXCEPT ![p] = Without(@, i)]
        /\ \/ /\ Effect(p, msg[1], msg[2]) /\ Resolve(CallOf(msg), "ok")
              /\ UNCHANGED faults
           \/ /\ Resolve(CallOf(msg), "error")
              /\ Fault(msg[2] \in {"initialize", "new_session"} \/ Knows(p, msg[1]))
              /\ UNCHANGED <<homeOf, runs, cut, answeredBy>>
  BY DEF Answer
<1>2. inbox' \in [Processes -> Seq(Requests \X Methods)]
  BY <1>1, Removed
<1>3. PICK r \in Requests, m \in Methods : r = inbox[p][i][1] /\ m = inbox[p][i][2]
  BY MessageTypes
<1>4. PICK c \in Calls : c = CallOf(inbox[p][i])
  BY <1>3, CallFacts DEF CallOf
<1>5. call' \in [Calls -> States]
  BY <1>1, <1>4, ResolveTypes
<1>6. faults' \in 0..MaxFaults
  <2>1. faults \in 0..MaxFaults
    BY DEF TypeOK
  <2>2. faults' = faults \/ (faults < MaxFaults /\ faults' = faults + 1)
    BY <1>1 DEF Fault
  <2> QED BY <2>1, <2>2, AcpBounds
<1>7. /\ homeOf' \in [Requests -> Processes \cup {None}]
      /\ runs' \in [Requests -> Models \cup {NoModel}]
      /\ cut' \subseteq Requests
      /\ answeredBy' \in [Requests -> Models \cup {NoModel}]
  <2>1. CASE UNCHANGED <<homeOf, runs, cut, answeredBy>>
    BY <2>1 DEF TypeOK
  <2>2. CASE Effect(p, r, m)
    <3>1. /\ homeOf' = homeOf \/ homeOf' = [homeOf EXCEPT ![r] = p]
          /\ runs' = runs \/ (Knows(p, r) /\ runs' = [runs EXCEPT ![ofSession[r]] = wanted[r]])
          /\ cut' = cut \/ cut' = cut \cup {q \in Requests : ofSession[q] = ofSession[r] /\
                              \E j \in DOMAIN inbox[p] : inbox[p][j] = <<q, "prompt">>}
          /\ answeredBy' = answeredBy \/ (Knows(p, r) /\ answeredBy' = [answeredBy EXCEPT ![r] = runs[ofSession[r]]])
      BY <2>2 DEF Effect
    <3>2. Knows(p, r) => ofSession[r] \in Requests
      BY DEF Knows, TypeOK
    <3>3. homeOf' \in [Requests -> Processes \cup {None}]
      <4>1. homeOf \in [Requests -> Processes \cup {None}]
        BY DEF TypeOK
      <4>2. CASE homeOf' = homeOf
        BY <4>1, <4>2
      <4>3. CASE homeOf' = [homeOf EXCEPT ![r] = p]
        BY <4>1, <4>3
      <4> QED BY <3>1, <4>2, <4>3
    <3>4. runs' \in [Requests -> Models \cup {NoModel}]
      BY <3>1, <3>2 DEF TypeOK
    <3>5. cut' \subseteq Requests
      BY <3>1 DEF TypeOK
    <3>6. answeredBy' \in [Requests -> Models \cup {NoModel}]
      BY <3>1, <3>2 DEF TypeOK
    <3> QED BY <3>3, <3>4, <3>5, <3>6
  <2> QED BY <1>1, <1>3, <2>1, <2>2
<1>8. UNCHANGED <<handles, method, closing, cache, users, queue, ofSession, said, got, leaves>>
  BY DEF Answer
<1> QED BY <1>2, <1>5, <1>6, <1>7, <1>8 DEF TypeOK, States, handles, cache, users

\* Every step keeps the types.
LEMMA StepTypes ==
  ASSUME TypeOK, \A p \in Processes : Apart(p), Next
  PROVE  TypeOK'
<1>1. ASSUME NEW m \in Modes, NEW w \in Models, Take(m, w) PROVE TypeOK'
  BY <1>1, TakeTypes
<1>2. ASSUME NEW r \in Requests, CallStep(r) PROVE TypeOK'
  BY <1>2, CallStepTypes
<1>3. ASSUME NEW r \in Requests, RequestStep(r) PROVE TypeOK'
  BY <1>3, RunTaskTypes, PreparedTypes, OutTypes, LeaveTypes DEF RequestStep
<1>4. ASSUME NEW r \in Requests, Leave(r) PROVE TypeOK'
  BY <1>4, LeaveTypes
<1>5. ASSUME NEW p \in Processes, Die(p) \/ ReaderEnds(p) \/ Answer(p) \/ Update(p) PROVE TypeOK'
  BY <1>5, ProcessTypes, AnswerTypes
<1> QED BY <1>1, <1>2, <1>3, <1>4, <1>5 DEF Next

-----------------------------------------------------------------------------
(* Steps in which no request goes on to its next call, and no process answers: *)
(* how one may move the requests, the calls and the messages.                *)

Still ==
  /\ UNCHANGED <<method, cache, taken, mode, wanted, truth>>
  /\ started' \in Nat /\ started <= started' /\ process' <= started'
  /\ \A p \in 1..started : Useless(p) => Useless(p)'

\* A request stays, ends, fails, or is left.
PlaceMoves(q) ==
  \/ pc'[q] = pc[q]
  \/ /\ method[q] = "prompt" /\ pc'[q] \in {"closing", "done"}
     /\ pc[q] = "closing" \/ (pc[q] = "using" /\ call[Own(q)] = "ok")
     /\ call'[Own(q)] = "none"
  \/ /\ pc[q] = "using" /\ call[Own(q)] = "error"
     /\ pc'[q] = "failed" /\ call'[Own(q)] = "none"
  \/ /\ pc[q] \notin {"idle", "done", "failed"} /\ Quit(q)'
     /\ pc'[q] = "left" \/ method[q] = "prompt"
     /\ pc'[q] = "leaving" => pc[q] = "using"

\* An own call stays, is forgotten, fails without a message that could still
\* be answered by a process of use, or goes on.
OwnMoves(q) ==
  \/ call'[Own(q)] = call[Own(q)]
  \/ call'[Own(q)] = "none" /\ pc'[q] # "using"
  \/ call'[Own(q)] = "error" /\ call[Own(q)] \in {"ready", "starting"}
  \/ /\ call'[Own(q)] = "error" /\ call[Own(q)] \in {"pending", "closing", "joining"}
     /\ \A p \in Processes : Useless(p)'
  \/ call'[Own(q)] \in {"closing", "joining"} /\ call[Own(q)] \in {"pending", "closing"}
  \/ call'[Own(q)] = "starting" /\ call[Own(q)] = "ready"
  \/ call'[Own(q)] = "pending" /\ call[Own(q)] \in {"ready", "starting"}
CancelMoves(q) ==
  \/ call'[Cancel(q)] = call[Cancel(q)]
  \/ call'[Cancel(q)] = "none"
  \/ Quit(q)' /\ method[q] = "prompt"

\* A message was there; or is a cancel; or the own call of q was written to the
\* process that is current then.
MailMoves(p, q, m) ==
  <<q, m>> \in Mail(p)' =>
    \/ <<q, m>> \in Mail(p)
    \/ m = "cancel_session" /\ Quit(q)' /\ method[q] = "prompt" /\ p <= started'
    \/ /\ m = method[q] /\ m # "cancel_session" /\ call'[Own(q)] = "pending" /\ pc'[q] = pc[q]
       /\ p = process' /\ readerTask' # None /\ p <= started'
       /\ \/ call[Own(q)] = "ready" /\ p <= started
          \/ call[Own(q)] = "starting" /\ ~(p <= started)

\* A queue is dropped with its stream, or that of another stream is by one that
\* was left in the same session.
QueueMoves(q) ==
  /\ \A s \in Requests : queue'[s] = q => queue[s] = q
  /\ pc'[q] \notin {"using", "closing", "abandoned"} /\ pc'[q] # pc[q] =>
       \A s \in Requests : queue'[s] # q
  /\ pc'[q] \in {"using", "closing"} /\ ofSession[q] \in Requests =>
       queue'[ofSession[q]] = queue[ofSession[q]] \/ QuitIn("prompt", q)'

Moves ==
  /\ Still
  /\ \A p \in Processes : Apart(p)'
  /\ \A q \in Requests : PlaceMoves(q) /\ OwnMoves(q) /\ CancelMoves(q) /\ QueueMoves(q)
  /\ \A p \in Processes, q \in Requests, m \in Methods : MailMoves(p, q, m)

\* What a request, or a session, keeps in such a step.
LEMMA QuitStays ==
  ASSUME Moves, NEW q \in Requests
  PROVE  /\ Quit(q) => Quit(q)'
         /\ method'[q] = method[q] /\ ofSession'[q] = ofSession[q]
<1>1. PlaceMoves(q) /\ Still
  BY DEF Moves
<1>2. Quit(q) => Quit(q)'
  BY <1>1 DEF PlaceMoves, Quit
<1> QED BY <1>1, <1>2 DEF Still, truth

LEMMA SessionsStay ==
  ASSUME Moves
  PROVE  /\ \A m, q : q \in Requests /\ QuitIn(m, q) => QuitIn(m, q)'
         /\ \A s : SetQuit(s) => SetQuit(s)'
         /\ \A s, w : Runs(s, w) => Runs(s, w)'
<1>1. \A q \in Requests : /\ Quit(q) => Quit(q)'
                          /\ method'[q] = method[q] /\ ofSession'[q] = ofSession[q]
  BY QuitStays
<1>2. \A m, q : q \in Requests /\ QuitIn(m, q) => QuitIn(m, q)'
  BY <1>1 DEF QuitIn
<1>3. \A s : SetQuit(s) => SetQuit(s)'
  BY <1>1 DEF SetQuit
<1>4. runs' = runs
  BY DEF Moves, Still, truth
<1> QED BY <1>2, <1>3, <1>4 DEF Runs

LEMMA KeepBegun ==
  ASSUME Moves, NEW q \in Requests, Begun(q), CallsOK(q)
  PROVE  Begun(q)' /\ CallsOK(q)'
<1>1. PlaceMoves(q) /\ OwnMoves(q) /\ CancelMoves(q) /\ Still
  BY DEF Moves
<1>2. UNCHANGED <<method, cache, taken, mode, wanted, ofSession>>
  BY <1>1 DEF Still, truth
<1>3. /\ pc'[q] = "idle" <=> pc[q] = "idle"
      /\ pc'[q] \in {"using", "closing", "leaving"} => pc[q] \in {"using", "closing", "leaving"}
      /\ pc'[q] # pc[q] /\ pc'[q] \in {"closing", "leaving", "abandoned", "detached", "done"} =>
           method[q] = "prompt"
  BY <1>1 DEF PlaceMoves, Quit
<1>4. Begun(q)'
  <2>1. initialized' = initialized /\ session' = session /\ model' = model
    BY <1>2 DEF cache
  <2> QED BY <1>2, <1>3, <2>1 DEF Begun
<1>5. pc'[q] = "using" => pc[q] = "using"
  BY <1>1 DEF PlaceMoves, Quit
<1>6. pc'[q] = "using" => call'[Own(q)] # "none"
  BY <1>1, <1>5 DEF OwnMoves, CallsOK
<1>7. pc'[q] \in {"idle", "closing", "done", "failed"} => call'[Own(q)] = "none"
  <2>1. CASE pc'[q] = pc[q]
    BY <1>1, <2>1 DEF OwnMoves, CallsOK
  <2>2. CASE pc'[q] # pc[q]
    BY <1>1, <2>2 DEF PlaceMoves, Quit
  <2> QED BY <2>1, <2>2
<1>8. ~Quit(q)' \/ method'[q] # "prompt" => call'[Cancel(q)] = "none"
  <2>1. Quit(q) => Quit(q)'
    BY QuitStays
  <2> QED BY <1>1, <1>2, <2>1 DEF CancelMoves, CallsOK
<1>9. call'[Own(q)] = "ready" => method'[q] = "prompt"
  BY <1>1, <1>2 DEF OwnMoves, CallsOK
<1>10. CallsOK(q)'
  BY <1>6, <1>7, <1>8, <1>9 DEF CallsOK
<1> QED BY <1>4, <1>10

LEMMA ProcessFacts ==
  ASSUME TypeOK
  PROVE  /\ process \in Nat /\ started \in Nat /\ process <= MaxProcesses
         /\ \A p \in Processes : p \in Nat /\ p >= 1 /\ p # None
         /\ \A q \in Requests : q # None
         /\ \A p \in Processes : p <= started <=> p \in 1..started
BY AcpBounds DEF TypeOK, Processes, Requests, None

\* A message that was there before is not in the way of the places and calls.
LEMMA KeepMail ==
  ASSUME Moves, TypeOK, \A p \in Processes : MailOK(p), \A q \in Requests : CallsOK(q)
  PROVE  \A p \in Processes : MailOK(p)'
<1> SUFFICES ASSUME NEW p \in Processes PROVE MailOK(p)'
  OBVIOUS
<1>1. Still /\ Apart(p)'
  BY DEF Moves
<1>2. ASSUME NEW q \in Requests, NEW m \in Methods, NEW o \in Processes, <<q, m>> \in Mail(o)
      PROVE  /\ o <= started'
             /\ IF m = "cancel_session"
                THEN Quit(q)' /\ method'[q] = "prompt"
                ELSE /\ m = method'[q] /\ pc'[q] \notin {"idle", "closing", "done"}
                     /\ call'[Own(q)] \notin {"ready", "starting", "ok"}
                     /\ call[Own(q)] \notin {"ready", "starting", "ok"}
  <2>1. MailOK(o) /\ PlaceMoves(q) /\ OwnMoves(q)
    BY DEF Moves
  <2>2. o <= started /\ o \in Nat /\ started \in Nat /\ started' \in Nat /\ started <= started'
    BY <1>1, <1>2, <2>1, ProcessFacts DEF MailOK, Still
  <2>3. o <= started'
    BY <2>2
  <2>4. Quit(q) => Quit(q)' /\ method'[q] = method[q]
    BY QuitStays
  <2>5. method'[q] = method[q]
    BY QuitStays
  <2>6. CASE m = "cancel_session"
    BY <1>2, <2>1, <2>3, <2>4, <2>5, <2>6 DEF MailOK
  <2>7. CASE m # "cancel_session"
    <3>1. /\ m = method[q] /\ pc[q] \notin {"idle", "closing", "done"}
          /\ call[Own(q)] \notin {"ready", "starting", "ok"}
      BY <1>2, <2>1, <2>7 DEF MailOK
    <3>2. pc'[q] \notin {"idle", "closing", "done"}
      BY <2>1, <3>1 DEF PlaceMoves, Quit
    <3>3. call'[Own(q)] \notin {"ready", "starting", "ok"}
      BY <2>1, <3>1 DEF OwnMoves
    <3> QED BY <2>3, <2>5, <2>7, <3>1, <3>2, <3>3
  <2> QED BY <2>6, <2>7
<1>3. ASSUME NEW q \in Requests, NEW m \in Methods, <<q, m>> \in Mail(p)'
      PROVE  /\ p <= started'
             /\ IF m = "cancel_session"
                THEN Quit(q)' /\ method'[q] = "prompt"
                ELSE /\ m = method'[q] /\ pc'[q] \notin {"idle", "closing", "done"}
                     /\ call'[Own(q)] \notin {"ready", "starting", "ok"}
                     /\ \A o \in Processes : <<q, m>> \in Mail(o)' => o = p
  <2>1. MailMoves(p, q, m) /\ \A o \in Processes : MailMoves(o, q, m)
    BY DEF Moves
  <2>2. method'[q] = method[q]
    BY QuitStays
  <2>3. CASE <<q, m>> \in Mail(p)
    <3>1. m # "cancel_session" => \A o \in Processes : <<q, m>> \in Mail(o)' => o = p
      <4>1. SUFFICES ASSUME m # "cancel_session", NEW o \in Processes, <<q, m>> \in Mail(o)'
                     PROVE  o = p
        OBVIOUS
      <4>2. call[Own(q)] \notin {"ready", "starting"}
        BY <1>2, <2>3, <4>1
      <4>3. <<q, m>> \in Mail(o)
        BY <2>1, <4>1, <4>2 DEF MailMoves
      <4> QED BY <2>3, <4>1, <4>3 DEF MailOK
    <3> QED BY <1>2, <2>3, <3>1
  <2>4. CASE m = "cancel_session" /\ Quit(q)' /\ method[q] = "prompt" /\ p <= started'
    BY <2>2, <2>4
  <2>5. CASE /\ m = method[q] /\ m # "cancel_session" /\ call'[Own(q)] = "pending" /\ pc'[q] = pc[q]
             /\ p = process' /\ readerTask' # None /\ p <= started'
             /\ \/ call[Own(q)] = "ready" /\ p <= started
                \/ call[Own(q)] = "starting" /\ ~(p <= started)
    <3>1. pc'[q] \notin {"idle", "closing", "done"}
      BY <2>5 DEF CallsOK
    <3>2. ASSUME NEW o \in Processes, <<q, m>> \in Mail(o)' PROVE o = p
      <4>1. <<q, m>> \notin Mail(o)
        BY <1>2, <2>5
      <4> QED BY <2>1, <2>5, <3>2, <4>1 DEF MailMoves
    <3> QED BY <2>2, <2>5, <3>1, <3>2
  <2> QED BY <1>3, <2>1, <2>3, <2>4, <2>5 DEF MailMoves
<1> QED BY <1>1, <1>3 DEF MailOK

\* What is in a process of a request whose call did not get there.
LEMMA NotSent ==
  ASSUME NEW p \in Processes, NEW q \in Requests, TypeOK, Begun(q), MailOK(p), Sent(p, q)
  PROVE  /\ p \in 1..started /\ pc[q] \notin {"idle", "closing", "done"}
         /\ call[Own(q)] \notin {"ready", "starting", "ok"}
         /\ \A o \in Processes : Sent(o, q) => o = p
<1>1. method[q] \in Methods /\ method[q] # "cancel_session"
  BY DEF TypeOK, Begun
<1>2. p \in Nat /\ p >= 1 /\ started \in Nat
  BY ProcessFacts
<1> QED BY <1>1, <1>2 DEF MailOK, Sent

\* How a request's own message gets to a process.
LEMMA SentMoves ==
  ASSUME Moves, NEW p \in Processes, NEW q \in Requests, TypeOK, Begun(q), Sent(p, q)'
  PROVE  \/ Sent(p, q)
         \/ /\ call'[Own(q)] = "pending" /\ pc'[q] = pc[q] /\ p = process' /\ readerTask' # None
            /\ \/ call[Own(q)] = "ready" /\ p <= started
               \/ call[Own(q)] = "starting" /\ ~(p <= started)
<1>1. method[q] \in Methods /\ method[q] # "cancel_session" /\ method'[q] = method[q]
  BY QuitStays DEF TypeOK, Begun
<1>2. <<q, method[q]>> \in Mail(p)' /\ MailMoves(p, q, method[q])
  BY <1>1 DEF Sent, Moves
<1> QED BY <1>1, <1>2 DEF MailMoves, Sent

LEMMA KeepStray ==
  ASSUME Moves, NEW q \in Requests, TypeOK, Begun(q), CallsOK(q), Stray(q),
         \A p \in Processes : MailOK(p)
  PROVE  Stray(q)'
<1> SUFFICES ASSUME pc'[q] = "failed" \/ (pc'[q] = "using" /\ call'[Own(q)] = "error"),
                    NEW p \in Processes, Sent(p, q)'
             PROVE  Useless(p)'
  BY DEF Stray
<1>1. PlaceMoves(q) /\ OwnMoves(q) /\ Still
  BY DEF Moves
<1>2. Sent(p, q)
  <2>1. call'[Own(q)] # "pending" \/ pc'[q] = "failed"
    OBVIOUS
  <2>2. pc'[q] = "failed" /\ pc'[q] = pc[q] => call[Own(q)] = "none"
    BY DEF CallsOK
  <2> QED BY <2>1, <2>2, SentMoves
<1>3. p \in 1..started /\ call[Own(q)] \notin {"ready", "starting", "ok"}
  BY <1>2, NotSent
<1>4. CASE pc[q] = "failed" \/ (pc[q] = "using" /\ call[Own(q)] = "error")
  BY <1>1, <1>2, <1>3, <1>4 DEF Stray, Still
<1>5. CASE ~(pc[q] = "failed" \/ (pc[q] = "using" /\ call[Own(q)] = "error"))
  <2>1. pc[q] = "using" /\ call'[Own(q)] = "error"
    BY <1>1, <1>5 DEF PlaceMoves, Quit
  <2> QED BY <1>1, <1>3, <1>5, <2>1 DEF OwnMoves
<1> QED BY <1>4, <1>5

LEMMA KeepSession ==
  ASSUME Moves, TypeOK, NEW q \in Requests, SessionOK(q), session # None => Opened(session)
  PROVE  SessionOK(q)' /\ (session # None => Opened(session))'
<1>1. Still /\ OwnMoves(q)
  BY DEF Moves
<1>2. /\ method' = method /\ ofSession' = ofSession /\ homeOf' = homeOf /\ session' = session
      /\ started' \in Nat /\ started <= started'
  BY <1>1 DEF Still, cache, truth
<1>3. \A n : n \in 1..started => n \in 1..started'
  BY <1>2, ProcessFacts
<1>4. \A s : Opened(s) => Opened(s)'
  BY <1>2, <1>3 DEF Opened
<1>5. call'[Own(q)] = "ok" => call[Own(q)] = "ok"
  BY <1>1 DEF OwnMoves
<1> QED BY <1>2, <1>3, <1>4, <1>5 DEF SessionOK, Opened

LEMMA KeepQueue ==
  ASSUME Moves, NEW q \in Requests, QueueOK(q), ClearOK(q), SessionOK(q), Begun(q), TypeOK
  PROVE  QueueOK(q)' /\ ClearOK(q)'
<1>1. Still /\ PlaceMoves(q) /\ QueueMoves(q)
  BY DEF Moves
<1>2. UNCHANGED <<method, mode, ofSession, got, said, cut>>
  BY <1>1 DEF Still, truth
<1>3. ASSUME NEW s \in Requests, queue'[s] = q
      PROVE  /\ ofSession[q] = s /\ method[q] = "prompt" /\ mode[q] = "stream"
             /\ pc'[q] \in {"using", "closing", "abandoned"}
  <2>1. queue[s] = q /\ (pc'[q] \in {"using", "closing", "abandoned"} \/ pc'[q] = pc[q])
    BY <1>1, <1>3 DEF QueueMoves
  <2> QED BY <2>1 DEF QueueOK
<1>4. ASSUME mode[q] = "stream", method[q] = "prompt", pc'[q] \in {"using", "closing"}
      PROVE  queue'[ofSession[q]] = q \/ QuitIn("prompt", q)'
  <2>1. pc[q] \in {"using", "closing"}
    BY <1>1, <1>4 DEF PlaceMoves, Quit
  <2>2. queue[ofSession[q]] = q \/ QuitIn("prompt", q)
    BY <1>4, <2>1 DEF QueueOK
  <2>3. ofSession[q] \in Requests
    BY <1>4 DEF Begun, TypeOK
  <2> QED BY <1>1, <1>4, <2>2, <2>3, SessionsStay DEF QueueMoves
<1>5. QueueOK(q)'
  BY <1>2, <1>3, <1>4 DEF QueueOK
<1>6. ClearOK(q)'
  BY <1>2 DEF ClearOK
<1> QED BY <1>5, <1>6

\* A request whose prompt can be answered could be before.
LEMMA GoodBefore ==
  ASSUME Moves, NEW q \in Requests, TypeOK, Begun(q), CallsOK(q), SessionOK(q),
         \A p \in Processes : MailOK(p), Good(q)'
  PROVE  /\ Good(q) /\ Home(q)' = Home(q) /\ Home(q) \in Processes /\ Home(q) \in 1..started
         /\ pc'[q] \in {"using", "closing"} => pc[q] \in {"using", "closing"}
         /\ pc'[q] = "using" /\ call'[Own(q)] # "ok" => pc[q] = "using" /\ call[Own(q)] # "ok"
<1>1. Still /\ PlaceMoves(q) /\ OwnMoves(q)
  BY DEF Moves
<1>2. method' = method /\ ofSession' = ofSession /\ homeOf' = homeOf
  BY <1>1 DEF Still, truth
<1>3. method[q] = "prompt" /\ Home(q)' = Home(q)
  BY <1>2 DEF Good, Home
<1>4. ofSession[q] \in Requests /\ Home(q) \in 1..started
  BY <1>3 DEF Begun, SessionOK, Opened, Home, TypeOK
<1>5. Home(q) \in Processes /\ (Useless(Home(q)) => Useless(Home(q))')
  <2>1. homeOf[ofSession[q]] \in Processes \cup {None}
    BY <1>4 DEF TypeOK
  <2>2. homeOf[ofSession[q]] \in 1..started /\ Home(q) = homeOf[ofSession[q]]
    BY <1>4 DEF Home
  <2>3. Home(q) \in Processes
    BY <2>1, <2>2 DEF None
  <2>4. ASSUME NEW p \in 1..started, Useless(p) PROVE Useless(p)'
    BY <1>1, <2>4 DEF Still
  <2>5. PICK p \in 1..started : p = Home(q)
    BY <2>2
  <2>6. Useless(p) => Useless(p)'
    BY <2>4
  <2>7. Useless(Home(q)) => Useless(Home(q))'
    BY <1>3, <2>5, <2>6 DEF Useless
  <2> QED BY <2>3, <2>7
<1>6. pc'[q] \in {"closing", "done", "using"}
  BY DEF Good
<1>7. CASE pc'[q] \in {"closing", "done"}
  <2>1. pc[q] \in {"closing", "done"} \/ (pc[q] = "using" /\ call[Own(q)] = "ok")
    BY <1>1, <1>7 DEF PlaceMoves, Quit
  <2> QED BY <1>1, <1>3, <1>4, <1>5, <1>7, <2>1 DEF Good, PlaceMoves, Quit
<1>8. CASE pc'[q] = "using"
  <2>1. pc[q] = "using"
    BY <1>1, <1>8 DEF PlaceMoves, Quit
  <2>2. CASE call'[Own(q)] = "ok"
    <3>1. call[Own(q)] = "ok"
      BY <1>1, <2>2 DEF OwnMoves
    <3> QED BY <1>3, <1>4, <1>5, <1>8, <2>1, <2>2, <3>1 DEF Good
  <2>3. CASE call'[Own(q)] = "ready"
    <3>1. call[Own(q)] = "ready"
      BY <1>1, <2>3 DEF OwnMoves
    <3>2. ~Useless(Home(q))
      <4>1. ~Useless(Home(q))'
        BY <1>8, <2>3 DEF Good
      <4> QED BY <1>5, <4>1
    <3> QED BY <1>3, <1>4, <1>5, <1>8, <2>1, <3>1, <3>2 DEF Good
  <2>4. CASE call'[Own(q)] = "pending"
    <3>1. Sent(Home(q), q)'
      BY <1>8, <2>4 DEF Good
    <3>2. PICK p \in Processes : p = Home(q) /\ p <= started
      <4>1. Home(q) <= started
        BY <1>4, ProcessFacts
      <4> QED BY <1>5, <4>1
    <3>3. Sent(p, q)'
      BY <1>3, <3>1, <3>2 DEF Sent, Mail
    <3>4. \/ Sent(p, q)
          \/ p = process' /\ readerTask' # None /\ call[Own(q)] = "ready"
      BY <3>2, <3>3, SentMoves
    <3>5. CASE Sent(p, q)
      <4>1. call[Own(q)] \notin {"ready", "starting", "ok"}
        BY <3>5, NotSent
      <4>2. call[Own(q)] = "pending"
        BY <1>1, <2>4, <4>1 DEF OwnMoves
      <4>3. Sent(Home(q), q)
        BY <3>2, <3>5
      <4> QED BY <1>3, <1>4, <1>5, <1>8, <2>1, <4>2, <4>3 DEF Good
    <3>6. CASE p = process' /\ readerTask' # None /\ call[Own(q)] = "ready"
      <4>1. ~Useless(Home(q))'
        BY <1>3, <3>2, <3>6 DEF Useless
      <4>2. ~Useless(Home(q))
        BY <1>5, <4>1
      <4> QED BY <1>3, <1>4, <1>5, <1>8, <2>1, <3>6, <4>2 DEF Good
    <3> QED BY <3>4, <3>5, <3>6
  <2> QED BY <1>8, <2>2, <2>3, <2>4 DEF Good
<1> QED BY <1>6, <1>7, <1>8

\* The lock is held by one request.
LEMMA OneHolder ==
  ASSUME TypeOK, NEW q \in Requests, NEW o \in Requests,
         pc[q] \in {"using", "closing", "leaving"}, pc[o] \in {"using", "closing", "leaving"}
  PROVE  q = o /\ holder = q
BY DEF TypeOK

LEMMA KeepAlone ==
  ASSUME Moves, NEW q \in Requests, TypeOK, Alone(q), \A o \in Requests : Begun(o) /\ CallsOK(o),
         SessionOK(q), \A p \in Processes : MailOK(p)
  PROVE  Alone(q)'
<1> SUFFICES ASSUME Good(q)', pc'[q] # "done", NEW o \in Requests, Sent(Home(q), o)', ~Quit(o)'
             PROVE  o = q
  BY DEF Alone
<1>1. /\ Good(q) /\ Home(q)' = Home(q) /\ Home(q) \in Processes /\ Home(q) \in 1..started
      /\ pc'[q] \in {"using", "closing"} => pc[q] \in {"using", "closing"}
  BY GoodBefore
<1>2. pc[q] \in {"using", "closing"}
  <2>1. pc'[q] \in {"using", "closing"}
    BY DEF Good
  <2> QED BY <1>1, <2>1
<1>3. ~Quit(o)
  BY QuitStays
<1>4. PICK p \in Processes : p = Home(q) /\ p <= started
  BY <1>1, ProcessFacts
<1>5. Sent(p, o)'
  BY <1>1, <1>4 DEF Sent, Mail
<1>6. CASE Sent(p, o)
  <2>1. Sent(Home(q), o)
    BY <1>4, <1>6
  <2> QED BY <1>1, <1>2, <1>3, <2>1 DEF Alone
<1>7. CASE call[Own(o)] = "ready"
  <2>1. pc[o] = "using"
    BY <1>3, <1>7 DEF CallsOK, Quit, TypeOK
  <2> QED BY <1>2, <2>1, OneHolder
<1> QED BY <1>4, <1>5, <1>6, <1>7, SentMoves

LEMMA KeepUpdates ==
  ASSUME Moves, NEW q \in Requests, TypeOK, UpdatesOK(q), Begun(q), CallsOK(q),
         SessionOK(q), \A p \in Processes : MailOK(p)
  PROVE  UpdatesOK(q)'
<1> SUFFICES ASSUME Good(q)'
             PROVE  (QuitIn("prompt", q) \/ (got[q] = said \cap {q} /\ q \notin cut))'
  BY DEF UpdatesOK
<1>1. Good(q)
  BY GoodBefore
<1>2. UNCHANGED <<got, said, cut>>
  BY DEF Moves, Still, truth
<1> QED BY <1>1, <1>2, SessionsStay DEF UpdatesOK

LEMMA KeepModel ==
  ASSUME Moves, TypeOK, ModelOK, \A q \in Requests : Begun(q), session # None => Opened(session)
  PROVE  ModelOK'
<1> SUFFICES ASSUME session' # None, model' # NoModel
             PROVE  (Runs(session, model) \/ Useless(homeOf[session]) \/ \E r \in Requests : Setting(r))'
  BY DEF ModelOK
<1>1. /\ session' = session /\ model' = model /\ homeOf' = homeOf /\ method' = method
      /\ ofSession' = ofSession
  BY DEF Moves, Still, truth, cache
<1>2. PICK p \in 1..started : p = homeOf[session]
  BY <1>1 DEF Opened
<1>3. CASE Runs(session, model)
  <2>1. PICK s, w : s = session /\ w = model
    OBVIOUS
  <2>2. Runs(s, w)'
    BY <1>3, <2>1, SessionsStay DEF Runs
  <2>3. Runs(session, model)'
    BY <1>1, <2>1, <2>2 DEF Runs, SetQuit
  <2> QED BY <2>3
<1>4. CASE Useless(homeOf[session])
  <2>1. Useless(p)'
    BY <1>2, <1>4 DEF Moves, Still
  <2>2. Useless(homeOf[session])'
    BY <1>1, <1>2, <2>1 DEF Useless
  <2> QED BY <2>2
<1>5. ASSUME NEW r \in Requests, Setting(r)
      PROVE  (Runs(session, model) \/ Useless(homeOf[session]) \/ Setting(r))'
  <2>1. PlaceMoves(r) /\ OwnMoves(r)
    BY DEF Moves
  <2>2. CASE pc'[r] = pc[r]
    <3>1. CASE \A o \in Processes : Useless(o)'
      <4>1. homeOf[session] \in Processes
        BY <1>1, <1>2 DEF TypeOK, Opened, None
      <4>2. PICK o \in Processes : o = homeOf[session]
        BY <4>1
      <4>3. Useless(homeOf[session])'
        BY <1>1, <3>1, <4>2 DEF Useless
      <4> QED BY <4>3
    <3>2. CASE ~\A o \in Processes : Useless(o)'
      <4>1. call'[Own(r)] \in {"closing", "joining", "ok"}
        BY <1>5, <2>1, <2>2, <3>2 DEF OwnMoves, Setting
      <4> QED BY <1>1, <1>5, <2>2, <4>1 DEF Setting
    <3> QED BY <3>1, <3>2
  <2>3. CASE pc'[r] # pc[r]
    <3>1. Quit(r)' /\ method'[r] = "set_model" /\ ofSession'[r] = session'
      BY <1>1, <1>5, <2>1, <2>3 DEF PlaceMoves, Setting, Begun
    <3>2. Runs(session, model)'
      BY <3>1 DEF Runs, SetQuit
    <3> QED BY <3>2
  <2> QED BY <2>2, <2>3
<1> QED BY <1>1, <1>3, <1>4, <1>5 DEF ModelOK

LEMMA KeepAnswer ==
  ASSUME Moves, NEW q \in Requests, TypeOK, AnswersOK(q), Begun(q), CallsOK(q),
         SessionOK(q), \A p \in Processes : MailOK(p)
  PROVE  AnswersOK(q)'
<1>1. Still /\ PlaceMoves(q) /\ OwnMoves(q)
  BY DEF Moves
<1>2. UNCHANGED <<method, ofSession, homeOf, wanted, answeredBy, runs>>
  BY <1>1 DEF Still, truth
<1>3. /\ Runs(ofSession[q], wanted[q]) => Runs(ofSession[q], wanted[q])'
      /\ SetQuit(ofSession[q]) => SetQuit(ofSession[q])'
  <2>1. PICK s, w : s = ofSession[q] /\ w = wanted[q]
    OBVIOUS
  <2>2. (Runs(s, w) => Runs(s, w)') /\ (SetQuit(s) => SetQuit(s)')
    BY SessionsStay
  <2> QED BY <1>2, <2>1, <2>2 DEF Runs, SetQuit
<1>4. ASSUME pc'[q] = "using", method'[q] = "set_model", call'[Own(q)] = "ok"
      PROVE  (Runs(ofSession[q], wanted[q]) \/ Useless(Home(q)))'
  <2>1. pc[q] = "using" /\ call[Own(q)] = "ok"
    BY <1>1, <1>4 DEF PlaceMoves, OwnMoves, Quit
  <2>2. Runs(ofSession[q], wanted[q]) \/ Useless(Home(q))
    BY <1>2, <1>4, <2>1 DEF AnswersOK
  <2>3. Useless(Home(q)) => Useless(Home(q))'
    <3>1. Home(q)' = Home(q) /\ ofSession[q] # None
      BY <1>2, <1>4 DEF Home, Begun
    <3>2. PICK p \in 1..started : p = Home(q)
      BY <3>1 DEF SessionOK, Opened, Home
    <3>3. Useless(p) => Useless(p)'
      BY <1>1 DEF Still
    <3> QED BY <3>1, <3>2, <3>3 DEF Useless
  <2> QED BY <1>3, <2>2, <2>3
<1>5. ASSUME Good(q)', pc'[q] = "using", call'[Own(q)] # "ok"
      PROVE  Runs(ofSession[q], wanted[q])'
  <2>1. Good(q) /\ pc[q] = "using" /\ call[Own(q)] # "ok"
    BY <1>5, GoodBefore
  <2> QED BY <1>3, <2>1 DEF AnswersOK
<1>6. ASSUME Good(q)', pc'[q] # "using" \/ call'[Own(q)] = "ok"
      PROVE  (answeredBy[q] = wanted[q] \/ SetQuit(ofSession[q]))'
  <2>1. Good(q)
    BY <1>6, GoodBefore
  <2>2. pc[q] # "using" \/ call[Own(q)] = "ok"
    <3>1. CASE pc'[q] # "using"
      BY <1>1, <1>6, <3>1 DEF PlaceMoves, Good, Quit
    <3>2. CASE call'[Own(q)] = "ok"
      BY <1>1, <3>2 DEF OwnMoves
    <3> QED BY <1>6, <3>1, <3>2
  <2>3. answeredBy[q] = wanted[q] \/ SetQuit(ofSession[q])
    BY <2>1, <2>2 DEF AnswersOK
  <2> QED BY <1>2, <1>3, <2>3
<1> QED BY <1>4, <1>5, <1>6 DEF AnswersOK

\* Such a step keeps the invariant.
LEMMA MovesKeep ==
  ASSUME IInv, Moves, TypeOK'
  PROVE  IInv'
<1>1. /\ TypeOK /\ ModelOK /\ \A p \in Processes : MailOK(p)
      /\ session # None => Opened(session)
      /\ \A q \in Requests :
           /\ Begun(q) /\ CallsOK(q) /\ Stray(q) /\ SessionOK(q) /\ QueueOK(q) /\ ClearOK(q)
           /\ Alone(q) /\ UpdatesOK(q) /\ AnswersOK(q)
  BY DEF IInv
<1>2. CacheOK' /\ process' <= started'
  BY DEF IInv, Moves, Still, cache, CacheOK
<1>3. ModelOK'
  BY <1>1, KeepModel
<1>4. \A p \in Processes : MailOK(p)'
  BY <1>1, KeepMail
<1>5. (session # None => Opened(session))'
  <2>1. Opened(session) => Opened(session)'
    <3>1. /\ method' = method /\ homeOf' = homeOf /\ session' = session
          /\ started' \in Nat /\ started <= started'
      BY DEF Moves, Still, cache, truth
    <3>2. \A n : n \in 1..started => n \in 1..started'
      BY <1>1, <3>1, ProcessFacts
    <3> QED BY <3>1, <3>2 DEF Opened
  <2> QED BY <1>1, <2>1 DEF Moves, Still, cache
<1>6. ASSUME NEW q \in Requests
      PROVE  /\ Begun(q)' /\ CallsOK(q)' /\ Stray(q)' /\ SessionOK(q)' /\ QueueOK(q)' /\ ClearOK(q)'
             /\ Alone(q)' /\ UpdatesOK(q)' /\ AnswersOK(q)'
  BY <1>1, KeepBegun, KeepStray, KeepSession, KeepQueue, KeepAlone, KeepUpdates, KeepAnswer
<1> QED BY <1>2, <1>3, <1>4, <1>5, <1>6 DEF IInv

-----------------------------------------------------------------------------
(* The steps of the calls, and the end of a process or a reader. *)

LEMMA UselessStays ==
  ASSUME TypeOK, process' \in {process, None}, readerTask' \in {readerTask, None}
  PROVE  /\ \A p \in 1..started : Useless(p) => Useless(p)'
         /\ process' = None \/ readerTask' = None => \A p \in Processes : Useless(p)'
BY ProcessFacts DEF Useless, None

\* The requests, the cache and the queues stay.
LEMMA CallsMove ==
  ASSUME IInv, TypeOK', UNCHANGED <<method, cache, users, queue, truth>>,
         started' \in Nat, started <= started', process' <= started',
         \A p \in 1..started : Useless(p) => Useless(p)',
         \A p \in Processes : Apart(p)',
         \A q \in Requests : OwnMoves(q) /\ CancelMoves(q),
         \A p \in Processes, q \in Requests, m \in Methods : MailMoves(p, q, m)
  PROVE  IInv'
<1>1. Still
  BY DEF Still, users, cache, truth
<1>2. ASSUME NEW q \in Requests PROVE PlaceMoves(q) /\ QueueMoves(q)
  BY DEF PlaceMoves, QueueMoves, users, truth
<1>3. Moves
  BY <1>1, <1>2 DEF Moves
<1> QED BY <1>3, MovesKeep

LEMMA MailStays ==
  ASSUME inbox' = inbox \/ (\A p \in Processes : Mail(p)' \subseteq Mail(p) /\ (Apart(p) => Apart(p)')),
         \A p \in Processes : MailOK(p)
  PROVE  /\ \A p \in Processes : Apart(p)'
         /\ \A p \in Processes, q \in Requests, m \in Methods : MailMoves(p, q, m)
<1>1. ASSUME NEW p \in Processes PROVE Mail(p)' \subseteq Mail(p) /\ Apart(p)'
  <2>1. Apart(p)
    BY DEF MailOK
  <2>2. CASE inbox' = inbox
    BY <2>1, <2>2 DEF Mail, Apart
  <2>3. CASE Mail(p)' \subseteq Mail(p) /\ (Apart(p) => Apart(p)')
    BY <2>1, <2>3
  <2> QED BY <2>2, <2>3
<1> QED BY <1>1 DEF MailMoves

\* One call is set; the others stay.
LEMMA OthersMove ==
  ASSUME NEW c \in Calls, CallsOf(c)
  PROVE  \A q \in Requests : /\ Own(q) # c => OwnMoves(q)
                             /\ Cancel(q) # c => CancelMoves(q)
BY CallFacts DEF CallsOf, OwnMoves, CancelMoves

LEMMA SpawnFailsStep ==
  ASSUME IInv, TypeOK', NEW c \in Calls, SpawnFails(c)
  PROVE  IInv'
<1>1. TypeOK /\ (\A p \in Processes : MailOK(p)) /\ \A q \in Requests : CallsOK(q)
  BY DEF IInv
<1>2. /\ call[c] = "starting" /\ call' = [call EXCEPT ![c] = Result(c, "error")]
      /\ UNCHANGED <<handles, inbox, method, cache, users, queue, truth>>
  BY DEF SpawnFails
<1>3. CallsOf(c) /\ call'[c] = Result(c, "error")
  BY <1>1, <1>2, CallTypes DEF CallsOf
<1>4. ASSUME NEW q \in Requests PROVE OwnMoves(q) /\ CancelMoves(q)
  <2>1. CASE c = Own(q)
    <3>1. OwnMoves(q)
      BY <1>2, <1>3, <2>1, CallFacts DEF OwnMoves, Result, users
    <3> QED BY <1>3, <2>1, <3>1, CallFacts, OthersMove
  <2>2. CASE c = Cancel(q)
    <3>1. CancelMoves(q)
      BY <1>1, <1>2, <2>2 DEF CancelMoves, CallsOK, Quit, users
    <3> QED BY <1>3, <2>2, <3>1, CallFacts, OthersMove
  <2> QED BY <1>3, <2>1, <2>2, OthersMove
<1>5. /\ process' = process /\ readerTask' = readerTask /\ started' = started /\ started \in Nat
      /\ process' <= started'
  BY <1>1, <1>2, ProcessFacts DEF IInv, handles
<1> QED BY <1>1, <1>2, <1>4, <1>5, UselessStays, MailStays, CallsMove

LEMMA SpawnedStep ==
  ASSUME IInv, TypeOK', NEW c \in Calls, Spawned(c)
  PROVE  IInv'
<1>1. TypeOK /\ (\A p \in Processes : MailOK(p)) /\ \A q \in Requests : CallsOK(q) /\ Begun(q)
  BY DEF IInv
<1>2. /\ call[c] = "starting" /\ call' = [call EXCEPT ![c] = "pending"]
      /\ started' = started + 1 /\ process' = started + 1 /\ readerTask' = started + 1
      /\ inbox' = [inbox EXCEPT ![started + 1] = Append(@, <<c[1], MethodOf(c)>>)]
      /\ UNCHANGED <<method, cache, users, queue, truth>>
  BY DEF Spawned
<1>3. CallsOf(c) /\ call'[c] = "pending"
  BY <1>1, <1>2, CallTypes DEF CallsOf
<1>4. PICK r \in Requests : c = Own(r) \/ c = Cancel(r)
  BY CallFacts
<1>5. PICK P \in Processes : P = started + 1
  <2>1. started + 1 \in Processes
    BY <1>1, ProcessFacts, AcpBounds DEF Spawned, Processes
  <2> QED BY <2>1
<1>6. PICK n \in Methods : n = MethodOf(c)
  <2>1. MethodOf(c) \in Methods
    BY <1>1, CallFacts DEF MethodOf, Methods, TypeOK
  <2> QED BY <2>1
<1>7. PICK msg \in Requests \X Methods : msg = <<r, n>>
  OBVIOUS
<1>8. inbox' = [inbox EXCEPT ![P] = Append(@, msg)]
  BY <1>2, <1>4, <1>5, <1>6, <1>7, CallFacts
<1>9. /\ \A p \in Processes : \A x : x \in Mail(p)' => x \in Mail(p) \/ (p = P /\ x = msg)
      /\ (msg \notin Mail(P) \/ msg[2] = "cancel_session") /\ Apart(P) => Apart(P)'
      /\ \A p \in Processes : p # P /\ Apart(p) => Apart(p)'
  BY <1>1, <1>8, Added
<1>10. started \in Nat /\ P \in Nat /\ ~(P <= started)
  BY <1>1, <1>5, ProcessFacts
<1>11. msg \notin Mail(P)
  BY <1>1, <1>7, <1>10 DEF MailOK
<1>12. \A p \in Processes : Apart(p)'
  BY <1>1, <1>9, <1>11 DEF MailOK
<1>13. c = Cancel(r) => Quit(r)' /\ method[r] = "prompt"
  BY <1>1, <1>2 DEF CallsOK, Quit, users
<1>14. n = IF c = Own(r) THEN method[r] ELSE "cancel_session"
  BY <1>4, <1>6, CallFacts DEF MethodOf
<1>15. ASSUME NEW p \in Processes, NEW q \in Requests, NEW m \in Methods PROVE MailMoves(p, q, m)
  <2>1. SUFFICES ASSUME <<q, m>> \in Mail(p)', <<q, m>> \notin Mail(p) PROVE MailMoves(p, q, m)
    BY DEF MailMoves
  <2>2. p = P /\ q = r /\ m = n
    BY <1>7, <1>9, <2>1
  <2>3. p = process' /\ readerTask' # None /\ p <= started' /\ ~(p <= started)
    BY <1>2, <1>5, <1>10, <2>2 DEF None
  <2>4. CASE c = Cancel(r)
    <3>1. m = "cancel_session"
      BY <1>14, <2>2, <2>4, CallFacts
    <3> QED BY <1>13, <2>2, <2>3, <2>4, <3>1 DEF MailMoves
  <2>5. CASE c = Own(r)
    <3>1. m = method[q] /\ m # "cancel_session" /\ pc'[q] = pc[q] /\ call'[Own(q)] = "pending"
      BY <1>1, <1>2, <1>3, <1>14, <2>2, <2>5 DEF Begun, users
    <3> QED BY <1>2, <2>2, <2>3, <2>5, <3>1 DEF MailMoves
  <2> QED BY <1>4, <2>4, <2>5
<1>16. ASSUME NEW q \in Requests PROVE OwnMoves(q) /\ CancelMoves(q)
  <2>1. CASE c = Own(q)
    <3>1. OwnMoves(q)
      BY <1>2, <1>3, <2>1 DEF OwnMoves
    <3> QED BY <1>3, <2>1, <3>1, CallFacts, OthersMove
  <2>2. CASE c = Cancel(q)
    <3>1. CancelMoves(q)
      BY <1>1, <1>2, <2>2 DEF CancelMoves, CallsOK, Quit, users
    <3> QED BY <1>3, <2>2, <3>1, CallFacts, OthersMove
  <2> QED BY <1>3, <2>1, <2>2, OthersMove
<1>17. ASSUME NEW p \in 1..started, Useless(p) PROVE Useless(p)'
  BY <1>2, <1>10 DEF Useless
<1>18. started' \in Nat /\ started <= started' /\ process' <= started'
  BY <1>2, <1>10
<1> QED BY <1>2, <1>12, <1>15, <1>16, <1>17, <1>18, CallsMove

\* close() of a call that timed out.
LEMMA CloseStep ==
  ASSUME IInv, TypeOK', NEW r \in Requests, TimeOut(r) \/ Kill(r) \/ Ended(r) \/ Joined(r)
  PROVE  IInv'
<1>1. TypeOK /\ (\A p \in Processes : MailOK(p)) /\ \A q \in Requests : CallsOK(q)
  BY DEF IInv
<1>2. UNCHANGED <<started, inbox, method, cache, users, queue, truth>>
  BY DEF TimeOut, Kill, Ended, Joined
<1>3. process' \in {process, None} /\ readerTask' \in {readerTask, None}
  BY DEF TimeOut, Kill, Ended, Joined, Reset
<1>4. /\ call[Own(r)] \in {"pending", "closing", "joining"}
      /\ \/ call' = call
         \/ /\ call[Own(r)] \in {"pending", "closing"}
            /\ \E n \in {"closing", "joining"} : call' = [call EXCEPT ![Own(r)] = n]
         \/ /\ call' = [call EXCEPT ![Own(r)] = Result(Own(r), "error")]
            /\ process' = None
  BY DEF TimeOut, Kill, Ended, Joined, Reset
<1>5. Own(r) \in Calls
  BY CallFacts
<1>6. CallsOf(Own(r))
  BY <1>1, <1>4, <1>5, CallTypes DEF CallsOf
<1>7. OwnMoves(r)
  <2>1. CASE call' = call
    BY <2>1 DEF OwnMoves
  <2>2. CASE /\ call[Own(r)] \in {"pending", "closing"}
             /\ \E n \in {"closing", "joining"} : call' = [call EXCEPT ![Own(r)] = n]
    <3>1. call'[Own(r)] \in {"closing", "joining"}
      BY <1>1, <1>5, <2>2, CallTypes
    <3> QED BY <2>2, <3>1 DEF OwnMoves
  <2>3. CASE /\ call' = [call EXCEPT ![Own(r)] = Result(Own(r), "error")]
             /\ process' = None
    <3>1. call'[Own(r)] = IF pc[r] = "left" THEN "none" ELSE "error"
      BY <1>1, <1>5, <2>3, CallTypes, CallFacts DEF Result
    <3>2. \A p \in Processes : Useless(p)'
      BY <1>1, <1>3, <2>3, UselessStays
    <3>3. pc' = pc
      BY <1>2 DEF users
    <3> QED BY <1>4, <3>1, <3>2, <3>3 DEF OwnMoves
  <2> QED BY <1>4, <2>1, <2>2, <2>3
<1>8. ASSUME NEW q \in Requests PROVE OwnMoves(q) /\ CancelMoves(q)
  <2>1. PICK c \in Calls : c = Own(r)
    BY <1>5
  <2>2. CallsOf(c)
    BY <1>6, <2>1 DEF CallsOf
  <2>3. CancelMoves(q) /\ (q # r => OwnMoves(q))
    BY <2>1, <2>2, OthersMove, CallFacts
  <2> QED BY <1>7, <2>3
<1>9. started' = started /\ started \in Nat /\ process' <= started'
  BY <1>1, <1>2, <1>3, ProcessFacts DEF IInv, None
<1> QED BY <1>1, <1>2, <1>3, <1>8, <1>9, UselessStays, MailStays, CallsMove

LEMMA RunTaskStep ==
  ASSUME IInv, TypeOK', NEW r \in Requests, RunTask(r)
  PROVE  IInv'
<1>1. TypeOK /\ (\A p \in Processes : MailOK(p)) /\ \A q \in Requests : CallsOK(q) /\ Begun(q)
  BY DEF IInv
<1>2. /\ call[Own(r)] = "ready" /\ Issue(Own(r), "prompt")
      /\ UNCHANGED <<started, method, cache, users, queue, truth>>
  BY DEF RunTask
<1>3. method[r] = "prompt" /\ Own(r) \in Calls /\ Own(r)[1] = r /\ "prompt" \in Methods
  BY <1>1, <1>2, CallFacts DEF CallsOK, Methods
<1>4. PICK c \in Calls : c = Own(r)
  BY <1>3
<1>5. PICK m \in Methods : m = "prompt"
  BY <1>3
<1>6. CallsOf(c) /\ Issued(r, m)
  <2>1. Issue(c, m)
    BY <1>2, <1>4, <1>5
  <2> QED BY <1>1, <1>3, <1>4, <2>1, IssueFacts DEF Issued
<1>7. OwnMoves(r)
  BY <1>2, <1>6 DEF Issued, OwnMoves
<1>8. ASSUME NEW q \in Requests PROVE OwnMoves(q) /\ CancelMoves(q)
  BY <1>4, <1>6, <1>7, OthersMove, CallFacts
<1>9. process' \in {process, None} /\ readerTask' \in {readerTask, None}
  BY <1>6 DEF Issued
<1>10. started' = started /\ started \in Nat /\ process' <= started' /\ process <= started
  BY <1>1, <1>2, <1>9, ProcessFacts DEF IInv, None
<1>11. CASE inbox' = inbox
  BY <1>1, <1>2, <1>8, <1>9, <1>10, <1>11, UselessStays, MailStays, CallsMove
<1>12. CASE inbox' # inbox
  <2>1. /\ call'[Own(r)] = "pending" /\ process' = process /\ readerTask' = readerTask
        /\ process \in Processes /\ process # None /\ readerTask # None
        /\ inbox' = [inbox EXCEPT ![process] = Append(@, <<r, m>>)]
    BY <1>6, <1>12 DEF Issued
  <2>2. PICK P \in Processes : P = process
    BY <2>1
  <2>3. PICK msg \in Requests \X Methods : msg = <<r, m>>
    OBVIOUS
  <2>4. inbox' = [inbox EXCEPT ![P] = Append(@, msg)]
    BY <2>1, <2>2, <2>3
  <2>5. /\ \A p \in Processes : \A x : x \in Mail(p)' => x \in Mail(p) \/ (p = P /\ x = msg)
        /\ (msg \notin Mail(P) \/ msg[2] = "cancel_session") /\ Apart(P) => Apart(P)'
        /\ \A p \in Processes : p # P /\ Apart(p) => Apart(p)'
    BY <1>1, <2>4, Added
  <2>6. msg \notin Mail(P)
    BY <1>1, <1>2, <1>5, <2>3 DEF MailOK
  <2>7. \A p \in Processes : Apart(p)'
    BY <1>1, <2>5, <2>6 DEF MailOK
  <2>8. ASSUME NEW p \in Processes, NEW q \in Requests, NEW k \in Methods PROVE MailMoves(p, q, k)
    <3>1. SUFFICES ASSUME <<q, k>> \in Mail(p)', <<q, k>> \notin Mail(p) PROVE MailMoves(p, q, k)
      BY DEF MailMoves
    <3>2. p = P /\ q = r /\ k = "prompt"
      BY <1>5, <2>3, <2>5, <3>1
    <3>3. p = process' /\ readerTask' # None /\ p <= started' /\ p <= started
      BY <1>10, <2>1, <2>2, <3>2
    <3>4. pc' = pc
      BY <1>2 DEF users
    <3> QED BY <1>2, <1>3, <2>1, <3>2, <3>3, <3>4 DEF MailMoves
  <2> QED BY <1>1, <1>2, <1>8, <1>9, <1>10, <2>7, <2>8, UselessStays, CallsMove
<1> QED BY <1>11, <1>12

LEMMA DieStep ==
  ASSUME IInv, TypeOK', NEW p \in Processes, Die(p)
  PROVE  IInv'
<1>1. TypeOK /\ \A o \in Processes : MailOK(o)
  BY DEF IInv
<1>2. /\ inbox' = [inbox EXCEPT ![p] = <<>>]
      /\ UNCHANGED <<process, readerTask, started, call, method, cache, users, queue, truth>>
  BY DEF Die
<1>3. \A o \in Processes : Mail(o)' \subseteq Mail(o) /\ (Apart(o) => Apart(o)')
  BY <1>1, <1>2, Emptied
<1>4. \A q \in Requests : OwnMoves(q) /\ CancelMoves(q)
  BY <1>2 DEF OwnMoves, CancelMoves
<1>5. started' = started /\ started \in Nat /\ process' <= started'
  BY <1>1, <1>2, ProcessFacts DEF IInv
<1> QED BY <1>1, <1>2, <1>3, <1>4, <1>5, UselessStays, MailStays, CallsMove

\* Calls that fail with a reader, and the others.
LEMMA FailsMove ==
  ASSUME TypeOK, TypeOK', readerTask' \in {readerTask, None}, process' = process,
         NEW q \in Requests, CallsOK(q), pc'[q] = pc[q] \/ Quit(q)'
  PROVE  /\ FailsOr(Own(q), call[Own(q)]) => OwnMoves(q)
         /\ FailsOr(Cancel(q), call[Cancel(q)]) => CancelMoves(q)
<1>1. readerTask' = None => \A p \in Processes : Useless(p)'
  BY DEF Useless
<1>2. FailsOr(Own(q), call[Own(q)]) => OwnMoves(q)
  BY <1>1, CallFacts DEF FailsOr, OwnMoves, Quit
<1>3. ASSUME FailsOr(Cancel(q), call[Cancel(q)]) PROVE CancelMoves(q)
  <2>1. CASE call'[Cancel(q)] = call[Cancel(q)]
    BY <2>1 DEF CancelMoves
  <2>2. CASE call[Cancel(q)] = "pending"
    <3>1. Quit(q)' /\ method[q] = "prompt"
      BY <2>2 DEF CallsOK, Quit
    <3> QED BY <3>1 DEF CancelMoves
  <2> QED BY <1>3, <2>1, <2>2 DEF FailsOr
<1> QED BY <1>2, <1>3

LEMMA ReaderEndsStep ==
  ASSUME IInv, TypeOK', NEW p \in Processes, ReaderEnds(p)
  PROVE  IInv'
<1>1. TypeOK /\ (\A o \in Processes : MailOK(o)) /\ \A q \in Requests : CallsOK(q)
  BY DEF IInv
<1>2. /\ inbox' = [inbox EXCEPT ![p] = <<>>]
      /\ readerTask' = None
      /\ call' = [c \in Calls |-> IF call[c] = "pending" THEN Result(c, "error") ELSE call[c]]
      /\ UNCHANGED <<process, started, method, cache, users, queue, truth>>
  BY DEF ReaderEnds, Failed
<1>3. \A o \in Processes : Mail(o)' \subseteq Mail(o) /\ (Apart(o) => Apart(o)')
  BY <1>1, <1>2, Emptied
<1>4. \A c \in Calls : FailsOr(c, call[c])
  BY <1>2 DEF FailsOr, Result
<1>5. \A q \in Requests : OwnMoves(q) /\ CancelMoves(q)
  <2> SUFFICES ASSUME NEW q \in Requests PROVE OwnMoves(q) /\ CancelMoves(q)
    OBVIOUS
  <2>1. FailsOr(Own(q), call[Own(q)]) /\ FailsOr(Cancel(q), call[Cancel(q)])
    BY <1>4, CallFacts
  <2>2. pc'[q] = pc[q]
    BY <1>2 DEF users
  <2> QED BY <1>1, <1>2, <2>1, <2>2, FailsMove
<1>6. started' = started /\ started \in Nat /\ process' <= started'
  BY <1>1, <1>2, ProcessFacts DEF IInv
<1> QED BY <1>1, <1>2, <1>3, <1>5, <1>6, UselessStays, MailStays, CallsMove

-----------------------------------------------------------------------------
(* The steps of a request on its way out. *)

\* Request r moves; the handles are kept or dropped, and messages only of a
\* cancel are new.
LEMMA OutMoves ==
  ASSUME IInv, TypeOK', NEW r \in Requests,
         UNCHANGED <<started, method, cache, taken, mode, wanted, truth>>,
         process' \in {process, None}, readerTask' \in {readerTask, None},
         \A q \in Requests : q # r => pc'[q] = pc[q],
         PlaceMoves(r),
         \A q \in Requests : OwnMoves(q) /\ CancelMoves(q),
         queue' = queue \/ (Drop(r) /\ pc'[r] \notin {"using", "closing"}),
         \/ Drop(r)
         \/ pc'[r] \in {"using", "closing", "abandoned"}
         \/ pc[r] \notin {"using", "closing", "abandoned"}
         \/ mode[r] # "stream"
         \/ method[r] # "prompt",
         pc[r] \in {"using", "closing", "leaving"} \/ (method[r] = "prompt" /\ Quit(r)),
         \A p \in Processes : Apart(p)',
         \A p \in Processes, q \in Requests, m \in Methods : MailMoves(p, q, m)
  PROVE  IInv'
<1>1. TypeOK /\ \A q \in Requests : QueueOK(q) /\ Begun(q)
  BY DEF IInv
<1>2. Still
  <2>1. started' = started /\ started \in Nat /\ process' <= started'
    BY <1>1, ProcessFacts DEF IInv, None
  <2>2. started <= started
    BY <2>1
  <2>3. \A p \in 1..started : Useless(p) => Useless(p)'
    BY <1>1, UselessStays
  <2> QED BY <2>1, <2>2, <2>3 DEF Still
<1>3. \A q \in Requests : PlaceMoves(q)
  BY DEF PlaceMoves
<1>4. ASSUME NEW s \in Requests PROVE queue'[s] = queue[s] \/ (queue'[s] = None /\ s = ofSession[r])
  BY <1>1, DropFacts
<1>5. ASSUME NEW q \in Requests PROVE QueueMoves(q)
  <2>1. \A s \in Requests : queue'[s] = q => queue[s] = q
    BY <1>1, <1>4, ProcessFacts
  <2>2. ASSUME pc'[q] \notin {"using", "closing", "abandoned"}, pc'[q] # pc[q], NEW s \in Requests
        PROVE  queue'[s] # q
    <3>1. q = r
      BY <2>2
    <3>2. SUFFICES ASSUME queue'[s] = q PROVE FALSE
      OBVIOUS
    <3>3. /\ ofSession[r] = s /\ method[r] = "prompt" /\ mode[r] = "stream"
          /\ pc[r] \in {"using", "closing", "abandoned"}
      BY <1>1, <2>1, <3>1, <3>2 DEF QueueOK
    <3>4. Drop(r)
      BY <2>2, <3>1, <3>3
    <3>5. queue'[s] = None
      BY <1>1, <3>3, <3>4, DropFacts
    <3> QED BY <3>2, <3>5, ProcessFacts, <1>1
  <2>3. ASSUME pc'[q] \in {"using", "closing"}, ofSession[q] \in Requests,
               queue'[ofSession[q]] # queue[ofSession[q]]
        PROVE  QuitIn("prompt", q)'
    <3>1. /\ Drop(r) /\ ofSession[q] = ofSession[r] /\ mode[r] = "stream" /\ method[r] = "prompt"
          /\ pc'[r] \notin {"using", "closing"}
      BY <1>1, <1>4, <2>3, DropFacts
    <3>2. q # r
      BY <2>3, <3>1
    <3>3. pc[q] \in {"using", "closing"}
      BY <2>3, <3>2
    <3>4. pc[r] \notin {"using", "closing", "leaving"}
      BY <1>1, <3>2, <3>3, OneHolder
    <3>5. Quit(r)
      BY <3>4
    <3>6. Quit(r)'
      BY <1>3, <3>5 DEF PlaceMoves, Quit
    <3>7. method' = method /\ ofSession' = ofSession
      BY DEF truth
    <3> QED BY <3>1, <3>2, <3>6, <3>7 DEF QuitIn
  <2> QED BY <2>1, <2>2, <2>3 DEF QueueMoves
<1>6. Moves
  BY <1>2, <1>3, <1>5 DEF Moves
<1> QED BY <1>6, MovesKeep

\* The request's own call is over, or stays.
LEMMA EndStep ==
  ASSUME IInv, TypeOK', NEW r \in Requests, Prompted(r) \/ Finish(r) \/ Fail(r) \/ LeaveYielding(r)
  PROVE  IInv'
<1>1. /\ TypeOK /\ (\A o \in Processes : MailOK(o))
      /\ \A q \in Requests : CallsOK(q) /\ Begun(q)
  BY DEF IInv
<1>2. UNCHANGED <<process, readerTask, started, inbox, method, cache, taken, mode, wanted, truth>>
  BY DEF Prompted, Finish, Fail, LeaveYielding, handles, calls
<1>3. Own(r) \in Calls
  BY CallFacts
<1>4. \/ /\ pc[r] = "using" /\ call[Own(r)] = "ok" /\ method[r] = "prompt"
         /\ \/ mode[r] # "stream" /\ pc' = [pc EXCEPT ![r] = "done"]
            \/ pc' = [pc EXCEPT ![r] = "closing"]
         /\ queue' = queue /\ call' = [call EXCEPT ![Own(r)] = "none"]
      \/ /\ pc[r] = "closing" /\ pc' = [pc EXCEPT ![r] = "done"] /\ Drop(r) /\ call' = call
      \/ /\ pc[r] = "using" /\ call[Own(r)] = "error" /\ pc' = [pc EXCEPT ![r] = "failed"]
         /\ Drop(r) /\ call' = [call EXCEPT ![Own(r)] = "none"]
      \/ /\ pc[r] \in {"using", "closing"} /\ pc' = [pc EXCEPT ![r] = "abandoned"]
         /\ method[r] = "prompt" /\ queue' = queue /\ call' = call
  <2>1. CASE Prompted(r)
    <3>1. mode[r] = "chat" => mode[r] # "stream"
      OBVIOUS
    <3> QED BY <2>1, <3>1 DEF Prompted, Leaves, Forget
  <2>2. CASE Finish(r)
    BY <2>2 DEF Finish, Leaves, calls
  <2>3. CASE Fail(r)
    BY <2>3 DEF Fail, Leaves, Forget
  <2>4. CASE LeaveYielding(r)
    BY <2>4 DEF LeaveYielding, Leaves, calls
  <2> QED BY <2>1, <2>2, <2>3, <2>4
<1>5. /\ \A q \in Requests : q # r => pc'[q] = pc[q]
      /\ \/ pc'[r] = "done" /\ (mode[r] # "stream" \/ Drop(r))
         \/ pc'[r] \in {"closing", "abandoned"}
         \/ pc'[r] = "failed" /\ Drop(r)
      /\ \A c \in Calls : c # Own(r) => call'[c] = call[c]
      /\ \/ call' = call
         \/ call'[Own(r)] = "none"
  <2>1. pc \in [Requests -> Places] /\ call \in [Calls -> States]
    BY <1>1 DEF TypeOK, Places, States
  <2> QED BY <1>3, <1>4, <2>1
<1>6. PlaceMoves(r)
  <2>1. pc \in [Requests -> Places] /\ call \in [Calls -> States]
    BY <1>1 DEF TypeOK, Places, States
  <2>2. pc[r] = "closing" => method[r] = "prompt" /\ call[Own(r)] = "none"
    BY <1>1 DEF Begun, CallsOK
  <2> QED BY <1>3, <1>4, <2>1, <2>2 DEF PlaceMoves, Quit
<1>7. ASSUME NEW q \in Requests PROVE OwnMoves(q) /\ CancelMoves(q)
  <2>1. CancelMoves(q) /\ (q # r => OwnMoves(q))
    BY <1>5, CallFacts DEF CancelMoves, OwnMoves
  <2>2. OwnMoves(r)
    <3>1. pc'[r] # "using"
      BY <1>5
    <3> QED BY <1>5, <3>1 DEF OwnMoves
  <2> QED BY <2>1, <2>2
<1>8. queue' = queue \/ (Drop(r) /\ pc'[r] \notin {"using", "closing"})
  <2>1. pc \in [Requests -> Places]
    BY <1>1 DEF TypeOK, Places
  <2> QED BY <1>4, <2>1
<1>9. pc[r] \in {"using", "closing", "leaving"}
  BY <1>4
<1>10. \/ Drop(r)
       \/ pc'[r] \in {"using", "closing", "abandoned"}
       \/ pc[r] \notin {"using", "closing", "abandoned"}
       \/ mode[r] # "stream"
       \/ method[r] # "prompt"
  BY <1>5
<1>11. /\ \A o \in Processes : Apart(o)'
       /\ \A o \in Processes, q \in Requests, m \in Methods : MailMoves(o, q, m)
  BY <1>1, <1>2, MailStays
<1> QED BY <1>2, <1>5, <1>6, <1>7, <1>8, <1>9, <1>10, <1>11, OutMoves

\* Tasks are cancelled.
LEMMA AbandonStep ==
  ASSUME IInv, TypeOK', NEW r \in Requests, LeavePreparing(r) \/ CleanedUp(r)
  PROVE  IInv'
<1>1. /\ TypeOK /\ (\A o \in Processes : MailOK(o))
      /\ \A q \in Requests : CallsOK(q) /\ Begun(q)
  BY DEF IInv
<1>2. UNCHANGED <<process, started, inbox, method, cache, taken, mode, wanted, queue, truth>>
  BY DEF LeavePreparing, CleanedUp
<1>3. /\ pc[r] \in {"using", "leaving", "detached"}
      /\ pc[r] = "using" => method[r] # "prompt"
      /\ pc' = [pc EXCEPT ![r] = "left"]
  BY DEF LeavePreparing, CleanedUp, Leaves
<1>4. pc'[r] = "left" /\ \A q \in Requests : q # r => pc'[q] = pc[q]
  BY <1>1, <1>3 DEF TypeOK
<1>5. PICK cs \in SUBSET Calls : Abandon(cs) /\ cs \subseteq {Own(r), Cancel(r)}
  <2>1. {Own(r)} \in SUBSET Calls /\ {Own(r), Cancel(r)} \in SUBSET Calls /\ {Cancel(r)} \in SUBSET Calls
    BY CallFacts
  <2> QED BY <2>1 DEF LeavePreparing, CleanedUp
<1>6. /\ readerTask' \in {readerTask, None}
      /\ \A c \in cs : call'[c] = "none"
      /\ \A c \in Calls \ cs : FailsOr(c, call[c])
  BY <1>1, <1>5, AbandonFacts
<1>7. ASSUME NEW q \in Requests PROVE OwnMoves(q) /\ CancelMoves(q)
  <2>1. pc'[q] = pc[q] \/ Quit(q)'
    BY <1>4 DEF Quit
  <2>2. FailsOr(Own(q), call[Own(q)]) => OwnMoves(q)
    BY <1>1, <1>2, <1>6, <2>1, FailsMove
  <2>3. FailsOr(Cancel(q), call[Cancel(q)]) => CancelMoves(q)
    BY <1>1, <1>2, <1>6, <2>1, FailsMove
  <2>4. OwnMoves(q)
    <3>1. CASE Own(q) \in cs
      <4>1. q = r /\ call'[Own(q)] = "none"
        BY <1>5, <1>6, <3>1, CallFacts
      <4> QED BY <1>4, <4>1 DEF OwnMoves
    <3>2. CASE Own(q) \notin cs
      BY <1>6, <2>2, <3>2, CallFacts
    <3> QED BY <3>1, <3>2
  <2>5. CancelMoves(q)
    <3>1. CASE Cancel(q) \in cs
      BY <1>6, <3>1 DEF CancelMoves
    <3>2. CASE Cancel(q) \notin cs
      BY <1>6, <2>3, <3>2, CallFacts
    <3> QED BY <3>1, <3>2
  <2> QED BY <2>4, <2>5
<1>8. PlaceMoves(r)
  BY <1>3, <1>4 DEF PlaceMoves, Quit
<1>9. pc[r] \in {"using", "closing", "leaving"} \/ (method[r] = "prompt" /\ Quit(r))
  BY <1>1, <1>3 DEF Quit, Begun
<1>10. /\ \A o \in Processes : Apart(o)'
       /\ \A o \in Processes, q \in Requests, m \in Methods : MailMoves(o, q, m)
  BY <1>1, <1>2, MailStays
<1>11. \/ pc[r] \notin {"using", "closing", "abandoned"}
       \/ method[r] # "prompt"
  BY <1>3
<1> QED BY <1>2, <1>4, <1>6, <1>7, <1>8, <1>9, <1>10, <1>11, OutMoves

\* A session/cancel is sent for a request that is left.
LEMMA SendCancelMoves ==
  ASSUME IInv, NEW r \in Requests, SendCancel(r), method[r] = "prompt", Quit(r)',
         UNCHANGED started
  PROVE  /\ Drop(r)
         /\ process' \in {process, None} /\ readerTask' \in {readerTask, None}
         /\ \A q \in Requests : OwnMoves(q) /\ CancelMoves(q)
         /\ \A p \in Processes : Apart(p)'
         /\ \A p \in Processes, q \in Requests, m \in Methods : MailMoves(p, q, m)
<1>1. TypeOK /\ \A p \in Processes : MailOK(p)
  BY DEF IInv
<1>2. PICK c \in Calls, n \in Methods : c = Cancel(r) /\ n = "cancel_session" /\ Issue(c, n) /\ Drop(r)
  <2>1. Cancel(r) \in Calls /\ "cancel_session" \in Methods
    BY CallFacts DEF Methods
  <2> QED BY <2>1 DEF SendCancel
<1>3. /\ CallsOf(c)
      /\ \/ process' = process /\ readerTask' = readerTask
         \/ process' = None /\ readerTask' = None
      /\ \/ inbox' = inbox
         \/ /\ process' = process /\ process \in Processes
            /\ inbox' = [inbox EXCEPT ![process] = Append(@, <<c[1], n>>)]
  BY <1>1, <1>2, IssueFacts
<1>4. ASSUME NEW q \in Requests PROVE OwnMoves(q) /\ CancelMoves(q)
  <2>1. OwnMoves(q) /\ (q # r => CancelMoves(q))
    BY <1>2, <1>3, OthersMove, CallFacts
  <2> QED BY <2>1 DEF CancelMoves
<1>5. CASE inbox' = inbox
  BY <1>1, <1>2, <1>3, <1>4, <1>5, MailStays
<1>6. CASE inbox' # inbox
  <2>1. PICK P \in Processes : P = process
    BY <1>3, <1>6
  <2>2. PICK msg \in Requests \X Methods : msg = <<r, n>>
    OBVIOUS
  <2>3. inbox' = [inbox EXCEPT ![P] = Append(@, msg)]
    BY <1>2, <1>3, <1>6, <2>1, <2>2, CallFacts
  <2>4. /\ \A p \in Processes : \A x : x \in Mail(p)' => x \in Mail(p) \/ (p = P /\ x = msg)
        /\ (msg \notin Mail(P) \/ msg[2] = "cancel_session") /\ Apart(P) => Apart(P)'
        /\ \A p \in Processes : p # P /\ Apart(p) => Apart(p)'
    BY <1>1, <2>3, Added
  <2>5. \A p \in Processes : Apart(p)'
    BY <1>1, <1>2, <2>2, <2>4 DEF MailOK
  <2>6. process' <= started'
    BY <1>3, <1>6, <2>1 DEF IInv
  <2>7. ASSUME NEW p \in Processes, NEW q \in Requests, NEW m \in Methods PROVE MailMoves(p, q, m)
    <3>1. SUFFICES ASSUME <<q, m>> \in Mail(p)', <<q, m>> \notin Mail(p) PROVE MailMoves(p, q, m)
      BY DEF MailMoves
    <3>2. p = P /\ q = r /\ m = "cancel_session"
      BY <1>2, <2>2, <2>4, <3>1
    <3>3. p <= started'
      BY <1>3, <1>6, <2>1, <2>6, <3>2
    <3> QED BY <3>2, <3>3 DEF MailMoves
  <2> QED BY <1>2, <1>3, <1>4, <2>5, <2>7
<1> QED BY <1>5, <1>6

LEMMA CancelStep ==
  ASSUME IInv, TypeOK', NEW r \in Requests, LeaveWaiting(r) \/ CleanUp(r)
  PROVE  IInv'
<1>1. /\ TypeOK /\ (\A o \in Processes : MailOK(o))
      /\ \A q \in Requests : CallsOK(q) /\ Begun(q)
  BY DEF IInv
<1>2. UNCHANGED <<started, method, cache, taken, mode, wanted, truth>>
  BY DEF LeaveWaiting, CleanUp
<1>3. /\ pc[r] \in {"using", "abandoned"} /\ method[r] = "prompt"
      /\ \E n \in {"leaving", "detached", "left"} :
           /\ pc' = [pc EXCEPT ![r] = n]
           /\ n = "leaving" => pc[r] = "using"
  BY <1>1 DEF LeaveWaiting, CleanUp, Begun
<1>4. /\ pc'[r] \in {"leaving", "detached", "left"} /\ (pc'[r] = "leaving" => pc[r] = "using")
      /\ \A q \in Requests : q # r => pc'[q] = pc[q]
  BY <1>1, <1>3 DEF TypeOK
<1>5. Quit(r)' /\ PlaceMoves(r)
  BY <1>3, <1>4 DEF Quit, PlaceMoves
<1>6. pc[r] \in {"using", "closing", "leaving"} \/ (method[r] = "prompt" /\ Quit(r))
  BY <1>3 DEF Quit
<1>7. CASE SendCancel(r)
  <2>1. /\ Drop(r)
        /\ process' \in {process, None} /\ readerTask' \in {readerTask, None}
        /\ \A q \in Requests : OwnMoves(q) /\ CancelMoves(q)
        /\ \A p \in Processes : Apart(p)'
        /\ \A p \in Processes, q \in Requests, m \in Methods : MailMoves(p, q, m)
    BY <1>2, <1>3, <1>5, <1>7, SendCancelMoves
  <2>2. pc'[r] \notin {"using", "closing"}
    BY <1>4
  <2> QED BY <1>2, <1>4, <1>5, <1>6, <2>1, <2>2, OutMoves
<1>8. CASE ~SendCancel(r)
  <2>1. Drop(r) /\ UNCHANGED <<process, readerTask, call, inbox>>
    BY <1>8 DEF LeaveWaiting, CleanUp
  <2>2. \A q \in Requests : OwnMoves(q) /\ CancelMoves(q)
    BY <2>1 DEF OwnMoves, CancelMoves
  <2>3. /\ \A o \in Processes : Apart(o)'
        /\ \A o \in Processes, q \in Requests, m \in Methods : MailMoves(o, q, m)
    BY <1>1, <2>1, MailStays
  <2>4. pc'[r] \notin {"using", "closing"}
    BY <1>4
  <2> QED BY <1>2, <1>4, <1>5, <1>6, <2>1, <2>2, <2>3, <2>4, OutMoves
<1> QED BY <1>7, <1>8

-----------------------------------------------------------------------------
(* What a process does with its messages. *)

LEMMA UpdateStep ==
  ASSUME IInv, TypeOK', NEW p \in Processes, Update(p)
  PROVE  IInv'
<1>1. /\ TypeOK /\ (\A o \in Processes : MailOK(o))
      /\ \A q \in Requests :
           /\ Begun(q) /\ CallsOK(q) /\ Stray(q) /\ SessionOK(q) /\ QueueOK(q) /\ ClearOK(q)
           /\ Alone(q) /\ UpdatesOK(q) /\ AnswersOK(q)
  BY DEF IInv
<1>2. UNCHANGED <<process, readerTask, started, call, method, inbox, initialized, session, model,
                  taken, pc, mode, wanted, queue, ofSession, homeOf, runs, cut, answeredBy>>
  BY DEF Update, handles, calls, cache, users
<1>3. PICK i \in DOMAIN inbox[p] :
        /\ inbox[p][i][2] = "prompt" /\ Knows(p, inbox[p][i][1])
        /\ inbox[p][i][1] \notin said \cup cut
        /\ said' = said \cup {inbox[p][i][1]}
        /\ got' = [r \in Requests |-> IF r \in Listeners(ofSession[inbox[p][i][1]])
                                      THEN got[r] \cup {inbox[p][i][1]} ELSE got[r]]
  BY DEF Update
<1>4. PICK z \in Requests : z = inbox[p][i][1]
  BY <1>1, MessageTypes
<1>5. "prompt" \in Methods /\ <<z, "prompt">> \in Mail(p)
  BY <1>1, <1>3, <1>4, MessageTypes DEF Methods
<1>6. /\ method[z] = "prompt" /\ Sent(p, z)
      /\ pc[z] \notin {"idle", "closing", "done"} /\ call[Own(z)] \notin {"ready", "starting", "ok"}
  BY <1>1, <1>5 DEF MailOK, Sent
<1>7. ofSession[z] \in Requests /\ homeOf[ofSession[z]] = p
  BY <1>1, <1>3, <1>4 DEF Knows, TypeOK
<1>8. /\ \A q : (QuitIn("prompt", q))' <=> QuitIn("prompt", q)
      /\ \A s, w : Runs(s, w)' <=> Runs(s, w)
      /\ \A s : SetQuit(s)' <=> SetQuit(s)
  BY <1>2 DEF QuitIn, Runs, SetQuit, Quit
<1>9. /\ \A o \in Processes : Mail(o)' = Mail(o) /\ (Useless(o)' <=> Useless(o))
      /\ \A q \in Requests : Home(q)' = Home(q)
  BY <1>2 DEF Mail, Useless, Home
<1>10. \A q \in Requests : Good(q)' <=> Good(q)
  BY <1>2 DEF Good, Home, Sent, Mail, Useless
<1>11. CacheOK' /\ ModelOK' /\ (process <= started)' /\ (session # None => Opened(session))'
  BY <1>2 DEF IInv, CacheOK, ModelOK, Runs, SetQuit, Quit, Useless, Setting, Opened
<1>12. \A o \in Processes : MailOK(o)'
  BY <1>1, <1>2 DEF MailOK, Apart, Mail, Quit
<1>13. ASSUME NEW q \in Requests PROVE Begun(q)' /\ CallsOK(q)' /\ Stray(q)' /\ SessionOK(q)'
  BY <1>1, <1>2 DEF Begun, CallsOK, Quit, Stray, Sent, Mail, Useless, SessionOK, Opened
<1>14. ASSUME NEW q \in Requests PROVE QueueOK(q)' /\ Alone(q)' /\ AnswersOK(q)'
  <2>1. QueueOK(q)'
    BY <1>1, <1>2, <1>8 DEF QueueOK
  <2>2. Alone(q)'
    BY <1>1, <1>2, <1>10 DEF Alone, Sent, Mail, Home, Quit
  <2>3. AnswersOK(q)'
    BY <1>1, <1>2, <1>10 DEF AnswersOK, Runs, SetQuit, Quit, Useless, Home
  <2> QED BY <2>1, <2>2, <2>3
<1>15. ASSUME NEW q \in Requests, q \in Listeners(ofSession[z])
       PROVE  /\ method[q] = "prompt" /\ ofSession[q] = ofSession[z]
              /\ pc[q] \in {"using", "closing", "abandoned"}
  BY <1>1, <1>7, <1>15 DEF Listeners, QueueOK
<1>16. ASSUME NEW q \in Requests PROVE ClearOK(q)'
  BY <1>1, <1>2, <1>3, <1>4, <1>6, <1>15 DEF ClearOK
<1>17. ASSUME NEW q \in Requests PROVE UpdatesOK(q)'
  <2>1. SUFFICES ASSUME Good(q), ~QuitIn("prompt", q)
                 PROVE  got'[q] = said' \cap {q} /\ q \notin cut'
    BY <1>8, <1>10 DEF UpdatesOK
  <2>2. got[q] = said \cap {q} /\ q \notin cut
    BY <1>1, <2>1 DEF UpdatesOK
  <2>3. got'[q] = IF q \in Listeners(ofSession[z]) THEN got[q] \cup {z} ELSE got[q]
    BY <1>3, <1>4
  <2>4. CASE q = z
    <3>1. pc[q] = "using"
      BY <1>6, <2>1, <2>4 DEF Good
    <3>2. mode[q] = "stream" => queue[ofSession[q]] = q
      BY <1>1, <1>6, <2>1, <2>4, <3>1 DEF QueueOK
    <3>3. mode[q] = "chat" \/ mode[q] = "stream"
      BY <1>1 DEF TypeOK, Modes
    <3>4. q \in Listeners(ofSession[z])
      BY <1>1, <1>6, <2>4, <3>1, <3>2, <3>3, ProcessFacts DEF Listeners
    <3> QED BY <1>2, <1>3, <1>4, <2>2, <2>3, <2>4, <3>4
  <2>5. CASE q # z /\ q \in Listeners(ofSession[z])
    <3>1. Home(q) = p /\ pc[q] # "done" /\ method[q] = "prompt" /\ ofSession[q] = ofSession[z]
      BY <1>7, <1>15, <2>5 DEF Home
    <3>2. Sent(Home(q), z)
      BY <1>6, <3>1
    <3>3. Quit(z)
      BY <1>1, <2>1, <2>5, <3>1, <3>2 DEF Alone
    <3>4. QuitIn("prompt", q)
      BY <1>6, <2>5, <3>1, <3>3 DEF QuitIn
    <3> QED BY <2>1, <3>4
  <2>6. CASE q # z /\ q \notin Listeners(ofSession[z])
    BY <1>2, <1>3, <1>4, <2>2, <2>3, <2>6
  <2> QED BY <2>4, <2>5, <2>6
<1> QED BY <1>11, <1>12, <1>13, <1>14, <1>16, <1>17 DEF IInv

\* The message <<r, m>> of process p is answered.
Answers(p, r, m) ==
  /\ <<r, m>> \in Mail(p)
  /\ UNCHANGED <<process, readerTask, started, method, initialized, session, model, taken, pc,
                 mode, wanted, queue, ofSession, said, got>>
  /\ \A o \in Processes :
       /\ Mail(o)' \subseteq Mail(o) /\ Apart(o)'
       /\ m # "cancel_session" => <<r, m>> \notin Mail(o)'

\* An own call stays, or is the one that is answered.
OwnAnswered(p, r, m, q) ==
  \/ call'[Own(q)] = call[Own(q)] /\ (q # r \/ m = "cancel_session" \/ call[Own(q)] # "pending")
  \/ /\ q = r /\ m # "cancel_session" /\ call[Own(q)] = "pending"
     /\ \/ call'[Own(q)] = "none" /\ pc[q] = "left"
        \/ call'[Own(q)] = "error" /\ runs' = runs
        \/ /\ call'[Own(q)] = "ok"
           /\ m = "new_session" => homeOf'[r] = p
           /\ m = "set_model" => Knows(p, r) /\ runs'[ofSession[r]] = wanted[r]
           /\ m = "prompt" => Knows(p, r) /\ answeredBy'[r] = runs[ofSession[r]]

\* What an answer did.
Effects(p, r, m, q) ==
  /\ homeOf'[q] = homeOf[q] \/ (q = r /\ m = "new_session" /\ homeOf'[q] = p)
  /\ runs'[q] = runs[q] \/ (m = "set_model" /\ Knows(p, r) /\ q = ofSession[r])
  /\ q \in cut' => \/ q \in cut
                   \/ /\ m = "cancel_session" /\ Knows(p, r) /\ ofSession[q] = ofSession[r]
                      /\ <<q, "prompt">> \in Mail(p)
  /\ q \in cut => q \in cut'
  /\ answeredBy'[q] = answeredBy[q] \/ (q = r /\ m = "prompt" /\ Knows(p, r))
Answering(p, r, m) ==
  /\ Answers(p, r, m)
  /\ \A q \in Requests : /\ OwnAnswered(p, r, m, q) /\ Effects(p, r, m, q)
                         /\ call'[Cancel(q)] = call[Cancel(q)] \/ (Quit(q) /\ method[q] = "prompt")

LEMMA EffectFacts ==
  ASSUME TypeOK, NEW p \in Processes, NEW r \in Requests, NEW m \in Methods, Effect(p, r, m)
  PROVE  /\ m = "new_session" => homeOf'[r] = p
         /\ m = "set_model" => Knows(p, r) /\ runs'[ofSession[r]] = wanted[r]
         /\ m = "prompt" => Knows(p, r) /\ answeredBy'[r] = runs[ofSession[r]]
         /\ \A q \in Requests : Effects(p, r, m, q)
<1>1. /\ homeOf \in [Requests -> Processes \cup {None}] /\ runs \in [Requests -> Models \cup {NoModel}]
      /\ cut \subseteq Requests /\ answeredBy \in [Requests -> Models \cup {NoModel}]
      /\ Knows(p, r) => ofSession[r] \in Requests
  BY DEF TypeOK, Knows
<1>2. CASE m = "initialize"
  <2>1. UNCHANGED <<homeOf, runs, cut, answeredBy>>
    BY <1>2 DEF Effect
  <2> QED BY <1>2, <2>1 DEF Effects
<1>3. CASE m = "new_session"
  <2>1. homeOf' = [homeOf EXCEPT ![r] = p] /\ runs' = runs /\ cut' = cut /\ answeredBy' = answeredBy
    BY <1>3 DEF Effect
  <2> QED BY <1>1, <1>3, <2>1 DEF Effects
<1>4. CASE m = "set_model"
  <2>1. /\ Knows(p, r) /\ runs' = [runs EXCEPT ![ofSession[r]] = wanted[r]]
        /\ homeOf' = homeOf /\ cut' = cut /\ answeredBy' = answeredBy
    BY <1>4 DEF Effect
  <2> QED BY <1>1, <1>4, <2>1 DEF Effects
<1>5. CASE m = "prompt"
  <2>1. /\ Knows(p, r) /\ answeredBy' = [answeredBy EXCEPT ![r] = runs[ofSession[r]]]
        /\ homeOf' = homeOf /\ cut' = cut /\ runs' = runs
    BY <1>5 DEF Effect
  <2> QED BY <1>1, <1>5, <2>1 DEF Effects
<1>6. CASE m = "cancel_session"
  <2>1. /\ Knows(p, r)
        /\ cut' = cut \cup {q \in Requests : ofSession[q] = ofSession[r] /\
                              \E j \in DOMAIN inbox[p] : inbox[p][j] = <<q, "prompt">>}
        /\ homeOf' = homeOf /\ runs' = runs /\ answeredBy' = answeredBy
    BY <1>6 DEF Effect
  <2>2. \A q \in Requests : q \in cut' => q \in cut \/ (ofSession[q] = ofSession[r] /\ <<q, "prompt">> \in Mail(p))
    BY <2>1 DEF Mail
  <2> QED BY <1>6, <2>1, <2>2 DEF Effects
<1> QED BY <1>2, <1>3, <1>4, <1>5, <1>6 DEF Methods

LEMMA AnswerFacts ==
  ASSUME TypeOK, \A o \in Processes : MailOK(o), NEW p \in Processes, Answer(p)
  PROVE  \E r \in Requests, m \in Methods : Answering(p, r, m)
<1>1. PICK i \in DOMAIN inbox[p] :
        LET msg == inbox[p][i] IN
        /\ inbox' = [inbox EXCEPT ![p] = Without(@, i)]
        /\ \/ Effect(p, msg[1], msg[2]) /\ Resolve(CallOf(msg), "ok")
           \/ Resolve(CallOf(msg), "error") /\ UNCHANGED <<homeOf, runs, cut, answeredBy>>
  BY DEF Answer
<1>2. PICK r \in Requests, m \in Methods : r = inbox[p][i][1] /\ m = inbox[p][i][2]
  BY MessageTypes
<1>3. inbox[p][i] = <<r, m>> /\ <<r, m>> \in Mail(p) /\ Apart(p)
  BY <1>2, MessageTypes DEF MailOK
<1>4. /\ \A o \in Processes : Mail(o)' \subseteq Mail(o) /\ Apart(o)'
      /\ m # "cancel_session" => \A o \in Processes : <<r, m>> \notin Mail(o)'
  <2>1. /\ \A o \in Processes : Mail(o)' \subseteq Mail(o)
        /\ m # "cancel_session" => <<r, m>> \notin Mail(p)'
        /\ Apart(p)' /\ \A o \in Processes : o # p => Mail(o)' = Mail(o) /\ inbox'[o] = inbox[o]
    <3>1. inbox' = [inbox EXCEPT ![p] = Without(@, i)]
      BY <1>1
    <3>2. /\ \A o \in Processes : Mail(o)' \subseteq Mail(o)
          /\ inbox[p][i][2] # "cancel_session" => inbox[p][i] \notin Mail(p)'
          /\ Apart(p)' /\ \A o \in Processes : o # p => Mail(o)' = Mail(o) /\ inbox'[o] = inbox[o]
      BY <1>3, <3>1, Removed
    <3> QED BY <1>2, <1>3, <3>2
  <2>2. ASSUME NEW o \in Processes PROVE Apart(o)'
    <3>1. CASE o = p
      BY <2>1, <3>1
    <3>2. CASE o # p
      BY <2>1, <3>2 DEF MailOK, Apart
    <3> QED BY <3>1, <3>2
  <2>3. ASSUME m # "cancel_session", NEW o \in Processes, <<r, m>> \in Mail(o)' PROVE FALSE
    <3>1. o # p
      BY <2>1, <2>3
    <3>2. <<r, m>> \in Mail(o)
      BY <2>1, <2>3
    <3> QED BY <1>3, <2>3, <3>1, <3>2 DEF MailOK
  <2> QED BY <2>1, <2>2, <2>3
<1>5. Answers(p, r, m)
  BY <1>3, <1>4 DEF Answers, Answer, handles, cache, users
<1>6. PICK c \in Calls : c = CallOf(inbox[p][i]) /\ c = IF m = "cancel_session" THEN Cancel(r) ELSE Own(r)
  BY <1>2, CallFacts DEF CallOf
<1>7. PICK how \in {"ok", "error"} :
        /\ Resolve(c, how)
        /\ how = "ok" => Effect(p, r, m)
        /\ how = "error" => UNCHANGED <<homeOf, runs, cut, answeredBy>>
  BY <1>1, <1>2, <1>6
<1>8. /\ \A d \in Calls : d # c => call'[d] = call[d]
      /\ call[c] # "pending" => call'[c] = call[c]
      /\ call[c] = "pending" => call'[c] = IF pc[c[1]] = "left" THEN "none" ELSE how
  <2>1. call \in [Calls -> States]
    BY CallTypes
  <2>2. CASE call[c] = "pending"
    <3>1. call' = [call EXCEPT ![c] = Result(c, how)]
      BY <1>7, <2>2 DEF Resolve
    <3> QED BY <2>1, <2>2, <3>1 DEF Result
  <2>3. CASE call[c] # "pending"
    <3>1. call' = call
      BY <1>7, <2>3 DEF Resolve
    <3> QED BY <2>3, <3>1
  <2> QED BY <2>2, <2>3
<1>9. /\ how = "ok" => /\ m = "new_session" => homeOf'[r] = p
                       /\ m = "set_model" => Knows(p, r) /\ runs'[ofSession[r]] = wanted[r]
                       /\ m = "prompt" => Knows(p, r) /\ answeredBy'[r] = runs[ofSession[r]]
      /\ \A q \in Requests : Effects(p, r, m, q)
  <2>1. CASE how = "ok"
    BY <1>7, <2>1, EffectFacts
  <2>2. CASE how = "error"
    BY <1>7, <2>2 DEF Effects
  <2> QED BY <2>1, <2>2
<1>10. ASSUME NEW q \in Requests
       PROVE  /\ OwnAnswered(p, r, m, q)
              /\ call'[Cancel(q)] = call[Cancel(q)] \/ (Quit(q) /\ method[q] = "prompt")
  <2>1. CASE m = "cancel_session"
    <3>1. c = Cancel(r) /\ Own(q) # c /\ (Cancel(q) = c => q = r)
      BY <1>6, <2>1, CallFacts
    <3>2. Quit(r) /\ method[r] = "prompt"
      BY <1>3, <2>1 DEF MailOK
    <3>3. call'[Own(q)] = call[Own(q)] /\ (Cancel(q) # c => call'[Cancel(q)] = call[Cancel(q)])
      BY <1>8, <3>1, CallFacts
    <3> QED BY <2>1, <3>1, <3>2, <3>3 DEF OwnAnswered
  <2>2. CASE m # "cancel_session"
    <3>1. c = Own(r) /\ c[1] = r /\ Cancel(q) # c /\ (Own(q) = c => q = r)
      BY <1>6, <2>2, CallFacts
    <3>2. call'[Cancel(q)] = call[Cancel(q)] /\ (q # r => call'[Own(q)] = call[Own(q)])
      BY <1>8, <3>1, CallFacts
    <3>3. CASE q # r
      BY <3>2, <3>3 DEF OwnAnswered
    <3>4. CASE q = r
      <4>1. OwnAnswered(p, r, m, r)
        BY <1>7, <1>8, <1>9, <2>2, <3>1 DEF OwnAnswered
      <4> QED BY <3>2, <3>4, <4>1
    <3> QED BY <3>3, <3>4
  <2> QED BY <2>1, <2>2
<1> QED BY <1>5, <1>9, <1>10 DEF Answering

\* The request of a message that is answered.
LEMMA AnsweredFacts ==
  ASSUME IInv, NEW p \in Processes, NEW r \in Requests, NEW m \in Methods, Answering(p, r, m)
  PROVE  /\ p \in 1..started
         /\ m = "cancel_session" => Quit(r) /\ method[r] = "prompt"
         /\ m # "cancel_session" =>
              /\ m = method[r] /\ Sent(p, r) /\ pc[r] \notin {"idle", "closing", "done"}
              /\ call[Own(r)] \notin {"ready", "starting", "ok"}
<1>1. MailOK(p) /\ <<r, m>> \in Mail(p) /\ TypeOK
  BY DEF IInv, Answering, Answers
<1>2. p <= started /\ (p <= started <=> p \in 1..started)
  BY <1>1, ProcessFacts DEF MailOK
<1>3. m = "cancel_session" => Quit(r) /\ method[r] = "prompt"
  BY <1>1 DEF MailOK
<1>4. m # "cancel_session" =>
        /\ m = method[r] /\ pc[r] \notin {"idle", "closing", "done"}
        /\ call[Own(r)] \notin {"ready", "starting", "ok"}
  BY <1>1 DEF MailOK
<1> QED BY <1>1, <1>2, <1>3, <1>4 DEF Sent

\* Sessions keep the process that opened them.
LEMMA HomesStay ==
  ASSUME IInv, NEW p \in Processes, NEW r \in Requests, NEW m \in Methods, Answering(p, r, m)
  PROVE  /\ \A s \in Requests : Opened(s) => Opened(s)' /\ homeOf'[s] = homeOf[s]
         /\ \A q \in Requests : ofSession[q] # None =>
              /\ ofSession[q] \in Requests /\ Home(q)' = Home(q)
              /\ Home(q) \in Processes /\ Opened(ofSession[q])'
<1>1. UNCHANGED <<method, started, ofSession>> /\ \A q \in Requests : Effects(p, r, m, q)
  BY DEF Answering, Answers
<1>2. ASSUME NEW s \in Requests, Opened(s) PROVE homeOf'[s] = homeOf[s] /\ Opened(s)'
  <2>1. s = r => m # "new_session"
    BY <1>2, AnsweredFacts DEF Opened
  <2>2. homeOf'[s] = homeOf[s]
    BY <1>1, <2>1 DEF Effects
  <2> QED BY <1>1, <1>2, <2>2 DEF Opened
<1>3. ASSUME NEW q \in Requests, ofSession[q] # None
      PROVE  /\ ofSession[q] \in Requests /\ Home(q)' = Home(q)
             /\ Home(q) \in Processes /\ Opened(ofSession[q])'
  <2>1. PICK s \in Requests : s = ofSession[q]
    BY <1>3 DEF IInv, TypeOK
  <2>2. Opened(s)
    BY <1>3, <2>1 DEF IInv, SessionOK
  <2>3. homeOf'[s] = homeOf[s] /\ Opened(s)'
    BY <1>2, <2>2
  <2>4. homeOf[s] \in Processes
    BY <2>2 DEF IInv, TypeOK, Opened, None
  <2> QED BY <1>1, <2>1, <2>3, <2>4 DEF Home, Opened
<1> QED BY <1>2, <1>3

\* A session gets a model by the request that sets it; or by one that was left
\* or failed while it did.
LEMMA RunsMove ==
  ASSUME IInv, NEW p \in Processes, NEW r \in Requests, NEW m \in Methods, Answering(p, r, m),
         NEW s \in Requests
  PROVE  \/ runs'[s] = runs[s]
         \/ SetQuit(s)
         \/ /\ ~Quit(r) /\ method[r] = "set_model" /\ ofSession[r] = s /\ homeOf[s] = p /\ Sent(p, r)
            /\ Useless(p) \/ Setting(r)'
<1> SUFFICES ASSUME runs'[s] # runs[s], ~SetQuit(s)
             PROVE  /\ ~Quit(r) /\ method[r] = "set_model" /\ ofSession[r] = s /\ homeOf[s] = p /\ Sent(p, r)
                    /\ Useless(p) \/ Setting(r)'
  OBVIOUS
<1>1. /\ Effects(p, r, m, s) /\ OwnAnswered(p, r, m, r)
      /\ method' = method /\ pc' = pc
  BY DEF Answering, Answers
<1>2. m = "set_model" /\ Knows(p, r) /\ s = ofSession[r]
  BY <1>1 DEF Effects
<1>3. /\ method[r] = "set_model" /\ Sent(p, r) /\ pc[r] \notin {"idle", "closing", "done"}
      /\ call[Own(r)] \notin {"ready", "starting", "ok"} /\ homeOf[s] = p
  BY <1>2, AnsweredFacts DEF Knows
<1>4. ~Quit(r)
  BY <1>2, <1>3 DEF SetQuit
<1>5. Begun(r) /\ CallsOK(r) /\ Stray(r) /\ TypeOK
  BY DEF IInv
<1>6. pc[r] \in {"using", "failed"}
  BY <1>3, <1>4, <1>5 DEF TypeOK, Quit
<1>7. CASE pc[r] = "failed" \/ call[Own(r)] = "error"
  BY <1>2, <1>3, <1>4, <1>5, <1>6, <1>7 DEF Stray
<1>8. CASE pc[r] = "using" /\ call[Own(r)] # "error"
  <2>1. call[Own(r)] \in {"pending", "closing", "joining"}
    <3>1. call[Own(r)] \in States /\ call[Own(r)] # "none"
      BY <1>5, <1>8, CallTypes, CallFacts DEF CallsOK
    <3> QED BY <1>3, <1>8, <3>1 DEF States
  <2>2. call'[Own(r)] \in {"closing", "joining", "ok"} \/ runs' = runs
    BY <1>1, <1>2, <1>8, <2>1 DEF OwnAnswered
  <2>3. CASE call'[Own(r)] \in {"closing", "joining", "ok"}
    BY <1>1, <1>2, <1>3, <1>4, <1>8, <2>3 DEF Setting
  <2> QED BY <2>2, <2>3
<1> QED BY <1>6, <1>7, <1>8

\* A request whose prompt was answered could be answered.
LEMMA GoodAnswered ==
  ASSUME IInv, NEW p \in Processes, NEW r \in Requests, NEW m \in Methods, Answering(p, r, m),
         NEW q \in Requests, Good(q)'
  PROVE  /\ Good(q) /\ ofSession[q] # None
         /\ \/ call'[Own(q)] = call[Own(q)] /\ answeredBy'[q] = answeredBy[q]
            \/ /\ q = r /\ pc[q] = "using" /\ call[Own(q)] = "pending" /\ call'[Own(q)] = "ok"
               /\ answeredBy'[q] = runs[ofSession[q]]
            \/ pc[q] = "using" /\ call'[Own(q)] # "ok" /\ call[Own(q)] # "ok"
<1>1. UNCHANGED <<process, readerTask, method, pc, ofSession>>
  BY DEF Answering, Answers
<1>2. /\ OwnAnswered(p, r, m, q) /\ Effects(p, r, m, q) /\ Begun(q) /\ method[q] = "prompt"
      /\ pc[q] \in {"using", "closing", "done"}
  BY <1>1 DEF Answering, IInv, Good
<1>3. ofSession[q] # None
  BY <1>2 DEF Begun
<1>4. Home(q)' = Home(q) /\ Home(q) \in Processes
  BY <1>3, HomesStay
<1>5. CASE pc[q] \in {"closing", "done"}
  <2>1. q = r => m = "cancel_session"
    BY <1>5, AnsweredFacts
  <2>2. call'[Own(q)] = call[Own(q)] /\ answeredBy'[q] = answeredBy[q]
    BY <1>2, <2>1 DEF OwnAnswered, Effects
  <2> QED BY <1>2, <1>3, <1>5, <2>2 DEF Good
<1>6. CASE pc[q] = "using" /\ call'[Own(q)] = call[Own(q)]
  <2>1. Sent(Home(q), q)' => Sent(Home(q), q)
    <3>1. PICK o \in Processes : o = Home(q)
      BY <1>4
    <3>2. Mail(o)' \subseteq Mail(o)
      BY DEF Answering, Answers
    <3>3. Sent(o, q)' => Sent(o, q)
      BY <1>1, <3>2 DEF Sent
    <3> QED BY <1>4, <3>1, <3>3 DEF Sent, Mail
  <2>2. Useless(Home(q)) => Useless(Home(q))'
    BY <1>1, <1>4 DEF Useless
  <2>3. Good(q)
    BY <1>1, <1>6, <2>1, <2>2 DEF Good
  <2>4. call[Own(q)] = "ok" => answeredBy'[q] = answeredBy[q]
    <3>1. call[Own(q)] = "ok" /\ q = r => m = "cancel_session"
      BY AnsweredFacts
    <3> QED BY <1>2, <3>1 DEF Effects
  <2> QED BY <1>3, <1>6, <2>3, <2>4
<1>7. CASE pc[q] = "using" /\ call'[Own(q)] # call[Own(q)]
  <2>1. q = r /\ m # "cancel_session" /\ call[Own(q)] = "pending" /\ call'[Own(q)] = "ok"
    BY <1>1, <1>2, <1>7 DEF OwnAnswered, Good
  <2>2. m = "prompt" /\ Sent(p, r)
    BY <1>2, <2>1, AnsweredFacts
  <2>3. Knows(p, r) /\ answeredBy'[r] = runs[ofSession[r]]
    BY <1>2, <2>1, <2>2 DEF OwnAnswered
  <2>4. Good(q)
    BY <1>2, <1>7, <2>1, <2>2, <2>3 DEF Good, Home, Knows
  <2> QED BY <1>3, <1>7, <2>1, <2>3, <2>4
<1> QED BY <1>2, <1>5, <1>6, <1>7

LEMMA AnswerStep ==
  ASSUME IInv, TypeOK', NEW p \in Processes, Answer(p)
  PROVE  IInv'
<1>1. /\ TypeOK /\ (\A o \in Processes : MailOK(o))
      /\ \A q \in Requests :
           /\ Begun(q) /\ CallsOK(q) /\ Stray(q) /\ SessionOK(q) /\ QueueOK(q) /\ ClearOK(q)
           /\ Alone(q) /\ UpdatesOK(q) /\ AnswersOK(q)
  BY DEF IInv
<1>2. PICK r \in Requests, m \in Methods : Answering(p, r, m)
  BY <1>1, AnswerFacts
<1>3. /\ UNCHANGED <<process, readerTask, started, method, initialized, session, model, taken, pc,
                     mode, wanted, queue, ofSession, said, got>>
      /\ \A o \in Processes : /\ Mail(o)' \subseteq Mail(o) /\ Apart(o)'
                              /\ m # "cancel_session" => <<r, m>> \notin Mail(o)'
  BY <1>2 DEF Answering, Answers
<1>4. ASSUME NEW q \in Requests
      PROVE  /\ OwnAnswered(p, r, m, q) /\ Effects(p, r, m, q)
             /\ call'[Cancel(q)] = call[Cancel(q)] \/ (Quit(q) /\ method[q] = "prompt")
  BY <1>2 DEF Answering
<1>5. /\ p \in 1..started
      /\ m = "cancel_session" => Quit(r) /\ method[r] = "prompt"
      /\ m # "cancel_session" =>
           /\ m = method[r] /\ Sent(p, r) /\ pc[r] \notin {"idle", "closing", "done"}
           /\ call[Own(r)] \notin {"ready", "starting", "ok"}
  BY <1>2, AnsweredFacts
<1>6. /\ \A q : Quit(q)' <=> Quit(q)
      /\ \A q : (QuitIn("prompt", q))' <=> QuitIn("prompt", q)
      /\ \A s : SetQuit(s)' <=> SetQuit(s)
      /\ \A o \in Processes : Useless(o)' <=> Useless(o)
  BY <1>3 DEF QuitIn, SetQuit, Quit, Useless
<1>7. /\ \A s \in Requests : Opened(s) => Opened(s)' /\ homeOf'[s] = homeOf[s]
      /\ \A q \in Requests : ofSession[q] # None =>
           /\ ofSession[q] \in Requests /\ Home(q)' = Home(q)
           /\ Home(q) \in Processes /\ Opened(ofSession[q])'
  BY <1>2, HomesStay
<1>8. ASSUME NEW q \in Requests, Good(q)'
      PROVE  /\ Good(q) /\ ofSession[q] # None
             /\ \/ call'[Own(q)] = call[Own(q)] /\ answeredBy'[q] = answeredBy[q]
                \/ /\ q = r /\ pc[q] = "using" /\ call[Own(q)] = "pending" /\ call'[Own(q)] = "ok"
                   /\ answeredBy'[q] = runs[ofSession[q]]
                \/ pc[q] = "using" /\ call'[Own(q)] # "ok" /\ call[Own(q)] # "ok"
  BY <1>2, <1>8, GoodAnswered
<1>9. ASSUME NEW s \in Requests
      PROVE  \/ runs'[s] = runs[s]
             \/ SetQuit(s)
             \/ /\ ~Quit(r) /\ method[r] = "set_model" /\ ofSession[r] = s /\ homeOf[s] = p /\ Sent(p, r)
                /\ Useless(p) \/ Setting(r)'
  BY <1>2, RunsMove
<1>10. CacheOK' /\ (process <= started)'
  BY <1>3 DEF IInv, CacheOK
<1>11. ASSUME session # None
       PROVE  /\ session \in Requests /\ Opened(session)' /\ homeOf'[session] = homeOf[session]
              /\ homeOf[session] \in Processes
  <2>1. PICK s \in Requests : s = session /\ Opened(s)
    BY <1>1, <1>11 DEF IInv, TypeOK
  <2>2. homeOf[s] \in Processes
    BY <1>1, <2>1 DEF TypeOK, Opened, None
  <2>3. Opened(s)' /\ homeOf'[s] = homeOf[s]
    BY <1>7, <2>1
  <2> QED BY <1>3, <2>1, <2>2, <2>3 DEF Opened
<1>12. (session # None => Opened(session))'
  BY <1>3, <1>11 DEF Opened
<1>13. ASSUME NEW o \in Processes PROVE MailOK(o)'
  <2>1. ASSUME NEW q \in Requests, NEW k \in Methods, <<q, k>> \in Mail(o)'
        PROVE  /\ o <= started'
               /\ IF k = "cancel_session"
                  THEN Quit(q)' /\ method'[q] = "prompt"
                  ELSE /\ k = method'[q] /\ pc'[q] \notin {"idle", "closing", "done"}
                       /\ call'[Own(q)] \notin {"ready", "starting", "ok"}
                       /\ \A n \in Processes : <<q, k>> \in Mail(n)' => n = o
    <3>1. <<q, k>> \in Mail(o) /\ MailOK(o)
      BY <1>1, <1>3, <2>1
    <3>2. CASE k = "cancel_session"
      BY <1>3, <1>6, <3>1, <3>2 DEF MailOK
    <3>3. CASE k # "cancel_session"
      <4>1. /\ o <= started /\ k = method[q] /\ pc[q] \notin {"idle", "closing", "done"}
            /\ call[Own(q)] \notin {"ready", "starting", "ok"}
            /\ \A n \in Processes : <<q, k>> \in Mail(n) => n = o
        BY <3>1, <3>3 DEF MailOK
      <4>2. ~(q = r /\ m # "cancel_session")
        BY <1>3, <1>5, <2>1, <4>1
      <4>3. call'[Own(q)] = call[Own(q)]
        BY <1>4, <4>2 DEF OwnAnswered
      <4> QED BY <1>3, <3>3, <4>1, <4>3
    <3> QED BY <3>2, <3>3
  <2> QED BY <1>3, <2>1 DEF MailOK
<1>14. ASSUME NEW q \in Requests PROVE Begun(q)' /\ CallsOK(q)' /\ QueueOK(q)'
  <2>1. Begun(q)' /\ QueueOK(q)'
    BY <1>1, <1>3, <1>6 DEF Begun, QueueOK
  <2>2. CallsOK(q) /\ OwnAnswered(p, r, m, q) /\ pc' = pc /\ method' = method /\ (Quit(q)' <=> Quit(q))
    BY <1>1, <1>3, <1>4, <1>6
  <2>3. pc'[q] = "using" => call'[Own(q)] # "none"
    BY <2>2 DEF CallsOK, OwnAnswered
  <2>4. pc'[q] \in {"idle", "closing", "done", "failed"} => call'[Own(q)] = "none"
    BY <2>2 DEF CallsOK, OwnAnswered
  <2>5. ~Quit(q)' \/ method'[q] # "prompt" => call'[Cancel(q)] = "none"
    BY <1>4, <2>2 DEF CallsOK
  <2>6. call'[Own(q)] = "ready" => method'[q] = "prompt"
    BY <2>2 DEF CallsOK, OwnAnswered
  <2> QED BY <2>1, <2>3, <2>4, <2>5, <2>6 DEF CallsOK
<1>15. ASSUME NEW q \in Requests PROVE Stray(q)'
  <2>1. SUFFICES ASSUME pc[q] = "failed" \/ (pc[q] = "using" /\ call'[Own(q)] = "error"),
                        NEW o \in Processes, Sent(o, q)'
                 PROVE  Useless(o)
    BY <1>3, <1>6 DEF Stray
  <2>2. Sent(o, q) /\ ~(q = r /\ m # "cancel_session")
    BY <1>3, <1>5, <2>1 DEF Sent
  <2>3. call'[Own(q)] = call[Own(q)]
    BY <1>4, <2>2 DEF OwnAnswered
  <2> QED BY <1>1, <2>1, <2>2, <2>3 DEF Stray
<1>16. ASSUME NEW q \in Requests PROVE SessionOK(q)' /\ ClearOK(q)'
  <2>1. (ofSession[q] # None => Opened(ofSession[q]))'
    BY <1>3, <1>7 DEF Opened
  <2>2. ASSUME method[q] = "new_session", call'[Own(q)] = "ok" PROVE homeOf'[q] \in 1..started
    <3>1. CASE call[Own(q)] = "ok"
      BY <1>1, <1>4, <1>5, <2>2, <3>1 DEF SessionOK, Effects
    <3>2. CASE call[Own(q)] # "ok"
      <4>1. homeOf'[q] = p
        BY <1>4, <1>5, <2>2, <3>2 DEF OwnAnswered
      <4> QED BY <1>5, <4>1
    <3> QED BY <3>1, <3>2
  <2>3. method[q] # "prompt" => q \notin cut'
    <3>1. "prompt" \in Methods /\ <<q, "prompt">> \in Mail(p) => method[q] = "prompt"
      BY <1>1 DEF MailOK
    <3> QED BY <1>1, <1>4, <3>1 DEF ClearOK, Effects, Methods
  <2> QED BY <1>1, <1>3, <2>1, <2>2, <2>3 DEF SessionOK, ClearOK
<1>17. ASSUME NEW q \in Requests PROVE Alone(q)'
  <2>1. SUFFICES ASSUME Good(q)', pc'[q] # "done", NEW o \in Requests, Sent(Home(q), o)', ~Quit(o)'
                 PROVE  o = q
    BY DEF Alone
  <2>2. Good(q) /\ Home(q)' = Home(q) /\ Home(q) \in Processes
    BY <1>7, <1>8, <2>1
  <2>3. PICK n \in Processes : n = Home(q)
    BY <2>2
  <2>4. Sent(n, o)' => Sent(n, o)
    BY <1>3 DEF Sent
  <2>5. Sent(Home(q), o)
    BY <2>1, <2>2, <2>3, <2>4 DEF Sent, Mail
  <2> QED BY <1>1, <1>3, <1>6, <2>1, <2>2, <2>5 DEF Alone
<1>18. ASSUME NEW q \in Requests PROVE UpdatesOK(q)'
  <2>1. SUFFICES ASSUME Good(q)', ~QuitIn("prompt", q)
                 PROVE  got[q] = said \cap {q} /\ q \notin cut'
    BY <1>3, <1>6 DEF UpdatesOK
  <2>2. Good(q) /\ got[q] = said \cap {q} /\ q \notin cut
    BY <1>1, <1>8, <2>1 DEF UpdatesOK
  <2>3. ASSUME q \in cut' PROVE FALSE
    <3>1. m = "cancel_session" /\ ofSession[q] = ofSession[r]
      BY <1>4, <2>2, <2>3 DEF Effects
    <3>2. q # r
      BY <1>5, <2>2, <3>1 DEF Good, Quit
    <3> QED BY <1>5, <2>1, <3>1, <3>2 DEF QuitIn
  <2> QED BY <2>2, <2>3
<1>19. ModelOK'
  <2>1. SUFFICES ASSUME session # None, model # NoModel
                 PROVE  (Runs(session, model) \/ Useless(homeOf[session]) \/ \E q \in Requests : Setting(q))'
    BY <1>3 DEF ModelOK
  <2>2. Runs(session, model) \/ Useless(homeOf[session]) \/ \E q \in Requests : Setting(q)
    BY <2>1 DEF IInv, ModelOK
  <2>3. SetQuit(session) => Runs(session, model)'
    BY <1>3, <1>6 DEF Runs, SetQuit
  <2>4. Useless(homeOf[session]) => Useless(homeOf[session])'
    BY <1>3, <1>11, <2>1 DEF Useless
  <2>5. CASE runs[session] = model
    <3>1. PICK s \in Requests : s = session
      BY <1>11, <2>1
    <3>2. CASE runs'[s] = runs[s]
      BY <1>3, <2>5, <3>1, <3>2 DEF Runs
    <3>3. CASE homeOf[s] = p /\ Useless(p)
      BY <2>4, <3>1, <3>3
    <3> QED BY <1>9, <2>3, <3>1, <3>2, <3>3
  <2>6. ASSUME NEW q \in Requests, Setting(q) PROVE Setting(q)'
    BY <1>3, <1>4, <2>6 DEF Setting, OwnAnswered
  <2> QED BY <2>2, <2>3, <2>4, <2>5, <2>6 DEF Runs
<1>20. ASSUME NEW q \in Requests PROVE AnswersOK(q)'
  <2>1. ASSUME pc[q] = "using", method[q] = "set_model", call'[Own(q)] = "ok"
        PROVE  (Runs(ofSession[q], wanted[q]) \/ Useless(Home(q)))'
    <3>1. ofSession[q] # None
      BY <1>1, <2>1 DEF Begun
    <3>2. PICK s \in Requests : s = ofSession[q]
      BY <1>7, <3>1
    <3>3. SetQuit(s) => Runs(ofSession[q], wanted[q])'
      BY <1>3, <1>6, <3>2 DEF Runs, SetQuit
    <3>4. Useless(Home(q)) => Useless(Home(q))'
      BY <1>3, <1>7, <3>1 DEF Useless
    <3>5. CASE call[Own(q)] = "ok"
      <4>1. Runs(s, wanted[q]) \/ Useless(Home(q))
        BY <1>1, <2>1, <3>2, <3>5 DEF AnswersOK
      <4>2. CASE runs[s] = wanted[q]
        <5>1. CASE runs'[s] = runs[s]
          BY <1>3, <3>2, <4>2, <5>1 DEF Runs
        <5>2. CASE homeOf[s] = p /\ Useless(p)
          BY <3>2, <3>4, <5>2 DEF Home
        <5>3. CASE Setting(r)' /\ Sent(p, r) /\ method[r] = "set_model" /\ ~Quit(r)
          <6>1. r = q
            BY <1>1, <1>3, <2>1, <5>3, OneHolder DEF Setting
          <6>2. call[Own(r)] # "ok"
            BY <1>1, <5>3, NotSent
          <6> QED BY <3>5, <6>1, <6>2
        <5> QED BY <1>9, <3>3, <5>1, <5>2, <5>3
      <4> QED BY <3>3, <3>4, <4>1, <4>2 DEF Runs
    <3>6. CASE call[Own(q)] # "ok"
      <4>1. q = r /\ runs'[ofSession[q]] = wanted[q]
        BY <1>4, <1>5, <2>1, <3>6 DEF OwnAnswered
      <4> QED BY <1>3, <4>1 DEF Runs
    <3> QED BY <3>5, <3>6
  <2>2. ASSUME Good(q)', pc[q] = "using", call'[Own(q)] # "ok"
        PROVE  Runs(ofSession[q], wanted[q])'
    <3>1. /\ Good(q) /\ call[Own(q)] # "ok" /\ ofSession[q] # None
      BY <1>8, <2>2
    <3>2. PICK s \in Requests : s = ofSession[q]
      BY <1>7, <3>1
    <3>3. runs[s] = wanted[q] \/ SetQuit(s)
      BY <1>1, <2>2, <3>1, <3>2 DEF AnswersOK, Runs
    <3>4. ~(~Quit(r) /\ method[r] = "set_model" /\ homeOf[s] = p /\ Sent(p, r))
      BY <1>1, <2>2, <3>1, <3>2 DEF Alone, Home, Good
    <3>5. runs'[s] = runs[s] \/ SetQuit(s)
      BY <1>9, <3>4
    <3> QED BY <1>3, <1>6, <3>2, <3>3, <3>5 DEF Runs, SetQuit
  <2>3. ASSUME Good(q)', pc[q] # "using" \/ call'[Own(q)] = "ok"
        PROVE  (answeredBy[q] = wanted[q] \/ SetQuit(ofSession[q]))'
    <3>1. Good(q)
      BY <1>8, <2>3
    <3>2. SetQuit(ofSession[q])' <=> SetQuit(ofSession[q])
      BY <1>3 DEF SetQuit, Quit
    <3>3. CASE call'[Own(q)] = call[Own(q)] /\ answeredBy'[q] = answeredBy[q]
      BY <1>1, <1>3, <2>3, <3>1, <3>2, <3>3 DEF AnswersOK, SetQuit
    <3>4. CASE pc[q] = "using" /\ call[Own(q)] = "pending" /\ answeredBy'[q] = runs[ofSession[q]]
      BY <1>1, <1>3, <3>1, <3>2, <3>4 DEF AnswersOK, SetQuit, Runs
    <3> QED BY <1>8, <2>3, <3>3, <3>4
  <2> QED BY <1>3, <2>1, <2>2, <2>3 DEF AnswersOK
<1> QED BY <1>10, <1>12, <1>13, <1>14, <1>15, <1>16, <1>17, <1>18, <1>19, <1>20 DEF IInv

-----------------------------------------------------------------------------
(* A request goes on to its next call. *)

\* Nobody else has the lock, and no message or queue is r's.
Free(r) ==
  /\ ~Quit(r) /\ method[r] # "prompt" /\ call[Cancel(r)] = "none"
  /\ \A o \in Requests : o # r => pc[o] \notin {"using", "closing", "leaving"}
  /\ \A p \in Processes, k \in Methods : <<r, k>> \notin Mail(p)
  /\ \A x \in Requests : queue[x] # r

\* What r takes from the cache: s, that it opened or another has, and its model.
Known(r, s, cached, next) ==
  /\ s = None => cached = NoModel
  /\ s # None => /\ homeOf[s] \in 1..started
                 /\ Opened(s) \/ (s = r /\ next = "set_model")
  /\ s # None /\ cached # NoModel => Runs(s, cached) \/ Useless(homeOf[s])
  /\ method[r] = "set_model" => next = "prompt"

\* Request r goes on to its call next.
Goes(r, m, w, s, cached, next) ==
  /\ next = Stage(w, initialized', s, cached) /\ session' = s /\ model' = cached
  /\ ~initialized' => s = None
  /\ pc'[r] = "using" /\ method'[r] = next /\ ofSession'[r] = s /\ mode'[r] = m /\ wanted'[r] = w
  /\ \A q \in Requests : q # r =>
       /\ pc'[q] = pc[q] /\ method'[q] = method[q] /\ ofSession'[q] = ofSession[q]
       /\ mode'[q] = mode[q] /\ wanted'[q] = wanted[q]
  /\ \A q \in Requests : pc'[q] = "idle" <=> q > taken'
  /\ UNCHANGED <<started, homeOf, runs, said, got, cut, answeredBy>>
  /\ OthersKept(r) /\ GoneOn(r, m, s, next)

LEMMA GoingMail ==
  ASSUME IInv, NEW r \in Requests, NEW m \in Modes, NEW w \in Models, NEW s \in Requests \cup {None},
         NEW cached, NEW next \in Methods, Goes(r, m, w, s, cached, next), Free(r)
  PROVE  /\ process' \in {process, None} /\ readerTask' \in {readerTask, None}
         /\ \A p \in Processes :
              /\ Apart(p)' /\ Mail(p) \subseteq Mail(p)'
              /\ \A x : x \in Mail(p)' => \/ x \in Mail(p)
                                          \/ x = <<r, next>> /\ p = process /\ readerTask # None
                                             /\ call'[Own(r)] = "pending"
<1>1. TypeOK /\ \A p \in Processes : MailOK(p)
  BY DEF IInv
<1>2. \/ inbox' = inbox /\ process' \in {process, None} /\ readerTask' \in {readerTask, None}
      \/ /\ call'[Own(r)] = "pending" /\ process' = process /\ readerTask' = readerTask
         /\ process \in Processes /\ process # None /\ readerTask # None
         /\ inbox' = [inbox EXCEPT ![process] = Append(@, <<r, next>>)]
  BY DEF Goes, GoneOn, Issued
<1>3. CASE inbox' = inbox /\ process' \in {process, None} /\ readerTask' \in {readerTask, None}
  BY <1>1, <1>3 DEF MailOK, Apart, Mail
<1>4. CASE /\ call'[Own(r)] = "pending" /\ process' = process /\ readerTask' = readerTask
           /\ process \in Processes /\ process # None /\ readerTask # None
           /\ inbox' = [inbox EXCEPT ![process] = Append(@, <<r, next>>)]
  <2>1. PICK P \in Processes : P = process
    BY <1>4
  <2>2. PICK msg \in Requests \X Methods : msg = <<r, next>>
    OBVIOUS
  <2>3. inbox' = [inbox EXCEPT ![P] = Append(@, msg)]
    BY <1>4, <2>1, <2>2
  <2>4. /\ \A p \in Processes : \A x : x \in Mail(p)' => x \in Mail(p) \/ (p = P /\ x = msg)
        /\ \A p \in Processes : \A x : x \in Mail(p) => x \in Mail(p)'
        /\ (msg \notin Mail(P) \/ msg[2] = "cancel_session") /\ Apart(P) => Apart(P)'
        /\ \A p \in Processes : p # P /\ Apart(p) => Apart(p)'
    BY <1>1, <2>3, Added
  <2>5. msg \notin Mail(P)
    BY <2>2 DEF Free
  <2>6. \A p \in Processes : Apart(p)'
    BY <1>1, <2>4, <2>5 DEF MailOK
  <2> QED BY <1>4, <2>1, <2>2, <2>4, <2>6
<1> QED BY <1>2, <1>3, <1>4

\* What a request that goes on leaves of the others.
LEMMA GoingFacts ==
  ASSUME IInv, NEW r \in Requests, NEW m \in Modes, NEW w \in Models, NEW s \in Requests \cup {None},
         NEW cached, NEW next \in Methods, Goes(r, m, w, s, cached, next), Free(r),
         Known(r, s, cached, next)
  PROVE  /\ \A q \in Requests : Quit(q)' <=> Quit(q)
         /\ \A x : SetQuit(x)' <=> SetQuit(x)
         /\ \A k : \A q \in Requests : q # r => ((QuitIn(k, q))' <=> QuitIn(k, q))
         /\ \A p \in 1..started : Useless(p) => Useless(p)'
         /\ \A x \in Requests : Opened(x) => Opened(x)'
         /\ \A q \in Requests : q # r => call'[Own(q)] = call[Own(q)]
         /\ \A q \in Requests : call'[Cancel(q)] = call[Cancel(q)]
         /\ call'[Own(r)] \in {"ready", "starting", "pending", "error"}
         /\ call'[Own(r)] = "ready" => next = "prompt"
<1>1. TypeOK
  BY DEF IInv
<1>2. /\ pc'[r] = "using" /\ method'[r] = next /\ homeOf' = homeOf /\ started' = started
      /\ \A q \in Requests : q # r =>
           pc'[q] = pc[q] /\ method'[q] = method[q] /\ ofSession'[q] = ofSession[q]
  BY DEF Goes
<1>3. ~Quit(r) /\ ~Quit(r)'
  BY <1>2 DEF Free, Quit
<1>4. \A q \in Requests : Quit(q)' <=> Quit(q)
  BY <1>2, <1>3 DEF Quit
<1>5. \A x : SetQuit(x)' <=> SetQuit(x)
  BY <1>2, <1>3, <1>4 DEF SetQuit
<1>6. \A k : \A q \in Requests : q # r => ((QuitIn(k, q))' <=> QuitIn(k, q))
  BY <1>2, <1>3, <1>4 DEF QuitIn
<1>7. \A p \in 1..started : Useless(p) => Useless(p)'
  BY <1>1, GoingMail, UselessStays
<1>8. \A x \in Requests : Opened(x) => Opened(x)'
  BY <1>2 DEF Opened, Known, Free
<1>9. /\ \A q \in Requests : q # r => call'[Own(q)] = call[Own(q)]
      /\ \A q \in Requests : call'[Cancel(q)] = call[Cancel(q)]
  BY CallFacts DEF Goes, OthersKept
<1>10. /\ call'[Own(r)] \in {"ready", "starting", "pending", "error"}
       /\ call'[Own(r)] = "ready" => next = "prompt"
  BY DEF Goes, GoneOn, Issued
<1> QED BY <1>4, <1>5, <1>6, <1>7, <1>8, <1>9, <1>10

LEMMA GoOnStep ==
  ASSUME IInv, TypeOK', NEW r \in Requests, NEW m \in Modes, NEW w \in Models,
         NEW s \in Requests \cup {None}, NEW cached, NEW next \in Methods,
         Goes(r, m, w, s, cached, next), Free(r), Known(r, s, cached, next)
  PROVE  IInv'
<1>1. /\ TypeOK /\ (\A p \in Processes : MailOK(p)) /\ process <= started
      /\ \A q \in Requests :
           /\ Begun(q) /\ CallsOK(q) /\ Stray(q) /\ SessionOK(q) /\ QueueOK(q) /\ ClearOK(q)
           /\ Alone(q) /\ UpdatesOK(q) /\ AnswersOK(q)
  BY DEF IInv
<1>2. /\ next = Stage(w, initialized', s, cached) /\ session' = s /\ model' = cached
      /\ ~initialized' => s = None
      /\ pc'[r] = "using" /\ method'[r] = next /\ ofSession'[r] = s /\ mode'[r] = m /\ wanted'[r] = w
      /\ \A q \in Requests : q # r =>
           /\ pc'[q] = pc[q] /\ method'[q] = method[q] /\ ofSession'[q] = ofSession[q]
           /\ mode'[q] = mode[q] /\ wanted'[q] = wanted[q]
      /\ \A q \in Requests : pc'[q] = "idle" <=> q > taken'
      /\ UNCHANGED <<started, homeOf, runs, said, got, cut, answeredBy>>
  BY DEF Goes
<1>3. /\ ~Quit(r) /\ method[r] # "prompt" /\ call[Cancel(r)] = "none"
      /\ \A o \in Requests : o # r => pc[o] \notin {"using", "closing", "leaving"}
      /\ \A p \in Processes, k \in Methods : <<r, k>> \notin Mail(p)
      /\ \A x \in Requests : queue[x] # r
  BY DEF Free
<1>4. /\ s = None => cached = NoModel
      /\ s # None => /\ homeOf[s] \in 1..started
                     /\ Opened(s) \/ (s = r /\ next = "set_model")
      /\ s # None /\ cached # NoModel => Runs(s, cached) \/ Useless(homeOf[s])
  BY DEF Known
<1>5. /\ process' \in {process, None} /\ readerTask' \in {readerTask, None}
      /\ \A p \in Processes :
           /\ Apart(p)' /\ Mail(p) \subseteq Mail(p)'
           /\ \A x : x \in Mail(p)' => \/ x \in Mail(p)
                                       \/ x = <<r, next>> /\ p = process /\ readerTask # None
                                          /\ call'[Own(r)] = "pending"
  BY GoingMail
<1>6. /\ \A q \in Requests : Quit(q)' <=> Quit(q)
      /\ \A x : SetQuit(x)' <=> SetQuit(x)
      /\ \A k : \A q \in Requests : q # r => ((QuitIn(k, q))' <=> QuitIn(k, q))
      /\ \A p \in 1..started : Useless(p) => Useless(p)'
      /\ \A x \in Requests : Opened(x) => Opened(x)'
      /\ \A q \in Requests : q # r => call'[Own(q)] = call[Own(q)]
      /\ \A q \in Requests : call'[Cancel(q)] = call[Cancel(q)]
      /\ call'[Own(r)] \in {"ready", "starting", "pending", "error"}
      /\ call'[Own(r)] = "ready" => next = "prompt"
  BY GoingFacts
<1>7. next # "cancel_session" /\ (next \in {"set_model", "prompt"} => s # None)
      /\ (next = "prompt" => cached = w)
  <2>1. PICK i \in BOOLEAN : i = initialized'
    BY DEF TypeOK
  <2> QED BY <1>2, <2>1, StageFacts
<1>8. CacheOK' /\ (process <= started)'
  BY <1>1, <1>2, <1>4, <1>5, ProcessFacts DEF CacheOK, None
<1>9. s # None => s \in Requests /\ Opened(s)'
  BY <1>2, <1>4, <1>6 DEF Opened
<1>10. (session # None => Opened(session))'
  BY <1>2, <1>9 DEF Opened
<1>11. ModelOK'
  <2>1. SUFFICES ASSUME s # None, cached # NoModel PROVE (Runs(session, model) \/ Useless(homeOf[session]))'
    BY <1>2 DEF ModelOK
  <2>2. CASE Runs(s, cached)
    BY <1>2, <1>6, <2>2 DEF Runs, SetQuit
  <2>3. CASE Useless(homeOf[s])
    <3>1. PICK p \in 1..started : p = homeOf[s]
      BY <1>4, <2>1
    <3>2. Useless(p)'
      BY <1>6, <2>3, <3>1
    <3> QED BY <1>2, <3>1, <3>2 DEF Useless
  <2> QED BY <1>4, <2>1, <2>2, <2>3
<1>12. ASSUME NEW p \in Processes PROVE MailOK(p)'
  <2>1. ASSUME NEW q \in Requests, NEW k \in Methods, <<q, k>> \in Mail(p)'
        PROVE  /\ p <= started'
               /\ IF k = "cancel_session"
                  THEN Quit(q)' /\ method'[q] = "prompt"
                  ELSE /\ k = method'[q] /\ pc'[q] \notin {"idle", "closing", "done"}
                       /\ call'[Own(q)] \notin {"ready", "starting", "ok"}
                       /\ \A o \in Processes : <<q, k>> \in Mail(o)' => o = p
    <3>1. CASE q = r
      <4>1. /\ k = next /\ p = process /\ call'[Own(r)] = "pending"
            /\ \A o \in Processes : <<q, k>> \in Mail(o)' => o = process
        BY <1>3, <1>5, <2>1, <3>1
      <4> QED BY <1>1, <1>2, <1>7, <3>1, <4>1
    <3>2. CASE q # r
      <4>1. \A o \in Processes : <<q, k>> \in Mail(o)' => <<q, k>> \in Mail(o)
        BY <1>5, <3>2
      <4>2. <<q, k>> \in Mail(p) /\ MailOK(p)
        BY <1>1, <2>1, <4>1
      <4>3. p <= started' /\ method'[q] = method[q] /\ pc'[q] = pc[q] /\ call'[Own(q)] = call[Own(q)]
        BY <1>2, <1>6, <3>2, <4>2 DEF MailOK
      <4> QED BY <1>6, <4>1, <4>2, <4>3 DEF MailOK
    <3> QED BY <3>1, <3>2
  <2> QED BY <1>5, <2>1 DEF MailOK
<1>13. ASSUME NEW q \in Requests PROVE Begun(q)'
  <2>1. CASE q = r
    BY <1>2, <1>7, <2>1 DEF Begun
  <2>2. CASE q # r
    BY <1>1, <1>2, <1>3, <2>2 DEF Begun
  <2> QED BY <2>1, <2>2
<1>14. ASSUME NEW q \in Requests PROVE CallsOK(q)'
  <2>1. CASE q = r
    BY <1>2, <1>3, <1>6, <2>1 DEF CallsOK
  <2>2. CASE q # r
    <3>1. CallsOK(q)
      BY <1>1
    <3> QED BY <1>2, <1>6, <2>2, <3>1 DEF CallsOK
  <2> QED BY <2>1, <2>2
<1>15. ASSUME NEW q \in Requests PROVE Stray(q)'
  <2>1. SUFFICES ASSUME pc'[q] = "failed" \/ (pc'[q] = "using" /\ call'[Own(q)] = "error"),
                        NEW p \in Processes, Sent(p, q)'
                 PROVE  Useless(p)'
    BY DEF Stray
  <2>2. CASE q = r
    <3>1. call'[Own(r)] = "error" /\ <<r, next>> \in Mail(p)' /\ <<r, next>> \notin Mail(p)
      BY <1>2, <1>3, <2>1, <2>2 DEF Sent
    <3> QED BY <1>5, <3>1
  <2>3. CASE q # r
    <3>1. Sent(p, q)
      BY <1>2, <1>5, <2>1, <2>3 DEF Sent
    <3>2. Useless(p)
      BY <1>1, <1>2, <1>6, <2>1, <2>3, <3>1 DEF Stray
    <3>3. p \in 1..started
      BY <1>1, <3>1, NotSent
    <3> QED BY <1>6, <3>2, <3>3
  <2> QED BY <2>2, <2>3
<1>16. ASSUME NEW q \in Requests PROVE SessionOK(q)'
  <2>1. CASE q = r
    BY <1>2, <1>6, <1>9, <2>1 DEF SessionOK, Opened
  <2>2. CASE q # r
    <3>1. ofSession[q] # None => ofSession[q] \in Requests /\ Opened(ofSession[q])
      BY <1>1 DEF TypeOK, SessionOK
    <3>2. ofSession'[q] # None => Opened(ofSession[q])'
      BY <1>2, <1>6, <2>2, <3>1 DEF Opened
    <3> QED BY <1>1, <1>2, <1>6, <2>2, <3>2 DEF SessionOK, Opened
  <2> QED BY <2>1, <2>2
<1>17. ASSUME NEW q \in Requests PROVE QueueOK(q)' /\ ClearOK(q)'
  <2>1. \A x \in Requests : queue'[x] = queue[x] \/ (x = s /\ queue'[x] = r /\ next = "prompt" /\ m = "stream")
    BY DEF Goes, GoneOn
  <2>2. next = "prompt" /\ m = "stream" => queue'[s] = r
    BY DEF Goes, GoneOn
  <2>3. CASE q = r
    BY <1>1, <1>2, <1>3, <2>1, <2>2, <2>3 DEF QueueOK, ClearOK
  <2>4. CASE q # r
    BY <1>1, <1>2, <1>3, <2>1, <2>4 DEF QueueOK, ClearOK
  <2> QED BY <2>3, <2>4
<1>18. ASSUME NEW q \in Requests, q # r, Good(q)'
       PROVE  Good(q) /\ pc[q] = "done"
  BY <1>2, <1>3, <1>18 DEF Good
<1>19. ASSUME Good(r)'
       PROVE  /\ next = "prompt" /\ s # None /\ Home(r)' = homeOf[s] /\ homeOf[s] \in Processes
              /\ ~Useless(homeOf[s])
  <2>1. next = "prompt" /\ s # None /\ Home(r)' = homeOf[s]
    BY <1>2, <1>7, <1>19 DEF Good, Home
  <2>2. homeOf[s] \in Processes /\ homeOf[s] \in 1..started
    BY <1>1, <1>4, <2>1 DEF TypeOK, None
  <2>3. PICK p \in Processes : p = homeOf[s] /\ p \in 1..started
    BY <2>2
  <2>4. call'[Own(r)] = "ready" \/ call'[Own(r)] = "pending"
    BY <1>2, <1>6, <1>19 DEF Good
  <2>5. CASE call'[Own(r)] = "ready"
    <3>1. ~Useless(Home(r))'
      BY <1>2, <1>19, <2>5 DEF Good
    <3>2. ~Useless(p)'
      BY <2>1, <2>3, <3>1 DEF Useless
    <3>3. ~Useless(p)
      BY <1>6, <2>3, <3>2
    <3> QED BY <2>1, <2>2, <2>3, <3>3
  <2>6. CASE call'[Own(r)] = "pending"
    <3>1. Sent(Home(r), r)'
      BY <1>2, <1>19, <2>6 DEF Good
    <3>2. <<r, next>> \in Mail(p)' /\ <<r, next>> \notin Mail(p)
      BY <1>2, <1>3, <2>1, <2>3, <3>1 DEF Sent, Mail
    <3>3. p = process /\ readerTask # None
      BY <1>5, <3>2
    <3> QED BY <2>1, <2>2, <2>3, <3>3 DEF Useless
  <2> QED BY <2>4, <2>5, <2>6
<1>20. ASSUME NEW q \in Requests PROVE Alone(q)'
  <2>1. SUFFICES ASSUME Good(q)', pc'[q] # "done", NEW o \in Requests, Sent(Home(q), o)', ~Quit(o)', o # q
                 PROVE  FALSE
    BY DEF Alone
  <2>2. q = r
    BY <1>2, <1>18, <2>1
  <2>3. Home(r)' = homeOf[s] /\ homeOf[s] \in Processes /\ ~Useless(homeOf[s])
    BY <1>19, <2>1, <2>2
  <2>4. PICK p \in Processes : p = homeOf[s]
    BY <2>3
  <2>5. Sent(p, o)'
    BY <2>1, <2>2, <2>3, <2>4 DEF Sent, Mail
  <2>6. Sent(p, o)
    BY <1>2, <1>5, <2>1, <2>2, <2>5 DEF Sent
  <2>7. pc[o] \notin {"idle", "closing", "done", "using", "leaving"} /\ ~Quit(o)
    BY <1>1, <1>3, <1>6, <2>1, <2>2, <2>6, NotSent
  <2>8. pc[o] = "failed"
    BY <1>1, <2>7 DEF TypeOK, Quit
  <2> QED BY <1>1, <2>3, <2>4, <2>6, <2>8 DEF Stray
<1>21. ASSUME NEW q \in Requests PROVE UpdatesOK(q)'
  <2>1. CASE q = r
    BY <1>1, <1>2, <1>3, <2>1 DEF UpdatesOK, ClearOK
  <2>2. CASE q # r
    BY <1>1, <1>2, <1>6, <1>18, <2>2 DEF UpdatesOK
  <2> QED BY <2>1, <2>2
<1>22. ASSUME NEW q \in Requests PROVE AnswersOK(q)'
  <2>1. CASE q = r
    <3>1. ASSUME Good(r)' PROVE Runs(ofSession[r], wanted[r])'
      <4>1. next = "prompt" /\ s # None /\ ~Useless(homeOf[s]) /\ cached = w
        BY <1>7, <1>19, <3>1
      <4>2. cached # NoModel
        BY <4>1, AcpModels
      <4>3. runs[s] = w \/ SetQuit(s)
        BY <1>4, <4>1, <4>2 DEF Runs
      <4> QED BY <1>2, <1>6, <4>3 DEF Runs, SetQuit
    <3> QED BY <1>2, <1>6, <2>1, <3>1 DEF AnswersOK
  <2>2. CASE q # r
    <3>1. pc'[q] # "using" /\ answeredBy'[q] = answeredBy[q] /\ wanted'[q] = wanted[q]
      BY <1>2, <1>3, <2>2
    <3>2. ASSUME Good(q)' PROVE (answeredBy[q] = wanted[q] \/ SetQuit(ofSession[q]))'
      <4>1. Good(q) /\ pc[q] = "done"
        BY <1>18, <2>2, <3>2
      <4>2. answeredBy[q] = wanted[q] \/ SetQuit(ofSession[q])
        BY <1>1, <4>1 DEF AnswersOK
      <4> QED BY <1>2, <1>6, <2>2, <3>1, <4>2 DEF SetQuit
    <3> QED BY <3>1, <3>2 DEF AnswersOK
  <2> QED BY <2>1, <2>2
<1> QED BY <1>8, <1>10, <1>11, <1>12, <1>13, <1>14, <1>15, <1>16, <1>17, <1>20, <1>21, <1>22 DEF IInv

\* What GoOn writes is what going on is.
LEMMA GoOnGoes ==
  ASSUME TypeOK, TypeOK', NEW r \in Requests, NEW m \in Modes, NEW w \in Models, NEW i \in BOOLEAN,
         NEW s \in Requests \cup {None}, NEW cached, GoOn(r, m, w, i, s, cached), ~i => s = None,
         mode' = [mode EXCEPT ![r] = m] \/ (mode' = mode /\ mode[r] = m),
         wanted' = [wanted EXCEPT ![r] = w] \/ (wanted' = wanted /\ wanted[r] = w),
         \A q \in Requests : pc'[q] = "idle" <=> q > taken',
         UNCHANGED <<started, homeOf, runs, said, got, cut, answeredBy>>
  PROVE  \E next \in Methods : Goes(r, m, w, s, cached, next) /\ next = Stage(w, i, s, cached)
<1>1. PICK next \in Methods \ {"cancel_session"} :
        next = Stage(w, i, s, cached) /\ (next = "prompt" => s # None)
  BY StageFacts
<1>2. /\ initialized' = i /\ session' = s /\ model' = cached
      /\ pc' = [pc EXCEPT ![r] = "using"] /\ method' = [method EXCEPT ![r] = next]
      /\ ofSession' = [ofSession EXCEPT ![r] = s] /\ GoesOn(r, m, s, next)
  BY <1>1 DEF GoOn, GoesOn
<1>3. OthersKept(r) /\ GoneOn(r, m, s, next)
  BY <1>1, <1>2, GoOnFacts
<1>4. /\ pc'[r] = "using" /\ method'[r] = next /\ ofSession'[r] = s
      /\ \A q \in Requests : q # r =>
           pc'[q] = pc[q] /\ method'[q] = method[q] /\ ofSession'[q] = ofSession[q]
  BY <1>2 DEF TypeOK
<1>5. /\ mode'[r] = m /\ wanted'[r] = w
      /\ \A q \in Requests : q # r => mode'[q] = mode[q] /\ wanted'[q] = wanted[q]
  <2>1. mode'[r] = m /\ \A q \in Requests : q # r => mode'[q] = mode[q]
    BY DEF TypeOK
  <2>2. wanted'[r] = w /\ \A q \in Requests : q # r => wanted'[q] = wanted[q]
    BY DEF TypeOK
  <2> QED BY <2>1, <2>2
<1>6. Goes(r, m, w, s, cached, next)
  BY <1>1, <1>2, <1>3, <1>4, <1>5 DEF Goes
<1> QED BY <1>1, <1>6

\* A request that gets the lock, or whose preparation is answered, has no
\* message, no queue and no cancel.
LEMMA FreeFacts ==
  ASSUME IInv, NEW r \in Requests, method[r] # "prompt",
         pc[r] = "idle" \/ (pc[r] = "using" /\ call[Own(r)] = "ok"),
         holder \in {r, None}
  PROVE  Free(r)
<1>1. TypeOK /\ Begun(r) /\ CallsOK(r) /\ QueueOK(r)
  BY DEF IInv
<1>2. ~Quit(r) /\ call[Cancel(r)] = "none"
  BY <1>1 DEF CallsOK, Quit
<1>3. \A o \in Requests : o # r => pc[o] \notin {"using", "closing", "leaving"}
  BY <1>1, ProcessFacts DEF TypeOK
<1>4. ASSUME NEW p \in Processes, NEW k \in Methods, <<r, k>> \in Mail(p) PROVE FALSE
  <2>1. MailOK(p)
    BY DEF IInv
  <2> QED BY <1>2, <1>4, <2>1 DEF MailOK
<1>5. \A x \in Requests : queue[x] # r
  BY <1>1 DEF QueueOK
<1> QED BY <1>2, <1>3, <1>4, <1>5 DEF Free

LEMMA TakeStep ==
  ASSUME IInv, TypeOK', NEW m \in Modes, NEW w \in Models, Take(m, w)
  PROVE  IInv'
<1>0. PICK r \in Requests : r = taken + 1
  BY DEF Take
<1>1. TypeOK /\ CacheOK /\ (\A q \in Requests : Begun(q)) /\ ModelOK /\ (session # None => Opened(session))
  BY DEF IInv
<1>2. /\ holder = None /\ taken' = r /\ taken \in Nat
      /\ mode' = [mode EXCEPT ![r] = m] /\ wanted' = [wanted EXCEPT ![r] = w]
      /\ UNCHANGED <<started, homeOf, runs, said, got, cut, answeredBy>>
  BY <1>0, <1>1 DEF Take, TypeOK
<1>3. pc[r] = "idle" /\ method[r] = "initialize"
  BY <1>0, <1>1, <1>2 DEF Begun
<1>4. Free(r)
  BY <1>2, <1>3, FreeFacts
<1>5. PICK i \in BOOLEAN, s \in Requests \cup {None}, cached \in Models \cup {NoModel} :
        /\ GoOn(r, m, w, i, s, cached) /\ (~i => s = None) /\ (s = None => cached = NoModel)
        /\ s # None => s = session /\ cached = model
  <2>1. CASE Healthy
    BY <1>0, <1>1, <2>1 DEF Take, TypeOK, CacheOK
  <2>2. CASE ~Healthy
    BY <1>0, <2>2 DEF Take
  <2> QED BY <2>1, <2>2
<1>6. \A q \in Requests : pc'[q] = "idle" <=> q > taken'
  <2>1. pc' = [pc EXCEPT ![r] = "using"]
    BY <1>5 DEF GoOn
  <2>2. pc'[r] = "using" /\ \A q \in Requests : q # r => pc'[q] = pc[q]
    BY <1>1, <2>1 DEF TypeOK
  <2>3. \A q \in Requests : q # r => (q > taken <=> q > taken')
    BY <1>0, <1>2 DEF Requests
  <2> QED BY <1>1, <1>2, <2>2, <2>3 DEF Begun, Requests
<1>7. PICK next \in Methods : Goes(r, m, w, s, cached, next)
  BY <1>1, <1>2, <1>5, <1>6, GoOnGoes
<1>8. Known(r, s, cached, next)
  <2>1. s # None /\ cached # NoModel => Runs(s, cached) \/ Useless(homeOf[s])
    <3>1. \A q \in Requests : ~Setting(q)
      BY <1>1, <1>2, ProcessFacts DEF TypeOK, Setting
    <3> QED BY <1>1, <1>5, <3>1 DEF ModelOK
  <2> QED BY <1>1, <1>3, <1>5, <2>1 DEF Known, Opened
<1> QED BY <1>4, <1>7, <1>8, GoOnStep

LEMMA PreparedStep ==
  ASSUME IInv, TypeOK', NEW r \in Requests, Prepared(r)
  PROVE  IInv'
<1>1. /\ TypeOK /\ CacheOK /\ Begun(r) /\ SessionOK(r) /\ AnswersOK(r)
      /\ (\A q \in Requests : Begun(q)) /\ (session # None => Opened(session))
  BY DEF IInv
<1>2. /\ pc[r] = "using" /\ call[Own(r)] = "ok" /\ method[r] # "prompt"
      /\ UNCHANGED <<taken, mode, wanted, started, homeOf, runs, said, got, cut, answeredBy>>
      /\ CASE method[r] = "initialize" -> GoOn(r, mode[r], wanted[r], TRUE, session, model)
           [] method[r] = "new_session" -> GoOn(r, mode[r], wanted[r], initialized, r, NoModel)
           [] OTHER -> GoOn(r, mode[r], wanted[r], initialized, session, wanted[r])
  BY DEF Prepared
<1>3. PICK m \in Modes, w \in Models : m = mode[r] /\ w = wanted[r]
  BY <1>1, <1>2 DEF TypeOK, Begun
<1>4. Free(r)
  <2>1. holder = r
    BY <1>1, <1>2 DEF TypeOK
  <2> QED BY <1>2, <2>1, FreeFacts
<1>5. ofSession[r] = session /\ method[r] = Stage(w, initialized, session, model)
  BY <1>1, <1>2, <1>3 DEF Begun
<1>6. PICK i0 \in BOOLEAN : i0 = initialized
  BY <1>1 DEF TypeOK
<1>7. /\ method[r] = "initialize" <=> ~initialized
      /\ method[r] = "new_session" <=> initialized /\ session = None
      /\ method[r] = "set_model" <=> initialized /\ session # None /\ model # w
      /\ method[r] \in {"initialize", "new_session", "set_model"}
  BY <1>2, <1>5, <1>6, StageFacts DEF Methods
<1>8. PICK i \in BOOLEAN, s \in Requests \cup {None}, cached \in Models \cup {NoModel} :
        /\ GoOn(r, m, w, i, s, cached) /\ i = TRUE
        /\ \/ method[r] = "initialize" /\ s = None /\ cached = NoModel
           \/ method[r] = "new_session" /\ s = r /\ cached = NoModel
           \/ method[r] = "set_model" /\ s = session /\ s # None /\ cached = w
  <2>1. CASE method[r] = "initialize"
    BY <1>1, <1>2, <1>3, <1>7, <2>1 DEF CacheOK
  <2>2. CASE method[r] = "new_session"
    BY <1>2, <1>3, <1>7, <2>2
  <2>3. CASE method[r] = "set_model"
    BY <1>1, <1>2, <1>3, <1>7, <2>3 DEF TypeOK
  <2> QED BY <1>7, <2>1, <2>2, <2>3
<1>9. \A q \in Requests : pc'[q] = "idle" <=> q > taken'
  <2>1. pc' = [pc EXCEPT ![r] = "using"]
    BY <1>8 DEF GoOn
  <2>2. pc'[r] = "using" /\ \A q \in Requests : q # r => pc'[q] = pc[q]
    BY <1>1, <2>1 DEF TypeOK
  <2> QED BY <1>1, <1>2, <2>2 DEF Begun
<1>10. PICK next \in Methods : Goes(r, m, w, s, cached, next) /\ next = Stage(w, i, s, cached)
  <2>1. TypeOK /\ TypeOK' /\ (~i => s = None) /\ GoOn(r, m, w, i, s, cached)
    BY <1>1, <1>8
  <2>2. mode' = mode /\ mode[r] = m /\ wanted' = wanted /\ wanted[r] = w
    BY <1>2, <1>3
  <2>3. UNCHANGED <<started, homeOf, runs, said, got, cut, answeredBy>>
    BY <1>2
  <2> QED BY <1>9, <2>1, <2>2, <2>3, GoOnGoes
<1>11. /\ s # None /\ cached # w => next = "set_model"
       /\ s # None /\ cached = w => next = "prompt"
  BY <1>8, <1>10 DEF Stage
<1>12. w # NoModel /\ r # None
  BY <1>1, AcpModels, ProcessFacts
<1>13. Known(r, s, cached, next)
  <2>1. CASE method[r] = "initialize" /\ s = None /\ cached = NoModel
    BY <2>1 DEF Known
  <2>2. CASE method[r] = "new_session" /\ s = r /\ cached = NoModel
    BY <1>1, <1>2, <1>11, <1>12, <2>2 DEF Known, SessionOK
  <2>3. CASE method[r] = "set_model" /\ s = session /\ s # None /\ cached = w
    <3>1. Runs(s, w) \/ Useless(homeOf[s])
      BY <1>1, <1>2, <1>3, <1>5, <2>3 DEF AnswersOK, Home
    <3> QED BY <1>1, <1>11, <1>12, <2>3, <3>1 DEF Known, Opened
  <2> QED BY <1>8, <2>1, <2>2, <2>3
<1> QED BY <1>4, <1>10, <1>13, GoOnStep

-----------------------------------------------------------------------------
(* The invariant. *)

THEOREM InitIInv == Init => IInv
<1> SUFFICES ASSUME Init PROVE IInv
  OBVIOUS
<1>1. TypeOK
  <2>1. inbox \in [Processes -> Seq(Requests \X Methods)]
    BY DEF Init
  <2>2. call \in [Calls -> States]
    BY DEF Init, States
  <2>3. \A q \in Requests : holder = q <=> pc[q] \in {"using", "closing", "leaving"}
    BY DEF Init, Requests, None
  <2>4. /\ started \in 0..MaxProcesses /\ taken \in 0..MaxRequests
        /\ faults \in 0..MaxFaults /\ leaves \in 0..MaxLeaves
    BY AcpBounds DEF Init
  <2>5. /\ method \in [Requests -> Methods] /\ mode \in [Requests -> Modes]
        /\ pc \in [Requests -> Places]
    BY DEF Init, Methods, Modes, Places
  <2>6. /\ closing \in [Requests -> Processes \cup {None}]
        /\ wanted \in [Requests -> Models \cup {NoModel}]
        /\ queue \in [Requests -> Requests \cup {None}]
        /\ ofSession \in [Requests -> Requests \cup {None}]
        /\ homeOf \in [Requests -> Processes \cup {None}]
        /\ runs \in [Requests -> Models \cup {NoModel}]
        /\ got \in [Requests -> SUBSET Requests]
        /\ answeredBy \in [Requests -> Models \cup {NoModel}]
    BY DEF Init
  <2>7. /\ process = None /\ readerTask = None /\ alive = {} /\ reading = {} /\ shut = {}
        /\ initialized = FALSE /\ session = None /\ model = NoModel /\ holder = None
        /\ said = {} /\ cut = {}
    BY DEF Init
  <2> QED BY <2>1, <2>2, <2>3, <2>4, <2>5, <2>6, <2>7 DEF TypeOK, States, Places
<1>2. /\ \A q \in Requests : /\ pc[q] = "idle" /\ method[q] = "initialize" /\ ofSession[q] = None
                             /\ call[Own(q)] = "none" /\ call[Cancel(q)] = "none"
                             /\ got[q] = {} /\ q \notin said \cup cut /\ q > taken /\ q # None
                             /\ queue[q] = None
      /\ session = None /\ model = NoModel /\ process = None /\ started = 0
  BY CallFacts DEF Init, Requests, None
<1>3. \A p \in Processes : Mail(p) = {} /\ Apart(p)
  <2>1. \A p \in Processes : DOMAIN inbox[p] = {}
    BY DEF Init
  <2> QED BY <2>1 DEF Mail, Apart
<1>4. CacheOK /\ ModelOK /\ process <= started
  BY <1>2 DEF CacheOK, ModelOK, None
<1>5. \A p \in Processes : MailOK(p)
  BY <1>3 DEF MailOK
<1>6. ASSUME NEW q \in Requests
      PROVE  /\ Begun(q) /\ CallsOK(q) /\ Stray(q) /\ SessionOK(q) /\ QueueOK(q) /\ ClearOK(q)
             /\ Alone(q) /\ UpdatesOK(q) /\ AnswersOK(q)
  <2>1. ~Good(q)
    BY <1>2 DEF Good
  <2> QED BY <1>2, <2>1 DEF Begun, CallsOK, Stray, SessionOK, QueueOK, ClearOK, Alone, UpdatesOK, AnswersOK
<1> QED BY <1>1, <1>2, <1>4, <1>5, <1>6 DEF IInv

\* Every step keeps the invariant.
THEOREM StepIInv == IInv /\ [Next]_vars => IInv'
<1> SUFFICES ASSUME IInv, [Next]_vars PROVE IInv'
  OBVIOUS
<1>1. TypeOK /\ \A p \in Processes : Apart(p)
  BY DEF IInv, MailOK
<1>2. CASE Next
  <2>1. TypeOK'
    BY <1>1, <1>2, StepTypes
  <2>2. ASSUME NEW m \in Modes, NEW w \in Models, Take(m, w) PROVE IInv'
    BY <2>1, <2>2, TakeStep
  <2>3. ASSUME NEW r \in Requests, CallStep(r) PROVE IInv'
    <3>1. ASSUME NEW c \in {Own(r), Cancel(r)}, Spawned(c) \/ SpawnFails(c) PROVE IInv'
      <4>1. c \in Calls
        BY <3>1, CallFacts
      <4> QED BY <2>1, <3>1, <4>1, SpawnedStep, SpawnFailsStep
    <3>2. ASSUME TimeOut(r) \/ Kill(r) \/ Ended(r) \/ Joined(r) PROVE IInv'
      BY <2>1, <3>2, CloseStep
    <3> QED BY <2>3, <3>1, <3>2 DEF CallStep
  <2>4. ASSUME NEW r \in Requests, RequestStep(r) PROVE IInv'
    BY <2>1, <2>4, RunTaskStep, PreparedStep, EndStep, CancelStep, AbandonStep DEF RequestStep
  <2>5. ASSUME NEW r \in Requests, Leave(r) PROVE IInv'
    BY <2>1, <2>5, EndStep, CancelStep, AbandonStep DEF Leave
  <2>6. ASSUME NEW p \in Processes, Die(p) \/ ReaderEnds(p) \/ Answer(p) \/ Update(p) PROVE IInv'
    BY <2>1, <2>6, DieStep, ReaderEndsStep, AnswerStep, UpdateStep
  <2> QED BY <1>2, <2>2, <2>3, <2>4, <2>5, <2>6 DEF Next
<1>3. CASE UNCHANGED vars
  <2>1. UNCHANGED <<handles, calls, cache, users, queue, truth, bounds>>
    BY <1>3 DEF vars
  <2>2. TypeOK'
    BY <1>1, <2>1 DEF TypeOK, handles, calls, cache, users, truth, bounds
  <2>3. UNCHANGED <<process, readerTask, started, call, method, inbox>>
    BY <2>1 DEF handles, calls
  <2>4. \A q \in Requests : OwnMoves(q) /\ CancelMoves(q)
    BY <2>3 DEF OwnMoves, CancelMoves
  <2>5. started' \in Nat /\ started <= started' /\ process' <= started'
    BY <1>1, <2>3, ProcessFacts DEF IInv
  <2>6. \A p \in Processes : MailOK(p)
    BY DEF IInv
  <2> QED BY <1>1, <2>1, <2>2, <2>3, <2>4, <2>5, <2>6, UselessStays, MailStays, CallsMove
<1> QED BY <1>2, <1>3

THEOREM Invariance == Spec => []IInv
BY InitIInv, StepIInv, PTL DEF Spec

\* The types; and the lock of the slot is held by the one request that is
\* between taking and releasing it, also while streams are cleaned up beside it.
THEOREM TypeCorrect == Spec => []TypeOK
<1>1. IInv => TypeOK
  BY DEF IInv
<1> QED BY <1>1, Invariance, PTL

\* A request that was answered got the updates of its own prompt, whatever
\* prompts of its session failed or timed out before it.
THEOREM UpdatesAreOwn == Spec => []OwnUpdates
<1>1. IInv => OwnUpdates
  <2> SUFFICES ASSUME IInv, NEW r \in Requests, pc[r] = "done", ~QuitIn("prompt", r)
               PROVE  got[r] = said \cap {r} /\ r \notin cut
    BY DEF OwnUpdates
  <2>1. Begun(r) /\ UpdatesOK(r)
    BY DEF IInv
  <2> QED BY <2>1 DEF Begun, Good, UpdatesOK
<1> QED BY <1>1, Invariance, PTL

\* The model that answered a request is the one it asked for.
THEOREM ModelIsRight == Spec => []RightModel
<1>1. IInv => RightModel
  <2> SUFFICES ASSUME IInv, NEW r \in Requests, pc[r] = "done", ~QuitIn("set_model", r)
               PROVE  answeredBy[r] = wanted[r]
    BY DEF RightModel
  <2>1. Begun(r) /\ AnswersOK(r)
    BY DEF IInv
  <2>2. ~SetQuit(ofSession[r])
    BY DEF SetQuit, QuitIn, Quit
  <2> QED BY <2>1, <2>2 DEF Begun, Good, AnswersOK
<1> QED BY <1>1, Invariance, PTL

=============================================================================
