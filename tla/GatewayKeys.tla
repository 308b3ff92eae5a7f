------------------------------ MODULE GatewayKeys ------------------------------
(***************************************************************************)
(* One account, one of its API keys and one of its web sessions: the       *)
(* requests that check their statuses, and those that change them, at the  *)
(* portal, at the admin API and at the contract with the public gateway.   *)
(*                                                                         *)
(* A request has a database session of its own.  Each row it needs is      *)
(* read in a step of its own and kept as it was read; what it changes is   *)
(* written in one step, its commit, and only where it differs from what    *)
(* was read.  Of a row, the model keeps the status: names and limits are   *)
(* left out, and revoked_at, which nothing reads.  The account may not yet *)
(* exist: then it is registered, or created, or made by a first login with *)
(* OAuth, and the name and the email, which are unique, are who it is.     *)
(***************************************************************************)
EXTENDS FiniteSets

CONSTANT Jobs   \* the requests, each once

KeyStatus == {"none", "active", "revoked", "deleted"}
AccountStatus == {"none", "active", "suspended", "deleted"}  \* suspended: any other word
WebStatus == {"none", "active", "revoked", "expired"}

VARIABLES
  row,     \* the statuses of the key, of the account and of the web session
  pc,      \* how far each request is
  op,      \* what it does
  copy,    \* the status it has read of the row it edits or answers about
  barred,  \* history: the rows that a request has shut, and nothing reopened since
  sure,    \* history: the requests since whose reading nothing was reopened
  late     \* history: what was barred when the request began, and still is

vars == <<row, pc, op, copy, barred, sure, late>>
Rows == {"key", "account", "web"}
StatusOf(t) ==
  CASE t = "key" -> KeyStatus [] t = "account" -> AccountStatus [] t = "web" -> WebStatus

-----------------------------------------------------------------------------
(* What requests do.  An edit reads a row of the statuses in loads, and   *)
(* gives it the status to, or leaves it as it is.                         *)

Request(by, does) == [by |-> by, does |-> does]
Edit(by, target, loads, to) ==
  [by |-> by, does |-> "edit", target |-> target, loads |-> loads, to |-> to]

AnyKey == KeyStatus \ {"none"}
AnyAccount == AccountStatus \ {"none"}
KeyEdits(to) == {Edit("admin", "key", AnyKey, s) : s \in to}

UpdateApiKey == KeyEdits({"same", "active", "revoked"})
RevokeApiKey == KeyEdits({"revoked"})
DeleteApiKey == KeyEdits({"deleted"})
MirrorUpsertKey == {Edit("admin", "key", KeyStatus, s) : s \in {"active", "revoked"}}
RevokeKeyMirror == KeyEdits({"revoked"})
UpdateAccount == {Edit("admin", "account", AnyAccount, s) : s \in AnyAccount \cup {"same"}}
DeleteAccount == {Edit("admin", "account", AnyAccount, "deleted")}
MirrorUpsertAccount == {Edit("admin", "account", AccountStatus, s) : s \in {"active", "suspended"}}
Logout == {Edit("client", "web", WebStatus \ {"none"}, "revoked")}
UpdateOwnKey == {Edit("portal", "key", {"active"}, "same")}
DeleteOwnKey == {Edit("portal", "key", AnyKey, "revoked")}

CreateOwnKey == {Request("portal", "create")}
CreateKey == {Request("admin", "create")}
Login == {Request("client", "login")}
Register == {Request("client", "register")}
CreateAccount == {Request("admin", "createAccount")}
OauthLogin == {Request("client", "oauth")}
Me == {Request("portal", "me")}

KeyRequests == {Request("client", d) : d \in {"call", "introspect", "event"}}
Makers == CreateKey \cup Login
PortalRequests == UNION {Me, CreateOwnKey, UpdateOwnKey, DeleteOwnKey}
Edits ==
  UNION {UpdateApiKey, RevokeApiKey, DeleteApiKey, MirrorUpsertKey, RevokeKeyMirror,
         UpdateAccount, DeleteAccount, MirrorUpsertAccount, Logout}
Ops == UNION {KeyRequests, Makers, Register, CreateAccount, OauthLogin,
              PortalRequests, Edits}
NoOp == Request("nobody", "nothing")

Init ==
  /\ row \in [Rows -> {"none", "active"}]
  /\ row["account"] = "none" => row["key"] = "none" /\ row["web"] = "none"
  /\ pc = [j \in Jobs |-> "idle"]
  /\ op = [j \in Jobs |-> NoOp]
  /\ copy = [j \in Jobs |-> "none"]
  /\ barred = {} /\ sure = {}
  /\ late = [j \in Jobs |-> {}]

-----------------------------------------------------------------------------
(* Checks. *)

Move(j, ok, to) == pc' = [pc EXCEPT ![j] = IF ok THEN to ELSE "refused"]

\* A request begins with the first row it reads.
Start(j, ops, t) ==
  /\ pc[j] = "idle"
  /\ \E o \in ops : op' = [op EXCEPT ![j] = o]
  /\ copy' = [copy EXCEPT ![j] = row[t]]
  /\ late' = [late EXCEPT ![j] = barred]
  /\ UNCHANGED <<row, barred>>

Goes(j, to) ==
  /\ pc' = [pc EXCEPT ![j] = to]
  /\ UNCHANGED <<row, op, copy, barred, sure, late>>

\* authenticate, introspect_api_key and record_usage_event find the key; only the
\* first of them wants it active.
ReadKey(j) ==
  /\ Start(j, KeyRequests, "key")
  /\ Move(j, row["key"] = "active" \/ (row["key"] # "none" /\ op'[j].does # "call"), "key")
  /\ UNCHANGED sure

\* Mutant: the status of the account is not looked at.
AuthenticatedByKey(j) == "served"

\* What becomes of them when the key's account is read.  authenticate wants it active.
Authenticated(j) == IF row["account"] = "active" THEN "served" ELSE "refused"

\* An introspection answers with the status of the key, as it was read, if the account
\* is active: served means that it says "active".
Introspected(j) == IF copy[j] = "active" /\ row["account"] = "active" THEN "served" ELSE "refused"

\* A usage event is recorded whatever the statuses are.
Recorded(j) == "done"

ReadAccountOfKey(j) ==
  /\ pc[j] = "key"
  /\ Goes(j, CASE op[j].does = "call" -> Authenticated(j)
                [] op[j].does = "introspect" -> Introspected(j)
                [] op[j].does = "event" -> Recorded(j))

\* require_portal_account, also me: the web session.
ReadSession(j) ==
  /\ Start(j, PortalRequests, "web")
  /\ Move(j, row["web"] = "active", "session")
  /\ UNCHANGED sure

\* Then its account.
ReadAccountOfSession(j) ==
  /\ pc[j] = "session"
  /\ Goes(j, IF row["account"] = "active"
             THEN IF op[j].does = "me" THEN "served" ELSE "admitted" ELSE "refused")

-----------------------------------------------------------------------------
(* Changes. *)

Edited(j) == op[j].target
Shuts(o) == o.does = "edit" /\ o.to \notin {"same", "active"}

\* An admin's or the public gateway's edit, or a logout, reads the row; a mirror of
\* the key finds its account first.
ReadRow(j) ==
  \E t \in Rows :
    /\ Start(j, {o \in Edits : o.target = t}, t)
    /\ Move(j, row[t] \in op'[j].loads /\ (t = "key" => row["account"] # "none"), "loaded")
    /\ sure' = sure \cup {j}

\* An edit at the portal reads the account's key, the update only an active one.
ReadOwnKey(j) ==
  /\ pc[j] = "admitted" /\ op[j].does = "edit"
  /\ copy' = [copy EXCEPT ![j] = row["key"]]
  /\ Move(j, row["key"] \in op[j].loads, "loaded")
  /\ sure' = sure \cup {j}
  /\ UNCHANGED <<row, op, barred, late>>

\* login, whatever the status of the account, and create_api_key find the account.
ReadAccount(j) ==
  /\ Start(j, Makers, "account")
  /\ Move(j, row["account"] # "none", "admitted")
  /\ UNCHANGED sure

\* A registration wants the name and the email free; an admin's creation does not look.
CheckFree(j) ==
  /\ Start(j, Register \cup CreateAccount, "account")
  /\ Move(j, row["account"] = "none" \/ op'[j] \in CreateAccount, "fresh")
  /\ UNCHANGED sure

\* A callback finds the account by the subject or by the email, and wants it active.
ReadOauthAccount(j) ==
  /\ Start(j, OauthLogin, "account")
  /\ pc' = [pc EXCEPT ![j] = CASE row["account"] = "none" -> "fresh"
                              [] row["account"] = "active" -> "admitted"
                              [] OTHER -> "refused"]
  /\ UNCHANGED sure

\* It is also refused when the account is linked to another subject, and fails when
\* the name or the email of the profile is that of another account.
RefuseLink(j) == pc[j] = "admitted" /\ op[j].does = "oauth" /\ Goes(j, "refused")

\* Rows become active: those that were kept out by earlier requests are let in again.
Opens(j, ts, to) ==
  /\ row' = [t \in Rows |-> IF t \in ts THEN "active" ELSE row[t]]
  /\ pc' = [pc EXCEPT ![j] = to]
  /\ barred' = barred \ ts
  /\ late' = [k \in Jobs |-> late[k] \ ts]
  /\ sure' = {k \in sure : Edited(k) \notin ts}
  /\ UNCHANGED <<op, copy>>

\* The request leaves the row t as one that is not active, or as it is.
Sets(j, t, status) ==
  /\ row' = [row EXCEPT ![t] = status]
  /\ pc' = [pc EXCEPT ![j] = "done"]
  /\ barred' = IF j \in sure /\ Shuts(op[j]) THEN barred \cup {t} ELSE barred
  /\ UNCHANGED <<op, copy, late, sure>>

Writes(j, t, status) ==
  IF status = "active" /\ row[t] # "active" THEN Opens(j, {t}, "done") ELSE Sets(j, t, status)

Makes(t) == IF t = "key" THEN {"create"} ELSE {"login", "register", "oauth"}

\* A new session or key.  If the account has one already, it is another one.
Make(j) ==
  \E t \in {"key", "web"} :
    /\ pc[j] = "admitted" /\ op[j].does \in Makes(t)
    /\ Writes(j, t, IF row[t] = "none" THEN "active" ELSE row[t])

\* Mutant: what the request has read is believed, and the IntegrityError swallowed.
FreeWhenRead(j) == copy[j] = "none"

\* An INSERT of the account goes through if its name and its email are still free.
Free(j) == row["account"] = "none"

\* A registration goes on to commit its session; a callback has both in one commit.
Insert(j) ==
  /\ pc[j] = "fresh"
  /\ IF ~Free(j) THEN Goes(j, "refused")
     ELSE CASE op[j].does = "register" -> Opens(j, {"account"}, "admitted")
            [] op[j].does = "createAccount" -> Opens(j, {"account"}, "done")
            [] op[j].does = "oauth" -> Opens(j, {"account", "web"}, "done")

\* A mirror that has found no row inserts one, unless another was quicker.
InsertMirror(j) ==
  /\ pc[j] = "loaded" /\ copy[j] = "none"
  /\ IF row[Edited(j)] = "none" THEN Writes(j, Edited(j), op[j].to) ELSE Goes(j, "refused")

\* Mutant: the UPDATE sets the status also when the request leaves it as it was read.
WrittenWhole(now, read, to) == IF to = "same" THEN read ELSE to

\* What becomes of a status: a column that keeps the value that was read is not in
\* the UPDATE.
Written(now, read, to) == IF to \in {"same", read} THEN now ELSE to

Commit(j) ==
  /\ pc[j] = "loaded" /\ copy[j] # "none"
  /\ Writes(j, Edited(j), Written(row[Edited(j)], copy[j], op[j].to))

\* expires_at is reached.
Expire ==
  /\ row["web"] = "active"
  /\ row' = [row EXCEPT !["web"] = "expired"]
  /\ barred' = barred \cup {"web"}
  /\ UNCHANGED <<pc, op, copy, sure, late>>

Next ==
  \/ \E j \in Jobs :
       \/ ReadKey(j) \/ ReadAccountOfKey(j) \/ ReadSession(j) \/ ReadAccountOfSession(j)
       \/ ReadRow(j) \/ ReadOwnKey(j) \/ ReadAccount(j) \/ CheckFree(j) \/ ReadOauthAccount(j)
       \/ RefuseLink(j) \/ Make(j) \/ Insert(j) \/ InsertMirror(j) \/ Commit(j)
  \/ Expire

Spec == Init /\ [][Next]_vars

-----------------------------------------------------------------------------
(* Properties. *)

Places == {"idle", "key", "session", "admitted", "fresh", "loaded", "served", "refused", "done"}
TypeOK ==
  /\ row \in [Rows -> KeyStatus \cup AccountStatus \cup WebStatus]
  /\ \A t \in Rows : row[t] \in StatusOf(t)
  /\ pc \in [Jobs -> Places]
  /\ op \in [Jobs -> Ops \cup {NoOp}]
  /\ copy \in [Jobs -> KeyStatus \cup AccountStatus \cup WebStatus]
  /\ barred \subseteq Rows /\ sure \subseteq Jobs
  /\ late \in [Jobs -> SUBSET Rows]

Needs(j) ==
  CASE op[j].does = "oauth" -> {"account"}
    [] op[j] \in PortalRequests -> {"web", "account"}
    [] OTHER -> {"key", "account"}
LetIn(j) ==
  CASE op[j].does = "oauth" -> pc[j] \in {"admitted", "done"}
    [] op[j] \in PortalRequests -> pc[j] \in {"admitted", "loaded", "served", "done"}
    [] OTHER -> pc[j] = "served"

\* Once a revocation, a deletion, a suspension or a logout has been answered, no
\* request that begins later is served, until somebody makes the row active again:
\* however the requests that edit the same rows overlap.
RevokedStaysOut == \A j \in Jobs : LetIn(j) => late[j] \cap Needs(j) = {}

\* Nothing but a request that asks for it makes a key or an account active again
\* that was not: no edit of something else brings back the status it has read.
ReopenedOnDemand ==
  [][\A t \in Rows :
       (row[t] \notin {"none", "active"} /\ row'[t] = "active")
         => \E j \in Jobs : /\ pc[j] = "loaded" /\ pc'[j] = "done"
                            /\ op[j].target = t /\ op[j].to = "active"]_vars

\* The request is answered with an account that it has made.
Created(j) ==
  \/ op[j] \in Register \cup CreateAccount /\ pc[j] \in {"admitted", "done"}
  \/ op[j] \in OauthLogin \cup MirrorUpsertAccount /\ copy[j] = "none" /\ pc[j] = "done"

\* Of the registrations, creations, first callbacks and mirrors of one account that
\* overlap, at most one is told that the account is new, and gets into it as such.
CreatedOnce == \A j, k \in Jobs : Created(j) /\ Created(k) => j = k
=============================================================================
