-------------------------- MODULE GatewayKeysProofs --------------------------
(***************************************************************************)
(* Proofs about GatewayKeys, for any set of requests.                      *)
(*                                                                         *)
(* What a request decides rests on rows that it read some steps before.    *)
(* The invariant says what such a reading is still good for: a row that is *)
(* barred is not active (BarredShut), a request that found a row active    *)
(* began when it was not barred, and nothing is added to what was barred   *)
(* when it began (LateBarred, Cleared), and an edit that was not outdated  *)
(* by a reopening knows that its row is not active if it found it so       *)
(* (SureKnows).  Who has made the account has left it in existence, where  *)
(* it stays, so that no other INSERT of it goes through (MadeStays).       *)
(***************************************************************************)
EXTENDS GatewayKeys, TLAPS

-----------------------------------------------------------------------------
(* What the requests are. *)

IsEdit(o, keysOnly) ==
  /\ o.does = "edit" /\ o.target \in Rows
  /\ o.to \in (StatusOf(o.target) \ {"none"}) \cup {"same"}
  /\ "none" \in o.loads => o.to # "same"
  /\ keysOnly => o.target = "key"

\* A request on a key is not one of the portal, and edits nothing.
LEMMA KeyRequestFacts ==
  ASSUME NEW o \in KeyRequests
  PROVE  o.by = "client" /\ o.does \in {"call", "introspect", "event"}
BY DEF KeyRequests, Request

\* Nor is one that makes a key or a session.
LEMMA MakerFacts ==
  ASSUME NEW o \in Makers
  PROVE  o.by \in {"admin", "client"} /\ o.does \in {"create", "login"}
<1>1. CASE o \in CreateKey  BY <1>1 DEF CreateKey, Request
<1>2. CASE o \in Login  BY <1>2 DEF Login, Request
<1> QED  BY <1>1, <1>2 DEF Makers

\* Nor is one that may make an account.
AccountMakers == UNION {Register, CreateAccount, OauthLogin}

LEMMA AccountMakerFacts ==
  ASSUME NEW o \in AccountMakers
  PROVE  /\ o.by \in {"admin", "client"} /\ o.does \in {"register", "createAccount", "oauth"}
         /\ o.does = "register" <=> o \in Register
         /\ o.does = "createAccount" <=> o \in CreateAccount
         /\ o.does = "oauth" <=> o \in OauthLogin
<1> USE DEF Register, CreateAccount, OauthLogin, Request
<1>1. CASE o \in Register  BY <1>1
<1>2. CASE o \in CreateAccount  BY <1>2
<1>3. CASE o \in OauthLogin  BY <1>3
<1> QED  BY <1>1, <1>2, <1>3 DEF AccountMakers

\* A request of the portal edits the account's key, if it edits anything.
LEMMA PortalFacts ==
  ASSUME NEW o \in PortalRequests
  PROVE  /\ o.by = "portal"
         /\ o.does \in {"me", "create"} \/ IsEdit(o, TRUE)
<1>1. CASE o \in Me  BY <1>1 DEF Me, Request, IsEdit
<1>2. CASE o \in CreateOwnKey  BY <1>2 DEF CreateOwnKey, Request, IsEdit
<1>3. CASE o \in UpdateOwnKey
  BY <1>3 DEF UpdateOwnKey, Edit, IsEdit, Rows, AnyKey
<1>4. CASE o \in DeleteOwnKey
  BY <1>4 DEF DeleteOwnKey, Edit, IsEdit, Rows, AnyKey, StatusOf, KeyStatus
<1> QED  BY <1>1, <1>2, <1>3, <1>4 DEF PortalRequests

\* An edit of a row gives it a status that such a row may have.
LEMMA EditFacts ==
  ASSUME NEW o \in Edits
  PROVE  o.by \in {"admin", "client"} /\ IsEdit(o, FALSE)
<1> USE DEF KeyEdits, Edit, IsEdit, Rows, StatusOf, AnyKey, AnyAccount
<1>1. CASE o \in UpdateApiKey  BY <1>1 DEF UpdateApiKey, KeyStatus
<1>2. CASE o \in RevokeApiKey  BY <1>2 DEF RevokeApiKey, KeyStatus
<1>3. CASE o \in DeleteApiKey  BY <1>3 DEF DeleteApiKey, KeyStatus
<1>4. CASE o \in MirrorUpsertKey  BY <1>4 DEF MirrorUpsertKey, KeyStatus
<1>5. CASE o \in RevokeKeyMirror  BY <1>5 DEF RevokeKeyMirror, KeyStatus
<1>6. CASE o \in UpdateAccount  BY <1>6 DEF UpdateAccount
<1>7. CASE o \in DeleteAccount  BY <1>7 DEF DeleteAccount, AccountStatus
<1>8. CASE o \in MirrorUpsertAccount  BY <1>8 DEF MirrorUpsertAccount, AccountStatus
<1>9. CASE o \in Logout  BY <1>9 DEF Logout, WebStatus
<1> QED
  BY <1>1, <1>2, <1>3, <1>4, <1>5, <1>6, <1>7, <1>8, <1>9 DEF Edits

\* A logout finds a session.
LEMMA WebEdits ==
  ASSUME NEW o \in Edits, o.target = "web"
  PROVE  "none" \notin o.loads
BY DEF Edits, Edit, Logout, KeyEdits, UpdateApiKey, RevokeApiKey, DeleteApiKey, MirrorUpsertKey,
       RevokeKeyMirror, UpdateAccount, DeleteAccount, MirrorUpsertAccount

\* A mirror of the account edits the account.
LEMMA MirrorFacts ==
  ASSUME NEW o \in MirrorUpsertAccount
  PROVE  o.does = "edit" /\ o.target = "account" /\ o.by = "admin"
BY DEF MirrorUpsertAccount, Edit

\* The portal's requests are those by the portal, and what makes an account does so.
LEMMA OpFacts ==
  ASSUME NEW o \in Ops \cup {NoOp}
  PROVE  /\ o.does = "edit" => IsEdit(o, o.by = "portal")
         /\ o \in PortalRequests <=> o.by = "portal"
         /\ o.by = "portal" => o.does \in {"me", "create", "edit"}
         /\ o.does \in {"register", "createAccount"} <=> o \in Register \cup CreateAccount
         /\ o.does = "oauth" <=> o \in OauthLogin
<1>0. \A m \in AccountMakers :
        /\ m.by \in {"admin", "client"} /\ m.does \in {"register", "createAccount", "oauth"}
        /\ m.does = "register" <=> m \in Register
        /\ m.does = "createAccount" <=> m \in CreateAccount
        /\ m.does = "oauth" <=> m \in OauthLogin
  BY AccountMakerFacts
<1>1. CASE o \in KeyRequests  BY <1>0, <1>1, KeyRequestFacts, PortalFacts DEF AccountMakers
<1>2. CASE o \in Makers  BY <1>0, <1>2, MakerFacts, PortalFacts DEF AccountMakers
<1>3. CASE o \in PortalRequests  BY <1>0, <1>3, PortalFacts DEF IsEdit, AccountMakers
<1>4. CASE o \in Edits  BY <1>0, <1>4, EditFacts, PortalFacts DEF IsEdit, AccountMakers
<1>5. CASE o = NoOp  BY <1>0, <1>5, PortalFacts DEF NoOp, Request, AccountMakers, IsEdit
<1>6. CASE o \in AccountMakers  BY <1>0, <1>6, PortalFacts DEF AccountMakers, IsEdit
<1> QED  BY <1>1, <1>2, <1>3, <1>4, <1>5, <1>6 DEF Ops, AccountMakers

-----------------------------------------------------------------------------
(* The inductive invariant. *)

\* What is barred is not active.
BarredShut == \A t \in barred : row[t] # "active"

\* What was barred when a request began, and still is, is barred.
LateBarred == \A j \in Jobs : late[j] \subseteq barred

\* An edit that was not outdated by a reopening has not found its row inactive in vain.
SureKnows ==
  \A j \in sure :
    /\ pc[j] # "idle" /\ op[j].does = "edit"
    /\ pc[j] = "loaded" /\ copy[j] # "active" => row[op[j].target] # "active"

\* Where a request is tells what it does.
Kinds ==
  \A j \in Jobs :
    /\ pc[j] = "key" => op[j].by # "portal" /\ op[j].does \in {"call", "introspect", "event"}
    /\ pc[j] = "session" => op[j].by = "portal"
    /\ pc[j] = "admitted" => op[j].by = "portal" \/ op[j].does # "edit"
    /\ pc[j] = "admitted" /\ op[j].does = "oauth" => copy[j] # "none"
    /\ pc[j] = "fresh" =>
         /\ op[j].by # "portal" /\ op[j].does \in {"register", "createAccount", "oauth"}
    /\ pc[j] = "loaded" => op[j].does = "edit" /\ copy[j] \in op[j].loads

\* A row that a request has found active was not barred when it began.
Cleared ==
  \A j \in Jobs :
    /\ pc[j] = "key" /\ (op[j].does = "call" \/ copy[j] = "active") => "key" \notin late[j]
    /\ pc[j] = "session" => "web" \notin late[j]
    /\ op[j].by = "portal" /\ pc[j] \in {"admitted", "loaded", "served", "done"}
         => "web" \notin late[j] /\ "account" \notin late[j]
    /\ op[j].by # "portal" /\ pc[j] = "served"
         => "key" \notin late[j] /\ "account" \notin late[j]
    /\ op[j].does = "oauth" /\ pc[j] \in {"admitted", "done"} => "account" \notin late[j]

\* At most one request has made the account, which is there from then on.
MadeStays == CreatedOnce /\ \A j \in Jobs : Created(j) => row["account"] # "none"

\* Before there is an account there is no key, no session and nobody who makes one.
Nobody ==
  row["account"] = "none" =>
    /\ row["key"] = "none" /\ row["web"] = "none"
    /\ \A j \in Jobs : pc[j] # "admitted" /\ (pc[j] = "loaded" => op[j].target = "account")

IInv ==
  TypeOK /\ BarredShut /\ LateBarred /\ SureKnows /\ Kinds /\ Cleared /\ MadeStays /\ Nobody

LEMMA Initial == Init => IInv
<1> SUFFICES ASSUME Init PROVE IInv  OBVIOUS
<1>1. TypeOK
  <2>1. row \in [Rows -> KeyStatus \cup AccountStatus \cup WebStatus]  BY DEF Init, KeyStatus
  <2>2. \A t \in Rows : row[t] \in {"none", "active"}  BY DEF Init
  <2>3. \A t \in Rows : row[t] \in StatusOf(t)
    BY <2>2 DEF Rows, StatusOf, KeyStatus, AccountStatus, WebStatus
  <2>4. pc \in [Jobs -> Places] /\ op \in [Jobs -> Ops \cup {NoOp}] /\ copy \in [Jobs -> KeyStatus]
    BY DEF Init, Places, KeyStatus
  <2> QED  BY <2>1, <2>3, <2>4 DEF Init, TypeOK
<1>2. BarredShut /\ LateBarred /\ SureKnows  BY DEF Init, BarredShut, LateBarred, SureKnows
<1>3. Kinds /\ Cleared  BY DEF Init, Kinds, Cleared
<1>4. MadeStays /\ Nobody  BY DEF Init, MadeStays, CreatedOnce, Created, Nobody
<1> QED  BY <1>1, <1>2, <1>3, <1>4 DEF IInv

-----------------------------------------------------------------------------
(* Reading. *)

\* The row of a name has one of the statuses of such a row.
LEMMA RowType ==
  ASSUME TypeOK, NEW t \in Rows
  PROVE  row[t] \in StatusOf(t) /\ row[t] \in KeyStatus \cup AccountStatus \cup WebStatus
BY DEF TypeOK, Rows, StatusOf

LEMMA StartKeeps ==
  ASSUME IInv, NEW j \in Jobs, NEW o \in Ops, NEW t \in Rows, NEW p,
         p \in {"key", "session", "admitted", "fresh", "loaded", "refused"},
         pc[j] = "idle",
         pc' = [pc EXCEPT ![j] = p], op' = [op EXCEPT ![j] = o],
         copy' = [copy EXCEPT ![j] = row[t]], late' = [late EXCEPT ![j] = barred],
         row' = row, barred' = barred,
         p = "key" => t = "key" /\ o \in KeyRequests /\ (o.does = "call" => row[t] = "active"),
         p = "session" => t = "web" /\ o \in PortalRequests /\ row[t] = "active",
         p = "admitted" => o \in Makers \/ (o \in AccountMakers /\ o.does = "oauth"
                                             /\ t = "account" /\ row[t] = "active"),
         p = "fresh" => o \in AccountMakers,
         p = "admitted" \/ (p = "loaded" /\ t # "account") => row["account"] # "none",
         p = "loaded" => o \in Edits /\ o.target = t /\ row[t] \in o.loads,
         sure' = sure \/ (sure' = sure \cup {j} /\ o \in Edits /\ o.target = t)
  PROVE  IInv'
<1> USE DEF IInv
<1>1. o.by = "portal" => o \in PortalRequests  BY OpFacts
<1>2. TypeOK'
  <2>1. row' = row  OBVIOUS
  <2>2. pc' \in [Jobs -> Places]
    BY DEF TypeOK, Places
  <2>3. op' \in [Jobs -> Ops \cup {NoOp}]  BY DEF TypeOK
  <2>4. copy' \in [Jobs -> KeyStatus \cup AccountStatus \cup WebStatus]  BY RowType DEF TypeOK
  <2>5. barred' \subseteq Rows /\ sure' \subseteq Jobs  BY DEF TypeOK
  <2>6. late' \in [Jobs -> SUBSET Rows]  BY DEF TypeOK
  <2> QED  BY <2>1, <2>2, <2>3, <2>4, <2>5, <2>6 DEF TypeOK
<1>3. BarredShut'  BY DEF BarredShut
<1>4. LateBarred'  BY DEF LateBarred, TypeOK
<1>5. SureKnows'
  <2> SUFFICES ASSUME NEW k \in sure'
               PROVE  /\ pc'[k] # "idle" /\ op'[k].does = "edit"
                      /\ pc'[k] = "loaded" /\ copy'[k] # "active" => row'[op'[k].target] # "active"
    BY DEF SureKnows
  <2>1. CASE k = j
    <3>1. o \in Edits /\ o.target = t  BY <2>1 DEF SureKnows
    <3>2. op'[k] = o /\ copy'[k] = row[t] /\ pc'[k] = p  BY <2>1 DEF TypeOK
    <3> QED  BY <3>1, <3>2, EditFacts DEF IsEdit
  <2>2. CASE k # j
    <3>1. k \in sure /\ k \in Jobs  BY <2>2 DEF TypeOK
    <3>2. op'[k] = op[k] /\ copy'[k] = copy[k] /\ pc'[k] = pc[k]  BY <2>2, <3>1 DEF TypeOK
    <3> QED  BY <3>1, <3>2 DEF SureKnows
  <2> QED  BY <2>1, <2>2
<1>6. ASSUME NEW k \in Jobs
      PROVE  \/ k # j /\ op'[k] = op[k] /\ copy'[k] = copy[k] /\ pc'[k] = pc[k] /\ late'[k] = late[k]
             \/ k = j /\ op'[k] = o /\ copy'[k] = row[t] /\ pc'[k] = p /\ late'[k] = barred
  BY DEF TypeOK
<1>7. Kinds'
  BY <1>1, <1>6, KeyRequestFacts, MakerFacts, AccountMakerFacts, PortalFacts, EditFacts DEF Kinds, IsEdit
<1>8. Cleared'
  <2> SUFFICES ASSUME NEW k \in Jobs
               PROVE  /\ pc'[k] = "key" /\ (op'[k].does = "call" \/ copy'[k] = "active")
                           => "key" \notin late'[k]
                      /\ pc'[k] = "session" => "web" \notin late'[k]
                      /\ op'[k].by = "portal" /\ pc'[k] \in {"admitted", "loaded", "served", "done"}
                           => "web" \notin late'[k] /\ "account" \notin late'[k]
                      /\ op'[k].by # "portal" /\ pc'[k] = "served"
                           => "key" \notin late'[k] /\ "account" \notin late'[k]
                      /\ op'[k].does = "oauth" /\ pc'[k] \in {"admitted", "done"}
                           => "account" \notin late'[k]
    BY DEF Cleared
  <2>1. CASE k # j  BY <2>1, <1>6 DEF Cleared
  <2>2. CASE k = j
    <3>1. row[t] = "active" => t \notin barred  BY DEF BarredShut
    <3>2. op'[k] = o /\ copy'[k] = row[t] /\ pc'[k] = p /\ late'[k] = barred  BY <2>2, <1>6
    <3> QED  BY <3>1, <3>2, MakerFacts, AccountMakerFacts, EditFacts
  <2> QED  BY <2>1, <2>2
<1>9. MadeStays'
  <2>1. ASSUME NEW k \in Jobs, Created(k)'  PROVE Created(k)
    <3>1. CASE k # j  BY <2>1, <3>1, <1>6 DEF Created
    <3>2. CASE k = j
      <4>1. op'[k] = o /\ pc'[k] = p  BY <3>2, <1>6
      <4>2. p = "admitted" /\ o \in Register \cup CreateAccount  BY <2>1, <4>1 DEF Created
      <4>3. o \in AccountMakers /\ o.does # "oauth"  BY <4>2, AccountMakerFacts DEF AccountMakers
      <4>4. o \in Makers  BY <4>2, <4>3
      <4> QED  BY <4>3, <4>4, MakerFacts, AccountMakerFacts
    <3> QED  BY <3>1, <3>2
  <2> QED  BY <2>1 DEF MadeStays, CreatedOnce
<1>10. Nobody'  BY <1>6 DEF Nobody
<1> QED  BY <1>2, <1>3, <1>4, <1>5, <1>7, <1>8, <1>9, <1>10

\* A request goes on, or is refused, and changes nothing.
LEMMA GoesKeeps ==
  ASSUME IInv, NEW j \in Jobs, NEW p,
         p \in {"admitted", "served", "refused", "done"},
         pc' = [pc EXCEPT ![j] = p],
         UNCHANGED <<row, op, copy, barred, sure, late>>,
         pc[j] = "key" \/ pc[j] = "session" \/ p = "refused",
         p = "admitted" => pc[j] = "session",
         p \in {"admitted", "served"} => row["account"] = "active",
         pc[j] = "key" /\ p = "served" => op[j].does = "call" \/ copy[j] = "active",
         pc[j] = "session" => p # "done"
  PROVE  IInv'
<1> USE DEF IInv
<1>1. TypeOK'  BY DEF TypeOK, Places
<1>2. BarredShut' /\ LateBarred'  BY DEF BarredShut, LateBarred
<1>3. ASSUME NEW k \in Jobs
      PROVE  \/ k # j /\ pc'[k] = pc[k]
             \/ k = j /\ pc'[k] = p
  BY DEF TypeOK
<1>4. SureKnows'  BY <1>3 DEF SureKnows, TypeOK
<1>9. op[j].by = "portal" => op[j].does # "oauth"  BY OpFacts DEF TypeOK
<1>5. Kinds'  BY <1>3, <1>9 DEF Kinds
<1>6. Cleared'
  <2>1. p \in {"admitted", "served"} => "account" \notin late[j]
    BY DEF BarredShut, LateBarred
  <2> QED  BY <1>3, <2>1 DEF Cleared, Kinds
<1>7. MadeStays'
  <2>1. ASSUME NEW k \in Jobs, Created(k)'  PROVE Created(k)
    <3>1. op[j].does \in {"register", "createAccount"} <=> op[j] \in Register \cup CreateAccount
      BY OpFacts DEF TypeOK
    <3>2. op[j].does = "oauth" <=> op[j] \in OauthLogin  BY OpFacts DEF TypeOK
    <3>3. op[j].by = "portal" => op[j].does \in {"me", "create", "edit"}  BY OpFacts DEF TypeOK
    <3>4. pc[j] = "key" => op[j].does \in {"call", "introspect", "event"}  BY DEF Kinds
    <3>5. op[j] \in MirrorUpsertAccount => op[j].does = "edit" /\ op[j].by = "admin"  BY MirrorFacts
    <3>6. p \in {"admitted", "done"} =>
            op[j] \notin UNION {Register, CreateAccount, OauthLogin, MirrorUpsertAccount}
      BY <3>1, <3>2, <3>3, <3>4, <3>5 DEF Kinds
    <3> QED  BY <2>1, <1>3, <3>6 DEF Created
  <2> QED  BY <2>1 DEF MadeStays, CreatedOnce
<1>8. Nobody'  BY <1>3 DEF Nobody
<1> QED  BY <1>1, <1>2, <1>4, <1>5, <1>6, <1>7, <1>8

\* An edit at the portal reads the key.
LEMMA ReadOwnKeyKeeps ==
  ASSUME IInv, NEW j \in Jobs, ReadOwnKey(j)
  PROVE  IInv'
<1> USE DEF IInv
<1> DEFINE p == IF row["key"] \in op[j].loads THEN "loaded" ELSE "refused"
<1>1. /\ pc[j] = "admitted" /\ op[j].does = "edit"
      /\ copy' = [copy EXCEPT ![j] = row["key"]] /\ pc' = [pc EXCEPT ![j] = p]
      /\ sure' = sure \cup {j}
      /\ UNCHANGED <<row, op, barred, late>>
  BY DEF ReadOwnKey, Move
<1>2. p \in {"loaded", "refused"} /\ (p = "loaded" => row["key"] \in op[j].loads)  OBVIOUS
<1> HIDE DEF p
<1>3. op[j].by = "portal" /\ op[j].target = "key"
  <2>1. op[j].by = "portal"  BY <1>1 DEF Kinds
  <2>2. op[j] \in Ops \cup {NoOp}  BY DEF TypeOK
  <2> QED  BY <2>1, <2>2, <1>1, OpFacts DEF IsEdit
<1>4. ASSUME NEW k \in Jobs
      PROVE  \/ k # j /\ copy'[k] = copy[k] /\ pc'[k] = pc[k]
             \/ k = j /\ copy'[k] = row["key"] /\ pc'[k] = p
  BY <1>1 DEF TypeOK
<1>5. TypeOK'
  <2>1. "key" \in Rows  BY DEF Rows
  <2>2. copy' \in [Jobs -> KeyStatus \cup AccountStatus \cup WebStatus]
    BY <1>1, <2>1, RowType DEF TypeOK
  <2>3. pc' \in [Jobs -> Places]
    BY <1>1, <1>2 DEF TypeOK, Places
  <2> QED  BY <1>1, <2>2, <2>3 DEF TypeOK
<1>6. BarredShut' /\ LateBarred'  BY <1>1 DEF BarredShut, LateBarred
<1>7. SureKnows'
  <2> SUFFICES ASSUME NEW k \in sure'
               PROVE  /\ pc'[k] # "idle" /\ op'[k].does = "edit"
                      /\ pc'[k] = "loaded" /\ copy'[k] # "active" => row'[op'[k].target] # "active"
    BY DEF SureKnows
  <2>1. CASE k = j  BY <2>1, <1>1, <1>2, <1>3, <1>4
  <2>2. CASE k # j
    <3>1. k \in sure /\ k \in Jobs  BY <2>2, <1>1 DEF TypeOK
    <3> QED  BY <2>2, <3>1, <1>1, <1>4 DEF SureKnows
  <2> QED  BY <2>1, <2>2
<1>8. Kinds'  BY <1>1, <1>2, <1>4 DEF Kinds
<1>9. Cleared'  BY <1>1, <1>2, <1>3, <1>4 DEF Cleared
<1>10. MadeStays'
  <2>1. op[j] \notin UNION {Register, CreateAccount, OauthLogin, MirrorUpsertAccount}
    BY <1>1, <1>3, OpFacts, MirrorFacts DEF TypeOK
  <2>2. ASSUME NEW k \in Jobs, Created(k)'  PROVE Created(k)
    BY <1>1, <1>4, <2>1, <2>2 DEF Created
  <2> QED  BY <1>1, <2>2 DEF MadeStays, CreatedOnce
<1>11. Nobody'  BY <1>1, <1>2, <1>4 DEF Nobody
<1> QED  BY <1>5, <1>6, <1>7, <1>8, <1>9, <1>10, <1>11

-----------------------------------------------------------------------------
(* Writing. *)

\* Rows that open are struck from everybody's lists, and outdate who has read them.
LEMMA OpensKeeps ==
  ASSUME IInv, NEW j \in Jobs, NEW ts \in SUBSET Rows, NEW p \in {"done", "admitted"},
         pc[j] \in {"loaded", "admitted", "fresh"}, Opens(j, ts, p),
         p = "admitted" => op[j].does = "register" /\ op[j].by # "portal",
         "account" \in ts \/ row["account"] # "none",
         pc[j] = "fresh" /\ op[j].does = "oauth" => "account" \in ts,
         \/ "account" \in ts /\ row["account"] = "none"
         \/ Created(j)' => Created(j)
  PROVE  IInv'
<1> USE DEF IInv
<1>1. \A u \in Rows : row'[u] = IF u \in ts THEN "active" ELSE row[u]  BY DEF Opens
<1>2. ASSUME NEW k \in Jobs
      PROVE  /\ pc'[k] = IF k = j THEN p ELSE pc[k]
             /\ late'[k] = late[k] \ ts
             /\ op'[k] = op[k] /\ copy'[k] = copy[k]
  BY DEF Opens, TypeOK
<1>3. TypeOK'
  <2>1. \A u \in Rows : "active" \in StatusOf(u)
    BY DEF Rows, StatusOf, KeyStatus, AccountStatus, WebStatus
  <2>2. \A u \in Rows : row'[u] \in StatusOf(u)  BY <1>1, <2>1 DEF TypeOK
  <2>3. row' \in [Rows -> KeyStatus \cup AccountStatus \cup WebStatus]
    BY DEF Opens, TypeOK, KeyStatus
  <2>4. pc' \in [Jobs -> Places]  BY DEF Opens, TypeOK, Places
  <2>5. late' \in [Jobs -> SUBSET Rows]  BY DEF Opens, TypeOK
  <2>6. barred' \subseteq Rows /\ sure' \subseteq Jobs  BY DEF Opens, TypeOK
  <2>7. UNCHANGED <<op, copy>>  BY DEF Opens
  <2> QED  BY <2>2, <2>3, <2>4, <2>5, <2>6, <2>7 DEF TypeOK
<1>4. BarredShut'  BY <1>1 DEF BarredShut, TypeOK, Opens
<1>5. LateBarred'  BY <1>2 DEF LateBarred, Opens
<1>6. SureKnows'
  <2> SUFFICES ASSUME NEW k \in sure'
               PROVE  /\ pc'[k] # "idle" /\ op'[k].does = "edit"
                      /\ pc'[k] = "loaded" /\ copy'[k] # "active" => row'[op'[k].target] # "active"
    BY DEF SureKnows
  <2>1. k \in sure /\ op[k].target \notin ts /\ k \in Jobs /\ op[k].does = "edit"
    BY DEF Edited, TypeOK, SureKnows, Opens
  <2>2. op[k].target \in Rows  BY <2>1, OpFacts DEF TypeOK, IsEdit
  <2> QED  BY <1>1, <1>2, <2>1, <2>2 DEF SureKnows
<1>7. Kinds'  BY <1>2 DEF Kinds
<1>8. Cleared'  BY <1>2 DEF Cleared, Kinds
<1>9. MadeStays'
  <2>1. ASSUME NEW k \in Jobs, k # j, Created(k)'  PROVE Created(k)
    BY <1>2, <2>1 DEF Created
  <2>2. "account" \in Rows  BY DEF Rows
  <2>3. CASE "account" \in ts /\ row["account"] = "none"
    <3>1. \A k \in Jobs : ~Created(k)  BY <2>3 DEF MadeStays
    <3>2. \A k \in Jobs : Created(k)' => k = j  BY <2>1, <3>1
    <3> QED  BY <1>1, <2>2, <2>3, <3>2 DEF MadeStays, CreatedOnce
  <2>4. CASE Created(j)' => Created(j)
    <3>1. \A k \in Jobs : Created(k)' => Created(k)  BY <2>1, <2>4
    <3> QED  BY <1>1, <2>2, <3>1 DEF MadeStays, CreatedOnce
  <2> QED  BY <2>3, <2>4
<1>10. Nobody'
  <2>1. "account" \in Rows  BY DEF Rows
  <2> QED  BY <1>1, <2>1 DEF Nobody
<1> QED  BY <1>3, <1>4, <1>5, <1>6, <1>7, <1>8, <1>9, <1>10

\* Other writes leave a row that is not active as one that is not, and bar what they shut.
LEMMA SetsKeeps ==
  ASSUME IInv, NEW j \in Jobs, NEW t \in Rows, NEW s \in StatusOf(t),
         pc[j] \in {"loaded", "admitted"}, Sets(j, t, s),
         row[t] = "active" \/ s # "active", s = "none" => row[t] = "none",
         j \in sure /\ Shuts(op[j]) => s # "active",
         t = "account" \/ row["account"] # "none",
         \/ t = "account" /\ row["account"] = "none" /\ s # "none"
         \/ Created(j)' => Created(j)
  PROVE  IInv'
<1> USE DEF IInv
<1>1. \A u \in Rows : row'[u] = IF u = t THEN s ELSE row[u]  BY DEF Sets, TypeOK
<1>2. ASSUME NEW k \in Jobs
      PROVE  /\ pc'[k] = IF k = j THEN "done" ELSE pc[k]
             /\ op'[k] = op[k] /\ copy'[k] = copy[k] /\ late'[k] = late[k]
  BY DEF Sets, TypeOK
<1>3. /\ UNCHANGED <<op, copy, late, sure>>
      /\ barred' = barred \/ (barred' = barred \cup {t} /\ s # "active")
  BY DEF Sets
<1>4. TypeOK'
  <2>1. \A u \in Rows : row'[u] \in StatusOf(u)  BY <1>1 DEF TypeOK
  <2>2. s \in KeyStatus \cup AccountStatus \cup WebStatus  BY DEF Rows, StatusOf
  <2>3. row' \in [Rows -> KeyStatus \cup AccountStatus \cup WebStatus]
    BY <2>2 DEF Sets, TypeOK
  <2>4. pc' \in [Jobs -> Places]  BY DEF Sets, TypeOK, Places
  <2>5. barred' \subseteq Rows  BY <1>3 DEF TypeOK
  <2> QED  BY <1>3, <2>1, <2>3, <2>4, <2>5 DEF TypeOK
<1>5. BarredShut'  BY <1>1, <1>3 DEF BarredShut, TypeOK
<1>6. LateBarred'  BY <1>3 DEF LateBarred
<1>7. SureKnows'
  <2> SUFFICES ASSUME NEW k \in sure
               PROVE  /\ pc'[k] # "idle" /\ op[k].does = "edit"
                      /\ pc'[k] = "loaded" /\ copy[k] # "active" => row'[op[k].target] # "active"
    BY <1>3 DEF SureKnows
  <2>1. k \in Jobs /\ op[k].does = "edit"  BY DEF TypeOK, SureKnows
  <2>2. op[k].target \in Rows  BY <2>1, OpFacts DEF TypeOK, IsEdit
  <2> QED  BY <1>1, <1>2, <2>1, <2>2 DEF SureKnows
<1>8. Kinds'  BY <1>2 DEF Kinds
<1>9. Cleared'
  <2>1. pc[j] = "loaded" => op[j].does = "edit"  BY DEF Kinds
  <2> QED  BY <1>2, <2>1 DEF Cleared
<1>10. MadeStays'
  <2>1. ASSUME NEW k \in Jobs, k # j, Created(k)'  PROVE Created(k)
    BY <1>2, <2>1 DEF Created
  <2>2. "account" \in Rows  BY DEF Rows
  <2>3. CASE t = "account" /\ row["account"] = "none" /\ s # "none"
    <3>1. \A k \in Jobs : ~Created(k)  BY <2>3 DEF MadeStays
    <3>2. \A k \in Jobs : Created(k)' => k = j  BY <2>1, <3>1
    <3> QED  BY <1>1, <2>2, <2>3, <3>2 DEF MadeStays, CreatedOnce
  <2>4. CASE Created(j)' => Created(j)
    <3>1. \A k \in Jobs : Created(k)' => Created(k)  BY <2>1, <2>4
    <3> QED  BY <1>1, <2>2, <3>1 DEF MadeStays, CreatedOnce
  <2> QED  BY <2>3, <2>4
<1>11. Nobody'
  <2> SUFFICES ASSUME row'["account"] = "none"
               PROVE  /\ row'["key"] = "none" /\ row'["web"] = "none"
                      /\ \A k \in Jobs :
                           pc'[k] # "admitted" /\ (pc'[k] = "loaded" => op'[k].target = "account")
    BY DEF Nobody
  <2>1. t = "account" /\ row["account"] = "none"  BY <1>1 DEF Rows
  <2> QED  BY <1>1, <1>2, <2>1 DEF Nobody, Rows
<1> QED  BY <1>4, <1>5, <1>6, <1>7, <1>8, <1>9, <1>10, <1>11

-----------------------------------------------------------------------------
(* Every action keeps the invariant. *)

LEMMA ReadKeyKeeps ==
  ASSUME IInv, NEW j \in Jobs, ReadKey(j)
  PROVE  IInv'
<1>1. PICK o \in KeyRequests : op' = [op EXCEPT ![j] = o]  BY DEF ReadKey, Start
<1>2. op'[j] = o  BY <1>1 DEF IInv, TypeOK
<1> DEFINE p == IF row["key"] = "active" \/ (row["key"] # "none" /\ o.does # "call")
                THEN "key" ELSE "refused"
<1>3. /\ pc[j] = "idle" /\ pc' = [pc EXCEPT ![j] = p]
      /\ copy' = [copy EXCEPT ![j] = row["key"]] /\ late' = [late EXCEPT ![j] = barred]
      /\ row' = row /\ barred' = barred /\ sure' = sure
  BY <1>2 DEF ReadKey, Start, Move
<1>4. p \in {"key", "refused"} /\ (p = "key" => (o.does = "call" => row["key"] = "active"))
  OBVIOUS
<1>5. o \in Ops /\ "key" \in Rows  BY DEF Ops, Rows
<1> HIDE DEF p
<1> QED  BY <1>1, <1>3, <1>4, <1>5, StartKeeps

LEMMA ReadSessionKeeps ==
  ASSUME IInv, NEW j \in Jobs, ReadSession(j)
  PROVE  IInv'
<1>1. PICK o \in PortalRequests : op' = [op EXCEPT ![j] = o]  BY DEF ReadSession, Start
<1> DEFINE p == IF row["web"] = "active" THEN "session" ELSE "refused"
<1>2. /\ pc[j] = "idle" /\ pc' = [pc EXCEPT ![j] = p]
      /\ copy' = [copy EXCEPT ![j] = row["web"]] /\ late' = [late EXCEPT ![j] = barred]
      /\ row' = row /\ barred' = barred /\ sure' = sure
  BY DEF ReadSession, Start, Move
<1>3. p \in {"session", "refused"} /\ (p = "session" => row["web"] = "active")  OBVIOUS
<1>4. o \in Ops /\ "web" \in Rows  BY DEF Ops, Rows
<1> HIDE DEF p
<1> QED  BY <1>1, <1>2, <1>3, <1>4, StartKeeps

LEMMA ReadAccountKeeps ==
  ASSUME IInv, NEW j \in Jobs, ReadAccount(j)
  PROVE  IInv'
<1>1. PICK o \in Makers : op' = [op EXCEPT ![j] = o]  BY DEF ReadAccount, Start
<1> DEFINE p == IF row["account"] # "none" THEN "admitted" ELSE "refused"
<1>2. /\ pc[j] = "idle" /\ pc' = [pc EXCEPT ![j] = p]
      /\ copy' = [copy EXCEPT ![j] = row["account"]] /\ late' = [late EXCEPT ![j] = barred]
      /\ row' = row /\ barred' = barred /\ sure' = sure
  BY DEF ReadAccount, Start, Move
<1>3. o \in Ops /\ "account" \in Rows  BY DEF Ops, Rows
<1>4. p \in {"admitted", "refused"} /\ (p = "admitted" => row["account"] # "none")  OBVIOUS
<1> HIDE DEF p
<1> QED  BY <1>1, <1>2, <1>3, <1>4, StartKeeps

LEMMA CheckFreeKeeps ==
  ASSUME IInv, NEW j \in Jobs, CheckFree(j)
  PROVE  IInv'
<1>1. PICK o \in Register \cup CreateAccount : op' = [op EXCEPT ![j] = o]  BY DEF CheckFree, Start
<1> DEFINE p == IF row["account"] = "none" \/ op'[j] \in CreateAccount THEN "fresh" ELSE "refused"
<1>2. /\ pc[j] = "idle" /\ pc' = [pc EXCEPT ![j] = p]
      /\ copy' = [copy EXCEPT ![j] = row["account"]] /\ late' = [late EXCEPT ![j] = barred]
      /\ row' = row /\ barred' = barred /\ sure' = sure
  BY DEF CheckFree, Start, Move
<1>3. p \in {"fresh", "refused"}  OBVIOUS
<1>4. o \in Ops /\ o \in AccountMakers /\ "account" \in Rows  BY DEF Ops, Rows, AccountMakers
<1> HIDE DEF p
<1> QED  BY <1>1, <1>2, <1>3, <1>4, StartKeeps

LEMMA ReadOauthAccountKeeps ==
  ASSUME IInv, NEW j \in Jobs, ReadOauthAccount(j)
  PROVE  IInv'
<1>1. PICK o \in OauthLogin : op' = [op EXCEPT ![j] = o]  BY DEF ReadOauthAccount, Start
<1> DEFINE p == CASE row["account"] = "none" -> "fresh"
                  [] row["account"] = "active" -> "admitted"
                  [] OTHER -> "refused"
<1>2. /\ pc[j] = "idle" /\ pc' = [pc EXCEPT ![j] = p]
      /\ copy' = [copy EXCEPT ![j] = row["account"]] /\ late' = [late EXCEPT ![j] = barred]
      /\ row' = row /\ barred' = barred /\ sure' = sure
  BY DEF ReadOauthAccount, Start
<1>3. p \in {"fresh", "admitted", "refused"} /\ (p = "admitted" => row["account"] = "active")
  OBVIOUS
<1>4. o \in Ops /\ o \in AccountMakers /\ "account" \in Rows  BY DEF Ops, Rows, AccountMakers
<1>5. o.does = "oauth"  BY <1>4, AccountMakerFacts
<1> HIDE DEF p
<1> QED  BY <1>1, <1>2, <1>3, <1>4, <1>5, StartKeeps

LEMMA RefuseLinkKeeps ==
  ASSUME IInv, NEW j \in Jobs, RefuseLink(j)
  PROVE  IInv'
BY GoesKeeps DEF RefuseLink, Goes

LEMMA ReadRowKeeps ==
  ASSUME IInv, NEW j \in Jobs, ReadRow(j)
  PROVE  IInv'
<1>1. PICK t \in Rows :
        /\ Start(j, {o \in Edits : o.target = t}, t)
        /\ Move(j, row[t] \in op'[j].loads /\ (t = "key" => row["account"] # "none"), "loaded")
        /\ sure' = sure \cup {j}
  BY DEF ReadRow
<1>2. PICK o \in Edits : o.target = t /\ op' = [op EXCEPT ![j] = o]  BY <1>1 DEF Start
<1> DEFINE p == IF row[t] \in op'[j].loads /\ (t = "key" => row["account"] # "none") THEN "loaded" ELSE "refused"
<1>3. /\ pc[j] = "idle" /\ pc' = [pc EXCEPT ![j] = p]
      /\ copy' = [copy EXCEPT ![j] = row[t]] /\ late' = [late EXCEPT ![j] = barred]
      /\ row' = row /\ barred' = barred
  BY <1>1 DEF Start, Move
<1>4. op'[j] = o  BY <1>2 DEF IInv, TypeOK
<1>5. o \in Ops /\ p \in {"loaded", "refused"} /\ (p = "loaded" => row[t] \in o.loads)
  BY <1>4 DEF Ops
<1>6. p = "loaded" /\ t # "account" => row["account"] # "none"
  <2>1. o.target = "web" => "none" \notin o.loads  BY WebEdits
  <2> QED  BY <1>2, <1>5, <2>1 DEF IInv, Nobody, Rows
<1> HIDE DEF p
<1> QED  BY <1>1, <1>2, <1>3, <1>4, <1>5, <1>6, StartKeeps

LEMMA ReadAccountOfKeyKeeps ==
  ASSUME IInv, NEW j \in Jobs, ReadAccountOfKey(j)
  PROVE  IInv'
<1> DEFINE p == CASE op[j].does = "call" -> Authenticated(j)
                  [] op[j].does = "introspect" -> Introspected(j)
                  [] op[j].does = "event" -> Recorded(j)
<1>1. pc[j] = "key" /\ pc' = [pc EXCEPT ![j] = p]
      /\ UNCHANGED <<row, op, copy, barred, sure, late>>
  BY DEF ReadAccountOfKey, Goes
<1>2. op[j].does \in {"call", "introspect", "event"}
  BY <1>1 DEF IInv, Kinds
<1>3. /\ p \in {"served", "refused", "done"}
      /\ p = "served" => row["account"] = "active" /\ (op[j].does = "call" \/ copy[j] = "active")
  BY <1>2 DEF Authenticated, Introspected, Recorded
<1> HIDE DEF p
<1> QED  BY <1>1, <1>3, GoesKeeps

LEMMA ReadAccountOfSessionKeeps ==
  ASSUME IInv, NEW j \in Jobs, ReadAccountOfSession(j)
  PROVE  IInv'
<1> DEFINE p == IF row["account"] = "active"
                THEN IF op[j].does = "me" THEN "served" ELSE "admitted" ELSE "refused"
<1>1. pc[j] = "session" /\ pc' = [pc EXCEPT ![j] = p]
      /\ UNCHANGED <<row, op, copy, barred, sure, late>>
  BY DEF ReadAccountOfSession, Goes
<1>2. /\ p \in {"admitted", "served", "refused"}
      /\ p \in {"admitted", "served"} => row["account"] = "active"
  OBVIOUS
<1> HIDE DEF p
<1> QED  BY <1>1, <1>2, GoesKeeps

\* A request that does not create the account has not created it when it is done.
LEMMA NotCreated ==
  ASSUME IInv, NEW j \in Jobs, op'[j] = op[j], copy'[j] = copy[j],
         pc[j] = "loaded" => copy[j] # "none" \/ op[j].target # "account",
         pc[j] \in {"loaded", "admitted"}
  PROVE  Created(j)' => Created(j)
<1> USE DEF IInv
<1>1. op[j] \in Ops \cup {NoOp}  BY DEF TypeOK
<1>2. CASE pc[j] = "loaded"
  <2>1. op[j].does = "edit"  BY <1>2 DEF Kinds
  <2>2. op[j] \notin Register \cup CreateAccount /\ op[j] \notin OauthLogin
    BY <1>1, <2>1, OpFacts
  <2> QED  BY <1>2, <2>2, MirrorFacts DEF Created
<1>3. CASE pc[j] = "admitted"
  <2>1. op[j] \notin MirrorUpsertAccount
    BY <1>3, MirrorFacts DEF Kinds
  <2>2. op[j] \in OauthLogin => copy[j] # "none"
    BY <1>1, <1>3, OpFacts DEF Kinds
  <2> QED  BY <1>3, <2>1, <2>2 DEF Created
<1> QED  BY <1>2, <1>3

LEMMA MakeKeeps ==
  ASSUME IInv, NEW j \in Jobs, Make(j)
  PROVE  IInv'
<1>1. PICK t \in {"key", "web"} :
        /\ pc[j] = "admitted" /\ op[j].does \in Makes(t)
        /\ Writes(j, t, IF row[t] = "none" THEN "active" ELSE row[t])
  BY DEF Make
<1>2. t \in Rows  BY DEF Rows
<1>3. ~Shuts(op[j])  BY <1>1 DEF Shuts, Makes
<1>4. UNCHANGED <<op, copy>>  BY <1>1 DEF Writes, Opens, Sets
<1>5. Created(j)' => Created(j)  BY <1>1, <1>4, NotCreated
<1>8. row["account"] # "none"  BY <1>1 DEF IInv, Nobody
<1>6. CASE row[t] = "none"
  <2>1. Opens(j, {t}, "done")  BY <1>1, <1>6 DEF Writes
  <2>2. {t} \in SUBSET Rows  BY <1>2
  <2> QED  BY <1>1, <1>5, <1>8, <2>1, <2>2, OpensKeeps
<1>7. CASE row[t] # "none"
  <2>1. row[t] \in StatusOf(t)  BY <1>2, RowType DEF IInv
  <2>2. Sets(j, t, row[t])  BY <1>1, <1>7 DEF Writes
  <2> QED  BY <1>1, <1>2, <1>3, <1>5, <1>7, <1>8, <2>1, <2>2, SetsKeeps
<1> QED  BY <1>6, <1>7

LEMMA InsertKeeps ==
  ASSUME IInv, NEW j \in Jobs, Insert(j)
  PROVE  IInv'
<1>1. pc[j] = "fresh" /\ op[j].by # "portal"
      /\ op[j].does \in {"register", "createAccount", "oauth"}
  BY DEF Insert, IInv, Kinds
<1>2. CASE row["account"] # "none"
  <2>1. Goes(j, "refused")  BY <1>2 DEF Insert, Free
  <2> QED  BY <2>1, GoesKeeps DEF Goes
<1>3. CASE row["account"] = "none"
  <2>1. CASE op[j].does = "register"
    <3>1. Opens(j, {"account"}, "admitted")  BY <1>3, <2>1 DEF Insert, Free
    <3>2. {"account"} \in SUBSET Rows  BY DEF Rows
    <3> QED  BY <1>1, <1>3, <2>1, <3>1, <3>2, OpensKeeps
  <2>2. CASE op[j].does = "createAccount"
    <3>1. Opens(j, {"account"}, "done")  BY <1>3, <2>2 DEF Insert, Free
    <3>2. {"account"} \in SUBSET Rows  BY DEF Rows
    <3> QED  BY <1>1, <1>3, <3>1, <3>2, OpensKeeps
  <2>3. CASE op[j].does = "oauth"
    <3>1. Opens(j, {"account", "web"}, "done")  BY <1>3, <2>3 DEF Insert, Free
    <3>2. {"account", "web"} \in SUBSET Rows  BY DEF Rows
    <3> QED  BY <1>1, <1>3, <3>1, <3>2, OpensKeeps
  <2> QED  BY <1>1, <2>1, <2>2, <2>3
<1> QED  BY <1>2, <1>3

\* What Writes needs, whichever way it goes.
LEMMA WritesKeeps ==
  ASSUME IInv, NEW j \in Jobs, NEW t \in Rows, NEW s \in StatusOf(t),
         pc[j] = "loaded", Writes(j, t, s), s = "none" => row[t] = "none",
         j \in sure /\ Shuts(op[j]) => s # "active",
         t = "account" \/ row["account"] # "none",
         \/ t = "account" /\ row["account"] = "none" /\ s # "none"
         \/ Created(j)' => Created(j)
  PROVE  IInv'
<1>1. CASE s = "active" /\ row[t] # "active"
  <2>1. Opens(j, {t}, "done")  BY <1>1 DEF Writes
  <2>2. {t} \in SUBSET Rows  OBVIOUS
  <2> QED  BY <2>1, <2>2, OpensKeeps
<1>2. CASE ~(s = "active" /\ row[t] # "active")
  <2>1. Sets(j, t, s)  BY <1>2 DEF Writes
  <2> QED  BY <1>2, <2>1, SetsKeeps
<1> QED  BY <1>1, <1>2

\* An edit that has read its row knows which it is, and what to make of it.
LEMMA LoadedFacts ==
  ASSUME IInv, NEW j \in Jobs, pc[j] = "loaded"
  PROVE  /\ op[j].target \in Rows
         /\ op[j].to \in (StatusOf(op[j].target) \ {"none"}) \cup {"same"}
         /\ row[op[j].target] \in StatusOf(op[j].target)
         /\ copy[j] = "none" => op[j].to # "same"
         /\ op[j].target = "account" \/ row["account"] # "none"
<1>1. op[j].does = "edit"  BY DEF IInv, Kinds
<1>2. IsEdit(op[j], op[j].by = "portal")  BY <1>1, OpFacts DEF IInv, TypeOK
<1>3. row[op[j].target] \in StatusOf(op[j].target)  BY <1>2 DEF IsEdit, IInv, TypeOK
<1>4. copy[j] \in op[j].loads  BY DEF IInv, Kinds
<1>5. op[j].target = "account" \/ row["account"] # "none"  BY DEF IInv, Nobody
<1> QED  BY <1>2, <1>3, <1>4, <1>5 DEF IsEdit

LEMMA InsertMirrorKeeps ==
  ASSUME IInv, NEW j \in Jobs, InsertMirror(j)
  PROVE  IInv'
<1> DEFINE t == op[j].target
           s == op[j].to
<1>1. pc[j] = "loaded" /\ copy[j] = "none"  BY DEF InsertMirror
<1>5. t = "account" \/ row["account"] # "none"  BY <1>1, LoadedFacts
<1>2. t \in Rows /\ s \in StatusOf(t) /\ s # "none"  BY <1>1, LoadedFacts
<1>3. CASE row[t] # "none"
  <2>1. Goes(j, "refused")  BY <1>3 DEF InsertMirror, Edited
  <2> QED  BY <2>1, GoesKeeps DEF Goes
<1>4. CASE row[t] = "none"
  <2>1. Writes(j, t, s)  BY <1>4 DEF InsertMirror, Edited
  <2>2. Shuts(op[j]) => s # "active"  BY DEF Shuts
  <2>3. t # "account" => (Created(j)' => Created(j))
    <3>1. UNCHANGED <<op, copy>>  BY <2>1 DEF Writes, Opens, Sets
    <3> QED  BY <1>1, <3>1, NotCreated
  <2> HIDE DEF t, s
  <2> QED  BY <1>1, <1>2, <1>4, <1>5, <2>1, <2>2, <2>3, WritesKeeps
<1> QED  BY <1>3, <1>4

LEMMA CommitKeeps ==
  ASSUME IInv, NEW j \in Jobs, Commit(j)
  PROVE  IInv'
<1> DEFINE t == op[j].target
           s == Written(row[t], copy[j], op[j].to)
<1>1. pc[j] = "loaded" /\ copy[j] # "none" /\ Writes(j, t, s)  BY DEF Commit, Edited
<1>2. /\ t \in Rows /\ op[j].to \in (StatusOf(t) \ {"none"}) \cup {"same"}
      /\ row[t] \in StatusOf(t)
      /\ t = "account" \/ row["account"] # "none"
  BY <1>1, LoadedFacts
<1>3. s \in StatusOf(t) /\ (s = "none" => row[t] = "none")  BY <1>2 DEF Written
<1>4. j \in sure /\ Shuts(op[j]) => s # "active"
  <2> SUFFICES ASSUME j \in sure, Shuts(op[j])  PROVE s # "active"  OBVIOUS
  <2>1. copy[j] # "active" => row[t] # "active"  BY <1>1 DEF IInv, SureKnows
  <2> QED  BY <2>1 DEF Shuts, Written
<1>5. UNCHANGED <<op, copy>>  BY <1>1 DEF Writes, Opens, Sets
<1>6. Created(j)' => Created(j)  BY <1>1, <1>5, NotCreated
<1> HIDE DEF t, s
<1> QED  BY <1>1, <1>2, <1>3, <1>4, <1>6, WritesKeeps

LEMMA ExpireKeeps ==
  ASSUME IInv, Expire
  PROVE  IInv'
<1> USE DEF IInv
<1>1. row["web"] = "active" /\ row' = [row EXCEPT !["web"] = "expired"]
      /\ barred' = barred \cup {"web"} /\ UNCHANGED <<pc, op, copy, sure, late>>
  BY DEF Expire
<1>2. TypeOK'
  <2>1. "web" \in Rows /\ "expired" \in StatusOf("web") /\ "expired" \in WebStatus
    BY DEF Rows, StatusOf, WebStatus
  <2>2. row' \in [Rows -> KeyStatus \cup AccountStatus \cup WebStatus]
    BY <1>1, <2>1 DEF TypeOK
  <2>3. \A u \in Rows : row'[u] \in StatusOf(u)  BY <1>1, <2>1 DEF TypeOK
  <2> QED  BY <1>1, <2>1, <2>2, <2>3 DEF TypeOK
<1>3. \A u \in Rows : row'[u] = IF u = "web" THEN "expired" ELSE row[u]
  BY <1>1 DEF TypeOK, Rows
<1>4. BarredShut'  BY <1>1, <1>3 DEF BarredShut, TypeOK, Rows
<1>5. LateBarred'  BY <1>1 DEF LateBarred
<1>6. SureKnows'
  <2> SUFFICES ASSUME NEW k \in sure
               PROVE  /\ pc[k] # "idle" /\ op[k].does = "edit"
                      /\ pc[k] = "loaded" /\ copy[k] # "active" => row'[op[k].target] # "active"
    BY <1>1 DEF SureKnows
  <2>1. k \in Jobs /\ op[k].does = "edit"  BY DEF TypeOK, SureKnows
  <2>2. op[k].target \in Rows  BY <2>1, OpFacts DEF TypeOK, IsEdit
  <2> QED  BY <1>3, <2>1, <2>2 DEF SureKnows
<1>7. Kinds' /\ Cleared'  BY <1>1 DEF Kinds, Cleared
<1>8. MadeStays'
  <2>1. row'["account"] = row["account"]  BY <1>3 DEF Rows
  <2> QED  BY <1>1, <2>1 DEF MadeStays, CreatedOnce, Created
<1>9. Nobody'  BY <1>1, <1>3 DEF Nobody, Rows
<1> QED  BY <1>2, <1>4, <1>5, <1>6, <1>7, <1>8, <1>9

LEMMA StepKeeps ==
  ASSUME IInv, [Next]_vars
  PROVE  IInv'
<1>1. ASSUME NEW j \in Jobs,
             \/ ReadKey(j) \/ ReadAccountOfKey(j) \/ ReadSession(j) \/ ReadAccountOfSession(j)
             \/ ReadRow(j) \/ ReadOwnKey(j) \/ ReadAccount(j) \/ CheckFree(j) \/ ReadOauthAccount(j)
             \/ RefuseLink(j) \/ Make(j) \/ Insert(j) \/ InsertMirror(j) \/ Commit(j)
      PROVE  IInv'
  BY <1>1, ReadKeyKeeps, ReadAccountOfKeyKeeps, ReadSessionKeeps, ReadAccountOfSessionKeeps,
     ReadRowKeeps, ReadOwnKeyKeeps, ReadAccountKeeps, CheckFreeKeeps, ReadOauthAccountKeeps,
     RefuseLinkKeeps, MakeKeeps, InsertKeeps, InsertMirrorKeeps, CommitKeeps
<1>2. CASE Expire  BY <1>2, ExpireKeeps
<1>3. CASE UNCHANGED vars
  BY <1>3 DEF vars, IInv, TypeOK, BarredShut, LateBarred, SureKnows, Kinds, Cleared,
     MadeStays, CreatedOnce, Created, Nobody
<1> QED  BY <1>1, <1>2, <1>3 DEF Next

THEOREM Invariance == Spec => []IInv
<1>1. IInv /\ [Next]_vars => IInv'  BY StepKeeps
<1> QED  BY Initial, <1>1, PTL DEF Spec

-----------------------------------------------------------------------------
(* What follows. *)

\* Every variable keeps its type: whatever requests overlap, a row has a status of
\* its kind, and an edit one that its endpoint may give.
THEOREM TypeCorrect == Spec => []TypeOK
<1>1. IInv => TypeOK  BY DEF IInv
<1> QED  BY Invariance, <1>1, PTL

\* For any number of overlapping requests: once a revocation, a deletion, a suspension
\* or a logout is done, no request that begins later is let in, until somebody makes
\* the row active again.
THEOREM RevocationLasts == Spec => []RevokedStaysOut
<1>1. IInv => RevokedStaysOut
  <2> SUFFICES ASSUME IInv, NEW j \in Jobs, LetIn(j)
               PROVE  late[j] \cap Needs(j) = {}
    BY DEF RevokedStaysOut
  <2>1. op[j] \in PortalRequests <=> op[j].by = "portal"
    BY OpFacts DEF IInv, TypeOK
  <2> QED  BY <2>1 DEF LetIn, Needs, IInv, Cleared
<1> QED  BY Invariance, <1>1, PTL

\* For any number of registrations, creations, first callbacks and mirrors that overlap,
\* at most one makes the account.
THEOREM CreatedByOne == Spec => []CreatedOnce
<1>1. IInv => CreatedOnce  BY DEF IInv, MadeStays
<1> QED  BY Invariance, <1>1, PTL

\* Only an edit that asks for it makes a row active again that was not.
THEOREM OnlyOnDemand == Spec => ReopenedOnDemand
<1> DEFINE Asked ==
      \A t \in Rows :
        (row[t] \notin {"none", "active"} /\ row'[t] = "active")
          => \E j \in Jobs : /\ pc[j] = "loaded" /\ pc'[j] = "done"
                             /\ op[j].target = t /\ op[j].to = "active"
<1>1. IInv /\ [Next]_vars => Asked
  <2> SUFFICES ASSUME IInv, [Next]_vars, NEW t \in Rows,
                      row[t] \notin {"none", "active"}, row'[t] = "active"
               PROVE  \E j \in Jobs : /\ pc[j] = "loaded" /\ pc'[j] = "done"
                                      /\ op[j].target = t /\ op[j].to = "active"
    OBVIOUS
  <2>1. row' # row  OBVIOUS
  <2>2. ~Expire  BY DEF Expire, IInv, TypeOK, Rows
  <2>3. PICK j \in Jobs : Make(j) \/ Insert(j) \/ InsertMirror(j) \/ Commit(j)
    BY <2>1, <2>2 DEF Next, vars, ReadKey, ReadSession, ReadRow, ReadAccount, ReadOwnKey,
       ReadAccountOfKey, ReadAccountOfSession, CheckFree, ReadOauthAccount, RefuseLink, Start, Goes
  <2>4. ASSUME NEW u \in Rows, NEW s, Writes(j, u, s)
        PROVE  u = t /\ s = "active" /\ pc'[j] = "done"
    BY <2>4 DEF Writes, Opens, Sets, IInv, TypeOK, Rows
  <2>5. ~Make(j)
    <3>1. ASSUME NEW u \in {"key", "web"},
                 Writes(j, u, IF row[u] = "none" THEN "active" ELSE row[u])
          PROVE  FALSE
      BY <2>4, <3>1 DEF Rows
    <3> QED  BY <3>1 DEF Make
  <2>9. ~Insert(j)
    <3> SUFFICES ASSUME Insert(j) PROVE FALSE  OBVIOUS
    <3>1. row["account"] = "none" /\ row["web"] = "none"
      BY <2>1 DEF Insert, Goes, Free, IInv, Nobody
    <3>2. op[j].does \in {"register", "createAccount", "oauth"}
      BY DEF Insert, IInv, Kinds
    <3>3. t \in {"account", "web"}  BY <3>1, <3>2 DEF Insert, Free, Opens
    <3> QED  BY <3>1, <3>3
  <2>10. ~InsertMirror(j)
    <3> SUFFICES ASSUME InsertMirror(j) PROVE FALSE  OBVIOUS
    <3>1. pc[j] = "loaded" /\ row[op[j].target] = "none" /\ Writes(j, op[j].target, op[j].to)
      BY <2>1 DEF InsertMirror, Edited, Goes
    <3>2. op[j].target \in Rows  BY <3>1, LoadedFacts
    <3> QED  BY <2>4, <3>1, <3>2
  <2>6. pc[j] = "loaded" /\ Writes(j, op[j].target, Written(row[op[j].target], copy[j], op[j].to))
    BY <2>3, <2>5, <2>9, <2>10 DEF Commit, Edited
  <2>7. op[j].target \in Rows
    <3>1. op[j].does = "edit" /\ op[j] \in Ops \cup {NoOp}  BY <2>6 DEF IInv, Kinds, TypeOK
    <3> QED  BY <3>1, OpFacts DEF IsEdit
  <2>8. op[j].target = t /\ pc'[j] = "done" /\ Written(row[t], copy[j], op[j].to) = "active"
    BY <2>4, <2>6, <2>7
  <2> QED  BY <2>6, <2>8 DEF Written
<1> QED  BY Invariance, <1>1, PTL DEF Spec, ReopenedOnDemand
=============================================================================
