--------------------------- MODULE AccountProofs ---------------------------
(*****************************************************************************)
(* Proofs about what an account of the gateway relies on: its credits        *)
(* (CreditBilling), the platform's models that it is shown (ProviderCatalog) *)
(* and the providers that it has added (UserProviders).  Each part is about  *)
(* one component, and cites nothing of the others.                           *)
(*****************************************************************************)
EXTENDS CreditBilling, ProviderCatalog, UserProviders, TLAPS, WellFoundedInduction

-----------------------------------------------------------------------------
(*****************************************************************************)
(* The credits, for any set of requests and any amounts.  What the balance   *)
(* may differ from the ledger by is decided by what the sessions in use have *)
(* loaded, so each invariant is strengthened with a statement about loaded.  *)
(*****************************************************************************)

\* One request's part of Next.
Step(r) ==
  \/ Load(r) \/ Reject(r) \/ Accept(r) \/ Answer(r) \/ ProviderFails(r)
  \/ Prepare(r) \/ Settle(r) \/ Disconnect(r) \/ SettleFails(r)

LEMMA NextIsStep == Next <=> ((\E r \in Requests : Step(r)) \/ Crash)
  BY Zenon DEF Next, Step

-----------------------------------------------------------------------------
(* Type correctness. *)

LEMMA CostsAreNumbers ==
  /\ \A c \in Costs : c \in Nat
  /\ \A d \in Adjustments : d \in Int /\ -d \in Int
  /\ StartFee \in Nat /\ StartFee >= 1
  BY BillingParameters

LEMMA TypeStep ==
  ASSUME TypeOK, NEW r \in Requests, Step(r)
  PROVE  TypeOK'
<1> USE DEF TypeOK, InUse, Ended
<1>1. CASE Load(r)
  <2>1. overlapped' \in BOOLEAN
    <3>1. overlapped' = (overlapped \/ OthersInUse(r))
      BY <1>1 DEF Load
    <3> QED BY <3>1, Zenon
  <2> QED BY <1>1, <2>1 DEF Load, books
<1>2. CASE Reject(r)
  BY <1>2 DEF Reject, books, history
<1>3. CASE Accept(r)
  BY <1>3 DEF Accept, books, history
<1>4. CASE Answer(r)
  <2>1. PICK c \in Costs : cost' = [cost EXCEPT ![r] = c]
    BY <1>4 DEF Answer
  <2> QED BY <1>4, <2>1, CostsAreNumbers DEF Answer, books, history
<1>5. CASE ProviderFails(r)
  BY <1>5 DEF ProviderFails, books, history
<1>6. CASE Prepare(r)
  <2>1. PICK c \in Int : cost' = [cost EXCEPT ![r] = c]
    BY <1>6, CostsAreNumbers DEF Prepare
  <2> QED BY <1>6, <2>1 DEF Prepare, books, history
<1>7. CASE Settle(r)
  <2>1. added' \in BOOLEAN
    <3>1. added' = (added \/ (cost[r] < 0 /\ OthersInUse(r)))
      BY <1>7 DEF Settle
    <3> QED BY <3>1, Zenon
  <2> QED BY <1>7, <2>1 DEF Settle
<1>8. CASE Disconnect(r)
  BY <1>8 DEF Disconnect, books, history
<1>9. CASE SettleFails(r)
  BY <1>9 DEF SettleFails, books, history
<1> QED BY <1>1, <1>2, <1>3, <1>4, <1>5, <1>6, <1>7, <1>8, <1>9 DEF Step

LEMMA TypeInit == Init => TypeOK
<1>1. Init => overlapped \in BOOLEAN /\ added \in BOOLEAN
  BY Zenon DEF Init
<1> QED BY <1>1, BillingParameters DEF Init, TypeOK

LEMMA TypeNext == TypeOK /\ [Next]_vars => TypeOK'
<1> SUFFICES ASSUME TypeOK, [Next]_vars PROVE TypeOK'
  OBVIOUS
<1>1. CASE \E r \in Requests : Step(r)
  BY <1>1, TypeStep
<1>2. CASE Crash
  BY <1>2 DEF Crash, TypeOK, InUse, Ended, books, history
<1>3. CASE UNCHANGED vars
  BY <1>3 DEF vars, books, history, TypeOK
<1> QED BY <1>1, <1>2, <1>3, NextIsStep

\* Every variable keeps its type.
THEOREM TypeCorrect == Spec => []TypeOK
  BY TypeInit, TypeNext, PTL DEF Spec

-----------------------------------------------------------------------------
(* Until credits are added in the middle, no copy in use is below the      *)
(* ledger.                                                                 *)

CopiesCoverLedger == ~added => \A r \in Requests : pc[r] \in InUse => loaded[r] >= ledger

CoverInv == TypeOK /\ NothingTaken /\ CopiesCoverLedger

LEMMA CoverStep ==
  ASSUME CoverInv, NEW r \in Requests, Step(r)
  PROVE  NothingTaken' /\ CopiesCoverLedger'
<1> USE DEF CoverInv, TypeOK, NothingTaken, CopiesCoverLedger, InUse
<1>1. CASE Load(r)
  BY <1>1 DEF Load, books
<1>2. CASE Reject(r)
  BY <1>2 DEF Reject, books, history
<1>3. CASE Accept(r)
  BY <1>3 DEF Accept, books, history
<1>4. CASE Answer(r)
  BY <1>4 DEF Answer, books, history
<1>5. CASE ProviderFails(r)
  BY <1>5 DEF ProviderFails, books, history
<1>6. CASE Prepare(r)
  BY <1>6 DEF Prepare, books, history
<1>7. CASE Settle(r)
  <2>1. /\ ledger' = ledger - cost[r] /\ pc' = [pc EXCEPT ![r] = "charged"] /\ loaded' = loaded
        /\ (balance' = balance /\ cost[r] = 0) \/ balance' = loaded[r] - cost[r]
    BY <1>7 DEF Settle
  <2>0. ~added' => ~added /\ (cost[r] >= 0 \/ ~OthersInUse(r))
    <3>1. ~added' => ~added /\ ~(cost[r] < 0 /\ OthersInUse(r))
      BY <1>7, Zenon DEF Settle
    <3> QED BY <3>1
  <2>2. ~added => loaded[r] >= ledger
    BY <1>7 DEF Settle
  <2>3. NothingTaken'
    BY <2>0, <2>1, <2>2
  <2>4. ASSUME ~added', NEW q \in Requests, pc'[q] \in InUse PROVE loaded'[q] >= ledger'
    <3>1. q # r /\ pc[q] \in InUse
      BY <2>1, <2>4
    <3>2. cost[r] >= 0 /\ loaded[q] >= ledger
      BY <2>0, <2>4, <3>1 DEF OthersInUse
    <3> QED BY <2>1, <3>2
  <2> QED BY <2>3, <2>4
<1>8. CASE Disconnect(r)
  BY <1>8 DEF Disconnect, books, history
<1>9. CASE SettleFails(r)
  BY <1>9 DEF SettleFails, books, history
<1> QED BY <1>1, <1>2, <1>3, <1>4, <1>5, <1>6, <1>7, <1>8, <1>9 DEF Step

LEMMA CoverNext == CoverInv /\ [Next]_vars => CoverInv'
<1> SUFFICES ASSUME CoverInv, [Next]_vars PROVE CoverInv'
  OBVIOUS
<1>1. TypeOK'
  BY TypeNext DEF CoverInv
<1>2. CASE \E r \in Requests : Step(r)
  BY <1>1, <1>2, CoverStep DEF CoverInv
<1>3. CASE Crash
  BY <1>1, <1>3 DEF Crash, CoverInv, TypeOK, NothingTaken, CopiesCoverLedger, InUse, books, history
<1>4. CASE UNCHANGED vars
  BY <1>1, <1>4 DEF vars, books, history, CoverInv, NothingTaken, CopiesCoverLedger
<1> QED BY <1>2, <1>3, <1>4, NextIsStep

\* Until credits are added while another session runs, lost updates of the balance
\* only ever lose charges: it is never below what the ledger adds up to.
THEOREM NeverOvercharged == Spec => []NothingTaken
<1>1. Init => CoverInv
  BY TypeInit, BillingParameters DEF Init, CoverInv, NothingTaken, CopiesCoverLedger, InUse
<1>2. CoverInv => NothingTaken
  BY DEF CoverInv
<1> QED BY <1>1, CoverNext, <1>2, PTL DEF Spec

-----------------------------------------------------------------------------
(* A session that was let in had at least one hundredth of a credit. *)

CheckedFunds ==
  \A r \in Requests :
    /\ pc[r] = "accepted" => kind[r] \in Inferences /\ loaded[r] >= 1
    /\ pc[r] = "ready" /\ kind[r] \in Inferences \cup {"task"} => loaded[r] >= 1

FundsInv == TypeOK /\ CheckedFunds

LEMMA FundsStep ==
  ASSUME FundsInv, NEW r \in Requests, Step(r)
  PROVE  CheckedFunds'
<1> USE DEF FundsInv, TypeOK, CheckedFunds, Inferences
<1>1. CASE Load(r)
  BY <1>1 DEF Load
<1>2. CASE Reject(r)
  BY <1>2 DEF Reject
<1>3. CASE Accept(r)
  BY <1>3 DEF Accept
<1>4. CASE Answer(r)
  BY <1>4 DEF Answer
<1>5. CASE ProviderFails(r)
  BY <1>5 DEF ProviderFails
<1>6. CASE Prepare(r)
  <2>1. kind[r] \in Inferences \cup {"task"} => loaded[r] >= 1
    BY <1>6, CostsAreNumbers DEF Prepare
  <2> QED BY <1>6, <2>1 DEF Prepare
<1>7. CASE Settle(r)
  BY <1>7 DEF Settle
<1>8. CASE Disconnect(r)
  BY <1>8 DEF Disconnect
<1>9. CASE SettleFails(r)
  BY <1>9 DEF SettleFails
<1> QED BY <1>1, <1>2, <1>3, <1>4, <1>5, <1>6, <1>7, <1>8, <1>9 DEF Step

LEMMA FundsNext ==
  ASSUME FundsInv, [Next]_vars
  PROVE  FundsInv'
<1>1. TypeOK'
  BY TypeNext DEF FundsInv
<1>2. CASE \E r \in Requests : Step(r)
  BY <1>1, <1>2, FundsStep DEF FundsInv
<1>3. CASE Crash
  BY <1>1, <1>3 DEF Crash, FundsInv, TypeOK, CheckedFunds
<1>4. CASE UNCHANGED vars
  BY <1>1, <1>4 DEF vars, FundsInv, CheckedFunds
<1> QED BY <1>2, <1>3, <1>4, NextIsStep

\* The step of DebtIsBounded, for one request.
Bounded(r) ==
  (pc[r] = "ready" /\ pc'[r] = "charged" /\ kind[r] \in Inferences \cup {"task"})
    => (balance' > -cost[r] \/ balance' >= balance)

LEMMA OnlySettleCharges ==
  ASSUME TypeOK, NEW r \in Requests, [Next]_vars, pc[r] = "ready", pc'[r] = "charged"
  PROVE  Settle(r)
<1>1. ASSUME NEW q \in Requests, Step(q) PROVE Settle(r)
  <2> USE DEF TypeOK
  <2>1. CASE Settle(q)
    BY <2>1 DEF Settle
  <2>2. CASE Load(q)
    BY <2>2 DEF Load
  <2>3. CASE Reject(q) \/ ProviderFails(q)
    BY <2>3 DEF Reject, ProviderFails
  <2>4. CASE Accept(q) \/ Answer(q) \/ Prepare(q)
    BY <2>4 DEF Accept, Answer, Prepare
  <2>5. CASE Disconnect(q) \/ SettleFails(q)
    BY <2>5 DEF Disconnect, SettleFails
  <2> QED BY <1>1, <2>1, <2>2, <2>3, <2>4, <2>5 DEF Step
<1>2. ~Crash
  BY DEF Crash, TypeOK, InUse
<1>3. ~UNCHANGED vars
  BY DEF vars
<1> QED BY <1>1, <1>2, <1>3, NextIsStep

LEMMA BoundedNext ==
  ASSUME FundsInv, [Next]_vars, NEW r \in Requests
  PROVE  Bounded(r)
<1> SUFFICES ASSUME pc[r] = "ready", pc'[r] = "charged", kind[r] \in Inferences \cup {"task"}
             PROVE  balance' > -cost[r] \/ balance' >= balance
  BY DEF Bounded
<1>1. Settle(r)
  BY OnlySettleCharges DEF FundsInv
<1>2. loaded[r] >= 1
  BY DEF FundsInv, CheckedFunds
<1> QED BY <1>1, <1>2 DEF Settle, FundsInv, TypeOK

\* Whatever overlaps, the charge of a request that passed the check of the balance
\* leaves a debt smaller than its own cost.
THEOREM DebtIsBoundedAlways == Spec => DebtIsBounded
<1>1. Init => FundsInv
  BY TypeInit DEF Init, FundsInv, CheckedFunds
<1>2. FundsInv /\ [Next]_vars => FundsInv'
  BY FundsNext
<1>3. FundsInv /\ [Next]_vars => [\A r \in Requests : Bounded(r)]_vars
  BY BoundedNext
<1>4. (\A r \in Requests : Bounded(r))
        <=> \A r \in Requests :
              (pc[r] = "ready" /\ pc'[r] = "charged" /\ kind[r] \in Inferences \cup {"task"})
                => (balance' > -cost[r] \/ balance' >= balance)
  BY DEF Bounded
<1> QED BY <1>1, <1>2, <1>3, <1>4, PTL DEF Spec, DebtIsBounded

-----------------------------------------------------------------------------
(* Until two sessions overlap, the copy in use is the balance. *)

CopyIsCurrent ==
  ~overlapped =>
    /\ \A r \in Requests : pc[r] \in InUse => loaded[r] = balance
    /\ \A r, q \in Requests : pc[r] \in InUse /\ pc[q] \in InUse => r = q

SerialInv == FundsInv /\ BalanceIsLedger /\ CopyIsCurrent

LEMMA SerialStep ==
  ASSUME SerialInv, NEW r \in Requests, Step(r)
  PROVE  BalanceIsLedger' /\ CopyIsCurrent'
<1> USE DEF SerialInv, FundsInv, TypeOK, BalanceIsLedger, CopyIsCurrent, InUse
<1>1. CASE Load(r)
  BY <1>1 DEF Load, books, OthersInUse
<1>2. CASE Reject(r)
  BY <1>2 DEF Reject, books, history
<1>3. CASE Accept(r)
  BY <1>3 DEF Accept, books, history
<1>4. CASE Answer(r)
  BY <1>4 DEF Answer, books, history
<1>5. CASE ProviderFails(r)
  BY <1>5 DEF ProviderFails, books, history
<1>6. CASE Prepare(r)
  BY <1>6 DEF Prepare, books, history
<1>7. CASE Settle(r)
  BY <1>7 DEF Settle
<1>8. CASE Disconnect(r)
  BY <1>8 DEF Disconnect, books, history
<1>9. CASE SettleFails(r)
  BY <1>9 DEF SettleFails, books, history
<1> QED BY <1>1, <1>2, <1>3, <1>4, <1>5, <1>6, <1>7, <1>8, <1>9 DEF Step

LEMMA SerialNext == SerialInv /\ [Next]_vars => SerialInv'
<1> SUFFICES ASSUME SerialInv, [Next]_vars PROVE SerialInv'
  OBVIOUS
<1>1. FundsInv'
  BY FundsNext DEF SerialInv
<1>2. CASE \E r \in Requests : Step(r)
  BY <1>1, <1>2, SerialStep DEF SerialInv
<1>3. CASE Crash
  BY <1>1, <1>3 DEF Crash, SerialInv, FundsInv, TypeOK, BalanceIsLedger, CopyIsCurrent, InUse,
                    books, history
<1>4. CASE UNCHANGED vars
  BY <1>1, <1>4 DEF vars, books, history, SerialInv, BalanceIsLedger, CopyIsCurrent
<1> QED BY <1>2, <1>3, <1>4, NextIsStep

LEMMA SerialInit == Init => SerialInv
  BY TypeInit DEF Init, SerialInv, FundsInv, CheckedFunds, BalanceIsLedger, CopyIsCurrent, InUse

\* Until two sessions overlap, the balance is the one of the ledger.
THEOREM SerialBooksAgree == Spec => []BalanceIsLedger
<1>1. SerialInv => BalanceIsLedger
  BY DEF SerialInv
<1> QED BY SerialInit, SerialNext, <1>1, PTL DEF Spec

LEMMA OnlyAcceptAccepts ==
  ASSUME TypeOK, NEW r \in Requests, [Next]_vars, pc[r] = "loaded", pc'[r] = "accepted"
  PROVE  Accept(r)
<1>1. ASSUME NEW q \in Requests, Step(q) PROVE Accept(r)
  <2> USE DEF TypeOK
  <2>1. CASE Accept(q)
    BY <2>1 DEF Accept
  <2>2. CASE Load(q)
    BY <2>2 DEF Load
  <2>3. CASE Reject(q) \/ ProviderFails(q)
    BY <2>3 DEF Reject, ProviderFails
  <2>4. CASE Settle(q) \/ Answer(q) \/ Prepare(q)
    BY <2>4 DEF Settle, Answer, Prepare
  <2>5. CASE Disconnect(q) \/ SettleFails(q)
    BY <2>5 DEF Disconnect, SettleFails
  <2> QED BY <1>1, <2>1, <2>2, <2>3, <2>4, <2>5 DEF Step
<1>2. ~Crash
  BY DEF Crash, TypeOK, InUse
<1>3. ~UNCHANGED vars
  BY DEF vars
<1> QED BY <1>1, <1>2, <1>3, NextIsStep

\* Until two sessions overlap, the account has credits whenever one is let in.
THEOREM SerialFundsAtAccept == Spec => FundsAtAccept
<1>1. ASSUME SerialInv, [Next]_vars, NEW r \in Requests,
             pc[r] = "loaded", pc'[r] = "accepted", ~overlapped
      PROVE  balance > 0
  <2>1. Accept(r)
    BY <1>1, OnlyAcceptAccepts DEF SerialInv, FundsInv
  <2>2. loaded[r] = balance /\ balance \in Int
    BY <1>1 DEF SerialInv, FundsInv, TypeOK, CopyIsCurrent, InUse
  <2> QED BY <2>1, <2>2 DEF Accept
<1>2. SerialInv /\ [Next]_vars
        => [\A r \in Requests :
              (pc[r] = "loaded" /\ pc'[r] = "accepted" /\ ~overlapped) => balance > 0]_vars
  BY <1>1
<1> QED BY SerialInit, SerialNext, <1>2, PTL DEF Spec, FundsAtAccept

-----------------------------------------------------------------------------
(*****************************************************************************)
(* The platform's providers and models, for any tables of models and prices. *)
(* What a synchronisation writes is decided by what it has read, so the rows *)
(* are related to the copies of them that requests have: a row that nobody has *)
(* touched is as a synchronisation makes it, there and in every copy, and a  *)
(* copy that is overridden is of a row that is.                              *)
(*****************************************************************************)

LEMMA ListedByRow ==
  ASSUME NEW i \in ListPublicModels
  PROVE  \/ Mapped(i) # {}
         \/ \E p \in Providers : On(p) /\ Enabled(p) = {} /\ i = <<p, provider[p].default>>
<1>1. PICK p \in {q \in Providers : On(q)} :
        i \in IF Enabled(p) # {} THEN {model[p][m].id : m \in Enabled(p)}
                                 ELSE {<<p, provider[p].default>>}
  BY DEF ListPublicModels
<1>2. CASE Enabled(p) # {}
  <2>1. PICK m \in Enabled(p) : i = model[p][m].id
    BY <1>1, <1>2
  <2>2. <<p, m>> \in Mapped(i)
    BY <1>1, <2>1 DEF Mapped, Pairs, Enabled
  <2> QED BY <2>2
<1>3. CASE Enabled(p) = {}
  BY <1>1, <1>3
<1> QED BY <1>2, <1>3

LEMMA ListedAlways == ListedIsServed
<1> SUFFICES ASSUME NEW admin \in BOOLEAN,
                    NEW i \in FilterPlatformModels(ListPlatformModels, admin)
             PROVE  /\ CanAccessPlatformModel(i, admin)
                    /\ i # Hermes =>
                         /\ Resolve(i) # {}
                         /\ \A pm \in Resolve(i) :
                              On(pm[1]) /\ (pm[2] \in Enabled(pm[1]) \/ Enabled(pm[1]) = {})
  BY DEF ListedIsServed
<1>1. CanAccessPlatformModel(i, admin)
  BY DEF FilterPlatformModels, CanAccessPlatformModel
<1>2. ASSUME i # Hermes
      PROVE  /\ Resolve(i) # {}
             /\ \A pm \in Resolve(i) :
                  On(pm[1]) /\ (pm[2] \in Enabled(pm[1]) \/ Enabled(pm[1]) = {})
  <2>1. i \in ListPublicModels
    BY <1>2 DEF FilterPlatformModels, ListPlatformModels
  <2>2. CASE Mapped(i) # {}
    BY <2>2 DEF Resolve, Mapped
  <2>3. CASE Mapped(i) = {}
    <3>1. PICK p \in Providers : On(p) /\ Enabled(p) = {} /\ i = <<p, provider[p].default>>
      BY <2>1, <2>3, ListedByRow
    <3>2. Resolve(i) = {i} /\ i[1] = p
      BY <2>3, <3>1 DEF Resolve, On
    <3> QED BY <3>1, <3>2
  <2> QED BY <2>2, <2>3
<1> QED BY <1>1, <1>2

\* What an account is shown it may use, and a completion for it goes to a provider that
\* is on: the list and the look-up are made of the same rows, whatever they hold.
THEOREM ListedModelsAreServed == CatalogSpec => []ListedIsServed
  BY ListedAlways, PTL

-----------------------------------------------------------------------------
(* What requests are, and the types of what they read. *)

Modes == {"all", "allowlist"}
Finished == Request("done", Every, Every, Nothing)
ReadRows == [Models -> {None, Lost} \cup ModelRows]
ReadPrices == [Models -> Prices]
Copies == [record : {None} \cup ProviderRows, models : {<< >>, <<None>>} \cup ReadRows,
           prices : {<< >>} \cup ReadPrices, mode : {Every} \cup Modes]
Agendas == {<< >>, <<"edit">>, <<"prices">>, <<"models">>, <<"models", "prices">>, <<"prices", "models">>}
OneEdit == Blind \cup {"putAccess"}
WithoutRecord == {"putAccess", "patchPrice"}

\* What a request gives a value is of the type of its column.
LEMMA RequestKinds ==
  ASSUME NEW r \in AdminRequests
  PROVE  /\ r.does \notin {"none", "done"}
         /\ r.does # "putAccess" => r.p \in Providers
         /\ r.does \in {"patchModel", "createModel", "deleteModel", "patchPrice"} => r.m \in Models
         /\ r.does = "updateProvider" => r.gives \in [on : BOOLEAN] \cup [default : Models]
         /\ r.does = "patchModel" => r.gives \in [enabled : BOOLEAN] \cup [id : Chosen]
         /\ r.does = "createModel" => r.gives \in ModelRows /\ r.gives.overridden = TRUE
         /\ r.does = "putAccess" => r.gives.mode \in Modes
<1>1. CASE r \in CreateProvider
  <2>1. PICK p \in Providers, d \in Models :
          r = Request("createProvider", p, Every, ProviderRow(d, TRUE))
    BY <1>1 DEF CreateProvider, Request, ProviderRow
  <2> QED BY <2>1 DEF Request
<1>2. CASE r \in UpdateProvider
  BY <1>2 DEF UpdateProvider, Request
<1>3. CASE r \in DeleteProvider \/ r \in RediscoverProviderModels \/ r \in RefreshProviderPricing
  BY <1>3 DEF DeleteProvider, RediscoverProviderModels, RefreshProviderPricing, Request
<1>4. CASE r \in PatchProviderModel
  BY <1>4 DEF PatchProviderModel, Request, Pairs
<1>5. CASE r \in CreateProviderModel
  <2>1. PICK pm \in Pairs, i \in Chosen :
          r = Request("createModel", pm[1], pm[2], ModelRow(i, TRUE, TRUE))
    BY <1>5 DEF CreateProviderModel, Request, ModelRow
  <2>2. ModelRow(i, TRUE, TRUE) \in ModelRows /\ ModelRow(i, TRUE, TRUE).overridden = TRUE
    BY DEF ModelRow, ModelRows, Ids
  <2>3. /\ r.does = "createModel" /\ r.p = pm[1] /\ r.m = pm[2]
        /\ r.gives = ModelRow(i, TRUE, TRUE)
    BY <2>1 DEF Request
  <2>4. pm[1] \in Providers /\ pm[2] \in Models
    BY DEF Pairs
  <2> QED BY <2>2, <2>3, <2>4
<1>6. CASE r \in DeleteProviderModel
  BY <1>6 DEF DeleteProviderModel, Request, Pairs
<1>7. CASE r \in PatchProviderModelPricing
  BY <1>7 DEF PatchProviderModelPricing, Request, Pairs
<1>8. CASE r \in UpdateAccountModelAccess
  BY <1>8 DEF UpdateAccountModelAccess, Request, Modes
<1> QED BY <1>1, <1>2, <1>3, <1>4, <1>5, <1>6, <1>7, <1>8 DEF AdminRequests, OfProvider

LEMMA CreatesRow ==
  ASSUME NEW r \in CreateProvider
  PROVE  r \in AdminRequests /\ r.does = "createProvider" /\ r.gives \in ProviderRows
<1>1. PICK p \in Providers, d \in Models :
        r = Request("createProvider", p, Every, ProviderRow(d, TRUE))
  BY DEF CreateProvider, Request, ProviderRow
<1>2. ProviderRow(d, TRUE) \in ProviderRows
  BY DEF ProviderRow, ProviderRows
<1>3. r.does = "createProvider" /\ r.gives = ProviderRow(d, TRUE)
  BY <1>1 DEF Request
<1> QED BY <1>2, <1>3 DEF AdminRequests

LEMMA PartsType ==
  ASSUME NEW r \in AdminRequests
  PROVE  /\ Parts(r) \in Agendas
         /\ r.does \in OneEdit => Parts(r) = <<"edit">>
  BY DEF Parts, Agendas, OneEdit, Blind

\* The tails of the agendas.
LEMMA AgendaTail ==
  ASSUME NEW t \in Agendas, t # << >>
  PROVE  /\ Tail(t) \in Agendas
         /\ Len(t) # 1 => Tail(t) # << >>
         /\ t = <<"edit">> => Len(t) = 1
         /\ t # <<"edit">> => Head(t) # "edit"
         /\ t = <<"edit">> => Head(t) = "edit"
<1>1. CASE t = <<"edit">>
  BY <1>1 DEF Agendas
<1>2. CASE t = <<"prices">>
  BY <1>2 DEF Agendas
<1>3. CASE t = <<"models">>
  BY <1>3 DEF Agendas
<1>4. CASE t = <<"models", "prices">>
  BY <1>4 DEF Agendas
<1>5. CASE t = <<"prices", "models">>
  BY <1>5 DEF Agendas
<1> QED BY <1>1, <1>2, <1>3, <1>4, <1>5 DEF Agendas

LEMMA Tags ==
  /\ None.at = "none" /\ Gone.at = "gone" /\ Lost.at = "lost"
  /\ None # Gone /\ None # Lost
  /\ \A r \in ModelRows : r.at = "row" /\ r # None /\ r # Lost
  /\ \A r \in ProviderRows : r.at = "row" /\ r # None /\ r # Gone
  BY DEF None, Gone, Lost, ModelRows, ProviderRows

LEMMA WrittenModelRow ==
  ASSUME NEW now \in {None} \cup ModelRows, NEW read \in {None} \cup ModelRows,
         (now = None) <=> (read = None), NEW to \in ModelRows
  PROVE  /\ WrittenRow(now, read, to) \in ModelRows
         /\ now = None => WrittenRow(now, read, to) = to
         /\ now # None => /\ WrittenRow(now, read, to).id = Written(now.id, read.id, to.id)
                          /\ WrittenRow(now, read, to).enabled = Written(now.enabled, read.enabled, to.enabled)
                          /\ WrittenRow(now, read, to).overridden = Written(now.overridden, read.overridden, to.overridden)
  BY Tags DEF WrittenRow, Written, ModelRows

LEMMA WrittenProviderRow ==
  ASSUME NEW now \in {None} \cup ProviderRows, NEW read \in ProviderRows, NEW to \in ProviderRows
  PROVE  WrittenRow(now, read, to) \in ProviderRows
  BY Tags DEF WrittenRow, Written, ProviderRows

LEMMA Fields ==
  ASSUME NEW r \in ModelRows, NEW s \in ModelRows, r.id = s.id, r.enabled = s.enabled, r.overridden = s.overridden
  PROVE r = s
  BY DEF ModelRows

\* A row as a synchronisation makes it.
Supported(p, m) == <<p, m>> \notin Unsupported
Clean(p, m) == ModelRow(<<p, m>>, Supported(p, m), FALSE)

LEMMA CleanRow ==
  ASSUME NEW p \in Providers, NEW m \in Models
  PROVE  /\ Clean(p, m) \in ModelRows /\ Clean(p, m).id = <<p, m>>
         /\ Clean(p, m).enabled = Supported(p, m) /\ Clean(p, m).overridden = FALSE
  BY DEF Clean, Supported, ModelRow, ModelRows, Ids, Pairs

LEMMA SyncedType ==
  ASSUME NEW p \in Providers, NEW m \in Models, NEW read \in {None} \cup ModelRows
  PROVE  /\ Synced(p, m, read) \in ModelRows
         /\ read = None => Synced(p, m, read) = Clean(p, m)
         /\ read # None =>
              /\ Synced(p, m, read).enabled = (Supported(p, m) /\ (read.enabled \/ ~read.overridden))
              /\ Synced(p, m, read).id = IF read.overridden THEN read.id ELSE <<p, m>>
              /\ Synced(p, m, read).overridden = read.overridden
<1>1. CASE read = None
  <2>1. Synced(p, m, read) = Clean(p, m)
    BY <1>1 DEF Synced, Clean, Supported
  <2> QED BY <1>1, <2>1, CleanRow
<1>2. CASE read # None
  BY <1>2 DEF Synced, Supported, ModelRows, Ids, Pairs
<1> QED BY <1>1, <1>2

LEMMA GivenModel ==
  ASSUME NEW read \in ModelRows, NEW gives \in [enabled : BOOLEAN] \cup [id : Chosen]
  PROVE LET to == [Given(read, gives) EXCEPT !.overridden = TRUE] IN to \in ModelRows /\ to.overridden = TRUE
  BY DEF Given, ModelRows, Ids

LEMMA GivenProvider ==
  ASSUME NEW read \in ProviderRows, NEW gives \in [on : BOOLEAN] \cup [default : Models]
  PROVE Given(read, gives) \in ProviderRows
  BY DEF Given, ProviderRows

-----------------------------------------------------------------------------
(* The types of the variables, and of what each request has read. *)

\* The rows that the request has read are of the provider that it is on.
HasRead(j) == op[j].does # "putAccess" /\ DOMAIN copy[j].models # {}

CatalogTypeOK ==
  /\ provider \in [Providers -> {None, Gone} \cup ProviderRows]
  /\ model \in [Providers -> [Models -> {None} \cup ModelRows]]
  /\ price \in [Providers -> [Models -> Prices]]
  /\ mode \in Modes
  /\ serving \in BOOLEAN /\ reused \in BOOLEAN
  /\ todo \in [Jobs -> Agendas]
  /\ op \in [Jobs -> AdminRequests \cup {NoRequest, Finished}]
  /\ copy \in [Jobs -> Copies]

\* Only a request under way has parts left, and has read rows and prices, together; it
\* knows the record of its provider.
InProgress(j) ==
  /\ todo[j] # << >> => op[j] \in AdminRequests
  /\ op[j].does \in OneEdit => todo[j] \in {<< >>, <<"edit">>}
  /\ op[j].does = "putAccess" => copy[j].models \in {<< >>, <<None>>}
  /\ HasRead(j) => /\ todo[j] # << >> /\ op[j].does \notin OneEdit
                   /\ copy[j].models \in ReadRows /\ copy[j].prices \in ReadPrices
  /\ todo[j] # << >> /\ op[j].does \notin WithoutRecord => copy[j].record \in ProviderRows

\* Before the startup the tables are an older version's, and there are no requests.
Asleep ==
  ~serving =>
    /\ \E d \in Older : provider = d.provider /\ model = d.model /\ price = d.price
    /\ \A j \in Jobs : op[j] = NoRequest /\ todo[j] = << >> /\ copy[j] = Unread

Shape == CatalogTypeOK /\ (\A j \in Jobs : InProgress(j)) /\ Asleep

LEMMA UnreadType == Unread \in Copies /\ Unread.models = << >>
  BY DEF Unread, Copies

LEMMA RecordType ==
  ASSUME NEW row \in {None} \cup ProviderRows
  PROVE  Record(row) \in Copies /\ Record(row).record = row /\ Record(row).models = << >>
  BY DEF Record, Unread, Copies

LEMMA ShapeInit == CatalogInit => Shape
<1> SUFFICES ASSUME CatalogInit PROVE Shape
  OBVIOUS
<1>1. PICK d \in Older : provider = d.provider /\ model = d.model /\ price = d.price
  BY DEF CatalogInit
<1>2. /\ provider \in [Providers -> {None, Gone} \cup ProviderRows]
      /\ model \in [Providers -> [Models -> {None} \cup ModelRows]]
      /\ price \in [Providers -> [Models -> Prices]]
  BY <1>1, OlderAssumption
<1>3. CatalogTypeOK
  BY <1>2, UnreadType DEF CatalogInit, CatalogTypeOK, Modes, Agendas
<1>4. ASSUME NEW j \in Jobs PROVE InProgress(j)
  BY UnreadType DEF CatalogInit, InProgress, HasRead, NoRequest, Request, OneEdit, Blind
<1>5. Asleep
  BY <1>1 DEF CatalogInit, Asleep
<1> QED BY <1>3, <1>4, <1>5 DEF Shape

-----------------------------------------------------------------------------
(* How requests move: nobody's step changes what another has read, except  *)
(* that it may lose a row.                                                 *)

KeepsCopies ==
  \A k \in Jobs : HasRead(k)' =>
    /\ HasRead(k) /\ op'[k] = op[k] /\ copy'[k].prices = copy[k].prices
    /\ \A m \in Models : copy'[k].models[m] \in {copy[k].models[m], Lost}

JobTypes ==
  /\ todo \in [Jobs -> Agendas]
  /\ op \in [Jobs -> AdminRequests \cup {NoRequest, Finished}]
  /\ copy \in [Jobs -> Copies]
  /\ \A k \in Jobs : InProgress(k)

Moved == JobTypes' /\ KeepsCopies /\ serving' = serving

LEMMA Unmoved ==
  ASSUME NEW k \in Jobs, InProgress(k),
         op'[k] = op[k], todo'[k] = todo[k], copy'[k] = copy[k]
  PROVE  InProgress(k)' /\ (HasRead(k)' => HasRead(k))
  BY DEF InProgress, HasRead

LEMMA BeginsMoves ==
  ASSUME Shape, NEW j \in Jobs, NEW r \in AdminRequests, NEW read \in Copies,
         read.models = << >>, r.does \notin WithoutRecord => read.record \in ProviderRows,
         Begins(j, r, read)
  PROVE  Moved /\ reused' = reused
<1> USE DEF Begins
<1>1. /\ todo' \in [Jobs -> Agendas] /\ copy' \in [Jobs -> Copies]
      /\ op' \in [Jobs -> AdminRequests \cup {NoRequest, Finished}]
  BY PartsType DEF Shape, CatalogTypeOK
<1>2. op'[j] = r /\ todo'[j] = Parts(r) /\ copy'[j] = read
  BY DEF Shape, CatalogTypeOK
<1>3. ~HasRead(j)'
  BY <1>2 DEF HasRead
<1>4. InProgress(j)'
  BY <1>2, <1>3, PartsType DEF InProgress
<1>5. ASSUME NEW k \in Jobs, k # j
      PROVE  op'[k] = op[k] /\ todo'[k] = todo[k] /\ copy'[k] = copy[k]
  BY <1>5 DEF Shape, CatalogTypeOK
<1>6. \A k \in Jobs : InProgress(k)'
  BY <1>4, <1>5, Unmoved DEF Shape
<1>7. KeepsCopies
  BY <1>3, <1>5, Unmoved DEF Shape, KeepsCopies
<1> QED BY <1>1, <1>6, <1>7 DEF Moved, JobTypes

\* The request that commits has no rows any more.
LEMMA Advanced ==
  ASSUME Shape, NEW j \in Jobs, NEW ok \in BOOLEAN, Left(j), Advances(j, ok),
         copy'[j] = Continues(j, ok)
  PROVE  /\ todo' \in [Jobs -> Agendas] /\ op' \in [Jobs -> AdminRequests \cup {NoRequest, Finished}]
         /\ copy'[j] \in Copies /\ ~HasRead(j)' /\ InProgress(j)'
         /\ \A k \in Jobs \ {j} : op'[k] = op[k] /\ todo'[k] = todo[k]
<1> USE DEF Advances
<1>1. todo[j] \in Agendas /\ todo[j] # << >> /\ op[j] \in AdminRequests /\ copy[j] \in Copies
  BY DEF Shape, CatalogTypeOK, InProgress, Left
<1>2. /\ todo' \in [Jobs -> Agendas] /\ op' \in [Jobs -> AdminRequests \cup {NoRequest, Finished}]
      /\ todo'[j] = IF Over(j, ok) THEN << >> ELSE Tail(todo[j])
      /\ op'[j] = IF Over(j, ok) THEN Finished ELSE op[j]
      /\ \A k \in Jobs \ {j} : op'[k] = op[k] /\ todo'[k] = todo[k]
  <2>1. << >> \in Agendas /\ Tail(todo[j]) \in Agendas
    BY <1>1, AgendaTail DEF Agendas
  <2>2. todo' \in [Jobs -> Agendas] /\ op' \in [Jobs -> AdminRequests \cup {NoRequest, Finished}]
    BY <2>1 DEF Shape, CatalogTypeOK, Finished
  <2> QED BY <2>2 DEF Shape, CatalogTypeOK, Finished
<1>3. copy[j].record \in {None} \cup ProviderRows
  BY <1>1 DEF Copies
<1>4. copy'[j] \in Copies /\ copy'[j].models = << >>
  BY <1>3, UnreadType, RecordType DEF Continues
<1>5. ~HasRead(j)'
  BY <1>4 DEF HasRead
<1>6. CASE Over(j, ok)
  <2>1. todo'[j] = << >>
    BY <1>2, <1>6
  <2> QED BY <1>2, <1>4, <1>5, <2>1 DEF InProgress
<1>7. CASE ~Over(j, ok)
  <2>1. todo'[j] = Tail(todo[j]) /\ op'[j] = op[j] /\ copy'[j].record = copy[j].record
    BY <1>2, <1>3, <1>7, RecordType DEF Continues
  <2>2. op[j].does \notin OneEdit
    <3>1. todo[j] # <<"edit">>
      BY <1>1, <1>7, AgendaTail DEF Over
    <3> QED BY <1>1, <3>1 DEF Shape, InProgress
  <2>3. op[j].does \notin WithoutRecord => copy[j].record \in ProviderRows
    BY <1>1 DEF Shape, InProgress
  <2>4. InProgress(j)'
    BY <1>1, <1>5, <2>1, <2>2, <2>3 DEF InProgress, OneEdit
  <2> QED BY <1>2, <1>4, <1>5, <2>4
<1> QED BY <1>6, <1>7

LEMMA GoesMoves ==
  ASSUME Shape, NEW j \in Jobs, NEW ok \in BOOLEAN, Left(j), Goes(j, ok)
  PROVE  Moved /\ reused' = reused
<1> USE DEF Goes
<1>1. copy'[j] = Continues(j, ok) /\ \A k \in Jobs \ {j} : copy'[k] = copy[k]
  BY DEF Shape, CatalogTypeOK
<1>2. /\ todo' \in [Jobs -> Agendas] /\ op' \in [Jobs -> AdminRequests \cup {NoRequest, Finished}]
      /\ copy'[j] \in Copies /\ ~HasRead(j)' /\ InProgress(j)'
      /\ \A k \in Jobs \ {j} : op'[k] = op[k] /\ todo'[k] = todo[k]
  BY <1>1, Advanced
<1>3. copy' \in [Jobs -> Copies]
  BY <1>1, <1>2 DEF Shape, CatalogTypeOK
<1>4. \A k \in Jobs : InProgress(k)' /\ (HasRead(k)' => HasRead(k) /\ k # j)
  BY <1>1, <1>2, Unmoved DEF Shape
<1>5. KeepsCopies
  BY <1>1, <1>2, <1>4 DEF KeepsCopies
<1> QED BY <1>2, <1>3, <1>4, <1>5 DEF Moved, JobTypes, Advances

\* Nobody keeps a row that has been made again, unless it has got the same id.
LEMMA GoesMakingMoves ==
  ASSUME Shape, NEW j \in Jobs, NEW ok \in BOOLEAN, Left(j), NEW p, NEW ms,
         GoesMaking(j, ok, p, ms)
  PROVE  /\ Moved
         /\ reused' \in BOOLEAN /\ (reused => reused')
         /\ ~reused' => \A k \in Jobs, m \in ms : HasRead(k)' /\ op'[k].p = p =>
              (m \in Models => copy'[k].models[m].at # "row")
<1>1. PICK again \in BOOLEAN :
       /\ reused' = (reused \/ (again /\ Readers(j, p, ms) # {}))
       /\ copy' = [k \in Jobs |->
            IF k = j THEN Continues(j, ok)
            ELSE IF k \in Readers(j, p, ms) /\ ~again
                 THEN [copy[k] EXCEPT !.models = Replace(@, ms)] ELSE copy[k]]
  BY DEF GoesMaking
<1>2. Advances(j, ok) /\ copy'[j] = Continues(j, ok)
  BY <1>1 DEF GoesMaking
<1>3. /\ todo' \in [Jobs -> Agendas] /\ op' \in [Jobs -> AdminRequests \cup {NoRequest, Finished}]
      /\ copy'[j] \in Copies /\ ~HasRead(j)' /\ InProgress(j)'
      /\ \A k \in Jobs \ {j} : op'[k] = op[k] /\ todo'[k] = todo[k]
  BY <1>2, Advanced
<1>4. ASSUME NEW k \in Readers(j, p, ms)
      PROVE  k \in Jobs \ {j} /\ HasRead(k) /\ op[k].p = p
  <2>1. k \in Jobs \ {j} /\ op[k].p = p /\ copy[k] \in Copies
    BY DEF Readers, Shape, CatalogTypeOK
  <2>2. PICK m \in ms \cap DOMAIN copy[k].models : copy[k].models[m].at = "row"
    BY DEF Readers
  <2>3. op[k].does # "putAccess"
    <3> SUFFICES ASSUME op[k].does = "putAccess" PROVE FALSE
      OBVIOUS
    <3>1. copy[k].models = <<None>>
      BY <2>1, <2>2 DEF Shape, InProgress
    <3>2. copy[k].models[m] = None
      BY <2>2, <3>1
    <3> QED BY <2>2, <3>2, Tags
  <2> QED BY <2>1, <2>2, <2>3 DEF HasRead
<1>5. ASSUME NEW k \in Jobs \ {j}, copy'[k] # copy[k]
      PROVE  /\ HasRead(k) /\ ~again /\ k \in Readers(j, p, ms)
             /\ copy[k].models \in ReadRows
             /\ copy'[k] = [copy[k] EXCEPT !.models = Replace(@, ms)]
             /\ Replace(copy[k].models, ms) \in ReadRows
             /\ copy'[k] \in Copies
  <2>1. ~again /\ k \in Readers(j, p, ms) /\ copy'[k] = [copy[k] EXCEPT !.models = Replace(@, ms)]
    BY <1>1, <1>5
  <2>2. HasRead(k)
    BY <1>4, <2>1
  <2>3. copy[k].models \in ReadRows
    BY <2>2 DEF Shape, InProgress
  <2>4. Replace(copy[k].models, ms) \in ReadRows
    BY <2>3 DEF Replace, ReadRows
  <2>5. copy[k] \in Copies
    BY DEF Shape, CatalogTypeOK
  <2>6. copy'[k] \in Copies
    BY <2>1, <2>4, <2>5 DEF Copies
  <2> QED BY <2>1, <2>2, <2>3, <2>4, <2>6
<1>6. copy' \in [Jobs -> Copies]
  <2>1. \A k \in Jobs : copy'[k] \in Copies
    BY <1>3, <1>5 DEF Shape, CatalogTypeOK
  <2> QED BY <1>1, <2>1
<1>7. ASSUME NEW k \in Jobs \ {j}
      PROVE  /\ InProgress(k)' /\ (HasRead(k)' => HasRead(k))
             /\ HasRead(k)' => /\ copy'[k].prices = copy[k].prices
                              /\ \A m \in Models : copy'[k].models[m] \in {copy[k].models[m], Lost}
  <2>1. CASE copy'[k] = copy[k]
    <3>1. InProgress(k)' /\ (HasRead(k)' => HasRead(k))
      BY <1>3, <2>1, Unmoved DEF Shape
    <3> QED BY <2>1, <3>1
  <2>2. CASE copy'[k] # copy[k]
    <3>1. /\ copy'[k].models = Replace(copy[k].models, ms) /\ copy'[k].prices = copy[k].prices
          /\ copy'[k].record = copy[k].record
      <4>1. copy[k] \in Copies
        BY DEF Shape, CatalogTypeOK
      <4> QED BY <1>5, <2>2, <4>1 DEF Copies
    <3>2. InProgress(k)'
      BY <1>3, <1>5, <2>2, <3>1 DEF Shape, InProgress, HasRead
    <3>3. \A m \in Models : copy'[k].models[m] \in {copy[k].models[m], Lost}
      BY <1>5, <2>2, <3>1 DEF Replace, ReadRows
    <3> QED BY <1>5, <2>2, <3>1, <3>2, <3>3
  <2> QED BY <2>1, <2>2
<1>8. \A k \in Jobs : InProgress(k)'
  BY <1>3, <1>7
<1>9. KeepsCopies
  BY <1>3, <1>7 DEF KeepsCopies
<1>10. ASSUME ~reused', NEW k \in Jobs, NEW m \in ms, HasRead(k)', op'[k].p = p, m \in Models
       PROVE  copy'[k].models[m].at # "row"
  <2> SUFFICES ASSUME copy'[k].models[m].at = "row" PROVE FALSE
    OBVIOUS
  <2>1. k # j
    BY <1>3, <1>10
  <2>2. HasRead(k) /\ op[k].p = p /\ copy[k].models \in ReadRows
    BY <1>3, <1>7, <1>10, <2>1 DEF Shape, InProgress
  <2>3. copy'[k].models[m] = copy[k].models[m]
    BY <1>7, <1>10, <2>1, Tags
  <2>4. k \in Readers(j, p, ms)
    BY <1>10, <2>1, <2>2, <2>3 DEF Readers, ReadRows
  <2>5. ~again
    BY <1>1, <1>10, <2>4
  <2>6. copy'[k].models = Replace(copy[k].models, ms)
    <3>1. copy[k] \in Copies
      BY DEF Shape, CatalogTypeOK
    <3> QED BY <1>1, <2>1, <2>4, <2>5, <3>1 DEF Copies
  <2>7. copy[k].models[m] # None
    BY <2>3, Tags
  <2>8. copy'[k].models[m] = Lost
    BY <1>10, <2>2, <2>6, <2>7 DEF Replace, ReadRows
  <2> QED BY <2>8, Tags
<1>11. reused' \in BOOLEAN /\ (reused => reused')
  BY <1>1 DEF Shape, CatalogTypeOK
<1>12. serving' = serving
  BY <1>2 DEF Advances
<1> QED BY <1>3, <1>6, <1>8, <1>9, <1>10, <1>11, <1>12 DEF Moved, JobTypes

-----------------------------------------------------------------------------
(* What a synchronisation would not change: a row that it has made, and a  *)
(* row read as it would make it.                                           *)

\* The models that a synchronisation may work on.
Synchronised(p, m) == Known[p] = {} \/ m \in Known[p]

\* A row that nobody has touched is as a synchronisation makes it.
RowsTidy ==
  serving /\ ~reused =>
    \A p \in Providers, m \in Models :
      Synchronised(p, m) /\ model[p][m] # None /\ ~model[p][m].overridden =>
        model[p][m] = Clean(p, m)

\* So it was when a request read it.
CopiesTidy ==
  ~reused =>
    \A j \in Jobs, m \in Models :
      HasRead(j) /\ Synchronised(op[j].p, m) /\ copy[j].models[m].at = "row"
          /\ ~copy[j].models[m].overridden =>
        copy[j].models[m] = Clean(op[j].p, m)

\* A row that was read overridden, and is there, still is.
OverridesLast ==
  ~reused =>
    \A j \in Jobs, m \in Models :
      HasRead(j) /\ copy[j].models[m].at = "row" /\ copy[j].models[m].overridden
          /\ model[op[j].p][m] # None =>
        model[op[j].p][m].overridden

\* No old price that a snapshot has another for outlives the startup, or is read.
PricesTidy ==
  /\ serving => \A p \in Providers, m \in Models : <<p, m>> \in Snapshots => price[p][m] # "old"
  /\ \A j \in Jobs, m \in Models :
       HasRead(j) /\ <<op[j].p, m>> \in Snapshots => copy[j].prices[m] # "old"

CatalogInv == Shape /\ RowsTidy /\ CopiesTidy /\ OverridesLast /\ PricesTidy

\* A row that is synchronised with one that was read, if that is tidy.
LEMMA SyncedRow ==
  ASSUME NEW p \in Providers, NEW m \in Models, NEW now \in {None} \cup ModelRows,
         NEW read \in {None} \cup ModelRows, (now = None) <=> (read = None)
  PROVE  LET new == WrittenRow(now, read, Synced(p, m, read))
         IN /\ new \in ModelRows
            /\ now = None => new = Clean(p, m)
            /\ now # None => new.overridden = now.overridden
            /\ now # None /\ now = Clean(p, m) /\ (~read.overridden => read = Clean(p, m)) =>
                 new = Clean(p, m)
            /\ now # None /\ (~read.overridden => read = Clean(p, m)) =>
                 new \in {now, [now EXCEPT !.enabled = Supported(p, m) /\ @]}
<1> DEFINE to == Synced(p, m, read)
           new == WrittenRow(now, read, to)
<1>1. /\ to \in ModelRows
      /\ read = None => to = Clean(p, m)
      /\ read # None =>
           /\ to.enabled = (Supported(p, m) /\ (read.enabled \/ ~read.overridden))
           /\ to.id = IF read.overridden THEN read.id ELSE <<p, m>>
           /\ to.overridden = read.overridden
  BY SyncedType
<1> HIDE DEF to
<1>2. /\ new \in ModelRows
      /\ now = None => new = to
      /\ now # None => /\ new.id = Written(now.id, read.id, to.id)
                       /\ new.enabled = Written(now.enabled, read.enabled, to.enabled)
                       /\ new.overridden = Written(now.overridden, read.overridden, to.overridden)
  BY <1>1, WrittenModelRow
<1> HIDE DEF new
<1>3. now # None => now \in ModelRows /\ read \in ModelRows
  OBVIOUS
<1>4. now = None => new = Clean(p, m)
  BY <1>1, <1>2
<1>5. now # None => new.overridden = now.overridden
  BY <1>1, <1>2 DEF Written
<1>6. ASSUME now # None, now = Clean(p, m), ~read.overridden => read = Clean(p, m)
      PROVE  new = Clean(p, m)
  <2>1. new.id = now.id
    BY <1>1, <1>2, <1>3, <1>6, CleanRow DEF Written
  <2>2. new.enabled = now.enabled
    BY <1>1, <1>2, <1>3, <1>6, CleanRow DEF Written, ModelRows
  <2> QED BY <1>2, <1>3, <1>5, <1>6, <2>1, <2>2, Fields
<1>7. ASSUME now # None, ~read.overridden => read = Clean(p, m)
      PROVE  new \in {now, [now EXCEPT !.enabled = Supported(p, m) /\ @]}
  <2>1. new.id = now.id
    BY <1>1, <1>2, <1>3, <1>7, CleanRow DEF Written
  <2>2. new.enabled \in {now.enabled, Supported(p, m) /\ now.enabled}
    BY <1>1, <1>2, <1>3, <1>7, CleanRow DEF Written, ModelRows
  <2> DEFINE less == [now EXCEPT !.enabled = Supported(p, m) /\ @]
  <2>3. /\ less \in ModelRows /\ less.id = now.id /\ less.overridden = now.overridden
        /\ less.enabled = (Supported(p, m) /\ now.enabled)
    BY <1>3, <1>7 DEF ModelRows, Supported
  <2> HIDE DEF less
  <2>4. CASE new.enabled = now.enabled
    BY <1>2, <1>3, <1>5, <1>7, <2>1, <2>4, Fields
  <2>5. CASE new.enabled = (Supported(p, m) /\ now.enabled)
    <3>1. new = less
      BY <1>2, <1>5, <1>7, <2>1, <2>3, <2>5, Fields
    <3> QED BY <3>1 DEF less
  <2> QED BY <2>2, <2>4, <2>5
<1> QED BY <1>2, <1>4, <1>5, <1>6, <1>7 DEF to, new

\* At the startup the row that was read is the one that is there.
LEMMA StartedRow ==
  ASSUME NEW p \in Providers, NEW m \in Models, NEW now \in {None} \cup ModelRows
  PROVE  LET new == WrittenRow(now, now, Synced(p, m, now))
         IN ~new.overridden => new = Clean(p, m)
<1> DEFINE to == Synced(p, m, now)
           new == WrittenRow(now, now, to)
<1> SUFFICES ASSUME ~new.overridden PROVE new = Clean(p, m)
  OBVIOUS
<1>1. /\ to \in ModelRows
      /\ now = None => to = Clean(p, m)
      /\ now # None =>
           /\ to.enabled = (Supported(p, m) /\ (now.enabled \/ ~now.overridden))
           /\ to.id = IF now.overridden THEN now.id ELSE <<p, m>>
           /\ to.overridden = now.overridden
  BY SyncedType
<1> HIDE DEF to
<1>2. /\ new \in ModelRows
      /\ now = None => new = to
      /\ now # None => /\ new.id = to.id /\ new.enabled = to.enabled
                       /\ new.overridden = to.overridden
  BY <1>1, WrittenModelRow DEF Written
<1> HIDE DEF new
<1>3. CASE now = None
  BY <1>1, <1>2, <1>3
<1>4. CASE now # None
  <2>1. /\ new.id = <<p, m>> /\ new.enabled = Supported(p, m) /\ new.overridden = FALSE
    BY <1>1, <1>2, <1>4 DEF ModelRows, Supported
  <2>2. /\ Clean(p, m) \in ModelRows /\ new.id = Clean(p, m).id
        /\ new.enabled = Clean(p, m).enabled /\ new.overridden = Clean(p, m).overridden
    BY <2>1, CleanRow
  <2> QED BY <1>2, <2>2, Fields
<1> QED BY <1>3, <1>4

-----------------------------------------------------------------------------
(* What a step of a request may do to the tables. *)

\* It overrides rows, but a synchronisation only tidies those that nobody has touched;
\* a row that it makes is not one that another request has read.
ModelsMove ==
  /\ model' \in [Providers -> [Models -> {None} \cup ModelRows]]
  /\ ~reused' => \A p \in Providers, m \in Models :
       model'[p][m] # None =>
         /\ model[p][m] # None /\ model[p][m].overridden => model'[p][m].overridden
         /\ ~model'[p][m].overridden /\ Synchronised(p, m) => model'[p][m] = Clean(p, m)
         /\ model[p][m] = None => \A k \in Jobs :
              HasRead(k)' /\ op'[k].p = p => copy'[k].models[m].at # "row"

PricesMove ==
  /\ price' \in [Providers -> [Models -> Prices]]
  /\ \A p \in Providers, m \in Models : price'[p][m] = "old" => price[p][m] = "old"

RecordsMove == provider' \in [Providers -> {None, Gone} \cup ProviderRows] /\ mode' \in Modes

TablesMove == ModelsMove /\ PricesMove /\ RecordsMove

LEMMA ModelsStay ==
  ASSUME CatalogInv, serving, reused => reused', model' = model
  PROVE  ModelsMove
<1>1. model' \in [Providers -> [Models -> {None} \cup ModelRows]]
  BY DEF CatalogInv, Shape, CatalogTypeOK
<1>2. ASSUME ~reused', NEW p \in Providers, NEW m \in Models, model'[p][m] # None,
             ~model'[p][m].overridden, Synchronised(p, m)
      PROVE  model'[p][m] = Clean(p, m)
  BY <1>2 DEF CatalogInv, RowsTidy
<1> QED BY <1>1, <1>2 DEF ModelsMove

LEMMA PricesStay ==
  ASSUME CatalogInv, price' = price
  PROVE  PricesMove
  BY DEF CatalogInv, Shape, CatalogTypeOK, PricesMove

LEMMA RecordsStay ==
  ASSUME CatalogInv, provider' = provider, mode' = mode
  PROVE  RecordsMove
  BY DEF CatalogInv, Shape, CatalogTypeOK, RecordsMove

\* Such a step keeps the invariant.
LEMMA MoveKeeps ==
  ASSUME CatalogInv, serving, Moved, TablesMove, reused' \in BOOLEAN, reused => reused'
  PROVE  CatalogInv'
<1>1. CatalogTypeOK'
  BY DEF Moved, JobTypes, TablesMove, ModelsMove, PricesMove, RecordsMove, CatalogInv, Shape, CatalogTypeOK
<1>2. Shape'
  BY <1>1 DEF Moved, JobTypes, Shape, Asleep
<1>3. RowsTidy'
  BY DEF TablesMove, ModelsMove, RowsTidy
<1>4. ASSUME NEW k \in Jobs, NEW m \in Models, HasRead(k)'
      PROVE  /\ HasRead(k) /\ op'[k] = op[k] /\ op[k].p \in Providers
             /\ copy'[k].prices = copy[k].prices
             /\ copy'[k].models[m] \in {copy[k].models[m], Lost}
             /\ copy'[k].models[m].at = "row" => copy'[k].models[m] = copy[k].models[m]
  <2>1. /\ HasRead(k) /\ op'[k] = op[k] /\ copy'[k].prices = copy[k].prices
        /\ copy'[k].models[m] \in {copy[k].models[m], Lost}
    BY <1>4 DEF Moved, KeepsCopies
  <2>2. op[k].p \in Providers
    <3>1. op[k] \in AdminRequests /\ op[k].does # "putAccess"
      BY <2>1 DEF CatalogInv, Shape, InProgress, HasRead
    <3> QED BY <3>1, RequestKinds
  <2> QED BY <2>1, <2>2, Tags
<1>5. CopiesTidy'
  BY <1>4 DEF CatalogInv, CopiesTidy
<1>6. ASSUME ~reused', NEW k \in Jobs, NEW m \in Models, HasRead(k)',
             copy'[k].models[m].at = "row", copy'[k].models[m].overridden,
             model'[op'[k].p][m] # None
      PROVE  model'[op'[k].p][m].overridden
  <2>1. /\ HasRead(k) /\ op'[k] = op[k] /\ op[k].p \in Providers
        /\ copy'[k].models[m] = copy[k].models[m]
    BY <1>4, <1>6
  <2>2. model[op[k].p][m] # None
    BY <1>6, <2>1 DEF TablesMove, ModelsMove
  <2>3. model[op[k].p][m].overridden
    BY <1>6, <2>1, <2>2 DEF CatalogInv, OverridesLast
  <2> QED BY <1>6, <2>1, <2>2, <2>3 DEF TablesMove, ModelsMove
<1>7. OverridesLast'
  BY <1>6 DEF OverridesLast
<1>8. PricesTidy'
  <2>1. ASSUME NEW p \in Providers, NEW m \in Models, <<p, m>> \in Snapshots
        PROVE  price'[p][m] # "old"
    BY <2>1 DEF CatalogInv, PricesTidy, TablesMove, PricesMove
  <2>2. ASSUME NEW k \in Jobs, NEW m \in Models, HasRead(k)', <<op'[k].p, m>> \in Snapshots
        PROVE  copy'[k].prices[m] # "old"
    BY <1>4, <2>2 DEF CatalogInv, PricesTidy
  <2> QED BY <2>1, <2>2 DEF PricesTidy
<1> QED BY <1>2, <1>3, <1>5, <1>7, <1>8 DEF CatalogInv

\* Only while the platform serves are there requests with something left to do.
LEMMA LeftServing ==
  ASSUME Shape, NEW j \in Jobs, Left(j)
  PROVE  /\ serving /\ op[j] \in AdminRequests
         /\ op[j].does \notin OneEdit /\ ~Reading(j) => HasRead(j)
  BY DEF Shape, CatalogTypeOK, Asleep, Left, InProgress, Reading, HasRead, OneEdit

\* A part that works on rows has read them.
LEMMA PartRead ==
  ASSUME Shape, NEW j \in Jobs, NEW part, Now(j, part), part # "edit" \/ op[j].does \notin OneEdit
  PROVE  /\ Left(j) /\ serving /\ HasRead(j) /\ op[j] \in AdminRequests /\ op[j].p \in Providers
         /\ copy[j].models \in ReadRows /\ copy[j].prices \in ReadPrices
<1>1. Left(j) /\ serving /\ op[j] \in AdminRequests /\ ~Reading(j) /\ Head(todo[j]) = part
  BY LeftServing DEF Now
<1>2. op[j].does \notin OneEdit
  BY <1>1, AgendaTail DEF Shape, InProgress, CatalogTypeOK, Left
<1>3. HasRead(j)
  BY <1>1, <1>2, LeftServing
<1>4. op[j].p \in Providers
  BY <1>1, <1>2, RequestKinds DEF OneEdit
<1> QED BY <1>1, <1>3, <1>4 DEF Shape, InProgress

-----------------------------------------------------------------------------
(* The steps. *)

Monotone == reused' \in BOOLEAN /\ (reused => reused')
NothingUndone == \A p \in Providers, m \in Models : Kept(p, m)

LEMMA SyncModelsStep ==
  ASSUME CatalogInv, NEW j \in Jobs, SyncModels(j)
  PROVE  serving /\ Moved /\ Monotone /\ TablesMove /\ (~reused => NothingUndone)
<1> DEFINE p == op[j].p
           record == copy[j].record
           read == copy[j].models
           ms == Discovered(p, record)
           ok == /\ provider[p] # Gone /\ ~Conflict(ms, read, model[p], None)
                 /\ \A m \in ms : read[m] # Lost
           made == IF ok THEN {m \in ms : read[m] = None} ELSE {}
           new(m) == WrittenRow(model[p][m], read[m], Synced(p, m, read[m]))
<1>1. /\ Left(j) /\ serving /\ HasRead(j) /\ op[j] \in AdminRequests /\ p \in Providers
      /\ read \in ReadRows
  BY PartRead DEF CatalogInv, SyncModels, Now
<1>2. /\ model' = IF ok THEN [model EXCEPT ![p] = SyncProviderModels(p, record, read, @)] ELSE model
      /\ GoesMaking(j, ok, p, made)
      /\ UNCHANGED <<provider, price, mode, granted>>
  BY DEF SyncModels
<1>3. ok \in BOOLEAN
  BY DEF Conflict
<1> HIDE DEF ok, made
<1>4. /\ Moved /\ Monotone
      /\ ~reused' => \A k \in Jobs, m \in made : HasRead(k)' /\ op'[k].p = p =>
           (m \in Models => copy'[k].models[m].at # "row")
  BY <1>1, <1>2, <1>3, GoesMakingMoves DEF CatalogInv, Monotone
<1>5. PricesMove /\ RecordsMove
  BY <1>2, PricesStay, RecordsStay
<1>6. CASE ~ok
  <2>1. model' = model
    BY <1>2, <1>6
  <2>2. ModelsMove
    BY <1>1, <1>4, <2>1, ModelsStay DEF Monotone
  <2>3. NothingUndone
    BY <1>2, <2>1 DEF NothingUndone, Kept
  <2> QED BY <1>1, <1>4, <1>5, <2>2, <2>3 DEF TablesMove
<1>7. CASE ok
  <2>1. /\ \A q \in Providers \ {p} : model'[q] = model[q]
        /\ model'[p] = [m \in Models |-> IF m \in ms THEN new(m) ELSE model[p][m]]
    BY <1>1, <1>2, <1>7 DEF CatalogInv, Shape, CatalogTypeOK, SyncProviderModels
  <2>2. ASSUME NEW m \in Models, m \in ms
        PROVE  /\ model[p][m] \in {None} \cup ModelRows /\ read[m] \in {None} \cup ModelRows
               /\ (model[p][m] = None) <=> (read[m] = None)
               /\ Synchronised(p, m)
    <3>1. read[m] # Lost /\ ((model[p][m] = None) <=> (read[m] = None))
      BY <1>7, <2>2 DEF ok, Conflict
    <3>2. Synchronised(p, m)
      BY <2>2 DEF Discovered, Synchronised
    <3> QED BY <1>1, <3>1, <3>2 DEF CatalogInv, Shape, CatalogTypeOK, ReadRows
  <2> HIDE DEF new, ms, read
  <2>3. ASSUME ~reused, NEW m \in Models, m \in ms, read[m] # None, ~read[m].overridden
        PROVE  read[m] = Clean(p, m)
    <3>1. read[m].at = "row" /\ Synchronised(p, m)
      BY <2>2, <2>3, Tags
    <3> QED BY <1>1, <2>3, <3>1 DEF CatalogInv, CopiesTidy, read
  <2>4. ASSUME NEW m \in Models, m \in ms
        PROVE  /\ new(m) \in ModelRows
               /\ model[p][m] = None => new(m) = Clean(p, m)
               /\ model[p][m] # None => new(m).overridden = model[p][m].overridden
               /\ ~reused /\ model[p][m] # None /\ model[p][m] = Clean(p, m) => new(m) = Clean(p, m)
               /\ ~reused /\ model[p][m] # None =>
                    new(m) \in {model[p][m], [model[p][m] EXCEPT !.enabled = Supported(p, m) /\ @]}
    BY <1>1, <2>2, <2>3, <2>4, SyncedRow DEF new
  <2>5. model' \in [Providers -> [Models -> {None} \cup ModelRows]]
    <3>1. model'[p] \in [Models -> {None} \cup ModelRows]
      BY <1>1, <2>1, <2>4 DEF CatalogInv, Shape, CatalogTypeOK
    <3> QED BY <1>1, <1>2, <1>7, <2>1, <3>1 DEF CatalogInv, Shape, CatalogTypeOK
  <2>6. ASSUME ~reused', NEW q \in Providers, NEW m \in Models, model'[q][m] # None
        PROVE  /\ model[q][m] # None /\ model[q][m].overridden => model'[q][m].overridden
               /\ ~model'[q][m].overridden /\ Synchronised(q, m) => model'[q][m] = Clean(q, m)
               /\ model[q][m] = None => \A k \in Jobs :
                    HasRead(k)' /\ op'[k].p = q => copy'[k].models[m].at # "row"
    <3>1. ~reused
      BY <1>4, <2>6 DEF Monotone
    <3>2. CASE model'[q][m] = model[q][m]
      BY <1>1, <2>6, <3>1, <3>2 DEF CatalogInv, RowsTidy
    <3>3. CASE model'[q][m] # model[q][m]
      <4>1. q = p /\ m \in ms /\ model'[q][m] = new(m)
        BY <2>1, <2>6, <3>3
      <4>2. CASE model[p][m] = None
        <5>1. m \in made
          BY <1>7, <2>2, <4>1, <4>2 DEF made, read, ms
        <5>2. new(m) = Clean(p, m)
          BY <2>4, <4>1, <4>2
        <5> QED BY <1>4, <2>6, <4>1, <4>2, <5>1, <5>2
      <4>3. CASE model[p][m] # None
        <5>1. new(m).overridden = model[p][m].overridden
          BY <2>4, <4>1, <4>3
        <5>2. ~new(m).overridden /\ Synchronised(p, m) => new(m) = Clean(p, m)
          BY <1>1, <2>4, <3>1, <4>1, <4>3, <5>1 DEF CatalogInv, RowsTidy
        <5> QED BY <4>1, <4>3, <5>1, <5>2
      <4> QED BY <4>2, <4>3
    <3> QED BY <3>2, <3>3
  <2>7. ModelsMove
    BY <2>5, <2>6 DEF ModelsMove
  <2>8. ASSUME ~reused, NEW q \in Providers, NEW m \in Models PROVE Kept(q, m)
    <3>1. CASE model'[q][m] = model[q][m]
      BY <1>2, <3>1 DEF Kept
    <3>2. CASE model'[q][m] # model[q][m]
      <4>1. q = p /\ m \in ms /\ model'[q][m] = new(m)
        BY <2>1, <3>2
      <4> QED BY <1>2, <2>4, <2>8, <4>1 DEF Kept, Supported
    <3> QED BY <3>1, <3>2
  <2>9. ~reused => NothingUndone
    BY <2>8 DEF NothingUndone
  <2> QED BY <1>1, <1>4, <1>5, <2>7, <2>9 DEF TablesMove
<1> QED BY <1>6, <1>7

LEMMA SyncPricesStep ==
  ASSUME CatalogInv, NEW j \in Jobs, SyncPrices(j)
  PROVE  /\ serving /\ Moved /\ Monotone /\ TablesMove
         /\ \A q \in Providers, m \in Models : ~OrphanRead(j, q, m) => Kept(q, m)
<1> DEFINE p == op[j].p
           read == copy[j].prices
           synced == {m \in Models : <<p, m>> \in Snapshots /\ read[m] # "manual"}
           ok == ~Conflict(synced, read, price[p], "none")
<1>1. /\ Left(j) /\ serving /\ HasRead(j) /\ p \in Providers /\ read \in ReadPrices
  BY PartRead DEF CatalogInv, SyncPrices, Now
<1>2. /\ price' = IF ok THEN [price EXCEPT ![p] = SyncProviderPricing(p, read, @)] ELSE price
      /\ Goes(j, ok) /\ UNCHANGED <<provider, model, mode, granted>>
  BY DEF SyncPrices
<1>3. ok \in BOOLEAN
  BY DEF Conflict
<1> HIDE DEF ok
<1>4. Moved /\ Monotone
  BY <1>1, <1>2, <1>3, GoesMoves DEF CatalogInv, Monotone, Shape, CatalogTypeOK
<1>5. ModelsMove /\ RecordsMove
  BY <1>1, <1>2, <1>4, ModelsStay, RecordsStay DEF Monotone
<1>6. ASSUME NEW q \in Providers, NEW m \in Models, price'[q][m] # price[q][m]
      PROVE  price'[q][m] = "official" /\ (price[q][m] # "manual" \/ OrphanRead(j, q, m))
  <2>1. /\ ok /\ q = p /\ <<p, m>> \in Snapshots /\ read[m] # "manual"
        /\ price'[p][m] = Written(price[p][m], read[m], "official")
    BY <1>1, <1>2, <1>6 DEF CatalogInv, Shape, CatalogTypeOK, SyncProviderPricing
  <2>2. read[m] # "old"
    BY <1>1, <2>1 DEF CatalogInv, PricesTidy
  <2>3. read[m] # "official" /\ price'[p][m] = "official"
    BY <1>6, <2>1 DEF Written
  <2>4. CASE read[m] = "orphan"
    BY <2>1, <2>3, <2>4 DEF OrphanRead
  <2>5. CASE read[m] # "orphan"
    <3>1. read[m] = "none"
      BY <1>1, <2>1, <2>2, <2>3, <2>5 DEF ReadPrices, Prices
    <3>2. price[p][m] = "none"
      BY <2>1, <3>1 DEF ok, Conflict
    <3> QED BY <2>1, <2>3, <3>2
  <2> QED BY <2>4, <2>5
<1>7. price' \in [Providers -> [Models -> Prices]]
  <2>1. SyncProviderPricing(p, read, price[p]) \in [Models -> Prices]
    BY <1>1 DEF CatalogInv, Shape, CatalogTypeOK, SyncProviderPricing, Written, Prices
  <2> QED BY <1>1, <1>2, <2>1 DEF CatalogInv, Shape, CatalogTypeOK
<1>8. PricesMove
  BY <1>6, <1>7 DEF PricesMove
<1>9. ASSUME NEW q \in Providers, NEW m \in Models, ~OrphanRead(j, q, m) PROVE Kept(q, m)
  BY <1>2, <1>6, <1>9 DEF Kept
<1> QED BY <1>1, <1>4, <1>5, <1>8, <1>9 DEF TablesMove

LEMMA StartupStep ==
  ASSUME CatalogInv, Startup
  PROVE  CatalogInv' /\ NothingUndone
<1> DEFINE known == {p \in Providers : Known[p] # {} /\ provider[p] # None}
           new(p, m) == WrittenRow(model[p][m], model[p][m], Synced(p, m, model[p][m]))
<1>1. /\ ~serving /\ serving' = TRUE
      /\ model' = [p \in Providers |->
                     IF p \in known THEN SyncProviderModels(p, provider[p], model[p], model[p])
                                    ELSE model[p]]
      /\ price' = [p \in Providers |->
                     IF p \in known THEN SyncProviderPricing(p, price[p], price[p]) ELSE price[p]]
      /\ UNCHANGED <<provider, mode, granted, todo, op, copy, reused>>
  BY DEF Startup
<1>2. PICK d \in Older : provider = d.provider /\ model = d.model /\ price = d.price
  BY <1>1 DEF CatalogInv, Shape, Asleep
<1>3. /\ \A p \in Providers : provider[p] \in {None} \cup ProviderRows
      /\ \A p \in Providers, m \in Models :
           /\ provider[p] = None => model[p][m] = None /\ price[p][m] # "old"
           /\ Known[p] = {} /\ model[p][m] # None /\ ~model[p][m].overridden => model[p][m] = Clean(p, m)
  BY <1>2, OlderAssumption DEF Clean, Supported
<1>4. /\ model \in [Providers -> [Models -> {None} \cup ModelRows]]
      /\ price \in [Providers -> [Models -> Prices]]
  BY DEF CatalogInv, Shape, CatalogTypeOK
<1>5. ASSUME NEW p \in Providers, NEW m \in Models
      PROVE  /\ p \in known /\ m \in Known[p] => model'[p][m] = new(p, m)
             /\ ~(p \in known /\ m \in Known[p]) => model'[p][m] = model[p][m]
  BY <1>1 DEF SyncProviderModels, Discovered
<1>6. ASSUME NEW p \in Providers, NEW m \in Models
      PROVE  /\ new(p, m) \in ModelRows
             /\ ~new(p, m).overridden => new(p, m) = Clean(p, m)
             /\ model[p][m] # None /\ model[p][m].overridden =>
                  new(p, m) \in {model[p][m], [model[p][m] EXCEPT !.enabled = Supported(p, m) /\ @]}
  <2> DEFINE now == model[p][m]
  <2>1. now \in {None} \cup ModelRows
    BY <1>4
  <2> HIDE DEF now
  <2>2. /\ WrittenRow(now, now, Synced(p, m, now)) \in ModelRows
        /\ now # None /\ (~now.overridden => now = Clean(p, m)) =>
             WrittenRow(now, now, Synced(p, m, now))
               \in {now, [now EXCEPT !.enabled = Supported(p, m) /\ @]}
    BY <2>1, SyncedRow
  <2>3. ~WrittenRow(now, now, Synced(p, m, now)).overridden =>
          WrittenRow(now, now, Synced(p, m, now)) = Clean(p, m)
    BY <2>1, StartedRow
  <2> QED BY <2>2, <2>3 DEF now
<1> HIDE DEF new
<1>7. ASSUME NEW p \in Providers, NEW m \in Models
      PROVE  IF p \in known /\ <<p, m>> \in Snapshots /\ price[p][m] # "manual"
             THEN price'[p][m] = "official" ELSE price'[p][m] = price[p][m]
  BY <1>1 DEF SyncProviderPricing, Written
<1>8. CatalogTypeOK'
  <2>1. model' \in [Providers -> [Models -> {None} \cup ModelRows]]
    <3>1. ASSUME NEW p \in Providers PROVE model'[p] \in [Models -> {None} \cup ModelRows]
      <4>1. model'[p] = [m \in Models |-> model'[p][m]]
        BY <1>1, <1>4 DEF SyncProviderModels
      <4>2. \A m \in Models : model'[p][m] \in {None} \cup ModelRows
        BY <1>4, <1>5, <1>6
      <4> QED BY <4>1, <4>2
    <3> QED BY <1>1, <3>1
  <2>2. price' \in [Providers -> [Models -> Prices]]
    <3>1. ASSUME NEW p \in Providers PROVE price'[p] \in [Models -> Prices]
      <4>1. price'[p] = [m \in Models |-> price'[p][m]]
        BY <1>1, <1>4 DEF SyncProviderPricing
      <4>2. \A m \in Models : price'[p][m] \in Prices
        BY <1>4, <1>7 DEF Prices
      <4> QED BY <4>1, <4>2
    <3> QED BY <1>1, <3>1
  <2> QED BY <1>1, <2>1, <2>2 DEF CatalogInv, Shape, CatalogTypeOK
<1>9. Shape'
  BY <1>1, <1>8 DEF CatalogInv, Shape, InProgress, HasRead, Asleep
<1>10. \A j \in Jobs : ~HasRead(j)'
  BY <1>1, UnreadType DEF CatalogInv, Shape, Asleep, HasRead
<1>11. RowsTidy'
  <2> SUFFICES ASSUME NEW p \in Providers, NEW m \in Models, Synchronised(p, m),
                      model'[p][m] # None, ~model'[p][m].overridden
               PROVE  model'[p][m] = Clean(p, m)
    BY DEF RowsTidy
  <2>1. CASE Known[p] = {}
    BY <1>3, <1>5, <2>1
  <2>2. CASE m \in Known[p] /\ provider[p] = None
    BY <1>3, <1>5, <2>2
  <2>3. CASE m \in Known[p] /\ provider[p] # None
    <3>1. p \in known
      BY <2>3
    <3> QED BY <1>5, <1>6, <2>3, <3>1
  <2> QED BY <2>1, <2>2, <2>3 DEF Synchronised
<1>12. CopiesTidy' /\ OverridesLast'
  BY <1>10 DEF CopiesTidy, OverridesLast
<1>13. PricesTidy'
  <2>1. ASSUME NEW p \in Providers, NEW m \in Models, <<p, m>> \in Snapshots
        PROVE  price'[p][m] # "old"
    <3>1. m \in Known[p]
      BY <2>1, TablesAssumption
    <3>2. CASE provider[p] = None
      BY <1>3, <1>7, <3>2
    <3>3. CASE provider[p] # None
      <4>1. p \in known
        BY <3>1, <3>3
      <4> QED BY <1>7, <2>1, <4>1
    <3> QED BY <3>2, <3>3
  <2> QED BY <1>10, <2>1 DEF PricesTidy
<1>14. NothingUndone
  <2>1. ASSUME NEW p \in Providers, NEW m \in Models PROVE Kept(p, m)
    BY <1>5, <1>6, <1>7 DEF Kept, Supported
  <2> QED BY <2>1 DEF NothingUndone
<1> QED BY <1>9, <1>11, <1>12, <1>13, <1>14 DEF CatalogInv

\* Requests begin with the record of a provider at most.
LEMMA BeginStep ==
  ASSUME CatalogInv, NEW j \in Jobs,
         AddProvider(j) \/ FindProvider(j) \/ BeginPrice(j) \/ BeginAccess(j)
  PROVE  CatalogInv'
<1> SUFFICES serving /\ Moved /\ Monotone /\ TablesMove
  BY MoveKeeps DEF Monotone
<1> USE DEF CatalogInv
<1>1. ASSUME serving, Moved, reused' = reused, UNCHANGED <<model, price>>, RecordsMove
      PROVE  serving /\ Moved /\ Monotone /\ TablesMove
  <2>1. Monotone
    BY <1>1 DEF Monotone, Shape, CatalogTypeOK
  <2>2. ModelsMove /\ PricesMove
    BY <1>1, ModelsStay, PricesStay
  <2> QED BY <1>1, <2>1, <2>2 DEF TablesMove
<1>2. CASE AddProvider(j)
  <2>1. PICK r \in CreateProvider :
          /\ provider' = [provider EXCEPT ![r.p] = r.gives]
          /\ Begins(j, r, Record(r.gives))
          /\ UNCHANGED <<model, price, mode, granted>>
    BY <1>2 DEF AddProvider
  <2>2. r \in AdminRequests /\ r.gives \in ProviderRows
    BY CreatesRow
  <2>3. Record(r.gives) \in Copies /\ Record(r.gives).record = r.gives /\ Record(r.gives).models = << >>
    BY <2>2, RecordType
  <2>4. Moved /\ reused' = reused
    BY <2>1, <2>2, <2>3, BeginsMoves
  <2>5. RecordsMove
    BY <2>1, <2>2 DEF RecordsMove, Shape, CatalogTypeOK
  <2>6. serving
    BY <2>1 DEF Begins
  <2> QED BY <1>1, <2>1, <2>4, <2>5, <2>6
<1>3. CASE FindProvider(j)
  <2>1. PICK r \in OfProvider :
          provider[r.p].at = "row" /\ Begins(j, r, Record(provider[r.p])) /\ UNCHANGED rows
    BY <1>3 DEF FindProvider
  <2>2. r \in AdminRequests /\ r.p \in Providers
    <3>1. r \in AdminRequests
      BY DEF AdminRequests
    <3>2. r.does # "putAccess"
      BY DEF OfProvider, UpdateProvider, DeleteProvider, RediscoverProviderModels, RefreshProviderPricing,
             PatchProviderModel, CreateProviderModel, DeleteProviderModel, Request, ModelRow
    <3> QED BY <3>1, <3>2, RequestKinds
  <2>3. provider[r.p] \in ProviderRows
    BY <2>1, <2>2, Tags DEF Shape, CatalogTypeOK
  <2>4. Moved /\ reused' = reused
    BY <2>1, <2>2, <2>3, RecordType, BeginsMoves
  <2> QED BY <1>1, <2>1, <2>4, RecordsStay DEF Begins, rows
<1>4. CASE BeginPrice(j)
  <2>1. PICK r \in PatchProviderModelPricing : Begins(j, r, Unread) /\ UNCHANGED rows
    BY <1>4 DEF BeginPrice
  <2>2. r \in AdminRequests /\ r.does \in WithoutRecord
    BY DEF AdminRequests, PatchProviderModelPricing, Request, WithoutRecord
  <2>3. Moved /\ reused' = reused
    BY <2>1, <2>2, UnreadType, BeginsMoves
  <2> QED BY <1>1, <2>1, <2>3, RecordsStay DEF Begins, rows
<1>5. CASE BeginAccess(j)
  <2>1. PICK r \in UpdateAccountModelAccess :
          Begins(j, r, [Unread EXCEPT !.mode = mode]) /\ UNCHANGED rows
    BY <1>5 DEF BeginAccess
  <2>2. r \in AdminRequests /\ r.does \in WithoutRecord
    BY DEF AdminRequests, UpdateAccountModelAccess, Request, WithoutRecord
  <2>3. [Unread EXCEPT !.mode = mode] \in Copies /\ [Unread EXCEPT !.mode = mode].models = << >>
    BY DEF Unread, Copies, Shape, CatalogTypeOK
  <2>4. Moved /\ reused' = reused
    BY <2>1, <2>2, <2>3, BeginsMoves
  <2> QED BY <1>1, <2>1, <2>4, RecordsStay DEF Begins, rows
<1> QED BY <1>2, <1>3, <1>4, <1>5

\* What is read is what is there, and tidy like it.
LEMMA ReadStep ==
  ASSUME CatalogInv, NEW j \in Jobs, Read(j)
  PROVE  CatalogInv'
<1> DEFINE p == op[j].p
<1>1. /\ todo[j] # << >> /\ DOMAIN copy[j].models = {}
      /\ op[j].does \notin Blind /\ op[j].does # "putAccess"
      /\ copy' = [copy EXCEPT ![j].models = model[p], ![j].prices = price[p]]
      /\ UNCHANGED <<provider, model, price, mode, granted, serving, todo, op, reused>>
  BY DEF Read, Reading, Left, rows
<1>2. serving /\ op[j] \in AdminRequests /\ p \in Providers
  BY <1>1, LeftServing, RequestKinds DEF CatalogInv, Left
<1>3. model[p] \in ReadRows /\ price[p] \in ReadPrices /\ \A m \in Models : model[p][m] # Lost
  BY <1>2, Tags DEF CatalogInv, Shape, CatalogTypeOK, ReadRows, ReadPrices
<1>4. copy[j] \in Copies
  BY DEF CatalogInv, Shape, CatalogTypeOK
<1>5. /\ copy'[j].models = model[p] /\ copy'[j].prices = price[p] /\ copy'[j].record = copy[j].record
      /\ \A k \in Jobs \ {j} : copy'[k] = copy[k]
  BY <1>1, <1>4 DEF CatalogInv, Shape, CatalogTypeOK, Copies
<1>6. copy' \in [Jobs -> Copies]
  <2>1. [copy[j] EXCEPT !.models = model[p], !.prices = price[p]] \in Copies
    BY <1>3, <1>4 DEF Copies
  <2> QED BY <1>1, <2>1 DEF CatalogInv, Shape, CatalogTypeOK
<1>7. ASSUME NEW k \in Jobs PROVE InProgress(k)'
  <2>1. CASE k # j
    BY <1>1, <1>5, <2>1, Unmoved DEF CatalogInv, Shape
  <2>2. CASE k = j
    BY <1>1, <1>2, <1>3, <1>5, <2>2 DEF CatalogInv, Shape, InProgress, HasRead, OneEdit
  <2> QED BY <2>1, <2>2
<1>8. Shape'
  BY <1>1, <1>2, <1>6, <1>7 DEF CatalogInv, Shape, CatalogTypeOK, Asleep
<1>9. ASSUME NEW k \in Jobs, k # j PROVE HasRead(k)' => HasRead(k)
  BY <1>1, <1>5, <1>9 DEF HasRead
<1>10. RowsTidy'
  BY <1>1 DEF CatalogInv, RowsTidy
<1>11. CopiesTidy'
  <2> SUFFICES ASSUME ~reused, NEW k \in Jobs, NEW m \in Models,
                      HasRead(k)', Synchronised(op[k].p, m), copy'[k].models[m].at = "row",
                      ~copy'[k].models[m].overridden
               PROVE  copy'[k].models[m] = Clean(op[k].p, m)
    BY <1>1 DEF CopiesTidy
  <2>1. CASE k # j
    BY <1>5, <1>9, <2>1 DEF CatalogInv, CopiesTidy
  <2>2. CASE k = j
    <3>1. model[p][m] # None
      BY <1>5, <2>2, Tags
    <3> QED BY <1>2, <1>5, <2>2, <3>1 DEF CatalogInv, RowsTidy
  <2> QED BY <2>1, <2>2
<1>12. OverridesLast'
  BY <1>1, <1>5, <1>9 DEF CatalogInv, OverridesLast
<1>13. PricesTidy'
  <2>1. ASSUME NEW k \in Jobs, NEW m \in Models, HasRead(k)', <<op'[k].p, m>> \in Snapshots
        PROVE  copy'[k].prices[m] # "old"
    <3>1. CASE k # j
      <4>1. HasRead(k) /\ op'[k] = op[k] /\ copy'[k] = copy[k]
        BY <1>1, <1>5, <1>9, <2>1, <3>1
      <4>2. copy[k].prices[m] # "old"
        BY <2>1, <4>1 DEF CatalogInv, PricesTidy
      <4> QED BY <4>1, <4>2
    <3>2. CASE k = j
      BY <1>1, <1>2, <1>5, <2>1, <3>2 DEF CatalogInv, PricesTidy
    <3> QED BY <3>1, <3>2
  <2> QED BY <1>1, <2>1 DEF CatalogInv, PricesTidy
<1> QED BY <1>8, <1>10, <1>11, <1>12, <1>13 DEF CatalogInv

\* An edit of an account touches no provider.
LEMMA AccessStep ==
  ASSUME CatalogInv, NEW j \in Jobs, CheckAccess(j) \/ CommitAccess(j)
  PROVE  CatalogInv'
<1> USE DEF CatalogInv
<1>1. Left(j) /\ op[j].does = "putAccess"
  BY DEF CheckAccess, CommitAccess, Edits, Now, Reading
<1>2. serving /\ op[j] \in AdminRequests /\ copy[j] \in Copies
  BY <1>1, LeftServing DEF Shape, CatalogTypeOK
<1>3. ASSUME Goes(j, TRUE) \/ Goes(j, FALSE), UNCHANGED <<provider, model, price>>, mode' \in Modes
      PROVE  CatalogInv'
  <2>1. Moved /\ reused' = reused
    BY <1>1, <1>3, GoesMoves
  <2>2. ModelsMove /\ PricesMove
    BY <1>2, <1>3, <2>1, ModelsStay, PricesStay
  <2>3. RecordsMove
    BY <1>3 DEF RecordsMove, Shape, CatalogTypeOK
  <2>4. reused' \in BOOLEAN
    BY <2>1 DEF Shape, CatalogTypeOK
  <2> QED BY <1>2, <2>1, <2>2, <2>3, <2>4, MoveKeeps DEF TablesMove
<1>4. CASE CommitAccess(j)
  <2>1. /\ mode' = Written(mode, copy[j].mode, op[j].gives.mode)
        /\ Goes(j, TRUE) /\ UNCHANGED <<provider, model, price>>
    BY <1>4 DEF CommitAccess
  <2>2. mode' \in Modes
    BY <1>1, <1>2, <2>1, RequestKinds DEF Shape, CatalogTypeOK, Written
  <2> QED BY <1>3, <2>1, <2>2
<1>5. CASE CheckAccess(j) /\ Goes(j, FALSE)
  <2>1. UNCHANGED <<provider, model, price>> /\ mode' \in Modes
    BY <1>5 DEF CheckAccess, rows, Shape, CatalogTypeOK
  <2> QED BY <1>3, <1>5, <2>1
<1>6. CASE CheckAccess(j) /\ ~Goes(j, FALSE)
  <2>1. /\ copy' = [copy EXCEPT ![j].models = <<None>>]
        /\ UNCHANGED <<provider, model, price, mode, granted, serving, todo, op, reused>>
    BY <1>6 DEF CheckAccess, rows
  <2>2. /\ copy'[j].models = <<None>> /\ copy'[j].record = copy[j].record
        /\ \A k \in Jobs \ {j} : copy'[k] = copy[k]
    BY <1>2, <2>1 DEF Shape, CatalogTypeOK, Copies
  <2>3. copy' \in [Jobs -> Copies]
    <3>1. [copy[j] EXCEPT !.models = <<None>>] \in Copies
      BY <1>2 DEF Copies
    <3> QED BY <2>1, <3>1 DEF Shape, CatalogTypeOK
  <2>4. ~HasRead(j)' /\ InProgress(j)'
    BY <1>1, <1>2, <2>1, <2>2 DEF Shape, InProgress, HasRead
  <2>5. \A k \in Jobs : InProgress(k)' /\ (HasRead(k)' => HasRead(k) /\ k # j)
    BY <2>1, <2>2, <2>4, Unmoved DEF Shape
  <2>6. KeepsCopies
    BY <2>1, <2>2, <2>5 DEF KeepsCopies
  <2>7. Moved
    BY <2>1, <2>3, <2>5, <2>6 DEF Moved, JobTypes, Shape, CatalogTypeOK
  <2>8. TablesMove
    BY <1>2, <2>1, ModelsStay, PricesStay, RecordsStay DEF TablesMove
  <2> QED BY <1>2, <2>1, <2>7, <2>8, MoveKeeps DEF Shape, CatalogTypeOK
<1> QED BY <1>4, <1>5, <1>6

LEMMA CommitProviderStep ==
  ASSUME CatalogInv, NEW j \in Jobs, CommitProvider(j)
  PROVE  CatalogInv'
<1> USE DEF CatalogInv
<1>1. Left(j) /\ op[j].does = "updateProvider" /\ Goes(j, TRUE) /\ UNCHANGED <<model, price, mode>>
  BY DEF CommitProvider, Edits, Now
<1>2. serving /\ op[j] \in AdminRequests /\ op[j].p \in Providers
  BY <1>1, LeftServing, RequestKinds
<1>3. Moved /\ reused' = reused /\ reused' \in BOOLEAN
  BY <1>1, GoesMoves DEF Shape, CatalogTypeOK
<1>4. copy[j].record \in ProviderRows
  BY <1>1 DEF Shape, InProgress, Left, WithoutRecord
<1>5. Given(copy[j].record, op[j].gives) \in ProviderRows
  BY <1>1, <1>2, <1>4, RequestKinds, GivenProvider
<1>6. RecordsMove
  <2> DEFINE p == op[j].p
             new == WrittenRow(provider[p], copy[j].record, Given(copy[j].record, op[j].gives))
  <2>1. provider' = IF provider[p] = Gone THEN provider ELSE [provider EXCEPT ![p] = new]
    BY DEF CommitProvider
  <2>2. provider[p] # Gone => new \in ProviderRows
    BY <1>2, <1>4, <1>5, WrittenProviderRow DEF Shape, CatalogTypeOK
  <2> HIDE DEF new
  <2> QED BY <1>1, <2>1, <2>2 DEF RecordsMove, Shape, CatalogTypeOK
<1>7. ModelsMove /\ PricesMove
  BY <1>1, <1>2, <1>3, ModelsStay, PricesStay
<1> QED BY <1>2, <1>3, <1>6, <1>7, MoveKeeps DEF TablesMove

LEMMA CommitDeletionStep ==
  ASSUME CatalogInv, NEW j \in Jobs, CommitDeletion(j)
  PROVE  CatalogInv'
<1> USE DEF CatalogInv
<1> DEFINE p == op[j].p
<1>1. /\ Left(j) /\ op[j].does = "deleteProvider" /\ Goes(j, TRUE) /\ UNCHANGED mode
      /\ \/ UNCHANGED <<provider, model, price>>
         \/ /\ provider' = [provider EXCEPT ![p] = Gone]
            /\ model' = [model EXCEPT ![p] = [m \in Models |-> None]]
            /\ price' = [price EXCEPT ![p] =
                 [m \in Models |-> IF copy[j].prices[m] = "none" THEN @[m] ELSE "none"]]
  BY DEF CommitDeletion, Edits, Now
<1>2. serving /\ op[j] \in AdminRequests /\ p \in Providers
  BY <1>1, LeftServing, RequestKinds
<1>3. Moved /\ reused' = reused /\ reused' \in BOOLEAN
  BY <1>1, GoesMoves DEF Shape, CatalogTypeOK
<1>4. RecordsMove
  BY <1>1 DEF RecordsMove, Shape, CatalogTypeOK
<1>5. ModelsMove
  <2> DEFINE rid == [m \in Models |-> None]
  <2>0. /\ model \in [Providers -> [Models -> {None} \cup ModelRows]]
        /\ model' = model \/ model' = [model EXCEPT ![p] = rid]
    BY <1>1 DEF Shape, CatalogTypeOK
  <2>1. model' \in [Providers -> [Models -> {None} \cup ModelRows]]
    BY <1>1 DEF Shape, CatalogTypeOK
  <2>2. ASSUME NEW q \in Providers, NEW m \in Models, model'[q][m] # None
        PROVE  model'[q][m] = model[q][m]
    <3>1. rid[m] = None
      OBVIOUS
    <3> HIDE DEF rid, p
    <3>2. model'[q] = model[q] \/ model'[q] = rid
      BY Zenon, <2>0
    <3> QED BY <2>2, <3>1, <3>2
  <2> QED BY <1>2, <1>3, <2>1, <2>2 DEF ModelsMove, RowsTidy
<1>6. PricesMove
  <2>1. CASE price' = price
    BY <2>1, PricesStay
  <2>2. CASE price' # price
    <3>1. /\ price' = [price EXCEPT ![p] = price'[p]]
          /\ price'[p] = [m \in Models |-> IF copy[j].prices[m] = "none" THEN price[p][m] ELSE "none"]
      BY <1>1, <1>2, <2>2 DEF Shape, CatalogTypeOK
    <3>2. price'[p] \in [Models -> Prices]
      BY <1>2, <3>1 DEF Shape, CatalogTypeOK, Prices
    <3>3. price' \in [Providers -> [Models -> Prices]]
      BY <3>1, <3>2 DEF Shape, CatalogTypeOK
    <3>4. \A m \in Models : price'[p][m] = "old" => price[p][m] = "old"
      BY <3>1
    <3>5. \A q \in Providers \ {p} : price'[q] = price[q]
      BY <3>1 DEF Shape, CatalogTypeOK
    <3> QED BY <3>3, <3>4, <3>5 DEF PricesMove
  <2> QED BY <2>1, <2>2
<1> QED BY <1>2, <1>3, <1>4, <1>5, <1>6, MoveKeeps DEF TablesMove

\* What an administrator sets by hand is overridden, also where another has overridden
\* or made the row since it was read.
LEMMA CommitModelStep ==
  ASSUME CatalogInv, NEW j \in Jobs, CommitModel(j)
  PROVE  CatalogInv'
<1> USE DEF CatalogInv
<1> DEFINE p == op[j].p
           m == op[j].m
           read == copy[j].models[m]
           to == [Given(read, op[j].gives) EXCEPT !.overridden = TRUE]
           new == WrittenRow(model[p][m], read, to)
<1>1. /\ Left(j) /\ op[j].does = "patchModel" /\ Goes(j, TRUE) /\ UNCHANGED <<provider, price, mode>>
      /\ model' = IF read.at # "row" \/ model[p][m] = None THEN model
                  ELSE [model EXCEPT ![p][m] = new]
  BY DEF CommitModel, Edits, Now
<1>2. /\ serving /\ HasRead(j) /\ op[j] \in AdminRequests /\ p \in Providers
      /\ copy[j].models \in ReadRows
  BY <1>1, PartRead DEF CommitModel, Edits, OneEdit, Blind
<1>3. m \in Models /\ op[j].gives \in [enabled : BOOLEAN] \cup [id : Chosen]
  BY <1>1, <1>2, RequestKinds
<1>4. Moved /\ reused' = reused /\ reused' \in BOOLEAN
  BY <1>1, GoesMoves DEF Shape, CatalogTypeOK
<1>5. PricesMove /\ RecordsMove
  BY <1>1, PricesStay, RecordsStay
<1>6. CASE model' = model
  BY <1>2, <1>4, <1>5, <1>6, ModelsStay, MoveKeeps DEF TablesMove
<1>7. CASE model' # model
  <2>1. read.at = "row" /\ model[p][m] # None /\ model' = [model EXCEPT ![p][m] = new]
    BY <1>1, <1>7
  <2>2. read \in ModelRows /\ model[p][m] \in ModelRows
    <3>1. read \in {None, Lost} \cup ModelRows
      BY <1>2, <1>3 DEF ReadRows
    <3> QED BY <1>2, <1>3, <2>1, <3>1, Tags DEF Shape, CatalogTypeOK
  <2>3. to \in ModelRows /\ to.overridden = TRUE
    BY <1>3, <2>2, GivenModel
  <2> HIDE DEF to
  <2>4. new \in ModelRows /\ new.overridden = Written(model[p][m].overridden, read.overridden, TRUE)
    <3> DEFINE now == model[p][m]
    <3>1. now \in ModelRows /\ now # None /\ read # None
      BY <2>1, <2>2, Tags
    <3> HIDE DEF now, read
    <3>2. WrittenRow(now, read, to) \in ModelRows
      BY <2>2, <2>3, <3>1, WrittenModelRow
    <3>3. WrittenRow(now, read, to).overridden = Written(now.overridden, read.overridden, to.overridden)
      BY <2>2, <2>3, <3>1, WrittenModelRow
    <3>4. WrittenRow(now, read, to).overridden = Written(now.overridden, read.overridden, TRUE)
      BY <2>3, <3>3
    <3> QED BY <3>2, <3>4 DEF now
  <2> HIDE DEF new
  <2>5. model[p][m].overridden \in BOOLEAN /\ read.overridden \in BOOLEAN
    BY <2>2 DEF ModelRows
  <2>6. read.overridden /\ ~reused => model[p][m].overridden
    BY <1>2, <1>3, <2>1 DEF OverridesLast
  <2>7. ~reused => new.overridden
    BY <2>4, <2>5, <2>6 DEF Written
  <2>8. /\ model'[p][m] = new
        /\ \A q \in Providers, n \in Models : <<q, n>> # <<p, m>> => model'[q][n] = model[q][n]
    BY <1>2, <1>3, <2>1 DEF Shape, CatalogTypeOK
  <2>9. model' \in [Providers -> [Models -> {None} \cup ModelRows]]
    BY <1>2, <1>3, <2>1, <2>4 DEF Shape, CatalogTypeOK
  <2>10. ModelsMove
    <3>1. ASSUME ~reused', NEW q \in Providers, NEW n \in Models, model'[q][n] # None
          PROVE  /\ model[q][n] # None /\ (model[q][n].overridden => model'[q][n].overridden)
                 /\ ~model'[q][n].overridden /\ Synchronised(q, n) => model'[q][n] = Clean(q, n)
      <4>1. CASE <<q, n>> = <<p, m>>
        BY <1>4, <2>1, <2>7, <2>8, <3>1, <4>1
      <4>2. CASE <<q, n>> # <<p, m>>
        BY <1>2, <1>4, <2>8, <3>1, <4>2 DEF RowsTidy
      <4> QED BY <4>1, <4>2
    <3> QED BY <2>9, <3>1 DEF ModelsMove
  <2> QED BY <1>2, <1>4, <1>5, <2>10, MoveKeeps DEF TablesMove
<1> QED BY <1>6, <1>7

LEMMA CommitNewModelStep ==
  ASSUME CatalogInv, NEW j \in Jobs, CommitNewModel(j)
  PROVE  CatalogInv'
<1> USE DEF CatalogInv
<1> DEFINE p == op[j].p
           m == op[j].m
           ok == provider[p] # Gone /\ model[p][m] = None
           made == IF ok THEN {m} ELSE {}
<1>1. /\ Left(j) /\ op[j].does = "createModel" /\ UNCHANGED <<provider, price, mode>>
      /\ model' = IF ok THEN [model EXCEPT ![p][m] = op[j].gives] ELSE model
      /\ GoesMaking(j, TRUE, p, made)
  BY DEF CommitNewModel, Edits, Now
<1>2. /\ serving /\ op[j] \in AdminRequests /\ p \in Providers /\ m \in Models
      /\ op[j].gives \in ModelRows /\ op[j].gives.overridden = TRUE
  BY <1>1, LeftServing, RequestKinds
<1> HIDE DEF made
<1>3. /\ Moved /\ reused' \in BOOLEAN /\ (reused => reused')
      /\ ~reused' => \A k \in Jobs, n \in made : HasRead(k)' /\ op'[k].p = p =>
           (n \in Models => copy'[k].models[n].at # "row")
  BY <1>1, GoesMakingMoves
<1>4. PricesMove /\ RecordsMove
  BY <1>1, PricesStay, RecordsStay
<1>5. CASE ~ok
  BY <1>1, <1>2, <1>3, <1>4, <1>5, ModelsStay, MoveKeeps DEF TablesMove
<1>6. CASE ok
  <2>1. model' = [model EXCEPT ![p][m] = op[j].gives] /\ model[p][m] = None /\ m \in made
    BY <1>1, <1>6 DEF made
  <2>2. /\ model'[p][m] = op[j].gives
        /\ \A q \in Providers, n \in Models : <<q, n>> # <<p, m>> => model'[q][n] = model[q][n]
    BY <1>2, <2>1 DEF Shape, CatalogTypeOK
  <2>3. model' \in [Providers -> [Models -> {None} \cup ModelRows]]
    BY <1>2, <2>1 DEF Shape, CatalogTypeOK
  <2>4. ModelsMove
    <3>1. ASSUME ~reused', NEW q \in Providers, NEW n \in Models, model'[q][n] # None
          PROVE  /\ model[q][n] # None /\ model[q][n].overridden => model'[q][n].overridden
                 /\ ~model'[q][n].overridden /\ Synchronised(q, n) => model'[q][n] = Clean(q, n)
                 /\ model[q][n] = None => \A k \in Jobs :
                      HasRead(k)' /\ op'[k].p = q => copy'[k].models[n].at # "row"
      <4>1. CASE <<q, n>> = <<p, m>>
        BY <1>2, <1>3, <2>1, <2>2, <3>1, <4>1
      <4>2. CASE <<q, n>> # <<p, m>>
        BY <1>2, <1>3, <2>2, <3>1, <4>2 DEF RowsTidy
      <4> QED BY <4>1, <4>2
    <3> QED BY <2>3, <3>1 DEF ModelsMove
  <2> QED BY <1>2, <1>3, <1>4, <2>4, MoveKeeps DEF TablesMove
<1> QED BY <1>5, <1>6

LEMMA CommitModelDeletionStep ==
  ASSUME CatalogInv, NEW j \in Jobs, CommitModelDeletion(j)
  PROVE  CatalogInv'
<1> USE DEF CatalogInv
<1>1. /\ Left(j) /\ op[j].does = "deleteModel" /\ Goes(j, TRUE) /\ UNCHANGED <<provider, price, mode>>
      /\ model' = model \/ model' = [model EXCEPT ![op[j].p][op[j].m] = None]
  BY DEF CommitModelDeletion, Edits, Now
<1>2. /\ serving /\ op[j] \in AdminRequests
      /\ op[j].p \in Providers /\ op[j].m \in Models
  BY <1>1, LeftServing, RequestKinds
<1>3. Moved /\ reused' = reused /\ reused' \in BOOLEAN
  BY <1>1, GoesMoves DEF Shape, CatalogTypeOK
<1>4. PricesMove /\ RecordsMove
  BY <1>1, PricesStay, RecordsStay
<1>5. ModelsMove
  <2>1. model' \in [Providers -> [Models -> {None} \cup ModelRows]]
    <3>1. model \in [Providers -> [Models -> {None} \cup ModelRows]]
      BY DEF Shape, CatalogTypeOK
    <3>2. [model[op[j].p] EXCEPT ![op[j].m] = None] \in [Models -> {None} \cup ModelRows]
      BY <1>2, <3>1
    <3> QED BY <1>1, <3>1, <3>2
  <2>2. \A q \in Providers, m \in Models : model'[q][m] # None => model'[q][m] = model[q][m]
    BY <1>1, <1>2 DEF Shape, CatalogTypeOK
  <2> QED BY <1>2, <1>3, <2>1, <2>2 DEF ModelsMove, RowsTidy
<1> QED BY <1>2, <1>3, <1>4, <1>5, MoveKeeps DEF TablesMove

LEMMA CommitPriceStep ==
  ASSUME CatalogInv, NEW j \in Jobs, CommitPrice(j)
  PROVE  CatalogInv'
<1> USE DEF CatalogInv
<1>1. /\ Left(j) /\ op[j].does = "patchPrice" /\ Goes(j, TRUE) /\ UNCHANGED <<provider, model, mode>>
      /\ price' = price \/ price' = [price EXCEPT ![op[j].p][op[j].m] = "manual"]
  BY DEF CommitPrice, Edits, Now
<1>2. /\ serving /\ op[j] \in AdminRequests
      /\ op[j].p \in Providers /\ op[j].m \in Models
  BY <1>1, LeftServing, RequestKinds
<1>3. Moved /\ reused' = reused /\ reused' \in BOOLEAN
  BY <1>1, GoesMoves DEF Shape, CatalogTypeOK
<1>4. ModelsMove /\ RecordsMove
  BY <1>1, <1>2, <1>3, ModelsStay, RecordsStay
<1>5. PricesMove
  <2>1. price' \in [Providers -> [Models -> Prices]]
    <3>1. price \in [Providers -> [Models -> Prices]]
      BY DEF Shape, CatalogTypeOK
    <3>2. [price[op[j].p] EXCEPT ![op[j].m] = "manual"] \in [Models -> Prices]
      BY <1>2, <3>1 DEF Prices
    <3> QED BY <1>1, <3>1, <3>2
  <2>2. ASSUME NEW q \in Providers, NEW m \in Models, price'[q][m] = "old"
        PROVE  price[q][m] = "old"
    BY <1>1, <1>2, <2>2 DEF Shape, CatalogTypeOK
  <2> QED BY <2>1, <2>2 DEF PricesMove
<1> QED BY <1>2, <1>3, <1>4, <1>5, MoveKeeps DEF TablesMove

-----------------------------------------------------------------------------
(* The invariant, and what follows from it. *)

LEMMA CatalogInvInit == CatalogInit => CatalogInv
<1> SUFFICES ASSUME CatalogInit PROVE CatalogInv
  OBVIOUS
<1>1. Shape
  BY ShapeInit
<1>2. \A j \in Jobs : ~HasRead(j)
  BY UnreadType DEF CatalogInit, HasRead
<1>3. ~serving
  BY DEF CatalogInit
<1> QED BY <1>1, <1>2, <1>3 DEF CatalogInv, RowsTidy, CopiesTidy, OverridesLast, PricesTidy

LEMMA CatalogInvNext == CatalogInv /\ [CatalogNext]_catalogVars => CatalogInv'
<1> SUFFICES ASSUME CatalogInv, [CatalogNext]_catalogVars PROVE CatalogInv'
  OBVIOUS
<1>1. CASE Startup
  BY <1>1, StartupStep
<1>2. ASSUME NEW j \in Jobs,
             AddProvider(j) \/ FindProvider(j) \/ BeginPrice(j) \/ BeginAccess(j)
      PROVE  CatalogInv'
  BY <1>2, BeginStep
<1>3. ASSUME NEW j \in Jobs, Read(j) PROVE CatalogInv'
  BY <1>3, ReadStep
<1>4. ASSUME NEW j \in Jobs, SyncModels(j) PROVE CatalogInv'
  BY <1>4, SyncModelsStep, MoveKeeps DEF Monotone
<1>5. ASSUME NEW j \in Jobs, SyncPrices(j) PROVE CatalogInv'
  BY <1>5, SyncPricesStep, MoveKeeps DEF Monotone
<1>6. ASSUME NEW j \in Jobs, CheckAccess(j) \/ CommitAccess(j) PROVE CatalogInv'
  BY <1>6, AccessStep
<1>7. ASSUME NEW j \in Jobs, CommitProvider(j) PROVE CatalogInv'
  BY <1>7, CommitProviderStep
<1>8. ASSUME NEW j \in Jobs, CommitDeletion(j) PROVE CatalogInv'
  BY <1>8, CommitDeletionStep
<1>9. ASSUME NEW j \in Jobs, CommitModel(j) PROVE CatalogInv'
  BY <1>9, CommitModelStep
<1>10. ASSUME NEW j \in Jobs, CommitNewModel(j) PROVE CatalogInv'
  BY <1>10, CommitNewModelStep
<1>11. ASSUME NEW j \in Jobs, CommitModelDeletion(j) PROVE CatalogInv'
  BY <1>11, CommitModelDeletionStep
<1>12. ASSUME NEW j \in Jobs, CommitPrice(j) PROVE CatalogInv'
  BY <1>12, CommitPriceStep
<1>13. CASE UNCHANGED catalogVars
  BY <1>13 DEF catalogVars, CatalogInv, Shape, CatalogTypeOK, InProgress, HasRead, Asleep, RowsTidy,
               CopiesTidy, OverridesLast, PricesTidy
<1> QED
  BY <1>1, <1>2, <1>3, <1>4, <1>5, <1>6, <1>7, <1>8, <1>9, <1>10, <1>11, <1>12, <1>13 DEF CatalogNext

\* The rows are of their types, and what a request has read is too, or lost.
THEOREM CatalogTypesCorrect == CatalogSpec => []CatalogTypeOK
<1>1. CatalogInv => CatalogTypeOK
  BY DEF CatalogInv, Shape
<1> QED BY <1>1, CatalogInvInit, CatalogInvNext, PTL DEF CatalogSpec

\* No synchronisation undoes what an administrator has set by hand, not even one that had
\* read the rows before, unless a row got the id of another.
THEOREM OverridesAreKept == CatalogSpec => OverridesStay
<1>1. CatalogInv /\ [CatalogNext]_catalogVars =>
        [~reused => \A p \in Providers, m \in Models :
           /\ Startup \/ (\E j \in Jobs : SyncModels(j)) => Kept(p, m)
           /\ \A j \in Jobs : SyncPrices(j) /\ ~OrphanRead(j, p, m) => Kept(p, m)]_catalogVars
  <2> SUFFICES ASSUME CatalogInv, ~reused, NEW p \in Providers, NEW m \in Models
               PROVE  /\ Startup \/ (\E j \in Jobs : SyncModels(j)) => Kept(p, m)
                      /\ \A j \in Jobs : SyncPrices(j) /\ ~OrphanRead(j, p, m) => Kept(p, m)
    OBVIOUS
  <2>1. ASSUME Startup PROVE Kept(p, m)
    BY <2>1, StartupStep DEF NothingUndone
  <2>2. ASSUME NEW j \in Jobs, SyncModels(j) PROVE Kept(p, m)
    BY <2>2, SyncModelsStep DEF NothingUndone
  <2>3. ASSUME NEW j \in Jobs, SyncPrices(j), ~OrphanRead(j, p, m) PROVE Kept(p, m)
    BY <2>3, SyncPricesStep
  <2> QED BY <2>1, <2>2, <2>3
<1> QED BY <1>1, CatalogInvInit, CatalogInvNext, PTL DEF CatalogSpec, OverridesStay

-----------------------------------------------------------------------------
(*****************************************************************************)
(* The account's own providers, for any lists of model names.                *)
(*****************************************************************************)

-----------------------------------------------------------------------------
(* What Only returns.  Induction over the positions of a sequence is the   *)
(* least-number principle, applied to the positions at which the claim     *)
(* fails.                                                                  *)

LEMMA LeastNumber ==
  ASSUME NEW S \in SUBSET Nat, S # {}
  PROVE  \E m \in S : \A k \in S : m =< k
<1> DEFINE R == {ss \in Nat \X Nat : ss[1] < ss[2]}
<1>1. IsWellFoundedOn(R, Nat)
  BY NatLessThanWellFounded DEF OpToRel
<1>2. \E x \in S : \A y \in S : ~(<<y, x>> \in R)
  <2> HIDE DEF R
  <2> QED BY <1>1, WFMin
<1>3. PICK x \in S : \A y \in S : ~(<<y, x>> \in R)
  BY <1>2
<1>4. ASSUME NEW y \in S PROVE x =< y
  <2>1. ~(y < x)
    BY <1>3
  <2> QED BY <2>1
<1> QED BY <1>4

\* The equation that the recursive function in Only has.
OnlyUpTo(s, T, f) ==
  f = [i \in 0 .. Len(s) |->
         IF i = 0 THEN << >> ELSE IF s[i] \in T THEN Append(f[i - 1], s[i]) ELSE f[i - 1]]

\* One step further in a function that has it on the first n positions.
LEMMA OnlyExists ==
  ASSUME NEW S, NEW s \in Seq(S), NEW T
  PROVE  \E f : OnlyUpTo(s, T, f)
<1> DEFINE Eq(n, f) ==
      f = [i \in 0 .. n |->
             IF i = 0 THEN << >> ELSE IF s[i] \in T THEN Append(f[i - 1], s[i]) ELSE f[i - 1]]
           Bad == {n \in Nat : n =< Len(s) /\ ~ \E f : Eq(n, f)}
<1>1. ASSUME Bad # {} PROVE FALSE
  <2>1. PICK n \in Bad : \A k \in Bad : n =< k
    BY <1>1, LeastNumber
  <2>2. CASE n = 0
    <3>1. Eq(0, [i \in 0 .. 0 |-> << >>])
      OBVIOUS
    <3> QED BY <2>1, <2>2, <3>1
  <2>3. CASE n # 0
    <3>1. n - 1 \in Nat /\ n - 1 =< Len(s) /\ n - 1 \notin Bad
      <4> HIDE DEF Eq
      <4> QED BY <2>1, <2>3
    <3>2. PICK f : Eq(n - 1, f)
      BY <3>1
    <3> DEFINE g == [i \in 0 .. n |->
             IF i = n THEN IF s[n] \in T THEN Append(f[n - 1], s[n]) ELSE f[n - 1] ELSE f[i]]
    <3>3. ASSUME NEW i \in 0 .. n
          PROVE  g[i] = IF i = 0 THEN << >> ELSE IF s[i] \in T THEN Append(g[i - 1], s[i]) ELSE g[i - 1]
      <4>1. CASE i = n
        <5>1. g[n - 1] = f[n - 1]
          BY <2>1, <2>3
        <5> QED BY <4>1, <5>1, <2>3
      <4>2. CASE i # n
        <5>1. i \in 0 .. n - 1 /\ g[i] = f[i]
          BY <4>2, <2>1
        <5>2. i # 0 => g[i - 1] = f[i - 1]
          BY <4>2, <2>1
        <5>3. f[i] = IF i = 0 THEN << >> ELSE IF s[i] \in T THEN Append(f[i - 1], s[i]) ELSE f[i - 1]
          BY <5>1, <3>2
        <5> QED BY <5>1, <5>2, <5>3
      <4> QED BY <4>1, <4>2
    <3>4. g = [i \in 0 .. n |->
             IF i = 0 THEN << >> ELSE IF s[i] \in T THEN Append(g[i - 1], s[i]) ELSE g[i - 1]]
      <4> HIDE DEF g
      <4>1. g = [i \in 0 .. n |-> g[i]]
        BY DEF g
      <4> QED BY <3>3, <4>1
    <3> QED BY <2>1, <3>4
  <2> QED BY <2>2, <2>3
<1>2. Len(s) \in Nat /\ Len(s) \notin Bad
  BY <1>1
<1>3. \E f : Eq(Len(s), f)
  BY <1>2
<1> QED BY <1>3 DEF OnlyUpTo

\* All elements of the result are of the list, and of the set.
LEMMA OnlyElements ==
  ASSUME NEW S, NEW s \in Seq(S), NEW T
  PROVE  Only(s, T) \in Seq(S \cap T)
<1> DEFINE f == CHOOSE g : OnlyUpTo(s, T, g)
<1>1. Only(s, T) = f[Len(s)]
  BY DEF Only, OnlyUpTo
<1>2. OnlyUpTo(s, T, f)
  BY OnlyExists
<1> HIDE DEF f
<1>3. ASSUME NEW i \in 0 .. Len(s)
      PROVE  f[i] = IF i = 0 THEN << >> ELSE IF s[i] \in T THEN Append(f[i - 1], s[i]) ELSE f[i - 1]
  BY <1>2 DEF OnlyUpTo
<1> DEFINE Bad == {i \in 0 .. Len(s) : f[i] \notin Seq(S \cap T)}
<1>4. ASSUME Bad # {} PROVE FALSE
  <2>1. PICK n \in Bad : \A k \in Bad : n =< k
    <3>1. Bad \in SUBSET Nat
      OBVIOUS
    <3> HIDE DEF Bad
    <3> QED BY <3>1, <1>4, LeastNumber
  <2>2. CASE n = 0
    <3>1. f[0] = << >>
      BY <1>3
    <3>2. << >> \in Seq(S \cap T)
      OBVIOUS
    <3> QED BY <2>1, <2>2, <3>1, <3>2
  <2>3. CASE n # 0
    <3>1. n - 1 \in 0 .. Len(s) /\ n - 1 \notin Bad /\ n \in 1 .. Len(s)
      BY <2>1, <2>3
    <3>2. f[n - 1] \in Seq(S \cap T) /\ s[n] \in S
      BY <3>1
    <3>3. f[n] = IF s[n] \in T THEN Append(f[n - 1], s[n]) ELSE f[n - 1]
      BY <3>1, <2>3, <1>3
    <3>4. f[n] \in Seq(S \cap T)
      <4>1. CASE s[n] \in T
        BY <4>1, <3>2, <3>3
      <4>2. CASE s[n] \notin T
        BY <4>2, <3>2, <3>3
      <4> QED BY <4>1, <4>2
    <3> QED BY <2>1, <3>4
  <2> QED BY <2>2, <2>3
<1>5. Len(s) \in 0 .. Len(s)
  OBVIOUS
<1> QED BY <1>1, <1>4, <1>5

-----------------------------------------------------------------------------
(* What a provider is known to serve. *)

LEMMA RecommendedIsList ==
  ASSUME NEW t \in Target
  PROVE  RecommendedUpstreamModels(t) \in Seq(Names)
<1>1. Preset[t.url] \in Seq(Names)
  BY ListsAssumption DEF Target
<1>2. <<"default">> \in Seq(Names)
  BY ListsAssumption
<1> QED BY <1>1, <1>2, ListsAssumption DEF RecommendedUpstreamModels

\* The models that a probe tries, and that are listed.
Candidates(t, detected) == IF detected = << >> THEN RecommendedUpstreamModels(t) ELSE detected

\* A probe that is answered names one of them.
LEMMA ProbeResult ==
  ASSUME NEW t \in Target, NEW listing \in Listings, NEW answers \in SUBSET Names,
         NEW r, r = RunProviderProbe(t, listing, answers)
  PROVE  /\ r \in Probe /\ r.at = TRUE
         /\ r.ok = "yes" => r.model \in ToSet(Candidates(t, r.detected))
<1> DEFINE detected == IF t.protocol = "anthropic" THEN Only(listing, Claudes) ELSE listing
           candidates == Candidates(t, detected)
           good == Only(candidates, answers)
<1>1. listing \in Seq(Names)
  BY ListsAssumption
<1>2. Only(listing, Claudes) \in Seq(Names \cap Claudes)
  BY <1>1, OnlyElements
<1>3. detected \in Seq(Names)
  BY <1>1, <1>2
<1>4. candidates \in Seq(Names)
  BY <1>3, RecommendedIsList DEF Candidates
<1>5. good \in Seq(ToSet(candidates) \cap answers)
  <2>1. candidates \in Seq(ToSet(candidates))
    BY <1>4 DEF ToSet
  <2> QED BY <2>1, OnlyElements
<1>6. good # << >> => Head(good) \in ToSet(candidates) /\ Head(good) \in Names
  BY <1>5
<1>7. r = [ at |-> TRUE, ok |-> IF good # << >> THEN "yes" ELSE "no",
            model |-> IF good # << >> THEN Head(good) ELSE "none",
            detail |-> IF good # << >> THEN "none"
                       ELSE IF candidates = << >> THEN "unlisted" ELSE "failed",
            detected |-> detected ]
  BY DEF RunProviderProbe, Candidates
<1> HIDE DEF good, candidates, detected
<1>8. r \in Probe /\ r.at = TRUE
  BY <1>3, <1>6, <1>7 DEF Probe
<1>9. r.ok = "yes" => r.model \in ToSet(candidates) /\ r.detected = detected
  BY <1>6, <1>7
<1> QED BY <1>8, <1>9 DEF candidates

\* The list of an active provider begins with the model it prefers, if it is among them.
LEMMA PreferredLeads ==
  ASSUME NEW t \in Target, NEW p \in Probe, p.model \in ToSet(Candidates(t, p.detected))
  PROVE  Head(ResolvedCustomProviderModels(t, p)) = p.model
<1> DEFINE models == Candidates(t, p.detected)
           others == Only(models, ToSet(models) \ {p.model})
<1>1. models \in Seq(Names)
  BY RecommendedIsList DEF Candidates, Probe
<1>2. others \in Seq(Names)
  <2>1. others \in Seq(Names \cap (ToSet(models) \ {p.model}))
    BY <1>1, OnlyElements
  <2> QED BY <2>1
<1>3. ResolvedCustomProviderModels(t, p) = <<p.model>> \o others
  BY DEF ResolvedCustomProviderModels, PreferredFirst, Candidates
<1> HIDE DEF others
<1>4. p.model \in Names \cup {"none"}
  BY DEF Probe
<1> QED BY <1>2, <1>3, <1>4

-----------------------------------------------------------------------------
(* Type correctness. *)

LEMMA UnprobedIsProbe == Unprobed \in Probe /\ Columns = {"at", "ok", "model", "detail", "detected"}
  BY DEF Unprobed, Probe, Columns

LEMMA SetProbe ==
  ASSUME NEW now \in Probe, NEW read \in Probe, NEW to \in Probe
  PROVE  Set(now, read, to) \in Probe
  BY DEF Set, Probe

LEMMA SetTarget ==
  ASSUME NEW now \in Target, NEW read \in Target, NEW to \in Target
  PROVE  Set(now, read, to) \in Target
  BY DEF Set, Target

\* What a patch writes, as far as the row is still the one it has read.
Wanted(read, p) == [c \in DOMAIN p |-> IF p[c] = Absent THEN read[c] ELSE p[c]]

LEMMA WantedIsTarget ==
  ASSUME NEW read \in Target, NEW p \in Payload
  PROVE  Wanted(read, p) \in Target
  BY DEF Wanted, Target, Payload, Absent

UserStep(j) ==
  \/ ReadToAdd(j) \/ ReadToPatch(j) \/ ReadToDelete(j) \/ ReadToProbe(j)
  \/ Add(j) \/ Patch(j) \/ Delete(j) \/ ProbeExistingUserProvider(j)

LEMMA UserNextIsStep == UserNext <=> \E j \in Calls : UserStep(j)
  BY Zenon DEF UserNext, UserStep

Orders == Adds \cup Patches \cup {Does(w) : w \in {"delete", "probe", "nothing"}}
Rows == [status : {"none", "active", "deleted"}, target : Target, probe : Probe]

\* What a request in progress has.
LEMMA OrderKinds ==
  ASSUME NEW o \in Orders
  PROVE  /\ o.does = "add" => o.target \in Target
         /\ o.does = "patch" => o.payload \in Payload
  BY DEF Orders, Adds, Patches, Does

LEMMA UserTypeInit == UserInit => ProvidersTypeOK
<1> SUFFICES ASSUME UserInit PROVE ProvidersTypeOK
  OBVIOUS
<1>1. target \in Target /\ Nowhere \in Target
  BY DEF UserInit, Nowhere
<1>2. NoOp \in Orders
  BY DEF NoOp, Orders
<1>3. Unseen \in Rows
  BY <1>1, UnprobedIsProbe DEF Unseen, Rows
<1> QED BY <1>1, <1>2, <1>3, UnprobedIsProbe DEF UserInit, ProvidersTypeOK, Orders, Rows

LEMMA ReadsType ==
  ASSUME ProvidersTypeOK, NEW j \in Calls, NEW o \in Orders, NEW found, Reads(j, o, found)
  PROVE  ProvidersTypeOK'
<1>1. Row \in Rows
  BY DEF Row, Rows, ProvidersTypeOK
<1> QED BY <1>1 DEF Reads, ProvidersTypeOK, Orders, Rows

LEMMA EndsType ==
  ASSUME ProvidersTypeOK, NEW j \in Calls, Ends(j)
  PROVE  /\ stage' \in [Calls -> {"idle", "loaded", "done"}]
         /\ call' \in [Calls -> Orders]
         /\ seen' \in [Calls -> Rows]
<1>1. NoOp \in Orders
  BY DEF NoOp, Orders
<1>2. Unseen \in Rows
  <2>1. Nowhere \in Target
    BY DEF Nowhere, ProvidersTypeOK
  <2> QED BY <2>1, UnprobedIsProbe DEF Unseen, Rows
<1>3. call \in [Calls -> Orders] /\ seen \in [Calls -> Rows]
  BY DEF ProvidersTypeOK, Orders, Rows
<1> QED BY <1>1, <1>2, <1>3 DEF Ends, ProvidersTypeOK

LEMMA CrossingType ==
  ASSUME ProvidersTypeOK, NEW j \in Calls, Crosses(j) \/ NoCrossing(j)
  PROVE  crossed' \subseteq Calls /\ torn' \in BOOLEAN
<1>1. CASE Crosses(j)
  <2>1. crossed' \subseteq Calls
    BY <1>1 DEF Crosses, ProvidersTypeOK
  <2>2. torn' \in BOOLEAN
    <3>1. CASE j \in crossed
      BY <1>1, <3>1 DEF Crosses
    <3>2. CASE j \notin crossed
      BY <1>1, <3>2 DEF Crosses
    <3> QED BY <3>1, <3>2
  <2> QED BY <2>1, <2>2
<1>2. CASE NoCrossing(j)
  BY <1>2 DEF NoCrossing, ProvidersTypeOK
<1> QED BY <1>1, <1>2

LEMMA UserTypeStep ==
  ASSUME ProvidersTypeOK, NEW j \in Calls, UserStep(j)
  PROVE  ProvidersTypeOK'
<1>r. ASSUME NEW o \in Orders, NEW found, Reads(j, o, found) PROVE ProvidersTypeOK'
  BY <1>r, ReadsType
<1>1. CASE ReadToAdd(j)
  <2>1. Adds \subseteq Orders
    BY DEF Orders
  <2> QED BY <1>1, <1>r, <2>1 DEF ReadToAdd
<1>2. CASE ReadToPatch(j)
  <2>1. Patches \subseteq Orders
    BY DEF Orders
  <2> QED BY <1>2, <1>r, <2>1 DEF ReadToPatch
<1>3. CASE ReadToDelete(j)
  <2>1. Does("delete") \in Orders
    BY DEF Orders
  <2> QED BY <1>3, <1>r, <2>1 DEF ReadToDelete
<1>4. CASE ReadToProbe(j)
  <2>1. Does("probe") \in Orders
    BY DEF Orders
  <2> QED BY <1>4, <1>r, <2>1 DEF ReadToProbe
<1>o. call[j] \in Orders /\ seen[j] \in Rows
  BY DEF ProvidersTypeOK, Orders, Rows
<1>s. seen[j].target \in Target /\ seen[j].probe \in Probe
  BY <1>o DEF Rows
<1>e. ASSUME Ends(j), Crosses(j) \/ NoCrossing(j),
             status' \in {"none", "active", "deleted"}, target' \in Target, probe' \in Probe,
             of' \in [Columns -> Target]
      PROVE  ProvidersTypeOK'
  <2>1. /\ stage' \in [Calls -> {"idle", "loaded", "done"}]
        /\ call' \in [Calls -> Orders]
        /\ seen' \in [Calls -> Rows]
    BY <1>e, EndsType
  <2>2. crossed' \subseteq Calls /\ torn' \in BOOLEAN
    BY <1>e, CrossingType
  <2> QED BY <1>e, <2>1, <2>2 DEF ProvidersTypeOK, Orders, Rows
<1>5. CASE Add(j)
  <2>1. call[j].target \in Target
    BY <1>5, <1>o, OrderKinds DEF Add, Doing
  <2>2. of' \in [Columns -> Target] /\ target' \in Target /\ probe' \in Probe
        /\ status' \in {"none", "active", "deleted"}
    BY <1>5, <2>1, UnprobedIsProbe DEF Add, ProvidersTypeOK
  <2> QED BY <1>5, <1>e, <2>2 DEF Add
<1>6. CASE Patch(j)
  <2> DEFINE p == call[j].payload
             wanted == Wanted(seen[j].target, p)
  <2>1. p \in Payload
    BY <1>6, <1>o, OrderKinds DEF Patch, Doing
  <2>2. Set(target, seen[j].target, wanted) \in Target
    BY <2>1, <1>s, WantedIsTarget, SetTarget DEF ProvidersTypeOK
  <2>3. target' \in Target
    <3>1. p.key # Absent => p.key \in Keys
      BY <2>1 DEF Payload
    <3>2. target' = IF p.key = Absent THEN Set(target, seen[j].target, wanted)
                    ELSE [Set(target, seen[j].target, wanted) EXCEPT !.key = p.key]
      BY <1>6 DEF Patch, Wanted
    <3> QED BY <2>2, <3>1, <3>2 DEF Target
  <2>4. probe' \in Probe
    <3>1. Set(probe, seen[j].probe, Unprobed) \in Probe
      BY <1>s, UnprobedIsProbe, SetProbe DEF ProvidersTypeOK
    <3> QED BY <1>6, <3>1 DEF Patch, ProvidersTypeOK
  <2>5. Crosses(j) \/ NoCrossing(j)
    BY <1>6 DEF Patch
  <2> QED BY <1>6, <1>e, <2>3, <2>4, <2>5 DEF Patch, ProvidersTypeOK
<1>7. CASE Delete(j)
  BY <1>7, <1>e DEF Delete, ProvidersTypeOK
<1>8. CASE ProbeExistingUserProvider(j)
  <2>1. PICK listing \in Listings, answers \in SUBSET Names :
          ApplyProbeResult(j, RunProviderProbe(seen[j].target, listing, answers))
    BY <1>8 DEF ProbeExistingUserProvider
  <2> DEFINE result == RunProviderProbe(seen[j].target, listing, answers)
  <2>2. result \in Probe
    BY <1>s, ProbeResult
  <2> HIDE DEF result
  <2>3. Set(probe, seen[j].probe, result) \in Probe
    BY <1>s, <2>2, SetProbe DEF ProvidersTypeOK
  <2>4. probe' \in Probe
    BY <2>1, <2>3 DEF ApplyProbeResult, Probe, result
  <2>5. of' \in [Columns -> Target]
    BY <2>1, <1>s DEF ApplyProbeResult, ProvidersTypeOK, result
  <2> QED BY <2>1, <2>4, <2>5, <1>e DEF ApplyProbeResult, ProvidersTypeOK
<1> QED BY <1>1, <1>2, <1>3, <1>4, <1>5, <1>6, <1>7, <1>8 DEF UserStep

LEMMA UserTypeNext == ProvidersTypeOK /\ [UserNext]_userVars => ProvidersTypeOK'
<1> SUFFICES ASSUME ProvidersTypeOK, [UserNext]_userVars PROVE ProvidersTypeOK'
  OBVIOUS
<1>1. CASE UNCHANGED userVars
  BY <1>1 DEF userVars, ProvidersTypeOK
<1>2. CASE UserNext
  BY <1>2, UserTypeStep, UserNextIsStep
<1> QED BY <1>1, <1>2

\* Every column of a user's provider, and all that a request keeps of it, has its type.
THEOREM ProviderTypesCorrect == UserSpec => []ProvidersTypeOK
  BY UserTypeInit, UserTypeNext, PTL DEF UserSpec

-----------------------------------------------------------------------------
(* The row and what a probe says of it.  A request that nobody has crossed *)
(* since it read the row still has its target and its probe.               *)

SeenIsRow ==
  \A j \in Calls : (stage[j] = "loaded" /\ call[j].does # "add" /\ j \notin crossed) =>
    seen[j].target = target /\ seen[j].probe = probe

\* Before there is a row, requests only add.
OnlyAdds ==
  status = "none" => \A j \in Calls : stage[j] = "loaded" => call[j].does = "add"

\* A probe that was answered names a model that is tried, and listed, for the target.
AnsweredIsCandidate ==
  (probe.ok = "yes" /\ ~torn) => probe.model \in ToSet(Candidates(target, probe.detected))

ProbeInv == ProvidersTypeOK /\ SeenIsRow /\ OnlyAdds /\ ProbeIsOfTarget /\ AnsweredIsCandidate

LEMMA ProbeInvInit == UserInit => ProbeInv
<1> SUFFICES ASSUME UserInit PROVE ProbeInv
  OBVIOUS
<1>1. ProvidersTypeOK
  BY UserTypeInit
<1>2. SeenIsRow /\ OnlyAdds
  BY DEF UserInit, SeenIsRow, OnlyAdds
<1>3. ProbeIsOfTarget /\ AnsweredIsCandidate
  BY DEF UserInit, ProbeIsOfTarget, AnsweredIsCandidate, Unprobed
<1> QED BY <1>1, <1>2, <1>3 DEF ProbeInv

\* A request that reads the row leaves it as it is.
LEMMA ReadsInv ==
  ASSUME ProbeInv, NEW j \in Calls, NEW o \in Orders, NEW found, Reads(j, o, found),
         status = "none" => o.does = "add" \/ ~found
  PROVE  ProbeInv'
<1>1. ProvidersTypeOK'
  BY ReadsType DEF ProbeInv
<1>2. UNCHANGED <<status, target, probe, crossed, torn, of>>
  BY DEF Reads
<1>3. ProbeIsOfTarget' /\ AnsweredIsCandidate'
  BY <1>2 DEF ProbeInv, ProbeIsOfTarget, AnsweredIsCandidate, Candidates, RecommendedUpstreamModels
<1>4. ASSUME NEW k \in Calls, stage'[k] = "loaded"
      PROVE  \/ stage[k] = "loaded" /\ call'[k] = call[k] /\ seen'[k] = seen[k]
             \/ k = j /\ found /\ call'[k] = o /\ seen'[k] = Row
  BY <1>4 DEF Reads, ProbeInv, ProvidersTypeOK
<1>5. SeenIsRow'
  BY <1>2, <1>4 DEF SeenIsRow, Row, ProbeInv
<1>6. OnlyAdds'
  BY <1>2, <1>4 DEF OnlyAdds, ProbeInv
<1> QED BY <1>1, <1>3, <1>5, <1>6 DEF ProbeInv

\* After a commit of j the others are where they were.
LEMMA EndsOthers ==
  ASSUME ProvidersTypeOK, NEW j \in Calls, Ends(j), NEW k \in Calls, stage'[k] = "loaded"
  PROVE  k # j /\ stage[k] = "loaded" /\ call'[k] = call[k] /\ seen'[k] = seen[k]
  BY DEF Ends, ProvidersTypeOK

\* One that leaves the target and the probe alone keeps what is said of them.
LEMMA QuietInv ==
  ASSUME ProbeInv, NEW j \in Calls, Ends(j), NoCrossing(j), ProvidersTypeOK',
         UNCHANGED <<target, probe, of>>, status' = "none" => status = "none"
  PROVE  ProbeInv'
<1>1. ProbeIsOfTarget' /\ AnsweredIsCandidate'
  BY DEF ProbeInv, ProbeIsOfTarget, AnsweredIsCandidate, Candidates, RecommendedUpstreamModels,
         NoCrossing
<1>2. SeenIsRow'
  <2> SUFFICES ASSUME NEW k \in Calls, stage'[k] = "loaded", call'[k].does # "add", k \notin crossed'
               PROVE  seen'[k].target = target' /\ seen'[k].probe = probe'
    BY DEF SeenIsRow
  <2>1. k # j /\ stage[k] = "loaded" /\ call'[k] = call[k] /\ seen'[k] = seen[k]
    BY EndsOthers DEF ProbeInv
  <2>2. k \notin crossed
    BY <2>1 DEF NoCrossing
  <2> QED BY <2>1, <2>2 DEF ProbeInv, SeenIsRow
<1>3. OnlyAdds'
  BY EndsOthers DEF ProbeInv, OnlyAdds
<1> QED BY <1>1, <1>2, <1>3 DEF ProbeInv

\* One that crosses the others leaves none of them a claim on what they have read.
LEMMA CrossingInv ==
  ASSUME ProbeInv, NEW j \in Calls, Ends(j), Crosses(j), ProvidersTypeOK', UNCHANGED status,
         ProbeIsOfTarget', AnsweredIsCandidate'
  PROVE  ProbeInv'
<1>1. SeenIsRow'
  BY EndsOthers DEF ProbeInv, SeenIsRow, Crosses
<1>2. OnlyAdds'
  BY EndsOthers DEF ProbeInv, OnlyAdds
<1> QED BY <1>1, <1>2 DEF ProbeInv

LEMMA AddInv ==
  ASSUME ProbeInv, NEW j \in Calls, Add(j), ProvidersTypeOK'
  PROVE  ProbeInv'
<1>1. CASE status = "none"
  <2>1. probe' = Unprobed /\ status' = "active"
    BY <1>1 DEF Add
  <2>2. ProbeIsOfTarget' /\ AnsweredIsCandidate'
    BY <2>1 DEF ProbeIsOfTarget, AnsweredIsCandidate, Unprobed
  <2>3. ASSUME NEW k \in Calls, stage'[k] = "loaded" PROVE call'[k].does = "add"
    BY <1>1, <2>3, EndsOthers DEF Add, ProbeInv, OnlyAdds
  <2>4. SeenIsRow' /\ OnlyAdds'
    BY <2>1, <2>3 DEF SeenIsRow, OnlyAdds
  <2> QED BY <2>2, <2>4 DEF ProbeInv
<1>2. CASE status # "none"
  BY <1>2, QuietInv DEF Add
<1> QED BY <1>1, <1>2

LEMMA PatchInv ==
  ASSUME ProbeInv, NEW j \in Calls, Patch(j), ProvidersTypeOK'
  PROVE  ProbeInv'
<1> DEFINE p == call[j].payload
           read == seen[j].target
           wanted == Wanted(read, p)
<1>o. p \in Payload /\ read \in Target /\ seen[j].probe \in Probe /\ target \in Target
  <2>1. call[j] \in Orders /\ seen[j] \in Rows
    BY DEF ProbeInv, ProvidersTypeOK, Orders, Rows
  <2> QED BY <2>1, OrderKinds DEF Patch, Doing, Rows, ProbeInv, ProvidersTypeOK
<1>1. CASE ProbeInvalidated(read, p)
  <2>1. probe' = Set(probe, seen[j].probe, Unprobed) /\ Crosses(j) /\ Ends(j) /\ UNCHANGED <<status, of>>
    BY <1>1 DEF Patch
  <2>2. ~torn' => probe' = Unprobed
    <3> SUFFICES ASSUME ~torn' PROVE probe' = Unprobed
      OBVIOUS
    <3>1. seen[j].probe = probe
      BY <2>1 DEF Crosses, ProbeInv, SeenIsRow, Patch, Doing
    <3>2. probe \in Probe
      BY DEF ProbeInv, ProvidersTypeOK
    <3> QED BY <2>1, <3>1, <3>2, UnprobedIsProbe DEF Set, Probe, Unprobed
  <2>3. ProbeIsOfTarget'
    BY <2>2 DEF ProbeIsOfTarget
  <2>4. AnsweredIsCandidate'
    BY <2>2 DEF AnsweredIsCandidate, Unprobed
  <2> QED BY <2>1, <2>3, <2>4, CrossingInv
<1>2. CASE ~ProbeInvalidated(read, p)
  <2>1. probe' = probe /\ NoCrossing(j) /\ Ends(j) /\ UNCHANGED <<status, of>>
    BY <1>2 DEF Patch
  <2>2. wanted = read
    BY <1>2, <1>o DEF ProbeInvalidated, Wanted, Payload, Target
  <2>3. target' = Set(target, read, wanted)
    BY <1>2 DEF Patch, ProbeInvalidated, Wanted
  <2>4. target' = target
    BY <2>2, <2>3, <1>o DEF Set, Target
  <2> QED BY <2>1, <2>4, QuietInv
<1> QED BY <1>1, <1>2

\* A probe that nobody has crossed writes all of its result beside the target it asked.
LEMMA ProbedInv ==
  ASSUME ProbeInv, NEW j \in Calls, ProbeExistingUserProvider(j), ProvidersTypeOK'
  PROVE  ProbeInv'
<1>1. PICK listing \in Listings, answers \in SUBSET Names :
        ApplyProbeResult(j, RunProviderProbe(seen[j].target, listing, answers))
  BY DEF ProbeExistingUserProvider
<1> DEFINE result == RunProviderProbe(seen[j].target, listing, answers)
<1>o. seen[j].target \in Target /\ seen[j].probe \in Probe /\ probe \in Probe
  <2>1. seen[j] \in Rows
    BY DEF ProbeInv, ProvidersTypeOK, Rows
  <2> QED BY <2>1 DEF Rows, ProbeInv, ProvidersTypeOK
<1>2. /\ result \in Probe /\ result.at = TRUE
      /\ result.ok = "yes" => result.model \in ToSet(Candidates(seen[j].target, result.detected))
  BY <1>o, ProbeResult
<1> HIDE DEF result
<1>3. /\ probe' = [Set(probe, seen[j].probe, result) EXCEPT !.at = TRUE]
      /\ of' = [c \in Columns |-> IF probe'[c] = result[c] THEN seen[j].target ELSE of[c]]
      /\ Crosses(j) /\ Ends(j) /\ UNCHANGED <<status, target>>
  BY <1>1 DEF ApplyProbeResult, result
<1>4. ASSUME ~torn'
      PROVE  probe' = result /\ target' = seen[j].target /\ \A c \in Columns : of'[c] = target'
  <2>1. seen[j].probe = probe /\ seen[j].target = target
    BY <1>3, <1>4 DEF Crosses, ProbeInv, SeenIsRow, ProbeExistingUserProvider, Doing
  <2>2. probe' = result
    BY <1>2, <1>3, <1>o, <2>1 DEF Set, Probe
  <2> QED BY <1>3, <2>1, <2>2
<1>5. ProbeIsOfTarget'
  BY <1>4 DEF ProbeIsOfTarget
<1>6. AnsweredIsCandidate'
  <2> SUFFICES ASSUME probe'.ok = "yes", ~torn'
               PROVE  probe'.model \in ToSet(Candidates(target', probe'.detected))
    BY DEF AnsweredIsCandidate, Candidates, RecommendedUpstreamModels
  <2> QED BY <1>2, <1>4
<1> QED BY <1>3, <1>5, <1>6, CrossingInv

LEMMA ProbeInvNext == ProbeInv /\ [UserNext]_userVars => ProbeInv'
<1> SUFFICES ASSUME ProbeInv, [UserNext]_userVars PROVE ProbeInv'
  OBVIOUS
<1>t. ProvidersTypeOK'
  BY UserTypeNext DEF ProbeInv
<1>1. CASE UNCHANGED userVars
  BY <1>1, <1>t DEF userVars, ProbeInv, SeenIsRow, OnlyAdds, ProbeIsOfTarget, AnsweredIsCandidate,
                    Candidates, RecommendedUpstreamModels
<1>2. ASSUME NEW j \in Calls, UserStep(j) PROVE ProbeInv'
  <2>1. CASE ReadToAdd(j)
    <3>1. PICK o \in Adds : Reads(j, o, status # "active")
      BY <2>1 DEF ReadToAdd
    <3>2. o \in Orders /\ o.does = "add"
      BY DEF Adds, Orders
    <3> QED BY <3>1, <3>2, ReadsInv
  <2>2. CASE ReadToPatch(j)
    <3>1. PICK o \in Patches : Reads(j, o, status = "active")
      BY <2>2 DEF ReadToPatch
    <3>2. o \in Orders
      BY DEF Orders
    <3> QED BY <3>1, <3>2, ReadsInv
  <2>3. CASE ReadToDelete(j)
    <3>1. Does("delete") \in Orders
      BY DEF Orders
    <3> QED BY <2>3, <3>1, ReadsInv DEF ReadToDelete
  <2>4. CASE ReadToProbe(j)
    <3>1. Does("probe") \in Orders
      BY DEF Orders
    <3> QED BY <2>4, <3>1, ReadsInv DEF ReadToProbe
  <2>5. CASE Add(j)
    BY <2>5, <1>t, AddInv
  <2>6. CASE Patch(j)
    BY <2>6, <1>t, PatchInv
  <2>7. CASE Delete(j)
    BY <2>7, <1>t, QuietInv DEF Delete
  <2>8. CASE ProbeExistingUserProvider(j)
    BY <2>8, <1>t, ProbedInv
  <2> QED BY <1>2, <2>1, <2>2, <2>3, <2>4, <2>5, <2>6, <2>7, <2>8 DEF UserStep
<1> QED BY <1>1, <1>2, UserNextIsStep

\* What the row says of its last probe was answered by the target it shows, unless the one
\* that wrote it last had been overtaken.
THEOREM ProbesAreOfTarget == UserSpec => []ProbeIsOfTarget
<1>1. ProbeInv => ProbeIsOfTarget
  BY DEF ProbeInv
<1> QED BY <1>1, ProbeInvInit, ProbeInvNext, PTL DEF UserSpec

\* The model that answered the last probe leads the list of an active provider.
THEOREM ProbedModelLeads == UserSpec => []LedByProbed
<1>1. ProbeInv => LedByProbed
  BY PreferredLeads DEF ProbeInv, ProvidersTypeOK, AnsweredIsCandidate, LedByProbed, ListUserCustomModels
<1> QED BY <1>1, ProbeInvInit, ProbeInvNext, PTL DEF UserSpec
=============================================================================
