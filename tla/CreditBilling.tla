---------------------------- MODULE CreditBilling ----------------------------
(***************************************************************************)
(* The credit balance of one account and its ledger (BillingService), used *)
(* by chat completions, streamed or not, by the start fee and the runtime  *)
(* charge of Hermes tasks, and by the manual adjustments of an admin.      *)
(*                                                                         *)
(* Each of these runs in a database session of its own: it loads the       *)
(* account when it begins, and writes the balance it loaded less its       *)
(* charge when it ends.  Loaded attributes are never refreshed in between  *)
(* (sessions are made with expire_on_commit=False, and nothing calls       *)
(* refresh on the account), and the UPDATE sets an absolute value.  The    *)
(* flushes and the commit of a settlement are one transaction, and writing *)
(* transactions exclude each other, so a settlement is one step.           *)
(*                                                                         *)
(* Amounts are whole hundredths of a credit (CREDIT_QUANTUM).              *)
(***************************************************************************)
EXTENDS Integers

CONSTANTS
  Requests,       \* the sessions that use the account, each once
  Kinds,          \* what the sessions may be doing
  InitialCredits, \* the balance after the adjustments made before all requests
  StartFee,       \* hermes_task_start_credits
  Costs,          \* what the usage of an inference, or a runtime, may cost
  Adjustments,    \* the credits_delta an admin may enter
  MaxLosses       \* bound on disconnects, failed commits and ends of the process

Inferences == {"chat", "stream"}

ASSUME BillingParameters ==
  /\ Kinds \subseteq Inferences \cup {"task", "runtime", "adjustment"}
  /\ InitialCredits \in Nat /\ MaxLosses \in Nat
  /\ StartFee \in Nat \ {0}
  /\ Costs \subseteq Nat
  /\ Adjustments \subseteq Int

VARIABLES
  balance,    \* accounts.credit_balance
  ledger,     \* the sum of credits_delta over the account's rows of credit_ledger
  after,      \* balance_after of the last row
  pc,         \* how far each session is
  kind,       \* what it does
  loaded,     \* the credit_balance of its copy of the account
  cost,       \* what it is going to charge: minus the delta of an adjustment
  overlapped, \* history: two sessions were in use at the same time
  added,      \* history: credits were added while another session was in use
  losses

books == <<balance, ledger, after>>
history == <<overlapped, added>>
vars == <<books, pc, kind, loaded, cost, history, losses>>

InUse == {"loaded", "accepted", "ready"}
Ended == {"rejected", "failed", "lost", "charged"}

TypeOK ==
  /\ balance \in Int /\ ledger \in Int /\ after \in Int
  /\ pc \in [Requests -> {"idle"} \cup InUse \cup Ended]
  /\ kind \in [Requests -> Kinds]
  /\ loaded \in [Requests -> Int]
  /\ cost \in [Requests -> Int]
  /\ overlapped \in BOOLEAN /\ added \in BOOLEAN
  /\ losses \in Nat

Init ==
  /\ balance = InitialCredits /\ ledger = InitialCredits /\ after = InitialCredits
  /\ pc = [r \in Requests |-> "idle"]
  /\ kind \in [Requests -> Kinds]
  /\ loaded = [r \in Requests |-> 0]
  /\ cost = [r \in Requests |-> 0]
  /\ overlapped = FALSE /\ added = FALSE
  /\ losses = 0

-----------------------------------------------------------------------------
OthersInUse(r) == \E q \in Requests \ {r} : pc[q] \in InUse

\* authenticate, adjust_account_credits or _settle_runtime_usage loads the account.
Load(r) ==
  /\ pc[r] = "idle"
  /\ pc' = [pc EXCEPT ![r] = "loaded"]
  /\ loaded' = [loaded EXCEPT ![r] = balance]
  /\ overlapped' = (overlapped \/ OthersInUse(r))
  /\ UNCHANGED <<books, kind, cost, added, losses>>

\* 402, or 404 and 409 for a model that is unknown or has no price.
Reject(r) ==
  /\ pc[r] = "loaded"
  /\ kind[r] \in Inferences \cup {"task"}
  /\ pc' = [pc EXCEPT ![r] = "rejected"]
  /\ UNCHANGED <<books, kind, loaded, cost, history, losses>>

\* Mutant: no check of the balance.
AcceptAny(r) ==
  /\ pc[r] = "loaded"
  /\ kind[r] \in Inferences
  /\ pc' = [pc EXCEPT ![r] = "accepted"]
  /\ UNCHANGED <<books, kind, loaded, cost, history, losses>>

\* quote_request: the estimate is at least one hundredth, and is not more than
\* the loaded balance.  What is used later may cost more or less.
Accept(r) ==
  /\ pc[r] = "loaded"
  /\ kind[r] \in Inferences
  /\ loaded[r] >= 1
  /\ pc' = [pc EXCEPT ![r] = "accepted"]
  /\ UNCHANGED <<books, kind, loaded, cost, history, losses>>

\* The provider's answer is complete: result in hand, or all chunks sent.
Answer(r) ==
  /\ pc[r] = "accepted"
  /\ \E c \in Costs : cost' = [cost EXCEPT ![r] = c]
  /\ pc' = [pc EXCEPT ![r] = "ready"]
  /\ UNCHANGED <<books, kind, loaded, history, losses>>

\* Mutant: a failed request is left in a state that nothing handles.
ProviderHangs(r) ==
  /\ pc[r] = "accepted"
  /\ pc' = [pc EXCEPT ![r] = "failing"]
  /\ UNCHANGED <<books, kind, loaded, cost, history, losses>>

\* The provider answers with an error, before or in the middle of a stream.
ProviderFails(r) ==
  /\ pc[r] = "accepted"
  /\ pc' = [pc EXCEPT ![r] = "failed"]
  /\ UNCHANGED <<books, kind, loaded, cost, history, losses>>

\* create_task: require_credit_balance.  The runtime of a task, never zero, and an
\* adjustment are charged unseen.
Prepare(r) ==
  /\ pc[r] = "loaded"
  /\ \/ kind[r] = "task" /\ loaded[r] >= StartFee /\ cost' = [cost EXCEPT ![r] = StartFee]
     \/ kind[r] = "runtime" /\ \E c \in Costs \ {0} : cost' = [cost EXCEPT ![r] = c]
     \/ kind[r] = "adjustment" /\ \E d \in Adjustments : cost' = [cost EXCEPT ![r] = -d]
  /\ pc' = [pc EXCEPT ![r] = "ready"]
  /\ UNCHANGED <<books, kind, loaded, history, losses>>

\* Mutant: the balance is charged twice for one row of the ledger.
SettleTwice(r) ==
  /\ pc[r] = "ready"
  /\ pc' = [pc EXCEPT ![r] = "charged"]
  /\ balance' = loaded[r] - 2 * cost[r]
  /\ after' = loaded[r] - cost[r]
  /\ ledger' = ledger - cost[r]
  /\ UNCHANGED <<kind, loaded, cost, history, losses>>

\* settle_inference, record_fixed_credit_charge and record_manual_adjustment with
\* the commit.  A column that keeps its loaded value is not in the UPDATE.
Settle(r) ==
  /\ pc[r] = "ready"
  /\ pc' = [pc EXCEPT ![r] = "charged"]
  /\ balance' = IF cost[r] = 0 THEN balance ELSE loaded[r] - cost[r]
  /\ after' = loaded[r] - cost[r]
  /\ ledger' = ledger - cost[r]
  /\ added' = (added \/ (cost[r] < 0 /\ OthersInUse(r)))
  /\ UNCHANGED <<kind, loaded, cost, overlapped, losses>>

\* A client leaves its stream, and the handler is cancelled where it waits: also
\* between the last chunk and the commit.
Disconnect(r) ==
  /\ kind[r] = "stream"
  /\ pc[r] \in {"accepted", "ready"}
  /\ losses < MaxLosses
  /\ losses' = losses + 1
  /\ pc' = [pc EXCEPT ![r] = "lost"]
  /\ UNCHANGED <<books, kind, loaded, cost, history>>

\* The transaction of the settlement fails and is rolled back.
SettleFails(r) ==
  /\ pc[r] = "ready"
  /\ losses < MaxLosses
  /\ losses' = losses + 1
  /\ pc' = [pc EXCEPT ![r] = "lost"]
  /\ UNCHANGED <<books, kind, loaded, cost, history>>

\* The process ends.
Crash ==
  /\ losses < MaxLosses
  /\ losses' = losses + 1
  /\ pc' = [r \in Requests |-> IF pc[r] \in InUse THEN "lost" ELSE pc[r]]
  /\ UNCHANGED <<books, kind, loaded, cost, history>>

-----------------------------------------------------------------------------
Next ==
  \/ \E r \in Requests :
       \/ Load(r) \/ Reject(r) \/ Accept(r) \/ Answer(r) \/ ProviderFails(r)
       \/ Prepare(r) \/ Settle(r) \/ Disconnect(r) \/ SettleFails(r)
  \/ Crash

Spec == Init /\ [][Next]_vars

-----------------------------------------------------------------------------
(* Properties. *)

\* Until two sessions overlap, the balance is what the ledger adds up to and what
\* its last row says, whatever fails between load and settlement.
BalanceIsLedger == ~overlapped => (balance = ledger /\ after = balance)

\* Nobody is charged more than the ledger shows: however sessions overlap, the
\* updates that are lost are charges, until credits are added in the middle.
NothingTaken == ~added => balance >= ledger

\* The charge of a request whose balance was checked never leaves a debt of the
\* cost of a whole request, however many of them were let in by one balance.
DebtIsBounded ==
  [][\A r \in Requests :
       (pc[r] = "ready" /\ pc'[r] = "charged" /\ kind[r] \in Inferences \cup {"task"})
         => (balance' > -cost[r] \/ balance' >= balance)]_vars

\* A request is only sent to a provider while the account has credits, until two
\* sessions overlap.
FundsAtAccept ==
  [][\A r \in Requests :
       (pc[r] = "loaded" /\ pc'[r] = "accepted" /\ ~overlapped) => balance > 0]_vars

\* Every credit change that is recorded in the ledger is made to the balance
\* (README: "every credit change is recorded in `credit_ledger`").
EveryChangeIsKept == balance = ledger
=============================================================================
