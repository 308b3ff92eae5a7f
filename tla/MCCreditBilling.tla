--------------------------- MODULE MCCreditBilling ---------------------------
(* Values of the constants of CreditBilling for TLC. *)
EXTENDS CreditBilling, TLC

CONSTANTS r1, r2, r3

MCRequests == {r1, r2, r3}
MCCosts == {0, 4}
MCAdjustments == {-2, 5}
AllKinds == {"chat", "stream", "task", "runtime", "adjustment"}
ChargesOnly == {"chat", "stream", "task"}

Symmetry == Permutations(MCRequests)
=============================================================================
