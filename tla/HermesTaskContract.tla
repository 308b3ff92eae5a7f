------------------------- MODULE HermesTaskContract -------------------------
(***************************************************************************)
(* What the gateway promises about a Hermes task, whatever the queue, the  *)
(* workers, the cancel handlers and crashes do: an accepted task may be    *)
(* submitted to Hermes again and again until it ends, never afterwards,    *)
(* and once it has ended its runtime is charged at most once, and only if  *)
(* it was submitted.  HermesTasks implements this specification.           *)
(***************************************************************************)
EXTENDS Naturals

CONSTANT Tasks

VARIABLES
  phase,       \* of each task: "absent", "open" or "ended"
  submissions, \* times each task was submitted to Hermes
  charges      \* times its runtime was charged

vars == <<phase, submissions, charges>>

Init ==
  /\ phase = [t \in Tasks |-> "absent"]
  /\ submissions = [t \in Tasks |-> 0]
  /\ charges = [t \in Tasks |-> 0]

Accept(t) ==
  /\ phase[t] = "absent"
  /\ phase' = [phase EXCEPT ![t] = "open"]
  /\ UNCHANGED <<submissions, charges>>

Submit(t) ==
  /\ phase[t] = "open"
  /\ submissions' = [submissions EXCEPT ![t] = @ + 1]
  /\ UNCHANGED <<phase, charges>>

End(t) ==
  /\ phase[t] = "open"
  /\ phase' = [phase EXCEPT ![t] = "ended"]
  /\ UNCHANGED <<submissions, charges>>

Charge(t) ==
  /\ phase[t] = "ended"
  /\ submissions[t] > 0
  /\ charges[t] = 0
  /\ charges' = [charges EXCEPT ![t] = 1]
  /\ UNCHANGED <<phase, submissions>>

Next == \E t \in Tasks : Accept(t) \/ Submit(t) \/ End(t) \/ Charge(t)

Spec == Init /\ [][Next]_vars
=============================================================================
