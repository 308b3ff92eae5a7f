------------------------- MODULE MCHermesEventStream -------------------------
(* Values of the constants of HermesEventStream for TLC. *)
EXTENDS HermesEventStream, TLC

CONSTANTS c1, c2

MCClients == {c1, c2}

Symmetry == Permutations(MCClients)
=============================================================================
