---------------------------- MODULE MCGatewayKeys ----------------------------
(* Values of the constants of GatewayKeys for TLC. *)
EXTENDS GatewayKeys, TLC

CONSTANTS j1, j2, j3

MCJobs == {j1, j2, j3}
Symmetry == Permutations(MCJobs)
=============================================================================
