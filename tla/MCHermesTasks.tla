---------------------------- MODULE MCHermesTasks ----------------------------
(* Values of the constants of HermesTasks for TLC. *)
EXTENDS HermesTasks

CONSTANTS w1, w2, c1

MCWorkers == {w1, w2}
MCCancels == {c1}
=============================================================================
