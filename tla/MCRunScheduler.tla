--------------------------- MODULE MCRunScheduler ---------------------------
(* Instances of RunScheduler for TLC.                                      *)
EXTENDS RunScheduler

CONSTANTS u1, i1, n1, n2, n3
=============================================================================
