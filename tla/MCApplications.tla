--------------------------- MODULE MCApplications ---------------------------
(* Instances of Applications for TLC.                                      *)
EXTENDS Applications, TLC

CONSTANTS l1, l2, r1, r2, a1

\* Every lead is published under one address.
OneAddress == [l \in Leads |-> a1]

RequestSymmetry == Permutations(Requests)
LeadSymmetry == Permutations(Leads)
=============================================================================
