---------------------------- MODULE MCJobTracker ----------------------------
(* Instances of JobTracker for TLC.                                        *)
EXTENDS JobTracker, TLC

Symmetry == Permutations(Jobs) \cup Permutations(Requests) \cup Permutations(Agents)
=============================================================================
