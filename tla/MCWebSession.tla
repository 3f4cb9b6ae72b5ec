---------------------------- MODULE MCWebSession ----------------------------
(* Instances of WebSession for TLC.                                        *)
EXTENDS WebSession, TLC

TabSymmetry == Permutations(Tabs)
=============================================================================
