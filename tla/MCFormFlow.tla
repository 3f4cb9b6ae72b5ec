----------------------------- MODULE MCFormFlow -----------------------------
(***************************************************************************)
(* Instances of FormFlow for TLC.                                          *)
(***************************************************************************)
EXTENDS FormFlow, TLC

Symmetric == Permutations(Tabs)
=============================================================================
