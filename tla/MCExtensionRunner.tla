-------------------------- MODULE MCExtensionRunner --------------------------
(***************************************************************************)
(* Instances of ExtensionRunner for TLC.                                   *)
(***************************************************************************)
EXTENDS ExtensionRunner, TLC

Symmetric == Permutations(Apps)
=============================================================================
