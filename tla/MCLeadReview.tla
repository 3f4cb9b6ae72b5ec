---------------------------- MODULE MCLeadReview ----------------------------
(* Instances of LeadReview for TLC. *)
EXTENDS LeadReview, TLC

Slots == Permutations(Requests)

=============================================================================
