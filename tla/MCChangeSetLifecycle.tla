------------------------ MODULE MCChangeSetLifecycle ------------------------
(* Instances of ChangeSetLifecycle for TLC. *)
EXTENDS ChangeSetLifecycle, TLC

RequestSymmetry == Permutations(Requests)
=============================================================================
