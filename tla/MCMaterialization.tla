-------------------------- MODULE MCMaterialization --------------------------
(* One content item, interchangeable workers and attachments. *)
EXTENDS Notifications, TLC

Symmetry == Permutations(Workers) \cup Permutations(Assets)
=============================================================================
