-------------------------- MODULE MCFirestoreInbox --------------------------
(* FirestoreInbox for TLC: a few interchangeable items. *)
EXTENDS FirestoreInbox, TLC

Symmetry == Permutations(Item)

=============================================================================
