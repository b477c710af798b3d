---------------------------- MODULE MCLeaseStore ----------------------------
(* LeaseStore for TLC: a few processes, interchangeable. *)
EXTENDS LeaseStore, TLC

Symmetry == Permutations(Process)

=============================================================================
