-------------------------- MODULE MCHostReconcile --------------------------
(* Small instances of HostReconcile for TLC. *)
EXTENDS HostReconcile, TLC

CONSTANTS p1, p2, a, b, c

Symmetry == Permutations(Procs) \cup Permutations(PeerLists)

=============================================================================
