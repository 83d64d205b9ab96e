---------------------------- MODULE MCHostAgent ----------------------------
(* Small instances of HostAgent for TLC. *)
EXTENDS HostAgent, TLC

CONSTANTS h1, h2

Symmetry == Permutations(Handlers)

=============================================================================
