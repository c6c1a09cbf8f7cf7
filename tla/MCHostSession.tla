---------------------------- MODULE MCHostSession ---------------------------
(* Small instances of HostSession for TLC. *)
EXTENDS HostSession, TLC

CONSTANTS h1, h2

Symmetry == Permutations(Helpers)
=============================================================================
