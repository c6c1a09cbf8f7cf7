---------------------------- MODULE MCHostServer ----------------------------
(* Small instances of HostServer for TLC. *)
EXTENDS HostServer, TLC

CONSTANTS c1, c2, c3
=============================================================================
