----------------------------- MODULE MCProvider -----------------------------
(* Small instances of Provider for TLC. *)
EXTENDS ProviderInv, TLC

CONSTANTS a, b, c, x, y

\* One ability registered by a; a and b start and stop.
OneAbility == [t \in Threads |-> IF t = a THEN {x} ELSE {}]

\* Two abilities, each with a thread of its own that registers it.
OwnNames == [t \in Threads |-> IF t = a THEN {x} ELSE IF t = b THEN {y} ELSE {}]
=============================================================================
