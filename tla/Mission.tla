------------------------------ MODULE Mission ------------------------------
(***************************************************************************)
(* The two halves of MissionControl: the Pipeline that is submitted and     *)
(* checked, and the tail of events.  They share no state, so their          *)
(* interleavings reach nothing that each alone does not: a behaviour        *)
(* exercises one of them, chosen at its start.                              *)
(***************************************************************************)
EXTENDS Pipeline, EventTail

VARIABLE focus

vars == <<planVars, tailVars, focus>>

Init == PlanInit /\ TailInit /\ focus \in {"pipeline", "tail"}

Next ==
    /\ focus' = focus
    /\ \/ focus = "pipeline" /\ PlanNext /\ UNCHANGED tailVars
       \/ focus = "tail" /\ TailNext /\ UNCHANGED planVars

Spec == Init /\ [][Next]_vars /\ TailFairness
=============================================================================
