------------------------------- MODULE Client -------------------------------
(***************************************************************************)
(* The concerns of a Client: which Ability a call reaches, what arguments it *)
(* carries, how their values travel, on which transport, and whose agent a    *)
(* bare id names.  A behaviour exercises one of them, chosen at its start.    *)
(***************************************************************************)
EXTENDS Discovery, Transports, Arguments, Values, Agents

VARIABLE focus

vars == <<discoveryVars, transportVars, argumentVars, valueVars, agentVars, focus>>

Init ==
    /\ DiscoveryInit /\ TransportsInit /\ ArgumentsInit /\ ValuesInit /\ AgentsInit
    /\ focus \in {"discovery", "transports", "arguments", "values", "agents"}

Next ==
    /\ focus' = focus
    /\ \/ /\ focus = "discovery" /\ DiscoveryNext
          /\ UNCHANGED <<transportVars, argumentVars, valueVars, agentVars>>
       \/ /\ focus = "transports" /\ TransportsNext
          /\ UNCHANGED <<discoveryVars, argumentVars, valueVars, agentVars>>
       \/ /\ focus = "arguments" /\ ArgumentsNext
          /\ UNCHANGED <<discoveryVars, transportVars, valueVars, agentVars>>
       \/ /\ focus = "values" /\ ValuesNext
          /\ UNCHANGED <<discoveryVars, transportVars, argumentVars, agentVars>>
       \/ /\ focus = "agents" /\ AgentsNext
          /\ UNCHANGED <<discoveryVars, transportVars, argumentVars, valueVars>>

Spec == Init /\ [][Next]_vars
=============================================================================
