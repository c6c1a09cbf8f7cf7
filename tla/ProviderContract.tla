-------------------------- MODULE ProviderContract --------------------------
(***************************************************************************)
(* What ComputeNode promises of its lifecycle (node.py, _ProviderState):   *)
(* five states, a generation that counts the starts and the shutdowns, and *)
(* a host that accepts invocations.  The host opens only while starting    *)
(* and closes only while stopping or failed; a provider is ACTIVE only     *)
(* with an open host, fails only from STARTING or ACTIVE, leaves FAILED    *)
(* only through a shutdown, and is STOPPED only once the host is closed.   *)
(* Provider implements it with threads, locks and a lease worker.          *)
(***************************************************************************)
EXTENDS Naturals

VARIABLES
    state,          \* the lifecycle state
    generation,     \* starts and shutdowns so far
    serving         \* the host has a listener

contractVars == <<state, generation, serving>>

Init ==
    /\ state = "STOPPED"
    /\ generation = 0
    /\ serving = FALSE

Start ==
    /\ state = "STOPPED"
    /\ state' = "STARTING"
    /\ generation' = generation + 1
    /\ UNCHANGED serving

OpenHost ==
    /\ state = "STARTING"
    /\ serving' = TRUE
    /\ UNCHANGED <<state, generation>>

Activate ==
    /\ state = "STARTING"
    /\ serving
    /\ state' = "ACTIVE"
    /\ UNCHANGED <<generation, serving>>

Fail ==
    /\ state \in {"STARTING", "ACTIVE"}
    /\ serving
    /\ state' = "FAILED"
    /\ UNCHANGED <<generation, serving>>

Shutdown ==
    /\ state \in {"STARTING", "ACTIVE", "FAILED"}
    /\ state' = "STOPPING"
    /\ generation' = generation + 1
    /\ UNCHANGED serving

CloseHost ==
    /\ state \in {"STOPPING", "FAILED"}
    /\ serving' = FALSE
    /\ UNCHANGED <<state, generation>>

Settle ==
    /\ state = "STOPPING"
    /\ ~serving
    /\ state' = "STOPPED"
    /\ UNCHANGED <<generation, serving>>

Next ==
    \/ Start \/ OpenHost \/ Activate \/ Fail \/ Shutdown \/ CloseHost \/ Settle

Spec == Init /\ [][Next]_contractVars

EndStart == state = "STARTING" /\ (Activate \/ Fail \/ Shutdown)

\* A start ends, a shutdown ends, and a failed provider closes its host.
Fairness ==
    /\ WF_contractVars(EndStart)
    /\ WF_contractVars(Settle)
    /\ WF_contractVars(CloseHost)

FairSpec == Spec /\ Fairness

=============================================================================
