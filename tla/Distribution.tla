---------------------------- MODULE Distribution ----------------------------
(***************************************************************************)
(* How a provider finds its device, how code reaches it and stays there, and *)
(* how facades reach a caller: onboarding, the installation of an ability,   *)
(* the lease of its binding and the installation of a library.  They share   *)
(* no state here; a behaviour exercises one of them, chosen at its start.    *)
(***************************************************************************)
EXTENDS Onboarding, Staging, Leasing, Library

VARIABLE focus

vars == <<onboardingVars, stagingVars, leaseVars, libraryVars, focus>>

Init ==
    /\ OnboardingInit /\ StagingInit /\ LeasingInit /\ LibraryInit
    /\ focus \in {"onboarding", "staging", "leasing", "library"}
    /\ focus # "onboarding" =>      \* nothing of it is looked at
         present = [r \in Roots |-> {}] /\ environ = {} /\ bootRoot = "sdk"

Next ==
    /\ focus' = focus
    /\ \/ /\ focus = "onboarding" /\ OnboardingNext
          /\ UNCHANGED <<stagingVars, leaseVars, libraryVars>>
       \/ /\ focus = "staging" /\ StagingNext
          /\ UNCHANGED <<onboardingVars, leaseVars, libraryVars>>
       \/ /\ focus = "leasing" /\ LeasingNext
          /\ UNCHANGED <<onboardingVars, stagingVars, libraryVars>>
       \/ /\ focus = "library" /\ LibraryNext
          /\ UNCHANGED <<onboardingVars, stagingVars, leaseVars>>

Spec == Init /\ [][Next]_vars /\ StagingFairness
=============================================================================
