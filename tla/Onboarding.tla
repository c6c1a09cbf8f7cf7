----------------------------- MODULE Onboarding -----------------------------
(***************************************************************************)
(* How a provider finds the Runtime of its device and its own identity       *)
(* (runtime_provider.py, config.py, identity.py): both are files below a     *)
(* state root, which is picked once per process by looking at which roots    *)
(* exist, and picked anew after a first run has bootstrapped one.  Several    *)
(* providers of a process connect at the same time, the operator overrides   *)
(* paths, and other programs create and delete files.  A path stands for its *)
(* root, and the daemon of a root is reached when its control file is there. *)
(***************************************************************************)
EXTENDS Naturals

CONSTANTS
    Providers,      \* the threads that connect
    MaxChanges      \* bound: what the operator and other programs change

VARIABLES
    present,        \* [Roots -> the files that are there]
    environ,        \* the paths that are set in the environment
    bootRoot,       \* the root that the SDK bootstraps
    settings,       \* config._settings
    configured,     \* config._configured
    changes,        \* how often they did
    provider        \* [Providers -> the last connect()]; `disturbed' is a history: the
                    \* operator or another program changed something since it began, or
                    \* before, and it works with what was resolved before that

onboardingVars == <<present, environ, bootRoot, settings, configured, changes,
                    provider>>
connectVars == <<present, environ, bootRoot, configured, changes>>

Fields == {"control", "credentials"}

\* The desktop's root, the SDK's, and one that the operator names.
Roots == {"desktop", "sdk", "named"}

NoSettings == [f \in {} |-> ""]
Unconnected == [pc |-> "idle", reads |-> "", identity |-> "", connection |-> "",
                booted |-> FALSE, disturbed |-> FALSE]

OnboardingInit ==
    /\ present \in [Roots -> SUBSET Fields]
    /\ environ \in SUBSET Fields
    /\ bootRoot \in {"desktop", "sdk"}
    /\ settings = NoSettings /\ configured = {} /\ changes = 0
    /\ provider = [p \in Providers |-> Unconnected]

----------------------------------------------------------------------------
(* config.py, under its lock                                                *)

\* _default_runtime_state_root()
DefaultRoot == IF present["desktop"] # {} THEN "desktop" ELSE "sdk"

\* Without a path of their own, the credentials are beside the control file.
FromEnvironment ==
    LET control == IF "control" \in environ THEN "named" ELSE DefaultRoot IN
    [control |-> control,
     credentials |-> IF "credentials" \in environ THEN "named" ELSE control]

Current == IF settings = NoSettings THEN FromEnvironment ELSE settings

\* Mutant: what was resolved stays.
NotRediscovered == settings

\* What the operator configured stays.
Rediscovered ==
    IF settings = NoSettings THEN settings
    ELSE [f \in Fields |-> IF f \in configured THEN settings[f] ELSE FromEnvironment[f]]

----------------------------------------------------------------------------
(* connect()                                                                *)

Underway(p) == provider[p].pc \notin {"idle", "connected", "unpaired", "raised"}

Go(p, pc) == provider' = [provider EXCEPT ![p].pc = pc]

\* Nothing that was resolved or begun before the last change is in use.
Afresh == settings = Rediscovered /\ \A p \in Providers : ~Underway(p)

\* The call raises; what it had in hand is gone.
Raise(p) ==
    provider' = [provider EXCEPT ![p] = [Unconnected EXCEPT !.pc = "raised",
                                        !.disturbed = provider[p].disturbed]]

BeginConnect(p) ==
    /\ ~Underway(p)
    /\ provider' = [provider EXCEPT ![p] = [Unconnected EXCEPT !.pc = "load",
                         !.disturbed = provider[p].disturbed /\ ~Afresh]]
    /\ UNCHANGED <<connectVars, settings>>

\* LocalIdentity.load() takes the path from the settings ...  It looks at them once more,
\* inside sdk_environment(): they exist by then, so that changes nothing, and what it takes
\* from them is not where the identity is read.
LoadPath(p) ==
    /\ provider[p].pc = "load"
    /\ settings' = Current
    /\ provider' = [provider EXCEPT ![p].pc = "read", ![p].reads = Current.credentials]
    /\ UNCHANGED connectVars

\* ... and reads the identity there.
ReadIdentity(p) ==
    /\ provider[p].pc = "read"
    /\ "credentials" \in present[provider[p].reads]
    /\ provider' = [provider EXCEPT ![p].pc = "environment",
                                    ![p].reads = "", ![p].identity = provider[p].reads]
    /\ UNCHANGED <<connectVars, settings>>

\* Without one the Runtime is bootstrapped, once.
NotPaired(p) ==
    /\ provider[p].pc = "read"
    /\ "credentials" \notin present[provider[p].reads]
    /\ provider' = [provider EXCEPT ![p].reads = "",
            ![p].pc = IF provider[p].booted THEN "unpaired" ELSE "bootstrap"]
    /\ UNCHANGED <<connectVars, settings>>

\* An identity that is present but unusable is not repaired.
Unusable(p) ==
    /\ provider[p].pc = "read" /\ "credentials" \in present[provider[p].reads]
    /\ Raise(p)
    /\ UNCHANGED <<connectVars, settings>>

\* The SDK writes one file after the other, unless another provider did.
Bootstrap(p) ==
    /\ provider[p].pc = "bootstrap"
    /\ \E f \in Fields \ present[bootRoot] :
         present' = [present EXCEPT ![bootRoot] = @ \cup {f}]
    /\ UNCHANGED <<environ, bootRoot, configured, changes, settings, provider>>

Bootstrapped(p) ==
    /\ provider[p].pc = "bootstrap" /\ present[bootRoot] = Fields
    /\ provider' = [provider EXCEPT ![p].pc = "rediscover", ![p].booted = TRUE]
    /\ UNCHANGED <<connectVars, settings>>

BootstrapFails(p) ==
    /\ provider[p].pc = "bootstrap" /\ Raise(p)
    /\ UNCHANGED <<connectVars, settings>>

Rediscover(p) ==
    /\ provider[p].pc = "rediscover"
    /\ settings' = Rediscovered /\ Go(p, "load")
    /\ UNCHANGED connectVars

\* sdk_environment() takes the control path from the settings ...
Environment(p) ==
    /\ provider[p].pc = "environment"
    /\ settings' = Current
    /\ provider' = [provider EXCEPT ![p].pc = "open", ![p].reads = Current.control]
    /\ UNCHANGED connectVars

\* ... and the connection is opened to the daemon there, if it can be.
OpenConnection(p) ==
    /\ provider[p].pc = "open"
    /\ \/ /\ "control" \in present[provider[p].reads]
          /\ provider' = [provider EXCEPT ![p].pc = "connected", ![p].reads = "",
                                          ![p].connection = provider[p].reads]
       \/ Raise(p)
    /\ UNCHANGED <<connectVars, settings>>

----------------------------------------------------------------------------
(* The operator and other programs                                          *)

Disturb ==
    /\ changes < MaxChanges /\ changes' = changes + 1
    /\ provider' = [p \in Providers |-> [provider[p] EXCEPT !.disturbed = TRUE]]

\* configure()
Configure(fields) ==
    /\ settings' = [f \in Fields |-> IF f \in fields THEN "named" ELSE Current[f]]
    /\ configured' = configured \cup fields
    /\ Disturb
    /\ UNCHANGED <<present, environ, bootRoot>>

Appears(r, f) ==
    /\ f \notin present[r] /\ present' = [present EXCEPT ![r] = @ \cup {f}]
    /\ Disturb
    /\ UNCHANGED <<environ, bootRoot, settings, configured>>

Vanishes(r, f) ==
    /\ f \in present[r] /\ present' = [present EXCEPT ![r] = @ \ {f}]
    /\ Disturb
    /\ UNCHANGED <<environ, bootRoot, settings, configured>>

OnboardingNext ==
    \/ \E p \in Providers :
         \/ BeginConnect(p) \/ LoadPath(p) \/ ReadIdentity(p) \/ NotPaired(p) \/ Unusable(p)
         \/ Bootstrap(p) \/ Bootstrapped(p) \/ BootstrapFails(p) \/ Rediscover(p)
         \/ Environment(p) \/ OpenConnection(p)
    \/ \E fields \in (SUBSET Fields) \ {{}} : Configure(fields)
    \/ \E r \in Roots, f \in Fields : Appears(r, f) \/ Vanishes(r, f)

OnboardingSpec == OnboardingInit /\ [][OnboardingNext]_onboardingVars

----------------------------------------------------------------------------
(* Properties                                                               *)

\* The paths were not overridden one without the other.
Together == configured \in {{}, Fields} /\ "credentials" \notin environ

\* The SDK bootstraps the root that the process then looks at.
BootRootIsSeen ==
    configured = {} /\ environ = {} /\ (bootRoot = "desktop" \/ present["desktop"] = {})

\* A provider acts under the identity of the very Runtime that it is connected to, also
\* when several are onboarded by one first run; and a first run that bootstrapped an
\* identity finds it, although the root had been picked before it existed.
OnboardedAsOne ==
    \A p \in Providers : ~provider[p].disturbed =>
      /\ provider[p].pc = "connected" /\ Together =>
           provider[p].connection = provider[p].identity
      /\ provider[p].pc = "unpaired" => ~BootRootIsSeen
=============================================================================
