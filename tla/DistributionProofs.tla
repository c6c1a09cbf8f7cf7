------------------------- MODULE DistributionProofs -------------------------
(***************************************************************************)
(* What is distributed to a device and by it: the daemon and the root that   *)
(* it connects through (Onboarding), the bundles that it deploys (Staging),  *)
(* the bindings that its worker renews (Leasing) and the facades of the      *)
(* libraries that it imports (Library), each for any value of its constants. *)
(***************************************************************************)
EXTENDS Distribution, TLAPS

-----------------------------------------------------------------------------
(* Onboarding: the invariant                                                *)

UnderwaySteps == {"load", "read", "bootstrap", "rediscover", "environment", "open"}

Connects ==
    [pc : UnderwaySteps \cup {"idle", "connected", "unpaired", "raised"},
     reads : Roots \cup {""}, identity : Roots \cup {""}, connection : Roots \cup {""},
     booted : BOOLEAN, disturbed : BOOLEAN]

OnboardingTypeOK ==
    /\ present \in [Roots -> SUBSET Fields]
    /\ environ \in SUBSET Fields /\ configured \in SUBSET Fields
    /\ bootRoot \in {"desktop", "sdk"}
    /\ settings \in [Fields -> Roots] \cup {NoSettings}
    /\ provider \in [Providers -> Connects]

\* Settings that a process may have resolved: what is configured is named, and the
\* rest is of one root.
Agreed(resolved) ==
    /\ \A f \in configured : resolved[f] = "named"
    /\ configured = {} /\ "credentials" \notin environ =>
         /\ resolved["credentials"] = resolved["control"]
         /\ resolved["control"] = "named" <=> "control" \in environ

\* Nobody gets far without settings, and they stay.
SettingsAgree ==
    IF settings = NoSettings
    THEN /\ configured = {}
         /\ \A p \in Providers : Underway(p) => provider[p].pc = "load" /\ ~provider[p].booted
    ELSE Agreed(settings)

\* The root is picked by looking at which exist.
Picking == configured = {} /\ "control" \notin environ

\* The desktop's root was made by a first run, for want of an identity in the SDK's.
Overtaken == bootRoot = "desktop" /\ "credentials" \notin present["sdk"]

\* The root of the settings is the one that would be picked now, unless it was overtaken.
RootHolds(root) ==
    Picking =>
      /\ root = "desktop" => present["desktop"] # {}
      /\ root = "sdk" /\ present["desktop"] # {} => Overtaken

\* What a provider under way has learnt still agrees with the settings and the files.
Follows(q, root) ==
    /\ q.pc = "read" =>
         \/ q.reads = root
         \/ q.reads = "sdk" /\ root = "desktop" /\ Picking /\ Overtaken
    /\ q.pc = "bootstrap" /\ Picking =>
         bootRoot = "sdk" \/ present["desktop"] # {} \/ Overtaken
    /\ q.pc = "environment" => q.identity = root /\ "credentials" \in present[root]
    /\ q.pc = "open" => q.reads = q.identity
    /\ q.pc \in UnderwaySteps /\ q.booted /\ BootRootIsSeen =>
         /\ present[bootRoot] = Fields
         /\ q.pc # "rediscover" => root = bootRoot
         /\ q.pc = "read" => q.reads = bootRoot

\* While nothing has disturbed somebody, nothing has disturbed what anybody under way
\* has seen.
Steady ==
    Together /\ (\E p \in Providers : ~provider[p].disturbed) =>
      LET root == settings["control"] IN
      /\ settings # NoSettings => RootHolds(root)
      /\ \A p \in Providers : Underway(p) => Follows(provider[p], root)

\* OnboardedAsOne of one provider.
Onboarded(q) ==
    ~q.disturbed =>
      /\ q.pc = "connected" /\ Together => q.connection = q.identity
      /\ q.pc = "unpaired" => ~BootRootIsSeen

OnboardingInv ==
    OnboardingTypeOK /\ SettingsAgree /\ Steady /\ \A p \in Providers : Onboarded(provider[p])

-----------------------------------------------------------------------------
(* Onboarding: the settings                                                 *)

\* What the environment gives names a root for each path, of one root unless the
\* credentials have a path of their own.
LEMMA EnvironmentAgrees ==
    /\ FromEnvironment \in [Fields -> Roots] /\ NoSettings \notin [Fields -> Roots]
    /\ configured = {} => Agreed(FromEnvironment)
    /\ "credentials" \notin environ => FromEnvironment["credentials"] = FromEnvironment["control"]
    /\ Picking => FromEnvironment["control"] = DefaultRoot
    /\ FromEnvironment.control = FromEnvironment["control"]
    /\ FromEnvironment.credentials = FromEnvironment["credentials"]
<1>1. /\ FromEnvironment \in [Fields -> Roots]
      /\ FromEnvironment["control"] = IF "control" \in environ THEN "named" ELSE DefaultRoot
      /\ FromEnvironment["credentials"] =
           IF "credentials" \in environ THEN "named" ELSE FromEnvironment["control"]
      /\ FromEnvironment.control = FromEnvironment["control"]
      /\ FromEnvironment.credentials = FromEnvironment["credentials"]
  BY DEF FromEnvironment, Fields, Roots, DefaultRoot
<1>2. NoSettings \notin [Fields -> Roots]
  BY DEF NoSettings, Fields
<1>3. DefaultRoot # "named"
  BY DEF DefaultRoot
<1>. QED  BY <1>1, <1>2, <1>3 DEF Agreed, Picking

\* Of a path in the settings, and of settings that were resolved.
LEMMA SettingsTypes ==
    ASSUME OnboardingTypeOK
    PROVE  /\ settings # NoSettings => settings \in [Fields -> Roots]
           /\ Current = (IF settings = NoSettings THEN FromEnvironment ELSE settings)
           /\ Current \in [Fields -> Roots] /\ Current # NoSettings
           /\ Current.control = Current["control"] /\ Current.credentials = Current["credentials"]
<1>1. settings # NoSettings => settings \in [Fields -> Roots]
  BY DEF OnboardingTypeOK
<1>2. Current = (IF settings = NoSettings THEN FromEnvironment ELSE settings)
  BY DEF Current
<1>3. Current \in [Fields -> Roots] /\ Current # NoSettings
  BY <1>1, <1>2, EnvironmentAgrees
<1>. QED  BY <1>1, <1>2, <1>3

\* Picking a root anew keeps what is configured, and names the root that is picked now.
LEMMA RediscoveredAgrees ==
    ASSUME OnboardingTypeOK, settings # NoSettings, Agreed(settings)
    PROVE  /\ Rediscovered \in [Fields -> Roots] /\ Agreed(Rediscovered)
           /\ Picking => Rediscovered["control"] = DefaultRoot
           /\ Together /\ ~Picking => Rediscovered["control"] = settings["control"]
<1>1. /\ Rediscovered = [f \in Fields |-> IF f \in configured THEN settings[f] ELSE FromEnvironment[f]]
      /\ settings \in [Fields -> Roots] /\ FromEnvironment \in [Fields -> Roots]
  BY SettingsTypes, EnvironmentAgrees DEF Rediscovered
<1>2. /\ Rediscovered \in [Fields -> Roots]
      /\ \A f \in Fields : Rediscovered[f] = IF f \in configured THEN settings[f] ELSE FromEnvironment[f]
  BY <1>1
<1>3. "control" \in Fields /\ "credentials" \in Fields /\ configured \subseteq Fields
  BY DEF Fields, OnboardingTypeOK
<1>4. Agreed(Rediscovered)
  BY <1>2, <1>3, EnvironmentAgrees DEF Agreed
<1>5. Picking => Rediscovered["control"] = DefaultRoot
  BY <1>2, <1>3, EnvironmentAgrees DEF Picking
<1>6. ASSUME Together, ~Picking PROVE Rediscovered["control"] = settings["control"]
  <2>1. CASE configured = Fields
    BY <1>2, <1>3, <2>1
  <2>2. CASE configured = {} /\ "control" \in environ
    BY <1>2, <1>3, <2>2, <1>6, EnvironmentAgrees DEF Agreed, Together
  <2>. QED  BY <1>6, <2>1, <2>2 DEF Together, Picking
<1>. QED  BY <1>2, <1>4, <1>5, <1>6

\* The root that is picked now is the one that the settings name, or has overtaken it; what
\* a provider under way has learnt agrees with it too.
LEMMA RootPicked ==
    ASSUME OnboardingTypeOK, Together, settings # NoSettings, Agreed(settings),
           RootHolds(settings["control"]),
           NEW now, now = IF Picking THEN DefaultRoot ELSE settings["control"]
    PROVE  /\ RootHolds(now)
           /\ BootRootIsSeen /\ present[bootRoot] = Fields => now = bootRoot
           /\ \A q \in Connects : Follows(q, settings["control"]) => Follows(q, now)
<1> DEFINE root == settings["control"]
<1>1. RootHolds(now)
  BY DEF RootHolds, DefaultRoot
<1>2. Picking => root \in {"desktop", "sdk"}
  <2>1. settings["control"] \in Roots
    BY SettingsTypes DEF Fields
  <2>. QED  BY <2>1 DEF Agreed, Picking, Together, Roots
<1>3. BootRootIsSeen /\ present[bootRoot] = Fields => now = bootRoot
  BY DEF BootRootIsSeen, Picking, DefaultRoot, Fields, OnboardingTypeOK
<1>4. Picking => \/ now = root
                 \/ root = "sdk" /\ now = "desktop" /\ present["desktop"] # {} /\ Overtaken
  BY <1>2 DEF RootHolds, DefaultRoot
<1>5. ASSUME NEW q \in Connects, Follows(q, root) PROVE Follows(q, now)
  <2>1. CASE now = root
    BY <1>5, <2>1
  <2>2. CASE Picking /\ root = "sdk" /\ now = "desktop" /\ present["desktop"] # {} /\ Overtaken
    <3>1. q.pc # "environment"
      BY <1>5, <2>2 DEF Follows, Overtaken
    <3> HIDE DEF root
    <3>. QED  BY <1>3, <1>5, <2>2, <3>1 DEF Follows
  <2>. QED  BY <1>4, <2>1, <2>2
<1>. QED  BY <1>1, <1>3, <1>5

-----------------------------------------------------------------------------
(* Onboarding: the steps                                                    *)

\* A step of one provider under way: what it has learnt, and what the others still have.
LEMMA ProviderKeeps ==
    ASSUME OnboardingInv, NEW p \in Providers, NEW next \in Connects,
           provider' = [provider EXCEPT ![p] = next], UNCHANGED connectVars,
           settings' \in [Fields -> Roots] \cup {NoSettings},
           settings # NoSettings => settings' # NoSettings,
           settings' # NoSettings => Agreed(settings'),
           settings' = NoSettings /\ next.pc \in UnderwaySteps => next.pc = "load" /\ ~next.booted,
           next.disturbed = provider[p].disturbed,
           Together /\ (\E u \in Providers : ~provider[u].disturbed) =>
             /\ settings' # NoSettings => RootHolds(settings'["control"])
             /\ \A u \in Providers \ {p} : Underway(u) => Follows(provider[u], settings'["control"])
             /\ next.pc \in UnderwaySteps => Follows(next, settings'["control"]),
           Onboarded(next)
    PROVE  OnboardingInv'
<1> USE DEF OnboardingInv
<1>1. \A u \in Providers : provider'[u] = IF u = p THEN next ELSE provider[u]
  BY DEF OnboardingTypeOK
<1>2. OnboardingTypeOK'
  BY DEF OnboardingTypeOK, connectVars
<1>3. /\ \A q, r : Follows(q, r)' <=> Follows(q, r)
      /\ \A q : Onboarded(q)' <=> Onboarded(q)
      /\ \A r : (RootHolds(r)' <=> RootHolds(r)) /\ (Agreed(r)' <=> Agreed(r))
      /\ Together' <=> Together
  BY DEF connectVars, Follows, Onboarded, RootHolds, Agreed, Together, Picking, Overtaken, BootRootIsSeen
<1>4. \A u \in Providers : Underway(u)' <=>
        IF u = p THEN next.pc \in UnderwaySteps ELSE Underway(u)
  BY <1>1 DEF Underway, UnderwaySteps, Connects
<1>5. SettingsAgree'
  <2>1. CASE settings' = NoSettings
    BY <1>1, <1>4, <2>1 DEF SettingsAgree, connectVars
  <2>2. CASE settings' # NoSettings
    BY <1>3, <2>2 DEF SettingsAgree
  <2>. QED  BY <2>1, <2>2
<1>6. Steady'
  <2>1. (\E u \in Providers : ~provider'[u].disturbed) <=> (\E u \in Providers : ~provider[u].disturbed)
    BY <1>1
  <2> HIDE DEF OnboardingInv
  <2>. QED  BY <1>1, <1>3, <1>4, <2>1 DEF Steady
<1>7. \A u \in Providers : Onboarded(provider[u])'
  BY <1>1, <1>3
<1>. QED  BY <1>2, <1>5, <1>6, <1>7

\* What the invariant says of a provider under way.
LEMMA UnderwayKnows ==
    ASSUME OnboardingInv, NEW p \in Providers, provider[p].pc \in UnderwaySteps
    PROVE  /\ provider[p] \in Connects /\ Underway(p)
           /\ provider[p].pc # "load" \/ provider[p].booted => settings # NoSettings
           /\ settings # NoSettings => Agreed(settings)
           /\ Together /\ (\E u \in Providers : ~provider[u].disturbed) =>
                /\ settings # NoSettings => RootHolds(settings["control"])
                /\ \A u \in Providers : Underway(u) => Follows(provider[u], settings["control"])
<1>1. provider[p] \in Connects /\ Underway(p)
  BY DEF OnboardingInv, OnboardingTypeOK, Underway, UnderwaySteps
<1>. QED  BY <1>1 DEF OnboardingInv, SettingsAgree, Steady

\* A step that touches neither files nor settings.
LEMMA LocalKeeps ==
    ASSUME OnboardingInv, NEW p \in Providers, provider[p].pc \in UnderwaySteps, NEW next \in Connects,
           provider' = [provider EXCEPT ![p] = next], UNCHANGED <<connectVars, settings>>,
           settings = NoSettings => next.pc \notin UnderwaySteps,
           next.disturbed = provider[p].disturbed,
           Together /\ Follows(provider[p], settings["control"]) /\ next.pc \in UnderwaySteps =>
             Follows(next, settings["control"]),
           Onboarded(next)
    PROVE  OnboardingInv'
<1>1. settings \in [Fields -> Roots] \cup {NoSettings}
  BY DEF OnboardingInv, OnboardingTypeOK
<1>. QED  BY <1>1, UnderwayKnows, ProviderKeeps

\* Where nothing was overridden on its own, the paths that are resolved are of one root.
LEMMA CurrentIsOne ==
    ASSUME OnboardingTypeOK, Agreed(Current), Together
    PROVE  Current["credentials"] = Current["control"]
BY DEF Agreed, Together, Fields

\* The path of the credentials is taken: the first time, the settings are resolved.
LEMMA LoadKeeps ==
    ASSUME OnboardingInv, NEW p \in Providers, LoadPath(p)
    PROVE  OnboardingInv'
<1> DEFINE q == provider[p]
<1> DEFINE next == [q EXCEPT !.pc = "read", !.reads = Current.credentials]
<1>1. /\ q.pc = "load" /\ q.pc \in UnderwaySteps /\ settings' = Current /\ UNCHANGED connectVars
      /\ OnboardingTypeOK
  BY DEF LoadPath, UnderwaySteps, OnboardingInv
<1>2. q \in Connects /\ Underway(p)
  BY <1>1, UnderwayKnows
<1>3. /\ Current \in [Fields -> Roots] /\ Current # NoSettings
      /\ Current.credentials = Current["credentials"] /\ Current["credentials"] \in Roots
  BY <1>1, SettingsTypes DEF Fields
<1>4. provider' = [provider EXCEPT ![p] = next]
  BY <1>1 DEF LoadPath, OnboardingTypeOK, Connects
<1>5. /\ next \in Connects /\ next.pc = "read" /\ next.reads = Current["credentials"]
      /\ next.booted = q.booted /\ next.disturbed = q.disturbed
  BY <1>2, <1>3 DEF Connects, UnderwaySteps
<1> HIDE DEF next
<1>6. Agreed(Current)
  BY <1>1, SettingsTypes, EnvironmentAgrees DEF OnboardingInv, SettingsAgree
<1>7. ASSUME Together, \E u \in Providers : ~provider[u].disturbed
      PROVE  /\ RootHolds(Current["control"])
             /\ \A u \in Providers \ {p} : Underway(u) => Follows(provider[u], Current["control"])
             /\ Follows(next, Current["control"])
  <2>1. Current["credentials"] = Current["control"]
    BY <1>1, <1>6, <1>7, CurrentIsOne
  <2>2. CASE settings # NoSettings
    <3>1. /\ Current = settings /\ RootHolds(settings["control"])
          /\ \A u \in Providers : Underway(u) => Follows(provider[u], settings["control"])
      BY <1>1, <1>7, <2>2, UnderwayKnows, SettingsTypes
    <3>2. Follows(q, Current["control"])
      BY <1>2, <3>1
    <3>3. Follows(next, Current["control"])
      <4> DEFINE root == Current["control"]
      <4>1. next.reads = root /\ Follows(q, root)
        BY <1>5, <2>1, <3>2
      <4> HIDE DEF root, q
      <4>2. Follows(next, root)
        BY <1>1, <1>5, <4>1 DEF Follows
      <4>. QED  BY <4>2 DEF root
    <3>. QED  BY <3>1, <3>3
  <2>3. CASE settings = NoSettings
    <3>1. Current = FromEnvironment /\ \A u \in Providers : Underway(u) => provider[u].pc = "load" /\ ~provider[u].booted
      BY <1>1, <2>3, SettingsTypes DEF OnboardingInv, SettingsAgree
    <3>2. RootHolds(Current["control"])
      BY <3>1, EnvironmentAgrees DEF RootHolds, DefaultRoot
    <3>3. \A u \in Providers : Underway(u) => Follows(provider[u], Current["control"])
      BY <3>1 DEF Follows
    <3>4. Follows(next, Current["control"])
      <4> DEFINE root == Current["control"]
      <4>1. next.reads = root /\ ~next.booted
        BY <1>2, <1>5, <2>1, <3>1
      <4> HIDE DEF root
      <4>2. Follows(next, root)
        BY <1>5, <4>1 DEF Follows
      <4>. QED  BY <4>2 DEF root
    <3>. QED  BY <3>2, <3>3, <3>4
  <2>. QED  BY <2>2, <2>3
<1>8. Onboarded(next)
  BY <1>5 DEF Onboarded
<1> HIDE DEF q
<1>. QED  BY <1>1, <1>3, <1>4, <1>5, <1>6, <1>7, <1>8, ProviderKeeps DEF q

\* The control path is taken from settings that are those of the identity.
LEMMA EnvironmentKeeps ==
    ASSUME OnboardingInv, NEW p \in Providers, Environment(p)
    PROVE  OnboardingInv'
<1> DEFINE q == provider[p]
<1> DEFINE next == [q EXCEPT !.pc = "open", !.reads = Current.control]
<1>1. /\ q.pc = "environment" /\ q.pc \in UnderwaySteps /\ settings' = Current /\ UNCHANGED connectVars
      /\ OnboardingTypeOK
  BY DEF Environment, UnderwaySteps, OnboardingInv
<1>2. q \in Connects /\ Underway(p) /\ settings # NoSettings
  BY <1>1, UnderwayKnows
<1>3. /\ Current = settings /\ Current.control = settings["control"] /\ settings["control"] \in Roots
  BY <1>1, <1>2, SettingsTypes DEF Fields
<1>4. provider' = [provider EXCEPT ![p] = next]
  BY <1>1 DEF Environment, OnboardingTypeOK, Connects
<1>5. /\ next \in Connects /\ next.pc = "open" /\ next.reads = settings["control"]
      /\ next.booted = q.booted /\ next.disturbed = q.disturbed /\ next.identity = q.identity
  BY <1>2, <1>3 DEF Connects, UnderwaySteps
<1> HIDE DEF next
<1>6. Follows(q, settings["control"]) => Follows(next, settings["control"])
  BY <1>1, <1>5 DEF Follows
<1>7. Onboarded(next)
  BY <1>5 DEF Onboarded
<1>8. UNCHANGED <<connectVars, settings>>
  BY <1>1, <1>3
<1> HIDE DEF q
<1>. QED  BY <1>1, <1>2, <1>4, <1>5, <1>6, <1>7, <1>8, LocalKeeps DEF q

\* The root is picked anew: nobody under way had picked one that it did not overtake.
LEMMA RediscoverKeeps ==
    ASSUME OnboardingInv, NEW p \in Providers, Rediscover(p)
    PROVE  OnboardingInv'
<1> DEFINE q == provider[p]
<1> DEFINE next == [q EXCEPT !.pc = "load"]
<1>1. /\ q.pc = "rediscover" /\ q.pc \in UnderwaySteps /\ settings' = Rediscovered /\ UNCHANGED connectVars
      /\ OnboardingTypeOK
  BY DEF Rediscover, UnderwaySteps, OnboardingInv
<1>2. q \in Connects /\ Underway(p) /\ settings # NoSettings /\ Agreed(settings)
  BY <1>1, UnderwayKnows
<1>3. /\ Rediscovered \in [Fields -> Roots] /\ Agreed(Rediscovered) /\ Rediscovered # NoSettings
      /\ Together => Rediscovered["control"] = IF Picking THEN DefaultRoot ELSE settings["control"]
  BY <1>1, <1>2, RediscoveredAgrees, EnvironmentAgrees
<1>4. provider' = [provider EXCEPT ![p] = next]
  BY <1>1 DEF Rediscover, Go, OnboardingTypeOK, Connects
<1>5. /\ next \in Connects /\ next.pc = "load"
      /\ next.booted = q.booted /\ next.disturbed = q.disturbed
  BY <1>2 DEF Connects, UnderwaySteps
<1> HIDE DEF next
<1>6. ASSUME Together, \E u \in Providers : ~provider[u].disturbed
      PROVE  /\ RootHolds(Rediscovered["control"])
             /\ \A u \in Providers \ {p} : Underway(u) => Follows(provider[u], Rediscovered["control"])
             /\ Follows(next, Rediscovered["control"])
  <2> DEFINE now == Rediscovered["control"]
  <2>1. /\ RootHolds(settings["control"])
        /\ \A u \in Providers : Underway(u) => Follows(provider[u], settings["control"])
    BY <1>1, <1>2, <1>6, UnderwayKnows
  <2>2. now = IF Picking THEN DefaultRoot ELSE settings["control"]
    BY <1>3, <1>6
  <2> HIDE DEF now
  <2>3. /\ RootHolds(now)
        /\ BootRootIsSeen /\ present[bootRoot] = Fields => now = bootRoot
        /\ \A v \in Connects : Follows(v, settings["control"]) => Follows(v, now)
    BY <1>1, <1>2, <1>6, <2>1, <2>2, RootPicked
  <2>4. \A u \in Providers : provider[u] \in Connects
    BY <1>1 DEF OnboardingTypeOK
  <2>5. Follows(next, now)
    <3>1. Follows(q, settings["control"])
      BY <1>2, <2>1
    <3>. QED  BY <1>1, <1>5, <2>3, <3>1 DEF Follows
  <2>. QED  BY <2>1, <2>3, <2>4, <2>5 DEF now
<1>7. Onboarded(next)
  BY <1>5 DEF Onboarded
<1> HIDE DEF q
<1>. QED  BY <1>1, <1>3, <1>4, <1>5, <1>6, <1>7, ProviderKeeps DEF q

\* The identity is read where the settings still point; where they do not, there is none.
LEMMA ReadKeeps ==
    ASSUME OnboardingInv, NEW p \in Providers, ReadIdentity(p)
    PROVE  OnboardingInv'
<1> DEFINE q == provider[p]
<1> DEFINE root == settings["control"]
<1> DEFINE next == [q EXCEPT !.pc = "environment", !.reads = "", !.identity = q.reads]
<1>1. /\ q.pc = "read" /\ q.pc \in UnderwaySteps /\ UNCHANGED <<connectVars, settings>> /\ OnboardingTypeOK
      /\ "credentials" \in present[q.reads]
  BY DEF ReadIdentity, UnderwaySteps, OnboardingInv
<1>2. q \in Connects /\ settings # NoSettings
  BY <1>1, UnderwayKnows
<1>3. provider' = [provider EXCEPT ![p] = next]
  BY <1>1 DEF ReadIdentity, OnboardingTypeOK, Connects
<1>4. /\ next \in Connects /\ next.pc = "environment" /\ next.identity = q.reads
      /\ next.booted = q.booted /\ next.disturbed = q.disturbed
  BY <1>2 DEF Connects, UnderwaySteps
<1> HIDE DEF next, root
<1>5. Follows(q, root) => Follows(next, root)
  BY <1>1, <1>4 DEF Follows, Overtaken
<1>6. Onboarded(next)
  BY <1>4 DEF Onboarded
<1> HIDE DEF q
<1>. QED  BY <1>1, <1>2, <1>3, <1>4, <1>5, <1>6, LocalKeeps DEF q, root

\* Who finds no identity after a first run did not look where it ran.
LEMMA NotPairedKeeps ==
    ASSUME OnboardingInv, NEW p \in Providers, NotPaired(p)
    PROVE  OnboardingInv'
<1> DEFINE q == provider[p]
<1> DEFINE root == settings["control"]
<1> DEFINE next == [q EXCEPT !.reads = "", !.pc = IF q.booted THEN "unpaired" ELSE "bootstrap"]
<1>1. /\ q.pc = "read" /\ q.pc \in UnderwaySteps /\ UNCHANGED <<connectVars, settings>> /\ OnboardingTypeOK
      /\ "credentials" \notin present[q.reads]
  BY DEF NotPaired, UnderwaySteps, OnboardingInv
<1>2. /\ q \in Connects /\ settings # NoSettings /\ Underway(p)
      /\ Together /\ (\E u \in Providers : ~provider[u].disturbed) =>
           RootHolds(root) /\ Follows(q, root)
  BY <1>1, UnderwayKnows
<1>3. provider' = [provider EXCEPT ![p] = next]
  BY <1>1 DEF NotPaired, OnboardingTypeOK, Connects
<1>4. /\ next \in Connects /\ next.pc = (IF q.booted THEN "unpaired" ELSE "bootstrap")
      /\ next.booted = q.booted /\ next.disturbed = q.disturbed
  <2> DEFINE to == IF q.booted THEN "unpaired" ELSE "bootstrap"
  <2>1. to \in UnderwaySteps \cup {"idle", "connected", "unpaired", "raised"}
    BY DEF UnderwaySteps
  <2> HIDE DEF to
  <2>2. LET n == [q EXCEPT !.reads = "", !.pc = to]
        IN  n \in Connects /\ n.pc = to /\ n.booted = q.booted /\ n.disturbed = q.disturbed
    BY <1>2, <2>1 DEF Connects
  <2>. QED  BY <2>2 DEF to
<1>5. root \in Roots /\ Agreed(settings)
  BY <1>1, <1>2, SettingsTypes, UnderwayKnows DEF Fields
<1>6. Together /\ Picking => root \in {"desktop", "sdk"}
  BY <1>5 DEF Agreed, Picking, Together, Roots
<1> HIDE DEF next, root
<1>7. Together /\ (\E u \in Providers : ~provider[u].disturbed) /\ next.pc \in UnderwaySteps => Follows(next, root)
  <2> SUFFICES ASSUME Together, \E u \in Providers : ~provider[u].disturbed, next.pc = "bootstrap"
               PROVE  Follows(next, root)
    BY <1>4 DEF UnderwaySteps
  <2>1. RootHolds(root) /\ Follows(q, root) /\ ~next.booted
    BY <1>2, <1>4
  <2>2. Picking => bootRoot = "sdk" \/ present["desktop"] # {} \/ Overtaken
    BY <1>1, <1>6, <2>1 DEF Follows, RootHolds, Overtaken, OnboardingTypeOK
  <2>. QED  BY <2>1, <2>2 DEF Follows
<1>8. Onboarded(next)
  <2> SUFFICES ASSUME ~q.disturbed, q.booted, BootRootIsSeen PROVE FALSE
    BY <1>4 DEF Onboarded
  <2>1. Together
    BY DEF BootRootIsSeen, Together
  <2>2. Follows(q, root)
    BY <1>2, <2>1
  <2>. QED  BY <1>1, <2>2 DEF Follows, Fields
<1>9. settings \in [Fields -> Roots] /\ Agreed(settings) /\ settings' = settings /\ UNCHANGED connectVars
  BY <1>1, <1>2, <1>5, SettingsTypes
<1>10. Together /\ (\E u \in Providers : ~provider[u].disturbed) =>
         RootHolds(root) /\ \A u \in Providers \ {p} : Underway(u) => Follows(provider[u], root)
  BY <1>1, <1>2, UnderwayKnows DEF root
<1> HIDE DEF q
<1>. QED  BY <1>2, <1>3, <1>4, <1>7, <1>8, <1>9, <1>10, ProviderKeeps DEF q, root

\* The connection is opened to the daemon of the identity.
LEMMA OpenKeeps ==
    ASSUME OnboardingInv, NEW p \in Providers, OpenConnection(p), ~Raise(p)
    PROVE  OnboardingInv'
<1> DEFINE q == provider[p]
<1> DEFINE root == settings["control"]
<1> DEFINE next == [q EXCEPT !.pc = "connected", !.reads = "", !.connection = q.reads]
<1>1. /\ q.pc = "open" /\ q.pc \in UnderwaySteps /\ UNCHANGED <<connectVars, settings>> /\ OnboardingTypeOK
  BY DEF OpenConnection, UnderwaySteps, OnboardingInv
<1>2. q \in Connects /\ settings # NoSettings /\ Underway(p)
      /\ (Together /\ ~q.disturbed => Follows(q, root))
  BY <1>1, UnderwayKnows
<1>3. provider' = [provider EXCEPT ![p] = next]
  BY <1>1 DEF OpenConnection, OnboardingTypeOK, Connects
<1>4. /\ next \in Connects /\ next.pc = "connected" /\ next.identity = q.identity
      /\ next.connection = q.reads /\ next.disturbed = q.disturbed
  BY <1>2 DEF Connects, UnderwaySteps
<1> HIDE DEF next, root
<1>5. Onboarded(next)
  BY <1>1, <1>2, <1>4 DEF Onboarded, Follows
<1>6. next.pc \notin UnderwaySteps
  BY <1>4 DEF UnderwaySteps
<1> HIDE DEF q
<1>. QED  BY <1>1, <1>2, <1>3, <1>4, <1>5, <1>6, LocalKeeps DEF q, root

\* A first run that is through has made all the files of its root.
LEMMA BootstrappedKeeps ==
    ASSUME OnboardingInv, NEW p \in Providers, Bootstrapped(p)
    PROVE  OnboardingInv'
<1> DEFINE q == provider[p]
<1> DEFINE root == settings["control"]
<1> DEFINE next == [q EXCEPT !.pc = "rediscover", !.booted = TRUE]
<1>1. /\ q.pc = "bootstrap" /\ q.pc \in UnderwaySteps /\ UNCHANGED <<connectVars, settings>>
      /\ OnboardingTypeOK /\ present[bootRoot] = Fields
  BY DEF Bootstrapped, UnderwaySteps, OnboardingInv
<1>2. q \in Connects /\ settings # NoSettings
  BY <1>1, UnderwayKnows
<1>3. provider' = [provider EXCEPT ![p] = next]
  BY <1>1 DEF Bootstrapped, OnboardingTypeOK, Connects
<1>4. next \in Connects /\ next.pc = "rediscover" /\ next.disturbed = q.disturbed
  BY <1>2 DEF Connects, UnderwaySteps
<1> HIDE DEF next, root
<1>5. Follows(next, root) /\ Onboarded(next)
  BY <1>1, <1>4 DEF Follows, Onboarded
<1> HIDE DEF q
<1>. QED  BY <1>1, <1>2, <1>3, <1>4, <1>5, LocalKeeps DEF q, root

\* A call that raises has learnt nothing.
LEMMA RaiseKeeps ==
    ASSUME OnboardingInv, NEW p \in Providers, provider[p].pc \in UnderwaySteps, Raise(p),
           UNCHANGED <<connectVars, settings>>
    PROVE  OnboardingInv'
<1> DEFINE next == [Unconnected EXCEPT !.pc = "raised", !.disturbed = provider[p].disturbed]
<1>1. provider[p] \in Connects
  BY UnderwayKnows
<1>2. provider' = [provider EXCEPT ![p] = next]
  BY DEF Raise
<1>3. next \in Connects /\ next.pc = "raised" /\ next.disturbed = provider[p].disturbed
  BY <1>1 DEF Connects, Unconnected
<1> HIDE DEF next
<1>4. Onboarded(next) /\ next.pc \notin UnderwaySteps
  BY <1>3 DEF Onboarded, UnderwaySteps
<1>. QED  BY <1>2, <1>3, <1>4, LocalKeeps

\* A connect() begins with nothing.  Where everybody was disturbed, nobody has anything in
\* hand and the settings name what would be picked now: what follows is steady again.
LEMMA BeginKeeps ==
    ASSUME OnboardingInv, NEW p \in Providers, BeginConnect(p)
    PROVE  OnboardingInv'
<1> USE DEF OnboardingInv
<1> DEFINE q == provider[p]
<1> DEFINE next == [Unconnected EXCEPT !.pc = "load", !.disturbed = q.disturbed /\ ~Afresh]
<1>1. /\ provider' = [provider EXCEPT ![p] = next] /\ UNCHANGED <<connectVars, settings>>
      /\ OnboardingTypeOK
  BY DEF BeginConnect
<1>2. /\ next \in Connects /\ next.pc = "load" /\ ~next.booted
      /\ next.disturbed = (q.disturbed /\ ~Afresh)
  BY DEF Connects, Unconnected, UnderwaySteps, OnboardingTypeOK
<1> HIDE DEF next
<1>3. \A u \in Providers : provider'[u] = IF u = p THEN next ELSE provider[u]
  BY <1>1 DEF OnboardingTypeOK
<1>4. OnboardingTypeOK'
  BY <1>1, <1>2 DEF OnboardingTypeOK, connectVars
<1>5. /\ \A v, r : Follows(v, r)' <=> Follows(v, r)
      /\ \A v : Onboarded(v)' <=> Onboarded(v)
      /\ \A r : (RootHolds(r)' <=> RootHolds(r)) /\ (Agreed(r)' <=> Agreed(r))
      /\ Together' <=> Together
  BY <1>1 DEF connectVars, Follows, Onboarded, RootHolds, Agreed, Together, Picking, Overtaken, BootRootIsSeen
<1>6. SettingsAgree'
  BY <1>1, <1>2, <1>3, <1>5 DEF SettingsAgree, connectVars, Underway
<1>7. \A r : Follows(next, r)
  BY <1>2 DEF Follows
<1>8. Steady'
  <2> SUFFICES ASSUME Together, NEW u \in Providers, ~provider'[u].disturbed
               PROVE  /\ settings # NoSettings => RootHolds(settings["control"])
                      /\ \A v \in Providers \ {p} : Underway(v) => Follows(provider[v], settings["control"])
    BY <1>1, <1>3, <1>5, <1>7 DEF Steady, Underway
  <2>1. CASE \E v \in Providers : ~provider[v].disturbed
    BY <2>1 DEF Steady
  <2>2. CASE Afresh
    <3>1. \A v \in Providers : ~Underway(v)
      BY <2>2 DEF Afresh
    <3>2. ASSUME settings # NoSettings PROVE RootHolds(settings["control"])
      <4>1. Agreed(settings) /\ settings = Rediscovered
        BY <2>2, <3>2 DEF Afresh, SettingsAgree
      <4>2. Picking => settings["control"] = DefaultRoot
        BY <1>1, <3>2, <4>1, RediscoveredAgrees
      <4>. QED  BY <4>2 DEF RootHolds, DefaultRoot
    <3>. QED  BY <3>1, <3>2
  <2>. QED  BY <1>2, <1>3, <2>1, <2>2
<1>9. \A u \in Providers : Onboarded(provider[u])'
  <2>1. Onboarded(next)
    BY <1>2 DEF Onboarded
  <2>. QED  BY <1>1, <1>3, <1>5, <2>1
<1>. QED  BY <1>4, <1>6, <1>8, <1>9

\* A first run makes the files of a root that is either the one that is picked, or has
\* overtaken it.
LEMMA BootstrapKeeps ==
    ASSUME OnboardingInv, NEW p \in Providers, Bootstrap(p)
    PROVE  OnboardingInv'
<1> DEFINE root == settings["control"]
<1>1. /\ provider[p].pc = "bootstrap" /\ provider[p].pc \in UnderwaySteps /\ OnboardingTypeOK
      /\ UNCHANGED <<environ, bootRoot, configured, changes, settings, provider>>
  BY DEF Bootstrap, UnderwaySteps, OnboardingInv
<1>2. PICK f \in Fields \ present[bootRoot] : present' = [present EXCEPT ![bootRoot] = @ \cup {f}]
  BY DEF Bootstrap
<1>3. bootRoot \in Roots /\ present[bootRoot] \subseteq Fields
  BY <1>1 DEF OnboardingTypeOK, Roots
<1>4. /\ present' \in [Roots -> SUBSET Fields]
      /\ \A r \in Roots : present[r] \subseteq present'[r] /\ (r # bootRoot => present'[r] = present[r])
  BY <1>1, <1>2, <1>3 DEF OnboardingTypeOK
<1>5. OnboardingTypeOK'
  BY <1>1, <1>4 DEF OnboardingTypeOK
<1>6. /\ Together' <=> Together
      /\ Picking' <=> Picking
      /\ BootRootIsSeen' <=> BootRootIsSeen
      /\ Overtaken' <=> Overtaken
      /\ \A r : Agreed(r)' <=> Agreed(r)
  BY <1>1, <1>4 DEF Together, Picking, BootRootIsSeen, Overtaken, Agreed, Roots
<1>7. SettingsAgree'
  BY <1>1, <1>6 DEF OnboardingInv, SettingsAgree, Underway
<1>8. ASSUME NEW u \in Providers PROVE Onboarded(provider[u])'
  <2>1. Onboarded(provider[u]) /\ provider'[u] = provider[u]
    BY <1>1 DEF OnboardingInv
  <2>. QED  BY <1>6, <2>1 DEF Onboarded
<1>9. Steady'
  <2> SUFFICES ASSUME Together, NEW u \in Providers, ~provider[u].disturbed
               PROVE  /\ RootHolds(root)'
                      /\ \A v \in Providers : Underway(v) => Follows(provider[v], root)'
    BY <1>1, <1>6 DEF Steady, Underway
  <2>1. /\ settings # NoSettings /\ RootHolds(root) /\ provider[p] \in Connects /\ Underway(p)
        /\ \A v \in Providers : Underway(v) => Follows(provider[v], root)
    BY <1>1, UnderwayKnows
  <2>2. root \in Roots /\ root' = root
    BY <1>1, <2>1, SettingsTypes DEF Fields
  <2> HIDE DEF root
  <2>3. Picking => bootRoot = "sdk" \/ present["desktop"] # {} \/ Overtaken
    <3>1. Follows(provider[p], root)
      BY <2>1
    <3>. QED  BY <1>1, <3>1 DEF Follows
  <2>4. RootHolds(root)'
    <3>1. Picking /\ root = "sdk" /\ present'["desktop"] # {} => Overtaken
      <4>1. bootRoot = "sdk" => present'["desktop"] = present["desktop"]
        BY <1>4 DEF Roots
      <4>. QED  BY <2>1, <2>3, <4>1 DEF RootHolds
    <3>2. Picking /\ root = "desktop" => present'["desktop"] # {}
      BY <1>4, <2>1 DEF RootHolds, Roots
    <3>. QED  BY <1>6, <2>2, <3>1, <3>2 DEF RootHolds
  <2>5. ASSUME NEW v \in Providers, Underway(v) PROVE Follows(provider[v], root)'
    <3> DEFINE q == provider[v]
    <3>1. Follows(q, root) /\ q' = q
      BY <1>1, <2>1, <2>5
    <3>2. /\ present["desktop"] # {} => present'["desktop"] # {}
          /\ "credentials" \in present[root] => "credentials" \in present'[root]
          /\ present[bootRoot] = Fields => present'[bootRoot] = Fields
      BY <1>3, <1>4, <2>2 DEF Roots
    <3> HIDE DEF q
    <3>3. Follows(q, root)'
      BY <1>1, <1>6, <2>2, <3>1, <3>2 DEF Follows
    <3>. QED  BY <3>3 DEF q
  <2>. QED  BY <2>4, <2>5
<1>. QED  BY <1>5, <1>7, <1>8, <1>9 DEF OnboardingInv

\* When something changes outside, everybody is disturbed: what was resolved is still
\* typed, and of one root.
LEMMA DisturbKeeps ==
    ASSUME OnboardingInv, Disturb, OnboardingTypeOK', environ' = environ,
           \/ UNCHANGED <<settings, configured>>
           \/ settings' # NoSettings /\ Agreed(settings)'
    PROVE  OnboardingInv'
<1>1. \A p \in Providers : provider'[p] = [provider[p] EXCEPT !.disturbed = TRUE]
  BY DEF Disturb
<1>2. \A q \in Connects :
        LET d == [q EXCEPT !.disturbed = TRUE]
        IN  d.pc = q.pc /\ d.booted = q.booted /\ d.disturbed = TRUE
  BY DEF Connects
<1>3. \A p \in Providers : provider[p] \in Connects
  BY DEF OnboardingInv, OnboardingTypeOK
<1>4. \A p \in Providers :
        /\ provider'[p].pc = provider[p].pc /\ provider'[p].booted = provider[p].booted
        /\ provider'[p].disturbed
  BY <1>1, <1>2, <1>3
<1>5. SettingsAgree'
  <2>1. CASE UNCHANGED <<settings, configured>>
    BY <1>4, <2>1 DEF OnboardingInv, SettingsAgree, Agreed, Underway
  <2>2. CASE settings' # NoSettings /\ Agreed(settings)'
    BY <2>2 DEF SettingsAgree
  <2>. QED  BY <2>1, <2>2
<1>6. Steady' /\ \A p \in Providers : Onboarded(provider[p])'
  BY <1>4 DEF Steady, Onboarded
<1>. QED  BY <1>5, <1>6 DEF OnboardingInv

\* Whatever the operator or another program changes.
LEMMA ChangesKeep ==
    ASSUME OnboardingInv,
           \/ \E fields \in (SUBSET Fields) \ {{}} : Configure(fields)
           \/ \E r \in Roots, f \in Fields : Appears(r, f) \/ Vanishes(r, f)
    PROVE  OnboardingInv'
<1>0. Disturb /\ OnboardingTypeOK
  BY DEF Configure, Appears, Vanishes, OnboardingInv
<1>1. provider' \in [Providers -> Connects]
  <2>1. \A q \in Connects : [q EXCEPT !.disturbed = TRUE] \in Connects
    BY DEF Connects
  <2>. QED  BY <1>0, <2>1 DEF Disturb, OnboardingTypeOK
<1>2. ASSUME NEW fields \in (SUBSET Fields) \ {{}}, Configure(fields) PROVE OnboardingInv'
  <2>1. /\ settings' = [f \in Fields |-> IF f \in fields THEN "named" ELSE Current[f]]
        /\ configured' = configured \cup fields /\ UNCHANGED <<present, environ, bootRoot>>
    BY <1>2 DEF Configure
  <2>2. settings' \in [Fields -> Roots] /\ settings' # NoSettings
    <3>1. Current \in [Fields -> Roots] /\ "named" \in Roots
      BY <1>0, SettingsTypes DEF Roots
    <3>. QED  BY <2>1, <3>1, EnvironmentAgrees
  <2>3. OnboardingTypeOK'
    BY <1>0, <1>1, <2>1, <2>2 DEF OnboardingTypeOK
  <2>4. \A f \in configured' : settings'[f] = "named"
    <3>1. \A f \in configured : Current[f] = "named" /\ f \in Fields
      BY <1>0, SettingsTypes DEF OnboardingInv, SettingsAgree, Agreed, OnboardingTypeOK
    <3>. QED  BY <2>1, <3>1
  <2>5. configured' # {}
    <3>1. fields # {}
      OBVIOUS
    <3>. QED  BY <2>1, <3>1
  <2>6. Agreed(settings)'
    BY <2>4, <2>5 DEF Agreed
  <2>. QED  BY <1>0, <2>1, <2>2, <2>3, <2>6, DisturbKeeps
<1>3. ASSUME NEW r \in Roots, NEW f \in Fields, Appears(r, f) \/ Vanishes(r, f) PROVE OnboardingInv'
  <2>1. /\ present' \in [Roots -> SUBSET Fields]
        /\ UNCHANGED <<environ, bootRoot, settings, configured>>
    BY <1>0, <1>3 DEF Appears, Vanishes, OnboardingTypeOK
  <2>2. OnboardingTypeOK'
    BY <1>0, <1>1, <2>1 DEF OnboardingTypeOK
  <2>. QED  BY <1>0, <2>1, <2>2, DisturbKeeps
<1>. QED  BY <1>2, <1>3

-----------------------------------------------------------------------------
(* Onboarding: what every behaviour keeps                                   *)

\* The invariant holds before anybody connects.
LEMMA OnboardingStarts == OnboardingInit => OnboardingInv
<1> SUFFICES ASSUME OnboardingInit PROVE OnboardingInv
  OBVIOUS
<1>1. Unconnected \in Connects /\ Unconnected.pc = "idle" /\ Unconnected.disturbed = FALSE
  BY DEF Unconnected, Connects
<1>2. OnboardingTypeOK
  BY <1>1 DEF OnboardingInit, OnboardingTypeOK
<1>3. \A p \in Providers : provider[p].pc = "idle" /\ ~Underway(p)
  BY <1>1 DEF OnboardingInit, Underway
<1>. QED  BY <1>2, <1>3 DEF OnboardingInit, OnboardingInv, SettingsAgree, Steady, Onboarded

\* Every step keeps the invariant.
LEMMA OnboardingKept == OnboardingInv /\ [OnboardingNext]_onboardingVars => OnboardingInv'
<1> SUFFICES ASSUME OnboardingInv, [OnboardingNext]_onboardingVars PROVE OnboardingInv'
  OBVIOUS
<1>1. ASSUME NEW p \in Providers,
             \/ BeginConnect(p) \/ LoadPath(p) \/ ReadIdentity(p) \/ NotPaired(p) \/ Bootstrap(p)
             \/ Bootstrapped(p) \/ Rediscover(p) \/ Environment(p)
             \/ OpenConnection(p) /\ ~Raise(p)
      PROVE  OnboardingInv'
  BY <1>1, BeginKeeps, LoadKeeps, ReadKeeps, NotPairedKeeps, BootstrapKeeps, BootstrappedKeeps,
     RediscoverKeeps, EnvironmentKeeps, OpenKeeps
<1>2. ASSUME NEW p \in Providers,
             Unusable(p) \/ BootstrapFails(p) \/ (OpenConnection(p) /\ Raise(p))
      PROVE  OnboardingInv'
  <2>1. provider[p].pc \in UnderwaySteps /\ Raise(p) /\ UNCHANGED <<connectVars, settings>>
    BY <1>2 DEF Unusable, BootstrapFails, OpenConnection, UnderwaySteps
  <2>. QED  BY <2>1, RaiseKeeps
<1>3. CASE UNCHANGED onboardingVars
  <2>1. /\ \A q, r : Follows(q, r)' <=> Follows(q, r)
        /\ \A q : Onboarded(q)' <=> Onboarded(q)
        /\ \A r : (RootHolds(r)' <=> RootHolds(r)) /\ (Agreed(r)' <=> Agreed(r))
        /\ Together' <=> Together
    BY <1>3 DEF onboardingVars, Follows, Onboarded, RootHolds, Agreed, Together, Picking, Overtaken, BootRootIsSeen
  <2>2. OnboardingTypeOK' /\ SettingsAgree'
    BY <1>3, <2>1 DEF onboardingVars, OnboardingInv, OnboardingTypeOK, SettingsAgree, Underway
  <2>3. Steady' /\ \A p \in Providers : Onboarded(provider[p])'
    BY <1>3, <2>1 DEF onboardingVars, OnboardingInv, Steady, Underway
  <2>. QED  BY <2>2, <2>3 DEF OnboardingInv
<1>. QED  BY <1>1, <1>2, <1>3, ChangesKeep DEF OnboardingNext

\* Onboarding.OnboardedAsOne for any number of providers and changes: a provider that
\* nothing disturbed is connected to the Runtime of its identity, and a first run that
\* was bootstrapped where the process looks is found.
THEOREM ProvidersOnboardedAsOne == OnboardingSpec => []OnboardedAsOne
<1>1. OnboardingInv => OnboardedAsOne
  BY DEF OnboardingInv, Onboarded, OnboardedAsOne
<1>. QED  BY <1>1, OnboardingStarts, OnboardingKept, PTL DEF OnboardingSpec

-----------------------------------------------------------------------------
(* Staging: the invariant                                                   *)

StagingTypeOK ==
    /\ step \in {"idle", "open", "send", "receive", "close", "deploy", "unwind"}
    /\ sent \in 0 .. Chunks
    /\ installs \in 0 .. MaxInstalls
    /\ stored \in [1 .. MaxInstalls -> SUBSET Bundle]

\* Each install under way has a resource of its own, which holds nothing before the chunks
\* are sent, no more than was sent after that, and the whole bundle once it was believed.
StoredHolds ==
    /\ step # "idle" => installs # 0
    /\ step = "open" => sent = 0
    /\ step \in {"open", "send"} => stored[installs] \subseteq 1 .. sent
    /\ \A i \in 1 .. MaxInstalls : i > installs => stored[i] = {}
    /\ step \in {"close", "deploy"} => stored[installs] = Bundle

StagingInv == StagingTypeOK /\ StoredHolds /\ DeployedIsWhole

\* Staging.DeployedIsWhole for bundles of any number of chunks, any timeout and any number
\* of installs: whatever chunks were lost and whatever the daemon answered, only a whole
\* bundle is deployed.
THEOREM DeployedWhole == StagingSpec => []DeployedIsWhole
<1> USE StagingAssumption DEF StagingInv
<1>1. StagingInit => StagingInv
  BY DEF StagingInit, StagingTypeOK, StoredHolds, DeployedIsWhole, Bundle
<1>2. ASSUME StagingInv, [StagingNext]_stagingVars PROVE StagingInv'
  <2> USE <1>2
  <2>1. ASSUME NEW l \in {"none", "valid", "invalid"}, Install(l) PROVE StagingInv'
    <3>1. /\ step' = "open" /\ sent' = 0 /\ installs' = installs + 1 /\ UNCHANGED <<stored, bindings>>
          /\ installs < MaxInstalls
      BY <2>1 DEF Install
    <3>2. installs' \in 1 .. MaxInstalls
      BY <3>1 DEF StagingTypeOK
    <3>3. StagingTypeOK'
      BY <3>1, <3>2 DEF StagingTypeOK
    <3>4. \A i \in 1 .. MaxInstalls : i >= installs' => stored[i] = {}
      BY <3>1, <3>2 DEF StagingTypeOK, StoredHolds
    <3>5. stored[installs'] = {}
      BY <3>2, <3>4
    <3>. QED  BY <3>1, <3>2, <3>3, <3>4, <3>5 DEF StoredHolds, DeployedIsWhole
  <2>2. CASE Open
    BY <2>2 DEF Open, StagingTypeOK, StoredHolds, DeployedIsWhole
  <2>3. CASE Send
    <3>1. CASE UNCHANGED <<sent, stored>> /\ step' \in {"receive", "unwind"}
      BY <2>3, <3>1 DEF Send, StagingTypeOK, StoredHolds, DeployedIsWhole
    <3>2. ASSUME sent < Chunks, sent' = sent + 1, NEW kept \in SUBSET {sent + 1}, UNCHANGED step,
                 stored' = [stored EXCEPT ![installs] = @ \cup kept]
          PROVE  StagingInv'
      <4>1. step = "send" /\ UNCHANGED <<installs, bindings>>
        BY <2>3 DEF Send
      <4>2. installs \in 1 .. MaxInstalls
        BY <4>1 DEF StagingTypeOK, StoredHolds
      <4>3. sent' \in 0 .. Chunks /\ kept \subseteq Bundle
        BY <3>2 DEF StagingTypeOK, Bundle
      <4>4. /\ stored'[installs] = stored[installs] \cup kept
            /\ \A i \in 1 .. MaxInstalls : i # installs => stored'[i] = stored[i]
        BY <3>2, <4>2 DEF StagingTypeOK
      <4>5. stored' \in [1 .. MaxInstalls -> SUBSET Bundle]
        BY <3>2, <4>3 DEF StagingTypeOK
      <4>6. StagingTypeOK'
        BY <3>2, <4>1, <4>3, <4>5 DEF StagingTypeOK
      <4>7. stored[installs] \subseteq 1 .. sent /\ sent \in Nat
        BY <4>1 DEF StagingTypeOK, StoredHolds
      <4>8. stored'[installs] \subseteq 1 .. sent'
        <5>1. \A n \in Nat : 1 .. n \subseteq 1 .. n + 1 /\ n + 1 \in 1 .. n + 1
          OBVIOUS
        <5>2. 1 .. sent \subseteq 1 .. sent' /\ sent + 1 \in 1 .. sent'
          BY <3>2, <4>7, <5>1
        <5>. QED  BY <4>4, <4>7, <5>2
      <4>9. \A i \in 1 .. MaxInstalls : i > installs => stored'[i] = {}
        BY <4>2, <4>4 DEF StoredHolds
      <4>10. StoredHolds'
        BY <3>2, <4>1, <4>2, <4>8, <4>9 DEF StoredHolds
      <4>. QED  BY <4>1, <4>6, <4>10 DEF DeployedIsWhole
    <3>. QED  BY <2>3, <3>1, <3>2 DEF Send
  <2>4. ASSUME NEW frame \in Frames, Receive(frame) PROVE StagingInv'
    <3>1. step = "receive" /\ UNCHANGED <<sent, stored, bindings, installs>>
      BY <2>4 DEF Receive
    <3>2. /\ step' \in {"unwind", "close", "receive"}
          /\ step' = "close" => DigestMatches(stored[installs])
      BY <2>4 DEF Receive
    <3>. QED  BY <3>1, <3>2 DEF StagingTypeOK, StoredHolds, DeployedIsWhole, DigestMatches
  <2>5. CASE Tick \/ DeadlinePasses \/ CloseSession \/ Unwind
    BY <2>5 DEF Tick, DeadlinePasses, CloseSession, Unwind, StagingTypeOK, StoredHolds, DeployedIsWhole
  <2>6. CASE Deploy
    <3>1. bindings' \subseteq bindings \cup {[install |-> installs, content |-> stored[installs]]}
      BY <2>6 DEF Deploy
    <3>2. stored[installs] = Bundle
      BY <2>6 DEF Deploy, StoredHolds
    <3>3. DeployedIsWhole'
      BY <3>1, <3>2 DEF DeployedIsWhole
    <3>. QED  BY <2>6, <3>3 DEF Deploy, StagingTypeOK, StoredHolds
  <2>7. CASE UNCHANGED stagingVars
    BY <2>7 DEF stagingVars, StagingTypeOK, StoredHolds, DeployedIsWhole
  <2>. QED  BY <2>1, <2>2, <2>3, <2>4, <2>5, <2>6, <2>7 DEF StagingNext, StagingStep
<1>3. StagingInv => DeployedIsWhole
  OBVIOUS
<1> HIDE DEF StagingInv
<1>. QED  BY <1>1, <1>2, <1>3, PTL DEF StagingSpec

-----------------------------------------------------------------------------
(* Leasing: the invariant                                                   *)

BindingStates == {"none", "sent", "deployed", "bound", "abandoned"}

LeasingTypeOK ==
    /\ left \in [Bindings -> Nat]
    /\ binding \in [Bindings -> BindingStates]
    /\ delayed \in [Bindings -> Nat]
    /\ worker \in {"IDLE", "RUNNING", "FAILED", "STOPPED"}
    /\ thread \in {"none", "wait", "call", "ended"}
    /\ due \in Nat /\ calling \in Nat
    /\ renewing \subseteq Bindings
    /\ taken \in BOOLEAN

\* A worker runs exactly while its thread does, and knows no binding before.
ThreadRuns ==
    /\ worker = "IDLE" => thread = "none"
    /\ worker = "RUNNING" => thread \in {"wait", "call"}
    /\ worker = "IDLE" => \A b \in Bindings : binding[b] # "bound"
    /\ \A b \in renewing : binding[b] = "bound"

\* The clocks of the thread: a renewal that is under way began at least an interval before
\* the next one is due.
ClocksAgree ==
    /\ due <= Interval
    /\ thread = "call" => calling <= RenewTimeout /\ due + calling <= Interval

\* Until it is added, all that passes of a lease is a delay.
DeployedIsFresh ==
    \A b \in Bindings : binding[b] = "deployed" => left[b] + delayed[b] >= LeaseTicks

\* Delays apart, a lease has lost no more than the time since its renewal began: what has
\* passed of the interval, and, if the renewal under way has not taken effect for it, a
\* whole interval before that.
Covered(b) ==
    IF thread # "call"               THEN left[b] + delayed[b] + Interval >= LeaseTicks + due
    ELSE IF b \in renewing /\ ~taken THEN left[b] + delayed[b] + Interval + calling >= LeaseTicks
    ELSE                                  left[b] + delayed[b] + calling >= LeaseTicks

LeasesCovered ==
    worker = "RUNNING" => \A b \in Bindings : binding[b] = "bound" => Covered(b)

LeasingInv == LeasingTypeOK /\ ThreadRuns /\ ClocksAgree /\ DeployedIsFresh /\ LeasesCovered

-----------------------------------------------------------------------------
(* Leasing: the steps                                                       *)

\* The inductive invariant holds at the start of a generation.
LEMMA LeasingStarts == LeasingInit => LeasingInv
  <1> SUFFICES ASSUME LeasingInit PROVE LeasingInv
    OBVIOUS
  <1> USE LeasingAssumption DEF LeasingInit
  <1>1. LeasingTypeOK
    BY DEF LeasingTypeOK, BindingStates
  <1>2. ThreadRuns
    BY DEF ThreadRuns
  <1>3. ClocksAgree
    BY DEF ClocksAgree
  <1>4. DeployedIsFresh
    BY DEF DeployedIsFresh
  <1>5. LeasesCovered
    BY DEF LeasesCovered
  <1> QED BY <1>1, <1>2, <1>3, <1>4, <1>5 DEF LeasingInv

\* The steps of a deployment leave the thread and the leases of bound bindings alone.
LEMMA DeploymentKeeps ==
  ASSUME LeasingInv, NEW b \in Bindings,
         DeployBinding(b) \/ Deployed(b) \/ DeployFails(b) \/ AddRefused(b)
  PROVE  LeasingInv'
  <1> USE LeasingAssumption DEF LeasingInv, LeasingTypeOK, BindingStates, ThreadRuns,
          ClocksAgree, DeployedIsFresh, LeasesCovered, Covered, threadVars
  <1>1. CASE DeployBinding(b)
    BY <1>1 DEF DeployBinding
  <1>2. CASE Deployed(b)
    BY <1>2 DEF Deployed
  <1>3. CASE DeployFails(b)
    BY <1>3 DEF DeployFails
  <1>4. CASE AddRefused(b)
    BY <1>4 DEF AddRefused
  <1> QED BY <1>1, <1>2, <1>3, <1>4

\* A binding that is added in time is covered, whatever the thread is doing.
LEMMA AddKeeps ==
  ASSUME LeasingInv, NEW b \in Bindings, AddBinding(b)
  PROVE  LeasingInv'
  <1> USE LeasingAssumption DEF LeasingInv, AddBinding, Inactive
  <1>1. LeasingTypeOK'
    BY DEF LeasingTypeOK, BindingStates
  <1>2. ThreadRuns'
    BY DEF LeasingTypeOK, BindingStates, ThreadRuns
  <1>3. ClocksAgree'
    BY DEF LeasingTypeOK, ThreadRuns, ClocksAgree
  <1>4. DeployedIsFresh'
    BY DEF LeasingTypeOK, DeployedIsFresh
  <1>5. ASSUME NEW c \in Bindings, binding'[c] = "bound"
        PROVE  Covered(c)'
    <2>1. CASE c = b
      BY <2>1 DEF LeasingTypeOK, ThreadRuns, ClocksAgree, DeployedIsFresh, Covered
    <2>2. CASE c # b
      <3>1. binding[c] = "bound" /\ worker = "RUNNING"
        BY <1>5, <2>2 DEF LeasingTypeOK, ThreadRuns
      <3> QED
        BY <3>1 DEF LeasingTypeOK, ThreadRuns, LeasesCovered, Covered
    <2> QED BY <2>1, <2>2
  <1> QED BY <1>1, <1>2, <1>3, <1>4, <1>5 DEF LeasesCovered

\* The thread hands the cover of a lease from one renewal to the next.
LEMMA ThreadKeeps ==
  ASSUME LeasingInv,
         BeginRenewal \/ RenewalTaken \/ Renewed \/ RenewalFails \/ StopWorker \/ ThreadStops
  PROVE  LeasingInv'
  <1> USE LeasingAssumption DEF LeasingInv, LeasingTypeOK, BindingStates, ThreadRuns,
          ClocksAgree, DeployedIsFresh, LeasesCovered, Covered, threadVars
  <1>1. CASE BeginRenewal
    <2> USE <1>1 DEF BeginRenewal, Known
    <2>1. LeasingTypeOK' /\ ThreadRuns' /\ DeployedIsFresh'
      OBVIOUS
    <2>2. ClocksAgree'
      OBVIOUS
    <2>3. LeasesCovered'
      OBVIOUS
    <2> QED BY <2>1, <2>2, <2>3
  <1>2. CASE RenewalTaken
    BY <1>2 DEF RenewalTaken
  <1>3. CASE Renewed
    BY <1>3 DEF Renewed, SinceBegun
  <1>4. CASE RenewalFails
    BY <1>4 DEF RenewalFails
  <1>5. CASE StopWorker
    BY <1>5 DEF StopWorker
  <1>6. CASE ThreadStops
    BY <1>6 DEF ThreadStops
  <1> QED BY <1>1, <1>2, <1>3, <1>4, <1>5, <1>6

\* A tick takes from a lease what it takes from the way to the next renewal.
LEMMA PassKeeps ==
  ASSUME LeasingInv, Pass
  PROVE  LeasingInv'
  <1> USE LeasingAssumption DEF LeasingInv, Pass, Delays, Overdue
  <1>1. LeasingTypeOK'
    BY DEF LeasingTypeOK
  <1>2. ThreadRuns'
    BY DEF ThreadRuns
  <1>3. ClocksAgree'
    BY DEF LeasingTypeOK, ThreadRuns, ClocksAgree
  <1>4. DeployedIsFresh'
    BY DEF LeasingTypeOK, DeployedIsFresh
  <1>5. LeasesCovered'
    BY DEF LeasingTypeOK, ThreadRuns, ClocksAgree, LeasesCovered, Covered
  <1> QED BY <1>1, <1>2, <1>3, <1>4, <1>5

\* What is covered has not lapsed.
LEMMA CoveredIsLeased == LeasingInv => BoundIsLeased
  BY LeasingAssumption
     DEF LeasingInv, LeasingTypeOK, ThreadRuns, ClocksAgree, LeasesCovered, Covered,
         BoundIsLeased, TooLate

\* No binding that a running worker knows lapses at the Runtime, unless its acknowledgement
\* and the worker's thread were delayed by what the interval and the timeout of a renewal
\* leave of the lease, whatever deployments run beside the renewals and however long the
\* calls take (BoundIsLeased).
THEOREM NoneLapses == LeasingSpec => []BoundIsLeased
  <1>1. LeasingInv /\ [LeasingNext]_leaseVars => LeasingInv'
    <2> SUFFICES ASSUME LeasingInv, [LeasingNext]_leaseVars PROVE LeasingInv'
      OBVIOUS
    <2>1. CASE UNCHANGED leaseVars
      BY <2>1 DEF leaseVars, LeasingInv, LeasingTypeOK, ThreadRuns, ClocksAgree,
         DeployedIsFresh, LeasesCovered, Covered
    <2>2. CASE LeasingNext
      BY <2>2, DeploymentKeeps, AddKeeps, ThreadKeeps, PassKeeps DEF LeasingNext
    <2> QED BY <2>1, <2>2
  <1> QED BY <1>1, LeasingStarts, CoveredIsLeased, PTL DEF LeasingSpec

-----------------------------------------------------------------------------
(* Library: the invariant                                                   *)

Contents == [library : Libraries, version : Versions]

Commands ==
    {NoCommand}
    \cup [kind : {"install"}, path : Paths, next : 1 .. 4, content : Contents]
    \cup [kind : {"remove"}, path : Paths]

LibraryTypeOK ==
    /\ files \in [Paths -> [Parts -> Contents \cup {NoFile}]]
    /\ command \in Commands
    /\ torn \subseteq Paths

\* An install has written the first of its files, over those of nobody else, and a path
\* that it does not tear has no lock until all of them are written.
InstallHolds ==
    command.kind = "install" =>
      LET p == command.path IN
      /\ \A i \in 1 .. 3 : i < command.next => files[p][WriteOrder(i)] = command.content
      /\ Lock(p) = NoFile \/ Lock(p).library = command.content.library
      /\ p \notin torn /\ command.next < 4 => Lock(p) = NoFile

\* What a removal does not tear had no lock when it began.
RemoveHolds ==
    command.kind = "remove" => \A q \in Below(command.path) \ torn : Lock(q) = NoFile

LibraryInv == LibraryTypeOK /\ InstallHolds /\ RemoveHolds /\ ListedIsOwn /\ ListedIsWhole

-----------------------------------------------------------------------------
(* Library: the steps                                                       *)

\* The fields of a command, by its kind.
LEMMA CommandFields ==
    ASSUME LibraryTypeOK
    PROVE  /\ command.kind = "install" =>
                command.path \in Paths /\ command.next \in 1 .. 4 /\ command.content \in Contents
           /\ command.kind = "remove" => command.path \in Paths
           /\ command.kind \in {"install", "remove", "none"}
           /\ command.kind = "none" <=> command = NoCommand
<1>1. CASE command = NoCommand
  BY <1>1 DEF NoCommand
<1>2. CASE command \in [kind : {"install"}, path : Paths, next : 1 .. 4, content : Contents]
  BY <1>2 DEF NoCommand
<1>3. CASE command \in [kind : {"remove"}, path : Paths]
  BY <1>3 DEF NoCommand
<1>. QED  BY <1>1, <1>2, <1>3 DEF LibraryTypeOK, Commands

\* A command that begins tears the listed paths among those that it will touch.
LEMMA CommandBegins ==
    ASSUME LibraryInv, NEW c \in Commands, NEW paths \in SUBSET Paths, Begin(c, paths),
           c.kind = "install" =>
             c.path \in paths /\ c.next = 1 /\ (Lock(c.path) = NoFile \/ Lock(c.path).library = c.content.library),
           c.kind = "remove" => paths = Below(c.path)
    PROVE  LibraryInv'
<1> USE DEF LibraryInv
<1>1. command' = c /\ torn' = torn \cup {q \in paths : Lock(q) # NoFile} /\ files' = files
  BY DEF Begin
<1>2. LibraryTypeOK'
  BY <1>1 DEF LibraryTypeOK
<1>3. InstallHolds'
  BY <1>1 DEF InstallHolds, Lock
<1>4. RemoveHolds'
  BY <1>1 DEF RemoveHolds, Lock, Below
<1>5. ListedIsOwn' /\ ListedIsWhole'
  BY <1>1 DEF ListedIsOwn, ListedIsWhole, Lock
<1>. QED  BY <1>2, <1>3, <1>4, <1>5

\* An install begins on a path that is nobody else's.
LEMMA InstallBegins ==
    ASSUME LibraryInv, NEW l \in Libraries, NEW v \in Versions, NEW p \in Paths, InstallBegin(l, v, p)
    PROVE  LibraryInv'
<1> DEFINE c == [kind |-> "install", path |-> p, next |-> 1, content |-> [library |-> l, version |-> v]]
<1>1. c \in Commands /\ c.kind = "install" /\ c.path = p /\ c.next = 1 /\ c.content.library = l
  BY DEF Commands, Contents
<1>2. Begin(c, {p}) /\ (Lock(p) = NoFile \/ Lock(p).library = l)
  BY DEF InstallBegin, Owned
<1> HIDE DEF c
<1>. QED  BY <1>1, <1>2, CommandBegins

\* A removal begins on a path that is listed.
LEMMA RemoveBegins ==
    ASSUME LibraryInv, NEW p \in Paths, RemoveBegin(p)
    PROVE  LibraryInv'
<1> DEFINE c == [kind |-> "remove", path |-> p]
<1>1. c \in Commands /\ c.kind = "remove" /\ c.path = p
  BY DEF Commands
<1>2. Begin(c, Below(p)) /\ Below(p) \subseteq Paths
  BY DEF RemoveBegin, Below
<1> HIDE DEF c
<1>. QED  BY <1>1, <1>2, CommandBegins

\* The lock is the last file that is written, beside files that are all its own.
LEMMA WriteKeeps ==
    ASSUME LibraryInv, Write
    PROVE  LibraryInv'
<1> USE DEF LibraryInv
<1> DEFINE p == command.path
<1> DEFINE n == command.next
<1> DEFINE content == command.content
<1>1. /\ p \in Paths /\ n \in 1 .. 3 /\ content \in Contents /\ command.kind = "install"
  BY CommandFields DEF Write
<1>2. /\ files' = [files EXCEPT ![p][WriteOrder(n)] = content]
      /\ command' = [command EXCEPT !.next = n + 1] /\ torn' = torn
  BY DEF Write
<1>3. /\ WriteOrder(1) = "source" /\ WriteOrder(2) = "stub" /\ WriteOrder(3) = "lock"
  BY DEF WriteOrder
<1>4. /\ \A q \in Paths \ {p} : files'[q] = files[q]
      /\ \A part \in Parts : files'[p][part] = IF part = WriteOrder(n) THEN content ELSE files[p][part]
      /\ files' \in [Paths -> [Parts -> Contents \cup {NoFile}]]
  BY <1>1, <1>2, <1>3 DEF LibraryTypeOK, Parts
<1>5. /\ command' \in Commands /\ command'.kind = "install" /\ command'.path = p
      /\ command'.next = n + 1 /\ command'.content = content
  <2>1. command \in [kind : {"install"}, path : Paths, next : 1 .. 4, content : Contents]
    BY <1>1 DEF LibraryTypeOK, Commands, NoCommand
  <2>. QED  BY <1>1, <1>2, <2>1 DEF Commands
<1> HIDE DEF p, n, content
<1>6. LibraryTypeOK'
  BY <1>2, <1>4, <1>5 DEF LibraryTypeOK
<1>7. RemoveHolds'
  BY <1>5 DEF RemoveHolds
<1>8. /\ \A i \in 1 .. 3 : i < n => files[p][WriteOrder(i)] = content
      /\ Lock(p) = NoFile \/ Lock(p).library = content.library
      /\ p \notin torn => Lock(p) = NoFile
  BY <1>1 DEF InstallHolds, p, n, content
<1>9. files'[p]["lock"] = IF n = 3 THEN content ELSE Lock(p)
  BY <1>1, <1>3, <1>4 DEF Lock, Parts
<1>10. InstallHolds'
  <2>1. ASSUME NEW i \in 1 .. 3, i < n + 1 PROVE files'[p][WriteOrder(i)] = content
    BY <1>1, <1>3, <1>4, <1>8, <2>1 DEF Parts
  <2>2. n + 1 < 4 <=> n # 3
    BY <1>1
  <2>3. files'[p]["lock"] = NoFile \/ files'[p]["lock"].library = content.library
    BY <1>8, <1>9
  <2>4. p \notin torn /\ n + 1 < 4 => files'[p]["lock"] = NoFile
    BY <1>8, <1>9, <2>2
  <2>. QED  BY <1>2, <1>5, <2>1, <2>3, <2>4 DEF InstallHolds, Lock
<1>11. ASSUME NEW part \in Parts, files'[p]["lock"] # NoFile
       PROVE  files'[p][part] = NoFile \/ files'[p][part].library = files'[p]["lock"].library
  <2>1. CASE n = 3
    <3>1. files'[p][part] = content
      BY <1>3, <1>4, <1>8, <2>1 DEF Parts
    <3>. QED  BY <1>9, <2>1, <3>1
  <2>2. CASE n # 3
    BY <1>1, <1>4, <1>8, <1>9, <1>11, <2>2 DEF ListedIsOwn, Lock
  <2>. QED  BY <2>1, <2>2
<1>12. ASSUME NEW part \in Parts, files'[p]["lock"] # NoFile, p \notin torn
       PROVE  files'[p][part] = files'[p]["lock"]
  <2>1. n = 3
    BY <1>8, <1>9, <1>12
  <2>2. files'[p][part] = content
    BY <1>3, <1>4, <1>8, <2>1 DEF Parts
  <2>. QED  BY <1>9, <2>1, <2>2
<1>13. ListedIsOwn'
  BY <1>1, <1>4, <1>11 DEF ListedIsOwn, Lock
<1>14. ListedIsWhole'
  BY <1>1, <1>2, <1>4, <1>12 DEF ListedIsWhole, Lock
<1>. QED  BY <1>6, <1>7, <1>10, <1>13, <1>14

\* A file that is deleted is nobody's.
LEMMA UnlinkKeeps ==
    ASSUME LibraryInv, NEW p \in Paths, NEW part \in Parts, Unlink(p, part)
    PROVE  LibraryInv'
<1> USE DEF LibraryInv
<1>1. /\ files' = [files EXCEPT ![p][part] = NoFile] /\ UNCHANGED <<command, torn>>
      /\ command.kind = "remove" /\ p \in Below(command.path)
  BY DEF Unlink
<1>2. /\ files' \in [Paths -> [Parts -> Contents \cup {NoFile}]]
      /\ \A q \in Paths, other \in Parts :
           files'[q][other] = IF q = p /\ other = part THEN NoFile ELSE files[q][other]
  BY <1>1 DEF LibraryTypeOK
<1>3. LibraryTypeOK' /\ InstallHolds'
  BY <1>1, <1>2 DEF LibraryTypeOK, InstallHolds
<1>4. "lock" \in Parts /\ Below(command.path) \subseteq Paths
  BY DEF Parts, Below
<1>5. \A q \in Paths : Lock(q)' = Lock(q) \/ Lock(q)' = NoFile
  BY <1>2, <1>4 DEF Lock
<1>6. RemoveHolds'
  BY <1>1, <1>4, <1>5 DEF RemoveHolds, Below
<1>7. ListedIsOwn'
  BY <1>2, <1>5 DEF ListedIsOwn, Lock
<1>8. ListedIsWhole'
  <2> SUFFICES ASSUME NEW q \in Paths \ torn, NEW other \in Parts, Lock(q)' # NoFile
               PROVE  files'[q][other] = Lock(q)'
    BY <1>1 DEF ListedIsWhole
  <2>1. Lock(q)' = Lock(q) /\ files[q][other] = Lock(q)
    BY <1>5 DEF ListedIsWhole
  <2>2. q # p
    BY <1>1, <2>1 DEF RemoveHolds
  <2>. QED  BY <1>2, <2>1, <2>2
<1>. QED  BY <1>3, <1>6, <1>7, <1>8

\* A command that ends leaves nothing torn, one that is interrupted what it tore.
LEMMA EndKeeps ==
    ASSUME LibraryInv, InstallEnd \/ RemoveEnd \/ Interrupted
    PROVE  LibraryInv'
<1> USE DEF LibraryInv
<1>1. command' = NoCommand /\ command'.kind = "none" /\ files' = files
  BY DEF InstallEnd, RemoveEnd, Interrupted, NoCommand
<1>2. InstallHolds' /\ RemoveHolds' /\ ListedIsOwn'
  BY <1>1 DEF InstallHolds, RemoveHolds, ListedIsOwn, Lock
<1>3. torn' \subseteq torn
  BY DEF InstallEnd, RemoveEnd, Interrupted
<1>4. LibraryTypeOK'
  BY <1>1, <1>3 DEF LibraryTypeOK, Commands
<1>5. ASSUME NEW q \in Paths, q \in torn, q \notin torn', NEW part \in Parts, Lock(q) # NoFile
      PROVE  files[q][part] = Lock(q)
  <2>1. CASE InstallEnd
    <3>1. q = command.path /\ command.kind = "install" /\ command.next = 4
      BY <1>5, <2>1 DEF InstallEnd
    <3>2. \A i \in 1 .. 3 : files[q][WriteOrder(i)] = command.content
      BY <3>1 DEF InstallHolds
    <3>3. files[q]["source"] = command.content /\ files[q]["stub"] = command.content /\ files[q]["lock"] = command.content
      <4>1. /\ WriteOrder(1) = "source" /\ WriteOrder(2) = "stub" /\ WriteOrder(3) = "lock"
        BY DEF WriteOrder
      <4>. QED  BY <3>2, <4>1
    <3>. QED  BY <3>3 DEF Lock, Parts
  <2>2. CASE RemoveEnd
    BY <1>5, <2>2 DEF RemoveEnd, Lock, Parts
  <2>3. CASE Interrupted
    BY <1>5, <2>3 DEF Interrupted
  <2>. QED  BY <2>1, <2>2, <2>3
<1>6. ListedIsWhole'
  BY <1>1, <1>5 DEF ListedIsWhole, Lock
<1>. QED  BY <1>2, <1>4, <1>6

-----------------------------------------------------------------------------
(* Library: what every behaviour keeps                                      *)

\* The invariant holds before anything is installed, and every step keeps it.
THEOREM LibraryInvariance == LibrarySpec => []LibraryInv
<1>1. LibraryInit => LibraryInv
  <2> SUFFICES ASSUME LibraryInit PROVE LibraryInv
    OBVIOUS
  <2>1. LibraryTypeOK /\ command.kind = "none"
    BY DEF LibraryInit, LibraryTypeOK, Commands, NoCommand
  <2>2. \A p \in Paths : Lock(p) = NoFile
    BY DEF LibraryInit, Lock, Parts
  <2>. QED  BY <2>1, <2>2 DEF LibraryInv, InstallHolds, RemoveHolds, ListedIsOwn, ListedIsWhole
<1>2. LibraryInv /\ [LibraryNext]_libraryVars => LibraryInv'
  <2> SUFFICES ASSUME LibraryInv, [LibraryNext]_libraryVars PROVE LibraryInv'
    OBVIOUS
  <2>1. CASE UNCHANGED libraryVars
    BY <2>1 DEF libraryVars, LibraryInv, LibraryTypeOK, InstallHolds, RemoveHolds, ListedIsOwn, ListedIsWhole, Lock, Below
  <2>. QED  BY <2>1, InstallBegins, RemoveBegins, WriteKeeps, EndKeeps, UnlinkKeeps DEF LibraryNext
<1>. QED  BY <1>1, <1>2, PTL DEF LibrarySpec

\* Library.ListedIsOwn for any libraries, paths and nesting of them: what is imported from
\* a listed path is the library of its lock, or missing.
THEOREM ListingsAreOwn == LibrarySpec => []ListedIsOwn
<1>1. LibraryInv => ListedIsOwn
  BY DEF LibraryInv
<1>. QED  BY <1>1, LibraryInvariance, PTL

\* Library.ListedIsWhole: what no command left torn is complete and in the version that is
\* listed.
THEOREM ListingsAreWhole == LibrarySpec => []ListedIsWhole
<1>1. LibraryInv => ListedIsWhole
  BY DEF LibraryInv
<1>. QED  BY <1>1, LibraryInvariance, PTL

\* A listed path goes from one library to another only through a moment in which it is not
\* listed.
OwnerStays ==
    [][\A p \in Paths : Lock(p) # NoFile =>
          Lock(p)' = NoFile \/ Lock(p)'.library = Lock(p).library]_libraryVars

\* install_library() never takes over the package of somebody else, whatever an earlier
\* command left there (OwnerStays).
THEOREM OwnersStay == LibrarySpec => OwnerStays
<1> DEFINE Stays == \A p \in Paths : Lock(p) # NoFile =>
                      Lock(p)' = NoFile \/ Lock(p)'.library = Lock(p).library
<1>1. LibraryInv /\ [LibraryNext]_libraryVars => [Stays]_libraryVars
  <2> SUFFICES ASSUME LibraryInv, LibraryNext, NEW p \in Paths, Lock(p) # NoFile
               PROVE  Lock(p)' = NoFile \/ Lock(p)'.library = Lock(p).library
    OBVIOUS
  <2>1. CASE Write
    <3>1. /\ command.path \in Paths /\ command.next \in 1 .. 3 /\ command.kind = "install"
      BY <2>1, CommandFields DEF Write, LibraryInv
    <3>2. p = command.path => Lock(p).library = command.content.library
      BY <3>1 DEF LibraryInv, InstallHolds
    <3>3. files' = [files EXCEPT ![command.path][WriteOrder(command.next)] = command.content]
      BY <2>1 DEF Write
    <3>4. files'[p]["lock"] = Lock(p) \/ (p = command.path /\ files'[p]["lock"] = command.content)
      BY <3>1, <3>3 DEF LibraryInv, LibraryTypeOK, Lock, Parts
    <3>. QED  BY <3>2, <3>4 DEF Lock
  <2>2. CASE \E q \in Paths, part \in Parts : Unlink(q, part)
    BY <2>2 DEF Unlink, LibraryInv, LibraryTypeOK, Lock, Parts
  <2>3. CASE files' = files
    BY <2>3 DEF Lock
  <2>. QED
    BY <2>1, <2>2, <2>3 DEF LibraryNext, InstallBegin, RemoveBegin, Begin, InstallEnd, RemoveEnd, Interrupted
<1>. QED  BY <1>1, LibraryInvariance, PTL DEF LibrarySpec, OwnerStays

-----------------------------------------------------------------------------
(* The four together                                                        *)

\* A behaviour of the distribution is one of each of its parts.
LEMMA PartsRun == Spec => OnboardingSpec /\ StagingSpec /\ LeasingSpec /\ LibrarySpec
<1>1. Init => OnboardingInit /\ StagingInit /\ LeasingInit /\ LibraryInit
  BY DEF Init
<1>2. [Next]_vars => /\ [OnboardingNext]_onboardingVars /\ [StagingNext]_stagingVars
                     /\ [LeasingNext]_leaseVars /\ [LibraryNext]_libraryVars
  BY DEF Next, vars
<1>. QED
  BY <1>1, <1>2, PTL DEF Spec, OnboardingSpec, StagingSpec, LeasingSpec, LibrarySpec

\* What is proved of the parts holds of the specification that TLC runs: no step of one part
\* reaches the state of another.
THEOREM DistributionSafe ==
  Spec => [](OnboardedAsOne /\ DeployedIsWhole /\ BoundIsLeased /\ ListedIsOwn /\ ListedIsWhole)
BY PartsRun, ProvidersOnboardedAsOne, DeployedWhole, NoneLapses, ListingsAreOwn, ListingsAreWhole, PTL
=============================================================================
