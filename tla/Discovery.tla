----------------------------- MODULE Discovery -----------------------------
(***************************************************************************)
(* Discovery and target resolution of one Client (client.py, _addressing.py, *)
(* agent.py's and control.py's listings): threads that share the Client list *)
(* the daemon's catalogue into the DiscoveryCache, resolve the target of a   *)
(* call against it and build the invocation.  Each map of the cache is read  *)
(* or written at once, two of them are not.  The daemon is external; how the *)
(* invocation is dispatched is the module Transports.                        *)
(***************************************************************************)
EXTENDS Naturals, Sequences, FiniteSets, SequencesExt

CONSTANTS
    Threads,
    Abilities,      \* ability URAs; one verb names them all
    ModeOf,         \* the committed call mode of each ability
    LocalAbility,   \* the one of this device's own ability-management agent
    Verb,           \* a target that is the verb, to be picked
    MaxVersion,     \* bound of the descriptors that are published, per ability
    MaxOps          \* bound of the operations that are begun

ASSUME DiscoveryAssumption ==
    /\ IsFiniteSet(Abilities) /\ ModeOf \in [Abilities -> {"rpc", "stream"}]
    /\ LocalAbility \in Abilities /\ Verb \notin Abilities
    /\ MaxVersion \in [Abilities -> Nat] /\ MaxOps \in Nat

VARIABLES
    catalogue,      \* [Abilities -> version of the descriptor], 0: not published
    issued,         \* [Abilities -> last version published]
    descriptors,    \* DiscoveryCache: [Abilities -> version], 0: not known
    carriers,       \* DiscoveryCache: the abilities whose call mode is known
    candidates,     \* DiscoveryCache: the rows of the verb, in order
    cursor,         \* DiscoveryCache: the round-robin index of the verb
    local,          \* the running operation of each thread
    begun,          \* the number of operations begun
    floor           \* history: the oldest version a quiet refresh left possible

daemonVars  == <<catalogue, issued>>
cacheVars   == <<descriptors, carriers, candidates, cursor>>
historyVars == <<begun, floor>>
discoveryVars == <<daemonVars, cacheVars, local, historyVars>>

None == [a \in Abilities |-> 0]

Idle == [pc |-> "idle", method |-> "none", ability |-> Verb, pin |-> 0,
         version |-> 0, carrier |-> "unary", rows |-> <<>>,
         quiet |-> FALSE, floor |-> None]

DiscoveryInit ==
    /\ catalogue = None /\ issued = None
    /\ descriptors = None /\ carriers = {} /\ candidates = <<>> /\ cursor = 0
    /\ local = [t \in Threads |-> Idle]
    /\ begun = 0 /\ floor = None

At(t, pc)   == local[t].pc = pc
Goto(t, pc) == local' = [local EXCEPT ![t].pc = pc]
Return(t)   == local' = [local EXCEPT ![t] = Idle]

----------------------------------------------------------------------------
(* The daemon's catalogue                                                   *)

Publish(a) ==
    /\ issued[a] < MaxVersion[a]
    /\ issued' = [issued EXCEPT ![a] = @ + 1]
    /\ catalogue' = [catalogue EXCEPT ![a] = issued'[a]]
    /\ UNCHANGED <<cacheVars, local, historyVars>>

Withdraw(a) ==
    /\ catalogue[a] # 0
    /\ catalogue' = [catalogue EXCEPT ![a] = 0]
    /\ UNCHANGED <<issued, cacheVars, local, historyVars>>

\* The oldest version of an ability that a call may still meet.
Current == [a \in Abilities |-> IF catalogue[a] = 0 THEN issued[a] + 1 ELSE catalogue[a]]

----------------------------------------------------------------------------
(* Listing the catalogue                                                    *)

Begin(t, start) ==
    /\ At(t, "idle") /\ begun < MaxOps
    /\ begun' = begun + 1
    /\ local' = [u \in Threads |->
         IF u = t THEN [start EXCEPT !.quiet = \A v \in Threads : At(v, "idle"),
                                     !.floor = floor]
                  ELSE [local[u] EXCEPT !.quiet = FALSE]]
    /\ UNCHANGED <<daemonVars, cacheVars, floor>>

\* functions(), and AbilityControl.list(), which adds to the cache.
Discover(t, method) ==
    Begin(t, [Idle EXCEPT !.pc = "fetch", !.method = method])

\* FunctionInfo and AbilityRecord: what the cache reads of a row.
Row(a) == [ability |-> a, version |-> catalogue[a]]

\* The rows of the catalogue that match the query.
Fetch(t) ==
    /\ At(t, "fetch")
    /\ \E found \in SUBSET {a \in Abilities : catalogue[a] # 0} :
         local' = [local EXCEPT
           ![t].rows = SetToSeq({Row(a) : a \in found}),
           ![t].floor = Current,
           ![t].pc = IF local[t].method = "list" THEN "fill" ELSE "clear"]
    /\ UNCHANGED <<daemonVars, cacheVars, historyVars>>

\* Mutant: one of the maps is not cleared.
KeepDescriptors(ds) == ds

ClearDescriptors(ds) == [a \in Abilities |-> 0]

\* DiscoveryCache.replace(): the maps are cleared one after the other.
Clear(t) ==
    \/ /\ At(t, "clear") /\ Goto(t, "clear_carriers")
       /\ descriptors' = ClearDescriptors(descriptors)
       /\ UNCHANGED <<carriers, candidates, cursor, daemonVars, historyVars>>
    \/ /\ At(t, "clear_carriers") /\ Goto(t, "clear_candidates")
       /\ carriers' = {}
       /\ UNCHANGED <<descriptors, candidates, cursor, daemonVars, historyVars>>
    \/ /\ At(t, "clear_candidates") /\ Goto(t, "fill")
       /\ candidates' = <<>> /\ cursor' = 0
       /\ UNCHANGED <<descriptors, carriers, daemonVars, historyVars>>

\* DiscoveryCache.remember(), row by row.
Remember(t) ==
    /\ At(t, "fill")
    /\ IF local[t].rows = <<>>
       THEN /\ Return(t)
            /\ floor' = IF local[t].quiet /\ local[t].method = "functions"
                        THEN local[t].floor ELSE floor
            /\ UNCHANGED cacheVars
       ELSE LET row == Head(local[t].rows)
            IN  /\ local' = [local EXCEPT ![t].rows = Tail(@)]
                /\ candidates' = Append(candidates, row)
                /\ descriptors' = [descriptors EXCEPT ![row.ability] = row.version]
                /\ carriers' = carriers \cup {row.ability}
                /\ UNCHANGED <<cursor, floor>>
    /\ UNCHANGED <<daemonVars, begun>>

----------------------------------------------------------------------------
(* A call                                                                   *)

\* A target with a pin names its descriptor itself.
Call(t, method, ability, pin) ==
    Begin(t, [Idle EXCEPT !.pc = "address", !.method = method,
                          !.ability = ability, !.pin = pin])

\* Only call() hands the pin of the target to resolve().
Pinned(method, pin) == IF method = "call" THEN pin ELSE 0

\* AbilityAddressResolver.resolve() of an ability URA or a qualified name ...
Address(t) ==
    LET l == local[t] IN
    /\ At(t, "address") /\ l.ability # Verb
    /\ local' = [local EXCEPT
         ![t].version = IF Pinned(l.method, l.pin) # 0 THEN l.pin ELSE descriptors[l.ability],
         ![t].pc = "carrier"]
    /\ UNCHANGED <<daemonVars, cacheVars, historyVars>>

\* ... and of a verb: the next candidate in turn, or the local ability.  A thread
\* switch inside select() would only pick a candidate twice.
Pick(t) ==
    LET l == local[t] IN
    /\ At(t, "address") /\ l.ability = Verb
    /\ \E row \in IF candidates # <<>> THEN {candidates[(cursor % Len(candidates)) + 1]}
                  ELSE {[ability |-> LocalAbility, version |-> descriptors[LocalAbility]]} :
         local' = [local EXCEPT
           ![t].ability = row.ability,
           ![t].version = IF Pinned(l.method, l.pin) # 0 THEN l.pin ELSE row.version,
           ![t].pc = "carrier"]
    /\ cursor' = IF candidates # <<>> THEN cursor + 1 ELSE cursor
    /\ UNCHANGED <<daemonVars, descriptors, carriers, candidates, historyVars>>

AddressCarrier(t) ==
    LET l == local[t] IN
    /\ At(t, "carrier")
    /\ local' = [local EXCEPT
         ![t].carrier = IF l.ability \in carriers /\ ModeOf[l.ability] = "stream"
                        THEN "stream" ELSE "unary",
         ![t].pc = IF l.version = 0 THEN "lookup" ELSE "dispatch"]
    /\ UNCHANGED <<daemonVars, cacheVars, historyVars>>

Mode(l) ==
    CASE l.method = "call"   -> IF l.carrier = "stream" THEN "stream" ELSE "rpc"
      [] l.method = "stream" -> "stream"
      [] l.method = "invoke" -> "rpc"
      [] OTHER               -> "bidi"

\* _runtime_descriptor_ref(): the descriptor of this ability in this mode.
Lookup(t) ==
    LET l == local[t] IN
    /\ At(t, "lookup")
    /\ IF catalogue[l.ability] # 0 /\ ModeOf[l.ability] = Mode(l)
       THEN local' = [local EXCEPT ![t].version = catalogue[l.ability],
                                   ![t].pc = "remember"]
       ELSE Return(t)
    /\ UNCHANGED <<daemonVars, cacheVars, historyVars>>

RememberDescriptor(t) ==
    /\ At(t, "remember") /\ Goto(t, "dispatch")
    /\ descriptors' = [descriptors EXCEPT ![local[t].ability] = local[t].version]
    /\ UNCHANGED <<daemonVars, carriers, candidates, cursor, historyVars>>

\* The daemon is not reached, or refuses.
Fails(t) ==
    /\ local[t].pc \in {"fetch", "lookup"}
    /\ Return(t)
    /\ UNCHANGED <<daemonVars, cacheVars, historyVars>>

\* build_invocation(): the draft carries the descriptor and is handed to a
\* transport, or is refused.
Dispatch(t) ==
    /\ At(t, "dispatch") /\ Return(t)
    /\ UNCHANGED <<daemonVars, cacheVars, historyVars>>

----------------------------------------------------------------------------
CallMethods == {"call", "stream", "invoke", "session"}

DiscoveryNext ==
    \/ \E a \in Abilities : Publish(a) \/ Withdraw(a)
    \/ \E t \in Threads :
         \/ \E method \in {"functions", "list"} : Discover(t, method)
         \/ \E method \in CallMethods, a \in Abilities \cup {Verb}, pin \in {0, 1} :
              Call(t, method, a, pin)
         \/ Fetch(t) \/ Clear(t) \/ Remember(t)
         \/ Address(t) \/ Pick(t) \/ AddressCarrier(t)
         \/ Lookup(t) \/ RememberDescriptor(t)
         \/ Fails(t) \/ Dispatch(t)

DiscoverySpec == DiscoveryInit /\ [][DiscoveryNext]_discoveryVars

----------------------------------------------------------------------------
(* Properties                                                               *)

\* A functions() that ran alone sets a floor: no operation that begins after it
\* dispatches an older descriptor than the catalogue had then, although later
\* refreshes, listings and lookups of several threads overlap in the cache.
RefreshIsSeen ==
    \A t \in Threads : LET l == local[t] IN
      At(t, "dispatch") /\ Pinned(l.method, l.pin) = 0 => l.version >= l.floor[l.ability]

\* The descriptor of a target "pins the remote contract" (tests/test_client.py:2004)
\* of whatever is invoked on it.
PinKept ==
    \A t \in Threads : At(t, "dispatch") /\ local[t].pin # 0 => local[t].version = local[t].pin
=============================================================================
