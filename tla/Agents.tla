------------------------------- MODULE Agents -------------------------------
(***************************************************************************)
(* Client.agent() and RemoteAgent (client.py, agent.py): the threads of one  *)
(* Client call an agent by its bare id, which the DiscoveryCache resolves to *)
(* one of the owners that listings of the daemon's catalogue left there.     *)
(* One agent id is modelled; an owner is the user whose agent it is.         *)
(***************************************************************************)
EXTENDS Naturals, FiniteSets

CONSTANTS
    Chatters,       \* the threads
    Users,          \* the users who may have an agent of the id
    Me,             \* the paired user
    MaxRequests     \* bound of the operations that are begun

ASSUME AgentsAssumption == Me \in Users /\ IsFiniteSet(Users) /\ MaxRequests \in Nat

VARIABLES
    listed,         \* the users whose agent is in the catalogue
    owners,         \* DiscoveryCache._agent_owners_by_id of the id
    request,        \* [Chatters -> the last operation of the thread]; its `sure' is a
                    \* history, see Sure and OwnAgentCalled
    requests        \* the number of operations begun

agentVars == <<listed, owners, request, requests>>

AgentsInit ==
    /\ listed = {} /\ owners = {} /\ requests = 0
    /\ request = [t \in Chatters |-> [pc |-> "returned", method |-> "list", rows |-> {},
                                      owner |-> {}, sure |-> FALSE]]

Be(t, pc) == request' = [request EXCEPT ![t].pc = pc]

\* A write to the cache by one thread leaves no other sure.
Writes(t, next) ==
    request' = [u \in Chatters |-> IF u = t THEN next ELSE [request[u] EXCEPT !.sure = FALSE]]

----------------------------------------------------------------------------
(* The daemon                                                               *)

Enlist(u) ==
    /\ u \notin listed /\ listed' = listed \cup {u}
    /\ UNCHANGED <<owners, request, requests>>

Retire(u) ==
    /\ u \in listed /\ listed' = listed \ {u}
    /\ request' = [t \in Chatters |-> [request[t] EXCEPT !.sure = @ /\ u # Me]]
    /\ UNCHANGED <<owners, requests>>

----------------------------------------------------------------------------
(* Listings                                                                 *)

Start(t, method, pc, owner, sure) ==
    /\ request[t].pc \in {"returned", "raised", "failed"} /\ requests < MaxRequests
    /\ requests' = requests + 1
    /\ request' = [request EXCEPT ![t] = [pc |-> pc, method |-> method, rows |-> {},
                                          owner |-> owner, sure |-> sure]]
    /\ UNCHANGED <<listed, owners>>

\* A query, the scope and the owner of the request leave rows out.
FetchRows(t) ==
    /\ request[t].pc = "fetch"
    /\ \E rows \in SUBSET listed : request' = [request EXCEPT
         ![t].rows = rows, ![t].pc = IF request[t].method = "functions" THEN "clear" ELSE "fill"]
    /\ UNCHANGED <<listed, owners, requests>>

\* DiscoveryCache.replace() clears first.
ClearOwners(t) ==
    /\ request[t].pc = "clear"
    /\ Writes(t, [request[t] EXCEPT !.pc = "fill"])
    /\ owners' = {}
    /\ UNCHANGED <<listed, requests>>

\* remember() and remember_catalog_rows() add owner by owner.
RememberOwner(t) ==
    /\ request[t].pc = "fill"
    /\ \E u \in request[t].rows :
         /\ owners' = owners \cup {u}
         /\ Writes(t, [request[t] EXCEPT !.rows = @ \ {u}])
    /\ UNCHANGED <<listed, requests>>

Remembered(t) ==
    /\ request[t].pc = "fill" /\ request[t].rows = {}
    /\ IF request[t].method = "chat" THEN Be(t, "again") ELSE Be(t, "returned")
    /\ UNCHANGED <<listed, owners, requests>>

----------------------------------------------------------------------------
(* Calls of an agent                                                        *)

\* The paired user's agent is listed, and no other is known without it.
Sure == Me \in listed /\ (owners = {} \/ Me \in owners)

\* chat() or another call of client.agent(id) ...
Chat(t) == Start(t, "chat", "owner", {}, Sure)

\* ... and of client.agent(<user>.<id>), whose owner is not resolved.
ChatWith(t, u) == Start(t, "chat", "call", {u}, FALSE)

\* _preflight_agent_catalogue() asks for the whole realm.
Preflight(t) ==
    /\ request[t].pc = "preflight"
    /\ request' = [request EXCEPT ![t].rows = listed, ![t].pc = "fill"]
    /\ UNCHANGED <<listed, owners, requests>>

\* Mutant: the first of several owners, whoever that is.
FirstOwner(known) == IF known \subseteq {Me} THEN known ELSE {CHOOSE u \in known : u # Me}

\* _cached_agent_owner_ura(): the only owner, or the paired user.
Preferred(known) == IF Cardinality(known) = 1 THEN known ELSE known \cap {Me}

\* Without an owner the catalogue is asked, once; without one again, or with several
\* that are others, the call raises.
ResolveOwner(t) ==
    /\ request[t].pc \in {"owner", "again"}
    /\ request' = [request EXCEPT
         ![t].owner = Preferred(owners),
         ![t].pc = IF Preferred(owners) # {} THEN "call"
                   ELSE IF owners = {} /\ @ = "owner" THEN "preflight" ELSE "raised"]
    /\ UNCHANGED <<listed, owners, requests>>

\* The chat of the owner is invoked, or fails, whether or not the trace of its failure
\* can be read; a descriptor that is looked up for it leaves its owner in the cache, too.
Invoke(t) ==
    /\ request[t].pc = "call"
    /\ \E pc \in {"answered", "failed"} :
         \/ Be(t, pc) /\ UNCHANGED owners
         \/ /\ owners' = owners \cup request[t].owner
            /\ Writes(t, [request[t] EXCEPT !.pc = pc])
    /\ UNCHANGED <<listed, requests>>

\* A response of another shape is refused ...
Reply(t) ==
    /\ request[t].pc = "answered"
    /\ Be(t, "trace") \/ Be(t, "failed")
    /\ UNCHANGED <<listed, owners, requests>>

\* ... and so is a trace that has no record of the call yet, but none that is not read.
ReadTrace(t) ==
    /\ request[t].pc = "trace"
    /\ Be(t, "returned") \/ Be(t, "failed")
    /\ UNCHANGED <<listed, owners, requests>>

\* The daemon is not reached.
Unreached(t) ==
    /\ request[t].pc \in {"fetch", "preflight"}
    /\ request' = [request EXCEPT ![t].pc = "raised", ![t].sure = FALSE]
    /\ UNCHANGED <<listed, owners, requests>>

AgentsNext ==
    \/ \E u \in Users : Enlist(u) \/ Retire(u)
    \/ \E t \in Chatters :
         \/ \E method \in {"functions", "list"} : Start(t, method, "fetch", {}, FALSE)
         \/ FetchRows(t) \/ ClearOwners(t) \/ RememberOwner(t) \/ Remembered(t)
         \/ Chat(t) \/ \E u \in Users : ChatWith(t, u)
         \/ Preflight(t) \/ ResolveOwner(t) \/ Unreached(t)
         \/ Invoke(t) \/ Reply(t) \/ ReadTrace(t)

AgentsSpec == AgentsInit /\ [][AgentsNext]_agentVars

----------------------------------------------------------------------------
(* Properties                                                               *)

\* A bare agent id reaches the agent of the paired user, and is neither ambiguous nor
\* unresolved, as long as that agent stays listed, the cache did not hold the agents of
\* others only, and no other thread writes the cache meanwhile.
OwnAgentCalled ==
    \A t \in Chatters : LET r == request[t] IN
      r.sure => r.pc # "raised" /\ (r.pc = "call" => r.owner = {Me})
=============================================================================
