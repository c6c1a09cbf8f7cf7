------------------------------ MODULE Provider ------------------------------
(***************************************************************************)
(* The provider lifecycle of EasyRemote: ComputeNode (easyremote/node.py)  *)
(* with its BindingLeaseWorker (easyremote/_binding_lease.py), driven by   *)
(* several Python threads that call serve(), start(), stop() and           *)
(* register().                                                            *)
(*                                                                         *)
(* One section under _lifecycle_lock is one action.  Everything the code   *)
(* does outside that lock (the network calls, the snapshot of the          *)
(* registry, the join of the lease worker, HostServer.stop) is an action   *)
(* of its own, so other threads run in between.  A lease worker is         *)
(* identified by the generation it was created in: _track_binding creates  *)
(* at most one per generation.                                             *)
(*                                                                         *)
(* The Runtime (easynet-daemon) is external: it hands out activations,     *)
(* drops them when their lease elapses and refuses to renew dropped ones.  *)
(* Any call to it may fail, with or without having had its effect.         *)
(***************************************************************************)
EXTENDS Integers, FiniteSets

CONSTANTS
    Threads,        \* Python threads of the provider process
    Names,          \* ability names
    NoName,         \* the local variable of a thread that works on no ability
    Starters,       \* the threads that call start()
    Stoppers,       \* the threads that call stop()
    Servers,        \* the threads that call serve()
    Registers,      \* Registers[t]: the names thread t calls register() with
    MaxBindings,    \* MAX_BINDINGS (256 in the code)
    MaxGen,         \* bound: generations the model explores
    MaxAct          \* bound: activations the Runtime hands out

ASSUME ThreadsAssumption ==
    /\ Starters \subseteq Threads
    /\ Stoppers \subseteq Threads
    /\ Servers \subseteq Threads
    /\ Registers \in [Threads -> SUBSET Names]
    /\ NoName \notin Names

ASSUME BoundsAssumption ==
    /\ MaxBindings \in Nat \ {0}
    /\ MaxGen \in Nat
    /\ MaxAct \in Nat

Gens == 1..MaxGen
Acts == 1..MaxAct
None == 0           \* no activation, no connection, no lease worker

VARIABLES
    pstate,         \* _provider_state
    generation,     \* _generation
    started,        \* _started
    publication,    \* _publication_state
    leaseFailure,   \* _lease_failure is not None
    connection,     \* _runtime_connection: the generation that opened it
    leaseWorker,    \* _lease_worker: the generation it was created in
    serveExit,      \* _serve_exit is set
    hostUp,         \* HostServer has a listener
    hosted,         \* names in HostServer._functions
    registered,     \* names in _abilities
    install,        \* install[n]: the activation _abilities[n] records
    wpc,            \* control state of the lease worker of a generation
    wstop,          \* its _stop event (set in LeaseState FAILED and STOPPED)
    wfailed,        \* its _failure is not None
    members,        \* its _bindings: ability name -> activation
    batch,          \* the activations of its renewal in flight
    conns,          \* Runtime connections that are open
    nact,           \* activations handed out by the Runtime so far
    actGen,         \* history: the generation the deploying thread acted for
    live,           \* activations bound at the Runtime
    pc,             \* control state of a thread
    op,             \* the call a thread is executing
    tgen,           \* its local variable `generation`
    tname,          \* the ability it is working on
    act,            \* the activation its local `deployed` / `info` carries
    todo,           \* its snapshot of _abilities.items() still to be visited
    err             \* its local variable `failure` of _shutdown

nodeVars == <<pstate, generation, started, publication, leaseFailure,
              connection, leaseWorker, serveExit>>
hostVars == <<hostUp, hosted>>
registryVars == <<registered, install>>
workerVars == <<wpc, wstop, wfailed, members, batch>>
runtimeVars == <<conns, nact, actGen, live>>
locals == <<tgen, tname, act, todo, err>>
threadVars == <<pc, op, locals>>
shared == <<nodeVars, hostVars, registryVars, workerVars, runtimeVars>>
vars == <<shared, threadVars>>

-----------------------------------------------------------------------------
(* Types *)

ProviderStates == {"STOPPED", "STARTING", "ACTIVE", "STOPPING", "FAILED"}
PublicationStates ==
    {"STOPPED", "LOCAL_ACTIVE", "ADVERTISE_PENDING", "LEASE_FAILED"}
WorkerStates == {"none", "wait", "renew", "report", "hoststop", "done"}
StartSteps == {"connect", "attach", "discard", "snapshot", "deploy"}
RegisterSteps == {"admit", "add", "put", "insert", "branch", "undo", "unbind"}
ShutdownSteps == {"halt", "join", "revoke", "hoststop", "release", "settle"}
DeploySteps == {"install", "commit"}
ServeSteps == {"await", "serving", "leave"}
Steps == {"idle", "rollback"} \cup StartSteps \cup RegisterSteps
            \cup ShutdownSteps \cup DeploySteps \cup ServeSteps

NodeTypeOK ==
    /\ pstate \in ProviderStates
    /\ generation \in 0..MaxGen
    /\ started \in BOOLEAN
    /\ publication \in PublicationStates
    /\ leaseFailure \in BOOLEAN
    /\ connection \in Gens \cup {None}
    /\ leaseWorker \in Gens \cup {None}
    /\ serveExit \in BOOLEAN
    /\ hostUp \in BOOLEAN
    /\ hosted \subseteq Names
    /\ registered \subseteq Names
    /\ install \in [Names -> Acts \cup {None}]

WorkerTypeOK ==
    /\ wpc \in [Gens -> WorkerStates]
    /\ wstop \in [Gens -> BOOLEAN]
    /\ wfailed \in [Gens -> BOOLEAN]
    /\ members \in [Gens -> [Names -> Acts \cup {None}]]
    /\ batch \in [Gens -> SUBSET Acts]

RuntimeTypeOK ==
    /\ conns \subseteq Gens
    /\ nact \in 0..MaxAct
    /\ actGen \in [Acts -> 0..MaxGen]
    /\ live \subseteq Acts

ControlTypeOK ==
    /\ pc \in [Threads -> Steps]
    /\ op \in [Threads -> {"none", "serve", "start", "stop", "register"}]

LocalsTypeOK ==
    /\ tgen \in [Threads -> 0..MaxGen]
    /\ tname \in [Threads -> Names \cup {NoName}]
    /\ act \in [Threads -> Acts \cup {None}]
    /\ todo \in [Threads -> SUBSET (Names \X (Acts \cup {None}))]
    /\ err \in [Threads -> BOOLEAN]

\* Type invariant of the whole provider.
TypeOK ==
    /\ NodeTypeOK /\ WorkerTypeOK /\ RuntimeTypeOK
    /\ ControlTypeOK /\ LocalsTypeOK

-----------------------------------------------------------------------------
(* Mutants: plausible bugs, each in place of one definition below.  No run of
   the specification uses them; they show that a property can be violated. *)

Goto(t, step) == pc' = [pc EXCEPT ![t] = step]

\* The generation fence is dropped.
NoFence(t) == TRUE

\* The rollback remembers the generation before the increment.
StaleExpectation(t) == tgen[t] + 1 = generation

\* Every failed worker fails the provider.
AnyFailure(g) == TRUE

\* The failure callback counts during a start only.
FailureOfStart(g) == g = generation /\ pstate = "STARTING"

\* The join of the worker is too short for its failure callback.
ShortJoin(g) == wpc[g] \in {"done", "hoststop"}

\* start() finishes without a look at the lease health.
NoHealthCheck == TRUE

\* The event is set but nobody waits on it.
NobodyReleased == pc

\* The worker keeps the membership it was created with.
TrackFirstOnly(n, a) ==
    LET g == IF leaseWorker = None THEN generation ELSE leaseWorker IN
    /\ leaseWorker' = g
    /\ members' = IF wpc[g] = "none" THEN [members EXCEPT ![g][n] = a] ELSE members
    /\ wpc' = [wpc EXCEPT ![g] = IF @ = "none" THEN "wait" ELSE @]

\* A stale start leaves its connection open.
DiscardKeepsOpen(t) ==
    /\ pc[t] = "discard"
    /\ Goto(t, "rollback")
    /\ UNCHANGED <<shared, op, locals>>

\* A join timeout is swallowed and the revocations go ahead.
RevokeAfterTimeout(t) ==
    /\ pc[t] = "join"
    /\ wpc[leaseWorker] = "renew"
    /\ todo' = [todo EXCEPT ![t] = {<<n, install[n]>> : n \in registered}]
    /\ Goto(t, "revoke")
    /\ UNCHANGED <<shared, op, tgen, tname, act, err>>

\* The registration's rollback forgets the registry entry.
ForgetHostOnly(n) ==
    /\ hosted' = hosted \ {n}
    /\ UNCHANGED registryVars

\* A revocation that fails is not reported.
RevokeSilently(t) ==
    /\ pc[t] = "revoke"
    /\ \E item \in todo[t] :
        /\ todo' = [todo EXCEPT ![t] = @ \ {item}]
        /\ registered' = registered \cup {item[1]}
        /\ install' = [install EXCEPT ![item[1]] = None]
        /\ live' \in {live, live \ {item[2]}}
    /\ UNCHANGED <<nodeVars, hostVars, workerVars, conns, nact, actGen,
                   pc, op, tgen, tname, act, err>>

\* The shutdown leaves the publication state as it was.
ReleaseKeepsPublication(t) ==
    /\ pc[t] = "release"
    /\ connection' = None
    /\ started' = FALSE
    /\ leaseWorker' = None
    /\ conns' = conns \ {connection}
    /\ Goto(t, "settle")
    /\ UNCHANGED <<pstate, generation, publication, leaseFailure, serveExit,
                   hostVars, registryVars, workerVars, nact, actGen, live,
                   op, locals>>

-----------------------------------------------------------------------------
(* Helpers *)

\* _check_lease_health() does not raise.
Healthy ==
    /\ ~leaseFailure
    /\ leaseWorker # None => ~wfailed[leaseWorker]

\* _require_generation() does not raise.
RequireGeneration(t) == tgen[t] = generation

\* _shutdown(expected_generation=...) still concerns the running generation.
RollbackExpected(t) == tgen[t] = generation

\* _binding_lease_failed() concerns the running generation.
FailureIsCurrent(g) == g = generation

\* thread.join() of a lease worker returns because the thread ended.
JoinReturns(g) == wpc[g] = "done"

\* list(self._abilities.items())
RegistrySnapshot == {<<n, install[n]>> : n \in registered}

\* The worker _track_binding() uses: the current one, or a new one.
TrackingWorker == IF leaseWorker = None THEN generation ELSE leaseWorker

\* BindingLeaseWorker.add() accepts a binding for n.
CanAdd(g, n) ==
    /\ ~wstop[g]
    /\ \/ members[g][n] # None
       \/ Cardinality({m \in Names : members[g][m] # None}) < MaxBindings

\* The state of _track_binding() after a successful add.
Track(n, a) ==
    LET g == TrackingWorker IN
    /\ leaseWorker' = g
    /\ members' = [members EXCEPT ![g][n] = a]
    /\ wpc' = [wpc EXCEPT ![g] = IF @ = "none" THEN "wait" ELSE @]

\* The locals of a call are gone when it returns.
DropLocals(t) ==
    /\ tgen' = [tgen EXCEPT ![t] = 0]
    /\ tname' = [tname EXCEPT ![t] = NoName]
    /\ act' = [act EXCEPT ![t] = None]
    /\ todo' = [todo EXCEPT ![t] = {}]
    /\ err' = [err EXCEPT ![t] = FALSE]

\* The call of thread t returns or raises to its caller.
Return(t) ==
    /\ Goto(t, "idle")
    /\ op' = [op EXCEPT ![t] = "none"]
    /\ DropLocals(t)

\* _serve_exit.set() releases every thread that waits for it.
Released == [t \in Threads |-> IF pc[t] = "serving" THEN "leave" ELSE pc[t]]

\* An exception inside the try block of start() or register().
Raise(t) == Goto(t, IF op[t] = "register" THEN "undo" ELSE "rollback")

-----------------------------------------------------------------------------
(* start() *)

\* First locked section of start(); the busy outcome changes nothing.  The
\* bound leaves room for the generation of the next shutdown.
BeginStart(t, call) ==
    /\ pc[t] = "idle"
    /\ pstate = "STOPPED"
    /\ generation + 1 < MaxGen
    /\ pstate' = "STARTING"
    /\ generation' = generation + 1
    /\ leaseFailure' = FALSE
    /\ serveExit' = FALSE
    /\ tgen' = [tgen EXCEPT ![t] = generation + 1]
    /\ op' = [op EXCEPT ![t] = call]
    /\ Goto(t, "connect")
    /\ UNCHANGED <<started, publication, connection, leaseWorker, hostVars,
                   registryVars, workerVars, runtimeVars,
                   tname, act, todo, err>>

StartEnter(t) == t \in Starters /\ BeginStart(t, "start")

ServeEnter(t) == t \in Servers /\ BeginStart(t, "serve")

\* serve() on a provider that is ACTIVE already: start() just returns.
ServeActive(t) ==
    /\ t \in Servers
    /\ pc[t] = "idle"
    /\ pstate = "ACTIVE"
    /\ Healthy
    /\ op' = [op EXCEPT ![t] = "serve"]
    /\ Goto(t, "await")
    /\ UNCHANGED <<shared, locals>>

\* runtime_provider.connect(), outside the lock.
ConnectOk(t) ==
    /\ pc[t] = "connect"
    /\ conns' = conns \cup {tgen[t]}
    /\ Goto(t, "attach")
    /\ UNCHANGED <<nodeVars, hostVars, registryVars, workerVars,
                   nact, actGen, live, op, locals>>

ConnectFail(t) ==
    /\ pc[t] = "connect"
    /\ Goto(t, "rollback")
    /\ UNCHANGED <<shared, op, locals>>

\* Second locked section: adopt the connection and start the host ...
AttachOk(t) ==
    /\ pc[t] = "attach"
    /\ RequireGeneration(t)
    /\ connection' = tgen[t]
    /\ hostUp' = TRUE
    /\ publication' = "LOCAL_ACTIVE"
    /\ Goto(t, "snapshot")
    /\ UNCHANGED <<pstate, generation, started, leaseFailure, leaseWorker,
                   serveExit, hosted, registryVars, workerVars, runtimeVars,
                   op, locals>>

\* ... or HostServer.start() raises after the connection was adopted ...
AttachHostFails(t) ==
    /\ pc[t] = "attach"
    /\ RequireGeneration(t)
    /\ connection' = tgen[t]
    /\ Goto(t, "rollback")
    /\ UNCHANGED <<pstate, generation, started, publication, leaseFailure,
                   leaseWorker, serveExit, hostVars, registryVars, workerVars, runtimeVars,
                   op, locals>>

\* ... or the start is stale and keeps the connection to itself.
AttachStale(t) ==
    /\ pc[t] = "attach"
    /\ ~RequireGeneration(t)
    /\ Goto(t, "discard")
    /\ UNCHANGED <<shared, op, locals>>

\* A stale start closes its own connection, then _require_generation raises.
Discard(t) ==
    /\ pc[t] = "discard"
    /\ conns' = conns \ {tgen[t]}
    /\ Goto(t, "rollback")
    /\ UNCHANGED <<nodeVars, hostVars, registryVars, workerVars,
                   nact, actGen, live, op, locals>>

\* list(self._abilities.items()), outside the lock.
SnapshotRegistry(t) ==
    /\ pc[t] = "snapshot"
    /\ todo' = [todo EXCEPT ![t] = RegistrySnapshot]
    /\ Goto(t, "deploy")
    /\ UNCHANGED <<shared, op, tgen, tname, act, err>>

\* Head of the deployment loop: check the lease health, then call _deploy.
\* The order of the loop is left open.
DeployNext(t) ==
    /\ pc[t] = "deploy"
    /\ \E item \in todo[t] :
        /\ todo' = [todo EXCEPT ![t] = @ \ {item}]
        /\ tname' = [tname EXCEPT ![t] = item[1]]
    /\ Goto(t, IF Healthy THEN "install" ELSE "rollback")
    /\ UNCHANGED <<shared, op, tgen, act, err>>

\* Last locked section of start().
StartComplete(t) ==
    /\ pc[t] = "deploy"
    /\ todo[t] = {}
    /\ RequireGeneration(t)
    /\ Healthy
    /\ publication' = "ADVERTISE_PENDING"
    /\ started' = TRUE
    /\ pstate' = "ACTIVE"
    /\ UNCHANGED <<generation, leaseFailure, connection, leaseWorker, serveExit,
                   hostVars, registryVars, workerVars, runtimeVars>>

StartFinish(t) ==
    /\ op[t] = "start"
    /\ StartComplete(t)
    /\ Return(t)

\* In serve(), start() returns and the wait for _serve_exit is next.
ServeStarted(t) ==
    /\ op[t] = "serve"
    /\ StartComplete(t)
    /\ Goto(t, "await")
    /\ DropLocals(t)
    /\ UNCHANGED op

StartRefused(t) ==
    /\ pc[t] = "deploy"
    /\ todo[t] = {}
    /\ ~RequireGeneration(t) \/ ~Healthy
    /\ Goto(t, "rollback")
    /\ UNCHANGED <<shared, op, locals>>

-----------------------------------------------------------------------------
(* serve(), after start() returned *)

\* _serve_exit.wait() returns at once when the event is set, else it blocks
\* until _serve_exit.set() releases it.
ServeWait(t) ==
    /\ pc[t] = "await"
    /\ Goto(t, IF serveExit THEN "leave" ELSE "serving")
    /\ UNCHANGED <<shared, op, locals>>

\* Ctrl-C
ServeInterrupt(t) ==
    /\ pc[t] = "serving"
    /\ Goto(t, "leave")
    /\ UNCHANGED <<shared, op, locals>>

-----------------------------------------------------------------------------
(* _deploy() and the commit of its result, shared by start() and register() *)

\* The Runtime binds the ability; `reply` says whether a complete reply
\* (ability_ura, install_id, activation_id) reaches the caller.
Install(t, reply) ==
    /\ pc[t] = "install"
    /\ nact < MaxAct
    /\ nact' = nact + 1
    /\ live' = live \cup {nact + 1}
    /\ actGen' = [actGen EXCEPT ![nact + 1] = tgen[t]]
    /\ UNCHANGED conns
    /\ IF reply
       THEN /\ act' = [act EXCEPT ![t] = nact + 1]
            /\ Goto(t, "commit")
       ELSE /\ Raise(t)
            /\ UNCHANGED act
    /\ UNCHANGED <<nodeVars, hostVars, registryVars, workerVars,
                   op, tgen, tname, todo, err>>

InstallFail(t) ==
    /\ pc[t] = "install"
    /\ Raise(t)
    /\ UNCHANGED <<shared, op, locals>>

\* The locked section after _deploy: _require_generation raises ...
CommitStale(t) ==
    /\ pc[t] = "commit"
    /\ ~RequireGeneration(t)
    /\ Raise(t)
    /\ UNCHANGED <<shared, op, locals>>

\* ... or the registry takes the new identity but the worker refuses it ...
CommitUntracked(t) ==
    /\ pc[t] = "commit"
    /\ RequireGeneration(t)
    /\ ~CanAdd(TrackingWorker, tname[t])
    /\ registered' = registered \cup {tname[t]}
    /\ install' = [install EXCEPT ![tname[t]] = act[t]]
    /\ leaseWorker' = TrackingWorker
    /\ Raise(t)
    /\ UNCHANGED <<pstate, generation, started, publication, leaseFailure,
                   connection, serveExit, hostVars, workerVars, runtimeVars,
                   op, locals>>

\* ... or the registry and the worker both take it.
Commit(t) ==
    /\ pc[t] = "commit"
    /\ RequireGeneration(t)
    /\ CanAdd(TrackingWorker, tname[t])
    /\ registered' = registered \cup {tname[t]}
    /\ install' = [install EXCEPT ![tname[t]] = act[t]]
    /\ Track(tname[t], act[t])
    /\ UNCHANGED <<pstate, generation, started, leaseFailure, connection, serveExit,
                   hostVars, wstop, wfailed, batch, runtimeVars>>

\* The health check after it raises, because a renewal in flight failed since
\* the worker took the binding, ...
CommitUnhealthy(t) ==
    /\ pc[t] = "commit"
    /\ RequireGeneration(t)
    /\ leaseWorker # None
    /\ CanAdd(leaseWorker, tname[t])
    /\ wpc[leaseWorker] = "renew"
    /\ registered' = registered \cup {tname[t]}
    /\ install' = [install EXCEPT ![tname[t]] = act[t]]
    /\ members' = [members EXCEPT ![leaseWorker][tname[t]] = act[t]]
    /\ batch' = [batch EXCEPT ![leaseWorker] = {}]
    /\ wpc' = [wpc EXCEPT ![leaseWorker] = "report"]
    /\ wfailed' = [wfailed EXCEPT ![leaseWorker] = TRUE]
    /\ wstop' = [wstop EXCEPT ![leaseWorker] = TRUE]
    /\ Raise(t)
    /\ UNCHANGED <<nodeVars, hostVars, runtimeVars, op, locals>>

\* ... or start() goes on with the next ability ...
CommitStart(t) ==
    /\ op[t] # "register"
    /\ Commit(t)
    /\ ~leaseFailure /\ ~wfailed[TrackingWorker]
    /\ Goto(t, "deploy")
    /\ tname' = [tname EXCEPT ![t] = NoName]
    /\ act' = [act EXCEPT ![t] = None]
    /\ UNCHANGED <<publication, op, tgen, todo, err>>

\* ... or register() returns.
CommitRegister(t) ==
    /\ op[t] = "register"
    /\ Commit(t)
    /\ ~leaseFailure /\ ~wfailed[TrackingWorker]
    /\ publication' = "ADVERTISE_PENDING"
    /\ Return(t)

-----------------------------------------------------------------------------
(* register() *)

\* The duplicate-name check and the limit check, outside the lock.
RegisterEnter(t, n) ==
    /\ n \in Registers[t]
    /\ pc[t] = "idle"
    /\ n \notin registered
    /\ Cardinality(registered) < MaxBindings
    /\ op' = [op EXCEPT ![t] = "register"]
    /\ tname' = [tname EXCEPT ![t] = n]
    /\ Goto(t, "admit")
    /\ UNCHANGED <<shared, tgen, act, todo, err>>

\* The locked admission section.
RegisterAdmit(t) ==
    /\ pc[t] = "admit"
    /\ Healthy
    /\ pstate \in {"STOPPED", "ACTIVE"}
    /\ tgen' = [tgen EXCEPT ![t] = generation]
    /\ Goto(t, "add")
    /\ UNCHANGED <<shared, op, tname, act, todo, err>>

RegisterRefused(t) ==
    /\ pc[t] = "admit"
    /\ ~Healthy \/ pstate \notin {"STOPPED", "ACTIVE"}
    /\ Return(t)
    /\ UNCHANGED shared

\* HostServer.add(): its duplicate check, then its store.
HostAddCheck(t) ==
    /\ pc[t] = "add"
    /\ IF tname[t] \in hosted
       THEN Return(t)
       ELSE Goto(t, "put") /\ UNCHANGED <<op, locals>>
    /\ UNCHANGED shared

HostAddStore(t) ==
    /\ pc[t] = "put"
    /\ hosted' = hosted \cup {tname[t]}
    /\ Goto(t, "insert")
    /\ UNCHANGED <<nodeVars, hostUp, registryVars, workerVars, runtimeVars,
                   op, locals>>

\* self._abilities[ability_name] = info
RegisterInsert(t) ==
    /\ pc[t] = "insert"
    /\ registered' = registered \cup {tname[t]}
    /\ install' = [install EXCEPT ![tname[t]] = None]
    /\ Goto(t, "branch")
    /\ UNCHANGED <<nodeVars, hostVars, workerVars, runtimeVars, op, locals>>

\* if self._started, read outside the lock.
RegisterDeploys(t) ==
    /\ pc[t] = "branch"
    /\ started
    /\ Goto(t, "install")
    /\ UNCHANGED <<shared, op, locals>>

RegisterLocal(t) ==
    /\ pc[t] = "branch"
    /\ ~started
    /\ Return(t)
    /\ UNCHANGED shared

\* The locked section of the except clause: a registration overtaken by
\* another generation leaves everything in place ...
RegisterAbandon(t) ==
    /\ pc[t] = "undo"
    /\ tgen[t] # generation
    /\ Return(t)
    /\ UNCHANGED shared

\* ... otherwise both entries go under the same lock ...
Forget(n) ==
    /\ registered' = registered \ {n}
    /\ install' = [install EXCEPT ![n] = None]
    /\ hosted' = hosted \ {n}

RegisterUndo(t) ==
    /\ pc[t] = "undo"
    /\ tgen[t] = generation
    /\ install[tname[t]] = None
    /\ Forget(tname[t])
    /\ Return(t)
    /\ UNCHANGED <<nodeVars, hostUp, workerVars, runtimeVars>>

\* ... and a binding that was recorded is revoked outside it.
RegisterUndoBound(t) ==
    /\ pc[t] = "undo"
    /\ tgen[t] = generation
    /\ install[tname[t]] # None
    /\ Forget(tname[t])
    /\ act' = [act EXCEPT ![t] = install[tname[t]]]
    /\ Goto(t, "unbind")
    /\ UNCHANGED <<nodeVars, hostUp, workerVars, runtimeVars,
                   op, tgen, tname, todo, err>>

\* _revoke_binding(); its failure is only noted.
RegisterUnbind(t) ==
    /\ pc[t] = "unbind"
    /\ live' \in {live, live \ {act[t]}}
    /\ Return(t)
    /\ UNCHANGED <<nodeVars, hostVars, registryVars, workerVars,
                   conns, nact, actGen>>

-----------------------------------------------------------------------------
(* _shutdown(), called by stop() and by the rollback of start() *)

\* The locked section of a shutdown that goes ahead.
BeginShutdown(t) ==
    /\ pstate' = "STOPPING"
    /\ generation' = generation + 1
    /\ err' = [err EXCEPT ![t] = FALSE]
    /\ serveExit' = TRUE
    /\ pc' = [Released EXCEPT ![t] = "halt"]
    /\ UNCHANGED <<started, publication, leaseFailure, connection, leaseWorker,
                   hostVars, registryVars, workerVars, runtimeVars,
                   tgen, tname, act, todo>>

\* stop(); on a stopped or stopping provider it changes nothing.
StopEnter(t) ==
    /\ t \in Stoppers
    /\ pc[t] = "idle"
    /\ pstate \notin {"STOPPED", "STOPPING"}
    /\ op' = [op EXCEPT ![t] = "stop"]
    /\ BeginShutdown(t)

\* The finally clause of serve() stops whatever generation runs by then.
ServeLeave(t) ==
    /\ pc[t] = "leave"
    /\ pstate \notin {"STOPPED", "STOPPING"}
    /\ UNCHANGED op
    /\ BeginShutdown(t)

ServeLeaveSkipped(t) ==
    /\ pc[t] = "leave"
    /\ pstate \in {"STOPPED", "STOPPING"}
    /\ Return(t)
    /\ UNCHANGED shared

\* _shutdown(expected_generation=generation)
RollbackEnter(t) ==
    /\ pc[t] = "rollback"
    /\ RollbackExpected(t)
    /\ pstate \notin {"STOPPED", "STOPPING"}
    /\ UNCHANGED op
    /\ BeginShutdown(t)

RollbackSkipped(t) ==
    /\ pc[t] = "rollback"
    /\ ~RollbackExpected(t) \/ pstate \in {"STOPPED", "STOPPING"}
    /\ Return(t)
    /\ UNCHANGED shared

\* BindingLeaseWorker.stop() up to its join.
HaltWorker(t) ==
    /\ pc[t] = "halt"
    /\ leaseWorker # None
    /\ wstop' = [wstop EXCEPT ![leaseWorker] = TRUE]
    /\ Goto(t, "join")
    /\ UNCHANGED <<nodeVars, hostVars, registryVars, wpc, wfailed, members,
                   batch, runtimeVars, op, locals>>

HaltNoWorker(t) ==
    /\ pc[t] = "halt"
    /\ leaseWorker = None
    /\ todo' = [todo EXCEPT ![t] = RegistrySnapshot]
    /\ Goto(t, "revoke")
    /\ UNCHANGED <<shared, op, tgen, tname, act, err>>

\* The join returns and _revoke_deployments() takes its snapshot.
JoinWorker(t) ==
    /\ pc[t] = "join"
    /\ JoinReturns(leaseWorker)
    /\ todo' = [todo EXCEPT ![t] = RegistrySnapshot]
    /\ Goto(t, "revoke")
    /\ UNCHANGED <<shared, op, tgen, tname, act, err>>

\* The join times out, the exception skips the revocations.  The wait is
\* timeout + 6 s and HostServer.stop() is bounded by 5 s, so only a renewal
\* that outlives its own timeout can make it expire.
JoinTimeout(t) ==
    /\ pc[t] = "join"
    /\ wpc[leaseWorker] = "renew"
    /\ err' = [err EXCEPT ![t] = TRUE]
    /\ Goto(t, "hoststop")
    /\ UNCHANGED <<shared, op, tgen, tname, act, todo>>

\* One iteration of _revoke_deployments(): the uninstall works, or it fails
\* or the deadline has passed; the recorded identity is forgotten either way.
Revoke(t) ==
    /\ pc[t] = "revoke"
    /\ \E item \in todo[t] :
        /\ todo' = [todo EXCEPT ![t] = @ \ {item}]
        /\ registered' = registered \cup {item[1]}
        /\ install' = [install EXCEPT ![item[1]] = None]
        /\ \/ /\ live' = live \ {item[2]}
              /\ UNCHANGED err
           \/ /\ err' = [err EXCEPT ![t] = TRUE]
              /\ UNCHANGED live
    /\ UNCHANGED <<nodeVars, hostVars, workerVars, conns, nact, actGen,
                   pc, op, tgen, tname, act>>

RevokeDone(t) ==
    /\ pc[t] = "revoke"
    /\ todo[t] = {}
    /\ Goto(t, "hoststop")
    /\ UNCHANGED <<shared, op, locals>>

\* HostServer.stop() returns.
HostStop(t) ==
    /\ pc[t] = "hoststop"
    /\ hostUp' = FALSE
    /\ Goto(t, "release")
    /\ UNCHANGED <<nodeVars, hosted, registryVars, workerVars, runtimeVars,
                   op, locals>>

\* The unlocked resets of the inner finally, and the connection's close().
Release(t) ==
    /\ pc[t] = "release"
    /\ connection' = None
    /\ started' = FALSE
    /\ publication' = "STOPPED"
    /\ leaseWorker' = None
    /\ conns' = conns \ {connection}
    /\ Goto(t, "settle")
    /\ UNCHANGED <<pstate, generation, leaseFailure, serveExit, hostVars,
                   registryVars, workerVars, nact, actGen, live,
                   op, locals>>

Settle(t) ==
    /\ pc[t] = "settle"
    /\ pstate' = "STOPPED"
    /\ Return(t)
    /\ UNCHANGED <<generation, started, publication, leaseFailure, connection,
                   leaseWorker, serveExit, hostVars, registryVars, workerVars,
                   runtimeVars>>

-----------------------------------------------------------------------------
(* BindingLeaseWorker._run() of the worker created in generation g *)

\* The next renewal is due: snapshot the membership, call renew unlocked.
WorkerDue(g) ==
    /\ wpc[g] = "wait"
    /\ ~wstop[g]
    /\ batch' = [batch EXCEPT ![g] = {members[g][n] : n \in Names} \ {None}]
    /\ wpc' = [wpc EXCEPT ![g] = "renew"]
    /\ UNCHANGED <<nodeVars, hostVars, registryVars, wstop, wfailed, members,
                   runtimeVars, threadVars>>

WorkerStopped(g) ==
    /\ wpc[g] = "wait"
    /\ wstop[g]
    /\ wpc' = [wpc EXCEPT ![g] = "done"]
    /\ UNCHANGED <<nodeVars, hostVars, registryVars, wstop, wfailed, members,
                   batch, runtimeVars, threadVars>>

\* The Runtime renews the whole batch or none of it.
RenewOk(g) ==
    /\ wpc[g] = "renew"
    /\ batch[g] \subseteq live
    /\ batch' = [batch EXCEPT ![g] = {}]
    /\ wpc' = [wpc EXCEPT ![g] = "wait"]
    /\ UNCHANGED <<nodeVars, hostVars, registryVars, wstop, wfailed, members,
                   runtimeVars, threadVars>>

\* renew raises: a stopped worker ends silently, another records the failure.
RenewFail(g) ==
    /\ wpc[g] = "renew"
    /\ batch' = [batch EXCEPT ![g] = {}]
    /\ wpc' = [wpc EXCEPT ![g] = IF wstop[g] THEN "done" ELSE "report"]
    /\ wfailed' = [wfailed EXCEPT ![g] = @ \/ ~wstop[g]]
    /\ wstop' = [wstop EXCEPT ![g] = TRUE]
    /\ UNCHANGED <<nodeVars, hostVars, registryVars, members,
                   runtimeVars, threadVars>>

\* The locked section of _binding_lease_failed(): an old generation is
\* ignored, the current one fails the provider.
BindingLeaseFailed(g) ==
    /\ wpc[g] = "report"
    /\ IF ~FailureIsCurrent(g)
       THEN /\ wpc' = [wpc EXCEPT ![g] = "done"]
            /\ UNCHANGED <<pstate, publication, leaseFailure, serveExit, pc>>
       ELSE /\ wpc' = [wpc EXCEPT ![g] = "hoststop"]
            /\ leaseFailure' = TRUE
            /\ publication' = "LEASE_FAILED"
            /\ pstate' = "FAILED"
            /\ serveExit' = TRUE
            /\ pc' = Released
    /\ UNCHANGED <<generation, started, connection, leaseWorker, hostVars,
                   registryVars, wstop, wfailed, members, batch,
                   runtimeVars, op, locals>>

\* self._host.stop() at the end of _binding_lease_failed(), without the lock.
WorkerHostStop(g) ==
    /\ wpc[g] = "hoststop"
    /\ hostUp' = FALSE
    /\ wpc' = [wpc EXCEPT ![g] = "done"]
    /\ UNCHANGED <<nodeVars, hosted, registryVars, wstop, wfailed, members,
                   batch, runtimeVars, threadVars>>

-----------------------------------------------------------------------------
(* The Runtime (external) *)

\* A lease elapses, or a newer activation replaces the binding.
Expire(a) ==
    /\ a \in live
    /\ live' = live \ {a}
    /\ UNCHANGED <<nodeVars, hostVars, registryVars, workerVars,
                   conns, nact, actGen, threadVars>>

-----------------------------------------------------------------------------
(* Specification *)

Init ==
    /\ pstate = "STOPPED"
    /\ generation = 0
    /\ started = FALSE
    /\ publication = "STOPPED"
    /\ leaseFailure = FALSE
    /\ connection = None
    /\ leaseWorker = None
    /\ serveExit = FALSE
    /\ hostUp = FALSE
    /\ hosted = {}
    /\ registered = {}
    /\ install = [n \in Names |-> None]
    /\ wpc = [g \in Gens |-> "none"]
    /\ wstop = [g \in Gens |-> FALSE]
    /\ wfailed = [g \in Gens |-> FALSE]
    /\ members = [g \in Gens |-> [n \in Names |-> None]]
    /\ batch = [g \in Gens |-> {}]
    /\ conns = {}
    /\ nact = 0
    /\ actGen = [a \in Acts |-> 0]
    /\ live = {}
    /\ pc = [t \in Threads |-> "idle"]
    /\ op = [t \in Threads |-> "none"]
    /\ tgen = [t \in Threads |-> 0]
    /\ tname = [t \in Threads |-> NoName]
    /\ act = [t \in Threads |-> None]
    /\ todo = [t \in Threads |-> {}]
    /\ err = [t \in Threads |-> FALSE]

StartStep(t) ==
    \/ ConnectOk(t) \/ ConnectFail(t)
    \/ AttachOk(t) \/ AttachHostFails(t) \/ AttachStale(t) \/ Discard(t)
    \/ SnapshotRegistry(t) \/ DeployNext(t)
    \/ StartFinish(t) \/ ServeStarted(t) \/ StartRefused(t) \/ ServeWait(t)

DeployStep(t) ==
    \/ Install(t, TRUE) \/ Install(t, FALSE) \/ InstallFail(t)
    \/ CommitStale(t) \/ CommitUntracked(t) \/ CommitUnhealthy(t)
    \/ CommitStart(t) \/ CommitRegister(t)

RegisterStep(t) ==
    \/ RegisterAdmit(t) \/ RegisterRefused(t)
    \/ HostAddCheck(t) \/ HostAddStore(t)
    \/ RegisterInsert(t) \/ RegisterDeploys(t) \/ RegisterLocal(t)
    \/ RegisterAbandon(t)
    \/ RegisterUndo(t) \/ RegisterUndoBound(t) \/ RegisterUnbind(t)

ShutdownStep(t) ==
    \/ RollbackEnter(t) \/ RollbackSkipped(t)
    \/ ServeLeave(t) \/ ServeLeaveSkipped(t)
    \/ HaltWorker(t) \/ HaltNoWorker(t) \/ JoinWorker(t) \/ JoinTimeout(t)
    \/ Revoke(t) \/ RevokeDone(t) \/ HostStop(t) \/ Release(t) \/ Settle(t)

\* The steps of a call in progress.
Continue(t) ==
    StartStep(t) \/ DeployStep(t) \/ RegisterStep(t) \/ ShutdownStep(t)

\* A thread makes a new call, or its user presses Ctrl-C.
Call(t) ==
    \/ StartEnter(t) \/ ServeEnter(t) \/ ServeActive(t) \/ ServeInterrupt(t)
    \/ StopEnter(t)
    \/ \E n \in Names : RegisterEnter(t, n)

WorkerStep(g) ==
    \/ WorkerDue(g) \/ WorkerStopped(g) \/ RenewOk(g) \/ RenewFail(g)
    \/ BindingLeaseFailed(g) \/ WorkerHostStop(g)

Next ==
    \/ \E t \in Threads : Call(t) \/ Continue(t)
    \/ \E g \in Gens : WorkerStep(g)
    \/ \E a \in Acts : Expire(a)

Spec == Init /\ [][Next]_vars

\* The interpreter runs every runnable thread, so a call in progress and a lease
\* worker never rest for good.  The join, renewals and revocations have timeouts; that
\* a deployment and the opening of a connection return is assumed of the Runtime.
Fairness ==
    /\ \A t \in Threads : WF_vars(Continue(t))
    /\ \A g \in Gens : WF_vars(WorkerStep(g))

FairSpec == Spec /\ Fairness

-----------------------------------------------------------------------------
(* Properties *)

\* A binding is only ever renewed by the worker of the generation that
\* deployed it: a deployment that completes after its start was stopped is
\* left to expire (test_stop_fences_late_deploy_completion,
\* test_old_start_cannot_stop_or_renew_replacement_generation).
FencedRenewal ==
    \A g \in Gens :
        /\ \A n \in Names : members[g][n] # None => actGen[members[g][n]] = g
        /\ \A a \in batch[g] : actGen[a] = g

\* HostServer.stop() is not safe against a concurrent start() or stop() of
\* the same host.  No lock covers it, yet it only runs while the provider is
\* STOPPING or FAILED, so never against a replacement generation, and never
\* twice at a time: the join of the lease worker orders its failure callback
\* before the shutdown's own stop.
HostStopFenced ==
    LET stoppers == {t \in Threads : pc[t] = "hoststop"}
        failers == {g \in Gens : wpc[g] = "hoststop"}
    IN  /\ stoppers # {} => pstate = "STOPPING"
        /\ failers # {} => pstate \in {"STOPPING", "FAILED"}
        /\ Cardinality(stoppers) + Cardinality(failers) <= 1

\* An ACTIVE provider has its host, an open Runtime connection of the current
\* generation and a worker that is not the leftover of an older one.
ActiveIsServing ==
    pstate = "ACTIVE" =>
        /\ hostUp
        /\ started
        /\ connection = generation
        /\ connection \in conns
        /\ leaseWorker \in {None, generation}

\* On an ACTIVE provider whose worker runs, the identity recorded for an
\* ability is the one the worker renews, except while its registration is
\* being rolled back.
ActiveBindingsRenewed ==
    (pstate = "ACTIVE" /\ (leaseWorker # None => ~wstop[leaseWorker])) =>
        \A n \in Names :
            (install[n] # None /\ ~\E t \in Threads : pc[t] = "undo" /\ tname[t] = n)
                => leaseWorker # None /\ members[leaseWorker][n] = install[n]

\* Nothing of an earlier run survives in a STOPPED provider, whatever start,
\* registration or renewal is still in flight: no host, no connection, no
\* worker that could start another renewal or fail the provider.
StoppedIsQuiet ==
    pstate = "STOPPED" =>
        /\ ~hostUp
        /\ ~started
        /\ publication = "STOPPED"
        /\ connection = None
        /\ leaseWorker = None
        /\ \A g \in Gens : wpc[g] \in {"wait", "renew"} => wstop[g]
        /\ \A g \in Gens : wpc[g] # "hoststop"

\* Every open Runtime connection is held by the provider or by the one start
\* that still has to adopt or discard it.
ConnectionsOwned ==
    \A c \in conns :
        \/ c = connection
        \/ \E t \in Threads : pc[t] \in {"attach", "discard"} /\ tgen[t] = c

\* A worker that a shutdown gave up waiting for, its renewal still running.
Abandoned(g) == wstop[g] /\ g # leaseWorker

\* A binding is not renewed while it is being revoked: the shutdown joins the
\* worker first and gives up revoking when the join times out.  Only a worker
\* that an earlier shutdown abandoned may still be renewing it.
NoRenewalWhileRevoking ==
    \A g \in Gens : (wpc[g] = "renew" /\ ~Abandoned(g)) =>
        \A t \in Threads :
            /\ pc[t] = "revoke" => \A i \in todo[t] : i[2] \notin batch[g]
            /\ pc[t] = "unbind" => act[t] \notin batch[g]

\* The property publication_state.
ObservedPublication ==
    IF leaseWorker # None /\ wfailed[leaseWorker] THEN "LEASE_FAILED"
    ELSE publication

\* A provider that is not in the middle of a shutdown never claims to be
\* locally active, or waiting for realm visibility, without a live host.
PublicationIsHonest ==
    (pstate # "STOPPING"
        /\ ObservedPublication \in {"LOCAL_ACTIVE", "ADVERTISE_PENDING"}) =>
            hostUp /\ connection # None /\ pstate \in {"STARTING", "ACTIVE"}

\* An ability in the registry has a function behind it on the host, so a
\* deployed name never leads to a host that answers not_found.
RegisteredIsHosted == registered \subseteq hosted

\* A shutdown that reports no failure has left nothing bound at the Runtime
\* under an identity that its worker was renewing for a registered ability.
CleanStopRevokes ==
    \A t \in Threads :
        (pc[t] \in {"hoststop", "release"} /\ ~err[t] /\ leaseWorker # None) =>
            \A n \in registered : members[leaseWorker][n] \notin live

\* README.md: the provider "publishes every registered function".
PublishesEveryRegistered ==
    pstate = "ACTIVE" =>
        \A n \in registered :
            \/ install[n] # None
            \/ \E t \in Threads : op[t] = "register" /\ tname[t] = n

\* A late registration whose deployment fails removes "the function from local
\* host and ability map".
LateRegistrationRollback ==
    [][\A t \in Threads :
          (pc[t] = "undo" /\ pc'[t] = "idle") =>
              tname[t] \notin registered' /\ tname[t] \notin hosted']_vars

\* serve() does not outlive a failed provider: it shuts the provider down, which
\* is the only way out of FAILED.
ServeRecovers ==
    (pstate = "FAILED" /\ \E t \in Threads : pc[t] \in ServeSteps)
        ~> pstate = "STOPPED"

\* A binding under renewal that lapsed at the Runtime does not stay unnoticed:
\* the atomic renewal fails and takes the provider out of ACTIVE.
LapseIsNoticed ==
    (/\ pstate = "ACTIVE"
     /\ leaseWorker # None
     /\ \E n \in Names : members[leaseWorker][n] \notin live \cup {None})
        ~> pstate # "ACTIVE"

-----------------------------------------------------------------------------
(* Refinement: the provider implements its lifecycle contract. *)

Contract == INSTANCE ProviderContract WITH state <- pstate, serving <- hostUp

\* Every step of the threads, the lease worker and the Runtime is a step of the
\* contract or leaves it alone.
ImplementsContract == Contract!Spec

\* The contract's progress: starts and shutdowns end, a failed provider closes
\* its host even when nobody calls stop().
KeepsContractMoving == Contract!FairSpec

\* Who is inside HostServer.stop(): a shutdown, or the failure callback of a lease
\* worker.
HostStoppers ==
    {<<"call", t>> : t \in {u \in Threads : pc[u] = "hoststop"}}
    \cup {<<"callback", g>> : g \in {h \in Gens : wpc[h] = "hoststop"}}

Host == INSTANCE HostControl WITH up <- hostUp, stoppers <- HostStoppers

\* The host is started and stopped the way its interface asks: no start() beside
\* a stop(), no two stops at a time, although no lock covers the calls.
HostIsControlled == Host!Spec

=============================================================================
