----------------------- MODULE ProviderServingProofs ------------------------
(***************************************************************************)
(* What a provider in its inductive invariant serves with, for every set   *)
(* of threads, names and bounds: an ACTIVE provider has its host, its own  *)
(* open connection and its own worker, which renews what the registry      *)
(* records; a STOPPED one has none of them, and no connection is lost      *)
(* between the threads that open and close them.                           *)
(***************************************************************************)
EXTENDS ProviderProofs

USE ThreadsAssumption, BoundsAssumption DEF Gens, Acts, None
USE DEF shared, nodeVars, hostVars, registryVars, workerVars, runtimeVars,
        threadVars, locals
USE DEF StartSteps, RegisterSteps, ShutdownSteps, DeploySteps, AfterJoin,
        StartCalls, Running
USE DEF IndInv, TypeOK, NodeTypeOK, WorkerTypeOK, RuntimeTypeOK,
        ControlTypeOK, LocalsTypeOK, Control
USE DEF Goto, Return, DropLocals

-----------------------------------------------------------------------------
(* Frames: what a step may do without a part of Serving noticing it *)

Deploying == {"snapshot", "deploy", "install", "commit"}
Connecting == {"connect", "attach", "discard"}
Halted == {"join", "revoke", "hoststop", "release", "settle"}

\* No thread enters or leaves what ConnectionFollowsStart looks at.
ThreadsStand ==
    \A u \in Threads :
        /\ pc'[u] \in Connecting \/ pc[u] \in Connecting \ {"connect"}
             => pc'[u] = pc[u] /\ tgen'[u] = tgen[u]
        /\ pc'[u] = "settle" => pc[u] = "settle"
        /\ pc'[u] \in Deploying =>
             (pc[u] \in Deploying /\ tgen'[u] = tgen[u]) \/ op'[u] = "register"

\* A step that leaves the node and those threads alone keeps the connections.
LEMMA ConnectionStands ==
    ASSUME IndInv', Serving, ThreadsStand,
           UNCHANGED <<pstate, generation, connection, conns>>
    PROVE  ConnectionFollowsStart' /\ ConnectionsOwned'
<1>1. \A u \in Threads : pc'[u] \in Deploying /\ op'[u] = "register" /\ tgen'[u] = generation'
        => pstate' # "STARTING"
  BY DEF Deploying, GenerationFence, CallMatchesStep
<1>2. ConnectionFollowsStart'
  BY <1>1 DEF Serving, ConnectionFollowsStart, ThreadsStand, Deploying, Connecting
<1>3. ConnectionsOwned'
  <2>1. SUFFICES ASSUME NEW c \in conns, c # connection
                 PROVE  \E u \in Threads : pc'[u] \in {"attach", "discard"} /\ tgen'[u] = c
    BY DEF ConnectionsOwned
  <2>2. PICK u \in Threads : pc[u] \in {"attach", "discard"} /\ tgen[u] = c
    BY <2>1 DEF Serving, ConnectionsOwned
  <2>3. pc'[u] = pc[u] /\ tgen'[u] = tgen[u]
    BY <2>2 DEF ThreadsStand, Connecting
  <2>. QED  BY <2>2, <2>3
<1>. QED  BY <1>2, <1>3

\* So it does the publication, with the host.
LEMMA PublicationStands ==
    ASSUME Serving, UNCHANGED <<pstate, started, publication, hostUp, connection>>,
           \A u \in Threads : pc'[u] = "settle" => pc[u] = "settle"
    PROVE  PublicationFollowsState'
BY DEF Serving, PublicationFollowsState

\* A worker that keeps its flag, and threads that pass no join, keep the rest.
LEMMA HaltStands ==
    ASSUME Serving, IndInv, UNCHANGED leaseWorker,
           \A g \in Gens : /\ wstop[g] => wstop'[g]
                           /\ wpc'[g] \in {"wait", "renew"} => wpc[g] \in {"wait", "renew"},
           \A u \in Threads : pc'[u] \in Halted => pc[u] \in Halted
    PROVE  WorkersHalted'
BY DEF Serving, WorkersHalted, Halted

\* All of it, for a step that leaves the node, the host and the workers alone.
LEMMA ServingStands ==
    ASSUME IndInv, IndInv', Serving, ThreadsStand,
           UNCHANGED <<pstate, generation, started, publication, connection,
                       leaseWorker, hostUp, conns, wstop>>,
           \A g \in Gens : wpc'[g] \in {"wait", "renew"} => wpc[g] \in {"wait", "renew"},
           \A u \in Threads : pc'[u] \in Halted => pc[u] \in Halted
    PROVE  Serving'
<1>1. WorkersHalted'
  BY HaltStands
<1>2. PublicationFollowsState'
  BY PublicationStands DEF ThreadsStand
<1>. QED  BY <1>1, <1>2, ConnectionStands DEF Serving

-----------------------------------------------------------------------------
(* Calls *)

\* A start begins with nothing left of the run before.
LEMMA StartServes ==
    ASSUME IndInv, IndInv', Serving, NEW t \in Threads, NEW call, BeginStart(t, call)
    PROVE  Serving'
<1> USE DEF BeginStart
<1>1. generation \in 0..MaxGen /\ \A u \in Threads : tgen[u] <= generation
  BY DEF GenerationBounds
<1>2. connection = None /\ publication = "STOPPED"
  BY DEF Serving, ConnectionFollowsStart, PublicationFollowsState
<1>3. pc' = [pc EXCEPT ![t] = "connect"] /\ tgen' = [tgen EXCEPT ![t] = generation + 1]
  OBVIOUS
<1>4. ConnectionFollowsStart'
  BY <1>1, <1>2, <1>3 DEF Serving, ConnectionFollowsStart
<1>5. ConnectionsOwned'
  BY <1>3 DEF Serving, ConnectionsOwned
<1>6. PublicationFollowsState'
  BY <1>2, <1>3 DEF Serving, PublicationFollowsState
<1>7. WorkersHalted'
  BY <1>3, HaltStands DEF Halted
<1>. QED  BY <1>4, <1>5, <1>6, <1>7 DEF Serving

\* A shutdown begins with everything still in place.
LEMMA ShutdownServes ==
    ASSUME IndInv, IndInv', Serving, NEW t \in Threads, BeginShutdown(t),
           pc[t] \in {"idle", "leave", "rollback"}, pstate \notin {"STOPPED", "STOPPING"}
    PROVE  Serving'
<1> USE DEF BeginShutdown, Released
<1>1. generation \in 0..MaxGen /\ \A u \in Threads : tgen[u] <= generation
  BY DEF GenerationBounds
<1>2. \A u \in Threads : pc'[u] = IF u = t THEN "halt" ELSE IF pc[u] = "serving" THEN "leave" ELSE pc[u]
  OBVIOUS
<1>3. \A u \in Threads : pc'[u] # "settle"
  BY <1>2 DEF OneShutdown
<1>4. ConnectionFollowsStart'
  BY <1>1, <1>2, <1>3 DEF Serving, ConnectionFollowsStart
<1>5. ConnectionsOwned'
  BY <1>2 DEF Serving, ConnectionsOwned
<1>6. PublicationFollowsState'
  BY <1>3 DEF Serving, PublicationFollowsState
<1>7. WorkersHalted'
  BY <1>2, HaltStands DEF Halted
<1>. QED  BY <1>4, <1>5, <1>6, <1>7 DEF Serving

\* A new call keeps what the provider serves with.
LEMMA CallServes ==
    ASSUME IndInv, IndInv', Serving, NEW t \in Threads, Call(t)
    PROVE  Serving'
<1>1. CASE StartEnter(t) \/ ServeEnter(t)
  BY <1>1, StartServes DEF StartEnter, ServeEnter
<1>2. CASE StopEnter(t)
  BY <1>2, ShutdownServes DEF StopEnter
<1>3. CASE ServeActive(t) \/ ServeInterrupt(t) \/ \E n \in Names : RegisterEnter(t, n)
  <2>1. UNCHANGED <<shared, tgen>> /\ pc[t] \in {"idle", "serving"}
        /\ \E step \in {"await", "leave", "admit"} : pc' = [pc EXCEPT ![t] = step]
    BY <1>3 DEF ServeActive, ServeInterrupt, RegisterEnter
  <2>2. ThreadsStand /\ \A u \in Threads : pc'[u] \in Halted => pc[u] \in Halted
    BY <2>1 DEF ThreadsStand, Connecting, Deploying, Halted
  <2>. QED  BY <2>1, <2>2, ServingStands
<1>. QED  BY <1>1, <1>2, <1>3 DEF Call

-----------------------------------------------------------------------------
(* start() *)

\* A step of start() keeps what the provider serves with.
LEMMA StartStepServes ==
    ASSUME IndInv, IndInv', Serving, NEW t \in Threads, StartStep(t)
    PROVE  Serving'
<1>1. CASE ConnectOk(t)
  <2> USE <1>1 DEF ConnectOk
  <2>1. pc' = [pc EXCEPT ![t] = "attach"]
    OBVIOUS
  <2>2. ConnectionFollowsStart'
    BY <2>1 DEF Serving, ConnectionFollowsStart
  <2>3. ConnectionsOwned'
    BY <2>1 DEF Serving, ConnectionsOwned
  <2>4. PublicationFollowsState' /\ WorkersHalted'
    BY <2>1, PublicationStands, HaltStands DEF Halted
  <2>. QED  BY <2>2, <2>3, <2>4 DEF Serving
<1>2. CASE AttachOk(t) \/ AttachHostFails(t)
  <2>1. pc[t] = "attach" /\ tgen[t] = generation /\ connection' = generation
        /\ UNCHANGED <<pstate, generation, conns, tgen, op>>
    BY <1>2 DEF AttachOk, AttachHostFails, RequireGeneration
  <2>2. pstate = "STARTING" /\ connection = None /\ generation \in conns
    BY <2>1 DEF GenerationFence, Serving, ConnectionFollowsStart
  <2>3. PICK step \in {"snapshot", "rollback"} : pc' = [pc EXCEPT ![t] = step]
    BY <1>2 DEF AttachOk, AttachHostFails
  <2>4. \A u \in Threads : u # t /\ pc[u] \in Connecting => tgen[u] # generation
    BY <2>1 DEF Connecting, OneStarter, CallMatchesStep
  <2>5. \A u \in Threads : pc[u] # "settle"
    BY <2>2 DEF OneShutdown
  <2>6. ConnectionFollowsStart'
    BY <2>1, <2>2, <2>3, <2>4, <2>5 DEF Connecting, Serving, ConnectionFollowsStart
  <2>7. ConnectionsOwned'
    BY <2>1, <2>2, <2>3 DEF Serving, ConnectionsOwned
  <2>8. PublicationFollowsState'
    <3>1. generation # None
      BY <2>2
    <3>2. CASE AttachOk(t)
      BY <2>1, <2>2, <2>3, <2>5, <3>1, <3>2 DEF AttachOk, PublicationFollowsState
    <3>3. CASE AttachHostFails(t)
      BY <2>1, <2>2, <2>3, <2>5, <3>1, <3>3
         DEF AttachHostFails, Serving, PublicationFollowsState
    <3>. QED  BY <1>2, <3>2, <3>3
  <2>9. WorkersHalted'
    BY <1>2, <2>3, HaltStands DEF AttachOk, AttachHostFails, Halted
  <2>. QED  BY <2>6, <2>7, <2>8, <2>9 DEF Serving
<1>3. CASE AttachStale(t)
  <2> USE <1>3 DEF AttachStale
  <2>1. pc' = [pc EXCEPT ![t] = "discard"]
    OBVIOUS
  <2>2. ConnectionFollowsStart'
    BY <2>1 DEF Serving, ConnectionFollowsStart
  <2>3. ConnectionsOwned'
    BY <2>1 DEF Serving, ConnectionsOwned
  <2>4. PublicationFollowsState' /\ WorkersHalted'
    BY <2>1, PublicationStands, HaltStands DEF Halted
  <2>. QED  BY <2>2, <2>3, <2>4 DEF Serving
<1>4. CASE Discard(t)
  <2>0. pc[t] = "discard"
    BY <1>4 DEF Discard
  <2>2. \A u \in Threads : u # t /\ pc[u] = "attach" => tgen[u] # tgen[t]
    <3> SUFFICES ASSUME NEW u \in Threads, pc[u] = "attach", tgen[u] = tgen[t]
                 PROVE  u = t
      OBVIOUS
    <3>1. op[u] \in StartCalls /\ op[t] \in StartCalls /\ tgen[t] # 0
      BY <2>0 DEF CallMatchesStep
    <3>. QED  BY <3>1 DEF OneStarter
  <2> USE <1>4 DEF Discard
  <2>1. pc' = [pc EXCEPT ![t] = "rollback"]
    OBVIOUS
  <2>3. ConnectionFollowsStart'
    BY <2>1, <2>2 DEF Serving, ConnectionFollowsStart
  <2>4. ConnectionsOwned'
    BY <2>1 DEF Serving, ConnectionsOwned
  <2>5. PublicationFollowsState' /\ WorkersHalted'
    BY <2>1, PublicationStands, HaltStands DEF Halted
  <2>. QED  BY <2>3, <2>4, <2>5 DEF Serving
<1>5. CASE StartFinish(t) \/ ServeStarted(t)
  <2>1. /\ StartComplete(t) /\ pc[t] = "deploy" /\ tgen[t] = generation /\ Healthy
        /\ started' /\ pstate' = "ACTIVE"
        /\ UNCHANGED <<generation, connection, conns, leaseWorker, hostUp, wstop, wpc>>
    BY <1>5 DEF StartFinish, ServeStarted, StartComplete, RequireGeneration
  <2>2. pstate = "STARTING" /\ \A u \in Threads : pc[u] \notin ShutdownSteps
    BY <2>1, StartFinishFacts DEF RequireGeneration
  <2>3. connection = generation
    BY <2>1, <2>2 DEF Serving, ConnectionFollowsStart
  <2>4. /\ tgen' = [tgen EXCEPT ![t] = 0]
        /\ \E step \in {"idle", "await"} : pc' = [pc EXCEPT ![t] = step]
    BY <1>5 DEF StartFinish, ServeStarted
  <2>5. ConnectionFollowsStart'
    BY <2>1, <2>2, <2>3, <2>4 DEF Serving, ConnectionFollowsStart
  <2>6. ConnectionsOwned'
    <3>1. \A u \in Threads : pc[u] \in {"attach", "discard"} =>
             pc'[u] = pc[u] /\ tgen'[u] = tgen[u]
      BY <2>1, <2>4
    <3>2. UNCHANGED <<conns, connection>>
      BY <2>1
    <3>. QED  BY <3>1, <3>2 DEF Serving, ConnectionsOwned
  <2>7. PublicationFollowsState'
    BY <2>1, <2>2, <2>4 DEF PublicationFollowsState
  <2>8. WorkersHalted'
    BY <2>1, <2>4, HaltStands DEF Halted
  <2>. QED  BY <2>5, <2>6, <2>7, <2>8 DEF Serving
<1>6. CASE ConnectFail(t)
  <2>1. pc' = [pc EXCEPT ![t] = "rollback"] /\ pc[t] = "connect" /\ UNCHANGED <<shared, tgen>>
    BY <1>6 DEF ConnectFail
  <2>2. ThreadsStand /\ \A u \in Threads : pc'[u] \in Halted => pc[u] \in Halted
    BY <2>1 DEF ThreadsStand, Connecting, Deploying, Halted
  <2>. QED  BY <2>1, <2>2, ServingStands
<1>7. CASE \/ SnapshotRegistry(t) \/ DeployNext(t) \/ StartRefused(t) \/ ServeWait(t)
  <2>1. /\ UNCHANGED <<shared, tgen>>
        /\ \/ /\ pc[t] \in {"snapshot", "deploy"}
              /\ \E step \in {"deploy", "install", "rollback"} : pc' = [pc EXCEPT ![t] = step]
           \/ /\ pc[t] = "await"
              /\ \E step \in {"leave", "serving"} : pc' = [pc EXCEPT ![t] = step]
    BY <1>7 DEF SnapshotRegistry, DeployNext, StartRefused, ServeWait
  <2>2. ThreadsStand /\ \A u \in Threads : pc'[u] \in Halted => pc[u] \in Halted
    BY <2>1 DEF ThreadsStand, Connecting, Deploying, Halted
  <2>. QED  BY <2>1, <2>2, ServingStands
<1>. QED  BY <1>1, <1>2, <1>3, <1>4, <1>5, <1>6, <1>7 DEF StartStep

-----------------------------------------------------------------------------
(* Deployments and registrations *)

\* A commit of the running generation tracks its binding with the worker of
\* that generation, which nobody has told to stop.
LEMMA CommitServes ==
    ASSUME IndInv, IndInv', Serving, NEW t \in Threads, pc[t] = "commit",
           RequireGeneration(t), leaseWorker' = TrackingWorker, ThreadsStand,
           UNCHANGED <<pstate, generation, started, connection, hostUp, conns>>,
           \/ UNCHANGED publication
           \/ pstate = "ACTIVE",
           \A g \in Gens : /\ wstop[g] => wstop'[g]
                           /\ wpc'[g] \in {"wait", "renew"} =>
                                wpc[g] \in {"wait", "renew"} \/ g = TrackingWorker,
           \A u \in Threads : pc'[u] \in Halted => pc[u] \in Halted
    PROVE  Serving'
<1>1. pstate \in Running /\ TrackingWorker = generation /\ generation \in Gens
  BY CommitFacts
<1>2. \A u \in Threads : pc[u] \notin ShutdownSteps
  BY <1>1 DEF OneShutdown
<1>3. WorkersHalted'
  <2>1. \A u \in Threads : pc'[u] \notin Halted
    BY <1>2 DEF Halted
  <2>2. leaseWorker' = generation /\ leaseWorker \in {None, generation}
    BY <1>1 DEF TrackingWorker
  <2>3. \A g \in Gens : wpc'[g] \in {"wait", "renew"} /\ g # generation => wstop'[g]
    BY <1>1, <2>2 DEF Serving, WorkersHalted
  <2>. QED  BY <2>1, <2>2, <2>3 DEF WorkersHalted, Halted
<1>4. PublicationFollowsState'
  BY <1>1, <1>2 DEF ThreadsStand, Serving, PublicationFollowsState
<1>. QED  BY <1>3, <1>4, ConnectionStands DEF Serving

\* A step of a deployment keeps what the provider serves with.
LEMMA DeployStepServes ==
    ASSUME IndInv, IndInv', Serving, NEW t \in Threads, DeployStep(t)
    PROVE  Serving'
<1>1. /\ pc[t] \in {"install", "commit"}
      /\ \E step \in {"commit", "undo", "rollback", "deploy", "idle"} :
            pc' = [pc EXCEPT ![t] = step]
      /\ \A u \in Threads : u # t => tgen'[u] = tgen[u]
      /\ pc'[t] # "idle" => UNCHANGED tgen
      /\ UNCHANGED <<pstate, generation, started, connection, hostUp, conns>>
  BY DEF DeployStep, Install, InstallFail, CommitStale, CommitUntracked, CommitUnhealthy,
         CommitStart, CommitRegister, Commit, Raise
<1>2. ThreadsStand /\ \A u \in Threads : pc'[u] \in Halted => pc[u] \in Halted
  BY <1>1 DEF ThreadsStand, Connecting, Deploying, Halted
<1>3. CASE Install(t, TRUE) \/ Install(t, FALSE) \/ InstallFail(t) \/ CommitStale(t)
  BY <1>1, <1>2, <1>3, ServingStands DEF Install, InstallFail, CommitStale
<1>4. CASE CommitUntracked(t)
  BY <1>1, <1>2, <1>4, CommitServes DEF CommitUntracked
<1>5. CASE CommitUnhealthy(t)
  <2>1. UNCHANGED <<leaseWorker, publication>> /\ leaseWorker = TrackingWorker
        /\ wstop' = [wstop EXCEPT ![leaseWorker] = TRUE]
        /\ wpc' = [wpc EXCEPT ![leaseWorker] = "report"]
        /\ pc[t] = "commit" /\ RequireGeneration(t)
    BY <1>5 DEF CommitUnhealthy, TrackingWorker
  <2>2. \A g \in Gens : /\ wstop[g] => wstop'[g]
                        /\ wpc'[g] \in {"wait", "renew"} => wpc[g] \in {"wait", "renew"}
    BY <2>1
  <2>. QED  BY <1>1, <1>2, <2>1, <2>2, CommitServes
<1>6. CASE CommitStart(t) \/ CommitRegister(t)
  <2>1. /\ leaseWorker' = TrackingWorker /\ UNCHANGED wstop
        /\ wpc' = [wpc EXCEPT ![TrackingWorker] = IF @ = "none" THEN "wait" ELSE @]
        /\ pc[t] = "commit" /\ RequireGeneration(t)
    BY <1>6 DEF CommitStart, CommitRegister, Commit, Track
  <2>2. publication' = publication \/ pstate = "ACTIVE"
    <3>1. CASE CommitStart(t)
      BY <3>1 DEF CommitStart
    <3>2. CASE CommitRegister(t)
      BY <2>1, <3>2 DEF CommitRegister, RequireGeneration, GenerationFence, NodeFollowsState
    <3>. QED  BY <1>6, <3>1, <3>2
  <2>3. \A g \in Gens : wpc'[g] \in {"wait", "renew"} =>
                            wpc[g] \in {"wait", "renew"} \/ g = TrackingWorker
    BY <2>1
  <2>. QED  BY <1>1, <1>2, <2>1, <2>2, <2>3, CommitServes
<1>. QED  BY <1>3, <1>4, <1>5, <1>6 DEF DeployStep

\* A step of register() keeps what the provider serves with.
LEMMA RegisterStepServes ==
    ASSUME IndInv, IndInv', Serving, NEW t \in Threads, RegisterStep(t)
    PROVE  Serving'
<1>1. /\ pc[t] \in RegisterSteps /\ op[t] = "register"
      /\ \E step \in RegisterSteps \cup {"install", "idle"} :
            pc' = [pc EXCEPT ![t] = step] /\ (step = "install" => UNCHANGED op)
      /\ \A u \in Threads : u # t => tgen'[u] = tgen[u]
      /\ UNCHANGED <<nodeVars, hostUp, workerVars, conns>>
  BY DEF RegisterStep, RegisterAdmit, RegisterRefused, HostAddCheck, HostAddStore,
         RegisterInsert, RegisterDeploys, RegisterLocal, RegisterAbandon, RegisterUndo,
         RegisterUndoBound, RegisterUnbind, CallMatchesStep
<1>2. ThreadsStand /\ \A u \in Threads : pc'[u] \in Halted => pc[u] \in Halted
  BY <1>1 DEF ThreadsStand, Connecting, Deploying, Halted
<1>. QED  BY <1>1, <1>2, ServingStands

-----------------------------------------------------------------------------
(* stop(), and the rollback of start() *)

\* A step of a shutdown keeps what the provider serves with.
LEMMA ShutdownStepServes ==
    ASSUME IndInv, IndInv', Serving, NEW t \in Threads, ShutdownStep(t)
    PROVE  Serving'
<1>1. CASE RollbackEnter(t) \/ ServeLeave(t)
  BY <1>1, ShutdownServes DEF RollbackEnter, ServeLeave
<1>2. CASE RollbackSkipped(t) \/ ServeLeaveSkipped(t)
  <2>1. /\ pc[t] \in {"rollback", "leave"} /\ pc' = [pc EXCEPT ![t] = "idle"]
        /\ tgen' = [tgen EXCEPT ![t] = 0] /\ UNCHANGED shared
    BY <1>2 DEF RollbackSkipped, ServeLeaveSkipped
  <2>2. ThreadsStand /\ \A u \in Threads : pc'[u] \in Halted => pc[u] \in Halted
    BY <2>1 DEF ThreadsStand, Connecting, Deploying, Halted
  <2>. QED  BY <2>1, <2>2, ServingStands
<1>3. CASE HaltWorker(t) \/ HaltNoWorker(t)
  <2>1. /\ pc[t] = "halt" /\ UNCHANGED <<nodeVars, hostUp, conns, tgen, wpc>>
        /\ \E step \in {"join", "revoke"} : pc' = [pc EXCEPT ![t] = step]
        /\ \/ leaseWorker = None /\ UNCHANGED wstop
           \/ leaseWorker # None /\ wstop' = [wstop EXCEPT ![leaseWorker] = TRUE]
    BY <1>3 DEF HaltWorker, HaltNoWorker
  <2>2. ThreadsStand
    BY <2>1 DEF ThreadsStand, Connecting, Deploying
  <2>3. WorkersHalted'
    BY <2>1 DEF Serving, WorkersHalted
  <2>4. PublicationFollowsState'
    BY <2>1, <2>2, PublicationStands DEF ThreadsStand
  <2>. QED  BY <2>1, <2>2, <2>3, <2>4, ConnectionStands DEF Serving
<1>4. CASE JoinWorker(t) \/ JoinTimeout(t) \/ Revoke(t) \/ RevokeDone(t)
  <2>1. /\ pc[t] \in {"join", "revoke"}
        /\ UNCHANGED <<nodeVars, hostUp, conns, tgen, workerVars>>
        /\ \E step \in {"revoke", "hoststop"} : pc' = [pc EXCEPT ![t] = step]
    BY <1>4 DEF JoinWorker, JoinTimeout, Revoke, RevokeDone
  <2>2. ThreadsStand /\ \A u \in Threads : pc'[u] \in Halted => pc[u] \in Halted
    BY <2>1 DEF ThreadsStand, Connecting, Deploying, Halted
  <2>. QED  BY <2>1, <2>2, ServingStands
<1>5. CASE HostStop(t)
  <2>1. /\ pc[t] = "hoststop" /\ pc' = [pc EXCEPT ![t] = "release"]
        /\ UNCHANGED <<nodeVars, conns, tgen, workerVars>>
    BY <1>5 DEF HostStop
  <2>2. ThreadsStand
    BY <2>1 DEF ThreadsStand, Connecting, Deploying
  <2>3. pstate = "STOPPING"
    BY <2>1 DEF OneShutdown
  <2>4. PublicationFollowsState'
    BY <2>1, <2>2, <2>3 DEF ThreadsStand, Serving, PublicationFollowsState
  <2>5. WorkersHalted'
    BY <2>1, HaltStands DEF Halted
  <2>. QED  BY <2>1, <2>2, <2>4, <2>5, ConnectionStands DEF Serving
<1>6. CASE Release(t)
  <2> USE <1>6 DEF Release
  <2>1. pc' = [pc EXCEPT ![t] = "settle"] /\ pstate = "STOPPING"
    BY DEF OneShutdown
  <2>2. \A u \in Threads : pc[u] = "attach" => tgen[u] # connection
    BY DEF Serving, ConnectionFollowsStart
  <2>3. ConnectionFollowsStart'
    BY <2>1, <2>2 DEF Serving, ConnectionFollowsStart, CallMatchesStep
  <2>4. ConnectionsOwned'
    BY <2>1 DEF Serving, ConnectionsOwned
  <2>5. PublicationFollowsState'
    BY <2>1 DEF PublicationFollowsState
  <2>6. WorkersHalted'
    BY <2>1 DEF Serving, WorkersHalted
  <2>. QED  BY <2>3, <2>4, <2>5, <2>6 DEF Serving
<1>7. CASE Settle(t)
  <2> USE <1>7 DEF Settle
  <2>1. /\ pc' = [pc EXCEPT ![t] = "idle"] /\ tgen' = [tgen EXCEPT ![t] = 0]
        /\ pstate = "STOPPING" /\ connection = None /\ publication = "STOPPED"
    BY DEF OneShutdown, Serving, ConnectionFollowsStart, PublicationFollowsState
  <2>2. ConnectionFollowsStart'
    BY <2>1 DEF Serving, ConnectionFollowsStart
  <2>3. ConnectionsOwned'
    BY <2>1 DEF Serving, ConnectionsOwned
  <2>4. PublicationFollowsState'
    BY <2>1 DEF PublicationFollowsState
  <2>5. WorkersHalted'
    BY <2>1, HaltStands DEF Halted
  <2>. QED  BY <2>2, <2>3, <2>4, <2>5 DEF Serving
<1>. QED  BY <1>1, <1>2, <1>3, <1>4, <1>5, <1>6, <1>7 DEF ShutdownStep

-----------------------------------------------------------------------------
(* The lease worker *)

\* A step of a lease worker keeps what the provider serves with, or fails it.
LEMMA WorkerStepServes ==
    ASSUME IndInv, IndInv', Serving, NEW g \in Gens, WorkerStep(g)
    PROVE  Serving'
<1>1. CASE WorkerDue(g) \/ WorkerStopped(g) \/ RenewOk(g) \/ RenewFail(g)
  <2>1. /\ UNCHANGED <<nodeVars, hostUp, conns, tgen, pc, op>>
        /\ \A h \in Gens : /\ wstop[h] => wstop'[h]
                           /\ wpc'[h] \in {"wait", "renew"} => wpc[h] \in {"wait", "renew"}
    BY <1>1 DEF WorkerDue, WorkerStopped, RenewOk, RenewFail
  <2>2. ThreadsStand
    BY <2>1 DEF ThreadsStand, Connecting, Deploying
  <2>3. WorkersHalted' /\ PublicationFollowsState'
    BY <2>1, HaltStands, PublicationStands
  <2>. QED  BY <2>1, <2>2, <2>3, ConnectionStands DEF Serving
<1>2. CASE BindingLeaseFailed(g)
  <2>1. /\ UNCHANGED <<generation, started, connection, leaseWorker, hostUp, conns, wstop,
                       tgen, op>>
        /\ \A h \in Gens : wpc'[h] \in {"wait", "renew"} => wpc[h] \in {"wait", "renew"}
        /\ \A u \in Threads : pc'[u] = pc[u] \/ (pc[u] = "serving" /\ pc'[u] = "leave")
    BY <1>2 DEF BindingLeaseFailed, Released
  <2>2. ThreadsStand
    BY <2>1 DEF ThreadsStand, Connecting, Deploying
  <2>3. CASE UNCHANGED <<pstate, publication>>
    BY <2>1, <2>2, <2>3, ServingStands DEF Halted
  <2>4. CASE pstate' = "FAILED" /\ publication' = "LEASE_FAILED" /\ g = generation
    <3>1. pstate \in Running
      BY <1>2, <2>4 DEF BindingLeaseFailed, WorkerFollowsNode, NodeFollowsState
    <3>2. \A u \in Threads : pc'[u] # "settle"
      BY <2>1, <3>1 DEF OneShutdown
    <3>3. ConnectionFollowsStart'
      BY <2>1, <2>2, <2>4, <3>1, <3>2
         DEF ThreadsStand, Connecting, Serving, ConnectionFollowsStart
    <3>4. ConnectionsOwned'
      BY <2>1 DEF Serving, ConnectionsOwned
    <3>5. PublicationFollowsState'
      BY <2>4, <3>2 DEF PublicationFollowsState
    <3>6. WorkersHalted'
      BY <2>1, HaltStands DEF Halted
    <3>. QED  BY <3>3, <3>4, <3>5, <3>6 DEF Serving
  <2>. QED  BY <1>2, <2>3, <2>4 DEF BindingLeaseFailed, FailureIsCurrent
<1>3. CASE WorkerHostStop(g)
  <2>1. /\ UNCHANGED <<nodeVars, conns, tgen, pc, op, wstop>>
        /\ \A h \in Gens : wpc'[h] \in {"wait", "renew"} => wpc[h] \in {"wait", "renew"}
    BY <1>3 DEF WorkerHostStop
  <2>2. ThreadsStand
    BY <2>1 DEF ThreadsStand, Connecting, Deploying
  <2>3. pstate \in {"FAILED", "STOPPING"}
    BY <1>3 DEF WorkerHostStop, WorkerFollowsNode
  <2>4. PublicationFollowsState'
    BY <2>1, <2>3 DEF Serving, PublicationFollowsState
  <2>5. WorkersHalted'
    BY <2>1, HaltStands
  <2>. QED  BY <2>1, <2>2, <2>4, <2>5, ConnectionStands DEF Serving
<1>. QED  BY <1>1, <1>2, <1>3 DEF WorkerStep

-----------------------------------------------------------------------------
(* Safety *)

\* Every reachable state satisfies the inductive invariant and serves with what
\* it should.
THEOREM ServingInvariance == Spec => [](IndInv /\ Serving)
<1>1. Init => Serving
  BY DEF Init, Serving, ConnectionFollowsStart, ConnectionsOwned, PublicationFollowsState,
         WorkersHalted
<1>2. IndInv /\ Serving /\ [Next]_vars => Serving'
  <2> SUFFICES ASSUME IndInv, Serving, [Next]_vars PROVE Serving'
    OBVIOUS
  <2>1. IndInv'
    BY NextInv
  <2>2. ASSUME NEW t \in Threads, Call(t) \/ Continue(t) PROVE Serving'
    BY <2>1, <2>2, CallServes, StartStepServes, DeployStepServes, RegisterStepServes,
       ShutdownStepServes DEF Continue
  <2>3. ASSUME NEW a \in Acts, Expire(a) PROVE Serving'
    BY <2>1, <2>3, ServingStands DEF Expire, ThreadsStand, Connecting, Deploying
  <2>4. CASE UNCHANGED vars
    BY <2>1, <2>4, ServingStands DEF vars, ThreadsStand, Connecting, Deploying
  <2>. QED  BY <2>1, <2>2, <2>3, <2>4, WorkerStepServes DEF Next
<1>. QED  BY <1>1, <1>2, InitInv, NextInv, PTL DEF Spec

\* An ACTIVE provider serves: its host is open, its connection is its own and
\* open, and its worker is of its generation (ActiveIsServing).
THEOREM ActiveServes == Spec => []ActiveIsServing
<1>1. IndInv /\ Serving => ActiveIsServing
  BY DEF Serving, ConnectionFollowsStart, PublicationFollowsState, HostFollowsState,
         NodeFollowsState, GenerationBounds, ActiveIsServing
<1>. QED  BY <1>1, ServingInvariance, PTL

\* A STOPPED provider is quiet, whatever is still in flight (StoppedIsQuiet).
THEOREM StoppedStaysQuiet == Spec => []StoppedIsQuiet
<1>1. IndInv /\ Serving => StoppedIsQuiet
  BY DEF Serving, ConnectionFollowsStart, PublicationFollowsState, WorkersHalted,
         HostFollowsState, NodeFollowsState, WorkerFollowsNode, StoppedIsQuiet
<1>. QED  BY <1>1, ServingInvariance, PTL

\* No Runtime connection is lost between the start that opened it and the
\* shutdown or the stale start that closes it (ConnectionsOwned).
THEOREM NoConnectionLost == Spec => []ConnectionsOwned
<1>1. Serving => ConnectionsOwned
  BY DEF Serving
<1>. QED  BY <1>1, ServingInvariance, PTL

\* The provider claims to be locally active, or to wait for realm visibility,
\* only with a live host and a connection (PublicationIsHonest).
THEOREM PublicationStaysHonest == Spec => []PublicationIsHonest
<1>1. IndInv /\ Serving => PublicationIsHonest
  BY DEF Serving, ConnectionFollowsStart, PublicationFollowsState, HostFollowsState,
         GenerationBounds, ObservedPublication, PublicationIsHonest, ProviderStates
<1>. QED  BY <1>1, ServingInvariance, PTL

-----------------------------------------------------------------------------
(* What is renewed *)

USE DEF Current, WorkerGoesOn, Renewed

\* A worker once created does not go back, and does not take its stop back.
WorkersGrow ==
    \A g \in Gens : /\ wpc'[g] = "none" => wpc[g] = "none" /\ batch'[g] = batch[g]
                    /\ wstop[g] => wstop'[g]

\* Nobody gets deploying but a registration, and nobody finishes a rollback.
DeployersStand ==
    \A u \in Threads :
        /\ pc'[u] \in {"deploy"} \cup DeploySteps =>
             \/ op'[u] = "register" /\ pc'[u] \in DeploySteps
             \/ /\ pc[u] \in {"deploy"} \cup DeploySteps
                /\ pc[u] = "deploy" \/ pc'[u] # "deploy"
                /\ tgen'[u] = tgen[u] /\ tname'[u] = tname[u] /\ todo'[u] = todo[u]
        /\ pc[u] = "undo" /\ tgen[u] = generation =>
             pc'[u] = "undo" /\ tgen'[u] = tgen[u] /\ tname'[u] = tname[u]

\* A step that leaves the node and the registry alone keeps Covered.
LEMMA CoveredStands ==
    ASSUME IndInv', Covered, WorkersGrow, DeployersStand,
           UNCHANGED <<pstate, generation, leaseWorker, registered, install, members>>
    PROVE  Covered'
<1>1. InstallsRegistered' /\ UnusedWorkers'
  BY DEF Covered, InstallsRegistered, UnusedWorkers, WorkersGrow
<1>2. WorkerGoesOn' => WorkerGoesOn
  BY DEF WorkersGrow
<1>3. StartCovers'
  <2>1. \A u \in Threads : tgen'[u] = generation' /\ op'[u] = "register"
          /\ pc'[u] \in DeploySteps => pstate' # "STARTING"
    BY DEF GenerationFence
  <2> SUFFICES ASSUME pstate' = "STARTING", WorkerGoesOn', NEW u \in Threads, NEW n \in Names,
                      tgen'[u] = generation', pc'[u] \in {"deploy"} \cup DeploySteps,
                      install'[n] # None
               PROVE  \/ \E i \in todo'[u] : i[1] = n
                      \/ pc'[u] \in DeploySteps /\ tname'[u] = n
                      \/ Renewed(n)'
    BY DEF StartCovers
  <2>2. /\ pc[u] \in {"deploy"} \cup DeploySteps
        /\ pc[u] = "deploy" \/ pc'[u] # "deploy"
        /\ tgen'[u] = tgen[u] /\ tname'[u] = tname[u] /\ todo'[u] = todo[u]
    BY <2>1 DEF DeployersStand
  <2>3. \/ \E i \in todo[u] : i[1] = n
        \/ pc[u] \in DeploySteps /\ tname[u] = n
        \/ Renewed(n)
    BY <1>2, <2>2 DEF Covered, StartCovers
  <2>. QED  BY <2>2, <2>3
<1>4. ActiveCovers'
  <2> SUFFICES ASSUME pstate' = "ACTIVE", WorkerGoesOn', NEW n \in Names, install'[n] # None,
                      ~\E u \in Threads : pc'[u] = "undo" /\ tname'[u] = n /\ tgen'[u] = generation'
               PROVE  Renewed(n)'
    BY DEF ActiveCovers
  <2>1. ~\E u \in Threads : pc[u] = "undo" /\ tname[u] = n /\ tgen[u] = generation
    BY DEF DeployersStand
  <2>. QED  BY <1>2, <2>1 DEF Covered, ActiveCovers
<1>. QED  BY <1>1, <1>3, <1>4 DEF Covered

\* A provider that neither starts nor is ACTIVE promises no renewal.
LEMMA IdleCovers ==
    ASSUME Covered, WorkersGrow, pstate' \notin {"STARTING", "ACTIVE"},
           UNCHANGED <<registered, install, members>>
    PROVE  Covered'
BY DEF Covered, InstallsRegistered, UnusedWorkers, StartCovers, ActiveCovers, WorkersGrow

\* A new call keeps Covered.
LEMMA CallCovers ==
    ASSUME IndInv, IndInv', Covered, NEW t \in Threads, Call(t)
    PROVE  Covered'
<1>1. CASE StartEnter(t) \/ ServeEnter(t)
  <2>1. /\ pstate' = "STARTING" /\ leaseWorker' = None /\ generation' = generation + 1
        /\ pc' = [pc EXCEPT ![t] = "connect"] /\ UNCHANGED <<registryVars, workerVars>>
        /\ tgen' = [tgen EXCEPT ![t] = generation + 1]
    BY <1>1 DEF StartEnter, ServeEnter, BeginStart, NodeFollowsState
  <2>2. \A u \in Threads : tgen[u] # generation + 1
    BY DEF GenerationBounds
  <2>3. InstallsRegistered' /\ UnusedWorkers' /\ ActiveCovers'
    BY <2>1 DEF Covered, InstallsRegistered, UnusedWorkers, ActiveCovers
  <2>4. \A u \in Threads : tgen'[u] = generation' => pc'[u] = "connect"
    BY <2>1, <2>2
  <2>5. StartCovers'
    BY <2>4 DEF StartCovers
  <2>. QED  BY <2>3, <2>5 DEF Covered
<1>2. CASE StopEnter(t)
  BY <1>2, IdleCovers DEF StopEnter, BeginShutdown, WorkersGrow
<1>3. CASE ServeActive(t) \/ ServeInterrupt(t) \/ \E n \in Names : RegisterEnter(t, n)
  <2>1. UNCHANGED <<shared, tgen, todo>> /\ pc[t] \in {"idle", "serving"}
        /\ \E step \in {"await", "leave", "admit"} : pc' = [pc EXCEPT ![t] = step]
        /\ \A u \in Threads : u # t => tname'[u] = tname[u]
    BY <1>3 DEF ServeActive, ServeInterrupt, RegisterEnter
  <2>2. DeployersStand /\ WorkersGrow
    BY <2>1 DEF DeployersStand, WorkersGrow
  <2>. QED  BY <2>1, <2>2, CoveredStands
<1>. QED  BY <1>1, <1>2, <1>3 DEF Call

\* A start that has deployed its snapshot has every recorded binding renewed.
LEMMA StartStepCovers ==
    ASSUME IndInv, IndInv', Covered, NEW t \in Threads, StartStep(t)
    PROVE  Covered'
<1>1. CASE SnapshotRegistry(t)
  <2>1. /\ UNCHANGED <<shared, tgen, op>> /\ pc' = [pc EXCEPT ![t] = "deploy"]
        /\ todo' = [todo EXCEPT ![t] = RegistrySnapshot]
        /\ UNCHANGED tname /\ pc[t] = "snapshot"
    BY <1>1 DEF SnapshotRegistry
  <2>2. \A n \in Names : install[n] # None => \E i \in RegistrySnapshot : i[1] = n
    <3> SUFFICES ASSUME NEW n \in Names, install[n] # None
                 PROVE  \E i \in RegistrySnapshot : i[1] = n
      OBVIOUS
    <3>1. <<n, install[n]>> \in RegistrySnapshot
      BY DEF RegistrySnapshot, Covered, InstallsRegistered
    <3>. QED  BY <3>1
  <2>3. StartCovers'
    BY <2>1, <2>2 DEF Covered, StartCovers
  <2>4. ActiveCovers'
    BY <2>1 DEF Covered, ActiveCovers
  <2>. QED  BY <2>1, <2>3, <2>4 DEF Covered, InstallsRegistered, UnusedWorkers
<1>2. CASE DeployNext(t)
  <2>1. /\ UNCHANGED <<shared, tgen, op>> /\ pc[t] = "deploy"
        /\ \E step \in {"install", "rollback"} : pc' = [pc EXCEPT ![t] = step]
    BY <1>2 DEF DeployNext
  <2>2. PICK item \in todo[t] : /\ todo' = [todo EXCEPT ![t] = @ \ {item}]
                                /\ tname' = [tname EXCEPT ![t] = item[1]]
    BY <1>2 DEF DeployNext
  <2>3. StartCovers'
    BY <2>1, <2>2 DEF Covered, StartCovers
  <2>4. ActiveCovers'
    BY <2>1, <2>2 DEF Covered, ActiveCovers
  <2>. QED  BY <2>1, <2>3, <2>4 DEF Covered, InstallsRegistered, UnusedWorkers
<1>3. CASE StartFinish(t) \/ ServeStarted(t)
  <2>1. /\ StartComplete(t) /\ pc[t] = "deploy" /\ todo[t] = {} /\ tgen[t] = generation
        /\ pstate' = "ACTIVE"
        /\ UNCHANGED <<generation, leaseWorker, registryVars, workerVars>>
    BY <1>3 DEF StartFinish, ServeStarted, StartComplete, RequireGeneration
  <2>2. pstate = "STARTING"
    BY <2>1, StartFinishFacts DEF StartComplete
  <2>3. WorkerGoesOn => \A n \in Names : install[n] # None => Renewed(n)
    BY <2>1, <2>2 DEF Covered, StartCovers
  <2>. QED  BY <2>1, <2>3 DEF Covered, InstallsRegistered, UnusedWorkers, StartCovers, ActiveCovers
<1>4. CASE \/ ConnectOk(t) \/ ConnectFail(t) \/ AttachOk(t) \/ AttachHostFails(t)
           \/ AttachStale(t) \/ Discard(t) \/ StartRefused(t) \/ ServeWait(t)
  <2>1. /\ UNCHANGED <<pstate, generation, leaseWorker, registryVars, workerVars,
                       tgen, tname, todo>>
        /\ pc[t] \in {"connect", "attach", "discard", "deploy", "await"}
        /\ \E step \in {"attach", "discard", "snapshot", "rollback", "leave", "serving"} :
              pc' = [pc EXCEPT ![t] = step]
    BY <1>4 DEF ConnectOk, ConnectFail, AttachOk, AttachHostFails, AttachStale, Discard,
                StartRefused, ServeWait
  <2>2. DeployersStand /\ WorkersGrow
    BY <2>1 DEF DeployersStand, WorkersGrow
  <2>. QED  BY <2>1, <2>2, CoveredStands
<1>. QED  BY <1>1, <1>2, <1>3, <1>4 DEF StartStep

\* Whoever else deploys while the provider starts is not of this generation.
LEMMA CommitAlone ==
    ASSUME IndInv, NEW t \in Threads, pc[t] = "commit", tgen[t] = generation
    PROVE  /\ op[t] = "register" => pstate \in {"ACTIVE", "FAILED"}
           /\ op[t] # "register" => pstate \in {"STARTING", "FAILED"}
           /\ pstate = "STARTING" =>
                \A u \in Threads : tgen[u] = generation
                    /\ pc[u] \in {"deploy"} \cup DeploySteps => u = t
<1>1. op[t] \in StartCalls \cup {"register"} /\ generation # 0
  BY CommitFacts DEF CallMatchesStep, RequireGeneration
<1>2. /\ op[t] = "register" => pstate \in {"ACTIVE", "FAILED"}
      /\ op[t] # "register" => pstate \in {"STARTING", "FAILED"}
  BY <1>1 DEF GenerationFence
<1>3. ASSUME NEW u \in Threads, tgen[u] = generation, pstate = "STARTING",
             pc[u] \in {"deploy"} \cup DeploySteps
      PROVE  u = t
  <2>1. op[u] \in StartCalls
    BY <1>3 DEF GenerationFence, CallMatchesStep
  <2>. QED  BY <1>1, <1>2, <1>3, <2>1 DEF OneStarter
<1>. QED  BY <1>2, <1>3

\* A commit of this generation records what the worker tracks, or ends in a rollback.
LEMMA CommitCovers ==
    ASSUME IndInv, IndInv', Covered, NEW t \in Threads,
           CommitUntracked(t) \/ CommitUnhealthy(t) \/ CommitStart(t) \/ CommitRegister(t)
    PROVE  Covered'
<1>1. /\ pc[t] = "commit" /\ tgen[t] = generation /\ UNCHANGED <<pstate, generation>>
      /\ registered' = registered \cup {tname[t]}
      /\ install' = [install EXCEPT ![tname[t]] = act[t]]
      /\ tname[t] \in Names
  BY DEF CommitUntracked, CommitUnhealthy, CommitStart, CommitRegister, Commit,
         RequireGeneration, CallMatchesStep, NameSteps
<1>2. InstallsRegistered'
  BY <1>1 DEF Covered, InstallsRegistered
<1>3. TrackingWorker = generation /\ generation \in Gens /\ leaseWorker \in {None, generation}
  BY <1>1, CommitFacts DEF TrackingWorker, RequireGeneration
<1>4. /\ op[t] = "register" => pstate \in {"ACTIVE", "FAILED"}
      /\ op[t] # "register" => pstate \in {"STARTING", "FAILED"}
      /\ pstate = "STARTING" =>
           \A u \in Threads : tgen[u] = generation
               /\ pc[u] \in {"deploy"} \cup DeploySteps => u = t
  BY <1>1, CommitAlone
<1>5. CASE CommitUntracked(t)
  <2>1. /\ leaseWorker' = generation /\ UNCHANGED <<workerVars, tgen, tname>>
        /\ pc' = [pc EXCEPT ![t] = IF op[t] = "register" THEN "undo" ELSE "rollback"]
    BY <1>3, <1>5 DEF CommitUntracked, Raise
  <2>2. WorkerGoesOn' => WorkerGoesOn
    BY <1>3, <2>1
  <2>3. StartCovers'
    BY <1>1, <1>4, <2>1 DEF StartCovers
  <2>4. ActiveCovers'
    BY <1>1, <1>3, <1>4, <2>1, <2>2 DEF Covered, ActiveCovers
  <2>. QED  BY <1>2, <2>1, <2>3, <2>4 DEF Covered, UnusedWorkers
<1>6. CASE CommitUnhealthy(t)
  <2>1. /\ UNCHANGED leaseWorker /\ leaseWorker \in Gens
        /\ wstop' = [wstop EXCEPT ![leaseWorker] = TRUE]
        /\ wpc' = [wpc EXCEPT ![leaseWorker] = "report"]
        /\ members' = [members EXCEPT ![leaseWorker][tname[t]] = act[t]]
        /\ batch' = [batch EXCEPT ![leaseWorker] = {}]
    BY <1>6 DEF CommitUnhealthy
  <2>2. ~WorkerGoesOn'
    BY <2>1
  <2>3. UnusedWorkers'
    BY <2>1 DEF Covered, UnusedWorkers
  <2>. QED  BY <1>2, <2>2, <2>3 DEF Covered, StartCovers, ActiveCovers
<1>7. CASE CommitStart(t) \/ CommitRegister(t)
  <2>1. /\ leaseWorker' = generation /\ UNCHANGED <<wstop, batch>>
        /\ members' = [members EXCEPT ![generation][tname[t]] = act[t]]
        /\ wpc' = [wpc EXCEPT ![generation] = IF @ = "none" THEN "wait" ELSE @]
        /\ \A u \in Threads : u # t =>
             pc'[u] = pc[u] /\ tgen'[u] = tgen[u] /\ tname'[u] = tname[u] /\ todo'[u] = todo[u]
        /\ pc'[t] = IF op[t] = "register" THEN "idle" ELSE "deploy"
        /\ pc'[t] = "deploy" => todo'[t] = todo[t]
    BY <1>3, <1>7 DEF CommitStart, CommitRegister, Commit, Track
  <2>2. UnusedWorkers'
    BY <1>3, <2>1 DEF Covered, UnusedWorkers
  <2>3. WorkerGoesOn' => WorkerGoesOn
    BY <1>3, <2>1
  <2>4. leaseWorker' # None /\ members'[leaseWorker'][tname[t]] = install'[tname[t]]
    BY <1>1, <1>3, <2>1
  <2>5. \A n \in Names : n # tname[t] => install'[n] = install[n] /\ (Renewed(n) => Renewed(n)')
    BY <1>1, <1>3, <2>1
  <2>6. StartCovers'
    <3> SUFFICES ASSUME pstate = "STARTING", WorkerGoesOn', NEW u \in Threads, NEW n \in Names,
                        tgen'[u] = generation, pc'[u] \in {"deploy"} \cup DeploySteps,
                        install'[n] # None, n # tname[t]
                 PROVE  (\E i \in todo'[u] : i[1] = n) \/ Renewed(n)'
      BY <1>1, <2>4 DEF StartCovers
    <3>1. u = t /\ pc'[t] = "deploy"
      BY <1>4, <2>1
    <3>2. (\E i \in todo[t] : i[1] = n) \/ Renewed(n)
      BY <1>1, <2>3, <2>5 DEF Covered, StartCovers
    <3>. QED  BY <2>1, <2>5, <3>1, <3>2
  <2>7. ActiveCovers'
    <3> SUFFICES ASSUME pstate = "ACTIVE", WorkerGoesOn', NEW n \in Names,
                        install'[n] # None, n # tname[t],
                        ~\E u \in Threads : pc'[u] = "undo" /\ tname'[u] = n /\ tgen'[u] = generation
                 PROVE  Renewed(n)'
      BY <1>1, <2>4 DEF ActiveCovers
    <3>1. \A u \in Threads : pc[u] = "undo" =>
            pc'[u] = "undo" /\ tname'[u] = tname[u] /\ tgen'[u] = tgen[u]
      BY <1>1, <2>1
    <3>2. ~\E u \in Threads : pc[u] = "undo" /\ tname[u] = n /\ tgen[u] = generation
      BY <3>1
    <3>. QED  BY <1>1, <2>3, <2>5, <3>2 DEF Covered, ActiveCovers
  <2>. QED  BY <1>2, <2>2, <2>6, <2>7 DEF Covered
<1>. QED  BY <1>5, <1>6, <1>7

\* A step of a deployment keeps Covered.
LEMMA DeployStepCovers ==
    ASSUME IndInv, IndInv', Covered, NEW t \in Threads, DeployStep(t)
    PROVE  Covered'
<1>1. CASE Install(t, TRUE) \/ Install(t, FALSE) \/ InstallFail(t) \/ CommitStale(t)
  <2>1. /\ UNCHANGED <<nodeVars, registryVars, workerVars, tgen, tname, todo>>
        /\ pc[t] \in DeploySteps
        /\ \E step \in {"commit", "undo", "rollback"} : pc' = [pc EXCEPT ![t] = step]
    BY <1>1 DEF Install, InstallFail, CommitStale, Raise
  <2>2. DeployersStand /\ WorkersGrow
    BY <2>1 DEF DeployersStand, WorkersGrow
  <2>. QED  BY <2>1, <2>2, CoveredStands
<1>. QED  BY <1>1, CommitCovers DEF DeployStep

\* A step of register() keeps Covered: it clears what it removes.
LEMMA RegisterStepCovers ==
    ASSUME IndInv, IndInv', Covered, NEW t \in Threads, RegisterStep(t)
    PROVE  Covered'
<1>1. CASE RegisterInsert(t)
  <2>1. /\ UNCHANGED <<nodeVars, workerVars, tgen, tname, todo>> /\ pc[t] = "insert"
        /\ pc' = [pc EXCEPT ![t] = "branch"]
        /\ registered' = registered \cup {tname[t]}
        /\ install' = [install EXCEPT ![tname[t]] = None]
    BY <1>1 DEF RegisterInsert
  <2>2. InstallsRegistered' /\ UnusedWorkers'
    BY <2>1 DEF Covered, InstallsRegistered, UnusedWorkers
  <2>3. StartCovers'
    BY <2>1 DEF Covered, StartCovers
  <2>4. ActiveCovers'
    BY <2>1 DEF Covered, ActiveCovers
  <2>. QED  BY <2>2, <2>3, <2>4 DEF Covered
<1>2. CASE RegisterUndo(t) \/ RegisterUndoBound(t)
  <2>1. /\ UNCHANGED <<nodeVars, workerVars>> /\ pc[t] = "undo"
        /\ \E step \in {"idle", "unbind"} : pc' = [pc EXCEPT ![t] = step]
        /\ registered' = registered \ {tname[t]}
        /\ install' = [install EXCEPT ![tname[t]] = None]
        /\ \A u \in Threads : u # t =>
             tgen'[u] = tgen[u] /\ tname'[u] = tname[u] /\ todo'[u] = todo[u]
    BY <1>2 DEF RegisterUndo, RegisterUndoBound, Forget
  <2>2. InstallsRegistered' /\ UnusedWorkers'
    BY <2>1 DEF Covered, InstallsRegistered, UnusedWorkers
  <2>3. StartCovers'
    BY <2>1 DEF Covered, StartCovers
  <2>4. ActiveCovers'
    <3> SUFFICES ASSUME pstate = "ACTIVE", WorkerGoesOn', NEW n \in Names, install'[n] # None,
                        ~\E u \in Threads : pc'[u] = "undo" /\ tname'[u] = n /\ tgen'[u] = generation
                 PROVE  Renewed(n)'
      BY <2>1 DEF ActiveCovers
    <3>1. n # tname[t] /\ install[n] # None
      BY <2>1
    <3>2. ~\E u \in Threads : pc[u] = "undo" /\ tname[u] = n /\ tgen[u] = generation
      BY <2>1, <3>1
    <3>. QED  BY <2>1, <3>1, <3>2 DEF Covered, ActiveCovers
  <2>. QED  BY <2>2, <2>3, <2>4 DEF Covered
<1>3. CASE \/ RegisterAdmit(t) \/ RegisterRefused(t) \/ HostAddCheck(t) \/ HostAddStore(t)
           \/ RegisterDeploys(t) \/ RegisterLocal(t) \/ RegisterAbandon(t) \/ RegisterUnbind(t)
  <2>1. /\ UNCHANGED <<nodeVars, registryVars, workerVars>>
        /\ pc[t] \in RegisterSteps /\ op[t] = "register"
        /\ pc[t] = "undo" => tgen[t] # generation
        /\ \A u \in Threads : u # t =>
             pc'[u] = pc[u] /\ tgen'[u] = tgen[u] /\ tname'[u] = tname[u] /\ todo'[u] = todo[u]
        /\ pc'[t] \in RegisterSteps \cup {"idle", "install"}
        /\ pc'[t] = "install" => op'[t] = op[t]
    BY <1>3 DEF RegisterAdmit, RegisterRefused, HostAddCheck, HostAddStore, RegisterDeploys,
                RegisterLocal, RegisterAbandon, RegisterUnbind, CallMatchesStep
  <2>2. DeployersStand /\ WorkersGrow
    BY <2>1 DEF DeployersStand, WorkersGrow
  <2>. QED  BY <2>1, <2>2, CoveredStands
<1>. QED  BY <1>1, <1>2, <1>3 DEF RegisterStep

\* A shutdown promises no renewal.
LEMMA ShutdownStepCovers ==
    ASSUME IndInv, IndInv', Covered, NEW t \in Threads, ShutdownStep(t)
    PROVE  Covered'
<1>1. CASE RollbackEnter(t) \/ ServeLeave(t)
  BY <1>1, IdleCovers DEF RollbackEnter, ServeLeave, BeginShutdown, WorkersGrow
<1>2. CASE RollbackSkipped(t) \/ ServeLeaveSkipped(t)
  <2>1. /\ UNCHANGED shared /\ pc[t] \in {"rollback", "leave"}
        /\ pc' = [pc EXCEPT ![t] = "idle"]
        /\ \A u \in Threads : u # t =>
             tgen'[u] = tgen[u] /\ tname'[u] = tname[u] /\ todo'[u] = todo[u]
    BY <1>2 DEF RollbackSkipped, ServeLeaveSkipped
  <2>2. DeployersStand /\ WorkersGrow
    BY <2>1 DEF DeployersStand, WorkersGrow
  <2>. QED  BY <2>1, <2>2, CoveredStands
<1>3. CASE Revoke(t)
  <2>1. pstate' = "STOPPING" /\ UNCHANGED workerVars
    BY <1>3 DEF Revoke, OneShutdown
  <2>2. PICK item \in todo[t] : /\ registered' = registered \cup {item[1]}
                                /\ install' = [install EXCEPT ![item[1]] = None]
    BY <1>3 DEF Revoke
  <2>. QED  BY <2>1, <2>2 DEF Covered, InstallsRegistered, UnusedWorkers, StartCovers, ActiveCovers
<1>4. CASE \/ HaltWorker(t) \/ HaltNoWorker(t) \/ JoinWorker(t) \/ JoinTimeout(t)
           \/ RevokeDone(t) \/ HostStop(t) \/ Release(t) \/ Settle(t)
  <2>1. pstate' \in {"STOPPING", "STOPPED"}
    BY <1>4 DEF HaltWorker, HaltNoWorker, JoinWorker, JoinTimeout, RevokeDone, HostStop,
                Release, Settle, OneShutdown
  <2>2. WorkersGrow /\ UNCHANGED <<registered, install, members>>
    BY <1>4 DEF HaltWorker, HaltNoWorker, JoinWorker, JoinTimeout, RevokeDone, HostStop,
                Release, Settle, WorkersGrow
  <2>. QED  BY <2>1, <2>2, IdleCovers
<1>. QED  BY <1>1, <1>2, <1>3, <1>4 DEF ShutdownStep

\* A lease worker keeps what it tracks, or fails the provider.
LEMMA WorkerStepCovers ==
    ASSUME IndInv, IndInv', Covered, NEW g \in Gens, WorkerStep(g)
    PROVE  Covered'
<1>1. WorkersGrow /\ UNCHANGED <<registered, install, members>>
  BY DEF WorkerStep, WorkerDue, WorkerStopped, RenewOk, RenewFail, BindingLeaseFailed,
         WorkerHostStop, WorkersGrow
<1>2. CASE pstate' = "FAILED"
  BY <1>1, <1>2, IdleCovers
<1>3. CASE pstate' # "FAILED"
  <2>1. UNCHANGED <<pstate, generation, leaseWorker, pc, tgen, tname, todo>>
    BY <1>3 DEF WorkerStep, WorkerDue, WorkerStopped, RenewOk, RenewFail, BindingLeaseFailed,
                WorkerHostStop
  <2>2. DeployersStand
    BY <2>1 DEF DeployersStand
  <2>. QED  BY <1>1, <2>1, <2>2, CoveredStands
<1>. QED  BY <1>2, <1>3

\* Every step keeps Covered.
LEMMA CoveredNext == IndInv /\ Covered /\ [Next]_vars => Covered'
<1> SUFFICES ASSUME IndInv, Covered, [Next]_vars PROVE Covered'
  OBVIOUS
<1>1. IndInv'
  BY NextInv
<1>2. ASSUME NEW t \in Threads, Call(t) \/ Continue(t) PROVE Covered'
  BY <1>1, <1>2, CallCovers, StartStepCovers, DeployStepCovers, RegisterStepCovers,
     ShutdownStepCovers DEF Continue
<1>3. ASSUME NEW a \in Acts, Expire(a) PROVE Covered'
  BY <1>1, <1>3, CoveredStands DEF Expire, DeployersStand, WorkersGrow
<1>4. CASE UNCHANGED vars
  BY <1>1, <1>4, CoveredStands DEF vars, DeployersStand, WorkersGrow
<1>. QED  BY <1>1, <1>2, <1>3, <1>4, WorkerStepCovers DEF Next

\* On an ACTIVE provider whose worker runs, what an ability records is what the
\* worker renews (ActiveBindingsRenewed).
THEOREM BindingsRenewed == Spec => []ActiveBindingsRenewed
<1>1. Init => Covered
  BY DEF Init, Covered, InstallsRegistered, UnusedWorkers, StartCovers, ActiveCovers
<1>2. Covered => ActiveBindingsRenewed
  BY DEF Covered, ActiveCovers, ActiveBindingsRenewed
<1>. QED  BY <1>1, <1>2, CoveredNext, InitInv, NextInv, PTL DEF Spec

-----------------------------------------------------------------------------
(* Who ends what was begun *)

USE DEF OnwardSteps, ServeSteps, Starting

\* A thread that stays in its start or its shutdown, while the provider stays in its
\* state, keeps the progress of everybody.
LEMMA ProgressStands ==
    ASSUME Progress, NEW t \in Threads,
           UNCHANGED <<pstate, generation, serveExit>>,
           \A u \in Threads : u # t => UNCHANGED <<pc[u], op[u], tgen[u]>>,
           pc'[t] \in ServeSteps => pc[t] \in ServeSteps,
           pc'[t] = "serving" => pc[t] = "serving" \/ ~serveExit,
           pc[t] \in ShutdownSteps /\ pstate = "STOPPING" => pc'[t] \in ShutdownSteps,
           Starting(t, OnwardSteps) /\ pstate = "STARTING" => Starting(t, OnwardSteps)'
    PROVE  Progress'
<1> USE DEF Progress
<1>1. EventFollowsState'
  BY DEF EventFollowsState
<1>2. pstate' = "STARTING" => \E u \in Threads : Starting(u, OnwardSteps)'
  <2> SUFFICES ASSUME pstate = "STARTING" PROVE \E u \in Threads : Starting(u, OnwardSteps)'
    OBVIOUS
  <2>1. PICK u \in Threads : Starting(u, OnwardSteps)
    BY DEF NeverStranded
  <2>2. Starting(u, OnwardSteps)'
    BY <2>1 DEF Current
  <2>. QED  BY <2>2
<1>3. pstate' = "STOPPING" => \E u \in Threads : pc'[u] \in ShutdownSteps
  BY DEF NeverStranded
<1>. QED  BY <1>1, <1>2, <1>3 DEF NeverStranded

\* Who neither moves a thread nor the node keeps it as well.
LEMMA ProgressIdles ==
    ASSUME Progress, UNCHANGED <<pstate, generation, serveExit, pc, op, tgen>>
    PROVE  Progress'
BY DEF Progress, NeverStranded, EventFollowsState, Current

\* A shutdown has its own thread and releases those that sleep.
LEMMA ShutdownProgresses ==
    ASSUME IndInv, Progress, NEW t \in Threads, BeginShutdown(t)
    PROVE  Progress'
<1>1. pstate' = "STOPPING" /\ serveExit' /\ generation' # 0
  BY DEF BeginShutdown
<1>2. pc'[t] = "halt" /\ \A u \in Threads : pc'[u] # "serving"
  BY DEF BeginShutdown, Released
<1>. QED  BY <1>1, <1>2 DEF Progress, NeverStranded, EventFollowsState

\* A start begins with nobody asleep, and is in its own thread.
LEMMA CallProgresses ==
    ASSUME IndInv, Progress, NEW t \in Threads, Call(t)
    PROVE  Progress'
<1>1. CASE StartEnter(t) \/ ServeEnter(t)
  <2>1. /\ pstate = "STOPPED" /\ pstate' = "STARTING" /\ generation' = generation + 1
        /\ Starting(t, OnwardSteps)' /\ \A u \in Threads : u # t => pc'[u] = pc[u]
    BY <1>1 DEF StartEnter, ServeEnter, BeginStart, Current
  <2>2. pc'[t] = "connect" /\ generation' # 0
    BY <1>1 DEF StartEnter, ServeEnter, BeginStart
  <2>3. \A u \in Threads : pc[u] # "serving"
    BY <2>1 DEF Progress, EventFollowsState
  <2>. QED  BY <2>1, <2>2, <2>3 DEF Progress, NeverStranded, EventFollowsState
<1>2. CASE StopEnter(t)
  BY <1>2, ShutdownProgresses DEF StopEnter
<1>3. CASE ServeActive(t)
  <2>1. generation # 0
    BY <1>3 DEF ServeActive, GenerationBounds
  <2>. QED  BY <1>3, <2>1 DEF ServeActive, Progress, NeverStranded, EventFollowsState
<1>4. CASE ServeInterrupt(t)
  BY <1>4, ProgressStands DEF ServeInterrupt
<1>5. ASSUME NEW n \in Names, RegisterEnter(t, n) PROVE Progress'
  <2>1. /\ UNCHANGED <<pstate, generation, serveExit>> /\ pc[t] = "idle" /\ pc'[t] = "admit"
        /\ \A u \in Threads : u # t => UNCHANGED <<pc[u], op[u], tgen[u]>>
    BY <1>5 DEF RegisterEnter
  <2>. QED  BY <2>1, ProgressStands
<1>. QED  BY <1>1, <1>2, <1>3, <1>4, <1>5 DEF Call

\* A start goes on, is rolled back, or has made the provider ACTIVE.
LEMMA StartProgresses ==
    ASSUME IndInv, Progress, NEW t \in Threads, StartStep(t)
    PROVE  Progress'
<1>1. CASE \/ ConnectOk(t) \/ ConnectFail(t) \/ AttachOk(t) \/ AttachHostFails(t)
           \/ AttachStale(t) \/ Discard(t) \/ SnapshotRegistry(t) \/ DeployNext(t)
           \/ StartRefused(t)
  <2>1. /\ UNCHANGED <<pstate, generation, serveExit>> /\ UNCHANGED <<op[t], tgen[t]>>
        /\ \A u \in Threads : u # t => UNCHANGED <<pc[u], op[u], tgen[u]>>
    BY <1>1 DEF ConnectOk, ConnectFail, AttachOk, AttachHostFails, AttachStale,
       Discard, SnapshotRegistry, DeployNext, StartRefused
  <2>2. /\ pc[t] \in StartSteps
        /\ pc'[t] \in OnwardSteps
    BY <1>1 DEF ConnectOk, ConnectFail, AttachOk, AttachHostFails, AttachStale,
       Discard, SnapshotRegistry, DeployNext, StartRefused, Raise
  <2>. QED  BY <2>1, <2>2, ProgressStands DEF Current
<1>2. CASE StartFinish(t) \/ ServeStarted(t)
  <2>1. /\ pstate' = "ACTIVE" /\ UNCHANGED <<generation, serveExit>>
        /\ tgen[t] = generation /\ tgen[t] # 0 /\ pc'[t] # "serving"
        /\ \A u \in Threads : u # t => pc'[u] = pc[u]
    BY <1>2 DEF StartFinish, ServeStarted, StartComplete, RequireGeneration, GenerationFence,
       GenerationBounds
  <2>. QED  BY <2>1 DEF Progress, NeverStranded, EventFollowsState
<1>3. CASE ServeWait(t)
  BY <1>3, ProgressStands DEF ServeWait
<1>. QED  BY <1>1, <1>2, <1>3 DEF StartStep

\* A deployment of a start goes on with it or rolls it back; a registration is none.
LEMMA DeployProgresses ==
    ASSUME IndInv, Progress, NEW t \in Threads, DeployStep(t)
    PROVE  Progress'
<1>1. pc[t] \in DeploySteps /\ UNCHANGED <<pstate, generation, serveExit>>
      /\ \A u \in Threads : u # t => UNCHANGED <<pc[u], op[u], tgen[u]>>
  BY DEF DeployStep, Install, InstallFail, CommitStale, CommitUntracked, CommitUnhealthy,
     CommitStart, CommitRegister, Commit, Raise
<1>2. \/ op[t] = "register" /\ pc'[t] \notin ServeSteps
      \/ pc'[t] \in OnwardSteps /\ UNCHANGED <<op[t], tgen[t]>>
  BY <1>1 DEF DeployStep, Install, InstallFail, CommitStale, CommitUntracked, CommitUnhealthy,
     CommitStart, CommitRegister, Raise
<1>. QED  BY <1>1, <1>2, ProgressStands DEF Current

\* A registration is no start and no shutdown.
LEMMA RegisterProgresses ==
    ASSUME IndInv, Progress, NEW t \in Threads, RegisterStep(t)
    PROVE  Progress'
<1>1. pc[t] \in RegisterSteps /\ UNCHANGED <<pstate, generation, serveExit>>
      /\ \A u \in Threads : u # t => UNCHANGED <<pc[u], op[u], tgen[u]>>
  BY DEF RegisterStep, RegisterAdmit, RegisterRefused, HostAddCheck, HostAddStore,
     RegisterInsert, RegisterDeploys, RegisterLocal, RegisterAbandon, RegisterUndo,
     RegisterUndoBound, RegisterUnbind, Forget
<1>2. pc'[t] \notin ServeSteps
  BY DEF RegisterStep, RegisterAdmit, RegisterRefused, HostAddCheck, HostAddStore,
     RegisterInsert, RegisterDeploys, RegisterLocal, RegisterAbandon, RegisterUndo,
     RegisterUndoBound, RegisterUnbind
<1>3. op[t] = "register"
  BY <1>1 DEF CallMatchesStep
<1>. QED  BY <1>1, <1>2, <1>3, ProgressStands

\* A rollback of the running start goes ahead, and a shutdown stays with its thread until
\* it has settled.
LEMMA ShutdownStepProgresses ==
    ASSUME IndInv, Progress, NEW t \in Threads, ShutdownStep(t)
    PROVE  Progress'
<1>1. CASE RollbackEnter(t) \/ ServeLeave(t)
  BY <1>1, ShutdownProgresses DEF RollbackEnter, ServeLeave
<1>2. CASE RollbackSkipped(t) \/ ServeLeaveSkipped(t)
  <2>1. /\ UNCHANGED <<pstate, generation, serveExit>> /\ pc[t] \notin ShutdownSteps
        /\ pc'[t] = "idle"
        /\ \A u \in Threads : u # t => UNCHANGED <<pc[u], op[u], tgen[u]>>
    BY <1>2 DEF RollbackSkipped, ServeLeaveSkipped
  <2>2. Starting(t, OnwardSteps) => pstate # "STARTING"
    BY <1>2 DEF RollbackSkipped, ServeLeaveSkipped, RollbackExpected, Current
  <2>. QED  BY <2>1, <2>2, ProgressStands
<1>3. CASE \/ HaltWorker(t) \/ HaltNoWorker(t) \/ JoinWorker(t) \/ JoinTimeout(t)
           \/ Revoke(t) \/ RevokeDone(t) \/ HostStop(t) \/ Release(t)
  <2>1. /\ UNCHANGED <<pstate, generation, serveExit>>
        /\ \A u \in Threads : u # t => UNCHANGED <<pc[u], op[u], tgen[u]>>
    BY <1>3 DEF HaltWorker, HaltNoWorker, JoinWorker, JoinTimeout, Revoke, RevokeDone,
       HostStop, Release
  <2>2. pc[t] \in ShutdownSteps /\ pc'[t] \in ShutdownSteps
    BY <1>3 DEF HaltWorker, HaltNoWorker, JoinWorker, JoinTimeout, Revoke, RevokeDone,
       HostStop, Release
  <2>. QED  BY <2>1, <2>2, ProgressStands
<1>4. CASE Settle(t)
  <2>1. /\ pstate = "STOPPING" /\ pstate' = "STOPPED" /\ UNCHANGED <<generation, serveExit>>
        /\ pc'[t] = "idle" /\ \A u \in Threads : u # t => pc'[u] = pc[u]
    BY <1>4 DEF Settle, OneShutdown
  <2>. QED  BY <2>1 DEF Progress, NeverStranded, EventFollowsState
<1>. QED  BY <1>1, <1>2, <1>3, <1>4 DEF ShutdownStep

\* A failure wakes up whoever sleeps in serve().
LEMMA WorkerProgresses ==
    ASSUME IndInv, Progress, NEW g \in Gens, WorkerStep(g)
    PROVE  Progress'
<1>1. CASE BindingLeaseFailed(g) /\ FailureIsCurrent(g)
  <2>1. /\ pstate' = "FAILED" /\ serveExit' /\ generation' = generation
        /\ \A u \in Threads : pc'[u] # "serving" /\ (pc'[u] \in ServeSteps => pc[u] \in ServeSteps)
    BY <1>1 DEF BindingLeaseFailed, Released
  <2>. QED  BY <2>1 DEF Progress, NeverStranded, EventFollowsState
<1>2. CASE BindingLeaseFailed(g) /\ ~FailureIsCurrent(g)
  BY <1>2, ProgressIdles DEF BindingLeaseFailed
<1>3. CASE WorkerDue(g) \/ WorkerStopped(g) \/ RenewOk(g) \/ RenewFail(g) \/ WorkerHostStop(g)
  BY <1>3, ProgressIdles DEF WorkerDue, WorkerStopped, RenewOk, RenewFail, WorkerHostStop
<1>. QED  BY <1>1, <1>2, <1>3 DEF WorkerStep

\* Every start and every shutdown under way has a thread that ends it, and the event of
\* serve() agrees with the state.
THEOREM ProgressInvariance == Spec => []Progress
<1>1. Init => Progress
  BY DEF Init, Progress, NeverStranded, EventFollowsState
<1>2. IndInv /\ Progress /\ [Next]_vars => Progress'
  <2> SUFFICES ASSUME IndInv, Progress, [Next]_vars PROVE Progress'
    OBVIOUS
  <2>1. ASSUME NEW t \in Threads, Call(t) \/ Continue(t) PROVE Progress'
    BY <2>1, CallProgresses, StartProgresses, DeployProgresses, RegisterProgresses,
       ShutdownStepProgresses DEF Continue
  <2>2. ASSUME NEW a \in Acts, Expire(a) PROVE Progress'
    BY <2>2, ProgressIdles DEF Expire
  <2>3. CASE UNCHANGED vars
    BY <2>3, ProgressIdles DEF vars
  <2>. QED  BY <2>1, <2>2, <2>3, WorkerProgresses DEF Next
<1>. QED  BY <1>1, <1>2, Invariance, PTL DEF Spec

\* A provider is never stranded in STARTING or STOPPING (NeverStranded), whichever step of
\* a start or a shutdown fails and whoever overtakes it.
THEOREM NobodyStrands == Spec => []NeverStranded
<1>1. Progress => NeverStranded
  BY DEF Progress
<1>. QED  BY <1>1, ProgressInvariance, PTL

\* serve() never sleeps on a provider that has failed or stopped (NoLostWakeup).
THEOREM WakeupsArrive == Spec => []NoLostWakeup
<1>1. IndInv /\ Progress => NoLostWakeup
  BY DEF Progress, EventFollowsState, NoLostWakeup, ProviderStates
<1>. QED  BY <1>1, Invariance, ProgressInvariance, PTL
=============================================================================
