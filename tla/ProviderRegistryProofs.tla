----------------------- MODULE ProviderRegistryProofs -----------------------
(***************************************************************************)
(* What the registry, the host, the Runtime and the lease workers of a     *)
(* provider know of an ability, for every set of threads, names and        *)
(* bounds, as long as no two threads register the same name: what is       *)
(* registered is hosted, what is revoked is not renewed, and a shutdown    *)
(* that reports no failure has revoked what its worker renewed.            *)
(***************************************************************************)
EXTENDS ProviderServingProofs

USE ThreadsAssumption, BoundsAssumption DEF Gens, Acts, None
USE DEF shared, nodeVars, hostVars, registryVars, workerVars, runtimeVars,
        threadVars, locals
USE DEF StartSteps, RegisterSteps, ShutdownSteps, DeploySteps, AfterJoin,
        StartCalls, Running
USE DEF IndInv, TypeOK, NodeTypeOK, WorkerTypeOK, RuntimeTypeOK,
        ControlTypeOK, LocalsTypeOK, Control
USE DEF Goto, Return, DropLocals

-----------------------------------------------------------------------------
(* What is hosted.  From here on no name has two registrars. *)

USE DEF Current, AddSteps, Registering, Starting, ClaimHolds

\* Steps of a thread that have no claim on the registry.
LooseSteps ==
    {"idle", "rollback", "connect", "attach", "discard", "snapshot", "await", "serving",
     "leave", "halt", "join", "hoststop", "release", "settle", "unbind"}

\* A thread ends its call, lets go of the registry, or stays where it is.
CallersStand ==
    \A u \in Threads :
        \/ /\ op'[u] # "register" /\ pc'[u] \in LooseSteps
           /\ op'[u] \in StartCalls => tgen'[u] = 0
        \/ /\ UNCHANGED <<op[u], tgen[u], tname[u]>>
           /\ \/ pc'[u] \in LooseSteps
              \/ pc'[u] = pc[u] /\ todo'[u] \subseteq todo[u]

\* A step that leaves the registry and the host alone keeps Hosting.
LEMMA HostingStands ==
    ASSUME Hosting, CallersStand, UNCHANGED <<pstate, generation, registered, hosted>>
    PROVE  Hosting'
<1>1. StartersApart'
  BY DEF CallersStand, Hosting, StartersApart
<1>2. RegistryHosted'
  BY DEF CallersStand, LooseSteps, Hosting, RegistryHosted
<1>. QED  BY <1>1, <1>2 DEF Hosting

\* Two threads that register work on different names.
LEMMA NamesApart ==
    ASSUME OneRegistrar, Hosting, NEW t \in Threads, NEW u \in Threads, t # u,
           op[t] = "register", op[u] = "register"
    PROVE  tname[t] # tname[u]
BY DEF OneRegistrar, Hosting, RegistryHosted

\* While a registration of this generation is in flight, no start of this
\* generation deploys, and nothing is revoked.
LEMMA RegistersAlone ==
    ASSUME IndInv, StartersApart, NEW t \in Threads, op[t] = "register", tgen[t] = generation,
           NEW u \in Threads
    PROVE  /\ ~Starting(u, {"snapshot", "deploy"} \cup DeploySteps)
           /\ pc[u] \notin ShutdownSteps
<1>1. pstate # "STOPPING"
  BY DEF GenerationFence
<1>2. CASE Starting(u, {"snapshot", "deploy"} \cup DeploySteps)
  <2>1. generation # 0
    BY <1>2 DEF GenerationFence, GenerationBounds
  <2>. QED  BY <1>2, <2>1 DEF StartersApart
<1>. QED  BY <1>1, <1>2 DEF OneShutdown

\* A new call keeps Hosting.
LEMMA CallHosts ==
    ASSUME IndInv, IndInv', Hosting, NEW t \in Threads, Call(t)
    PROVE  Hosting'
<1>1. \A u \in Threads : tgen[u] <= generation /\ generation \in 0..MaxGen /\ tgen[u] \in 0..MaxGen
  BY DEF GenerationBounds
<1>2. CASE StartEnter(t) \/ ServeEnter(t)
  <2>1. /\ pstate' = "STARTING" /\ generation' = generation + 1
        /\ pc' = [pc EXCEPT ![t] = "connect"] /\ UNCHANGED <<registered, hosted, tname, todo>>
        /\ tgen' = [tgen EXCEPT ![t] = generation + 1]
        /\ \E call \in StartCalls : op' = [op EXCEPT ![t] = call]
    BY <1>2 DEF StartEnter, ServeEnter, BeginStart
  <2>2. StartersApart'
    BY <1>1, <2>1 DEF Hosting, StartersApart
  <2>3. RegistryHosted'
    BY <1>1, <2>1 DEF Hosting, RegistryHosted
  <2>. QED  BY <2>2, <2>3 DEF Hosting
<1>3. CASE StopEnter(t)
  <2>1. /\ pstate' = "STOPPING" /\ generation' = generation + 1
        /\ UNCHANGED <<registered, hosted, tname, todo, tgen>>
        /\ op' = [op EXCEPT ![t] = "stop"]
        /\ pc' = [Released EXCEPT ![t] = "halt"]
    BY <1>3 DEF StopEnter, BeginShutdown
  <2>2. \A u \in Threads : \/ pc'[u] = pc[u] /\ u # t
                           \/ pc'[u] \in {"halt", "leave"}
    BY <2>1 DEF Released
  <2>3. StartersApart'
    BY <1>1, <2>1 DEF Hosting, StartersApart
  <2>4. \A u \in Threads : ~Starting(u, {"deploy"} \cup DeploySteps)'
    BY <1>1, <2>1
  <2>5. RegistryHosted'
    BY <2>1, <2>2, <2>4 DEF Hosting, RegistryHosted
  <2>. QED  BY <2>3, <2>5 DEF Hosting
<1>4. CASE ServeActive(t) \/ ServeInterrupt(t)
  <2>1. UNCHANGED <<pstate, generation, registered, hosted>>
    BY <1>4 DEF ServeActive, ServeInterrupt
  <2>2. ASSUME ServeActive(t) PROVE CallersStand
    <3>1. tgen'[t] = 0 /\ op' = [op EXCEPT ![t] = "serve"] /\ pc' = [pc EXCEPT ![t] = "await"]
          /\ UNCHANGED locals
      BY <2>2 DEF ServeActive, CallMatchesStep
    <3>. QED  BY <3>1 DEF CallersStand, LooseSteps
  <2>3. ASSUME ServeInterrupt(t) PROVE CallersStand
    BY <2>3 DEF ServeInterrupt, CallersStand, LooseSteps
  <2>. QED  BY <1>4, <2>1, <2>2, <2>3, HostingStands
<1>5. ASSUME NEW n \in Names, RegisterEnter(t, n) PROVE Hosting'
  <2>1. /\ n \in Registers[t] /\ pc[t] = "idle" /\ n \notin registered /\ tgen[t] = 0
        /\ op' = [op EXCEPT ![t] = "register"] /\ tname' = [tname EXCEPT ![t] = n]
        /\ pc' = [pc EXCEPT ![t] = "admit"] /\ UNCHANGED <<shared, tgen, todo>>
    BY <1>5 DEF RegisterEnter, CallMatchesStep
  <2>2. StartersApart'
    BY <2>1 DEF Hosting, StartersApart
  <2>3. RegistryHosted'
    BY <2>1 DEF Hosting, RegistryHosted
  <2>. QED  BY <2>2, <2>3 DEF Hosting
<1>. QED  BY <1>2, <1>3, <1>4, <1>5 DEF Call

\* A start takes what it deploys from the registry.
LEMMA StartStepHosts ==
    ASSUME IndInv, IndInv', Hosting, NEW t \in Threads, StartStep(t)
    PROVE  Hosting'
<1>1. CASE SnapshotRegistry(t)
  <2>1. /\ UNCHANGED <<shared, tgen, op, tname>> /\ pc[t] = "snapshot"
        /\ pc' = [pc EXCEPT ![t] = "deploy"]
        /\ todo' = [todo EXCEPT ![t] = RegistrySnapshot]
    BY <1>1 DEF SnapshotRegistry
  <2>2. op[t] \in StartCalls /\ \A i \in RegistrySnapshot : i[1] \in registered
    BY <2>1 DEF CallMatchesStep, RegistrySnapshot
  <2>3. StartersApart'
    BY <2>1 DEF Hosting, StartersApart
  <2>4. RegistryHosted'
    BY <2>1, <2>2 DEF Hosting, RegistryHosted
  <2>. QED  BY <2>3, <2>4 DEF Hosting
<1>2. CASE DeployNext(t)
  <2>1. /\ UNCHANGED <<shared, tgen, op>> /\ pc[t] = "deploy" /\ op[t] \in StartCalls
        /\ \E step \in {"install", "rollback"} : pc' = [pc EXCEPT ![t] = step]
    BY <1>2 DEF DeployNext, CallMatchesStep
  <2>2. PICK item \in todo[t] : /\ todo' = [todo EXCEPT ![t] = @ \ {item}]
                                /\ tname' = [tname EXCEPT ![t] = item[1]]
    BY <1>2 DEF DeployNext
  <2>3. StartersApart'
    BY <2>1 DEF Hosting, StartersApart
  <2>4. RegistryHosted'
    BY <2>1, <2>2 DEF Hosting, RegistryHosted
  <2>. QED  BY <2>3, <2>4 DEF Hosting
<1>3. CASE StartFinish(t) \/ ServeStarted(t)
  <2>1. /\ StartComplete(t) /\ pc[t] = "deploy" /\ tgen[t] = generation
        /\ pstate' = "ACTIVE" /\ tgen' = [tgen EXCEPT ![t] = 0] /\ op[t] \in StartCalls
        /\ UNCHANGED <<generation, registered, hosted>>
        /\ \E step \in {"idle", "await"} : pc' = [pc EXCEPT ![t] = step]
        /\ \E call \in {op[t], "none"} : op' = [op EXCEPT ![t] = call]
        /\ tname' = [tname EXCEPT ![t] = NoName] /\ todo' = [todo EXCEPT ![t] = {}]
    BY <1>3 DEF StartFinish, ServeStarted, StartComplete, RequireGeneration, CallMatchesStep
  <2>2. generation # 0
    BY <2>1, StartFinishFacts DEF StartComplete
  <2>3. \A u \in Threads : u # t /\ op[u] \in StartCalls => tgen[u] # generation
    BY <2>1, <2>2 DEF OneStarter
  <2>4. StartersApart'
    BY <2>1, <2>3 DEF Hosting, StartersApart
  <2>5. RegistryHosted'
    BY <2>1 DEF Hosting, RegistryHosted
  <2>. QED  BY <2>4, <2>5 DEF Hosting
<1>4. CASE \/ ConnectOk(t) \/ ConnectFail(t) \/ AttachOk(t) \/ AttachHostFails(t)
           \/ AttachStale(t) \/ Discard(t) \/ StartRefused(t) \/ ServeWait(t)
  <2>1. /\ UNCHANGED <<pstate, generation, registered, hosted, op, locals>>
        /\ \E step \in {"attach", "discard", "snapshot", "rollback", "leave", "serving"} :
              pc' = [pc EXCEPT ![t] = step]
    BY <1>4 DEF ConnectOk, ConnectFail, AttachOk, AttachHostFails, AttachStale, Discard,
                StartRefused, ServeWait
  <2>2. CallersStand
    BY <2>1 DEF CallersStand, LooseSteps
  <2>. QED  BY <2>1, <2>2, HostingStands
<1>. QED  BY <1>1, <1>2, <1>3, <1>4 DEF StartStep

\* A deployment of this generation commits a name that is in the registry.
LEMMA CommitKeepsRegistry ==
    ASSUME IndInv, Hosting, NEW t \in Threads, pc[t] = "commit", tgen[t] = generation
    PROVE  registered \cup {tname[t]} = registered
BY DEF CallMatchesStep, Hosting, RegistryHosted

\* A step of a deployment keeps Hosting.
LEMMA DeployStepHosts ==
    ASSUME IndInv, IndInv', Hosting, NEW t \in Threads, DeployStep(t)
    PROVE  Hosting'
<1>1. UNCHANGED <<pstate, generation, hosted>> /\ pc[t] \in DeploySteps
  BY DEF DeployStep, Install, InstallFail, CommitStale, CommitUntracked, CommitUnhealthy,
         CommitStart, CommitRegister, Commit
<1>2. registered' = registered
  BY CommitKeepsRegistry
     DEF DeployStep, Install, InstallFail, CommitStale, CommitUntracked, CommitUnhealthy,
         CommitStart, CommitRegister, Commit, RequireGeneration
<1>3. CASE CommitRegister(t)
  <2>1. CallersStand
    BY <1>3 DEF CommitRegister, CallersStand, LooseSteps
  <2>. QED  BY <1>1, <1>2, <2>1, HostingStands
<1>4. CASE ~CommitRegister(t)
  <2>1. /\ UNCHANGED <<op, tgen, todo>>
        /\ \A u \in Threads : u # t => tname'[u] = tname[u]
        /\ \/ UNCHANGED tname /\ pc[t] = "install" /\ pc' = [pc EXCEPT ![t] = "commit"]
           \/ op[t] = "register" /\ UNCHANGED tname /\ pc' = [pc EXCEPT ![t] = "undo"]
           \/ op[t] # "register" /\ pc' = [pc EXCEPT ![t] = "rollback"]
           \/ op[t] # "register" /\ pc' = [pc EXCEPT ![t] = "deploy"]
    BY <1>4 DEF DeployStep, Install, InstallFail, CommitStale, CommitUntracked, CommitUnhealthy,
                CommitStart, Commit, Raise
  <2>2. StartersApart'
    BY <1>1, <2>1 DEF Hosting, StartersApart
  <2>3. ClaimHolds(t)'
    BY <1>1, <1>2, <2>1 DEF Hosting, RegistryHosted
  <2>4. ASSUME NEW u \in Threads, u # t PROVE ClaimHolds(u)'
    <3>1. ClaimHolds(u)
      BY DEF Hosting, RegistryHosted
    <3>2. /\ pc'[u] = pc[u] /\ op'[u] = op[u] /\ tgen'[u] = tgen[u]
          /\ tname'[u] = tname[u] /\ todo'[u] = todo[u]
      BY <2>1, <2>4
    <3>. QED  BY <1>1, <1>2, <3>1, <3>2
  <2>5. RegistryHosted'
    BY <1>1, <1>2, <2>3, <2>4 DEF Hosting, RegistryHosted
  <2>. QED  BY <2>2, <2>5 DEF Hosting
<1>. QED  BY <1>3, <1>4

\* A registration keeps Hosting: its name is nobody else's.
LEMMA RegisterStepHosts ==
    ASSUME OneRegistrar, IndInv, IndInv', Hosting, NEW t \in Threads, RegisterStep(t)
    PROVE  Hosting'
<1>1. UNCHANGED <<pstate, generation>> /\ op[t] = "register"
  BY DEF RegisterStep, RegisterAdmit, RegisterRefused, HostAddCheck, HostAddStore,
         RegisterInsert, RegisterDeploys, RegisterLocal, RegisterAbandon, RegisterUndo,
         RegisterUndoBound, RegisterUnbind, CallMatchesStep
<1>2. \A u \in Threads : u # t /\ op[u] = "register" => tname[u] # tname[t]
  BY <1>1, NamesApart
<1>3. CASE RegisterAdmit(t)
  <2>1. /\ pstate \in {"STOPPED", "ACTIVE"} /\ pc[t] = "admit" /\ pc' = [pc EXCEPT ![t] = "add"]
        /\ tgen' = [tgen EXCEPT ![t] = generation]
        /\ UNCHANGED <<registered, hosted, op, tname, todo>>
    BY <1>3 DEF RegisterAdmit
  <2>2. StartersApart'
    BY <1>1, <2>1 DEF Hosting, StartersApart
  <2>3. RegistryHosted'
    BY <1>1, <2>1 DEF Hosting, RegistryHosted
  <2>. QED  BY <2>2, <2>3 DEF Hosting
<1>4. CASE HostAddStore(t)
  <2>1. /\ pc[t] = "put" /\ pc' = [pc EXCEPT ![t] = "insert"]
        /\ hosted' = hosted \cup {tname[t]}
        /\ UNCHANGED <<registered, op, locals>>
    BY <1>4 DEF HostAddStore
  <2>2. StartersApart'
    BY <1>1, <2>1 DEF Hosting, StartersApart
  <2>3. RegistryHosted'
    BY <1>1, <2>1 DEF Hosting, RegistryHosted
  <2>. QED  BY <2>2, <2>3 DEF Hosting
<1>5. CASE RegisterInsert(t)
  <2>1. /\ pc[t] = "insert" /\ pc' = [pc EXCEPT ![t] = "branch"]
        /\ registered' = registered \cup {tname[t]}
        /\ UNCHANGED <<hosted, op, locals>>
    BY <1>5 DEF RegisterInsert
  <2>2. StartersApart'
    BY <1>1, <2>1 DEF Hosting, StartersApart
  <2>3. RegistryHosted'
    BY <1>1, <1>2, <2>1 DEF Hosting, RegistryHosted
  <2>. QED  BY <2>2, <2>3 DEF Hosting
<1>6. CASE RegisterUndo(t) \/ RegisterUndoBound(t)
  <2>1. /\ pc[t] = "undo" /\ tgen[t] = generation
        /\ registered' = registered \ {tname[t]} /\ hosted' = hosted \ {tname[t]}
        /\ pc'[t] \in {"idle", "unbind"}
        /\ op'[t] \in {"register", "none"}
        /\ op'[t] = "register" => tname'[t] = tname[t] /\ tgen'[t] = tgen[t]
        /\ \A u \in Threads : u # t =>
             /\ pc'[u] = pc[u] /\ op'[u] = op[u] /\ tgen'[u] = tgen[u]
             /\ tname'[u] = tname[u] /\ todo'[u] = todo[u]
    BY <1>1, <1>6 DEF RegisterUndo, RegisterUndoBound, Forget
  <2>2. \A u \in Threads : /\ ~Starting(u, {"deploy"} \cup DeploySteps)
                           /\ pc[u] # "revoke"
    BY <1>1, <2>1, RegistersAlone DEF Hosting
  <2>3. StartersApart'
    <3>1. \A u \in Threads : op'[u] = "register" => op[u] = "register" /\ tgen'[u] = tgen[u]
      BY <1>1, <2>1
    <3>2. \A u \in Threads : op'[u] \in StartCalls => op'[u] = op[u] /\ tgen'[u] = tgen[u]
      BY <2>1
    <3>. QED  BY <1>1, <3>1, <3>2 DEF Hosting, StartersApart
  <2>4. ClaimHolds(t)'
    BY <1>1, <2>1 DEF Hosting, RegistryHosted
  <2>5. ASSUME NEW u \in Threads, u # t PROVE ClaimHolds(u)'
    <3>1. op[u] = "register" => tname[u] # tname[t]
      BY <1>2, <2>5
    <3>2. pc[u] = "insert" => op[u] = "register"
      BY DEF CallMatchesStep
    <3>. QED  BY <1>1, <2>1, <2>2, <2>5, <3>1, <3>2 DEF Hosting, RegistryHosted
  <2>6. RegistryHosted'
    BY <2>1, <2>4, <2>5 DEF Hosting, RegistryHosted
  <2>. QED  BY <2>3, <2>6 DEF Hosting
<1>7. CASE RegisterDeploys(t) \/ (HostAddCheck(t) /\ pc'[t] # "idle")
  <2>1. /\ UNCHANGED <<shared, op, locals>>
        /\ \/ pc[t] = "branch" /\ pc' = [pc EXCEPT ![t] = "install"]
           \/ pc[t] = "add" /\ pc' = [pc EXCEPT ![t] = "put"]
    BY <1>7 DEF RegisterDeploys, HostAddCheck
  <2>2. StartersApart'
    BY <2>1 DEF Hosting, StartersApart
  <2>3. ClaimHolds(t)'
    BY <1>1, <2>1 DEF Hosting, RegistryHosted
  <2>4. \A u \in Threads : u # t => ClaimHolds(u)'
    BY <2>1 DEF Hosting, RegistryHosted
  <2>5. RegistryHosted'
    BY <2>1, <2>3, <2>4 DEF Hosting, RegistryHosted
  <2>. QED  BY <2>2, <2>5 DEF Hosting
<1>8. CASE \/ RegisterRefused(t) \/ RegisterLocal(t) \/ RegisterAbandon(t) \/ RegisterUnbind(t)
           \/ (HostAddCheck(t) /\ pc'[t] = "idle")
  <2>1. Return(t) /\ UNCHANGED <<registered, hosted>>
    BY <1>8 DEF RegisterRefused, RegisterLocal, RegisterAbandon, RegisterUnbind, HostAddCheck
  <2>2. CallersStand
    BY <2>1 DEF CallersStand, LooseSteps
  <2>3. UNCHANGED <<pstate, generation, registered, hosted>>
    BY <1>1, <2>1
  <2>. QED  BY <2>2, <2>3, HostingStands
<1>. QED  BY <1>3, <1>4, <1>5, <1>6, <1>7, <1>8 DEF RegisterStep

\* A shutdown revokes what is in the registry, and leaves it there.
LEMMA ShutdownStepHosts ==
    ASSUME IndInv, IndInv', Hosting, NEW t \in Threads, ShutdownStep(t)
    PROVE  Hosting'
<1>1. CASE RollbackEnter(t) \/ ServeLeave(t)
  <2>1. \A u \in Threads : tgen[u] <= generation /\ generation \in 0..MaxGen /\ tgen[u] \in 0..MaxGen
    BY DEF GenerationBounds
  <2>2. /\ pstate' = "STOPPING" /\ generation' = generation + 1
        /\ UNCHANGED <<registered, hosted, tname, todo, tgen, op>>
        /\ pc' = [Released EXCEPT ![t] = "halt"]
    BY <1>1 DEF RollbackEnter, ServeLeave, BeginShutdown
  <2>3. \A u \in Threads : \/ pc'[u] = pc[u] /\ u # t
                           \/ pc'[u] \in {"halt", "leave"}
    BY <2>2 DEF Released
  <2>4. StartersApart'
    BY <2>1, <2>2 DEF Hosting, StartersApart
  <2>5. \A u \in Threads : ~Starting(u, {"deploy"} \cup DeploySteps)'
    BY <2>1, <2>2
  <2>6. RegistryHosted'
    BY <2>2, <2>3, <2>5 DEF Hosting, RegistryHosted
  <2>. QED  BY <2>4, <2>6 DEF Hosting
<1>2. CASE RollbackSkipped(t) \/ ServeLeaveSkipped(t)
  <2>1. Return(t) /\ UNCHANGED shared
    BY <1>2 DEF RollbackSkipped, ServeLeaveSkipped
  <2>2. CallersStand
    BY <2>1 DEF CallersStand, LooseSteps
  <2>. QED  BY <2>1, <2>2, HostingStands
<1>3. CASE HaltNoWorker(t) \/ JoinWorker(t)
  <2>1. /\ UNCHANGED <<shared, op, tgen, tname>> /\ pc[t] \in {"halt", "join"}
        /\ todo' = [todo EXCEPT ![t] = RegistrySnapshot]
        /\ pc' = [pc EXCEPT ![t] = "revoke"]
    BY <1>3 DEF HaltNoWorker, JoinWorker
  <2>2. \A i \in RegistrySnapshot : i[1] \in registered
    BY DEF RegistrySnapshot
  <2>3. StartersApart'
    BY <2>1 DEF Hosting, StartersApart
  <2>4. RegistryHosted'
    BY <2>1, <2>2 DEF Hosting, RegistryHosted
  <2>. QED  BY <2>3, <2>4 DEF Hosting
<1>4. CASE Revoke(t)
  <2>1. pc[t] = "revoke" /\ UNCHANGED <<nodeVars, hosted, pc, op, tgen, tname>>
    BY <1>4 DEF Revoke
  <2>2. PICK item \in todo[t] : /\ todo' = [todo EXCEPT ![t] = @ \ {item}]
                                /\ registered' = registered \cup {item[1]}
    BY <1>4 DEF Revoke
  <2>3. item[1] \in registered
    BY <2>1, <2>2 DEF Hosting, RegistryHosted
  <2>4. registered' = registered
    BY <2>2, <2>3
  <2>5. CallersStand
    BY <2>1, <2>2 DEF CallersStand
  <2>. QED  BY <2>1, <2>4, <2>5, HostingStands
<1>5. CASE Settle(t)
  <2>1. /\ pstate = "STOPPING" /\ pstate' = "STOPPED" /\ Return(t)
        /\ UNCHANGED <<generation, registered, hosted>>
    BY <1>5 DEF Settle, OneShutdown
  <2>2. \A u \in Threads : tgen[u] # generation
    BY <2>1 DEF GenerationFence
  <2>3. StartersApart'
    BY <2>1, <2>2 DEF Hosting, StartersApart
  <2>4. RegistryHosted'
    BY <2>1 DEF Hosting, RegistryHosted
  <2>. QED  BY <2>3, <2>4 DEF Hosting
<1>6. CASE \/ HaltWorker(t) \/ JoinTimeout(t) \/ RevokeDone(t) \/ HostStop(t) \/ Release(t)
  <2>1. /\ UNCHANGED <<pstate, generation, registered, hosted, op, tgen, tname>>
        /\ \E step \in {"join", "hoststop", "release", "settle"} : pc' = [pc EXCEPT ![t] = step]
        /\ UNCHANGED todo
    BY <1>6 DEF HaltWorker, JoinTimeout, RevokeDone, HostStop, Release
  <2>2. CallersStand
    BY <2>1 DEF CallersStand, LooseSteps
  <2>. QED  BY <2>1, <2>2, HostingStands
<1>. QED  BY <1>1, <1>2, <1>3, <1>4, <1>5, <1>6 DEF ShutdownStep

\* A lease worker leaves the registry alone.
LEMMA WorkerStepHosts ==
    ASSUME IndInv, Hosting, NEW g \in Gens, WorkerStep(g)
    PROVE  Hosting'
<1>1. /\ UNCHANGED <<generation, registered, hosted, op, locals>>
      /\ pstate' \in {pstate, "FAILED"}
      /\ \A u \in Threads : pc'[u] = pc[u] \/ pc'[u] = "leave"
  BY DEF WorkerStep, WorkerDue, WorkerStopped, RenewOk, RenewFail, BindingLeaseFailed,
         WorkerHostStop, Released
<1>2. StartersApart'
  BY <1>1 DEF Hosting, StartersApart
<1>3. RegistryHosted'
  BY <1>1 DEF Hosting, RegistryHosted
<1>. QED  BY <1>2, <1>3 DEF Hosting

\* Every step keeps Hosting.
LEMMA HostingNext == OneRegistrar /\ IndInv /\ Hosting /\ [Next]_vars => Hosting'
<1> SUFFICES ASSUME OneRegistrar, IndInv, Hosting, [Next]_vars PROVE Hosting'
  OBVIOUS
<1>1. IndInv'
  BY NextInv
<1>2. ASSUME NEW t \in Threads, Call(t) \/ Continue(t) PROVE Hosting'
  BY <1>1, <1>2, CallHosts, StartStepHosts, DeployStepHosts, RegisterStepHosts,
     ShutdownStepHosts DEF Continue
<1>3. ASSUME NEW a \in Acts, Expire(a) PROVE Hosting'
  BY <1>3, HostingStands DEF Expire, CallersStand
<1>4. CASE UNCHANGED vars
  BY <1>4, HostingStands DEF vars, CallersStand
<1>. QED  BY <1>2, <1>3, <1>4, WorkerStepHosts DEF Next

\* Every ability in the registry is on the host (RegisteredIsHosted).
THEOREM RegistryStaysHosted == OneRegistrar => (Spec => []RegisteredIsHosted)
<1> SUFFICES ASSUME OneRegistrar PROVE Spec => []RegisteredIsHosted
  OBVIOUS
<1>1. Init => Hosting
  BY DEF Init, Hosting, StartersApart, RegistryHosted
<1>2. Hosting => RegisteredIsHosted
  BY DEF Hosting, RegistryHosted, RegisteredIsHosted
<1>3. IndInv /\ Hosting /\ [Next]_vars => Hosting'
  BY HostingNext
<1>. QED  BY <1>1, <1>2, <1>3, InitInv, NextInv, PTL DEF Spec

-----------------------------------------------------------------------------
(* What is revoked is not renewed *)

USE DEF Fresh, RevokesUntracked, NotRenewed

\* A step that hands out no activation and records none keeps them fresh.
LEMMA FreshStands ==
    ASSUME IndInv, ActivationsFresh, UNCHANGED <<nact, members>>, live' \subseteq live,
           \A n \in Names : install'[n] \in {None, install[n]},
           \A g \in Gens : \A a \in batch'[g] : a \in batch[g] \/ \E n \in Names : a = members[g][n],
           \A u \in Threads : pc'[u] \in {"commit", "unbind"} =>
               \/ pc'[u] = pc[u] /\ act'[u] = act[u]
               \/ /\ pc'[u] = "unbind"
                  /\ \E n \in Names : act'[u] = install[n] /\ install[n] # None
    PROVE  ActivationsFresh'
<1>1. \A u \in Threads : pc[u] = "commit" => act[u] \in 1..nact
  BY DEF ActivationsFenced
<1>2. live' \subseteq 1..nact' /\ \A n \in Names : install'[n] \in 0..nact'
  <2>1. live' \subseteq 1..nact'
    BY DEF ActivationsFresh
  <2>2. ASSUME NEW n \in Names PROVE install'[n] \in 0..nact'
    <3>1. install'[n] \in {None, install[n]} /\ install[n] \in 0..nact /\ nact \in Nat /\ nact' = nact
      BY DEF ActivationsFresh
    <3>. QED  BY <3>1
  <2>. QED  BY <2>1, <2>2
<1>3. \A u \in Threads : pc'[u] = "unbind" => act'[u] \in 1..nact'
  BY DEF ActivationsFresh
<1>4. ASSUME NEW u \in Threads, pc'[u] = "commit" PROVE Fresh(u)'
  <2>1. pc[u] = "commit" /\ act'[u] = act[u] /\ act[u] # None
    BY <1>1, <1>4
  <2>2. \A v \in Threads : v # u /\ pc'[v] \in {"commit", "unbind"} => act'[v] # act'[u]
    BY <2>1 DEF ActivationsFresh
  <2>3. \A n \in Names : install'[n] # act'[u]
    BY <2>1 DEF ActivationsFresh
  <2>4. \A g \in Gens : act'[u] \notin batch'[g] /\ \A n \in Names : members'[g][n] # act'[u]
    BY <2>1 DEF ActivationsFresh
  <2>. QED  BY <2>2, <2>3, <2>4
<1>. QED  BY <1>2, <1>3, <1>4 DEF ActivationsFresh

\* A deployment keeps activations fresh: it gets a new one, and gives up the one
\* that it commits.
LEMMA DeployStepFresh ==
    ASSUME IndInv, ActivationsFresh, NEW t \in Threads, DeployStep(t)
    PROVE  ActivationsFresh'
<1>1. \A u \in Threads : pc[u] = "commit" => act[u] \in 1..nact
  BY DEF ActivationsFenced
<1>2. \A g \in Gens : /\ \A a \in batch[g] : a \in 1..nact
                      /\ \A n \in Names : members[g][n] \in 0..nact
  BY DEF ActivationsFenced
<1>3. CASE Install(t, TRUE)
  <2>1. /\ nact' = nact + 1 /\ live' = live \cup {nact + 1} /\ UNCHANGED <<install, members, batch>>
        /\ act' = [act EXCEPT ![t] = nact + 1] /\ pc' = [pc EXCEPT ![t] = "commit"]
    BY <1>3 DEF Install
  <2>2. live' \subseteq 1..nact' /\ \A n \in Names : install'[n] \in 0..nact'
    BY <2>1 DEF ActivationsFresh
  <2>3. \A u \in Threads : pc'[u] = "unbind" => act'[u] \in 1..nact'
    BY <2>1 DEF ActivationsFresh
  <2>4. ASSUME NEW u \in Threads, pc'[u] = "commit" PROVE Fresh(u)'
    <3>1. \A v \in Threads : v # t /\ pc[v] \in {"commit", "unbind"} => act[v] \in 1..nact
      BY <1>1 DEF ActivationsFresh
    <3>2. CASE u = t
      BY <1>2, <2>1, <3>1, <3>2 DEF ActivationsFresh
    <3>3. CASE u # t
      <4>1. pc[u] = "commit" /\ act'[u] = act[u] /\ act[u] # nact + 1 /\ Fresh(u)
        BY <1>1, <2>1, <2>4, <3>3 DEF ActivationsFresh
      <4>. QED  BY <2>1, <4>1
    <3>. QED  BY <3>2, <3>3
  <2>. QED  BY <2>2, <2>3, <2>4 DEF ActivationsFresh
<1>4. CASE Install(t, FALSE)
  <2>1. /\ nact' = nact + 1 /\ live' = live \cup {nact + 1} /\ UNCHANGED <<install, members, batch, act>>
        /\ \E step \in {"undo", "rollback"} : pc' = [pc EXCEPT ![t] = step]
    BY <1>4 DEF Install, Raise
  <2>2. live' \subseteq 1..nact' /\ \A n \in Names : install'[n] \in 0..nact'
    BY <2>1 DEF ActivationsFresh
  <2>3. \A u \in Threads : pc'[u] = "unbind" => act'[u] \in 1..nact'
    BY <2>1 DEF ActivationsFresh
  <2>4. \A u \in Threads : pc'[u] = "commit" => Fresh(u)'
    BY <2>1 DEF ActivationsFresh
  <2>. QED  BY <2>2, <2>3, <2>4 DEF ActivationsFresh
<1>5. CASE InstallFail(t) \/ CommitStale(t)
  <2>1. /\ UNCHANGED <<nact, members, live, install, batch, act>>
        /\ \E step \in {"undo", "rollback"} : pc' = [pc EXCEPT ![t] = step]
    BY <1>5 DEF InstallFail, CommitStale, Raise
  <2>. QED  BY <2>1, FreshStands
<1>6. CASE CommitUntracked(t) \/ CommitUnhealthy(t) \/ CommitStart(t) \/ CommitRegister(t)
  <2>1. /\ pc[t] = "commit" /\ UNCHANGED <<nact, live>> /\ tname[t] \in Names
        /\ install' = [install EXCEPT ![tname[t]] = act[t]]
        /\ \A u \in Threads : u # t => pc'[u] = pc[u] /\ act'[u] = act[u]
        /\ pc'[t] \in {"undo", "rollback", "deploy", "idle"}
    BY <1>6 DEF CommitUntracked, CommitUnhealthy, CommitStart, CommitRegister, Commit,
                Raise, CallMatchesStep, NameSteps
  <2>0. \/ UNCHANGED <<members, batch>>
        \/ /\ \E g \in Gens : members' = [members EXCEPT ![g][tname[t]] = act[t]]
           /\ \A g \in Gens : batch'[g] \subseteq batch[g]
    BY <1>6, CommitFacts
       DEF CommitUntracked, CommitUnhealthy, CommitStart, CommitRegister, Commit, Track
  <2>2. live' \subseteq 1..nact' /\ \A n \in Names : install'[n] \in 0..nact'
    BY <1>1, <2>1 DEF ActivationsFresh
  <2>3. \A u \in Threads : pc'[u] = "unbind" => act'[u] \in 1..nact'
    BY <2>1 DEF ActivationsFresh
  <2>4. ASSUME NEW u \in Threads, pc'[u] = "commit" PROVE Fresh(u)'
    <3>1. u # t /\ pc[u] = "commit" /\ act'[u] = act[u] /\ Fresh(u)
      BY <2>1, <2>4 DEF ActivationsFresh
    <3>2. act[u] # act[t]
      BY <2>1, <3>1
    <3>3. \A v \in Threads : v # u /\ pc'[v] \in {"commit", "unbind"} => act'[v] # act'[u]
      BY <2>1, <3>1
    <3>4. \A n \in Names : install'[n] # act'[u]
      BY <2>1, <3>1, <3>2
    <3>5. ASSUME NEW g \in Gens
          PROVE  act'[u] \notin batch'[g] /\ \A n \in Names : members'[g][n] # act'[u]
      <4>1. act'[u] \notin batch'[g]
        BY <2>0, <3>1
      <4>2. ASSUME NEW n \in Names PROVE members'[g][n] \in {members[g][n], act[t]}
        <5>1. CASE UNCHANGED members
          BY <5>1
        <5>2. ASSUME NEW h \in Gens, members' = [members EXCEPT ![h][tname[t]] = act[t]]
              PROVE  members'[g][n] \in {members[g][n], act[t]}
          BY <5>2
        <5>. QED  BY <2>0, <5>1, <5>2
      <4>. QED  BY <3>1, <3>2, <4>1, <4>2
    <3>. QED  BY <3>3, <3>4, <3>5
  <2>. QED  BY <2>2, <2>3, <2>4 DEF ActivationsFresh
<1>. QED  BY <1>3, <1>4, <1>5, <1>6 DEF DeployStep

\* Every step keeps activations fresh.
LEMMA FreshNext == IndInv /\ ActivationsFresh /\ [Next]_vars => ActivationsFresh'
<1> SUFFICES ASSUME IndInv, ActivationsFresh, [Next]_vars PROVE ActivationsFresh'
  OBVIOUS
<1>1. ASSUME NEW t \in Threads, Call(t) \/ StartStep(t) PROVE ActivationsFresh'
  <2>1. UNCHANGED <<nact, members, live, install, batch>>
    BY <1>1 DEF Call, StartEnter, ServeEnter, BeginStart, ServeActive, ServeInterrupt, StopEnter,
                BeginShutdown, RegisterEnter, StartStep, ConnectOk, ConnectFail, AttachOk,
                AttachHostFails, AttachStale, Discard, SnapshotRegistry, DeployNext, StartFinish,
                ServeStarted, StartComplete, StartRefused, ServeWait
  <2>2. /\ UNCHANGED act \/ act' = [act EXCEPT ![t] = None]
        /\ pc'[t] \notin {"commit", "unbind"}
        /\ \A u \in Threads : u # t => pc'[u] = pc[u] \/ pc'[u] = "leave"
    BY <1>1 DEF Call, StartEnter, ServeEnter, BeginStart, ServeActive, ServeInterrupt, StopEnter,
                BeginShutdown, Released, RegisterEnter, StartStep, ConnectOk, ConnectFail, AttachOk,
                AttachHostFails, AttachStale, Discard, SnapshotRegistry, DeployNext, StartFinish,
                ServeStarted, StartComplete, StartRefused, ServeWait
  <2>3. \A u \in Threads : pc'[u] \in {"commit", "unbind"} => pc'[u] = pc[u] /\ act'[u] = act[u]
    BY <2>2
  <2>. QED  BY <2>1, <2>3, FreshStands
<1>2. ASSUME NEW t \in Threads, RegisterStep(t) PROVE ActivationsFresh'
  <2>1. CASE RegisterUndoBound(t)
    <3>1. /\ UNCHANGED <<nact, members, live, batch>> /\ pc' = [pc EXCEPT ![t] = "unbind"]
          /\ install' = [install EXCEPT ![tname[t]] = None]
          /\ act' = [act EXCEPT ![t] = install[tname[t]]] /\ install[tname[t]] # None
          /\ pc[t] = "undo" /\ tname[t] \in Names
      BY <2>1 DEF RegisterUndoBound, Forget, CallMatchesStep, NameSteps
    <3>. QED  BY <3>1, FreshStands
  <2>2. CASE ~RegisterUndoBound(t)
    <3>1. /\ UNCHANGED <<nact, members, batch>> /\ live' \subseteq live
          /\ \A n \in Names : install'[n] \in {None, install[n]}
          /\ \A u \in Threads : pc'[u] \in {"commit", "unbind"} => pc'[u] = pc[u] /\ act'[u] = act[u]
      BY <1>2, <2>2
         DEF RegisterStep, RegisterAdmit, RegisterRefused, HostAddCheck, HostAddStore,
             RegisterInsert, RegisterDeploys, RegisterLocal, RegisterAbandon, RegisterUndo,
             RegisterUnbind, Forget
    <3>. QED  BY <3>1, FreshStands
  <2>. QED  BY <2>1, <2>2
<1>3. ASSUME NEW t \in Threads, ShutdownStep(t) PROVE ActivationsFresh'
  <2>1. /\ UNCHANGED <<nact, members, batch>> /\ live' \subseteq live
        /\ \A n \in Names : install'[n] \in {None, install[n]}
        /\ \A u \in Threads : pc'[u] \in {"commit", "unbind"} => pc'[u] = pc[u] /\ act'[u] = act[u]
    BY <1>3 DEF ShutdownStep, RollbackEnter, RollbackSkipped, ServeLeave, ServeLeaveSkipped,
                BeginShutdown, Released, HaltWorker, HaltNoWorker, JoinWorker, JoinTimeout, Revoke,
                RevokeDone, HostStop, Release, Settle
  <2>. QED  BY <2>1, FreshStands
<1>4. ASSUME NEW g \in Gens, WorkerStep(g) PROVE ActivationsFresh'
  <2>1. /\ UNCHANGED <<nact, members, live, install, act>>
        /\ \A h \in Gens : \A a \in batch'[h] : a \in batch[h] \/ \E n \in Names : a = members[h][n]
        /\ \A u \in Threads : pc'[u] \in {"commit", "unbind"} => pc'[u] = pc[u]
    BY <1>4 DEF WorkerStep, WorkerDue, WorkerStopped, RenewOk, RenewFail, BindingLeaseFailed,
                WorkerHostStop, Released
  <2>. QED  BY <2>1, FreshStands
<1>5. ASSUME NEW a \in Acts, Expire(a) PROVE ActivationsFresh'
  BY <1>5, FreshStands DEF Expire
<1>6. CASE UNCHANGED vars
  BY <1>6, FreshStands DEF vars
<1>. QED  BY <1>1, <1>2, <1>3, <1>4, <1>5, <1>6, DeployStepFresh DEF Next, Continue

\* A worker that waits or renews did so before, and renews what it tracked.
WorkersStand ==
    \A g \in Gens :
        /\ wpc'[g] \in {"wait", "renew"} =>
             /\ wpc[g] \in {"wait", "renew"} /\ members'[g] = members[g]
             /\ \A a \in batch'[g] : a \in batch[g] \/ \E n \in Names : a = members[g][n]
        /\ wpc[g] = "done" => wpc'[g] = "done"

\* So what no worker renews stays unrenewed.
LEMMA NotRenewedStands ==
    ASSUME WorkersStand, NEW a, NotRenewed(a)
    PROVE  NotRenewed(a)'
BY DEF WorkersStand

\* A step that records no activation, and no revocation that begins, keeps what
\* is revoked unrenewed.
LEMMA UnrenewedStands ==
    ASSUME IndInv, RevokesUnrenewed, WorkersStand, UNCHANGED <<generation, leaseWorker>>,
           \A n \in Names : install'[n] = None \/ install'[n] = install[n],
           NEW u \in Threads,
           pc'[u] \in {"revoke", "unbind"} => pc'[u] = pc[u] /\ act'[u] = act[u],
           pc'[u] = "undo" \/ Registering(u, {"branch"} \cup DeploySteps)' =>
               /\ tgen'[u] = tgen[u] /\ tname'[u] = tname[u] /\ tname[u] \in Names
               /\ \/ pc'[u] = "undo" /\ pc[u] = "undo"
                  \/ Registering(u, {"branch"} \cup DeploySteps)
    PROVE  RevokesUntracked(u)'
<1>1. RevokesUntracked(u)
  BY DEF RevokesUnrenewed
<1>2. pc'[u] = "revoke" /\ leaseWorker' # None => wpc'[leaseWorker'] = "done"
  BY <1>1 DEF WorkersStand
<1>3. Registering(u, {"branch"} \cup DeploySteps)' /\ tgen'[u] = generation'
        => install'[tname'[u]] = None
  BY <1>1
<1>4. ASSUME pc'[u] = "undo", tgen'[u] = generation', install'[tname'[u]] # None
      PROVE  NotRenewed(install[tname[u]])'
  <2>1. PICK a : a = install[tname[u]]
    OBVIOUS
  <2>2. a # None /\ NotRenewed(a) /\ install'[tname'[u]] = a
    BY <1>1, <1>4, <2>1
  <2>3. NotRenewed(a)
    BY <2>2
  <2>4. NotRenewed(a)'
    BY <2>3, NotRenewedStands
  <2>. QED  BY <2>2, <2>4
<1>5. ASSUME pc'[u] = "unbind" PROVE NotRenewed(act[u])'
  <2>1. PICK a : a = act[u]
    OBVIOUS
  <2>2. NotRenewed(a)' /\ act'[u] = a
    BY <1>1, <1>5, <2>1, NotRenewedStands
  <2>. QED  BY <2>2
<1>. QED  BY <1>2, <1>3, <1>4, <1>5

\* A new call keeps what is revoked unrenewed.
LEMMA CallUnrenewed ==
    ASSUME IndInv, IndInv', RevokesUnrenewed, NEW t \in Threads, Call(t)
    PROVE  RevokesUnrenewed'
<1>1. WorkersStand /\ UNCHANGED <<leaseWorker, install, act>>
  BY DEF Call, StartEnter, ServeEnter, BeginStart, ServeActive, ServeInterrupt, StopEnter,
         BeginShutdown, RegisterEnter, WorkersStand
<1>2. \A u \in Threads : /\ tgen[u] <= generation /\ generation \in 0..MaxGen
                         /\ tgen[u] \in 0..MaxGen
  BY DEF GenerationBounds
<1>3. /\ pc'[t] \in {"connect", "await", "leave", "halt", "admit"}
      /\ \A u \in Threads : u # t => \/ pc'[u] = pc[u]
                                     \/ pc'[u] = "leave"
      /\ \A u \in Threads : u # t => op'[u] = op[u] /\ tgen'[u] = tgen[u] /\ tname'[u] = tname[u]
      /\ generation' = generation \/ generation' = generation + 1
  <2>1. CASE StartEnter(t) \/ ServeEnter(t)
    BY <2>1 DEF StartEnter, ServeEnter, BeginStart
  <2>2. CASE StopEnter(t)
    BY <2>2 DEF StopEnter, BeginShutdown, Released
  <2>3. CASE ServeActive(t) \/ ServeInterrupt(t) \/ \E n \in Names : RegisterEnter(t, n)
    BY <2>3 DEF ServeActive, ServeInterrupt, RegisterEnter
  <2>. QED  BY <2>1, <2>2, <2>3 DEF Call
<1>4. ASSUME NEW u \in Threads PROVE RevokesUntracked(u)'
  <2>1. CASE u = t
    BY <1>3, <2>1
  <2>2. CASE u # t
    <3>1. pc'[u] \in {"revoke", "unbind"} => pc'[u] = pc[u] /\ act'[u] = act[u]
      BY <1>1, <1>3, <2>2
    <3>2. CASE generation' = generation
      <4>1. pc'[u] = "undo" \/ Registering(u, {"branch"} \cup DeploySteps)' =>
               /\ tgen'[u] = tgen[u] /\ tname'[u] = tname[u] /\ tname[u] \in Names
               /\ \/ pc'[u] = "undo" /\ pc[u] = "undo"
                  \/ Registering(u, {"branch"} \cup DeploySteps)
        BY <1>3, <2>2 DEF CallMatchesStep, NameSteps
      <4>. QED  BY <1>1, <3>1, <3>2, <4>1, UnrenewedStands
    <3>3. CASE generation' = generation + 1
      <4>1. tgen'[u] # generation'
        BY <1>2, <1>3, <2>2, <3>3
      <4>2. RevokesUntracked(u)
        BY DEF RevokesUnrenewed
      <4>3. pc'[u] = "revoke" /\ leaseWorker' # None => wpc'[leaseWorker'] = "done"
        BY <1>1, <3>1, <4>2 DEF WorkersStand
      <4>4. ASSUME pc'[u] = "unbind" PROVE NotRenewed(act[u])'
        <5>1. PICK a : a = act[u]
          OBVIOUS
        <5>2. NotRenewed(a) /\ act'[u] = a
          BY <3>1, <4>2, <4>4, <5>1
        <5>3. NotRenewed(a)'
          BY <1>1, <5>2, NotRenewedStands
        <5>. QED  BY <5>2, <5>3
      <4>. QED  BY <4>1, <4>3, <4>4
    <3>. QED  BY <1>3, <3>2, <3>3
  <2>. QED  BY <2>1, <2>2
<1>. QED  BY <1>4 DEF RevokesUnrenewed

\* A registration that is committed was on nobody's list, and one whose commit
\* ends in a rollback is on no worker's.
LEMMA CommitUnrenewed ==
    ASSUME OneRegistrar, IndInv, IndInv', Hosting, Covered, Unrenewed, NEW t \in Threads,
           CommitUntracked(t) \/ CommitUnhealthy(t) \/ CommitStart(t) \/ CommitRegister(t)
    PROVE  RevokesUnrenewed'
<1>0. pc[t] = "commit" /\ tgen[t] = generation
  BY DEF CommitUntracked, CommitUnhealthy, CommitStart, CommitRegister, Commit, RequireGeneration
<1>1. /\ pc[t] = "commit" /\ tgen[t] = generation /\ UNCHANGED generation
      /\ install' = [install EXCEPT ![tname[t]] = act[t]] /\ tname[t] \in Names
      /\ \A u \in Threads : u # t =>
           /\ pc'[u] = pc[u] /\ op'[u] = op[u] /\ tgen'[u] = tgen[u]
           /\ tname'[u] = tname[u] /\ act'[u] = act[u]
      /\ pc'[t] \in {"undo", "rollback", "deploy", "idle"}
  BY DEF CommitUntracked, CommitUnhealthy, CommitStart, CommitRegister, Commit, Raise,
         RequireGeneration, CallMatchesStep, NameSteps
<1>2. /\ generation # 0 /\ generation \in Gens /\ TrackingWorker = generation
      /\ \A u \in Threads : pc[u] \notin ShutdownSteps
  <2>1. RequireGeneration(t)
    BY <1>0 DEF RequireGeneration
  <2>2. generation \in Gens /\ TrackingWorker = generation
    BY <1>0, <2>1, CommitFacts, Zenon
  <2>3. \A u \in Threads : pc[u] \notin ShutdownSteps
    BY <1>0, <2>1, CommitFacts, Zenon
  <2>. QED  BY <2>2, <2>3
<1>3. Fresh(t) /\ act[t] # None
  <2>1. act[t] # None
    BY <1>0 DEF ActivationsFenced
  <2>. QED  BY <1>0, <2>1 DEF Unrenewed, ActivationsFresh
<1>4. ASSUME NEW a, a # act[t], a # None, NotRenewed(a) PROVE NotRenewed(a)'
  <2>1. \A g \in Gens : wpc'[g] \in {"wait", "renew"} => wpc[g] \in {"none", "wait", "renew"}
    BY <1>2 DEF CommitUntracked, CommitUnhealthy, CommitStart, CommitRegister, Commit, Track
  <2>2. \A g \in Gens : batch'[g] \subseteq batch[g]
    BY DEF CommitUntracked, CommitUnhealthy, CommitStart, CommitRegister, Commit
  <2>3. \A g \in Gens, n \in Names : members'[g][n] = members[g][n] \/ members'[g][n] = act[t]
    <3>1. UNCHANGED members \/ \E g \in Gens : members' = [members EXCEPT ![g][tname[t]] = act[t]]
      BY <1>2 DEF CommitUntracked, CommitUnhealthy, CommitStart, CommitRegister, Commit, Track
    <3>2. ASSUME NEW h \in Gens, members' = [members EXCEPT ![h][tname[t]] = act[t]],
                 NEW g \in Gens, NEW n \in Names
          PROVE  members'[g][n] = members[g][n] \/ members'[g][n] = act[t]
      BY <3>2
    <3>. QED  BY <3>1, <3>2
  <2>4. \A g \in Gens : wpc[g] = "none" => batch[g] = {} /\ \A n \in Names : members[g][n] = None
    BY DEF Covered, UnusedWorkers
  <2>5. ASSUME NEW g \in Gens, wpc'[g] \in {"wait", "renew"}
        PROVE  a \notin batch'[g] /\ \A n \in Names : members'[g][n] # a
    <3>1. a \notin batch[g] /\ \A n \in Names : members[g][n] # a
      BY <1>4, <2>1, <2>4, <2>5
    <3>. QED  BY <1>4, <2>2, <2>3, <3>1
  <2>. QED  BY <2>5
<1>5. ASSUME NEW u \in Threads, u # t PROVE RevokesUntracked(u)'
  <2>1. RevokesUntracked(u)
    BY DEF Unrenewed, RevokesUnrenewed
  <2>2. ASSUME op[u] = "register", tgen[u] = generation PROVE tname[u] # tname[t]
    <3>1. op[t] \in StartCalls \cup {"register"}
      BY <1>1 DEF CallMatchesStep
    <3>2. op[t] \notin StartCalls
      BY <1>0, <1>2, <2>2 DEF Hosting, StartersApart
    <3>. QED  BY <1>5, <2>2, <3>1, <3>2, NamesApart
  <2>3. pc'[u] # "revoke"
    BY <1>1, <1>2, <1>5
  <2>4. Registering(u, {"branch"} \cup DeploySteps)' /\ tgen'[u] = generation'
          => install'[tname'[u]] = None
    BY <1>1, <1>5, <2>1, <2>2
  <2>5. ASSUME pc'[u] = "undo", tgen'[u] = generation', install'[tname'[u]] # None
        PROVE  NotRenewed(install[tname[u]])' /\ install'[tname'[u]] = install[tname[u]]
    <3>1. op[u] = "register" /\ tname[u] \in Names
      BY <1>1, <1>5, <2>5 DEF CallMatchesStep, NameSteps
    <3>2. install'[tname'[u]] = install[tname[u]]
      BY <1>1, <1>5, <2>2, <2>5, <3>1
    <3>3. NotRenewed(install[tname[u]]) /\ install[tname[u]] # act[t] /\ install[tname[u]] # None
      BY <1>1, <1>3, <1>5, <2>1, <2>5, <3>1, <3>2
    <3>4. PICK a : a = install[tname[u]]
      OBVIOUS
    <3>5. NotRenewed(a)' /\ a = install'[tname'[u]]
      BY <1>4, <3>2, <3>3, <3>4
    <3>. QED  BY <3>2, <3>5
  <2>6. ASSUME pc'[u] = "unbind" PROVE NotRenewed(act[u])'
    <3>1. pc[u] = "unbind" /\ act'[u] = act[u] /\ act[u] # act[t] /\ NotRenewed(act[u])
      BY <1>1, <1>3, <1>5, <2>1, <2>6
    <3>2. act[u] # None
      BY <3>1 DEF Unrenewed, ActivationsFresh
    <3>3. PICK a : a = act[u]
      OBVIOUS
    <3>4. NotRenewed(a)' /\ a = act'[u]
      BY <1>4, <3>1, <3>2, <3>3
    <3>. QED  BY <3>4
  <2>. QED  BY <2>3, <2>4, <2>5, <2>6
<1>6. RevokesUntracked(t)'
  <2>1. CASE CommitUntracked(t) \/ CommitUnhealthy(t)
    <3>1. /\ UNCHANGED tname
          /\ \/ UNCHANGED <<wpc, members, batch>>
             \/ /\ leaseWorker \in Gens /\ wpc' = [wpc EXCEPT ![leaseWorker] = "report"]
                /\ members' = [members EXCEPT ![leaseWorker][tname[t]] = act[t]]
                /\ batch' = [batch EXCEPT ![leaseWorker] = {}]
      BY <2>1 DEF CommitUntracked, CommitUnhealthy
    <3>2. PICK a : a = act[t]
      OBVIOUS
    <3>3. ASSUME NEW g \in Gens, wpc'[g] \in {"wait", "renew"}
          PROVE  batch'[g] = batch[g] /\ members'[g] = members[g]
      BY <3>1, <3>3
    <3>4. NotRenewed(a)'
      BY <1>3, <3>2, <3>3
    <3>5. install'[tname'[t]] = a
      BY <1>1, <3>1, <3>2
    <3>6. pc'[t] \in {"undo", "rollback"}
      BY <2>1 DEF CommitUntracked, CommitUnhealthy, Raise
    <3>. QED  BY <3>4, <3>5, <3>6
  <2>2. CASE CommitStart(t) \/ CommitRegister(t)
    <3>1. pc'[t] \in {"deploy", "idle"}
      BY <2>2 DEF CommitStart, CommitRegister
    <3>. QED  BY <3>1
  <2>. QED  BY <2>1, <2>2
<1>. QED  BY <1>5, <1>6 DEF RevokesUnrenewed

\* The thread of a call that goes on is on its way to a revocation already.
RevokersStand ==
    \A u \in Threads :
        /\ pc'[u] \in {"revoke", "unbind"} => pc'[u] = pc[u] /\ act'[u] = act[u]
        /\ pc'[u] = "undo" \/ Registering(u, {"branch"} \cup DeploySteps)' =>
             /\ tgen'[u] = tgen[u] /\ tname'[u] = tname[u] /\ tname[u] \in Names
             /\ \/ pc'[u] = "undo" /\ pc[u] = "undo"
                \/ Registering(u, {"branch"} \cup DeploySteps)

\* UnrenewedStands for every thread.
LEMMA AllUnrenewedStands ==
    ASSUME IndInv, RevokesUnrenewed, WorkersStand, UNCHANGED <<generation, leaseWorker>>,
           \A n \in Names : install'[n] = None \/ install'[n] = install[n],
           RevokersStand
    PROVE  RevokesUnrenewed'
<1>1. ASSUME NEW u \in Threads PROVE RevokesUntracked(u)'
  BY UnrenewedStands DEF RevokersStand
<1>. QED  BY <1>1 DEF RevokesUnrenewed

\* A step of start() keeps what is revoked unrenewed.
LEMMA StartStepUnrenewed ==
    ASSUME IndInv, RevokesUnrenewed, NEW t \in Threads, StartStep(t)
    PROVE  RevokesUnrenewed'
<1>1. UNCHANGED <<generation, leaseWorker, install, workerVars>>
  BY DEF StartStep, ConnectOk, ConnectFail, AttachOk, AttachHostFails, AttachStale, Discard,
         SnapshotRegistry, DeployNext, StartFinish, ServeStarted, StartComplete, StartRefused,
         ServeWait
<1>2. /\ \A u \in Threads : u # t =>
           /\ pc'[u] = pc[u] /\ op'[u] = op[u] /\ tgen'[u] = tgen[u]
           /\ tname'[u] = tname[u] /\ act'[u] = act[u]
      /\ pc'[t] \notin {"revoke", "unbind", "undo", "branch"}
      /\ pc'[t] \in DeploySteps => op'[t] \in StartCalls
  BY DEF StartStep, ConnectOk, ConnectFail, AttachOk, AttachHostFails, AttachStale, Discard,
         SnapshotRegistry, DeployNext, StartFinish, ServeStarted, StartComplete, StartRefused,
         ServeWait, CallMatchesStep
<1>3. RevokersStand
  BY <1>2 DEF RevokersStand, CallMatchesStep, NameSteps
<1>4. WorkersStand
  BY <1>1 DEF WorkersStand
<1>. QED  BY <1>1, <1>3, <1>4, AllUnrenewedStands

\* So does a step of a deployment.
LEMMA DeployStepUnrenewed ==
    ASSUME OneRegistrar, IndInv, IndInv', Hosting, Covered, Unrenewed,
           NEW t \in Threads, DeployStep(t)
    PROVE  RevokesUnrenewed'
<1>1. CASE Install(t, TRUE) \/ Install(t, FALSE) \/ InstallFail(t) \/ CommitStale(t)
  <2>1. /\ UNCHANGED <<generation, leaseWorker, install, workerVars, op, tgen, tname>>
        /\ \A u \in Threads : u # t => pc'[u] = pc[u] /\ act'[u] = act[u]
        /\ pc[t] \in DeploySteps /\ pc'[t] \in {"commit", "undo", "rollback"}
        /\ pc'[t] = "undo" => op[t] = "register"
    BY <1>1 DEF Install, InstallFail, CommitStale, Raise
  <2>2. RevokersStand
    BY <2>1 DEF RevokersStand, CallMatchesStep, NameSteps
  <2>3. WorkersStand
    BY <2>1 DEF WorkersStand
  <2>. QED  BY <2>1, <2>2, <2>3, AllUnrenewedStands DEF Unrenewed
<1>. QED  BY <1>1, CommitUnrenewed DEF DeployStep

\* A registration that is rolled back revokes what no worker took.
LEMMA RegisterStepUnrenewed ==
    ASSUME IndInv, RevokesUnrenewed, NEW t \in Threads, RegisterStep(t)
    PROVE  RevokesUnrenewed'
<1>0. UNCHANGED <<generation, leaseWorker, workerVars>> /\ WorkersStand
  BY DEF RegisterStep, RegisterAdmit, RegisterRefused, HostAddCheck, HostAddStore,
         RegisterInsert, RegisterDeploys, RegisterLocal, RegisterAbandon, RegisterUndo,
         RegisterUndoBound, RegisterUnbind, Forget, WorkersStand
<1>1. CASE RegisterInsert(t)
  <2>1. /\ UNCHANGED <<op, tgen, tname, act>> /\ pc' = [pc EXCEPT ![t] = "branch"]
        /\ install' = [install EXCEPT ![tname[t]] = None]
        /\ tname[t] \in Names
    BY <1>1 DEF RegisterInsert, CallMatchesStep, NameSteps
  <2>2. RevokesUntracked(t)'
    BY <2>1
  <2>3. ASSUME NEW u \in Threads, u # t PROVE RevokesUntracked(u)'
    BY <1>0, <2>1, <2>3, UnrenewedStands DEF CallMatchesStep, NameSteps
  <2>. QED  BY <2>2, <2>3 DEF RevokesUnrenewed
<1>2. CASE RegisterUndoBound(t)
  <2>1. /\ UNCHANGED <<op, tgen, tname>> /\ pc' = [pc EXCEPT ![t] = "unbind"] /\ pc[t] = "undo"
        /\ install' = [install EXCEPT ![tname[t]] = None] /\ install[tname[t]] # None
        /\ tname[t] \in Names /\ act' = [act EXCEPT ![t] = install[tname[t]]]
        /\ tgen[t] = generation
    BY <1>2 DEF RegisterUndoBound, Forget, CallMatchesStep, NameSteps
  <2>2. RevokesUntracked(t)'
    <3>1. PICK a : a = install[tname[t]]
      OBVIOUS
    <3>2. NotRenewed(a) /\ act'[t] = a
      BY <2>1, <3>1 DEF RevokesUnrenewed
    <3>3. NotRenewed(a)'
      BY <1>0, <3>2, NotRenewedStands
    <3>. QED  BY <2>1, <3>2, <3>3
  <2>3. ASSUME NEW u \in Threads, u # t PROVE RevokesUntracked(u)'
    BY <1>0, <2>1, <2>3, UnrenewedStands DEF CallMatchesStep, NameSteps
  <2>. QED  BY <2>2, <2>3 DEF RevokesUnrenewed
<1>3. CASE ~RegisterInsert(t) /\ ~RegisterUndoBound(t)
  <2>1. /\ \A n \in Names : install'[n] = None \/ install'[n] = install[n]
        /\ \A u \in Threads : u # t =>
             /\ pc'[u] = pc[u] /\ op'[u] = op[u] /\ tgen'[u] = tgen[u]
             /\ tname'[u] = tname[u] /\ act'[u] = act[u]
        /\ pc'[t] \in {"idle", "add", "put", "insert"} \/
             /\ pc[t] = "branch" /\ pc'[t] = "install"
             /\ UNCHANGED <<op, tgen, tname>>
    BY <1>3 DEF RegisterStep, RegisterAdmit, RegisterRefused, HostAddCheck, HostAddStore,
                RegisterDeploys, RegisterLocal, RegisterAbandon, RegisterUndo, RegisterUnbind,
                Forget
  <2>2. RevokersStand
    BY <2>1 DEF RevokersStand, CallMatchesStep, NameSteps
  <2>. QED  BY <1>0, <2>1, <2>2, AllUnrenewedStands
<1>. QED  BY <1>1, <1>2, <1>3

\* A shutdown revokes when its worker is done.
LEMMA ShutdownStepUnrenewed ==
    ASSUME IndInv, RevokesUnrenewed, NEW t \in Threads, ShutdownStep(t)
    PROVE  RevokesUnrenewed'
<1>1. CASE RollbackEnter(t) \/ ServeLeave(t)
  <2>1. /\ UNCHANGED <<leaseWorker, install, workerVars, act, tgen, tname, op>>
        /\ generation' = generation + 1
        /\ pc' = [Released EXCEPT ![t] = "halt"]
    BY <1>1 DEF RollbackEnter, ServeLeave, BeginShutdown
  <2>2. \A u \in Threads : \/ pc'[u] = pc[u] /\ u # t
                           \/ pc'[u] \in {"halt", "leave"}
    BY <2>1 DEF Released
  <2>3. \A u \in Threads : tgen'[u] # generation'
    BY <2>1 DEF GenerationBounds
  <2>4. WorkersStand
    BY <2>1 DEF WorkersStand
  <2>5. ASSUME NEW u \in Threads PROVE RevokesUntracked(u)'
    <3>1. RevokesUntracked(u)
      BY DEF RevokesUnrenewed
    <3>2. pc'[u] = "revoke" /\ leaseWorker' # None => wpc'[leaseWorker'] = "done"
      BY <2>1, <2>2, <3>1
    <3>3. ASSUME pc'[u] = "unbind" PROVE NotRenewed(act[u])'
      BY <2>1, <2>2, <3>1, <3>3
    <3>. QED  BY <2>3, <3>2, <3>3
  <2>. QED  BY <2>5 DEF RevokesUnrenewed
<1>2. CASE HaltNoWorker(t) \/ JoinWorker(t)
  <2>1. /\ UNCHANGED <<generation, leaseWorker, install, workerVars, act, tgen, tname, op>>
        /\ pc' = [pc EXCEPT ![t] = "revoke"]
        /\ leaseWorker # None => wpc[leaseWorker] = "done"
    BY <1>2 DEF HaltNoWorker, JoinWorker, JoinReturns
  <2>2. WorkersStand
    BY <2>1 DEF WorkersStand
  <2>3. RevokesUntracked(t)'
    BY <2>1
  <2>4. ASSUME NEW u \in Threads, u # t PROVE RevokesUntracked(u)'
    BY <2>1, <2>2, <2>4, UnrenewedStands DEF CallMatchesStep, NameSteps
  <2>. QED  BY <2>3, <2>4 DEF RevokesUnrenewed
<1>3. CASE Release(t)
  <2>1. /\ UNCHANGED <<generation, install, workerVars, locals, op>> /\ leaseWorker' = None
        /\ pc' = [pc EXCEPT ![t] = "settle"]
    BY <1>3 DEF Release
  <2>2. ASSUME NEW u \in Threads PROVE RevokesUntracked(u)'
    <3>1. RevokesUntracked(u)
      BY DEF RevokesUnrenewed
    <3>. QED  BY <2>1, <3>1
  <2>. QED  BY <2>2 DEF RevokesUnrenewed
<1>4. CASE \/ RollbackSkipped(t) \/ ServeLeaveSkipped(t) \/ HaltWorker(t) \/ JoinTimeout(t)
           \/ Revoke(t) \/ RevokeDone(t) \/ HostStop(t) \/ Settle(t)
  <2>1. /\ UNCHANGED <<generation, leaseWorker, wpc, members, batch>>
        /\ \A n \in Names : install'[n] = None \/ install'[n] = install[n]
        /\ \A u \in Threads : u # t =>
             /\ pc'[u] = pc[u] /\ op'[u] = op[u] /\ tgen'[u] = tgen[u]
             /\ tname'[u] = tname[u] /\ act'[u] = act[u]
        /\ \/ pc'[t] \in {"idle", "join", "hoststop", "release"}
           \/ pc'[t] = "revoke" /\ pc[t] = "revoke" /\ act'[t] = act[t]
    BY <1>4 DEF RollbackSkipped, ServeLeaveSkipped, HaltWorker, JoinTimeout, Revoke, RevokeDone,
                HostStop, Settle
  <2>2. RevokersStand
    BY <2>1 DEF RevokersStand, CallMatchesStep, NameSteps
  <2>3. WorkersStand
    BY <2>1 DEF WorkersStand
  <2>. QED  BY <2>1, <2>2, <2>3, AllUnrenewedStands
<1>. QED  BY <1>1, <1>2, <1>3, <1>4 DEF ShutdownStep

\* A lease worker renews what it tracks.
LEMMA WorkerStepUnrenewed ==
    ASSUME IndInv, RevokesUnrenewed, NEW g \in Gens, WorkerStep(g)
    PROVE  RevokesUnrenewed'
<1>1. /\ UNCHANGED <<generation, leaseWorker, install, op, locals>>
      /\ \A u \in Threads : pc'[u] = pc[u] \/ pc'[u] = "leave"
  BY DEF WorkerStep, WorkerDue, WorkerStopped, RenewOk, RenewFail, BindingLeaseFailed,
         WorkerHostStop, Released
<1>2. WorkersStand
  BY DEF WorkerStep, WorkerDue, WorkerStopped, RenewOk, RenewFail, BindingLeaseFailed,
         WorkerHostStop, WorkersStand
<1>3. RevokersStand
  BY <1>1 DEF RevokersStand, CallMatchesStep, NameSteps
<1>. QED  BY <1>1, <1>2, <1>3, AllUnrenewedStands

\* Every step keeps Unrenewed.
LEMMA UnrenewedNext ==
    OneRegistrar /\ IndInv /\ Hosting /\ Covered /\ Unrenewed /\ [Next]_vars => Unrenewed'
<1> SUFFICES ASSUME OneRegistrar, IndInv, Hosting, Covered, Unrenewed, [Next]_vars
             PROVE  Unrenewed'
  OBVIOUS
<1>1. IndInv' /\ ActivationsFresh'
  BY NextInv, FreshNext DEF Unrenewed
<1>2. ASSUME NEW t \in Threads, Call(t) \/ Continue(t) PROVE RevokesUnrenewed'
  BY <1>1, <1>2, CallUnrenewed, StartStepUnrenewed, DeployStepUnrenewed, RegisterStepUnrenewed,
     ShutdownStepUnrenewed DEF Continue, Unrenewed
<1>3. ASSUME NEW g \in Gens, WorkerStep(g) PROVE RevokesUnrenewed'
  BY <1>3, WorkerStepUnrenewed DEF Unrenewed
<1>4. ASSUME NEW a \in Acts, Expire(a) PROVE RevokesUnrenewed'
  BY <1>4, AllUnrenewedStands
     DEF Expire, RevokersStand, WorkersStand, Unrenewed, CallMatchesStep, NameSteps
<1>5. ASSUME UNCHANGED vars PROVE RevokesUnrenewed'
  BY <1>5, AllUnrenewedStands
     DEF vars, RevokersStand, WorkersStand, Unrenewed, CallMatchesStep, NameSteps
<1>6. RevokesUnrenewed'
  BY <1>2, <1>3, <1>4, <1>5 DEF Next
<1>. QED  BY <1>1, <1>6 DEF Unrenewed

\* A binding is not renewed while it is being revoked, unless by a worker that a
\* shutdown gave up waiting for (NoRenewalWhileRevoking).
THEOREM RevocationsUnrenewed == OneRegistrar => (Spec => []NoRenewalWhileRevoking)
<1> SUFFICES ASSUME OneRegistrar PROVE Spec => []NoRenewalWhileRevoking
  OBVIOUS
<1>1. Init => Covered /\ Hosting /\ Unrenewed
  BY DEF Init, Covered, InstallsRegistered, UnusedWorkers, StartCovers, ActiveCovers,
         Hosting, StartersApart, RegistryHosted,
         Unrenewed, ActivationsFresh, RevokesUnrenewed
<1>2. IndInv /\ Serving /\ Unrenewed => NoRenewalWhileRevoking
  <2> SUFFICES ASSUME IndInv, Serving, Unrenewed, NEW g \in Gens, wpc[g] = "renew", ~Abandoned(g),
                      NEW t \in Threads
               PROVE  /\ pc[t] = "revoke" => \A i \in todo[t] : i[2] \notin batch[g]
                      /\ pc[t] = "unbind" => act[t] \notin batch[g]
    BY DEF NoRenewalWhileRevoking
  <2>1. leaseWorker = g
    BY DEF Abandoned, Serving, WorkersHalted
  <2>2. RevokesUntracked(t)
    BY DEF Unrenewed, RevokesUnrenewed
  <2>. QED  BY <2>1, <2>2
<1>3. IndInv /\ Covered /\ Hosting /\ Unrenewed /\ [Next]_vars => (Covered /\ Hosting /\ Unrenewed)'
  BY CoveredNext, HostingNext, UnrenewedNext
<1>. QED  BY <1>1, <1>2, <1>3, ServingInvariance, PTL DEF Spec

-----------------------------------------------------------------------------
(* What a shutdown revokes *)

USE DEF NamesUntracked, DeploysOnce

\* The moves of a deployment and of a registration that track nothing.
Moves(from, to) ==
    \/ from = "add" /\ to = "put"
    \/ from = "put" /\ to = "insert"
    \/ from = "branch" /\ to = "install"
    \/ from = "install" /\ to = "commit"
    \/ from \in DeploySteps /\ to = "undo"

\* A thread does not deal with the worker, stays where it is or moves on.
TrackersStand ==
    \A u \in Threads :
        \/ pc'[u] \in (LooseSteps \cup {"admit", "revoke"}) \ {"snapshot"}
        \/ /\ op'[u] = op[u] /\ tgen'[u] = tgen[u] /\ tname'[u] = tname[u] /\ todo'[u] = todo[u]
           /\ pc'[u] = pc[u] \/ Moves(pc[u], pc'[u])

\* A step that leaves the registry and what the worker tracks alone keeps Tracking.
LEMMA TrackingStands ==
    ASSUME Tracking, IndInv, TrackersStand,
           UNCHANGED <<generation, leaseWorker, members, registered>>,
           \A g \in Gens : wfailed[g] => wfailed'[g],
           UNCHANGED install \/ \E u \in Threads : pc'[u] \in AfterJoin,
           \A u \in Threads : pc[u] \in AfterJoin => pc'[u] \in AfterJoin \/ leaseWorker = None
    PROVE  Tracking'
<1>1. ASSUME NEW u \in Threads, leaseWorker # None PROVE NamesUntracked(u)'
  <2>1. NamesUntracked(u) /\ (wfailed[leaseWorker] => wfailed'[leaseWorker])
    BY <1>1 DEF Tracking, NewNamesUntracked
  <2>2. CASE pc'[u] \in (LooseSteps \cup {"admit", "revoke"}) \ {"snapshot"}
    BY <2>2 DEF LooseSteps
  <2>3. CASE pc'[u] \notin (LooseSteps \cup {"admit", "revoke"}) \ {"snapshot"}
    <3>1. op'[u] = op[u] /\ tgen'[u] = tgen[u] /\ tname'[u] = tname[u] /\ todo'[u] = todo[u]
      BY <2>3 DEF TrackersStand
    <3>2. CASE pc'[u] = pc[u]
      BY <2>1, <3>1, <3>2
    <3>3. CASE Moves(pc[u], pc'[u])
      BY <2>1, <3>1, <3>3 DEF Moves, CallMatchesStep
    <3>. QED  BY <2>3, <3>2, <3>3 DEF TrackersStand
  <2>. QED  BY <2>2, <2>3
<1>2. ASSUME NEW u \in Threads PROVE DeploysOnce(u)'
  <2>1. DeploysOnce(u)
    BY DEF Tracking, StartsOnce
  <2>2. CASE pc'[u] \in (LooseSteps \cup {"admit", "revoke"}) \ {"snapshot"}
    BY <2>2 DEF LooseSteps
  <2>3. CASE pc'[u] \notin (LooseSteps \cup {"admit", "revoke"}) \ {"snapshot"}
    <3>1. op'[u] = op[u] /\ tgen'[u] = tgen[u] /\ tname'[u] = tname[u] /\ todo'[u] = todo[u]
      BY <2>3 DEF TrackersStand
    <3>2. CASE pc'[u] = pc[u]
      BY <2>1, <3>1, <3>2
    <3>3. CASE Moves(pc[u], pc'[u])
      BY <2>1, <3>1, <3>3 DEF Moves, CallMatchesStep
    <3>. QED  BY <2>3, <3>2, <3>3 DEF TrackersStand
  <2>. QED  BY <2>2, <2>3
<1>3. ForgottenFailed'
  BY DEF Tracking, ForgottenFailed
<1>4. TrackedAsRecorded'
  BY DEF Tracking, TrackedAsRecorded
<1>. QED  BY <1>1, <1>2, <1>3, <1>4 DEF Tracking, NewNamesUntracked, StartsOnce

\* Nobody carries a generation that has only just begun.
LEMMA NewGeneration ==
    ASSUME IndInv, generation' = generation + 1, NEW u \in Threads, tgen'[u] = tgen[u]
    PROVE  tgen'[u] # generation'
BY DEF GenerationBounds

\* The beginning of a shutdown keeps Tracking: nobody deploys for it.
LEMMA ShutdownTracks ==
    ASSUME IndInv, Tracking, NEW t \in Threads, BeginShutdown(t),
           pstate \notin {"STOPPED", "STOPPING"},
           \A u \in Threads : u # t => op'[u] = op[u]
    PROVE  Tracking'
<1>1. /\ UNCHANGED <<leaseWorker, members, wfailed, registered, install, tgen, tname, todo>>
      /\ generation' = generation + 1
      /\ \A u \in Threads : (pc'[u] = pc[u] /\ u # t) \/ pc'[u] \in {"halt", "leave"}
  BY DEF BeginShutdown, Released
<1>2. \A u \in Threads : tgen'[u] # generation'
  BY <1>1, NewGeneration
<1>3. ASSUME NEW u \in Threads, leaseWorker # None PROVE NamesUntracked(u)'
  <2>1. NamesUntracked(u)
    BY <1>3 DEF Tracking, NewNamesUntracked
  <2>. QED  BY <1>1, <1>2, <2>1
<1>4. \A u \in Threads : DeploysOnce(u)'
  BY <1>2
<1>5. ForgottenFailed'
  BY <1>1 DEF Tracking, ForgottenFailed
<1>6. TrackedAsRecorded'
  <2>1. \A u \in Threads : pc[u] \notin AfterJoin
    BY DEF OneShutdown
  <2>. QED  BY <1>1, <2>1 DEF Tracking, TrackedAsRecorded
<1>. QED  BY <1>1, <1>3, <1>4, <1>5, <1>6 DEF Tracking, NewNamesUntracked, StartsOnce

\* A new call keeps Tracking.
LEMMA CallTracks ==
    ASSUME IndInv, Tracking, NEW t \in Threads, Call(t)
    PROVE  Tracking'
<1>1. CASE StartEnter(t) \/ ServeEnter(t)
  <2>1. /\ leaseWorker' = None /\ generation' = generation + 1
        /\ pc' = [pc EXCEPT ![t] = "connect"]
        /\ tgen' = [tgen EXCEPT ![t] = generation + 1]
    BY <1>1 DEF StartEnter, ServeEnter, BeginStart, NodeFollowsState
  <2>2. \A u \in Threads : u # t => tgen'[u] # generation'
    BY <2>1, NewGeneration
  <2>3. \A u \in Threads : DeploysOnce(u)'
    BY <2>1, <2>2
  <2>. QED  BY <2>1, <2>3 DEF Tracking, NewNamesUntracked, StartsOnce, ForgottenFailed, TrackedAsRecorded
<1>2. CASE StopEnter(t)
  BY <1>2, ShutdownTracks DEF StopEnter
<1>3. CASE ServeActive(t) \/ ServeInterrupt(t) \/ \E n \in Names : RegisterEnter(t, n)
  <2>1. /\ UNCHANGED <<shared, tgen, todo>> /\ pc[t] \in {"idle", "serving"}
        /\ \E step \in {"await", "leave", "admit"} : pc' = [pc EXCEPT ![t] = step]
        /\ \A u \in Threads : u # t => tname'[u] = tname[u] /\ op'[u] = op[u]
    BY <1>3 DEF ServeActive, ServeInterrupt, RegisterEnter
  <2>2. TrackersStand /\ \A u \in Threads : pc[u] \in AfterJoin => pc'[u] \in AfterJoin
    BY <2>1 DEF TrackersStand, LooseSteps
  <2>. QED  BY <2>1, <2>2, TrackingStands
<1>. QED  BY <1>1, <1>2, <1>3 DEF Call

\* A start takes a snapshot when it has no worker, and deploys it name by name.
LEMMA StartStepTracks ==
    ASSUME IndInv, Tracking, NEW t \in Threads, StartStep(t)
    PROVE  Tracking'
<1>0. UNCHANGED <<generation, leaseWorker, members, wfailed, registered, install>>
  BY DEF StartStep, ConnectOk, ConnectFail, AttachOk, AttachHostFails, AttachStale, Discard,
         SnapshotRegistry, DeployNext, StartFinish, ServeStarted, StartComplete, StartRefused,
         ServeWait
<1>a. /\ \A u \in Threads : u # t =>
           /\ pc'[u] = pc[u] /\ op'[u] = op[u] /\ tgen'[u] = tgen[u]
           /\ tname'[u] = tname[u] /\ todo'[u] = todo[u]
      /\ pc[t] \notin AfterJoin /\ pc'[t] \notin AfterJoin
  BY DEF StartStep, ConnectOk, ConnectFail, AttachOk, AttachHostFails, AttachStale, Discard,
         SnapshotRegistry, DeployNext, StartFinish, ServeStarted, StartComplete, StartRefused,
         ServeWait
<1>1. ForgottenFailed' /\ TrackedAsRecorded'
  <2>1. ForgottenFailed'
    BY <1>0 DEF Tracking, ForgottenFailed
  <2>2. TrackedAsRecorded'
    BY <1>0, <1>a DEF Tracking, TrackedAsRecorded
  <2>. QED  BY <2>1, <2>2
<1>2. ASSUME NEW u \in Threads, u # t
      PROVE  (leaseWorker # None => NamesUntracked(u)') /\ DeploysOnce(u)'
  BY <1>0, <1>a, <1>2 DEF Tracking, NewNamesUntracked, StartsOnce
<1>3. (leaseWorker # None => NamesUntracked(t)') /\ DeploysOnce(t)'
  <2>0. (leaseWorker # None => NamesUntracked(t)) /\ DeploysOnce(t)
    BY DEF Tracking, NewNamesUntracked, StartsOnce
  <2>1. CASE AttachOk(t)
    <3>1. pc'[t] = "snapshot" /\ leaseWorker = None
      BY <2>1 DEF AttachOk, RequireGeneration, GenerationFence
    <3>. QED  BY <1>0, <3>1
  <2>2. CASE SnapshotRegistry(t)
    <3>1. /\ pc'[t] = "deploy" /\ todo'[t] = RegistrySnapshot /\ UNCHANGED <<tgen, op>>
          /\ pc[t] = "snapshot" /\ op[t] \in StartCalls
      BY <2>2 DEF SnapshotRegistry, CallMatchesStep
    <3>2. \A i, j \in RegistrySnapshot : i[1] = j[1] => i = j
      <4> SUFFICES ASSUME NEW i \in RegistrySnapshot, NEW j \in RegistrySnapshot, i[1] = j[1]
                   PROVE  i = j
        OBVIOUS
      <4>1. i = <<i[1], install[i[1]]>> /\ j = <<j[1], install[j[1]]>>
        BY DEF RegistrySnapshot
      <4>. QED  BY <4>1
    <3>. QED  BY <1>0, <2>0, <3>1, <3>2
  <2>3. CASE DeployNext(t)
    <3>1. /\ pc'[t] \in {"install", "rollback"} /\ UNCHANGED <<tgen, op>>
          /\ pc[t] = "deploy" /\ op[t] \in StartCalls
      BY <2>3 DEF DeployNext, CallMatchesStep
    <3>2. PICK item \in todo[t] : todo'[t] = todo[t] \ {item} /\ tname'[t] = item[1]
      BY <2>3 DEF DeployNext
    <3>. QED  BY <1>0, <2>0, <3>1, <3>2
  <2>4. CASE ~AttachOk(t) /\ ~SnapshotRegistry(t) /\ ~DeployNext(t)
    <3>1. pc'[t] \in {"attach", "discard", "rollback", "idle", "await", "leave", "serving"}
      BY <2>4 DEF StartStep, ConnectOk, ConnectFail, AttachHostFails, AttachStale, Discard,
                  StartFinish, ServeStarted, StartComplete, StartRefused, ServeWait
    <3>. QED  BY <3>1
  <2>. QED  BY <2>1, <2>2, <2>3, <2>4
<1>. QED  BY <1>0, <1>1, <1>2, <1>3 DEF Tracking, NewNamesUntracked, StartsOnce

\* Nobody else of this generation works on the name that a commit records.
LEMMA CommitsAlone ==
    ASSUME OneRegistrar, IndInv, Hosting, NEW t \in Threads, pc[t] = "commit",
           tgen[t] = generation, NEW u \in Threads, u # t
    PROVE  /\ op[u] = "register" /\ tgen[u] = generation => tname[u] # tname[t]
           /\ Registering(u, AddSteps) => tname[u] # tname[t]
           /\ ~Starting(u, {"snapshot", "deploy"} \cup DeploySteps)
<1>1. op[t] \in StartCalls \cup {"register"} /\ generation # 0
  <2>1. op[t] \in StartCalls \cup {"register"}
    BY DEF CallMatchesStep
  <2>2. generation \in Gens
    BY CommitFacts DEF RequireGeneration
  <2>. QED  BY <2>1, <2>2
<1>2. CASE op[t] = "register"
  <2>1. op[u] = "register" => tname[u] # tname[t]
    BY <1>2, NamesApart
  <2>2. ~Starting(u, {"snapshot", "deploy"} \cup DeploySteps)
    BY <1>2, RegistersAlone DEF Hosting
  <2>. QED  BY <2>1, <2>2
<1>3. CASE op[t] \in StartCalls
  <2>1. op[u] = "register" => tgen[u] # generation
    BY <1>1, <1>3 DEF Hosting, StartersApart
  <2>2. tname[t] \in registered
    BY <1>3 DEF Hosting, RegistryHosted
  <2>3. Registering(u, AddSteps) => tname[u] \notin registered
    BY DEF Hosting, RegistryHosted
  <2>4. ~Starting(u, {"snapshot", "deploy"} \cup DeploySteps)
    BY <1>1, <1>3 DEF OneStarter
  <2>. QED  BY <2>1, <2>2, <2>3, <2>4
<1>. QED  BY <1>1, <1>2, <1>3

\* What a commit does to the worker of its generation.
LEMMA CommitTracking ==
    ASSUME IndInv, Covered, Tracking, NEW t \in Threads,
           CommitUntracked(t) \/ CommitUnhealthy(t) \/ CommitStart(t) \/ CommitRegister(t)
    PROVE  /\ leaseWorker' = generation /\ generation \in Gens
           /\ \A n \in Names : n # tname[t] =>
                \/ members'[leaseWorker'][n] = None
                \/ leaseWorker = generation /\ members'[leaseWorker'][n] = members[leaseWorker][n]
           /\ \/ members'[leaseWorker'][tname[t]] = act[t]
              \/ CommitUntracked(t) /\ members'[leaseWorker'][tname[t]] = None
           /\ \A g \in Gens : wfailed[g] => wfailed'[g]
           /\ CommitUnhealthy(t) => wfailed'[leaseWorker']
<1>1. pc[t] = "commit" /\ RequireGeneration(t) /\ tgen[t] = generation
  BY DEF CommitUntracked, CommitUnhealthy, CommitStart, CommitRegister, Commit, RequireGeneration
<1>2. generation \in Gens /\ TrackingWorker = generation
      /\ (wpc[generation] # "none" => leaseWorker = generation)
  BY <1>1, CommitFacts, Zenon
<1>3. leaseWorker' = generation
  BY <1>2 DEF CommitUntracked, CommitUnhealthy, CommitStart, CommitRegister, Commit, Track,
              TrackingWorker
<1>4. \A n \in Names : members[generation][n] = None \/ leaseWorker = generation
  BY <1>2 DEF Covered, UnusedWorkers
<1>5. \A g \in Gens : wfailed[g] => wfailed'[g]
  BY DEF CommitUntracked, CommitUnhealthy, CommitStart, CommitRegister, Commit
<1>6. CommitUnhealthy(t) => wfailed'[leaseWorker']
  BY <1>3 DEF CommitUnhealthy
<1>7. tname[t] \in Names
  BY <1>1 DEF CallMatchesStep, NameSteps
<1>8. CASE CommitUntracked(t)
  <2>1. UNCHANGED members
    BY <1>8 DEF CommitUntracked
  <2>2. leaseWorker = generation => members[leaseWorker][tname[t]] = None
    <3>1. op[t] \in StartCalls \cup {"register"}
      BY <1>1 DEF CallMatchesStep
    <3>. QED  BY <1>1, <1>2, <3>1 DEF Tracking, NewNamesUntracked
  <2>. QED  BY <1>2, <1>3, <1>4, <1>5, <1>6, <1>7, <1>8, <2>1, <2>2
<1>9. CASE CommitUnhealthy(t) \/ CommitStart(t) \/ CommitRegister(t)
  <2>1. members' = [members EXCEPT ![generation][tname[t]] = act[t]]
    BY <1>2, <1>3, <1>9 DEF CommitUnhealthy, CommitStart, CommitRegister, Commit, Track
  <2>2. members'[generation][tname[t]] = act[t]
    BY <1>2, <1>7, <2>1
  <2>3. \A n \in Names : n # tname[t] => members'[generation][n] = members[generation][n]
    BY <1>2, <2>1
  <2>. QED  BY <1>2, <1>3, <1>4, <1>5, <1>6, <2>2, <2>3
<1>. QED  BY <1>8, <1>9

\* A commit of this generation keeps Tracking.
LEMMA CommitTracks ==
    ASSUME OneRegistrar, IndInv, Hosting, Covered, Tracking, NEW t \in Threads,
           CommitUntracked(t) \/ CommitUnhealthy(t) \/ CommitStart(t) \/ CommitRegister(t)
    PROVE  Tracking'
<1>1. /\ pc[t] = "commit" /\ tgen[t] = generation /\ UNCHANGED generation
      /\ install' = [install EXCEPT ![tname[t]] = act[t]] /\ tname[t] \in Names
      /\ registered' = registered \cup {tname[t]}
      /\ \A u \in Threads : u # t =>
           /\ pc'[u] = pc[u] /\ op'[u] = op[u] /\ tgen'[u] = tgen[u]
           /\ tname'[u] = tname[u] /\ todo'[u] = todo[u]
  BY DEF CommitUntracked, CommitUnhealthy, CommitStart, CommitRegister, Commit, Raise,
         RequireGeneration, CallMatchesStep, NameSteps
<1>2. registered' = registered /\ \A u \in Threads : pc[u] \notin AfterJoin
  <2>1. registered' = registered
    BY <1>1, CommitKeepsRegistry
  <2>2. \A u \in Threads : pc[u] \notin ShutdownSteps
    BY <1>1, CommitFacts DEF RequireGeneration
  <2>. QED  BY <2>1, <2>2
<1>3. /\ leaseWorker' = generation /\ generation \in Gens
      /\ \A n \in Names : n # tname[t] =>
           \/ members'[leaseWorker'][n] = None
           \/ leaseWorker = generation /\ members'[leaseWorker'][n] = members[leaseWorker][n]
      /\ \/ members'[leaseWorker'][tname[t]] = act[t]
         \/ CommitUntracked(t) /\ members'[leaseWorker'][tname[t]] = None
      /\ \A g \in Gens : wfailed[g] => wfailed'[g]
      /\ CommitUnhealthy(t) => wfailed'[leaseWorker']
  BY CommitTracking
<1>4. ForgottenFailed'
  <2> SUFFICES ASSUME NEW n \in Names \ registered, members'[leaseWorker'][n] # None
               PROVE  wfailed'[leaseWorker']
    BY <1>2 DEF ForgottenFailed
  <2>1. n # tname[t]
    BY <1>1, <1>2
  <2>2. leaseWorker = generation /\ members[leaseWorker][n] # None
    BY <1>3, <2>1
  <2>. QED  BY <1>3, <2>2 DEF Tracking, ForgottenFailed
<1>5. TrackedAsRecorded'
  <2> SUFFICES ASSUME NEW n \in registered
               PROVE  members'[leaseWorker'][n] = None \/ members'[leaseWorker'][n] = install'[n]
    BY <1>2 DEF TrackedAsRecorded
  <2>1. CASE n = tname[t]
    BY <1>1, <1>3, <2>1
  <2>2. CASE n # tname[t]
    <3>1. install'[n] = install[n]
      BY <1>1, <2>2
    <3>2. CASE leaseWorker = generation /\ members'[leaseWorker'][n] = members[leaseWorker][n]
      BY <1>2, <1>3, <3>1, <3>2 DEF Tracking, TrackedAsRecorded
    <3>. QED  BY <1>3, <2>2, <3>2
  <2>. QED  BY <2>1, <2>2
<1>6. ASSUME NEW u \in Threads, u # t PROVE NamesUntracked(u)' /\ DeploysOnce(u)'
  <2>1. /\ op[u] = "register" /\ tgen[u] = generation => tname[u] # tname[t]
        /\ Registering(u, AddSteps) => tname[u] # tname[t]
        /\ ~Starting(u, {"snapshot", "deploy"} \cup DeploySteps)
    BY <1>1, <1>6, CommitsAlone
  <2>2. leaseWorker = generation => NamesUntracked(u)
    BY <1>3 DEF Tracking, NewNamesUntracked
  <2>3. DeploysOnce(u)'
    BY <1>1, <1>6, <2>1
  <2>4. pc[u] \in AddSteps \cup {"branch", "undo"} => tname[u] \in Names /\ op[u] = "register"
    BY DEF CallMatchesStep, NameSteps
  <2>5. pc[u] \in DeploySteps => tname[u] \in Names
    BY DEF CallMatchesStep, NameSteps
  <2>6. Registering(u, AddSteps)' => members'[leaseWorker'][tname'[u]] = None
    BY <1>1, <1>3, <1>6, <2>1, <2>2, <2>4
  <2>7. Registering(u, {"branch"} \cup DeploySteps)' /\ tgen'[u] = generation'
           => members'[leaseWorker'][tname'[u]] = None
    BY <1>1, <1>3, <1>6, <2>1, <2>2, <2>4, <2>5
  <2>8. pc'[u] = "undo" /\ tgen'[u] = generation' /\ members'[leaseWorker'][tname'[u]] # None
           => wfailed'[leaseWorker']
    BY <1>1, <1>3, <1>6, <2>1, <2>2, <2>4
  <2>9. ~Starting(u, {"snapshot", "deploy"} \cup DeploySteps)'
    BY <1>1, <1>6, <2>1
  <2>. QED  BY <2>3, <2>6, <2>7, <2>8, <2>9
<1>7. NamesUntracked(t)' /\ DeploysOnce(t)'
  <2>1. CASE CommitUntracked(t) \/ CommitUnhealthy(t)
    <3>1. pc'[t] \in {"undo", "rollback"} /\ UNCHANGED tname
      BY <2>1 DEF CommitUntracked, CommitUnhealthy, Raise
    <3>2. members'[leaseWorker'][tname[t]] # None => wfailed'[leaseWorker']
      <4>1. CASE CommitUnhealthy(t)
        BY <1>3, <4>1
      <4>2. CASE CommitUntracked(t)
        <5>1. op[t] \in StartCalls \cup {"register"}
          BY <1>1 DEF CallMatchesStep
        <5>2. leaseWorker = generation => members[leaseWorker][tname[t]] = None
          BY <1>1, <1>3, <5>1 DEF Tracking, NewNamesUntracked
        <5>3. leaseWorker # generation => members[generation][tname[t]] = None
          <6>1. wpc[generation] # "none" => leaseWorker = generation
            BY <1>1, CommitFacts DEF RequireGeneration
          <6>. QED  BY <1>1, <1>3, <6>1 DEF Covered, UnusedWorkers
        <5>4. UNCHANGED members
          BY <4>2 DEF CommitUntracked
        <5>. QED  BY <1>3, <5>2, <5>3, <5>4
      <4>. QED  BY <2>1, <4>1, <4>2
    <3>. QED  BY <3>1, <3>2
  <2>2. CASE CommitStart(t)
    <3>1. pc'[t] = "deploy" /\ UNCHANGED <<op, tgen, todo>> /\ op[t] \in StartCalls
      BY <1>1, <2>2 DEF CommitStart, CallMatchesStep
    <3>2. DeploysOnce(t)
      BY DEF Tracking, StartsOnce
    <3>3. \A i \in todo[t] : i[1] # tname[t] /\ i[1] \in Names
      BY <1>1, <3>1, <3>2
    <3>4. leaseWorker = generation => \A i \in todo[t] : members[leaseWorker][i[1]] = None
      BY <1>1, <1>3, <3>1 DEF Tracking, NewNamesUntracked
    <3>5. \A i \in todo[t] : members'[leaseWorker'][i[1]] = None
      BY <1>3, <3>3, <3>4
    <3>. QED  BY <1>1, <3>1, <3>2, <3>5
  <2>3. CASE CommitRegister(t)
    <3>1. pc'[t] = "idle"
      BY <1>1, <2>3 DEF CommitRegister
    <3>. QED  BY <3>1
  <2>. QED  BY <2>1, <2>2, <2>3
<1>. QED  BY <1>4, <1>5, <1>6, <1>7 DEF Tracking, NewNamesUntracked, StartsOnce

\* A step of a deployment keeps Tracking.
LEMMA DeployStepTracks ==
    ASSUME OneRegistrar, IndInv, Hosting, Covered, Tracking, NEW t \in Threads, DeployStep(t)
    PROVE  Tracking'
<1>1. CASE Install(t, TRUE) \/ Install(t, FALSE) \/ InstallFail(t) \/ CommitStale(t)
  <2>1. /\ UNCHANGED <<generation, leaseWorker, members, wfailed, registered, install>>
        /\ UNCHANGED <<op, tgen, tname, todo>>
        /\ pc[t] \in DeploySteps
        /\ \/ pc[t] = "install" /\ pc' = [pc EXCEPT ![t] = "commit"]
           \/ pc' = [pc EXCEPT ![t] = "undo"]
           \/ pc' = [pc EXCEPT ![t] = "rollback"]
    BY <1>1 DEF Install, InstallFail, CommitStale, Raise
  <2>2. TrackersStand
    BY <2>1 DEF TrackersStand, Moves, LooseSteps
  <2>3. \A u \in Threads : pc[u] \in AfterJoin => pc'[u] \in AfterJoin
    BY <2>1
  <2>. QED  BY <2>1, <2>2, <2>3, TrackingStands
<1>. QED  BY <1>1, CommitTracks DEF DeployStep

\* A registration keeps Tracking: it begins under a healthy worker, that has
\* forgotten the name of an earlier one, and it forgets only what was not tracked.
LEMMA RegisterStepTracks ==
    ASSUME IndInv, Hosting, Tracking, NEW t \in Threads, RegisterStep(t)
    PROVE  Tracking'
<1>0. /\ UNCHANGED <<generation, leaseWorker, members, wfailed>>
      /\ op[t] = "register" /\ pc[t] \notin AfterJoin /\ pc'[t] \notin AfterJoin
      /\ \A u \in Threads : u # t =>
           /\ pc'[u] = pc[u] /\ op'[u] = op[u] /\ tgen'[u] = tgen[u]
           /\ tname'[u] = tname[u] /\ todo'[u] = todo[u]
  BY DEF RegisterStep, RegisterAdmit, RegisterRefused, HostAddCheck, HostAddStore,
         RegisterInsert, RegisterDeploys, RegisterLocal, RegisterAbandon, RegisterUndo,
         RegisterUndoBound, RegisterUnbind, Forget, CallMatchesStep
<1>a. ASSUME NEW u \in Threads, u # t
      PROVE  (leaseWorker # None => NamesUntracked(u)') /\ DeploysOnce(u)'
  BY <1>0, <1>a DEF Tracking, NewNamesUntracked, StartsOnce
<1>b. leaseWorker # None => NamesUntracked(t)
  BY DEF Tracking, NewNamesUntracked
<1>1. CASE RegisterAdmit(t)
  <2>1. /\ Healthy /\ pc[t] = "admit" /\ pc'[t] = "add"
        /\ UNCHANGED <<registered, install, op, tname, todo>>
    BY <1>1 DEF RegisterAdmit
  <2>2. tname[t] \in Names \ registered
    BY <1>0, <2>1 DEF Hosting, RegistryHosted, CallMatchesStep, NameSteps
  <2>3. leaseWorker # None => members[leaseWorker][tname[t]] = None
    BY <2>1, <2>2 DEF Healthy, Tracking, ForgottenFailed
  <2>4. (leaseWorker # None => NamesUntracked(t)') /\ DeploysOnce(t)'
    BY <1>0, <2>1, <2>3
  <2>5. ForgottenFailed' /\ TrackedAsRecorded'
    BY <1>0, <2>1 DEF Tracking, ForgottenFailed, TrackedAsRecorded
  <2>. QED  BY <1>0, <1>a, <2>4, <2>5 DEF Tracking, NewNamesUntracked, StartsOnce
<1>2. CASE RegisterInsert(t)
  <2>1. /\ pc[t] = "insert" /\ pc'[t] = "branch" /\ UNCHANGED <<op, tgen, tname, todo>>
        /\ registered' = registered \cup {tname[t]}
        /\ install' = [install EXCEPT ![tname[t]] = None]
        /\ tname[t] \in Names
    BY <1>2 DEF RegisterInsert, CallMatchesStep, NameSteps
  <2>2. leaseWorker # None => members[leaseWorker][tname[t]] = None
    BY <1>0, <1>b, <2>1
  <2>3. (leaseWorker # None => NamesUntracked(t)') /\ DeploysOnce(t)'
    BY <1>0, <2>1, <2>2
  <2>4. ForgottenFailed'
    BY <1>0, <2>1 DEF Tracking, ForgottenFailed
  <2>5. TrackedAsRecorded'
    BY <1>0, <2>1, <2>2 DEF Tracking, TrackedAsRecorded
  <2>. QED  BY <1>0, <1>a, <2>3, <2>4, <2>5 DEF Tracking, NewNamesUntracked, StartsOnce
<1>3. CASE RegisterUndo(t) \/ RegisterUndoBound(t)
  <2>1. /\ pc[t] = "undo" /\ tgen[t] = generation /\ pc'[t] \in {"idle", "unbind"}
        /\ registered' = registered \ {tname[t]}
        /\ install' = [install EXCEPT ![tname[t]] = None]
        /\ tname[t] \in Names
    BY <1>3 DEF RegisterUndo, RegisterUndoBound, Forget, CallMatchesStep, NameSteps
  <2>2. (leaseWorker # None => NamesUntracked(t)') /\ DeploysOnce(t)'
    BY <2>1
  <2>3. ForgottenFailed'
    <3>1. leaseWorker # None /\ members[leaseWorker][tname[t]] # None => wfailed[leaseWorker]
      BY <1>b, <2>1
    <3>. QED  BY <1>0, <2>1, <3>1 DEF Tracking, ForgottenFailed
  <2>4. TrackedAsRecorded'
    BY <1>0, <2>1 DEF Tracking, TrackedAsRecorded
  <2>. QED  BY <1>0, <1>a, <2>2, <2>3, <2>4 DEF Tracking, NewNamesUntracked, StartsOnce
<1>4. CASE ~RegisterAdmit(t) /\ ~RegisterInsert(t) /\ ~RegisterUndo(t) /\ ~RegisterUndoBound(t)
  <2>1. /\ UNCHANGED <<registered, install>>
        /\ \/ pc'[t] = "idle"
           \/ UNCHANGED <<op, tgen, tname, todo>> /\ Moves(pc[t], pc'[t])
    BY <1>4 DEF RegisterStep, RegisterRefused, HostAddCheck, HostAddStore, RegisterDeploys,
                RegisterLocal, RegisterAbandon, RegisterUnbind, Moves
  <2>2. TrackersStand
    BY <1>0, <2>1 DEF TrackersStand, LooseSteps
  <2>3. \A u \in Threads : pc[u] \in AfterJoin => pc'[u] \in AfterJoin
    BY <1>0
  <2>. QED  BY <1>0, <2>1, <2>2, <2>3, TrackingStands
<1>. QED  BY <1>1, <1>2, <1>3, <1>4

\* A shutdown keeps Tracking, and gives up its worker in the end.
LEMMA ShutdownStepTracks ==
    ASSUME IndInv, Hosting, Tracking, NEW t \in Threads, ShutdownStep(t)
    PROVE  Tracking'
<1>1. CASE RollbackEnter(t) \/ ServeLeave(t)
  BY <1>1, ShutdownTracks DEF RollbackEnter, ServeLeave
<1>2. CASE Release(t)
  <2>1. /\ leaseWorker' = None /\ pc' = [pc EXCEPT ![t] = "settle"]
        /\ UNCHANGED <<generation, op, locals>>
    BY <1>2 DEF Release
  <2>2. ASSUME NEW u \in Threads PROVE DeploysOnce(u)'
    <3>1. DeploysOnce(u)
      BY DEF Tracking, StartsOnce
    <3>. QED  BY <2>1, <3>1
  <2>. QED  BY <2>1, <2>2 DEF Tracking, NewNamesUntracked, StartsOnce, ForgottenFailed,
                              TrackedAsRecorded
<1>3. CASE ~RollbackEnter(t) /\ ~ServeLeave(t) /\ ~Release(t)
  <2>1. /\ UNCHANGED <<generation, leaseWorker, members, wfailed>>
        /\ \A u \in Threads : u # t =>
             /\ pc'[u] = pc[u] /\ op'[u] = op[u] /\ tgen'[u] = tgen[u]
             /\ tname'[u] = tname[u] /\ todo'[u] = todo[u]
        /\ pc'[t] \in {"idle", "join", "revoke", "hoststop", "release"}
        /\ pc[t] \in AfterJoin => pc'[t] \in AfterJoin \/ pc[t] = "settle"
        /\ UNCHANGED <<registered, install>> \/ Revoke(t)
    BY <1>3 DEF ShutdownStep, RollbackSkipped, ServeLeaveSkipped, HaltWorker, HaltNoWorker,
                JoinWorker, JoinTimeout, Revoke, RevokeDone, HostStop, Settle
  <2>2. Revoke(t) => registered' = registered /\ pc'[t] = "revoke"
    BY DEF Revoke, Hosting, RegistryHosted
  <2>3. TrackersStand
    BY <2>1 DEF TrackersStand, LooseSteps
  <2>4. \A u \in Threads : pc[u] \in AfterJoin => pc'[u] \in AfterJoin \/ leaseWorker = None
    BY <2>1 DEF NodeFollowsState
  <2>. QED  BY <2>1, <2>2, <2>3, <2>4, TrackingStands
<1>. QED  BY <1>1, <1>2, <1>3

\* A lease worker keeps Tracking.
LEMMA WorkerStepTracks ==
    ASSUME IndInv, Tracking, NEW g \in Gens, WorkerStep(g)
    PROVE  Tracking'
<1>1. /\ UNCHANGED <<generation, leaseWorker, members, registered, install, op, locals>>
      /\ \A h \in Gens : wfailed[h] => wfailed'[h]
  BY DEF WorkerStep, WorkerDue, WorkerStopped, RenewOk, RenewFail, BindingLeaseFailed,
         WorkerHostStop
<1>2. \A u \in Threads : pc'[u] = pc[u] \/ (pc[u] = "serving" /\ pc'[u] = "leave")
  BY DEF WorkerStep, WorkerDue, WorkerStopped, RenewOk, RenewFail, BindingLeaseFailed,
         WorkerHostStop, Released
<1>3. TrackersStand
  BY <1>1, <1>2 DEF TrackersStand, LooseSteps
<1>. QED  BY <1>1, <1>2, <1>3, TrackingStands

\* Every step keeps Tracking.
LEMMA TrackingNext ==
    OneRegistrar /\ IndInv /\ Hosting /\ Covered /\ Tracking /\ [Next]_vars => Tracking'
<1> SUFFICES ASSUME OneRegistrar, IndInv, Hosting, Covered, Tracking, [Next]_vars
             PROVE  Tracking'
  OBVIOUS
<1>1. ASSUME NEW t \in Threads, Call(t) \/ Continue(t) PROVE Tracking'
  BY <1>1, CallTracks, StartStepTracks, DeployStepTracks, RegisterStepTracks,
     ShutdownStepTracks DEF Continue
<1>2. ASSUME NEW a \in Acts, Expire(a) PROVE Tracking'
  BY <1>2, TrackingStands DEF Expire, TrackersStand
<1>3. CASE UNCHANGED vars
  BY <1>3, TrackingStands DEF vars, TrackersStand
<1>. QED  BY <1>1, <1>2, <1>3, WorkerStepTracks DEF Next


\* A shutdown goes on with what it has to revoke and what has failed, or is past it.
RevocationsStand ==
    \A u \in Threads : pc'[u] \in {"revoke", "hoststop", "release"} =>
        /\ err'[u] = err[u] /\ todo'[u] = todo[u]
        /\ \/ pc'[u] = pc[u]
           \/ pc[u] = "revoke" /\ todo[u] = {} /\ pc'[u] = "hoststop"
           \/ pc[u] = "hoststop" /\ pc'[u] = "release"

\* A step that registers and binds nothing that is tracked keeps the revocations.
LEMMA RevocationsKept ==
    ASSUME IndInv, RevokeCovers, CleanStopRevokes, RevocationsStand,
           UNCHANGED <<leaseWorker, members>>, 
           leaseWorker # None => \A n \in registered' :
               members[leaseWorker][n] \in live' => n \in registered /\ members[leaseWorker][n] \in live
    PROVE  RevokeCovers' /\ CleanStopRevokes'
<1>1. RevokeCovers'
  BY DEF RevokeCovers, RevocationsStand
<1>2. ASSUME NEW u \in Threads, pc'[u] \in {"hoststop", "release"}, ~err'[u], leaseWorker' # None,
             NEW n \in registered'
      PROVE  members'[leaseWorker'][n] \notin live'
  <2>1. ~err[u] /\ leaseWorker # None
    BY <1>2 DEF RevocationsStand
  <2>2. CASE pc[u] = "revoke" /\ todo[u] = {}
    BY <1>2, <2>1, <2>2 DEF RevokeCovers
  <2>3. CASE pc[u] \in {"hoststop", "release"}
    BY <1>2, <2>1, <2>3 DEF CleanStopRevokes
  <2>. QED  BY <1>2, <2>2, <2>3 DEF RevocationsStand
<1>. QED  BY <1>1, <1>2 DEF CleanStopRevokes

\* Where no shutdown is past its join there is nothing to keep.
LEMMA NoRevocations ==
    ASSUME \A u \in Threads : pc'[u] \notin {"revoke", "hoststop", "release"}
    PROVE  RevokeCovers' /\ CleanStopRevokes'
BY DEF RevokeCovers, CleanStopRevokes

\* A new call, a start and a deployment keep what a shutdown has revoked.
LEMMA StartKeepsRevocations ==
    ASSUME IndInv, RevokeCovers, CleanStopRevokes, NEW t \in Threads,
           Call(t) \/ StartStep(t) \/ DeployStep(t)
    PROVE  RevokeCovers' /\ CleanStopRevokes'
<1>1. CASE Call(t) \/ StartStep(t)
  <2>1. UNCHANGED <<leaseWorker, members, registered, live>>
    BY <1>1 DEF Call, StartEnter, ServeEnter, BeginStart, ServeActive, ServeInterrupt, StopEnter,
       BeginShutdown, RegisterEnter,
       StartStep, ConnectOk, ConnectFail, AttachOk, AttachHostFails, AttachStale, Discard,
       SnapshotRegistry, DeployNext, StartFinish, ServeStarted, StartComplete, StartRefused,
       ServeWait
  <2>2. \A u \in Threads : \/ pc'[u] = pc[u] /\ err'[u] = err[u] /\ todo'[u] = todo[u]
                           \/ pc'[u] \notin {"revoke", "hoststop", "release"}
    <3>1. CASE StopEnter(t)
      BY <3>1 DEF StopEnter, BeginShutdown, Released
    <3>2. CASE Call(t) /\ ~StopEnter(t)
      BY <3>2 DEF Call, StartEnter, ServeEnter, BeginStart, ServeActive, ServeInterrupt,
                  RegisterEnter
    <3>3. CASE StartStep(t)
      <4>1. /\ \A u \in Threads : u # t => pc'[u] = pc[u] /\ err'[u] = err[u] /\ todo'[u] = todo[u]
            /\ pc'[t] \notin ShutdownSteps
        BY <3>3 DEF StartStep, ConnectOk, ConnectFail, AttachOk, AttachHostFails, AttachStale,
                    Discard, SnapshotRegistry, DeployNext, StartFinish, ServeStarted,
                    StartComplete, StartRefused, ServeWait
      <4>. QED  BY <4>1
    <3>. QED  BY <1>1, <3>1, <3>2, <3>3
  <2>. QED  BY <2>1, <2>2, RevocationsKept DEF RevocationsStand
<1>2. CASE Install(t, TRUE) \/ Install(t, FALSE) \/ InstallFail(t) \/ CommitStale(t)
  <2>1. /\ UNCHANGED <<leaseWorker, members, registered, todo, err>>
        /\ live' \subseteq live \cup {nact + 1}
        /\ \E step \in {"commit", "undo", "rollback"} : pc' = [pc EXCEPT ![t] = step]
    BY <1>2 DEF Install, InstallFail, CommitStale, Raise
  <2>2. leaseWorker # None => \A n \in Names : members[leaseWorker][n] # nact + 1
    BY DEF ActivationsFenced
  <2>3. RevocationsStand
    BY <2>1 DEF RevocationsStand
  <2>. QED  BY <2>1, <2>2, <2>3, RevocationsKept
<1>3. CASE CommitUntracked(t) \/ CommitUnhealthy(t) \/ CommitStart(t) \/ CommitRegister(t)
  <2>1. /\ pc[t] = "commit" /\ RequireGeneration(t)
        /\ \E step \in {"undo", "rollback", "deploy", "idle"} : pc' = [pc EXCEPT ![t] = step]
    BY <1>3 DEF CommitUntracked, CommitUnhealthy, CommitStart, CommitRegister, Commit, Raise
  <2>2. \A u \in Threads : pc[u] \notin ShutdownSteps
    BY <2>1, CommitFacts
  <2>. QED  BY <2>1, <2>2, NoRevocations
<1>. QED  BY <1>1, <1>2, <1>3 DEF DeployStep

\* So does a registration: a name that it adds is not tracked.
LEMMA RegisterKeepsRevocations ==
    ASSUME IndInv, Tracking, RevokeCovers, CleanStopRevokes, NEW t \in Threads, RegisterStep(t)
    PROVE  RevokeCovers' /\ CleanStopRevokes'
<1>1. /\ UNCHANGED <<leaseWorker, members>> /\ live' \subseteq live
      /\ pc'[t] \notin {"revoke", "hoststop", "release"}
      /\ \A u \in Threads : u # t => pc'[u] = pc[u] /\ err'[u] = err[u] /\ todo'[u] = todo[u]
      /\ registered' \subseteq registered \/ RegisterInsert(t)
  BY DEF RegisterStep, RegisterAdmit, RegisterRefused, HostAddCheck, HostAddStore,
         RegisterInsert, RegisterDeploys, RegisterLocal, RegisterAbandon, RegisterUndo,
         RegisterUndoBound, RegisterUnbind, Forget
<1>2. RevocationsStand
  BY <1>1 DEF RevocationsStand
<1>3. CASE RegisterInsert(t)
  <2>1. pc[t] = "insert" /\ registered' = registered \cup {tname[t]} /\ op[t] = "register"
    BY <1>3 DEF RegisterInsert, CallMatchesStep
  <2>2. leaseWorker # None => members[leaseWorker][tname[t]] = None
    BY <2>1 DEF Tracking, NewNamesUntracked
  <2>3. None \notin live
    OBVIOUS
  <2>. QED  BY <1>1, <1>2, <2>1, <2>2, <2>3, RevocationsKept
<1>. QED  BY <1>1, <1>2, <1>3, RevocationsKept

\* A shutdown revokes what its worker tracked, or has failed.
LEMMA ShutdownRevokes ==
    ASSUME IndInv, Hosting, Tracking, RevokeCovers, CleanStopRevokes,
           NEW t \in Threads, ShutdownStep(t)
    PROVE  RevokeCovers' /\ CleanStopRevokes'
<1>0. ASSUME pc[t] \in ShutdownSteps, NEW u \in Threads, u # t PROVE pc[u] \notin ShutdownSteps
  BY <1>0 DEF OneShutdown
<1>1. CASE RollbackEnter(t) \/ ServeLeave(t)
  <2>1. pc' = [Released EXCEPT ![t] = "halt"] /\ pstate # "STOPPING"
    BY <1>1 DEF RollbackEnter, ServeLeave, BeginShutdown
  <2>2. \A u \in Threads : pc[u] \notin ShutdownSteps
    BY <2>1 DEF OneShutdown
  <2>. QED  BY <2>1, <2>2, NoRevocations DEF Released
<1>2. CASE RollbackSkipped(t) \/ ServeLeaveSkipped(t) \/ HaltWorker(t) \/ RevokeDone(t) \/ HostStop(t) \/ Settle(t)
  <2>1. /\ UNCHANGED <<leaseWorker, members, registered, live>>
        /\ \A u \in Threads : u # t => pc'[u] = pc[u] /\ err'[u] = err[u] /\ todo'[u] = todo[u]
        /\ \/ pc'[t] \in {"idle", "join"}
           \/ /\ err'[t] = err[t] /\ todo'[t] = todo[t]
              /\ \/ pc[t] = "revoke" /\ todo[t] = {} /\ pc'[t] = "hoststop"
                 \/ pc[t] = "hoststop" /\ pc'[t] = "release"
    BY <1>2 DEF RollbackSkipped, ServeLeaveSkipped, HaltWorker, RevokeDone, HostStop, Settle
  <2>2. RevocationsStand
    BY <2>1 DEF RevocationsStand
  <2>. QED  BY <2>1, <2>2, RevocationsKept
<1>3. CASE HaltNoWorker(t) \/ Release(t)
  <2>1. leaseWorker' = None
    BY <1>3 DEF HaltNoWorker, Release
  <2>. QED  BY <2>1 DEF RevokeCovers, CleanStopRevokes
<1>4. CASE JoinWorker(t)
  <2>1. /\ pc[t] = "join" /\ pc' = [pc EXCEPT ![t] = "revoke"]
        /\ todo' = [todo EXCEPT ![t] = RegistrySnapshot]
        /\ UNCHANGED <<leaseWorker, members, registered, live, install, err>>
    BY <1>4 DEF JoinWorker
  <2>2. \A u \in Threads : pc[u] \notin AfterJoin
    BY <1>0, <2>1
  <2>3. ASSUME NEW n \in registered, leaseWorker # None, members[leaseWorker][n] \in live
        PROVE  <<n, members[leaseWorker][n]>> \in RegistrySnapshot
    <3>1. members[leaseWorker][n] = install[n]
      BY <2>2, <2>3 DEF Tracking, TrackedAsRecorded
    <3>. QED  BY <3>1 DEF RegistrySnapshot
  <2>4. RevokeCovers'
    BY <2>1, <2>2, <2>3 DEF RevokeCovers
  <2>5. CleanStopRevokes'
    BY <2>1, <2>2 DEF CleanStopRevokes
  <2>. QED  BY <2>4, <2>5
<1>5. CASE JoinTimeout(t)
  <2>1. pc[t] = "join" /\ err'[t] /\ pc' = [pc EXCEPT ![t] = "hoststop"]
    BY <1>5 DEF JoinTimeout
  <2>. QED  BY <1>0, <2>1 DEF RevokeCovers, CleanStopRevokes
<1>6. CASE Revoke(t)
  <2>1. pc[t] = "revoke" /\ UNCHANGED <<leaseWorker, members, pc>>
    BY <1>6 DEF Revoke
  <2>2. PICK item \in todo[t] : /\ todo' = [todo EXCEPT ![t] = @ \ {item}]
                                /\ registered' = registered \cup {item[1]}
                                /\ \/ live' = live \ {item[2]} /\ UNCHANGED err
                                   \/ err' = [err EXCEPT ![t] = TRUE] /\ UNCHANGED live
    BY <1>6 DEF Revoke
  <2>3. registered' = registered
    BY <2>1, <2>2 DEF Hosting, RegistryHosted
  <2>4. CleanStopRevokes'
    BY <1>0, <2>1 DEF CleanStopRevokes
  <2>5. ASSUME NEW n \in registered, ~err'[t], leaseWorker # None, members[leaseWorker][n] \in live'
        PROVE  <<n, members[leaseWorker][n]>> \in todo'[t]
    <3>1. live' = live \ {item[2]} /\ ~err[t]
      BY <2>2, <2>5
    <3>2. <<n, members[leaseWorker][n]>> \in todo[t]
      BY <2>1, <2>5, <3>1 DEF RevokeCovers
    <3>3. members[leaseWorker][n] # item[2]
      BY <2>5, <3>1
    <3>. QED  BY <2>2, <3>2, <3>3
  <2>6. RevokeCovers'
    BY <1>0, <2>1, <2>3, <2>5 DEF RevokeCovers
  <2>. QED  BY <2>4, <2>6
<1>. QED  BY <1>1, <1>2, <1>3, <1>4, <1>5, <1>6 DEF ShutdownStep

\* A lease worker revokes nothing.
LEMMA WorkerKeepsRevocations ==
    ASSUME IndInv, RevokeCovers, CleanStopRevokes, NEW g \in Gens, WorkerStep(g)
    PROVE  RevokeCovers' /\ CleanStopRevokes'
<1>1. UNCHANGED <<leaseWorker, members, registered, live, todo, err>>
  BY DEF WorkerStep, WorkerDue, WorkerStopped, RenewOk, RenewFail, BindingLeaseFailed,
         WorkerHostStop
<1>2. \A u \in Threads : pc'[u] = pc[u] \/ pc'[u] = "leave"
  BY DEF WorkerStep, WorkerDue, WorkerStopped, RenewOk, RenewFail, BindingLeaseFailed,
         WorkerHostStop, Released
<1>3. RevocationsStand
  BY <1>1, <1>2 DEF RevocationsStand
<1>. QED  BY <1>1, <1>3, RevocationsKept

\* Every step keeps Revoking.
LEMMA RevokingNext ==
    OneRegistrar /\ IndInv /\ Hosting /\ Covered /\ Revoking /\ [Next]_vars => Revoking'
<1> SUFFICES ASSUME OneRegistrar, IndInv, Hosting, Covered, Revoking, [Next]_vars
             PROVE  Revoking'
  OBVIOUS
<1>1. Tracking /\ RevokeCovers /\ CleanStopRevokes /\ Tracking'
  BY TrackingNext DEF Revoking
<1>2. ASSUME NEW t \in Threads, Call(t) \/ Continue(t) PROVE RevokeCovers' /\ CleanStopRevokes'
  BY <1>1, <1>2, StartKeepsRevocations, RegisterKeepsRevocations, ShutdownRevokes DEF Continue
<1>3. ASSUME NEW a \in Acts, Expire(a) PROVE RevokeCovers' /\ CleanStopRevokes'
  BY <1>1, <1>3, RevocationsKept DEF Expire, RevocationsStand
<1>4. ASSUME UNCHANGED vars PROVE RevokeCovers' /\ CleanStopRevokes'
  BY <1>1, <1>4, RevocationsKept DEF vars, RevocationsStand
<1>. QED  BY <1>1, <1>2, <1>3, <1>4, WorkerKeepsRevocations DEF Next, Revoking

\* A shutdown that reports no failure has revoked what its worker tracked for the
\* registered abilities (CleanStopRevokes).
THEOREM CleanStops == OneRegistrar => (Spec => []CleanStopRevokes)
<1> SUFFICES ASSUME OneRegistrar PROVE Spec => []CleanStopRevokes
  OBVIOUS
<1>1. Init => Covered /\ Hosting /\ Revoking
  BY DEF Init, Covered, InstallsRegistered, UnusedWorkers, StartCovers, ActiveCovers,
         Hosting, StartersApart, RegistryHosted,
         Revoking, Tracking, NewNamesUntracked, StartsOnce, ForgottenFailed, TrackedAsRecorded,
         RevokeCovers, CleanStopRevokes
<1>2. Revoking => CleanStopRevokes
  BY DEF Revoking
<1>3. IndInv /\ Covered /\ Hosting /\ Revoking /\ [Next]_vars => (Covered /\ Hosting /\ Revoking)'
  BY CoveredNext, HostingNext, RevokingNext
<1>. QED  BY <1>1, <1>2, <1>3, InitInv, NextInv, PTL DEF Spec
=============================================================================
