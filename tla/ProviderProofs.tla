--------------------------- MODULE ProviderProofs ---------------------------
(***************************************************************************)
(* The theorems about Provider, for every set of threads, every set of     *)
(* names and every bound: IndInv (ProviderInv) is inductive, so the types, *)
(* the fence on renewals and the fence on HostServer.stop() hold in every  *)
(* reachable state, and every behaviour is one of ProviderContract.        *)
(***************************************************************************)
EXTENDS ProviderInv, FiniteSetTheorems, TLAPS

-----------------------------------------------------------------------------
(* Types.  TypeOK is not inductive alone: a register() that commits needs    *)
(* its ability name, a deployment the bound on the generation, a connection  *)
(* the generation that opens it.                                             *)

USE ThreadsAssumption, BoundsAssumption DEF Gens, Acts, None
USE DEF shared, nodeVars, hostVars, registryVars, workerVars, runtimeVars,
        threadVars, locals
USE DEF IndInv, TypeOK, Goto

SharedTypeOK == NodeTypeOK /\ WorkerTypeOK /\ RuntimeTypeOK

\* The control states the steps lead to are control states.
LEMMA StepNames ==
    {"idle", "rollback", "connect", "attach", "discard", "snapshot", "deploy",
     "admit", "add", "put", "insert", "branch", "undo", "unbind",
     "halt", "join", "revoke", "hoststop", "release", "settle", "install",
     "commit", "await", "serving", "leave"} \subseteq Steps
BY DEF Steps, StartSteps, RegisterSteps, ShutdownSteps, DeploySteps, ServeSteps

\* A step that leaves the shared state alone keeps its types.
LEMMA SharedTypes ==
    ASSUME IndInv, UNCHANGED shared
    PROVE  SharedTypeOK'
BY DEF SharedTypeOK, NodeTypeOK, WorkerTypeOK, RuntimeTypeOK

\* A call that returns keeps the types of the threads.
LEMMA ReturnTypes ==
    ASSUME IndInv, NEW t \in Threads, Return(t)
    PROVE  ControlTypeOK' /\ LocalsTypeOK'
<1>1. ControlTypeOK'
  BY StepNames DEF ControlTypeOK, Return
<1>2. LocalsTypeOK'
  BY DEF LocalsTypeOK, Return, DropLocals
<1>. QED  BY <1>1, <1>2

\* So does a step to another control state with the locals as they are.
LEMMA MoveTypes ==
    ASSUME IndInv, NEW t \in Threads, NEW step \in Steps, Goto(t, step),
           UNCHANGED <<op, locals>>
    PROVE  ControlTypeOK' /\ LocalsTypeOK'
BY DEF ControlTypeOK, LocalsTypeOK

\* The bindings of the registry and their activations are what the locals of a
\* shutdown or a start may hold.
LEMMA SnapshotTypes ==
    ASSUME IndInv
    PROVE  RegistrySnapshot \subseteq Names \X (Acts \cup {None})
BY DEF RegistrySnapshot, NodeTypeOK

\* Both kinds of start keep the types.
LEMMA BeginStartTypes ==
    ASSUME IndInv, NEW t \in Threads, NEW call \in {"start", "serve"},
           BeginStart(t, call)
    PROVE  TypeOK'
<1>1. generation' \in 0..MaxGen /\ pstate' \in ProviderStates
  BY DEF BeginStart, NodeTypeOK, ProviderStates
<1>2. NodeTypeOK'
  BY <1>1 DEF BeginStart, NodeTypeOK
<1>3. WorkerTypeOK' /\ RuntimeTypeOK'
  BY DEF BeginStart, WorkerTypeOK, RuntimeTypeOK
<1>4. ControlTypeOK'
  BY StepNames DEF BeginStart, ControlTypeOK
<1>5. LocalsTypeOK'
  BY <1>1 DEF BeginStart, LocalsTypeOK
<1>. QED  BY <1>2, <1>3, <1>4, <1>5

\* A shutdown begins on a provider that runs, so the bound leaves room for its
\* generation.
LEMMA BeginShutdownTypes ==
    ASSUME IndInv, NEW t \in Threads, BeginShutdown(t),
           pstate \notin {"STOPPED", "STOPPING"},
           op' \in [Threads -> {"none", "serve", "start", "stop", "register"}]
    PROVE  TypeOK'
<1>1. generation \in 1..(MaxGen - 1)
  BY DEF Control, GenerationBounds, Running, NodeTypeOK, ProviderStates
<1>2. generation' \in 0..MaxGen /\ pstate' \in ProviderStates
  BY <1>1 DEF BeginShutdown, ProviderStates
<1>3. NodeTypeOK'
  BY <1>2 DEF BeginShutdown, NodeTypeOK
<1>4. WorkerTypeOK' /\ RuntimeTypeOK'
  BY DEF BeginShutdown, WorkerTypeOK, RuntimeTypeOK
<1>5. ControlTypeOK'
  BY StepNames DEF BeginShutdown, Released, ControlTypeOK
<1>6. LocalsTypeOK'
  BY DEF BeginShutdown, LocalsTypeOK
<1>. QED  BY <1>3, <1>4, <1>5, <1>6

\* Raise leads to the handler of the call.
LEMMA RaiseTypes ==
    ASSUME IndInv, NEW t \in Threads, Raise(t), UNCHANGED op
    PROVE  ControlTypeOK'
BY StepNames DEF Raise, ControlTypeOK

\* A commit concerns a named ability, an activation and the worker of a
\* generation.
LEMMA CommitTypes ==
    ASSUME IndInv, NEW t \in Threads, pc[t] = "commit", RequireGeneration(t)
    PROVE  tname[t] \in Names /\ act[t] \in Acts \cup {None} /\ TrackingWorker \in Gens
<1>1. tname[t] \in Names /\ act[t] \in Acts \cup {None}
  BY DEF Control, CallMatchesStep, NameSteps, LocalsTypeOK
<1>2. generation \in Gens
  BY DEF Control, GenerationFence, GenerationBounds, RequireGeneration, Running, DeploySteps
<1>. QED  BY <1>1, <1>2 DEF TrackingWorker, NodeTypeOK

\* Track puts the types of the lease workers in no danger.
LEMMA TrackTypes ==
    ASSUME IndInv, NEW t \in Threads, Commit(t)
    PROVE  /\ WorkerTypeOK' /\ RuntimeTypeOK'
           /\ leaseWorker' \in Gens /\ registered' \subseteq Names
           /\ install' \in [Names -> Acts \cup {None}]
<1>1. tname[t] \in Names /\ act[t] \in Acts \cup {None} /\ TrackingWorker \in Gens
  BY CommitTypes DEF Commit
<1>2. leaseWorker' \in Gens /\ registered' \subseteq Names
      /\ install' \in [Names -> Acts \cup {None}]
  BY <1>1 DEF Commit, Track, NodeTypeOK
<1>3. RuntimeTypeOK'
  BY DEF Commit, RuntimeTypeOK
<1>4. members' \in [Gens -> [Names -> Acts \cup {None}]]
  BY <1>1 DEF Commit, Track, WorkerTypeOK
<1>5. wpc' \in [Gens -> WorkerStates]
  BY <1>1 DEF Commit, Track, WorkerTypeOK, WorkerStates
<1>6. WorkerTypeOK'
  BY <1>4, <1>5 DEF Commit, WorkerTypeOK
<1>. QED  BY <1>2, <1>3, <1>6

\* A new call of a thread keeps the types.
LEMMA CallKeepsTypes ==
    ASSUME IndInv, NEW t \in Threads, Call(t)
    PROVE  TypeOK'
<1>1. CASE StartEnter(t)
  BY <1>1, BeginStartTypes DEF StartEnter
<1>2. CASE ServeEnter(t)
  BY <1>2, BeginStartTypes DEF ServeEnter
<1>3. CASE ServeActive(t)
  <2>1. ControlTypeOK' /\ LocalsTypeOK'
    BY <1>3, StepNames DEF ServeActive, ControlTypeOK, LocalsTypeOK
  <2>. QED  BY <1>3, <2>1, SharedTypes DEF ServeActive, SharedTypeOK
<1>4. CASE ServeInterrupt(t)
  BY <1>4, SharedTypes, MoveTypes, StepNames DEF ServeInterrupt, SharedTypeOK
<1>5. CASE StopEnter(t)
  <2>1. op' \in [Threads -> {"none", "serve", "start", "stop", "register"}]
    BY <1>5 DEF StopEnter, ControlTypeOK
  <2>. QED  BY <1>5, <2>1, BeginShutdownTypes DEF StopEnter
<1>6. CASE \E n \in Names : RegisterEnter(t, n)
  <2>1. SharedTypeOK'
    BY <1>6, SharedTypes DEF RegisterEnter
  <2>2. ControlTypeOK'
    BY <1>6, StepNames DEF RegisterEnter, ControlTypeOK
  <2>3. LocalsTypeOK'
    BY <1>6 DEF RegisterEnter, LocalsTypeOK
  <2>. QED  BY <2>1, <2>2, <2>3 DEF SharedTypeOK
<1>. QED
  BY <1>1, <1>2, <1>3, <1>4, <1>5, <1>6 DEF Call

\* The steps of start() and serve() keep the types.
LEMMA StartStepKeepsTypes ==
    ASSUME IndInv, NEW t \in Threads, StartStep(t)
    PROVE  TypeOK'
<1>1. CASE ConnectOk(t)
  <2>1. NodeTypeOK' /\ WorkerTypeOK'
    BY <1>1 DEF ConnectOk, NodeTypeOK, WorkerTypeOK
  <2>2. tgen[t] \in Gens
    BY <1>1 DEF ConnectOk, Control, CallMatchesStep, LocalsTypeOK
  <2>3. RuntimeTypeOK'
    BY <1>1, <2>2 DEF ConnectOk, RuntimeTypeOK
  <2>. QED  BY <1>1, <2>1, <2>3, MoveTypes, StepNames DEF ConnectOk
<1>2. CASE ConnectFail(t)
  BY <1>2, SharedTypes, MoveTypes, StepNames DEF ConnectFail, SharedTypeOK
<1>3. CASE AttachOk(t)
  <2>1. tgen[t] \in Gens
    BY <1>3 DEF AttachOk, Control, CallMatchesStep, LocalsTypeOK
  <2>2. NodeTypeOK'
    BY <1>3, <2>1 DEF AttachOk, NodeTypeOK, PublicationStates
  <2>3. WorkerTypeOK' /\ RuntimeTypeOK'
    BY <1>3 DEF AttachOk, WorkerTypeOK, RuntimeTypeOK
  <2>. QED  BY <1>3, <2>2, <2>3, MoveTypes, StepNames DEF AttachOk
<1>4. CASE AttachHostFails(t)
  <2>1. tgen[t] \in Gens
    BY <1>4 DEF AttachHostFails, Control, CallMatchesStep, LocalsTypeOK
  <2>2. NodeTypeOK'
    BY <1>4, <2>1 DEF AttachHostFails, NodeTypeOK, PublicationStates
  <2>3. WorkerTypeOK' /\ RuntimeTypeOK'
    BY <1>4 DEF AttachHostFails, WorkerTypeOK, RuntimeTypeOK
  <2>. QED  BY <1>4, <2>2, <2>3, MoveTypes, StepNames DEF AttachHostFails
<1>5. CASE AttachStale(t)
  BY <1>5, SharedTypes, MoveTypes, StepNames DEF AttachStale, SharedTypeOK
<1>6. CASE Discard(t)
  <2>1. NodeTypeOK'
    BY <1>6 DEF Discard, NodeTypeOK, ProviderStates, PublicationStates
  <2>2. WorkerTypeOK'
    BY <1>6 DEF Discard, NodeTypeOK, WorkerTypeOK, WorkerStates
  <2>3. RuntimeTypeOK'
    BY <1>6 DEF Discard, NodeTypeOK, RuntimeTypeOK, LocalsTypeOK
  <2>4. ControlTypeOK' /\ LocalsTypeOK'
    BY <1>6, MoveTypes, StepNames DEF Discard
  <2>. QED  BY <2>1, <2>2, <2>3, <2>4
<1>7. CASE SnapshotRegistry(t)
  <2>1. SharedTypeOK'
    BY <1>7, SharedTypes DEF SnapshotRegistry, RegistrySnapshot
  <2>2. ControlTypeOK'
    BY <1>7, StepNames DEF SnapshotRegistry, RegistrySnapshot,
         ControlTypeOK
  <2>3. LocalsTypeOK'
    BY <1>7, SnapshotTypes DEF SnapshotRegistry, LocalsTypeOK,
         NodeTypeOK, DropLocals
  <2>. QED  BY <2>1, <2>2, <2>3 DEF SharedTypeOK
<1>8. CASE DeployNext(t)
  <2>1. SharedTypeOK'
    BY <1>8, SharedTypes DEF DeployNext
  <2>2. ControlTypeOK'
    BY <1>8, StepNames DEF DeployNext, ControlTypeOK
  <2>3. LocalsTypeOK'
    BY <1>8 DEF DeployNext, LocalsTypeOK, NodeTypeOK, DropLocals
  <2>. QED  BY <2>1, <2>2, <2>3 DEF SharedTypeOK
<1>9. CASE StartFinish(t)
  <2>1. NodeTypeOK'
    BY <1>9 DEF StartFinish, StartComplete, NodeTypeOK, ProviderStates,
         PublicationStates
  <2>2. WorkerTypeOK'
    BY <1>9 DEF StartFinish, StartComplete, NodeTypeOK, WorkerTypeOK,
         WorkerStates
  <2>3. RuntimeTypeOK'
    BY <1>9 DEF StartFinish, StartComplete, NodeTypeOK, RuntimeTypeOK,
         LocalsTypeOK
  <2>4. ControlTypeOK' /\ LocalsTypeOK'
    BY <1>9, ReturnTypes DEF StartFinish, StartComplete
  <2>. QED  BY <2>1, <2>2, <2>3, <2>4
<1>10. CASE ServeStarted(t)
  <2>1. NodeTypeOK'
    BY <1>10 DEF ServeStarted, StartComplete, NodeTypeOK,
         ProviderStates, PublicationStates
  <2>2. WorkerTypeOK'
    BY <1>10 DEF ServeStarted, StartComplete, NodeTypeOK, WorkerTypeOK,
         WorkerStates
  <2>3. RuntimeTypeOK'
    BY <1>10 DEF ServeStarted, StartComplete, NodeTypeOK,
         RuntimeTypeOK, LocalsTypeOK
  <2>4. ControlTypeOK'
    BY <1>10, StepNames DEF ServeStarted, StartComplete, ControlTypeOK
  <2>5. LocalsTypeOK'
    BY <1>10 DEF ServeStarted, StartComplete, LocalsTypeOK, NodeTypeOK,
         DropLocals
  <2>. QED  BY <2>1, <2>2, <2>3, <2>4, <2>5
<1>11. CASE StartRefused(t)
  BY <1>11, SharedTypes, MoveTypes, StepNames DEF StartRefused, SharedTypeOK
<1>12. CASE ServeWait(t)
  BY <1>12, SharedTypes, MoveTypes, StepNames DEF ServeWait, SharedTypeOK
<1>. QED
  BY <1>1, <1>2, <1>3, <1>4, <1>5, <1>6, <1>7, <1>8, <1>9, <1>10, <1>11, <1>12
     DEF StartStep

\* _deploy() and the commit of its result keep the types.
LEMMA DeployStepKeepsTypes ==
    ASSUME IndInv, NEW t \in Threads, DeployStep(t)
    PROVE  TypeOK'
<1>1. CASE Install(t, TRUE)
  <2>1. NodeTypeOK' /\ WorkerTypeOK'
    BY <1>1 DEF Install, NodeTypeOK, WorkerTypeOK
  <2>2. nact + 1 \in Acts /\ tgen[t] \in 0..MaxGen
    BY <1>1 DEF Install, RuntimeTypeOK, LocalsTypeOK
  <2>3. RuntimeTypeOK'
    BY <1>1, <2>2 DEF Install, RuntimeTypeOK
  <2>4. ControlTypeOK'
    BY <1>1, StepNames, RaiseTypes DEF Install, ControlTypeOK
  <2>5. LocalsTypeOK'
    BY <1>1, <2>2 DEF Install, LocalsTypeOK
  <2>. QED  BY <2>1, <2>3, <2>4, <2>5
<1>2. CASE Install(t, FALSE)
  <2>1. NodeTypeOK' /\ WorkerTypeOK'
    BY <1>2 DEF Install, NodeTypeOK, WorkerTypeOK
  <2>2. nact + 1 \in Acts /\ tgen[t] \in 0..MaxGen
    BY <1>2 DEF Install, RuntimeTypeOK, LocalsTypeOK
  <2>3. RuntimeTypeOK'
    BY <1>2, <2>2 DEF Install, RuntimeTypeOK
  <2>4. ControlTypeOK'
    BY <1>2, StepNames, RaiseTypes DEF Install, ControlTypeOK
  <2>5. LocalsTypeOK'
    BY <1>2, <2>2 DEF Install, LocalsTypeOK
  <2>. QED  BY <2>1, <2>3, <2>4, <2>5
<1>3. CASE InstallFail(t)
  BY <1>3, SharedTypes, MoveTypes, StepNames DEF InstallFail, Raise, SharedTypeOK
<1>4. CASE CommitStale(t)
  BY <1>4, SharedTypes, MoveTypes, StepNames DEF CommitStale, Raise, SharedTypeOK
<1>5. CASE CommitUntracked(t)
  <2>1. WorkerTypeOK' /\ RuntimeTypeOK'
    BY <1>5 DEF CommitUntracked, WorkerTypeOK, RuntimeTypeOK
  <2>2. NodeTypeOK'
    BY <1>5, CommitTypes DEF CommitUntracked, NodeTypeOK
  <2>3. ControlTypeOK'
    BY <1>5, RaiseTypes DEF CommitUntracked
  <2>4. LocalsTypeOK'
    BY <1>5 DEF CommitUntracked, LocalsTypeOK
  <2>. QED  BY <2>1, <2>2, <2>3, <2>4
<1>6. CASE CommitUnhealthy(t)
  <2>1. tname[t] \in Names /\ act[t] \in Acts \cup {None} /\ leaseWorker \in Gens
    BY <1>6, CommitTypes DEF CommitUnhealthy, NodeTypeOK
  <2>2. WorkerTypeOK' /\ RuntimeTypeOK'
    BY <1>6, <2>1 DEF CommitUnhealthy, WorkerTypeOK, WorkerStates, RuntimeTypeOK
  <2>3. NodeTypeOK'
    BY <1>6, <2>1 DEF CommitUnhealthy, NodeTypeOK
  <2>4. ControlTypeOK'
    BY <1>6, RaiseTypes DEF CommitUnhealthy
  <2>5. LocalsTypeOK'
    BY <1>6 DEF CommitUnhealthy, LocalsTypeOK
  <2>. QED  BY <2>2, <2>3, <2>4, <2>5
<1>7. CASE CommitStart(t)
  <2>1. WorkerTypeOK' /\ RuntimeTypeOK'
    BY <1>7, TrackTypes DEF CommitStart
  <2>2. NodeTypeOK'
    BY <1>7, TrackTypes DEF CommitStart, Commit, NodeTypeOK
  <2>3. ControlTypeOK'
    BY <1>7, StepNames DEF CommitStart, ControlTypeOK
  <2>4. LocalsTypeOK'
    BY <1>7 DEF CommitStart, LocalsTypeOK
  <2>. QED  BY <2>1, <2>2, <2>3, <2>4
<1>8. CASE CommitRegister(t)
  <2>1. WorkerTypeOK' /\ RuntimeTypeOK'
    BY <1>8, TrackTypes DEF CommitRegister
  <2>2. NodeTypeOK'
    BY <1>8, TrackTypes DEF CommitRegister, Commit, NodeTypeOK, PublicationStates
  <2>3. ControlTypeOK' /\ LocalsTypeOK'
    BY <1>8, ReturnTypes DEF CommitRegister
  <2>. QED  BY <2>1, <2>2, <2>3
<1>. QED
  BY <1>1, <1>2, <1>3, <1>4, <1>5, <1>6, <1>7, <1>8 DEF DeployStep

\* The steps of register() keep the types.
LEMMA RegisterStepKeepsTypes ==
    ASSUME IndInv, NEW t \in Threads, RegisterStep(t)
    PROVE  TypeOK'
<1>1. CASE RegisterAdmit(t)
  <2>1. SharedTypeOK'
    BY <1>1, SharedTypes DEF RegisterAdmit
  <2>2. ControlTypeOK'
    BY <1>1, StepNames DEF RegisterAdmit, ControlTypeOK
  <2>3. LocalsTypeOK'
    BY <1>1 DEF RegisterAdmit, LocalsTypeOK, NodeTypeOK, DropLocals
  <2>. QED  BY <2>1, <2>2, <2>3 DEF SharedTypeOK
<1>2. CASE RegisterRefused(t)
  BY <1>2, SharedTypes, ReturnTypes DEF RegisterRefused, SharedTypeOK
<1>3. CASE HostAddCheck(t) /\ tname[t] \in hosted
  BY <1>3, SharedTypes, ReturnTypes DEF HostAddCheck, SharedTypeOK
<1>4. CASE HostAddCheck(t) /\ tname[t] \notin hosted
  BY <1>4, SharedTypes, MoveTypes, StepNames DEF HostAddCheck, SharedTypeOK
<1>5. CASE HostAddStore(t)
  <2>1. tname[t] \in Names
    BY <1>5 DEF HostAddStore, Control, CallMatchesStep, NameSteps
  <2>2. NodeTypeOK'
    BY <1>5, <2>1 DEF HostAddStore, NodeTypeOK
  <2>3. WorkerTypeOK' /\ RuntimeTypeOK'
    BY <1>5 DEF HostAddStore, WorkerTypeOK, RuntimeTypeOK
  <2>. QED  BY <1>5, <2>2, <2>3, MoveTypes, StepNames DEF HostAddStore
<1>6. CASE RegisterInsert(t)
  <2>1. tname[t] \in Names
    BY <1>6 DEF RegisterInsert, Control, CallMatchesStep, NameSteps
  <2>2. NodeTypeOK'
    BY <1>6, <2>1 DEF RegisterInsert, NodeTypeOK
  <2>3. WorkerTypeOK' /\ RuntimeTypeOK'
    BY <1>6 DEF RegisterInsert, WorkerTypeOK, RuntimeTypeOK
  <2>. QED  BY <1>6, <2>2, <2>3, MoveTypes, StepNames DEF RegisterInsert
<1>7. CASE RegisterDeploys(t)
  BY <1>7, SharedTypes, MoveTypes, StepNames DEF RegisterDeploys, SharedTypeOK
<1>8. CASE RegisterLocal(t)
  BY <1>8, SharedTypes, ReturnTypes DEF RegisterLocal, SharedTypeOK
<1>9. CASE RegisterAbandon(t)
  BY <1>9, SharedTypes, ReturnTypes DEF RegisterAbandon, SharedTypeOK
<1>10. CASE RegisterUndo(t)
  <2>1. NodeTypeOK'
    BY <1>10 DEF RegisterUndo, Forget, NodeTypeOK, ProviderStates,
         PublicationStates
  <2>2. WorkerTypeOK'
    BY <1>10 DEF RegisterUndo, Forget, NodeTypeOK, WorkerTypeOK,
         WorkerStates
  <2>3. RuntimeTypeOK'
    BY <1>10 DEF RegisterUndo, Forget, NodeTypeOK, RuntimeTypeOK,
         LocalsTypeOK
  <2>4. ControlTypeOK' /\ LocalsTypeOK'
    BY <1>10, ReturnTypes DEF RegisterUndo, Forget
  <2>. QED  BY <2>1, <2>2, <2>3, <2>4
<1>11. CASE RegisterUndoBound(t)
  <2>1. tname[t] \in Names
    BY <1>11 DEF RegisterUndoBound, Control, CallMatchesStep, NameSteps
  <2>2. NodeTypeOK'
    BY <1>11, <2>1 DEF RegisterUndoBound, Forget, NodeTypeOK
  <2>3. WorkerTypeOK' /\ RuntimeTypeOK'
    BY <1>11 DEF RegisterUndoBound, WorkerTypeOK, RuntimeTypeOK
  <2>4. ControlTypeOK'
    BY <1>11, StepNames DEF RegisterUndoBound, ControlTypeOK
  <2>5. install[tname[t]] \in Acts \cup {None}
    BY <2>1 DEF NodeTypeOK
  <2>6. LocalsTypeOK'
    BY <1>11, <2>5 DEF RegisterUndoBound, LocalsTypeOK
  <2>. QED  BY <2>2, <2>3, <2>4, <2>6
<1>12. CASE RegisterUnbind(t)
  <2>1. NodeTypeOK'
    BY <1>12 DEF RegisterUnbind, NodeTypeOK, ProviderStates,
         PublicationStates
  <2>2. WorkerTypeOK'
    BY <1>12 DEF RegisterUnbind, NodeTypeOK, WorkerTypeOK, WorkerStates
  <2>3. RuntimeTypeOK'
    BY <1>12 DEF RegisterUnbind, NodeTypeOK, RuntimeTypeOK,
         LocalsTypeOK
  <2>4. ControlTypeOK' /\ LocalsTypeOK'
    BY <1>12, ReturnTypes DEF RegisterUnbind
  <2>. QED  BY <2>1, <2>2, <2>3, <2>4
<1>. QED
  BY <1>1, <1>2, <1>3, <1>4, <1>5, <1>6, <1>7, <1>8, <1>9, <1>10, <1>11, <1>12
     DEF RegisterStep

\* The steps of _shutdown() keep the types.
LEMMA ShutdownStepKeepsTypes ==
    ASSUME IndInv, NEW t \in Threads, ShutdownStep(t)
    PROVE  TypeOK'
<1>1. CASE RollbackEnter(t)
  BY <1>1, BeginShutdownTypes DEF RollbackEnter, ControlTypeOK
<1>2. CASE RollbackSkipped(t)
  BY <1>2, SharedTypes, ReturnTypes DEF RollbackSkipped, SharedTypeOK
<1>3. CASE ServeLeave(t)
  BY <1>3, BeginShutdownTypes DEF ServeLeave, ControlTypeOK
<1>4. CASE ServeLeaveSkipped(t)
  BY <1>4, SharedTypes, ReturnTypes DEF ServeLeaveSkipped, SharedTypeOK
<1>5. CASE HaltWorker(t)
  <2>1. NodeTypeOK'
    BY <1>5 DEF HaltWorker, NodeTypeOK, ProviderStates,
         PublicationStates
  <2>2. WorkerTypeOK'
    BY <1>5 DEF HaltWorker, NodeTypeOK, WorkerTypeOK, WorkerStates
  <2>3. RuntimeTypeOK'
    BY <1>5 DEF HaltWorker, NodeTypeOK, RuntimeTypeOK, LocalsTypeOK
  <2>4. ControlTypeOK' /\ LocalsTypeOK'
    BY <1>5, MoveTypes, StepNames DEF HaltWorker
  <2>. QED  BY <2>1, <2>2, <2>3, <2>4
<1>6. CASE HaltNoWorker(t)
  <2>1. SharedTypeOK'
    BY <1>6, SharedTypes DEF HaltNoWorker, RegistrySnapshot
  <2>2. ControlTypeOK'
    BY <1>6, StepNames DEF HaltNoWorker, RegistrySnapshot,
         ControlTypeOK
  <2>3. LocalsTypeOK'
    BY <1>6, SnapshotTypes DEF HaltNoWorker, LocalsTypeOK, NodeTypeOK,
         DropLocals
  <2>. QED  BY <2>1, <2>2, <2>3 DEF SharedTypeOK
<1>7. CASE JoinWorker(t)
  <2>1. SharedTypeOK'
    BY <1>7, SharedTypes DEF JoinWorker, RegistrySnapshot
  <2>2. ControlTypeOK'
    BY <1>7, StepNames DEF JoinWorker, RegistrySnapshot, ControlTypeOK
  <2>3. LocalsTypeOK'
    BY <1>7, SnapshotTypes DEF JoinWorker, LocalsTypeOK, NodeTypeOK,
         DropLocals
  <2>. QED  BY <2>1, <2>2, <2>3 DEF SharedTypeOK
<1>8. CASE JoinTimeout(t)
  <2>1. SharedTypeOK'
    BY <1>8, SharedTypes DEF JoinTimeout
  <2>2. ControlTypeOK'
    BY <1>8, StepNames DEF JoinTimeout, ControlTypeOK
  <2>3. LocalsTypeOK'
    BY <1>8 DEF JoinTimeout, LocalsTypeOK, NodeTypeOK, DropLocals
  <2>. QED  BY <2>1, <2>2, <2>3 DEF SharedTypeOK
<1>9. CASE Revoke(t)
  <2>. PICK item \in todo[t] :
         /\ todo' = [todo EXCEPT ![t] = @ \ {item}]
         /\ registered' = registered \cup {item[1]}
         /\ install' = [install EXCEPT ![item[1]] = None]
    BY <1>9 DEF Revoke
  <2>1. item[1] \in Names
    BY DEF LocalsTypeOK
  <2>2. NodeTypeOK'
    BY <1>9, <2>1 DEF Revoke, NodeTypeOK
  <2>3. WorkerTypeOK' /\ RuntimeTypeOK'
    BY <1>9 DEF Revoke, WorkerTypeOK, RuntimeTypeOK
  <2>4. ControlTypeOK'
    BY <1>9 DEF Revoke, ControlTypeOK
  <2>5. todo' \in [Threads -> SUBSET (Names \X (Acts \cup {None}))]
    BY DEF LocalsTypeOK
  <2>6. LocalsTypeOK'
    BY <1>9, <2>5 DEF Revoke, LocalsTypeOK
  <2>. QED  BY <2>2, <2>3, <2>4, <2>6
<1>10. CASE RevokeDone(t)
  BY <1>10, SharedTypes, MoveTypes, StepNames DEF RevokeDone, SharedTypeOK
<1>11. CASE HostStop(t)
  <2>1. NodeTypeOK'
    BY <1>11 DEF HostStop, NodeTypeOK, ProviderStates,
         PublicationStates
  <2>2. WorkerTypeOK'
    BY <1>11 DEF HostStop, NodeTypeOK, WorkerTypeOK, WorkerStates
  <2>3. RuntimeTypeOK'
    BY <1>11 DEF HostStop, NodeTypeOK, RuntimeTypeOK, LocalsTypeOK
  <2>4. ControlTypeOK' /\ LocalsTypeOK'
    BY <1>11, MoveTypes, StepNames DEF HostStop
  <2>. QED  BY <2>1, <2>2, <2>3, <2>4
<1>12. CASE Release(t)
  <2>1. NodeTypeOK'
    BY <1>12 DEF Release, NodeTypeOK, ProviderStates, PublicationStates
  <2>2. WorkerTypeOK'
    BY <1>12 DEF Release, NodeTypeOK, WorkerTypeOK, WorkerStates
  <2>3. RuntimeTypeOK'
    BY <1>12 DEF Release, NodeTypeOK, RuntimeTypeOK, LocalsTypeOK
  <2>4. ControlTypeOK' /\ LocalsTypeOK'
    BY <1>12, MoveTypes, StepNames DEF Release
  <2>. QED  BY <2>1, <2>2, <2>3, <2>4
<1>13. CASE Settle(t)
  <2>1. NodeTypeOK'
    BY <1>13 DEF Settle, NodeTypeOK, ProviderStates, PublicationStates
  <2>2. WorkerTypeOK'
    BY <1>13 DEF Settle, NodeTypeOK, WorkerTypeOK, WorkerStates
  <2>3. RuntimeTypeOK'
    BY <1>13 DEF Settle, NodeTypeOK, RuntimeTypeOK, LocalsTypeOK
  <2>4. ControlTypeOK' /\ LocalsTypeOK'
    BY <1>13, ReturnTypes DEF Settle
  <2>. QED  BY <2>1, <2>2, <2>3, <2>4
<1>. QED
  BY <1>1, <1>2, <1>3, <1>4, <1>5, <1>6, <1>7, <1>8, <1>9, <1>10, <1>11,
     <1>12, <1>13 DEF ShutdownStep

\* The steps of a lease worker keep the types.
LEMMA WorkerStepKeepsTypes ==
    ASSUME IndInv, NEW g \in Gens, WorkerStep(g)
    PROVE  TypeOK'
<1>1. CASE WorkerDue(g)
  <2>1. NodeTypeOK'
    BY <1>1 DEF WorkerDue, NodeTypeOK, ProviderStates,
         PublicationStates
  <2>2. WorkerTypeOK'
    BY <1>1 DEF WorkerDue, NodeTypeOK, WorkerTypeOK, WorkerStates
  <2>3. RuntimeTypeOK'
    BY <1>1 DEF WorkerDue, NodeTypeOK, RuntimeTypeOK, LocalsTypeOK
  <2>4. ControlTypeOK'
    BY <1>1, StepNames DEF WorkerDue, ControlTypeOK
  <2>5. LocalsTypeOK'
    BY <1>1 DEF WorkerDue, LocalsTypeOK, NodeTypeOK, DropLocals
  <2>. QED  BY <2>1, <2>2, <2>3, <2>4, <2>5
<1>2. CASE WorkerStopped(g)
  <2>1. NodeTypeOK'
    BY <1>2 DEF WorkerStopped, NodeTypeOK, ProviderStates,
         PublicationStates
  <2>2. WorkerTypeOK'
    BY <1>2 DEF WorkerStopped, NodeTypeOK, WorkerTypeOK, WorkerStates
  <2>3. RuntimeTypeOK'
    BY <1>2 DEF WorkerStopped, NodeTypeOK, RuntimeTypeOK, LocalsTypeOK
  <2>4. ControlTypeOK'
    BY <1>2, StepNames DEF WorkerStopped, ControlTypeOK
  <2>5. LocalsTypeOK'
    BY <1>2 DEF WorkerStopped, LocalsTypeOK, NodeTypeOK, DropLocals
  <2>. QED  BY <2>1, <2>2, <2>3, <2>4, <2>5
<1>3. CASE RenewOk(g)
  <2>1. NodeTypeOK'
    BY <1>3 DEF RenewOk, NodeTypeOK, ProviderStates, PublicationStates
  <2>2. WorkerTypeOK'
    BY <1>3 DEF RenewOk, NodeTypeOK, WorkerTypeOK, WorkerStates
  <2>3. RuntimeTypeOK'
    BY <1>3 DEF RenewOk, NodeTypeOK, RuntimeTypeOK, LocalsTypeOK
  <2>4. ControlTypeOK'
    BY <1>3, StepNames DEF RenewOk, ControlTypeOK
  <2>5. LocalsTypeOK'
    BY <1>3 DEF RenewOk, LocalsTypeOK, NodeTypeOK, DropLocals
  <2>. QED  BY <2>1, <2>2, <2>3, <2>4, <2>5
<1>4. CASE RenewFail(g)
  <2>1. NodeTypeOK'
    BY <1>4 DEF RenewFail, NodeTypeOK, ProviderStates,
         PublicationStates
  <2>2. WorkerTypeOK'
    BY <1>4 DEF RenewFail, NodeTypeOK, WorkerTypeOK, WorkerStates
  <2>3. RuntimeTypeOK'
    BY <1>4 DEF RenewFail, NodeTypeOK, RuntimeTypeOK, LocalsTypeOK
  <2>4. ControlTypeOK'
    BY <1>4, StepNames DEF RenewFail, ControlTypeOK
  <2>5. LocalsTypeOK'
    BY <1>4 DEF RenewFail, LocalsTypeOK, NodeTypeOK, DropLocals
  <2>. QED  BY <2>1, <2>2, <2>3, <2>4, <2>5
<1>5. CASE BindingLeaseFailed(g)
  <2>1. NodeTypeOK'
    BY <1>5 DEF BindingLeaseFailed, Released, FailureIsCurrent,
         NodeTypeOK, ProviderStates, PublicationStates
  <2>2. WorkerTypeOK'
    BY <1>5 DEF BindingLeaseFailed, Released, FailureIsCurrent,
         NodeTypeOK, WorkerTypeOK, WorkerStates
  <2>3. RuntimeTypeOK'
    BY <1>5 DEF BindingLeaseFailed, Released, FailureIsCurrent,
         NodeTypeOK, RuntimeTypeOK, LocalsTypeOK
  <2>4. ControlTypeOK'
    BY <1>5, StepNames DEF BindingLeaseFailed, Released,
         FailureIsCurrent, ControlTypeOK
  <2>5. LocalsTypeOK'
    BY <1>5 DEF BindingLeaseFailed, Released, FailureIsCurrent,
         LocalsTypeOK, NodeTypeOK, DropLocals
  <2>. QED  BY <2>1, <2>2, <2>3, <2>4, <2>5
<1>6. CASE WorkerHostStop(g)
  <2>1. NodeTypeOK'
    BY <1>6 DEF WorkerHostStop, NodeTypeOK, ProviderStates,
         PublicationStates
  <2>2. WorkerTypeOK'
    BY <1>6 DEF WorkerHostStop, NodeTypeOK, WorkerTypeOK, WorkerStates
  <2>3. RuntimeTypeOK'
    BY <1>6 DEF WorkerHostStop, NodeTypeOK, RuntimeTypeOK, LocalsTypeOK
  <2>4. ControlTypeOK'
    BY <1>6, StepNames DEF WorkerHostStop, ControlTypeOK
  <2>5. LocalsTypeOK'
    BY <1>6 DEF WorkerHostStop, LocalsTypeOK, NodeTypeOK, DropLocals
  <2>. QED  BY <2>1, <2>2, <2>3, <2>4, <2>5
<1>. QED
  BY <1>1, <1>2, <1>3, <1>4, <1>5, <1>6 DEF WorkerStep

-----------------------------------------------------------------------------
(* Control: one lemma per kind of step, one case per action.  In each case   *)
(* the first steps prove the conjuncts that need help from others, and the   *)
(* last ones the conjuncts that the action keeps without any.                *)

USE DEF StartSteps, RegisterSteps, ShutdownSteps, DeploySteps, NameSteps,
        AfterJoin, StartCalls, Running
USE DEF IndInv, TypeOK, NodeTypeOK, WorkerTypeOK, RuntimeTypeOK,
        ControlTypeOK, LocalsTypeOK, Control
USE DEF Goto, Return, DropLocals

\* A call that returns without another effect keeps the control invariant.
LEMMA QuietReturn ==
    ASSUME IndInv, NEW t \in Threads, Return(t), UNCHANGED shared
    PROVE  Control' /\ ActivationsFenced'
<1>1. CallMatchesStep'
  BY DEF CallMatchesStep
<1>2. GenerationBounds'
  BY DEF GenerationBounds
<1>3. OneStarter'
  BY DEF OneStarter
<1>4. OneShutdown'
  BY DEF OneShutdown
<1>5. GenerationFence'
  BY DEF GenerationFence, GenerationBounds
<1>6. NodeFollowsState'
  BY DEF NodeFollowsState
<1>7. WorkerFollowsNode'
  BY DEF WorkerFollowsNode
<1>8. HostFollowsState'
  BY DEF HostFollowsState, GenerationBounds
<1>9. ActivationsFenced'
  BY DEF ActivationsFenced
<1>. QED  BY <1>1, <1>2, <1>3, <1>4, <1>5, <1>6, <1>7, <1>8, <1>9

\* So does a thread that only goes on to a rollback, from the check to the
\* store of HostServer.add, or in or out of a wait.
LEMMA QuietMove ==
    ASSUME IndInv, NEW t \in Threads,
           NEW step \in {"rollback", "undo", "put", "leave", "serving"},
           Goto(t, step), UNCHANGED <<shared, op, locals>>,
           step \in {"undo", "put"} => op[t] = "register" /\ tname[t] \in Names
    PROVE  Control' /\ ActivationsFenced'
<1>1. CallMatchesStep'
  BY DEF CallMatchesStep
<1>2. GenerationBounds' /\ OneStarter'
  BY DEF GenerationBounds, OneStarter
<1>3. OneShutdown'
  BY DEF OneShutdown
<1>4. GenerationFence'
  BY DEF GenerationFence
<1>5. NodeFollowsState'
  BY DEF NodeFollowsState
<1>6. WorkerFollowsNode'
  BY DEF WorkerFollowsNode
<1>7. HostFollowsState'
  BY DEF HostFollowsState
<1>8. ActivationsFenced'
  BY DEF ActivationsFenced
<1>. QED  BY <1>1, <1>2, <1>3, <1>4, <1>5, <1>6, <1>7, <1>8

\* A deployment that passes the fence commits to the running generation, which
\* no start is about to connect or to attach.
LEMMA CommitFacts ==
    ASSUME IndInv, NEW t \in Threads, pc[t] = "commit", RequireGeneration(t)
    PROVE  /\ pstate \in Running /\ generation \in Gens
           /\ TrackingWorker = generation
           /\ wpc[generation] # "none" => leaseWorker = generation
           /\ \A u \in Threads : pc[u] \notin ShutdownSteps
           /\ \A u \in Threads : tgen[u] = generation => pc[u] \notin {"connect", "attach"}
<1>1. pstate \in Running /\ generation \in Gens
  BY DEF RequireGeneration, GenerationFence, GenerationBounds
<1>2. TrackingWorker = generation
  BY <1>1 DEF TrackingWorker, NodeFollowsState
<1>3. wpc[generation] # "none" => leaseWorker = generation
  BY <1>1 DEF WorkerFollowsNode
<1>4. ASSUME NEW u \in Threads, tgen[u] = generation, pc[u] \in {"connect", "attach"}
      PROVE  FALSE
  <2>1. pstate = "STARTING" /\ op[u] \in StartCalls
    BY <1>4 DEF GenerationFence, CallMatchesStep
  <2>2. op[t] # "register"
    BY <2>1 DEF RequireGeneration, GenerationFence
  <2>3. op[t] \in StartCalls \cup {"register"}
    BY DEF CallMatchesStep
  <2>4. op[t] \in StartCalls /\ tgen[t] = tgen[u] /\ tgen[t] # 0
    BY <1>1, <1>4, <2>2, <2>3 DEF RequireGeneration
  <2>5. t = u
    BY <2>1, <2>4 DEF OneStarter
  <2>. QED  BY <1>4, <2>5
<1>5. \A u \in Threads : pc[u] \notin ShutdownSteps
  BY <1>1 DEF OneShutdown
<1>. QED  BY <1>1, <1>2, <1>3, <1>4, <1>5

\* A commit adds a binding of the running generation to the worker of the
\* running generation.
LEMMA CommitKeepsFence ==
    ASSUME IndInv, NEW t \in Threads, pc[t] = "commit", RequireGeneration(t),
           Track(tname[t], act[t]), UNCHANGED <<runtimeVars, batch>>,
           \A u \in Threads : pc'[u] = "commit" =>
               pc[u] = "commit" /\ act'[u] = act[u] /\ tgen'[u] = tgen[u]
    PROVE  ActivationsFenced'
<1>1. /\ tname[t] \in Names /\ generation \in Gens
      /\ act[t] \in 1..nact /\ actGen[act[t]] = generation
  BY CommitFacts DEF CallMatchesStep, ActivationsFenced, RequireGeneration
<1>2. members' = [members EXCEPT ![generation][tname[t]] = act[t]]
  BY CommitFacts DEF Track
<1>3. ASSUME NEW g \in Gens, NEW n \in Names, members'[g][n] # None
      PROVE  members'[g][n] \in 1..nact /\ actGen[members'[g][n]] = g
  <2>1. CASE g = generation /\ n = tname[t]
    BY <1>1, <1>2, <2>1
  <2>2. CASE ~(g = generation /\ n = tname[t])
    <3>1. members'[g][n] = members[g][n]
      BY <1>2, <2>2
    <3>. QED  BY <1>3, <3>1 DEF ActivationsFenced
  <2>. QED  BY <2>1, <2>2
<1>. QED  BY <1>3 DEF ActivationsFenced

\* A commit creates or keeps the worker of the running generation, so no worker
\* of another generation and no failure callback appears.
LEMMA CommitKeepsWorker ==
    ASSUME IndInv, NEW t \in Threads, pc[t] = "commit", RequireGeneration(t),
           Track(tname[t], act[t]), UNCHANGED <<pstate, generation>>,
           \A u \in Threads : pc'[u] \in AfterJoin => pc[u] \in AfterJoin
    PROVE  WorkerFollowsNode'
<1>1. TrackingWorker = generation /\ generation \in Gens
  BY CommitFacts
<1>2. leaseWorker' = generation
  BY <1>1 DEF Track
<1>3. wpc' = [wpc EXCEPT ![generation] = IF @ = "none" THEN "wait" ELSE @]
  BY <1>1 DEF Track
<1>4. ASSUME NEW g \in Gens, wpc'[g] # "none"
      PROVE  g <= generation
  <2>1. CASE g = generation
    BY <1>1, <2>1
  <2>2. CASE g # generation
    BY <1>3, <1>4, <2>2 DEF WorkerFollowsNode
  <2>. QED  BY <2>1, <2>2
<1>5. ASSUME NEW g \in Gens, wpc'[g] = "hoststop"
      PROVE  /\ leaseWorker' = g
             /\ pstate \in {"FAILED", "STOPPING"}
             /\ \A u \in Threads : pc'[u] \notin AfterJoin
  <2>1. wpc[g] = "hoststop"
    <3>1. wpc \in [Gens -> WorkerStates]
      OBVIOUS
    <3>2. CASE g = generation
      BY <1>3, <1>5, <3>1, <3>2
    <3>3. CASE g # generation
      BY <1>3, <1>5, <3>1, <3>3
    <3>. QED  BY <3>2, <3>3
  <2>2. leaseWorker = g /\ g # None
    <3>1. WorkerFollowsNode
      OBVIOUS
    <3>2. g # None
      BY <1>5
    <3>. QED  BY ONLY <1>5, <2>1, <3>1, <3>2 DEF WorkerFollowsNode
  <2>3. TrackingWorker = g
    BY <2>2 DEF TrackingWorker
  <2>. QED  BY <1>1, <1>2, <2>1, <2>3 DEF WorkerFollowsNode
<1>. QED  BY <1>2, <1>4, <1>5 DEF WorkerFollowsNode

\* A start that finishes is the only one of its generation, on a provider that
\* is still STARTING with an open host.
LEMMA StartFinishFacts ==
    ASSUME IndInv, NEW t \in Threads, pc[t] = "deploy", RequireGeneration(t), Healthy
    PROVE  /\ pstate = "STARTING" /\ generation \in 1..(MaxGen - 1) /\ hostUp
           /\ leaseWorker \in {None, generation}
           /\ \A u \in Threads : pc[u] \notin ShutdownSteps
           /\ \A u \in Threads \ {t} :
                tgen[u] = generation => pc[u] \notin StartSteps \cup DeploySteps
<1>1. pstate = "STARTING" /\ op[t] \in StartCalls
  BY DEF RequireGeneration, Healthy, GenerationFence, CallMatchesStep, NodeFollowsState
<1>2. generation \in 1..(MaxGen - 1)
  BY <1>1 DEF GenerationBounds
<1>3. hostUp
  BY <1>1 DEF RequireGeneration, HostFollowsState
<1>4. leaseWorker \in {None, generation} /\ \A u \in Threads : pc[u] \notin ShutdownSteps
  BY <1>1 DEF NodeFollowsState, OneShutdown
<1>5. ASSUME NEW u \in Threads \ {t}, tgen[u] = generation,
             pc[u] \in StartSteps \cup DeploySteps
      PROVE  FALSE
  <2>1. op[u] \in StartCalls
    BY <1>1, <1>5 DEF GenerationFence, CallMatchesStep
  <2>. QED  BY <1>1, <1>2, <1>5, <2>1 DEF OneStarter, RequireGeneration
<1>. QED  BY <1>1, <1>2, <1>3, <1>4, <1>5

\* A new call of a thread, or a Ctrl-C, keeps the control invariant.
LEMMA CallKeepsControl ==
    ASSUME IndInv, NEW t \in Threads, Call(t)
    PROVE  Control' /\ ActivationsFenced'
<1>1. CASE StartEnter(t)
  <2>1. OneStarter'
    BY <1>1 DEF StartEnter, BeginStart, OneStarter, GenerationBounds
  <2>2. GenerationFence'
    BY <1>1 DEF StartEnter, BeginStart, GenerationFence, GenerationBounds,
         NodeFollowsState
  <2>3. HostFollowsState'
    BY <1>1 DEF StartEnter, BeginStart, HostFollowsState, GenerationBounds,
         NodeFollowsState
  <2>4. CallMatchesStep' /\ GenerationBounds' /\ OneShutdown' /\
        NodeFollowsState' /\ WorkerFollowsNode' /\ ActivationsFenced'
    BY <1>1 DEF StartEnter, BeginStart, CallMatchesStep, GenerationBounds,
         OneShutdown, NodeFollowsState, WorkerFollowsNode, ActivationsFenced
  <2>. QED  BY <2>1, <2>2, <2>3, <2>4 DEF Control
<1>2. CASE ServeEnter(t)
  <2>1. OneStarter'
    BY <1>2 DEF ServeEnter, BeginStart, OneStarter, GenerationBounds
  <2>2. GenerationFence'
    BY <1>2 DEF ServeEnter, BeginStart, GenerationFence, GenerationBounds,
         NodeFollowsState
  <2>3. HostFollowsState'
    BY <1>2 DEF ServeEnter, BeginStart, HostFollowsState, GenerationBounds,
         NodeFollowsState
  <2>4. CallMatchesStep' /\ GenerationBounds' /\ OneShutdown' /\
        NodeFollowsState' /\ WorkerFollowsNode' /\ ActivationsFenced'
    BY <1>2 DEF ServeEnter, BeginStart, CallMatchesStep, GenerationBounds,
         OneShutdown, NodeFollowsState, WorkerFollowsNode, ActivationsFenced
  <2>. QED  BY <2>1, <2>2, <2>3, <2>4 DEF Control
<1>3. CASE ServeActive(t)
  <2>1. OneStarter'
    BY <1>3 DEF ServeActive, OneStarter, CallMatchesStep, GenerationBounds
  <2>2. CallMatchesStep' /\ GenerationBounds' /\ OneShutdown' /\
        GenerationFence' /\ NodeFollowsState' /\ WorkerFollowsNode' /\
        HostFollowsState' /\ ActivationsFenced'
    BY <1>3 DEF ServeActive, CallMatchesStep, GenerationBounds, OneShutdown,
         GenerationFence, NodeFollowsState, WorkerFollowsNode,
         HostFollowsState, ActivationsFenced
  <2>. QED  BY <2>1, <2>2 DEF Control
<1>4. CASE ServeInterrupt(t)
  BY <1>4, QuietMove DEF ServeInterrupt
<1>5. CASE StopEnter(t)
  <2>1. GenerationFence'
    BY <1>5 DEF StopEnter, BeginShutdown, Released, GenerationFence,
         GenerationBounds
  <2>2. CallMatchesStep'
    BY <1>5 DEF StopEnter, BeginShutdown, Released, CallMatchesStep
  <2>3. GenerationBounds'
    BY <1>5 DEF StopEnter, BeginShutdown, Released, GenerationBounds
  <2>4. OneStarter'
    BY <1>5 DEF StopEnter, BeginShutdown, Released, OneStarter
  <2>5. OneShutdown'
    BY <1>5 DEF StopEnter, BeginShutdown, Released, OneShutdown
  <2>6. NodeFollowsState'
    BY <1>5 DEF StopEnter, BeginShutdown, Released, NodeFollowsState
  <2>7. WorkerFollowsNode'
    BY <1>5 DEF StopEnter, BeginShutdown, Released, WorkerFollowsNode
  <2>8. HostFollowsState'
    BY <1>5 DEF StopEnter, BeginShutdown, Released, HostFollowsState
  <2>9. ActivationsFenced'
    BY <1>5 DEF StopEnter, BeginShutdown, Released, ActivationsFenced
  <2>. QED  BY <2>1, <2>2, <2>3, <2>4, <2>5, <2>6, <2>7, <2>8, <2>9 DEF Control
<1>6. CASE \E n \in Names : RegisterEnter(t, n)
  <2>1. CallMatchesStep' /\ GenerationBounds' /\ OneStarter' /\ OneShutdown' /\
        GenerationFence' /\ NodeFollowsState' /\ WorkerFollowsNode' /\
        HostFollowsState' /\ ActivationsFenced'
    BY <1>6 DEF RegisterEnter, CallMatchesStep, GenerationBounds,
         OneStarter, OneShutdown, GenerationFence, NodeFollowsState,
         WorkerFollowsNode, HostFollowsState, ActivationsFenced
  <2>. QED  BY <2>1 DEF Control
<1>. QED
  BY <1>1, <1>2, <1>3, <1>4, <1>5, <1>6 DEF Call

\* The steps of start() and serve() keep the control invariant.
LEMMA StartStepKeepsControl ==
    ASSUME IndInv, NEW t \in Threads, StartStep(t)
    PROVE  Control' /\ ActivationsFenced'
<1>1. CASE ConnectOk(t)
  <2>1. CallMatchesStep'
    BY <1>1 DEF ConnectOk, CallMatchesStep
  <2>2. GenerationBounds'
    BY <1>1 DEF ConnectOk, GenerationBounds
  <2>3. OneStarter'
    BY <1>1 DEF ConnectOk, OneStarter
  <2>4. OneShutdown'
    BY <1>1 DEF ConnectOk, OneShutdown
  <2>5. GenerationFence'
    BY <1>1 DEF ConnectOk, GenerationFence
  <2>6. NodeFollowsState'
    BY <1>1 DEF ConnectOk, NodeFollowsState
  <2>7. WorkerFollowsNode'
    BY <1>1 DEF ConnectOk, WorkerFollowsNode
  <2>8. HostFollowsState'
    BY <1>1 DEF ConnectOk, HostFollowsState
  <2>9. ActivationsFenced'
    BY <1>1 DEF ConnectOk, ActivationsFenced
  <2>. QED  BY <2>1, <2>2, <2>3, <2>4, <2>5, <2>6, <2>7, <2>8, <2>9 DEF Control
<1>2. CASE ConnectFail(t)
  BY <1>2, QuietMove DEF ConnectFail
<1>3. CASE AttachOk(t)
  <2>1. HostFollowsState'
    BY <1>3 DEF AttachOk, RequireGeneration, HostFollowsState,
         GenerationFence, OneShutdown
  <2>2. CallMatchesStep' /\ GenerationBounds' /\ OneStarter' /\ OneShutdown' /\
        GenerationFence' /\ NodeFollowsState' /\ WorkerFollowsNode' /\
        ActivationsFenced'
    BY <1>3 DEF AttachOk, RequireGeneration, CallMatchesStep,
         GenerationBounds, OneStarter, OneShutdown, GenerationFence,
         NodeFollowsState, WorkerFollowsNode, ActivationsFenced
  <2>. QED  BY <2>1, <2>2 DEF Control
<1>4. CASE AttachHostFails(t)
  <2>1. CallMatchesStep' /\ GenerationBounds' /\ OneStarter' /\ OneShutdown' /\
        GenerationFence' /\ NodeFollowsState' /\ WorkerFollowsNode' /\
        HostFollowsState' /\ ActivationsFenced'
    BY <1>4 DEF AttachHostFails, RequireGeneration, CallMatchesStep,
         GenerationBounds, OneStarter, OneShutdown, GenerationFence,
         NodeFollowsState, WorkerFollowsNode, HostFollowsState,
         ActivationsFenced
  <2>. QED  BY <2>1 DEF Control
<1>5. CASE AttachStale(t)
  <2>1. CallMatchesStep' /\ GenerationBounds' /\ OneStarter' /\ OneShutdown' /\
        GenerationFence' /\ NodeFollowsState' /\ WorkerFollowsNode' /\
        HostFollowsState' /\ ActivationsFenced'
    BY <1>5 DEF AttachStale, CallMatchesStep, GenerationBounds, OneStarter,
         OneShutdown, GenerationFence, NodeFollowsState, WorkerFollowsNode,
         HostFollowsState, ActivationsFenced
  <2>. QED  BY <2>1 DEF Control
<1>6. CASE Discard(t)
  <2>1. CallMatchesStep' /\ GenerationBounds' /\ OneStarter' /\ OneShutdown' /\
        GenerationFence' /\ NodeFollowsState' /\ WorkerFollowsNode' /\
        HostFollowsState' /\ ActivationsFenced'
    BY <1>6 DEF Discard, CallMatchesStep, GenerationBounds, OneStarter,
         OneShutdown, GenerationFence, NodeFollowsState, WorkerFollowsNode,
         HostFollowsState, ActivationsFenced
  <2>. QED  BY <2>1 DEF Control
<1>7. CASE SnapshotRegistry(t)
  <2>1. CallMatchesStep' /\ GenerationBounds' /\ OneStarter' /\ OneShutdown' /\
        GenerationFence' /\ NodeFollowsState' /\ WorkerFollowsNode' /\
        HostFollowsState' /\ ActivationsFenced'
    BY <1>7 DEF SnapshotRegistry, RegistrySnapshot, CallMatchesStep,
         GenerationBounds, OneStarter, OneShutdown, GenerationFence,
         NodeFollowsState, WorkerFollowsNode, HostFollowsState,
         ActivationsFenced
  <2>. QED  BY <2>1 DEF Control
<1>8. CASE DeployNext(t)
  <2>1. GenerationFence'
    BY <1>8 DEF DeployNext, GenerationFence, CallMatchesStep
  <2>2. CallMatchesStep' /\ GenerationBounds' /\ OneStarter' /\ OneShutdown' /\
        NodeFollowsState' /\ WorkerFollowsNode' /\ HostFollowsState' /\
        ActivationsFenced'
    BY <1>8 DEF DeployNext, CallMatchesStep, GenerationBounds, OneStarter,
         OneShutdown, NodeFollowsState, WorkerFollowsNode, HostFollowsState,
         ActivationsFenced
  <2>. QED  BY <2>1, <2>2 DEF Control
<1>9. CASE StartFinish(t)
  <2>1. GenerationBounds'
    <3>1. /\ pstate' = "ACTIVE" /\ generation' = generation
          /\ tgen' = [tgen EXCEPT ![t] = 0]
      BY <1>9 DEF StartFinish, StartComplete
    <3>2. generation \in 1..(MaxGen - 1)
      BY <1>9, StartFinishFacts DEF StartFinish, StartComplete
    <3>. QED  BY <3>1, <3>2 DEF GenerationBounds
  <2>2. OneShutdown'
    BY <1>9, StartFinishFacts DEF StartFinish, StartComplete, RequireGeneration, Healthy,
         OneShutdown
  <2>3. GenerationFence'
    BY <1>9, StartFinishFacts DEF StartFinish, StartComplete, RequireGeneration, Healthy,
         GenerationFence
  <2>4. NodeFollowsState'
    BY <1>9, StartFinishFacts DEF StartFinish, StartComplete, RequireGeneration, Healthy,
         NodeFollowsState
  <2>5. WorkerFollowsNode'
    BY <1>9, StartFinishFacts DEF StartFinish, StartComplete, RequireGeneration, Healthy,
         WorkerFollowsNode
  <2>6. HostFollowsState'
    BY <1>9, StartFinishFacts DEF StartFinish, StartComplete, RequireGeneration, Healthy,
         HostFollowsState
  <2>7. CallMatchesStep'
    BY <1>9 DEF StartFinish, StartComplete, RequireGeneration, Healthy,
         CallMatchesStep
  <2>8. OneStarter'
    BY <1>9 DEF StartFinish, StartComplete, RequireGeneration, Healthy,
         OneStarter
  <2>9. ActivationsFenced'
    BY <1>9 DEF StartFinish, StartComplete, RequireGeneration, Healthy,
         ActivationsFenced
  <2>. QED  BY <2>1, <2>2, <2>3, <2>4, <2>5, <2>6, <2>7, <2>8, <2>9 DEF Control
<1>10. CASE ServeStarted(t)
  <2>1. GenerationBounds'
    <3>1. /\ pstate' = "ACTIVE" /\ generation' = generation
          /\ tgen' = [tgen EXCEPT ![t] = 0]
      BY <1>10 DEF ServeStarted, StartComplete
    <3>2. generation \in 1..(MaxGen - 1)
      BY <1>10, StartFinishFacts DEF ServeStarted, StartComplete
    <3>. QED  BY <3>1, <3>2 DEF GenerationBounds
  <2>2. OneShutdown'
    BY <1>10, StartFinishFacts DEF ServeStarted, StartComplete, RequireGeneration, Healthy,
         OneShutdown
  <2>3. GenerationFence'
    BY <1>10, StartFinishFacts DEF ServeStarted, StartComplete, RequireGeneration, Healthy,
         GenerationFence
  <2>4. NodeFollowsState'
    BY <1>10, StartFinishFacts DEF ServeStarted, StartComplete, RequireGeneration, Healthy,
         NodeFollowsState
  <2>5. WorkerFollowsNode'
    BY <1>10, StartFinishFacts DEF ServeStarted, StartComplete, RequireGeneration, Healthy,
         WorkerFollowsNode
  <2>6. HostFollowsState'
    BY <1>10, StartFinishFacts DEF ServeStarted, StartComplete, RequireGeneration, Healthy,
         HostFollowsState
  <2>7. CallMatchesStep'
    BY <1>10 DEF ServeStarted, StartComplete, RequireGeneration, Healthy,
         CallMatchesStep
  <2>8. OneStarter'
    BY <1>10 DEF ServeStarted, StartComplete, RequireGeneration, Healthy,
         OneStarter
  <2>9. ActivationsFenced'
    BY <1>10 DEF ServeStarted, StartComplete, RequireGeneration, Healthy,
         ActivationsFenced
  <2>. QED  BY <2>1, <2>2, <2>3, <2>4, <2>5, <2>6, <2>7, <2>8, <2>9 DEF Control
<1>11. CASE StartRefused(t)
  BY <1>11, QuietMove DEF StartRefused
<1>12. CASE ServeWait(t)
  BY <1>12, QuietMove DEF ServeWait
<1>. QED
  BY <1>1, <1>2, <1>3, <1>4, <1>5, <1>6, <1>7, <1>8, <1>9, <1>10, <1>11, <1>12
     DEF StartStep

\* _deploy() and the commit of its result keep the control invariant.
LEMMA DeployStepKeepsControl ==
    ASSUME IndInv, NEW t \in Threads, DeployStep(t)
    PROVE  Control' /\ ActivationsFenced'
<1>1. CASE Install(t, TRUE)
  <2>1. ActivationsFenced'
    <3>1. nact + 1 \in Acts /\ nact + 1 \notin 1..nact
      BY <1>1 DEF Install
    <3>2. \A a \in 1..nact : actGen'[a] = actGen[a]
      BY <1>1, <3>1 DEF Install
    <3>3. ASSUME NEW u \in Threads, pc'[u] = "commit"
          PROVE  act'[u] \in 1..nact' /\ actGen'[act'[u]] = tgen'[u]
      <4>1. CASE u = t
        BY <1>1, <3>1, <4>1 DEF Install
      <4>2. CASE u # t
        BY <1>1, <3>2, <3>3, <4>2 DEF Install, ActivationsFenced
      <4>. QED  BY <4>1, <4>2
    <3>4. UNCHANGED <<members, batch>> /\ 1..nact \subseteq 1..nact'
      BY <1>1 DEF Install
    <3>. QED  BY <3>2, <3>3, <3>4 DEF ActivationsFenced
  <2>2. CallMatchesStep'
    BY <1>1 DEF Install, Raise, CallMatchesStep
  <2>3. GenerationBounds'
    BY <1>1 DEF Install, Raise, GenerationBounds
  <2>4. OneStarter'
    BY <1>1 DEF Install, Raise, OneStarter
  <2>5. OneShutdown'
    BY <1>1 DEF Install, Raise, OneShutdown
  <2>6. GenerationFence'
    BY <1>1 DEF Install, Raise, GenerationFence
  <2>7. NodeFollowsState'
    BY <1>1 DEF Install, Raise, NodeFollowsState
  <2>8. WorkerFollowsNode'
    BY <1>1 DEF Install, Raise, WorkerFollowsNode
  <2>9. HostFollowsState'
    BY <1>1 DEF Install, Raise, HostFollowsState
  <2>. QED  BY <2>1, <2>2, <2>3, <2>4, <2>5, <2>6, <2>7, <2>8, <2>9 DEF Control
<1>2. CASE Install(t, FALSE)
  <2>1. ActivationsFenced'
    BY <1>2 DEF Install, Raise, ActivationsFenced
  <2>2. CallMatchesStep'
    BY <1>2 DEF Install, Raise, CallMatchesStep
  <2>3. GenerationBounds'
    BY <1>2 DEF Install, Raise, GenerationBounds
  <2>4. OneStarter'
    BY <1>2 DEF Install, Raise, OneStarter
  <2>5. OneShutdown'
    BY <1>2 DEF Install, Raise, OneShutdown
  <2>6. GenerationFence'
    BY <1>2 DEF Install, Raise, GenerationFence
  <2>7. NodeFollowsState'
    BY <1>2 DEF Install, Raise, NodeFollowsState
  <2>8. WorkerFollowsNode'
    BY <1>2 DEF Install, Raise, WorkerFollowsNode
  <2>9. HostFollowsState'
    BY <1>2 DEF Install, Raise, HostFollowsState
  <2>. QED  BY <2>1, <2>2, <2>3, <2>4, <2>5, <2>6, <2>7, <2>8, <2>9 DEF Control
<1>3. CASE InstallFail(t)
  BY <1>3, QuietMove DEF InstallFail, Raise, CallMatchesStep
<1>4. CASE CommitStale(t)
  BY <1>4, QuietMove DEF CommitStale, Raise, CallMatchesStep
<1>5. CASE CommitUntracked(t)
  <2>1. NodeFollowsState'
    BY <1>5, CommitFacts DEF CommitUntracked, TrackingWorker, Raise, RequireGeneration,
         NodeFollowsState
  <2>2. WorkerFollowsNode'
    BY <1>5, CommitFacts DEF CommitUntracked, TrackingWorker, Raise, RequireGeneration,
         WorkerFollowsNode
  <2>3. HostFollowsState'
    BY <1>5, CommitFacts DEF CommitUntracked, TrackingWorker, Raise, RequireGeneration,
         HostFollowsState
  <2>4. GenerationFence'
    BY <1>5, CommitFacts DEF CommitUntracked, TrackingWorker, Raise, RequireGeneration,
         GenerationFence
  <2>5. CallMatchesStep' /\ GenerationBounds' /\ OneStarter' /\ OneShutdown' /\
        ActivationsFenced'
    BY <1>5 DEF CommitUntracked, TrackingWorker, Raise, RequireGeneration,
         CallMatchesStep, GenerationBounds, OneStarter, OneShutdown,
         ActivationsFenced
  <2>. QED  BY <2>1, <2>2, <2>3, <2>4, <2>5 DEF Control
<1>6. CASE CommitUnhealthy(t)
  <2>1. NodeFollowsState'
    BY <1>6, CommitFacts DEF CommitUnhealthy, Raise, RequireGeneration, NodeFollowsState
  <2>2. leaseWorker = generation /\ tname[t] \in Names
        /\ act[t] \in 1..nact /\ actGen[act[t]] = generation
    BY <1>6, CommitFacts DEF CommitUnhealthy, TrackingWorker, CallMatchesStep,
         ActivationsFenced, RequireGeneration
  <2>3. WorkerFollowsNode'
    BY <1>6, <2>2, CommitFacts DEF CommitUnhealthy, Raise, WorkerFollowsNode
  <2>4. GenerationFence'
    BY <1>6, CommitFacts DEF CommitUnhealthy, Raise, RequireGeneration, GenerationFence
  <2>5. HostFollowsState'
    BY <1>6, CommitFacts DEF CommitUnhealthy, Raise, RequireGeneration, HostFollowsState
  <2>6. ActivationsFenced'
    <3>1. ASSUME NEW g \in Gens, NEW n \in Names, members'[g][n] # None
          PROVE  members'[g][n] \in 1..nact /\ actGen[members'[g][n]] = g
      <4>1. CASE g = generation /\ n = tname[t]
        BY <1>6, <2>2, <4>1 DEF CommitUnhealthy
      <4>2. CASE ~(g = generation /\ n = tname[t])
        <5>1. members'[g][n] = members[g][n]
          BY <1>6, <2>2, <4>2 DEF CommitUnhealthy
        <5>. QED  BY <3>1, <5>1 DEF ActivationsFenced
      <4>. QED  BY <4>1, <4>2
    <3>2. \A g \in Gens : \A a \in batch'[g] : a \in 1..nact /\ actGen[a] = g
      BY <1>6 DEF CommitUnhealthy, ActivationsFenced
    <3>3. \A u \in Threads : pc'[u] = "commit" => pc[u] = "commit"
      BY <1>6 DEF CommitUnhealthy, Raise
    <3>. QED  BY <1>6, <3>1, <3>2, <3>3 DEF CommitUnhealthy, ActivationsFenced
  <2>7. CallMatchesStep' /\ GenerationBounds' /\ OneStarter' /\ OneShutdown'
    BY <1>6 DEF CommitUnhealthy, Raise, RequireGeneration, CallMatchesStep,
         GenerationBounds, OneStarter, OneShutdown
  <2>. QED  BY <2>1, <2>3, <2>4, <2>5, <2>6, <2>7 DEF Control
<1>7. CASE CommitStart(t)
  <2>1. NodeFollowsState'
    BY <1>7, CommitFacts DEF CommitStart, Commit, Track, TrackingWorker,
         RequireGeneration, NodeFollowsState
  <2>2. WorkerFollowsNode'
    BY <1>7, CommitKeepsWorker DEF CommitStart, Commit
  <2>3. HostFollowsState'
    BY <1>7, CommitFacts DEF CommitStart, Commit, Track, TrackingWorker,
         RequireGeneration, HostFollowsState
  <2>4. GenerationFence'
    BY <1>7, CommitFacts DEF CommitStart, Commit, Track, TrackingWorker,
         RequireGeneration, GenerationFence
  <2>5. ActivationsFenced'
    BY <1>7, CommitKeepsFence DEF CommitStart, Commit
  <2>6. CallMatchesStep' /\ GenerationBounds' /\ OneStarter' /\ OneShutdown'
    BY <1>7 DEF CommitStart, Commit, Track, TrackingWorker,
         RequireGeneration, CallMatchesStep, GenerationBounds, OneStarter,
         OneShutdown
  <2>. QED  BY <2>1, <2>2, <2>3, <2>4, <2>5, <2>6 DEF Control
<1>8. CASE CommitRegister(t)
  <2>1. NodeFollowsState'
    BY <1>8, CommitFacts DEF CommitRegister, Commit, Track, TrackingWorker,
         RequireGeneration, NodeFollowsState
  <2>2. WorkerFollowsNode'
    BY <1>8, CommitKeepsWorker DEF CommitRegister, Commit
  <2>3. HostFollowsState'
    BY <1>8, CommitFacts DEF CommitRegister, Commit, Track, TrackingWorker,
         RequireGeneration, HostFollowsState, GenerationBounds
  <2>4. GenerationFence'
    BY <1>8, CommitFacts DEF CommitRegister, Commit, Track, TrackingWorker,
         RequireGeneration, GenerationFence, GenerationBounds
  <2>5. ActivationsFenced'
    BY <1>8, CommitKeepsFence DEF CommitRegister, Commit
  <2>6. CallMatchesStep' /\ GenerationBounds' /\ OneStarter' /\ OneShutdown'
    BY <1>8 DEF CommitRegister, Commit, Track, TrackingWorker,
         RequireGeneration, CallMatchesStep, GenerationBounds, OneStarter,
         OneShutdown
  <2>. QED  BY <2>1, <2>2, <2>3, <2>4, <2>5, <2>6 DEF Control
<1>. QED
  BY <1>1, <1>2, <1>3, <1>4, <1>5, <1>6, <1>7, <1>8 DEF DeployStep

\* The steps of register() keep the control invariant.
LEMMA RegisterStepKeepsControl ==
    ASSUME IndInv, NEW t \in Threads, RegisterStep(t)
    PROVE  Control' /\ ActivationsFenced'
<1>1. CASE RegisterAdmit(t)
  <2>1. OneStarter'
    BY <1>1 DEF RegisterAdmit, OneStarter, CallMatchesStep
  <2>2. CallMatchesStep' /\ GenerationBounds' /\ OneShutdown' /\
        GenerationFence' /\ NodeFollowsState' /\ WorkerFollowsNode' /\
        HostFollowsState' /\ ActivationsFenced'
    BY <1>1 DEF RegisterAdmit, CallMatchesStep, GenerationBounds,
         OneShutdown, GenerationFence, NodeFollowsState, WorkerFollowsNode,
         HostFollowsState, ActivationsFenced
  <2>. QED  BY <2>1, <2>2 DEF Control
<1>2. CASE RegisterRefused(t)
  BY <1>2, QuietReturn DEF RegisterRefused
<1>3. CASE HostAddCheck(t) /\ tname[t] \in hosted
  BY <1>3, QuietReturn DEF HostAddCheck
<1>4. CASE HostAddCheck(t) /\ tname[t] \notin hosted
  BY <1>4, QuietMove DEF HostAddCheck, CallMatchesStep
<1>5. CASE HostAddStore(t)
  <2>1. CallMatchesStep' /\ GenerationBounds' /\ OneStarter' /\ OneShutdown' /\
        GenerationFence' /\ NodeFollowsState' /\ WorkerFollowsNode' /\
        HostFollowsState' /\ ActivationsFenced'
    BY <1>5 DEF HostAddStore, CallMatchesStep, GenerationBounds, OneStarter,
         OneShutdown, GenerationFence, NodeFollowsState, WorkerFollowsNode,
         HostFollowsState, ActivationsFenced
  <2>. QED  BY <2>1 DEF Control
<1>6. CASE RegisterInsert(t)
  <2>1. CallMatchesStep' /\ GenerationBounds' /\ OneStarter' /\ OneShutdown' /\
        GenerationFence' /\ NodeFollowsState' /\ WorkerFollowsNode' /\
        HostFollowsState' /\ ActivationsFenced'
    BY <1>6 DEF RegisterInsert, CallMatchesStep, GenerationBounds,
         OneStarter, OneShutdown, GenerationFence, NodeFollowsState,
         WorkerFollowsNode, HostFollowsState, ActivationsFenced
  <2>. QED  BY <2>1 DEF Control
<1>7. CASE RegisterDeploys(t)
  <2>1. HostFollowsState'
    BY <1>7 DEF RegisterDeploys, HostFollowsState, NodeFollowsState
  <2>2. GenerationFence'
    BY <1>7 DEF RegisterDeploys, GenerationFence, CallMatchesStep,
         NodeFollowsState, GenerationBounds
  <2>3. CallMatchesStep'
    BY <1>7 DEF RegisterDeploys, CallMatchesStep
  <2>4. GenerationBounds'
    BY <1>7 DEF RegisterDeploys, GenerationBounds
  <2>5. OneStarter'
    BY <1>7 DEF RegisterDeploys, OneStarter
  <2>6. OneShutdown'
    BY <1>7 DEF RegisterDeploys, OneShutdown
  <2>7. NodeFollowsState'
    BY <1>7 DEF RegisterDeploys, NodeFollowsState
  <2>8. WorkerFollowsNode'
    BY <1>7 DEF RegisterDeploys, WorkerFollowsNode
  <2>9. ActivationsFenced'
    BY <1>7 DEF RegisterDeploys, ActivationsFenced
  <2>. QED  BY <2>1, <2>2, <2>3, <2>4, <2>5, <2>6, <2>7, <2>8, <2>9 DEF Control
<1>8. CASE RegisterLocal(t)
  BY <1>8, QuietReturn DEF RegisterLocal
<1>9. CASE RegisterAbandon(t)
  BY <1>9, QuietReturn DEF RegisterAbandon
<1>10. CASE RegisterUndo(t)
  <2>1. CallMatchesStep' /\ GenerationBounds' /\ OneStarter' /\ OneShutdown' /\
        GenerationFence' /\ NodeFollowsState' /\ WorkerFollowsNode' /\
        HostFollowsState' /\ ActivationsFenced'
    BY <1>10 DEF RegisterUndo, Forget, CallMatchesStep, GenerationBounds,
         OneStarter, OneShutdown, GenerationFence, NodeFollowsState,
         WorkerFollowsNode, HostFollowsState, ActivationsFenced
  <2>. QED  BY <2>1 DEF Control
<1>11. CASE RegisterUndoBound(t)
  <2>1. CallMatchesStep' /\ GenerationBounds' /\ OneStarter' /\ OneShutdown' /\
        GenerationFence' /\ NodeFollowsState' /\ WorkerFollowsNode' /\
        HostFollowsState' /\ ActivationsFenced'
    BY <1>11 DEF RegisterUndoBound, Forget, CallMatchesStep,
         GenerationBounds, OneStarter, OneShutdown, GenerationFence,
         NodeFollowsState, WorkerFollowsNode, HostFollowsState,
         ActivationsFenced
  <2>. QED  BY <2>1 DEF Control
<1>12. CASE RegisterUnbind(t)
  <2>1. GenerationFence'
    BY <1>12 DEF RegisterUnbind, GenerationFence, GenerationBounds
  <2>2. CallMatchesStep' /\ GenerationBounds' /\ OneStarter' /\ OneShutdown' /\
        NodeFollowsState' /\ WorkerFollowsNode' /\ HostFollowsState' /\
        ActivationsFenced'
    BY <1>12 DEF RegisterUnbind, CallMatchesStep, GenerationBounds,
         OneStarter, OneShutdown, NodeFollowsState, WorkerFollowsNode,
         HostFollowsState, ActivationsFenced
  <2>. QED  BY <2>1, <2>2 DEF Control
<1>. QED
  BY <1>1, <1>2, <1>3, <1>4, <1>5, <1>6, <1>7, <1>8, <1>9, <1>10, <1>11, <1>12
     DEF RegisterStep

\* The steps of _shutdown() keep the control invariant.
LEMMA ShutdownStepKeepsControl ==
    ASSUME IndInv, NEW t \in Threads, ShutdownStep(t)
    PROVE  Control' /\ ActivationsFenced'
<1>1. CASE RollbackEnter(t)
  <2>1. GenerationFence'
    BY <1>1 DEF RollbackEnter, BeginShutdown, Released, GenerationFence,
         GenerationBounds
  <2>2. CallMatchesStep' /\ GenerationBounds' /\ OneStarter' /\ OneShutdown' /\
        NodeFollowsState' /\ WorkerFollowsNode' /\ HostFollowsState' /\
        ActivationsFenced'
    BY <1>1 DEF RollbackEnter, BeginShutdown, Released, CallMatchesStep,
         GenerationBounds, OneStarter, OneShutdown, NodeFollowsState,
         WorkerFollowsNode, HostFollowsState, ActivationsFenced
  <2>. QED  BY <2>1, <2>2 DEF Control
<1>2. CASE RollbackSkipped(t)
  BY <1>2, QuietReturn DEF RollbackSkipped
<1>3. CASE ServeLeave(t)
  <2>1. GenerationFence'
    BY <1>3 DEF ServeLeave, BeginShutdown, Released, GenerationFence,
         GenerationBounds
  <2>2. CallMatchesStep'
    BY <1>3 DEF ServeLeave, BeginShutdown, Released, CallMatchesStep
  <2>3. GenerationBounds'
    BY <1>3 DEF ServeLeave, BeginShutdown, Released, GenerationBounds
  <2>4. OneStarter'
    BY <1>3 DEF ServeLeave, BeginShutdown, Released, OneStarter
  <2>5. OneShutdown'
    BY <1>3 DEF ServeLeave, BeginShutdown, Released, OneShutdown
  <2>6. NodeFollowsState'
    BY <1>3 DEF ServeLeave, BeginShutdown, Released, NodeFollowsState
  <2>7. WorkerFollowsNode'
    BY <1>3 DEF ServeLeave, BeginShutdown, Released, WorkerFollowsNode
  <2>8. HostFollowsState'
    BY <1>3 DEF ServeLeave, BeginShutdown, Released, HostFollowsState
  <2>9. ActivationsFenced'
    BY <1>3 DEF ServeLeave, BeginShutdown, Released, ActivationsFenced
  <2>. QED  BY <2>1, <2>2, <2>3, <2>4, <2>5, <2>6, <2>7, <2>8, <2>9 DEF Control
<1>4. CASE ServeLeaveSkipped(t)
  BY <1>4, QuietReturn DEF ServeLeaveSkipped
<1>5. CASE HaltWorker(t)
  <2>1. CallMatchesStep' /\ GenerationBounds' /\ OneStarter' /\ OneShutdown' /\
        GenerationFence' /\ NodeFollowsState' /\ WorkerFollowsNode' /\
        HostFollowsState' /\ ActivationsFenced'
    BY <1>5 DEF HaltWorker, CallMatchesStep, GenerationBounds, OneStarter,
         OneShutdown, GenerationFence, NodeFollowsState, WorkerFollowsNode,
         HostFollowsState, ActivationsFenced
  <2>. QED  BY <2>1 DEF Control
<1>6. CASE HaltNoWorker(t)
  <2>1. CallMatchesStep' /\ GenerationBounds' /\ OneStarter' /\ OneShutdown' /\
        GenerationFence' /\ NodeFollowsState' /\ WorkerFollowsNode' /\
        HostFollowsState' /\ ActivationsFenced'
    BY <1>6 DEF HaltNoWorker, RegistrySnapshot, CallMatchesStep,
         GenerationBounds, OneStarter, OneShutdown, GenerationFence,
         NodeFollowsState, WorkerFollowsNode, HostFollowsState,
         ActivationsFenced
  <2>. QED  BY <2>1 DEF Control
<1>7. CASE JoinWorker(t)
  <2>1. WorkerFollowsNode'
    BY <1>7 DEF JoinWorker, RegistrySnapshot, JoinReturns, WorkerFollowsNode
  <2>2. CallMatchesStep' /\ GenerationBounds' /\ OneStarter' /\ OneShutdown' /\
        GenerationFence' /\ NodeFollowsState' /\ HostFollowsState' /\
        ActivationsFenced'
    BY <1>7 DEF JoinWorker, RegistrySnapshot, JoinReturns, CallMatchesStep,
         GenerationBounds, OneStarter, OneShutdown, GenerationFence,
         NodeFollowsState, HostFollowsState, ActivationsFenced
  <2>. QED  BY <2>1, <2>2 DEF Control
<1>8. CASE JoinTimeout(t)
  <2>1. CallMatchesStep' /\ GenerationBounds' /\ OneStarter' /\ OneShutdown' /\
        GenerationFence' /\ NodeFollowsState' /\ WorkerFollowsNode' /\
        HostFollowsState' /\ ActivationsFenced'
    BY <1>8 DEF JoinTimeout, CallMatchesStep, GenerationBounds, OneStarter,
         OneShutdown, GenerationFence, NodeFollowsState, WorkerFollowsNode,
         HostFollowsState, ActivationsFenced
  <2>. QED  BY <2>1 DEF Control
<1>9. CASE Revoke(t)
  <2>1. CallMatchesStep' /\ GenerationBounds' /\ OneStarter' /\ OneShutdown' /\
        GenerationFence' /\ NodeFollowsState' /\ WorkerFollowsNode' /\
        HostFollowsState' /\ ActivationsFenced'
    BY <1>9 DEF Revoke, CallMatchesStep, GenerationBounds, OneStarter,
         OneShutdown, GenerationFence, NodeFollowsState, WorkerFollowsNode,
         HostFollowsState, ActivationsFenced
  <2>. QED  BY <2>1 DEF Control
<1>10. CASE RevokeDone(t)
  <2>1. CallMatchesStep'
    BY <1>10 DEF RevokeDone, CallMatchesStep
  <2>2. GenerationBounds'
    BY <1>10 DEF RevokeDone, GenerationBounds
  <2>3. OneStarter'
    BY <1>10 DEF RevokeDone, OneStarter
  <2>4. OneShutdown'
    BY <1>10 DEF RevokeDone, OneShutdown
  <2>5. GenerationFence'
    BY <1>10 DEF RevokeDone, GenerationFence
  <2>6. NodeFollowsState'
    BY <1>10 DEF RevokeDone, NodeFollowsState
  <2>7. WorkerFollowsNode'
    BY <1>10 DEF RevokeDone, WorkerFollowsNode
  <2>8. HostFollowsState'
    BY <1>10 DEF RevokeDone, HostFollowsState
  <2>9. ActivationsFenced'
    BY <1>10 DEF RevokeDone, ActivationsFenced
  <2>. QED  BY <2>1, <2>2, <2>3, <2>4, <2>5, <2>6, <2>7, <2>8, <2>9 DEF Control
<1>11. CASE HostStop(t)
  <2>1. HostFollowsState'
    BY <1>11 DEF HostStop, HostFollowsState, OneShutdown
  <2>2. CallMatchesStep'
    BY <1>11 DEF HostStop, CallMatchesStep
  <2>3. GenerationBounds'
    BY <1>11 DEF HostStop, GenerationBounds
  <2>4. OneStarter'
    BY <1>11 DEF HostStop, OneStarter
  <2>5. OneShutdown'
    BY <1>11 DEF HostStop, OneShutdown
  <2>6. GenerationFence'
    BY <1>11 DEF HostStop, GenerationFence
  <2>7. NodeFollowsState'
    BY <1>11 DEF HostStop, NodeFollowsState
  <2>8. WorkerFollowsNode'
    BY <1>11 DEF HostStop, WorkerFollowsNode
  <2>9. ActivationsFenced'
    BY <1>11 DEF HostStop, ActivationsFenced
  <2>. QED  BY <2>1, <2>2, <2>3, <2>4, <2>5, <2>6, <2>7, <2>8, <2>9 DEF Control
<1>12. CASE Release(t)
  <2>1. WorkerFollowsNode'
    BY <1>12 DEF Release, WorkerFollowsNode, NodeFollowsState, OneShutdown,
         GenerationBounds
  <2>2. CallMatchesStep' /\ GenerationBounds' /\ OneStarter' /\ OneShutdown' /\
        GenerationFence' /\ NodeFollowsState' /\ HostFollowsState' /\
        ActivationsFenced'
    BY <1>12 DEF Release, CallMatchesStep, GenerationBounds, OneStarter,
         OneShutdown, GenerationFence, NodeFollowsState, HostFollowsState,
         ActivationsFenced
  <2>. QED  BY <2>1, <2>2 DEF Control
<1>13. CASE Settle(t)
  <2>1. WorkerFollowsNode'
    BY <1>13 DEF Settle, WorkerFollowsNode, OneShutdown, NodeFollowsState
  <2>2. GenerationFence'
    BY <1>13 DEF Settle, GenerationFence, OneShutdown, GenerationBounds
  <2>3. CallMatchesStep' /\ GenerationBounds' /\ OneStarter' /\ OneShutdown' /\
        NodeFollowsState' /\ HostFollowsState' /\ ActivationsFenced'
    BY <1>13 DEF Settle, CallMatchesStep, GenerationBounds, OneStarter,
         OneShutdown, NodeFollowsState, HostFollowsState, ActivationsFenced
  <2>. QED  BY <2>1, <2>2, <2>3 DEF Control
<1>. QED
  BY <1>1, <1>2, <1>3, <1>4, <1>5, <1>6, <1>7, <1>8, <1>9, <1>10, <1>11,
     <1>12, <1>13 DEF ShutdownStep

\* The steps of a lease worker keep the control invariant.
LEMMA WorkerStepKeepsControl ==
    ASSUME IndInv, NEW g \in Gens, WorkerStep(g)
    PROVE  Control' /\ ActivationsFenced'
<1>1. CASE WorkerDue(g)
  <2>1. ActivationsFenced'
    <3>1. ASSUME NEW h \in Gens, NEW a \in batch'[h]
          PROVE  a \in 1..nact /\ actGen[a] = h
      <4>1. CASE h = g
        <5>1. PICK n \in Names : a = members[g][n] /\ a # None
          BY <1>1, <3>1, <4>1 DEF WorkerDue
        <5>. QED  BY <4>1, <5>1 DEF ActivationsFenced
      <4>2. CASE h # g
        BY <1>1, <3>1, <4>2 DEF WorkerDue, ActivationsFenced
      <4>. QED  BY <4>1, <4>2
    <3>. QED  BY <1>1, <3>1 DEF WorkerDue, ActivationsFenced
  <2>2. CallMatchesStep' /\ GenerationBounds' /\ OneStarter' /\ OneShutdown' /\
        GenerationFence' /\ NodeFollowsState' /\ WorkerFollowsNode' /\
        HostFollowsState'
    BY <1>1 DEF WorkerDue, CallMatchesStep, GenerationBounds, OneStarter,
         OneShutdown, GenerationFence, NodeFollowsState, WorkerFollowsNode,
         HostFollowsState
  <2>. QED  BY <2>1, <2>2 DEF Control
<1>2. CASE WorkerStopped(g)
  <2>1. CallMatchesStep' /\ GenerationBounds' /\ OneStarter' /\ OneShutdown' /\
        GenerationFence' /\ NodeFollowsState' /\ WorkerFollowsNode' /\
        HostFollowsState' /\ ActivationsFenced'
    BY <1>2 DEF WorkerStopped, CallMatchesStep, GenerationBounds,
         OneStarter, OneShutdown, GenerationFence, NodeFollowsState,
         WorkerFollowsNode, HostFollowsState, ActivationsFenced
  <2>. QED  BY <2>1 DEF Control
<1>3. CASE RenewOk(g)
  <2>1. CallMatchesStep' /\ GenerationBounds' /\ OneStarter' /\ OneShutdown' /\
        GenerationFence' /\ NodeFollowsState' /\ WorkerFollowsNode' /\
        HostFollowsState' /\ ActivationsFenced'
    BY <1>3 DEF RenewOk, CallMatchesStep, GenerationBounds, OneStarter,
         OneShutdown, GenerationFence, NodeFollowsState, WorkerFollowsNode,
         HostFollowsState, ActivationsFenced
  <2>. QED  BY <2>1 DEF Control
<1>4. CASE RenewFail(g)
  <2>1. CallMatchesStep' /\ GenerationBounds' /\ OneStarter' /\ OneShutdown' /\
        GenerationFence' /\ NodeFollowsState' /\ WorkerFollowsNode' /\
        HostFollowsState' /\ ActivationsFenced'
    BY <1>4 DEF RenewFail, CallMatchesStep, GenerationBounds, OneStarter,
         OneShutdown, GenerationFence, NodeFollowsState, WorkerFollowsNode,
         HostFollowsState, ActivationsFenced
  <2>. QED  BY <2>1 DEF Control
<1>5. CASE BindingLeaseFailed(g) /\ FailureIsCurrent(g)
  <2>1. GenerationBounds'
    BY <1>5 DEF BindingLeaseFailed, Released, FailureIsCurrent,
         GenerationBounds, WorkerFollowsNode, NodeFollowsState
  <2>2. OneShutdown'
    BY <1>5 DEF BindingLeaseFailed, Released, FailureIsCurrent, OneShutdown,
         WorkerFollowsNode, NodeFollowsState
  <2>3. GenerationFence'
    BY <1>5 DEF BindingLeaseFailed, Released, FailureIsCurrent,
         GenerationFence, WorkerFollowsNode
  <2>4. NodeFollowsState'
    BY <1>5 DEF BindingLeaseFailed, Released, FailureIsCurrent,
         NodeFollowsState, WorkerFollowsNode
  <2>5. WorkerFollowsNode'
    BY <1>5 DEF BindingLeaseFailed, Released, FailureIsCurrent,
         WorkerFollowsNode, NodeFollowsState, OneShutdown
  <2>6. CallMatchesStep'
    BY <1>5 DEF BindingLeaseFailed, Released, FailureIsCurrent,
         CallMatchesStep
  <2>7. OneStarter'
    BY <1>5 DEF BindingLeaseFailed, Released, FailureIsCurrent, OneStarter
  <2>8. HostFollowsState'
    BY <1>5 DEF BindingLeaseFailed, Released, FailureIsCurrent,
         HostFollowsState
  <2>9. ActivationsFenced'
    BY <1>5 DEF BindingLeaseFailed, Released, FailureIsCurrent,
         ActivationsFenced
  <2>. QED  BY <2>1, <2>2, <2>3, <2>4, <2>5, <2>6, <2>7, <2>8, <2>9 DEF Control
<1>6. CASE BindingLeaseFailed(g) /\ ~FailureIsCurrent(g)
  <2>1. CallMatchesStep' /\ GenerationBounds' /\ OneStarter' /\ OneShutdown' /\
        GenerationFence' /\ NodeFollowsState' /\ WorkerFollowsNode' /\
        HostFollowsState' /\ ActivationsFenced'
    BY <1>6 DEF BindingLeaseFailed, Released, FailureIsCurrent,
         CallMatchesStep, GenerationBounds, OneStarter, OneShutdown,
         GenerationFence, NodeFollowsState, WorkerFollowsNode,
         HostFollowsState, ActivationsFenced
  <2>. QED  BY <2>1 DEF Control
<1>7. CASE WorkerHostStop(g)
  <2>1. HostFollowsState'
    BY <1>7 DEF WorkerHostStop, HostFollowsState, WorkerFollowsNode
  <2>2. CallMatchesStep' /\ GenerationBounds' /\ OneStarter' /\ OneShutdown' /\
        GenerationFence' /\ NodeFollowsState' /\ WorkerFollowsNode' /\
        ActivationsFenced'
    BY <1>7 DEF WorkerHostStop, CallMatchesStep, GenerationBounds,
         OneStarter, OneShutdown, GenerationFence, NodeFollowsState,
         WorkerFollowsNode, ActivationsFenced
  <2>. QED  BY <2>1, <2>2 DEF Control
<1>. QED
  BY <1>1, <1>2, <1>3, <1>4, <1>5, <1>6, <1>7 DEF WorkerStep

HIDE DEF NodeTypeOK, WorkerTypeOK, RuntimeTypeOK, ControlTypeOK, LocalsTypeOK,
         Return, DropLocals

-----------------------------------------------------------------------------
(* The inductive invariant *)

\* The provider starts in its inductive invariant.
LEMMA InitInv == Init => IndInv
<1> SUFFICES ASSUME Init PROVE IndInv
  OBVIOUS
<1>1. NodeTypeOK
  <2>1. 0 \in 0..MaxGen /\ [n \in Names |-> None] \in [Names -> Acts \cup {None}]
    OBVIOUS
  <2>. QED  BY <2>1 DEF Init, NodeTypeOK, ProviderStates, PublicationStates
<1>2. WorkerTypeOK
  BY DEF Init, WorkerTypeOK, WorkerStates
<1>3. RuntimeTypeOK
  BY DEF Init, RuntimeTypeOK
<1>4. ControlTypeOK /\ LocalsTypeOK
  BY StepNames DEF Init, ControlTypeOK, LocalsTypeOK
<1>5. CallMatchesStep /\ GenerationBounds /\ OneStarter /\ OneShutdown
  BY DEF Init, CallMatchesStep, GenerationBounds, OneStarter, OneShutdown
<1>6. GenerationFence /\ NodeFollowsState
  BY DEF Init, GenerationFence, NodeFollowsState
<1>7. WorkerFollowsNode /\ HostFollowsState
  BY DEF Init, WorkerFollowsNode, HostFollowsState
<1>8. ActivationsFenced
  BY DEF Init, ActivationsFenced
<1>. QED  BY <1>1, <1>2, <1>3, <1>4, <1>5, <1>6, <1>7, <1>8

\* The expiry of an activation changes what the Runtime holds, and no more.
LEMMA ExpireKeepsInv ==
    ASSUME IndInv, NEW a \in Acts, Expire(a)
    PROVE  IndInv'
<1>1. TypeOK'
  BY DEF Expire, NodeTypeOK, WorkerTypeOK, RuntimeTypeOK, ControlTypeOK, LocalsTypeOK
<1>2. CallMatchesStep' /\ GenerationBounds' /\ OneStarter' /\ OneShutdown'
  BY DEF Expire, CallMatchesStep, GenerationBounds, OneStarter, OneShutdown
<1>3. GenerationFence' /\ NodeFollowsState' /\ WorkerFollowsNode'
  BY DEF Expire, GenerationFence, NodeFollowsState, WorkerFollowsNode
<1>4. HostFollowsState' /\ ActivationsFenced'
  BY DEF Expire, HostFollowsState, ActivationsFenced
<1>. QED  BY <1>1, <1>2, <1>3, <1>4

\* A stuttering step changes nothing.
LEMMA StutterKeepsInv ==
    ASSUME IndInv, UNCHANGED vars
    PROVE  IndInv'
<1>1. TypeOK'
  BY DEF vars, NodeTypeOK, WorkerTypeOK, RuntimeTypeOK, ControlTypeOK, LocalsTypeOK
<1>2. CallMatchesStep' /\ GenerationBounds' /\ OneStarter' /\ OneShutdown'
  BY DEF vars, CallMatchesStep, GenerationBounds, OneStarter, OneShutdown
<1>3. GenerationFence' /\ NodeFollowsState' /\ WorkerFollowsNode'
  BY DEF vars, GenerationFence, NodeFollowsState, WorkerFollowsNode
<1>4. HostFollowsState' /\ ActivationsFenced'
  BY DEF vars, HostFollowsState, ActivationsFenced
<1>. QED  BY <1>1, <1>2, <1>3, <1>4

\* Every step keeps the inductive invariant.
LEMMA NextInv == IndInv /\ [Next]_vars => IndInv'
<1> SUFFICES ASSUME IndInv, [Next]_vars PROVE IndInv'
  OBVIOUS
<1>1. ASSUME NEW t \in Threads, Call(t) PROVE IndInv'
  BY <1>1, CallKeepsTypes, CallKeepsControl
<1>2. ASSUME NEW t \in Threads, StartStep(t) PROVE IndInv'
  BY <1>2, StartStepKeepsTypes, StartStepKeepsControl
<1>3. ASSUME NEW t \in Threads, DeployStep(t) PROVE IndInv'
  BY <1>3, DeployStepKeepsTypes, DeployStepKeepsControl
<1>4. ASSUME NEW t \in Threads, RegisterStep(t) PROVE IndInv'
  BY <1>4, RegisterStepKeepsTypes, RegisterStepKeepsControl
<1>5. ASSUME NEW t \in Threads, ShutdownStep(t) PROVE IndInv'
  BY <1>5, ShutdownStepKeepsTypes, ShutdownStepKeepsControl
<1>6. ASSUME NEW g \in Gens, WorkerStep(g) PROVE IndInv'
  BY <1>6, WorkerStepKeepsTypes, WorkerStepKeepsControl
<1>. QED
  BY <1>1, <1>2, <1>3, <1>4, <1>5, <1>6, ExpireKeepsInv, StutterKeepsInv
     DEF Next, Continue

-----------------------------------------------------------------------------
(* Safety *)

\* Every reachable state satisfies the inductive invariant.
THEOREM Invariance == Spec => []IndInv
<1>1. Init => IndInv
  BY InitInv
<1>2. IndInv /\ [Next]_vars => IndInv'
  BY NextInv
<1>. QED  BY <1>1, <1>2, PTL DEF Spec

\* The types are right, whatever the threads do (TypeOK).
THEOREM TypeCorrect == Spec => []TypeOK
<1>1. IndInv => TypeOK
  OBVIOUS
<1>. QED  BY <1>1, Invariance, PTL

\* A lease worker only ever renews what was deployed for its own generation
\* (FencedRenewal): a deployment that completes after stop() is left to expire.
THEOREM RenewalsFenced == Spec => []FencedRenewal
<1>1. IndInv => FencedRenewal
  BY DEF ActivationsFenced, FencedRenewal
<1>. QED  BY <1>1, Invariance, PTL

\* HostServer.stop() is never entered twice at a time, and only while the
\* provider is STOPPING or FAILED (HostStopFenced).
LEMMA AtMostOneStopper ==
    ASSUME IndInv
    PROVE  HostStopFenced
<1> DEFINE stoppers == {t \in Threads : pc[t] = "hoststop"}
           failers == {g \in Gens : wpc[g] = "hoststop"}
<1>1. stoppers # {} => pstate = "STOPPING"
  BY DEF OneShutdown
<1>2. failers # {} => pstate \in {"STOPPING", "FAILED"}
  BY DEF WorkerFollowsNode
<1>3. ~(stoppers # {} /\ failers # {})
  BY DEF WorkerFollowsNode
<1>4. stoppers = {} \/ \E t \in Threads : stoppers = {t}
  BY DEF OneShutdown
<1>5. failers = {} \/ failers = {leaseWorker}
  BY DEF WorkerFollowsNode
<1>6. Cardinality(stoppers) + Cardinality(failers) <= 1
  <2>1. Cardinality({}) = 0 /\ \A x : Cardinality({x}) = 1
    BY FS_EmptySet, FS_Singleton
  <2>. HIDE DEF stoppers, failers
  <2>2. Cardinality(stoppers) \in {0, 1} /\ (stoppers = {} => Cardinality(stoppers) = 0)
    BY <1>4, <2>1
  <2>3. Cardinality(failers) \in {0, 1} /\ (failers = {} => Cardinality(failers) = 0)
    BY <1>5, <2>1
  <2>4. stoppers = {} \/ failers = {}
    BY <1>3
  <2>. QED  BY <2>2, <2>3, <2>4
<1>. QED  BY <1>1, <1>2, <1>6 DEF HostStopFenced

\* The same of every reachable state.
THEOREM HostStopsFenced == Spec => []HostStopFenced
BY AtMostOneStopper, Invariance, PTL

-----------------------------------------------------------------------------
(* Refinement *)

USE DEF Contract!contractVars

\* A step that leaves the state, the generation and the host alone is a stutter
\* of the contract.
LEMMA Stutter ==
    ASSUME UNCHANGED <<pstate, generation, hostUp>>
    PROVE  [Contract!Next]_Contract!contractVars
OBVIOUS

\* A new call starts or shuts down the provider, or leaves it alone.
LEMMA CallRefines ==
    ASSUME IndInv, NEW t \in Threads, Call(t)
    PROVE  [Contract!Next]_Contract!contractVars
<1>1. CASE StartEnter(t) \/ ServeEnter(t)
  BY <1>1 DEF StartEnter, ServeEnter, BeginStart, Contract!Next, Contract!Start
<1>2. CASE StopEnter(t)
  BY <1>2 DEF StopEnter, BeginShutdown, NodeTypeOK, ProviderStates,
              Contract!Next, Contract!Shutdown
<1>3. CASE ServeActive(t) \/ ServeInterrupt(t) \/ \E n \in Names : RegisterEnter(t, n)
  BY <1>3, Stutter DEF ServeActive, ServeInterrupt, RegisterEnter
<1>. QED  BY <1>1, <1>2, <1>3 DEF Call

\* start() opens the host while STARTING and activates the provider with the
\* host open.
LEMMA StartStepRefines ==
    ASSUME IndInv, NEW t \in Threads, StartStep(t)
    PROVE  [Contract!Next]_Contract!contractVars
<1>1. CASE AttachOk(t)
  <2>1. pstate = "STARTING"
    BY <1>1 DEF AttachOk, RequireGeneration, GenerationFence
  <2>. QED  BY <1>1, <2>1 DEF AttachOk, Contract!Next, Contract!OpenHost
<1>2. CASE StartFinish(t) \/ ServeStarted(t)
  <2>1. pstate = "STARTING" /\ hostUp
    BY <1>2, StartFinishFacts DEF StartFinish, ServeStarted, StartComplete
  <2>. QED
    BY <1>2, <2>1 DEF StartFinish, ServeStarted, StartComplete,
                      Contract!Next, Contract!Activate
<1>3. CASE \/ ConnectOk(t) \/ ConnectFail(t) \/ AttachHostFails(t) \/ AttachStale(t)
           \/ Discard(t) \/ SnapshotRegistry(t) \/ DeployNext(t)
           \/ StartRefused(t) \/ ServeWait(t)
  BY <1>3, Stutter DEF ConnectOk, ConnectFail, AttachHostFails, AttachStale, Discard,
                       SnapshotRegistry, DeployNext, StartRefused, ServeWait
<1>. QED  BY <1>1, <1>2, <1>3 DEF StartStep

\* A deployment and a registration leave the lifecycle alone.
LEMMA DeployStepRefines ==
    ASSUME NEW t \in Threads, DeployStep(t) \/ RegisterStep(t)
    PROVE  [Contract!Next]_Contract!contractVars
<1>1. CASE DeployStep(t)
  BY <1>1, Stutter DEF DeployStep, Install, InstallFail, CommitStale, CommitUntracked,
                       CommitUnhealthy, CommitStart, CommitRegister, Commit
<1>2. CASE RegisterStep(t)
  BY <1>2, Stutter DEF RegisterStep, RegisterAdmit, RegisterRefused, HostAddCheck,
                       HostAddStore, RegisterInsert, RegisterDeploys, RegisterLocal,
                       RegisterAbandon, RegisterUndo, RegisterUndoBound, RegisterUnbind
<1>. QED  BY <1>1, <1>2

\* A shutdown closes the host while STOPPING and settles with the host closed.
LEMMA ShutdownStepRefines ==
    ASSUME IndInv, NEW t \in Threads, ShutdownStep(t)
    PROVE  [Contract!Next]_Contract!contractVars
<1>1. CASE RollbackEnter(t) \/ ServeLeave(t)
  BY <1>1 DEF RollbackEnter, ServeLeave, BeginShutdown, NodeTypeOK, ProviderStates,
              Contract!Next, Contract!Shutdown
<1>2. CASE HostStop(t)
  <2>1. pstate = "STOPPING"
    BY <1>2 DEF HostStop, OneShutdown
  <2>. QED  BY <1>2, <2>1 DEF HostStop, Contract!Next, Contract!CloseHost
<1>3. CASE Settle(t)
  <2>1. pstate = "STOPPING" /\ ~hostUp
    BY <1>3 DEF Settle, OneShutdown, HostFollowsState
  <2>. QED  BY <1>3, <2>1 DEF Settle, Contract!Next, Contract!Settle
<1>4. CASE \/ RollbackSkipped(t) \/ ServeLeaveSkipped(t)
           \/ HaltWorker(t) \/ HaltNoWorker(t) \/ JoinWorker(t) \/ JoinTimeout(t)
           \/ Revoke(t) \/ RevokeDone(t) \/ Release(t)
  BY <1>4, Stutter DEF RollbackSkipped, ServeLeaveSkipped, HaltWorker, HaltNoWorker,
                       JoinWorker, JoinTimeout, Revoke, RevokeDone, Release
<1>. QED  BY <1>1, <1>2, <1>3, <1>4 DEF ShutdownStep

\* Only the lease worker of the running generation fails the provider, and it
\* closes the host while FAILED or STOPPING.
LEMMA WorkerStepRefines ==
    ASSUME IndInv, NEW g \in Gens, WorkerStep(g)
    PROVE  [Contract!Next]_Contract!contractVars
<1>1. CASE BindingLeaseFailed(g) /\ FailureIsCurrent(g)
  <2>1. leaseWorker = g /\ pstate \in Running
    BY <1>1 DEF BindingLeaseFailed, FailureIsCurrent, WorkerFollowsNode, NodeFollowsState
  <2>2. CASE pstate = "FAILED"
    BY <1>1, <2>2, Stutter DEF BindingLeaseFailed
  <2>3. CASE pstate \in {"STARTING", "ACTIVE"}
    <3>1. hostUp
      BY <2>1, <2>3 DEF HostFollowsState
    <3>. QED
      BY <1>1, <2>3, <3>1 DEF BindingLeaseFailed, Contract!Next, Contract!Fail
  <2>. QED  BY <2>1, <2>2, <2>3
<1>2. CASE BindingLeaseFailed(g) /\ ~FailureIsCurrent(g)
  BY <1>2, Stutter DEF BindingLeaseFailed
<1>3. CASE WorkerHostStop(g)
  <2>1. pstate \in {"STOPPING", "FAILED"}
    BY <1>3 DEF WorkerHostStop, WorkerFollowsNode
  <2>. QED  BY <1>3, <2>1 DEF WorkerHostStop, Contract!Next, Contract!CloseHost
<1>4. CASE WorkerDue(g) \/ WorkerStopped(g) \/ RenewOk(g) \/ RenewFail(g)
  BY <1>4, Stutter DEF WorkerDue, WorkerStopped, RenewOk, RenewFail
<1>. QED  BY <1>1, <1>2, <1>3, <1>4 DEF WorkerStep

\* Every behaviour of the provider is one of its contract (ImplementsContract).
THEOREM Refinement == Spec => ImplementsContract
<1>1. Init => Contract!Init
  BY DEF Init, Contract!Init
<1>2. IndInv /\ [Next]_vars => [Contract!Next]_Contract!contractVars
  <2> SUFFICES ASSUME IndInv, [Next]_vars
               PROVE  [Contract!Next]_Contract!contractVars
    OBVIOUS
  <2>1. ASSUME NEW t \in Threads, Call(t) \/ Continue(t)
        PROVE  [Contract!Next]_Contract!contractVars
    BY <2>1, CallRefines, StartStepRefines, DeployStepRefines, ShutdownStepRefines
       DEF Continue
  <2>2. ASSUME NEW a \in Acts, Expire(a)
        PROVE  [Contract!Next]_Contract!contractVars
    BY <2>2, Stutter DEF Expire
  <2>3. CASE UNCHANGED vars
    BY <2>3, Stutter DEF vars
  <2>. QED  BY <2>1, <2>2, <2>3, WorkerStepRefines DEF Next
<1>. QED  BY <1>1, <1>2, Invariance, PTL DEF Spec, ImplementsContract, Contract!Spec

-----------------------------------------------------------------------------
(* The calls of the host                                                     *)

USE DEF Host!controlVars, ControlTypeOK, WorkerTypeOK, Steps

\* Nobody is inside HostServer.stop(), as control sees it.
NobodyStops == /\ \A t \in Threads : pc[t] # "hoststop"
               /\ \A g \in Gens : wpc[g] # "hoststop"

\* That is what the interface calls no stopper.
LEMMA NoStopper == (HostStoppers = {} <=> NobodyStops) /\ (HostStoppers' = {} <=> NobodyStops')
<1>1. HostStoppers = {} <=> NobodyStops
  BY DEF HostStoppers, NobodyStops
<1>2. HostStoppers' = {} <=> NobodyStops'
  BY DEF HostStoppers, NobodyStops
<1>. QED  BY <1>1, <1>2

\* A step in which nobody enters or leaves HostServer.stop() is none of the host.
LEMMA HostStands ==
    ASSUME hostUp' = hostUp,
           \A t \in Threads : pc'[t] = "hoststop" <=> pc[t] = "hoststop",
           \A g \in Gens : wpc'[g] = "hoststop" <=> wpc[g] = "hoststop"
    PROVE  [Host!Next]_Host!controlVars
<1>1. HostStoppers' = HostStoppers
  BY DEF HostStoppers
<1>. QED  BY <1>1

\* The same of a thread that moves elsewhere, and may release those in serve().
LEMMA ThreadStands ==
    ASSUME IndInv, NEW t \in Threads, hostUp' = hostUp,
           pc[t] # "hoststop", pc'[t] # "hoststop",
           \A u \in Threads : u # t => pc'[u] = pc[u] \/ pc'[u] = Released[u],
           \A g \in Gens : wpc'[g] = wpc[g] \/ {wpc[g], wpc'[g]} \subseteq WorkerStates \ {"hoststop"}
    PROVE  [Host!Next]_Host!controlVars
BY HostStands DEF Released

\* A new call does not reach the host.
LEMMA CallControls ==
    ASSUME IndInv, NEW t \in Threads, Call(t)
    PROVE  [Host!Next]_Host!controlVars
<1>1. CASE StartEnter(t) \/ ServeEnter(t)
  BY <1>1, ThreadStands DEF StartEnter, ServeEnter, BeginStart
<1>2. CASE StopEnter(t)
  BY <1>2, ThreadStands DEF StopEnter, BeginShutdown, Released
<1>3. CASE ServeActive(t) \/ ServeInterrupt(t) \/ \E n \in Names : RegisterEnter(t, n)
  BY <1>3, ThreadStands DEF ServeActive, ServeInterrupt, RegisterEnter
<1>. QED  BY <1>1, <1>2, <1>3 DEF Call

\* start() opens the host while nobody stops it.
LEMMA StartStepControls ==
    ASSUME IndInv, NEW t \in Threads, StartStep(t)
    PROVE  [Host!Next]_Host!controlVars
<1>1. CASE AttachOk(t)
  <2>1. pstate = "STARTING"
    BY <1>1 DEF AttachOk, RequireGeneration, GenerationFence
  <2>2. NobodyStops
    BY <2>1 DEF NobodyStops, OneShutdown, WorkerFollowsNode
  <2>3. NobodyStops'
    BY <1>1, <2>2 DEF NobodyStops, AttachOk
  <2>. QED  BY <1>1, <2>2, <2>3, NoStopper DEF AttachOk, Host!Next, Host!Open
<1>2. CASE StartFinish(t) \/ ServeStarted(t)
  BY <1>2, ThreadStands DEF StartFinish, ServeStarted, StartComplete, Return
<1>3. CASE \/ ConnectOk(t) \/ ConnectFail(t) \/ AttachHostFails(t) \/ AttachStale(t)
           \/ Discard(t) \/ SnapshotRegistry(t) \/ DeployNext(t)
           \/ StartRefused(t) \/ ServeWait(t)
  BY <1>3, ThreadStands DEF ConnectOk, ConnectFail, AttachHostFails, AttachStale, Discard,
                       SnapshotRegistry, DeployNext, StartRefused, ServeWait
<1>. QED  BY <1>1, <1>2, <1>3 DEF StartStep

\* A deployment and a registration leave the listener alone.
LEMMA DeployStepControls ==
    ASSUME IndInv, NEW t \in Threads, DeployStep(t) \/ RegisterStep(t)
    PROVE  [Host!Next]_Host!controlVars
<1>1. CASE Install(t, TRUE) \/ Install(t, FALSE) \/ InstallFail(t) \/ CommitStale(t) \/ CommitUntracked(t)
  BY <1>1, ThreadStands DEF Install, InstallFail, CommitStale, CommitUntracked, Raise
<1>2. CASE CommitUnhealthy(t)
  <2>1. /\ hostUp' = hostUp /\ pc[t] = "commit" /\ pc'[t] # "hoststop"
        /\ \A u \in Threads : u # t => pc'[u] = pc[u]
    BY <1>2 DEF CommitUnhealthy, Raise
  <2>2. \A g \in Gens : wpc'[g] = wpc[g] \/ {wpc[g], wpc'[g]} \subseteq WorkerStates \ {"hoststop"}
    BY <1>2 DEF CommitUnhealthy, WorkerStates
  <2>. QED  BY <2>1, <2>2, ThreadStands
<1>3. CASE CommitStart(t) \/ CommitRegister(t)
  <2>1. hostUp' = hostUp /\ pc[t] # "hoststop" /\ pc' = [pc EXCEPT ![t] = pc'[t]]
        /\ pc'[t] \in {"deploy", "idle"}
    BY <1>3 DEF CommitStart, CommitRegister, Commit, Return
  <2>2. wpc' = [wpc EXCEPT ![TrackingWorker] = IF @ = "none" THEN "wait" ELSE @]
    BY <1>3 DEF CommitStart, CommitRegister, Commit, Track
  <2>3. \A g \in Gens : wpc'[g] = wpc[g] \/ {wpc[g], wpc'[g]} \subseteq WorkerStates \ {"hoststop"}
    BY <2>2 DEF WorkerStates
  <2>. QED  BY <2>1, <2>3, ThreadStands
<1>4. CASE RegisterStep(t)
  BY <1>4, ThreadStands DEF RegisterStep, RegisterAdmit, RegisterRefused, HostAddCheck,
                       HostAddStore, RegisterInsert, RegisterDeploys, RegisterLocal,
                       RegisterAbandon, RegisterUndo, RegisterUndoBound, RegisterUnbind,
                       Return
<1>. QED  BY <1>1, <1>2, <1>3, <1>4 DEF DeployStep

\* A shutdown enters stop() after the worker has left it, and alone.
LEMMA ShutdownStepControls ==
    ASSUME IndInv, NEW t \in Threads, ShutdownStep(t)
    PROVE  [Host!Next]_Host!controlVars
<1>1. CASE JoinTimeout(t) \/ RevokeDone(t)
  <2>1. pc[t] \in {"join", "revoke"} /\ UNCHANGED <<wpc, hostUp>>
        /\ pc' = [pc EXCEPT ![t] = "hoststop"] /\ (pc[t] = "join" => wpc[leaseWorker] = "renew")
    BY <1>1 DEF JoinTimeout, RevokeDone
  <2>2. NobodyStops
    BY <2>1 DEF NobodyStops, OneShutdown, WorkerFollowsNode
  <2>3. \A u \in Threads : pc'[u] = "hoststop" <=> u = t
    BY <2>1, <2>2 DEF NobodyStops
  <2>4. HostStoppers' = {<<"call", t>>}
    BY <2>1, <2>2, <2>3 DEF NobodyStops, HostStoppers
  <2>. QED  BY <2>1, <2>2, <2>4, NoStopper DEF Host!Next, Host!Close
<1>2. CASE HostStop(t)
  <2>1. ~NobodyStops
    BY <1>2 DEF NobodyStops, HostStop
  <2>2. NobodyStops'
    BY <1>2 DEF NobodyStops, HostStop, OneShutdown, WorkerFollowsNode
  <2>. QED  BY <1>2, <2>1, <2>2, NoStopper DEF HostStop, Host!Next, Host!Closed
<1>3. CASE RollbackEnter(t) \/ ServeLeave(t)
  BY <1>3, ThreadStands DEF RollbackEnter, ServeLeave, BeginShutdown, Released
<1>4. CASE \/ RollbackSkipped(t) \/ ServeLeaveSkipped(t)
           \/ HaltWorker(t) \/ HaltNoWorker(t) \/ JoinWorker(t)
           \/ Revoke(t) \/ Release(t) \/ Settle(t)
  BY <1>4, ThreadStands DEF RollbackSkipped, ServeLeaveSkipped, HaltWorker, HaltNoWorker,
                       JoinWorker, Revoke, Release, Settle, Return
<1>. QED  BY <1>1, <1>2, <1>3, <1>4 DEF ShutdownStep

\* The failure callback enters stop() before any shutdown can.
LEMMA WorkerStepControls ==
    ASSUME IndInv, NEW g \in Gens, WorkerStep(g)
    PROVE  [Host!Next]_Host!controlVars
<1>1. CASE BindingLeaseFailed(g) /\ FailureIsCurrent(g)
  <2>1. leaseWorker = g /\ pstate \in Running
    BY <1>1 DEF BindingLeaseFailed, FailureIsCurrent, WorkerFollowsNode, NodeFollowsState
  <2>2. NobodyStops
    BY <1>1, <2>1 DEF NobodyStops, BindingLeaseFailed, OneShutdown, WorkerFollowsNode
  <2>3. /\ \A t \in Threads : pc'[t] # "hoststop"
        /\ \A h \in Gens : wpc'[h] = "hoststop" <=> h = g
        /\ hostUp' = hostUp
    BY <1>1, <2>2 DEF NobodyStops, BindingLeaseFailed, Released
  <2>4. HostStoppers' = {<<"callback", g>>}
    BY <2>3 DEF HostStoppers
  <2>. QED  BY <2>2, <2>3, <2>4, NoStopper DEF Host!Next, Host!Close
<1>2. CASE BindingLeaseFailed(g) /\ ~FailureIsCurrent(g)
  BY <1>2, HostStands DEF BindingLeaseFailed
<1>3. CASE WorkerHostStop(g)
  <2>1. ~NobodyStops
    BY <1>3 DEF NobodyStops, WorkerHostStop
  <2>2. NobodyStops'
    BY <1>3 DEF NobodyStops, WorkerHostStop, WorkerFollowsNode
  <2>. QED  BY <1>3, <2>1, <2>2, NoStopper DEF WorkerHostStop, Host!Next, Host!Closed
<1>4. CASE WorkerDue(g) \/ WorkerStopped(g) \/ RenewOk(g) \/ RenewFail(g)
  BY <1>4, HostStands DEF WorkerDue, WorkerStopped, RenewOk, RenewFail
<1>. QED  BY <1>1, <1>2, <1>3, <1>4 DEF WorkerStep

\* The provider calls its host as the host asks (HostIsControlled): HostServer.stop()
\* is entered by one caller at a time, and start() never meets it.
THEOREM HostControlled == Spec => HostIsControlled
<1>1. Init => Host!Init
  <2>1. Init => NobodyStops
    BY DEF Init, NobodyStops
  <2>. QED  BY <2>1, NoStopper DEF Init, Host!Init
<1>2. IndInv /\ [Next]_vars => [Host!Next]_Host!controlVars
  <2> SUFFICES ASSUME IndInv, [Next]_vars
               PROVE  [Host!Next]_Host!controlVars
    OBVIOUS
  <2>1. ASSUME NEW t \in Threads, Call(t) \/ Continue(t)
        PROVE  [Host!Next]_Host!controlVars
    BY <2>1, CallControls, StartStepControls, DeployStepControls, ShutdownStepControls
       DEF Continue
  <2>2. ASSUME NEW a \in Acts, Expire(a)
        PROVE  [Host!Next]_Host!controlVars
    BY <2>2, HostStands DEF Expire
  <2>3. CASE UNCHANGED vars
    BY <2>3, HostStands DEF vars
  <2>. QED  BY <2>1, <2>2, <2>3, WorkerStepControls DEF Next
<1>. QED  BY <1>1, <1>2, Invariance, PTL DEF Spec, HostIsControlled, Host!Spec
=============================================================================
