---------------------------- MODULE ProviderInv ----------------------------
(***************************************************************************)
(* The inductive invariant behind the theorems of ProviderProofs: what the *)
(* lifecycle lock, the generation counter and the join of the lease worker *)
(* establish together.                                                     *)
(***************************************************************************)
EXTENDS Provider

Running == {"STARTING", "ACTIVE", "FAILED"}
StartCalls == {"start", "serve"}
AfterJoin == {"revoke", "hoststop", "release", "settle"}
NameSteps == {"admit", "add", "put", "insert", "branch", "undo", "install", "commit"}

\* A thread is where its call takes it, and carries no generation between calls.
CallMatchesStep ==
    \A t \in Threads :
        /\ pc[t] \in StartSteps => op[t] \in StartCalls
        /\ pc[t] \in RegisterSteps => op[t] = "register"
        /\ pc[t] \in DeploySteps => op[t] \in StartCalls \cup {"register"}
        /\ pc[t] \in NameSteps => tname[t] \in Names
        /\ pc[t] \in {"connect", "attach", "discard"} => tgen[t] # 0
        /\ pc[t] = "idle" => tgen[t] = 0

\* Generations grow, and a provider that runs or stops has left generation 0.
GenerationBounds ==
    /\ pstate \in Running => generation \in 1..(MaxGen - 1)
    /\ pstate = "STOPPING" => generation # 0
    /\ \A t \in Threads : tgen[t] <= generation

\* Only one start call carries a given generation.
OneStarter ==
    \A t, u \in Threads :
        (op[t] \in StartCalls /\ op[u] \in StartCalls /\ tgen[t] = tgen[u] /\ tgen[t] # 0)
            => t = u

\* At most one thread is in a shutdown, and exactly while STOPPING.
OneShutdown ==
    /\ \A t \in Threads : pc[t] \in ShutdownSteps => pstate = "STOPPING"
    /\ \A t, u \in Threads :
         (pc[t] \in ShutdownSteps /\ pc[u] \in ShutdownSteps) => t = u

\* The fence: nobody carries the generation of a shutdown, and whoever carries
\* the current one into a deployment works on a provider that runs.
GenerationFence ==
    /\ pstate = "STOPPING" => \A t \in Threads : tgen[t] # generation
    /\ \A t \in Threads : tgen[t] = generation =>
         /\ pc[t] \in StartSteps \cup DeploySteps => pstate \in Running
         /\ pc[t] \in StartSteps \cup DeploySteps /\ op[t] \in StartCalls
              => pstate \in {"STARTING", "FAILED"}
         /\ pc[t] \in DeploySteps /\ op[t] = "register" => pstate \in {"ACTIVE", "FAILED"}
         /\ pc[t] \in {"connect", "attach"} => pstate = "STARTING" /\ leaseWorker = None

\* _started and _lease_worker outlive their generation only until Release.
NodeFollowsState ==
    /\ started => pstate \in {"ACTIVE", "FAILED", "STOPPING"}
    /\ leaseWorker # None =>
         \/ pstate \in Running /\ leaseWorker = generation
         \/ pstate = "STOPPING" /\ leaseWorker = generation - 1
    /\ pstate = "FAILED" => leaseFailure
    /\ \A t \in Threads : pc[t] = "settle" => ~started /\ leaseWorker = None

\* A worker exists since its generation ran.  Only the lease worker of the
\* running generation can report a failure that counts, and the shutdown that
\* follows waits for it.
WorkerFollowsNode ==
    \A g \in Gens :
        /\ wpc[g] # "none" => g <= generation
        /\ wpc[g] # "none" /\ g = generation => leaseWorker = g
        /\ wpc[g] = "hoststop" =>
             /\ leaseWorker = g
             /\ pstate \in {"FAILED", "STOPPING"}
             /\ \A t \in Threads : pc[t] \notin AfterJoin

\* The host is open wherever the contract needs it, and closed where it must.
HostFollowsState ==
    /\ pstate = "ACTIVE" => hostUp
    /\ pstate = "STARTING" /\ leaseWorker # None => hostUp
    /\ pstate = "STARTING" =>
         \A t \in Threads : tgen[t] = generation
             /\ pc[t] \in {"snapshot", "deploy"} \cup DeploySteps => hostUp
    /\ pstate = "STOPPED" => ~hostUp
    /\ \A t \in Threads : pc[t] \in {"release", "settle"} => ~hostUp

\* Every activation that a deployment carries, a worker tracks or a renewal
\* contains was deployed for the generation of its holder.
ActivationsFenced ==
    /\ \A t \in Threads : pc[t] = "commit" =>
         act[t] \in 1..nact /\ actGen[act[t]] = tgen[t]
    /\ \A g \in Gens, n \in Names : members[g][n] # None =>
         members[g][n] \in 1..nact /\ actGen[members[g][n]] = g
    /\ \A g \in Gens : \A a \in batch[g] : a \in 1..nact /\ actGen[a] = g

Control ==
    /\ CallMatchesStep
    /\ GenerationBounds
    /\ OneStarter
    /\ OneShutdown
    /\ GenerationFence
    /\ NodeFollowsState
    /\ WorkerFollowsNode
    /\ HostFollowsState

IndInv == TypeOK /\ Control /\ ActivationsFenced

-----------------------------------------------------------------------------
(* What a provider serves with.  These parts are kept by every step of a     *)
(* provider in IndInv.                                                       *)

\* The connection is that of the running generation, from the attach of its
\* start to its release, and it is open; a start in flight keeps its own.
ConnectionFollowsStart ==
    /\ connection # None => connection \in conns
    /\ pstate = "ACTIVE" => connection = generation
    /\ pstate = "STOPPED" => connection = None
    /\ \A t \in Threads :
         /\ pc[t] = "settle" => connection = None
         /\ pc[t] = "attach" => tgen[t] \in conns
         /\ pc[t] \in {"connect", "attach", "discard"} => connection # tgen[t]
         /\ pc[t] \in {"connect", "attach"} /\ tgen[t] = generation => connection = None
         /\ pstate = "STARTING" /\ tgen[t] = generation
             /\ pc[t] \in {"snapshot", "deploy"} \cup DeploySteps => connection = generation

\* What the provider says of itself is what it has.
PublicationFollowsState ==
    /\ pstate = "ACTIVE" => started
    /\ pstate = "STOPPED" => publication = "STOPPED"
    /\ pstate = "FAILED" => publication = "LEASE_FAILED"
    /\ pstate = "STARTING" /\ publication # "STOPPED" => hostUp /\ connection # None
    /\ \A t \in Threads : pc[t] = "settle" => publication = "STOPPED"

\* A worker that is not the provider's any more was told to stop.
WorkersHalted ==
    /\ \A g \in Gens : wpc[g] \in {"wait", "renew"} /\ leaseWorker # g => wstop[g]
    /\ \A t \in Threads : pc[t] \in {"join"} \cup AfterJoin /\ leaseWorker # None
         => wstop[leaseWorker]

Serving ==
    /\ ConnectionFollowsStart
    /\ ConnectionsOwned
    /\ PublicationFollowsState
    /\ WorkersHalted

-----------------------------------------------------------------------------
(* What the registry, the Runtime and the workers know of a binding.         *)

\* No two threads register the same name.
OneRegistrar == \A t, u \in Threads : t # u => Registers[t] \cap Registers[u] = {}

AddSteps == {"add", "put", "insert"}
Current(t) == tgen[t] = generation
Registering(t, steps) == op[t] = "register" /\ pc[t] \in steps
Starting(t, steps) == op[t] \in StartCalls /\ Current(t) /\ pc[t] \in steps

\* The identity of a binding is recorded for what is in the registry.
InstallsRegistered == \A n \in Names : install[n] # None => n \in registered

\* A worker that never ran tracks nothing and renews nothing.
UnusedWorkers ==
    \A g \in Gens : wpc[g] = "none" => batch[g] = {} /\ \A n \in Names : members[g][n] = None

WorkerGoesOn == leaseWorker # None => ~wstop[leaseWorker]
Renewed(n) == leaseWorker # None /\ members[leaseWorker][n] = install[n]

\* A start deploys again, or has deployed, whatever an earlier run left recorded.
StartCovers ==
    pstate = "STARTING" /\ WorkerGoesOn =>
        \A t \in Threads, n \in Names :
            Current(t) /\ pc[t] \in {"deploy"} \cup DeploySteps /\ install[n] # None =>
                \/ \E i \in todo[t] : i[1] = n
                \/ pc[t] \in DeploySteps /\ tname[t] = n
                \/ Renewed(n)

\* ActiveBindingsRenewed, but only a rollback of this generation is excused.
ActiveCovers ==
    pstate = "ACTIVE" /\ WorkerGoesOn =>
        \A n \in Names :
            install[n] # None /\ (~\E t \in Threads : pc[t] = "undo" /\ tname[t] = n /\ Current(t))
                => Renewed(n)

Covered ==
    /\ InstallsRegistered
    /\ UnusedWorkers
    /\ StartCovers
    /\ ActiveCovers

\* A start and a registration never act for the same generation.
StartersApart ==
    \A t \in Threads : op[t] \in StartCalls /\ tgen[t] # 0 =>
        /\ pstate \in {"STOPPED", "ACTIVE"} => ~Current(t)
        /\ \A u \in Threads : op[u] = "register" => tgen[u] # tgen[t]

\* What is about to be deployed or revoked is in the registry, a name that is
\* being added is not, and all of the registry is on the host.
ClaimHolds(t) ==
    /\ op[t] = "register" => tname[t] \in Registers[t]
    /\ pc[t] = "insert" => tname[t] \in hosted
    /\ Registering(t, {"admit"} \cup AddSteps) => tname[t] \notin registered
    /\ Registering(t, {"branch", "undo"} \cup DeploySteps) => tname[t] \in registered
    /\ Starting(t, {"deploy"} \cup DeploySteps) => \A i \in todo[t] : i[1] \in registered
    /\ Starting(t, DeploySteps) => tname[t] \in registered
    /\ pc[t] = "revoke" => \A i \in todo[t] : i[1] \in registered

RegistryHosted ==
    /\ registered \subseteq hosted
    /\ \A t \in Threads : ClaimHolds(t)

Hosting == StartersApart /\ RegistryHosted

\* The activation that a deployment carries is known to nobody else.
Fresh(t) ==
    /\ \A u \in Threads : u # t /\ pc[u] \in {"commit", "unbind"} => act[u] # act[t]
    /\ \A n \in Names : install[n] # act[t]
    /\ \A g \in Gens : act[t] \notin batch[g] /\ \A n \in Names : members[g][n] # act[t]

ActivationsFresh ==
    /\ live \subseteq 1..nact
    /\ \A n \in Names : install[n] \in 0..nact
    /\ \A t \in Threads : pc[t] = "unbind" => act[t] \in 1..nact
    /\ \A t \in Threads : pc[t] = "commit" => Fresh(t)

\* No worker renews activation a now or later.
NotRenewed(a) ==
    \A g \in Gens : wpc[g] \in {"wait", "renew"} =>
        a \notin batch[g] /\ \A n \in Names : members[g][n] # a

\* The worker is done before anything is revoked, and a registration revokes
\* only what it recorded itself and no worker took.
RevokesUntracked(t) ==
    /\ pc[t] = "revoke" /\ leaseWorker # None => wpc[leaseWorker] = "done"
    /\ Registering(t, {"branch"} \cup DeploySteps) /\ Current(t) => install[tname[t]] = None
    /\ pc[t] = "undo" /\ Current(t) /\ install[tname[t]] # None
         => NotRenewed(install[tname[t]])
    /\ pc[t] = "unbind" => NotRenewed(act[t])

RevokesUnrenewed == \A t \in Threads : RevokesUntracked(t)

Unrenewed == ActivationsFresh /\ RevokesUnrenewed

\* The worker does not know a name before its deployment is committed.
NamesUntracked(t) ==
    /\ Registering(t, AddSteps) => members[leaseWorker][tname[t]] = None
    /\ Registering(t, {"branch"} \cup DeploySteps) /\ Current(t)
         => members[leaseWorker][tname[t]] = None
    /\ pc[t] = "undo" /\ Current(t) /\ members[leaseWorker][tname[t]] # None
         => wfailed[leaseWorker]
    /\ Starting(t, {"deploy"} \cup DeploySteps)
         => \A i \in todo[t] : members[leaseWorker][i[1]] = None
    /\ Starting(t, DeploySteps) => members[leaseWorker][tname[t]] = None

NewNamesUntracked == leaseWorker # None => \A t \in Threads : NamesUntracked(t)

\* A start deploys a name once, and has no worker before its first deployment.
DeploysOnce(t) ==
    /\ Starting(t, {"snapshot"}) => leaseWorker = None
    /\ Starting(t, {"deploy"} \cup DeploySteps) =>
         \A i, j \in todo[t] : i[1] = j[1] => i = j
    /\ Starting(t, DeploySteps) => \A i \in todo[t] : i[1] # tname[t]

StartsOnce == \A t \in Threads : DeploysOnce(t)

\* Only a failed worker tracks a name that the registry has forgotten.
ForgottenFailed ==
    leaseWorker # None => \A n \in Names \ registered :
        members[leaseWorker][n] # None => wfailed[leaseWorker]

\* Until the revocations begin, a registered name is tracked as it is recorded.
TrackedAsRecorded ==
    (leaseWorker # None /\ \A t \in Threads : pc[t] \notin AfterJoin) =>
        \A n \in registered : members[leaseWorker][n] \in {None, install[n]}

\* From then on, what is tracked and bound is still to be revoked.
RevokeCovers ==
    \A t \in Threads : pc[t] = "revoke" /\ ~err[t] /\ leaseWorker # None =>
        \A n \in registered : members[leaseWorker][n] \in live =>
            <<n, members[leaseWorker][n]>> \in todo[t]

Tracking ==
    /\ NewNamesUntracked
    /\ StartsOnce
    /\ ForgottenFailed
    /\ TrackedAsRecorded

Revoking == Tracking /\ RevokeCovers /\ CleanStopRevokes

-----------------------------------------------------------------------------
(* Who ends what was begun: what the liveness of Provider rests on.          *)

OnwardSteps == StartSteps \cup DeploySteps \cup {"rollback"}

\* A start and a shutdown are never left without the thread that ends them: a
\* provider is not stranded in STARTING or STOPPING, whichever step fails.
NeverStranded ==
    /\ pstate = "STARTING" =>
         \E t \in Threads : Starting(t, OnwardSteps)
    /\ pstate = "STOPPING" => \E t \in Threads : pc[t] \in ShutdownSteps

\* No wake-up of serve() is lost: a thread that sleeps there has a provider that
\* starts or is active, also when the failure precedes its wait.
NoLostWakeup ==
    \A t \in Threads : pc[t] = "serving" => pstate \in {"STARTING", "ACTIVE"}

\* The event is set whenever nobody may sleep, but before the first start.
EventFollowsState ==
    /\ pstate \in {"STOPPING", "FAILED"} => serveExit
    /\ pstate = "STOPPED" /\ generation # 0 => serveExit
    /\ \A t \in Threads : pc[t] \in ServeSteps => generation # 0
    /\ \A t \in Threads : pc[t] = "serving" => ~serveExit

Progress == NeverStranded /\ EventFollowsState
=============================================================================
