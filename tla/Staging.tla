------------------------------ MODULE Staging ------------------------------
(***************************************************************************)
(* Installing an ability on a device (control.py, _ability_staging.py): the  *)
(* bundle is uploaded chunk by chunk into a resource of the daemon, the      *)
(* answer is awaited until a deadline, and the resource is deployed.  The    *)
(* daemon is external: it may lose a chunk, and answer anything at any time, *)
(* but a digest that it reports is the digest of what it stored.             *)
(***************************************************************************)
EXTENDS Naturals, FiniteSets

CONSTANTS
    Chunks,         \* the number of chunks of a bundle
    Timeout,        \* how many ticks of the clock the client waits
    MaxInstalls     \* bound of the installs that are begun

ASSUME StagingAssumption == {Chunks, Timeout, MaxInstalls} \subseteq Nat \ {0}

VARIABLES
    step,           \* where install() is
    lease,          \* binding_lease_ms: "none", "valid" or "invalid"
    sent,           \* the chunks that were sent
    remaining,      \* the ticks until the deadline
    session,        \* the session is open
    stored,         \* [installs -> what the daemon stored of the bundle]
    bindings,       \* what the daemon deployed
    installs        \* the number of installs begun

stagingVars == <<step, lease, sent, remaining, session, stored, bindings, installs>>

Bundle == 1 .. Chunks

StagingInit ==
    /\ step = "idle" /\ lease = "none" /\ sent = 0 /\ remaining = 0 /\ session = FALSE
    /\ stored = [i \in 1 .. MaxInstalls |-> {}] /\ bindings = {} /\ installs = 0

----------------------------------------------------------------------------
\* Each install stages into a resource of its own.
Install(l) ==
    /\ step = "idle" /\ installs < MaxInstalls
    /\ step' = "open" /\ lease' = l /\ sent' = 0 /\ installs' = installs + 1
    /\ UNCHANGED <<remaining, session, stored, bindings>>

\* The archive is built and the session opened; or the node, the package or the
\* target is refused, or the daemon is not reached.
Open ==
    /\ step = "open"
    /\ \/ step' = "send" /\ session' = TRUE
       \/ step' = "idle" /\ UNCHANGED session
    /\ UNCHANGED <<lease, sent, remaining, stored, bindings, installs>>

\* A chunk, which the daemon may lose, or the eof; either may fail.
Send ==
    /\ step = "send"
    /\ \/ /\ sent < Chunks
          /\ sent' = sent + 1
          /\ \E kept \in SUBSET {sent + 1} :
               stored' = [stored EXCEPT ![installs] = @ \cup kept]
          /\ UNCHANGED <<step, remaining>>
       \/ /\ sent = Chunks
          /\ step' = "receive" /\ remaining' = Timeout
          /\ UNCHANGED <<sent, stored>>
       \/ step' = "unwind" /\ UNCHANGED <<sent, stored, remaining>>
    /\ UNCHANGED <<lease, session, bindings, installs>>

Tick ==
    /\ step = "receive" /\ remaining > 0
    /\ remaining' = remaining - 1
    /\ UNCHANGED <<step, lease, sent, session, stored, bindings, installs>>

----------------------------------------------------------------------------
(* The answer                                                               *)

Payloads == {"none", "progress", "complete", "error"}

\* A frame carries a payload of its own, or a terminal receipt that carries one.
Frames ==
    [error : BOOLEAN, json : Payloads, receipt : {"none", "verified", "unverified"},
     inner : Payloads, terminal : BOOLEAN]

\* _upload_completion_payload(): an unverified receipt is refused, but a payload of
\* the frame itself is taken without one.
Payload(frame) ==
    IF frame.json # "none" THEN frame.json
    ELSE CASE frame.receipt = "none"     -> "none"
           [] frame.receipt = "verified" -> frame.inner
           [] OTHER                      -> "unproven"

\* Mutant: the digest is not compared.
AnyCompletion(content) == content \subseteq Bundle

\* The digest and the size of what the daemon stored are those of the archive.
DigestMatches(content) == content = Bundle

\* Mutant: the timeout counts from the last frame.
PerFrame(left) == Timeout

Deadline(left) == left

\* One turn of _receive_completed_upload().
Receive(frame) ==
    /\ step = "receive" /\ remaining > 0
    /\ LET payload == Payload(frame)
       IN  step' =
             CASE frame.error            -> "unwind"
               [] payload = "unproven"   -> "unwind"
               [] payload = "complete"   ->
                    IF DigestMatches(stored[installs]) THEN "close" ELSE "unwind"
               [] payload = "error"      -> "unwind"
               [] frame.terminal         -> "unwind"
               [] OTHER                  -> "receive"
    /\ remaining' = Deadline(remaining)
    /\ UNCHANGED <<lease, sent, session, stored, bindings, installs>>

DeadlinePasses ==
    /\ step = "receive" /\ remaining = 0
    /\ step' = "unwind"
    /\ UNCHANGED <<lease, sent, remaining, session, stored, bindings, installs>>

CloseSession ==
    /\ step = "close"
    /\ \/ step' = "deploy" /\ session' = FALSE
       \/ step' = "unwind" /\ UNCHANGED session
    /\ UNCHANGED <<lease, sent, remaining, stored, bindings, installs>>

\* The finally clause: what failed is raised.
Unwind ==
    /\ step = "unwind"
    /\ step' = "idle" /\ session' = FALSE
    /\ UNCHANGED <<lease, sent, remaining, stored, bindings, installs>>

\* The lease is validated only now; then the daemon deploys what it stored, whether
\* its answer arrives or not, or refuses.
Deploy ==
    /\ step = "deploy" /\ step' = "idle"
    /\ \/ /\ lease # "invalid"
          /\ bindings' = bindings \cup {[install |-> installs, content |-> stored[installs]]}
       \/ UNCHANGED bindings
    /\ UNCHANGED <<lease, sent, remaining, session, stored, installs>>

----------------------------------------------------------------------------
StagingStep ==
    \/ Open \/ Send \/ DeadlinePasses \/ CloseSession \/ Unwind \/ Deploy

StagingNext ==
    \/ \E l \in {"none", "valid", "invalid"} : Install(l)
    \/ StagingStep \/ Tick
    \/ \E frame \in Frames : Receive(frame)

\* Time passes, and the client gives up at its deadline: receive() has a timeout.  No frame
\* need arrive, and no other call into the SDK need return.
StagingFairness == WF_stagingVars(DeadlinePasses) /\ WF_stagingVars(Tick)

StagingSpec == StagingInit /\ [][StagingNext]_stagingVars /\ StagingFairness

----------------------------------------------------------------------------
(* Properties                                                               *)

\* Whatever was lost on the way and whatever the daemon answered, it only deploys
\* the whole bundle.
DeployedIsWhole == \A b \in bindings : b.content = Bundle

\* The wait for the end of the upload ends, also when the daemon never answers or reports
\* progress for ever.
UploadWaitEnds == step = "receive" ~> step # "receive"

\* Opening, sending, closing and ability.deploy return.  The client gives them no timeout.
CallsReturn ==
    /\ WF_stagingVars(Open) /\ WF_stagingVars(Send)
    /\ WF_stagingVars(CloseSession) /\ WF_stagingVars(Unwind) /\ WF_stagingVars(Deploy)

\* Nothing but those calls can keep install() from returning or raising, whatever the
\* daemon answers to the upload.
InstallReturns == UploadWaitEnds /\ (CallsReturn => (step # "idle" ~> step = "idle"))
=============================================================================
