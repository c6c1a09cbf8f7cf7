------------------------------ MODULE Leasing ------------------------------
(***************************************************************************)
(* The leases of one generation's bindings (_binding_lease.py, node.py): the *)
(* Runtime lets a binding lapse when it is not renewed, and the worker of    *)
(* the provider renews all bindings it knows, in one request, at an interval. *)
(* Provider models who starts and stops the worker, without time; here time  *)
(* passes in ticks.  A call to the Runtime, which is external, takes effect  *)
(* and answers at any tick, and a thread that could run may be late by any   *)
(* number of them: nothing in the code bounds either.                        *)
(***************************************************************************)
EXTENDS Naturals

CONSTANTS
    Bindings,       \* the bindings
    LeaseTicks,     \* _BINDING_LEASE_MS
    Interval,       \* _BINDING_RENEW_INTERVAL_SECONDS
    RenewTimeout    \* _BINDING_CONTROL_TIMEOUT_SECONDS, the timeout of a renewal

\* The worker checks the second line.
ASSUME LeasingAssumption ==
    /\ LeaseTicks \in Nat /\ Interval \in Nat /\ RenewTimeout \in Nat
    /\ 0 < RenewTimeout /\ RenewTimeout < Interval

VARIABLES
    left,           \* [Bindings -> the ticks until the Runtime lets it lapse]
    binding,        \* [Bindings -> its state at the provider]
    delayed,        \* history: [Bindings -> the ticks of its lease spent on delays]
    worker,         \* BindingLeaseWorker._state
    thread,         \* what the worker's thread does
    due,            \* the ticks until the next renewal is due
    calling,        \* the ticks that the renewal under way has taken, to its timeout
    renewing,       \* the bindings it renews
    taken           \* it has taken effect

leaseVars == <<left, binding, delayed, worker, thread, due, calling, renewing, taken>>
threadVars == <<thread, due, calling, renewing, taken>>

LeasingInit ==
    /\ left = [b \in Bindings |-> 0]
    /\ binding = [b \in Bindings |-> "none"]
    /\ delayed = [b \in Bindings |-> 0]
    /\ worker = "IDLE" /\ thread = "none"
    /\ due = 0 /\ calling = 0 /\ renewing = {} /\ taken = FALSE

----------------------------------------------------------------------------
(* Bindings                                                                 *)

\* start() and register() deploy in several threads ...
DeployBinding(b) ==
    /\ binding[b] = "none"
    /\ binding' = [binding EXCEPT ![b] = "sent"]
    /\ UNCHANGED <<left, delayed, worker, threadVars>>

\* ... the Runtime starts the lease ...
Deployed(b) ==
    /\ binding[b] = "sent"
    /\ binding' = [binding EXCEPT ![b] = "deployed"]
    /\ left' = [left EXCEPT ![b] = LeaseTicks]
    /\ delayed' = [delayed EXCEPT ![b] = 0]
    /\ UNCHANGED <<worker, threadVars>>

\* ... and the call fails before or after that, and is rolled back.
DeployFails(b) ==
    /\ binding[b] \in {"sent", "deployed"}
    /\ binding' = [binding EXCEPT ![b] = "abandoned"]
    /\ UNCHANGED <<left, delayed, worker, threadVars>>

Inactive == worker \in {"FAILED", "STOPPED"}

\* add() starts the thread with the first binding.
AddBinding(b) ==
    /\ binding[b] = "deployed" /\ ~Inactive
    /\ binding' = [binding EXCEPT ![b] = "bound"]
    /\ worker' = "RUNNING"
    /\ IF thread = "none" THEN thread' = "wait" /\ due' = Interval
                          ELSE UNCHANGED <<thread, due>>
    /\ UNCHANGED <<left, delayed, calling, renewing, taken>>

\* add() raises.
AddRefused(b) ==
    /\ binding[b] = "deployed" /\ Inactive
    /\ binding' = [binding EXCEPT ![b] = "abandoned"]
    /\ UNCHANGED <<left, delayed, worker, threadVars>>

----------------------------------------------------------------------------
(* The thread                                                               *)

\* The bindings of the worker.
Known == {b \in Bindings : binding[b] = "bound"}

BeginRenewal ==
    /\ thread = "wait" /\ due = 0 /\ worker = "RUNNING"
    /\ thread' = "call" /\ due' = Interval /\ calling' = 0
    /\ renewing' = Known /\ taken' = FALSE
    /\ UNCHANGED <<left, binding, delayed, worker>>

\* The Runtime renews all activations of a request or none.
RenewalTaken ==
    /\ thread = "call" /\ ~taken
    /\ \A b \in renewing : left[b] > 0
    /\ left' = [b \in Bindings |-> IF b \in renewing THEN LeaseTicks ELSE left[b]]
    /\ delayed' = [b \in Bindings |-> IF b \in renewing THEN 0 ELSE delayed[b]]
    /\ taken' = TRUE
    /\ UNCHANGED <<binding, worker, thread, due, calling, renewing>>

\* Mutant: ... after it has returned.
SinceReturn(rest) == Interval

\* The next renewal is due an interval after this one began.
SinceBegun(rest) == rest

Renewed ==
    /\ thread = "call" /\ taken
    /\ thread' = "wait" /\ due' = SinceBegun(due)
    /\ UNCHANGED <<left, binding, delayed, worker, calling, renewing, taken>>

\* The request is refused, or its answer does not arrive: a renewal is not repeated.
\* A worker that is being stopped reports no failure.
RenewalFails ==
    /\ thread = "call" /\ thread' = "ended"
    /\ worker' = IF worker = "STOPPED" THEN worker ELSE "FAILED"
    /\ UNCHANGED <<left, binding, delayed, due, calling, renewing, taken>>

StopWorker ==
    /\ worker # "STOPPED" /\ worker' = "STOPPED"
    /\ UNCHANGED <<left, binding, delayed, threadVars>>

ThreadStops ==
    /\ thread = "wait" /\ worker = "STOPPED"
    /\ thread' = "ended"
    /\ UNCHANGED <<left, binding, delayed, worker, due, calling, renewing, taken>>

----------------------------------------------------------------------------
(* Time                                                                     *)

Overdue == thread = "wait" /\ due = 0

\* What takes of the lease of a binding beyond an interval and the timeout of a renewal: its
\* deployment is not acknowledged or not yet added, a thread that is due does not run, or
\* a renewal whose timeout has passed does not return.
Delays(b) ==
    \/ binding[b] = "deployed"
    \/ Overdue
    \/ thread = "call" /\ calling = RenewTimeout

\* Time passes whatever is under way.  Delays are counted up to the whole lease.
Pass ==
    /\ left' = [b \in Bindings |-> IF left[b] = 0 THEN 0 ELSE left[b] - 1]
    /\ delayed' = [b \in Bindings |->
                     IF Delays(b) /\ delayed[b] < LeaseTicks THEN delayed[b] + 1 ELSE delayed[b]]
    /\ due' = IF due = 0 THEN 0 ELSE due - 1
    /\ calling' = IF thread = "call" /\ calling < RenewTimeout THEN calling + 1 ELSE calling
    /\ UNCHANGED <<binding, worker, thread, renewing, taken>>

LeasingNext ==
    \/ \E b \in Bindings :
         DeployBinding(b) \/ Deployed(b) \/ DeployFails(b) \/ AddBinding(b) \/ AddRefused(b)
    \/ BeginRenewal \/ RenewalTaken \/ Renewed \/ RenewalFails
    \/ StopWorker \/ ThreadStops \/ Pass

LeasingSpec == LeasingInit /\ [][LeasingNext]_leaseVars

----------------------------------------------------------------------------
(* Properties                                                               *)

\* The delays that leave a lease nothing besides an interval and a renewal.
TooLate(b) == delayed[b] + Interval + RenewTimeout >= LeaseTicks

\* As long as the worker runs, a binding that it knows lapses at the Runtime only if, since
\* its lease last began, the delays of its acknowledgement and of the worker's thread came
\* to what the interval and the timeout leave of the lease: not because it was added just
\* after a renewal had taken its snapshot, nor because a renewal takes all the time it may.
BoundIsLeased ==
    worker = "RUNNING" =>
        \A b \in Bindings : binding[b] = "bound" => left[b] > 0 \/ TooLate(b)
=============================================================================
