----------------------------- MODULE HostServer -----------------------------
(***************************************************************************)
(* The resident host of a provider: HostServer (easyremote/_host/server.py)*)
(* with its listener, its accept thread, one handler thread per connection *)
(* and the semaphore that bounds them.                                     *)
(*                                                                         *)
(* start() and stop() are called by one controller at a time: HostControl  *)
(* states it and Provider implements it (HostIsControlled).  The accept    *)
(* thread, the handlers and the clients run concurrently with it.  A       *)
(* handler outlives stop(), which does not join it, and keeps its slot     *)
(* across a restart until its function returns.  An accept thread is       *)
(* identified by the start() that created it.                              *)
(***************************************************************************)
EXTENDS Integers, FiniteSets

CONSTANTS
    Conns,          \* connections the daemon opens
    Endless,        \* connections whose provider function never returns
    MaxActive,      \* the slots of _connection_slots (32 in the code)
    MaxStarts       \* bound: calls of start() the model explores

ASSUME HostAssumption ==
    /\ IsFiniteSet(Conns)
    /\ Endless \subseteq Conns
    /\ MaxActive \in Nat \ {0}
    /\ MaxStarts \in Nat

Starts == 1..MaxStarts
NoListener == 0

VARIABLES
    listener,       \* _listener: the start() that created it, or NoListener
    listening,      \* its socket is open
    stopping,       \* _stopping is set
    slots,          \* free slots of _connection_slots
    tracked,        \* _connections
    shut,           \* connections that stop() has shut down
    conn,           \* conn[c]: where connection c is
    born,           \* history: the start() whose accept thread took c
    apc,            \* apc[s]: control state of the accept thread of start s
    hand,           \* hand[s]: the connection it holds, as a set
    starts,         \* calls of start() that created a listener
    cpc             \* control state of the controller

serverVars == <<listener, listening, stopping>>
slotVars == <<slots, tracked>>
connVars == <<shut, conn, born>>
acceptVars == <<apc, hand>>
vars == <<serverVars, slotVars, connVars, acceptVars, starts, cpc>>

-----------------------------------------------------------------------------
(* Types *)

\* A connection is not opened yet; waits in the backlog; is held by the accept
\* thread; is served by its handler; is closed by its handler, which still has
\* to leave _connections and to give back its slot; or is finished: answered,
\* refused with host_busy, or dropped without an answer.
ConnStates == {"unopened", "backlog", "held", "serving", "closed", "left",
               "answered", "refused", "dropped"}
AcceptSteps == {"none", "check", "accept", "slot", "enter", "spawn", "ended"}
ControlSteps == {"idle", "shutdown", "close", "join"}

\* Type invariant.
TypeOK ==
    /\ listener \in Starts \cup {NoListener}
    /\ listening \in BOOLEAN
    /\ stopping \in BOOLEAN
    /\ slots \in 0..MaxActive
    /\ tracked \subseteq Conns
    /\ shut \subseteq Conns
    /\ conn \in [Conns -> ConnStates]
    /\ born \in [Conns -> 0..MaxStarts]
    /\ apc \in [Starts -> AcceptSteps]
    /\ hand \in [Starts -> SUBSET Conns]
    /\ starts \in 0..MaxStarts
    /\ cpc \in ControlSteps

-----------------------------------------------------------------------------
(* Helpers *)

At(s, step) == apc' = [apc EXCEPT ![s] = step]

\* Connections that hold a slot.
SlotHolders ==
    {c \in Conns : conn[c] \in {"serving", "closed", "left"}}
        \cup UNION {IF apc[s] \in {"enter", "spawn"} THEN hand[s] ELSE {} : s \in Starts}

\* Connections whose peer still waits for an answer in the listen backlog.
Backlog == {c \in Conns : conn[c] = "backlog"}

\* Mutants: plausible bugs, each in place of one definition below.

\* A connection that arrives while stopping is served all the same.
AdmitAlways == TRUE

\* The slot of a connection dropped on the way in is not given back.
DropKeepsSlot == slots

\* stop() does not wait for the accept thread.
NoJoin(s) == TRUE

\* stop() leaves the listener open.
KeepListening == TRUE

\* The accept thread waits for a slot instead of refusing.
WaitForSlot(s) == FALSE

-----------------------------------------------------------------------------
(* start() and stop() *)

\* A second start() while a listener exists changes nothing.
Start ==
    /\ cpc = "idle"
    /\ listener = NoListener
    /\ starts < MaxStarts
    /\ starts' = starts + 1
    /\ listener' = starts + 1
    /\ listening' = TRUE
    /\ stopping' = FALSE
    /\ At(starts + 1, "check")
    /\ UNCHANGED <<slotVars, connVars, hand, cpc>>

\* stop(): the flag first ...
StopBegin ==
    /\ cpc = "idle"
    /\ stopping' = TRUE
    /\ cpc' = "shutdown"
    /\ UNCHANGED <<listener, listening, slotVars, connVars, acceptVars, starts>>

\* ... then, under _connections_lock, every tracked connection.
ShutTracked == tracked

StopShutdown ==
    /\ cpc = "shutdown"
    /\ shut' = shut \cup ShutTracked
    /\ cpc' = IF listener = NoListener THEN "idle" ELSE "close"
    /\ UNCHANGED <<serverVars, slotVars, conn, born, acceptVars, starts>>

\* Closing the listener drops the connections of the backlog.
ListensOn == FALSE

StopClose ==
    /\ cpc = "close"
    /\ listening' = ListensOn
    /\ conn' = [c \in Conns |-> IF c \in Backlog THEN "dropped" ELSE conn[c]]
    /\ cpc' = "join"
    /\ UNCHANGED <<listener, stopping, slotVars, shut, born, acceptVars, starts>>

\* The join of the accept thread.  It is bounded by 5 s; the longest the
\* thread can take between two looks at the flag is the 0.25 s of a refusal.
AcceptorEnded(s) == apc[s] = "ended"

StopJoin ==
    /\ cpc = "join"
    /\ AcceptorEnded(listener)
    /\ listener' = NoListener
    /\ cpc' = "idle"
    /\ UNCHANGED <<listening, stopping, slotVars, connVars, acceptVars, starts>>

-----------------------------------------------------------------------------
(* _accept_loop() of the thread created by start s *)

MayLoop == ~stopping

AcceptCheck(s) ==
    /\ apc[s] = "check"
    /\ At(s, IF MayLoop THEN "accept" ELSE "ended")
    /\ UNCHANGED <<serverVars, slotVars, connVars, hand, starts, cpc>>

Accept(s) ==
    /\ apc[s] = "accept"
    /\ listening
    /\ \E c \in Backlog :
        /\ conn' = [conn EXCEPT ![c] = "held"]
        /\ born' = [born EXCEPT ![c] = s]
        /\ hand' = [hand EXCEPT ![s] = {c}]
    /\ At(s, "slot")
    /\ UNCHANGED <<serverVars, slotVars, shut, starts, cpc>>

\* accept() raises OSError once stop() has closed the listener.
AcceptClosed(s) ==
    /\ apc[s] = "accept"
    /\ ~listening
    /\ At(s, "ended")
    /\ UNCHANGED <<serverVars, slotVars, connVars, hand, starts, cpc>>

\* accept() raises OSError while the host listens: the process has no descriptor left,
\* the peer is gone, memory is short.  The thread returns all the same, and nothing
\* starts another one before the next start().
AcceptFails(s) ==
    /\ apc[s] = "accept"
    /\ listening
    /\ At(s, "ended")
    /\ UNCHANGED <<serverVars, slotVars, connVars, hand, starts, cpc>>

SlotFree == slots > 0

AcquireSlot(s) ==
    /\ apc[s] = "slot"
    /\ SlotFree
    /\ slots' = slots - 1
    /\ At(s, "enter")
    /\ UNCHANGED <<serverVars, tracked, connVars, hand, starts, cpc>>

\* RESOURCE_EXHAUSTED / host_busy, then the connection is closed.
Refuse(s) ==
    /\ apc[s] = "slot"
    /\ ~SlotFree
    /\ conn' = [c \in Conns |-> IF c \in hand[s] THEN "refused" ELSE conn[c]]
    /\ hand' = [hand EXCEPT ![s] = {}]
    /\ At(s, "check")
    /\ UNCHANGED <<serverVars, slotVars, shut, born, starts, cpc>>

\* The section under _connections_lock tracks the connection ...
Admissible == ~stopping

Track(s) ==
    /\ apc[s] = "enter"
    /\ Admissible
    /\ tracked' = tracked \cup hand[s]
    /\ At(s, "spawn")
    /\ UNCHANGED <<serverVars, slots, connVars, hand, starts, cpc>>

\* ... or, when stop() has begun, closes it and gives its slot back.
SlotGivenBack == slots + 1

DropLate(s) ==
    /\ apc[s] = "enter"
    /\ ~Admissible
    /\ conn' = [c \in Conns |-> IF c \in hand[s] THEN "dropped" ELSE conn[c]]
    /\ hand' = [hand EXCEPT ![s] = {}]
    /\ slots' = SlotGivenBack
    /\ At(s, "check")
    /\ UNCHANGED <<serverVars, tracked, shut, born, starts, cpc>>

\* The handler thread starts.
Spawn(s) ==
    /\ apc[s] = "spawn"
    /\ conn' = [c \in Conns |-> IF c \in hand[s] THEN "serving" ELSE conn[c]]
    /\ hand' = [hand EXCEPT ![s] = {}]
    /\ At(s, "check")
    /\ UNCHANGED <<serverVars, slotVars, shut, born, starts, cpc>>

-----------------------------------------------------------------------------
(* _serve_owned_connection() of connection c; HostSession models what it does
   with the connection until it closes it. *)

Serve(c) ==
    /\ conn[c] = "serving"
    /\ conn' = [conn EXCEPT ![c] = "closed"]
    /\ UNCHANGED <<serverVars, slotVars, shut, born, acceptVars, starts, cpc>>

Untrack(c) ==
    /\ conn[c] = "closed"
    /\ tracked' = tracked \ {c}
    /\ conn' = [conn EXCEPT ![c] = "left"]
    /\ UNCHANGED <<serverVars, slots, shut, born, acceptVars, starts, cpc>>

ReleaseSlot(c) ==
    /\ conn[c] = "left"
    /\ slots' = slots + 1
    /\ conn' = [conn EXCEPT ![c] = "answered"]
    /\ UNCHANGED <<serverVars, tracked, shut, born, acceptVars, starts, cpc>>

\* The daemon (external) opens a connection.
Connect(c) ==
    /\ conn[c] = "unopened"
    /\ listening
    /\ conn' = [conn EXCEPT ![c] = "backlog"]
    /\ UNCHANGED <<serverVars, slotVars, shut, born, acceptVars, starts, cpc>>

-----------------------------------------------------------------------------
(* Specification *)

Init ==
    /\ listener = NoListener
    /\ listening = FALSE
    /\ stopping = FALSE
    /\ slots = MaxActive
    /\ tracked = {}
    /\ shut = {}
    /\ conn = [c \in Conns |-> "unopened"]
    /\ born = [c \in Conns |-> 0]
    /\ apc = [s \in Starts |-> "none"]
    /\ hand = [s \in Starts |-> {}]
    /\ starts = 0
    /\ cpc = "idle"

StopStep == StopShutdown \/ StopClose \/ StopJoin

AcceptStep(s) ==
    \/ AcceptCheck(s) \/ Accept(s) \/ AcceptClosed(s)
    \/ AcquireSlot(s) \/ Refuse(s) \/ Track(s) \/ DropLate(s) \/ Spawn(s)

HandlerStep(c) == Serve(c) \/ Untrack(c) \/ ReleaseSlot(c)

Next ==
    \/ Start \/ StopBegin \/ StopStep
    \/ \E s \in Starts : AcceptStep(s) \/ AcceptFails(s)
    \/ \E c \in Conns : HandlerStep(c) \/ Connect(c)

Spec == Init /\ [][Next]_vars

\* The interpreter runs every runnable thread; only a provider function may
\* keep its handler for ever.  An error of accept() is nothing that must happen.
Fairness ==
    /\ WF_vars(StopStep)
    /\ \A s \in Starts : WF_vars(AcceptStep(s))
    /\ \A c \in Conns \ Endless : WF_vars(HandlerStep(c))

FairSpec == Spec /\ Fairness

-----------------------------------------------------------------------------
(* Properties *)

\* The semaphore counts exactly the connections between their acquire and
\* their release, on every path out of the accept loop and of the handlers and
\* across restarts: a slot is neither lost nor released twice.
SlotsConserved == slots + Cardinality(SlotHolders) = MaxActive

\* stop() reaches every connection: once its shutdown section ran, a tracked
\* connection of this or of an earlier run has been shut down, also one that
\* the accept thread was just handing over; after a restart, only connections
\* of the new run are left alone.
StopReachesAll ==
    \A c \in tracked :
        (born[c] < starts \/ cpc \in {"close", "join"} \/ listener = NoListener)
            => c \in shut

\* No accept thread outlives the stop() of its host, so a restarted host has
\* one accept thread and the listener it reads is its own.
OneAcceptThread ==
    \A s \in Starts : apc[s] \notin {"none", "ended"} => s = listener

\* stop() returns, without the bound of its join, although handlers may run
\* for ever.
StopReturns == cpc # "idle" ~> cpc = "idle"

\* The host listens, but an error of accept() has ended its accept thread.
HostIsDeaf == listening /\ ~stopping /\ apc[listener] = "ended"

Waiting(c) == conn[c] \in {"backlog", "held"}

\* A connection that reached the listener does not stay there: it is served,
\* refused or dropped, whatever start and stop do meanwhile and although
\* functions that never return hold every slot.  The one exception is a host that an
\* error of accept() has made deaf and that nobody stops.
ConnectionsTaken == \A c \in Conns : Waiting(c) ~> ~Waiting(c) \/ []HostIsDeaf

-----------------------------------------------------------------------------
(* Refinement: the host answers the calls of its node. *)

Control == INSTANCE HostControl WITH up <- listener # NoListener,
                                    stoppers <- IF cpc = "idle" THEN {} ELSE {"node"}

\* start() gives the host a listener and stop() takes it away as it ends, whatever
\* the accept thread and the handlers do between.
ServesController == Control!Spec

=============================================================================
