---------------------------- MODULE Transports ----------------------------
(***************************************************************************)
(* How a Client dispatches and closes (client.py, _sdk_transport): callers   *)
(* send unary invocations and open sessions over the pool of the SDK, open   *)
(* streams over a transport of their own, and may close the Client at any    *)
(* time.  The pool is external: it connects on demand, and retires the       *)
(* transport of a call that ran into its timeout until the call comes back.  *)
(***************************************************************************)
EXTENDS Naturals, FiniteSets

CONSTANTS
    Callers,
    MaxDispatches,  \* bound of the dispatches and close() calls that are begun
    MaxTransports   \* bound of the transports that are connected at one time

ASSUME TransportsAssumption == {MaxDispatches, MaxTransports} \subseteq Nat

VARIABLES
    closed,         \* Client._closed
    pool,           \* the unary pool: its transport (0: none), and if it is closed
    streaming,      \* Client._stream_transport, 0 for None
    open,           \* the parts of transports, and of the Client, not yet closed
    retired,        \* transports of the pool that wait for a call to come back
    orphans,        \* transports whose connect() or close() broke off half-way
    streams,        \* the transports on which a stream is open
    at, held,       \* of each caller: its next step, the transport it holds
    dispatches      \* the number of dispatches and close() calls begun

transportVars == <<closed, pool, streaming, open, retired, orphans, streams,
                   at, held, dispatches>>

\* The parts of a transport.
Parts == {"adapter", "addressing", "environment"}

\* The addressing client of the Client itself.
Own == <<MaxTransports + 1, "addressing">>

TransportsInit ==
    /\ closed = FALSE /\ pool = [transport |-> 0, closed |-> FALSE] /\ streaming = 0
    /\ open = {Own} /\ retired = {} /\ orphans = {} /\ streams = {}
    /\ at = [c \in Callers |-> "idle"] /\ held = [c \in Callers |-> 0]
    /\ dispatches = 0

Step(c, from, to) == at[c] = from /\ at' = [at EXCEPT ![c] = to]

----------------------------------------------------------------------------
(* Transport.connect() and close()                                          *)

FreeTransports == (1 .. MaxTransports) \ {part[1] : part \in open}

Connect(id) ==
    /\ id \in FreeTransports
    /\ open' = open \cup ({id} \X Parts)
    /\ UNCHANGED orphans

\* When a later part fails, the environment is closed but not the adapter that
\* is already connected.
ConnectFails ==
    \/ UNCHANGED <<open, orphans>>
    \/ \E id \in FreeTransports :
         /\ open' = open \cup {<<id, "adapter">>}
         /\ orphans' = orphans \cup {id}

\* close() goes on after an SDKError.  Any other exception, of the part broken, breaks it
\* off: these are the parts behind it.
Behind(broken) ==
    CASE broken = "adapter"    -> {"addressing", "environment"}
      [] broken = "addressing" -> {"environment"}
      [] OTHER                 -> {}

\* Mutant: the first SDKError ends the closing.
ClosedUntilError(id, raising, broken) ==
    {id} \X (IF "adapter" \in raising THEN {"adapter"} ELSE Parts \ Behind(broken))

\* The parts that close() closes, whichever of them raise an SDKError.
Closed(id, raising, broken) == {id} \X (Parts \ Behind(broken))

CloseTransport(id) ==
    \E raising \in SUBSET Parts, broken \in Parts \cup {"none"} :
      /\ open' = open \ Closed(id, raising, broken)
      /\ orphans' = orphans \cup {i \in {id} \ {0} : Behind(broken) # {}}

----------------------------------------------------------------------------
(* The unary pool                                                           *)

BeginDispatch(c, to) ==
    /\ dispatches < MaxDispatches
    /\ dispatches' = dispatches + 1
    /\ Step(c, "idle", to)

\* Client.invoke(), call() and session() need a transport of the pool.
UnaryBegin(c) ==
    /\ BeginDispatch(c, "pool")
    /\ UNCHANGED <<closed, pool, streaming, open, retired, orphans, streams, held>>

\* connected_transport(), which a closed pool refuses.
PoolTransport(c) ==
    /\ \/ /\ ~pool.closed /\ pool.transport # 0
          /\ Step(c, "pool", "unary")
          /\ held' = [held EXCEPT ![c] = pool.transport]
          /\ UNCHANGED <<pool, open, orphans>>
       \/ /\ ~pool.closed /\ pool.transport = 0
          /\ \E id \in FreeTransports :
               /\ Connect(id)
               /\ pool' = [pool EXCEPT !.transport = id]
               /\ held' = [held EXCEPT ![c] = id]
          /\ Step(c, "pool", "unary")
       \/ /\ ~pool.closed /\ pool.transport = 0 /\ ConnectFails
          /\ Step(c, "pool", "idle")
          /\ UNCHANGED <<pool, held>>
       \/ /\ pool.closed
          /\ Step(c, "pool", "idle")
          /\ UNCHANGED <<pool, open, orphans, held>>
    /\ UNCHANGED <<closed, streaming, retired, streams, dispatches>>

\* _dispatch(): the answer, or the timeout that retires the transport.
UnaryEnd(c) ==
    /\ Step(c, "unary", "idle")
    /\ held' = [held EXCEPT ![c] = 0]
    /\ \/ UNCHANGED <<pool, retired>>
       \/ /\ pool.transport = held[c]
          /\ pool' = [pool EXCEPT !.transport = 0]
          /\ retired' = retired \cup {held[c]}
    /\ UNCHANGED <<closed, streaming, open, orphans, streams, dispatches>>

RetiredCloses ==
    \E id \in retired :
      /\ retired' = retired \ {id}
      /\ CloseTransport(id)
      /\ UNCHANGED <<closed, pool, streaming, streams, at, held, dispatches>>

----------------------------------------------------------------------------
(* Streams                                                                  *)

StreamBegin(c) ==
    /\ BeginDispatch(c, "stream")
    /\ UNCHANGED <<closed, pool, streaming, open, retired, orphans, streams, held>>

\* Mutant: a stream shares the transport of the pool.
PoolHandle == IF pool.transport # 0 THEN pool.transport ELSE streaming

StreamHandle == streaming

\* _streaming(), under the lock: refused once closed; connected when needed.
Streaming(c) ==
    /\ \/ /\ closed
          /\ Step(c, "stream", "idle")
          /\ UNCHANGED <<streaming, open, orphans, held>>
       \/ /\ ~closed /\ StreamHandle # 0
          /\ Step(c, "stream", "frames")
          /\ held' = [held EXCEPT ![c] = StreamHandle]
          /\ UNCHANGED <<streaming, open, orphans>>
       \/ /\ ~closed /\ StreamHandle = 0
          /\ \E id \in FreeTransports :
               /\ Connect(id)
               /\ streaming' = id
               /\ held' = [held EXCEPT ![c] = id]
          /\ Step(c, "stream", "frames")
       \/ /\ ~closed /\ StreamHandle = 0 /\ ConnectFails
          /\ Step(c, "stream", "idle")
          /\ UNCHANGED <<streaming, held>>
    /\ UNCHANGED <<closed, pool, retired, streams, dispatches>>

\* transport.stream(), which a transport that was closed meanwhile refuses.
OpenStream(c) ==
    /\ Step(c, "frames", "idle")
    /\ held' = [held EXCEPT ![c] = 0]
    /\ streams' = streams \cup {id \in {held[c]} : <<id, "adapter">> \in open}
    /\ UNCHANGED <<closed, pool, streaming, open, retired, orphans, dispatches>>

\* The stream ended, or Stream.close().
EndStream(id) ==
    /\ id \in streams
    /\ streams' = streams \ {id}
    /\ UNCHANGED <<closed, pool, streaming, open, retired, orphans, at, held, dispatches>>

----------------------------------------------------------------------------
(* Client.close(): each resource is closed, whatever the others raise       *)

Close(c) ==
    /\ BeginDispatch(c, "close_pool")
    /\ closed' = TRUE /\ streaming' = 0
    /\ held' = [held EXCEPT ![c] = streaming]
    /\ UNCHANGED <<pool, open, retired, orphans, streams>>

ClosePool(c) ==
    /\ Step(c, "close_pool", "close_stream")
    /\ pool' = [transport |-> 0, closed |-> TRUE]
    /\ retired' = retired \cup ({pool.transport} \ {0})
    /\ UNCHANGED <<closed, streaming, open, orphans, streams, held, dispatches>>

CloseStream(c) ==
    /\ Step(c, "close_stream", "close_addressing")
    /\ CloseTransport(held[c])
    /\ streams' = streams \ {held[c]}
    /\ held' = [held EXCEPT ![c] = 0]
    /\ UNCHANGED <<closed, pool, streaming, retired, dispatches>>

CloseAddressing(c) ==
    /\ Step(c, "close_addressing", "idle")
    /\ open' = open \ {Own}
    /\ UNCHANGED <<closed, pool, streaming, retired, orphans, streams, held, dispatches>>

----------------------------------------------------------------------------
TransportsNext ==
    \/ \E c \in Callers :
         \/ UnaryBegin(c) \/ PoolTransport(c) \/ UnaryEnd(c)
         \/ StreamBegin(c) \/ Streaming(c) \/ OpenStream(c)
         \/ Close(c) \/ ClosePool(c) \/ CloseStream(c) \/ CloseAddressing(c)
    \/ RetiredCloses
    \/ \E id \in streams : EndStream(id)

TransportsSpec == TransportsInit /\ [][TransportsNext]_transportVars

----------------------------------------------------------------------------
(* Properties                                                               *)

\* "Keep a dedicated handle so unary pool replacement cannot close an active
\* stream" (client.py:974): until close(), the transport of a stream stays whole.
StreamsOutlivePool ==
    \A id \in streams : ~closed => {id} \X Parts \subseteq open

\* When close() has returned or raised and no caller is inside the Client, nothing
\* that connect() returned is open, whichever parts raised an SDKError and whatever was
\* being connected meanwhile, but for transports that the pool still waits for, and those
\* of which another exception broke off the closing.
NothingOpenAfterClose ==
    closed /\ (\A c \in Callers : at[c] = "idle") => open \subseteq (retired \cup orphans) \X Parts
=============================================================================
