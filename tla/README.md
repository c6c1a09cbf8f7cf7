# EasyRemote: a TLA+ verification project

EasyRemote turns Python functions into abilities of an EasyNet runtime. A
provider process (`ComputeNode`) registers functions, keeps them warm in a
resident host on a Unix socket, deploys them to the local daemon and renews
their binding leases; callers reach them through the daemon. The interesting
part of the Python code is not the data it moves but the order in which threads,
locks, leases, sockets and failures meet, and that is what these modules are
about.

Paths below are relative to `src/easyremote/`. The daemon (`easynet-daemon`) and
the SDK are not in the repository; they appear as external actions, modelled
from what the code asks of them.

## 1. Inventory

| Component | State it keeps | Operations | Meets | Hard behaviours |
|---|---|---|---|---|
| Provider lifecycle, `node.py` `ComputeNode` | `_provider_state`, `_generation`, `_started`, `_publication_state`, `_lease_failure`, `_runtime_connection`, `_lease_worker`, `_serve_exit`, `_abilities` | `register`, `serve`, `start`, `stop`, `_shutdown`, `_deploy`, `_track_binding`, `_revoke_deployments`, `_binding_lease_failed` | host (calls), lease worker (calls, callback), daemon (network calls outside the lock) | a lock that is released around every network call; a generation counter that fences what comes back late; a failure callback from another thread; rollback |
| Binding lease worker, `_binding_lease.py` | `_bindings`, `_state`, `_failure`, `_stop` | `add`, `stop`, `_run` | provider (callback), daemon (renewal) | renewal in flight while it is stopped; bounded join; lease arithmetic |
| Resident host, `_host/server.py` `HostServer` | `_listener`, `_stopping`, `_connections`, `_connection_slots`, `_functions` | `add`, `remove`, `start`, `stop`, `_accept_loop`, `_serve_owned_connection` | provider (calls), daemon (connections) | accept thread against `stop()`; slots across restarts; functions that never return |
| Host session, `_host/server.py` `_serve_stream`, `_host/protocol.py` `HostSession` | session state, `frames`, `output_digest` | `receive`, `emit`, `finish`, `fail` | the provider function, the socket | one outcome per invocation on every error path; count and digest against what was sent |
| Duplex channel, `duplex.py` | `_sequence`, `_input_closed`, two locks | `send`, `recv` and their async forms | session, socket, threads of the function | concurrent senders and receivers; truncated input; threads that outlive the function |
| Context and child dispatch, `context.py`, `_context_dispatch.py` | a lazily created client | `call`, `invoke`, `stream`, `close` | client | close after the function; creation from two threads |
| Missions, `mission.py` | the tail's cursor, buffer, `_empty_pages`, `_terminal_seen`, `_closed` | `run_eal`, `track`, `cancel`, `tail_events` | daemon (pages) | pages that stall, drop or rewind; the terminal event |
| Pipeline, `pipeline.py` | the list of steps and aliases | `step`, `to_eal`, `run`, `validate_child_invocations` | missions | references to steps of another pipeline; conformance of what ran to what was asked |
| Discovery, `_addressing.py` | eight caches and a round-robin cursor | `replace`, `remember`, `select`, `resolve` | client threads | unlocked refresh while others resolve; a schema that outlives the agreement it came from |
| Client, `client.py` | `_stream_transport`, `_closed`, `_identity`, implicit clients | `call`, `stream`, `session`, `functions`, `agent`, `close` | discovery, SDK transport | lazy connection against `close()`; arguments that are mapped twice |
| Agents, `agent.py` | the owners of agent ids in the cache | `chat` | client, discovery | a bare id is resolved while listings change its owners |
| SDK transport, `_sdk_transport/` | handles of the SDK | `connect`, `invoke`, `stream`, `bidi`, `close` | client | any part of a transport may fail to open or close |
| Schema and codecs, `schema.py`, `_codec.py`, `value_codec.py`, `frame.py` | none | `derive`, `to_jsonable`, `rehydrate`, `encode_value` | client, host, library | a default, a variadic or a union that one side reads otherwise |
| Staging, `_ability_staging.py` | one upload session | `stage_ability_bundle` | control, daemon | one deadline over many frames; what counts as completed |
| Control, `control.py` | none | `install`, `uninstall`, `renew_bindings`, `list`, agent start and stop | staging, daemon | staged bundle left behind when a later step fails |
| Library, `library.py` | files: module, stub, marker, lock | `install_library`, `list_libraries`, `remove_library` | file system | a crash between two replacements; projections nested in each other |
| Config, identity, runtime provider | a process-wide `Settings` and what was configured | `configure`, `settings`, `rediscover`, `load`, `connect` | client, provider, other programs' files | a root picked once, picked anew by one thread while another is between two looks at it |
| Invocation, policy | immutable records | derivation | client | none |
| Errors, CLI, scripts | none | - | - | none |

What makes each of them correct, in one sentence:

- *Provider*: nothing of an old generation acts on its replacement, an `ACTIVE`
  provider serves and renews what it lists, and every start, shutdown and
  failure runs to its end.
- *Lease worker*: it renews only what its own generation deployed, and a renewal
  that fails takes the provider out of `ACTIVE`.
- *Host*: no slot is lost, `stop()` reaches every connection and returns, and one
  accept thread runs at a time.
- *Session*: the caller gets whole frames, then one outcome that matches them.
- *Duplex*: the function gets every item of its input, or an exception in its place.
- *Pipeline and missions*: a plan that passed its check is the plan that ran, and
  a tail hands out the Mission's events in order, none twice, and ends.
- *Discovery*: a refresh is seen by what begins after it, and a pinned descriptor
  is the one that is called.
- *Transports*: a stream survives the pool, and nothing stays open after `close()`.
- *Arguments and values*: a remote call means what the same local call means.
- *Agents*: a bare agent id is the paired user's own agent.
- *Onboarding*: a provider's identity belongs to the Runtime it is connected to.
- *Staging*: only a whole bundle is deployed, and the wait for its upload ends.
- *Leases*: a binding that the worker knows lapses while the worker runs only if delays
  take what the interval and the timeout of a renewal leave of the lease.
- *Library*: what is imported from a listed path is the library that is listed.

## 2. Modules

| Module | Models | Lines of code behind it |
|---|---|---|
| `ProviderContract` | what the lifecycle promises: five states, a generation, an open or closed host | `node.py` state changes |
| `Provider` | `ComputeNode` and `BindingLeaseWorker`, several threads | `node.py`, `_binding_lease.py` |
| `HostControl` | the interface of the two: `start()` and `stop()` of the host come one at a time | `_host/server.py` `start`, `stop` |
| `ProviderInv` | the inductive invariant of `Provider` | - |
| `ProviderProofs`, `ProviderServingProofs`, `ProviderRegistryProofs` | theorems about `Provider`: lifecycle, fences and control of the host; connection, publication, renewal and progress; registry and revocation | - |
| `HostServer`, `HostServerProofs` | the listener, accept threads, handlers and slots; theorems | `_host/server.py` |
| `HostSession`, `HostSessionProofs` | one invocation, its session and its duplex channel; theorems | `_host/server.py`, `_host/protocol.py`, `duplex.py` |
| `Pipeline`, `EventTail` | a plan and its Mission; the tail of its events | `pipeline.py`, `mission.py` |
| `Mission`, `MissionProofs` | one of the two at a time; theorems | - |
| `Discovery` | the DiscoveryCache under several threads, resolution, the draft | `_addressing.py`, `client.py`, `control.py` |
| `Transports` | dispatch over the SDK's pool and a stream transport, `close()` | `client.py`, `_sdk_transport/` |
| `Arguments` | from a call in Python to named arguments and back | `schema.py`, `client.py`, `_host/server.py`, `library.py` |
| `Values` | from a value to JSON and back, by annotation | `_codec.py`, `schema.py`, `value_codec.py`, `frame.py` |
| `Agents` | the owner of a bare agent id, one chat | `agent.py`, `client.py`, `_addressing.py` |
| `Client` | one of these five concerns at a time | - |
| `ClientProofs` | theorems about `Discovery`, `Transports`, `Arguments` and `Agents` | - |
| `Onboarding` | settings, identity, first run, connection | `config.py`, `identity.py`, `runtime_provider.py` |
| `Staging` | one install over an upload session | `control.py`, `_ability_staging.py` |
| `Leasing` | deployment, renewal and lapse of bindings in time | `_binding_lease.py`, `node.py` |
| `Library` | the files of installed facades, with death between two steps | `library.py` |
| `Distribution` | one of these four concerns at a time | - |
| `DistributionProofs` | theorems about `Onboarding`, `Staging`, `Leasing` and `Library` | - |
| `MCProvider`, `MCHostServer`, `MCHostSession`, `MCMission`, `MCClient`, `MCDistribution` | small instances | - |

`Mission`, `Client` and `Distribution` are sums: their components share no state
in the code, so a behaviour picks one of them at its start (`focus`) and the
others stand still. They exist to check several components in one run; nothing
is claimed about a combination.

The provider side meets at two interfaces. `Provider` treats the host as a flag
(`hostUp`) and a set of names; `HostServer` is what happens behind that flag. No lock
covers `HostServer.start` and `stop`, so what one assumes and the other grants is a
specification of its own, `HostControl`: no `stop()` beside another or beside a
`start()`, a listener after `start()`, none after `stop()`. `Provider` makes its calls
that way (`HostIsControlled`: the listener is `hostUp`, the stoppers are the threads
and workers that are inside `stop()`), and `HostServer` answers them that way
(`ServesController`); both are refinements and both are proved. `HostServer` treats
the service of a connection as one step (`Serve`); `HostSession` is what happens in it.

### Provider

A thread executes one call at a time; `pc[t]` is where it is in it and `op[t]`
which call it is. One section under `_lifecycle_lock` is one action. Everything
the code does outside the lock is an action of its own: opening the Runtime
connection (`ConnectOk`, `ConnectFail`), the snapshot of the registry
(`SnapshotRegistry`), a deployment (`Install`, `InstallFail`), the join of the
worker (`JoinWorker`, `JoinTimeout`), each revocation (`Revoke`), `HostServer.stop`
(`HostStop`, `WorkerHostStop`). `tgen[t]` is the local variable `generation` that
`start()` and `register()` compare under the lock (`RequireGeneration`).

A lease worker is identified by the generation it was created in. `batch[g]` is
the renewal in flight; `RenewFail` stops the worker and `BindingLeaseFailed` is
the locked section of its callback. `CommitUnhealthy` is the case where the
renewal fails between `add()` and the health check of the same locked section:
the worker's lock is not the lifecycle lock.

The Runtime hands out activations, may lose an answer after having acted
(`Install(t, FALSE)`, both outcomes of `Revoke`), and drops activations when a
lease elapses (`Expire`).

### HostServer

An accept thread is identified by the `start()` that created it, so a thread
that survived `stop()` would show. `conn[c]` says where a connection is: in the
backlog, in the hands of the accept thread, served, closed, out of
`_connections`, and finally answered, refused or dropped. `cpc` is the
controller in `start()` or `stop()`. Connections in `Endless` belong to functions
that never return. `AcceptFails` is an error of `accept()` on an open listener, after
which the host listens and nobody accepts (`HostIsDeaf`).

### HostSession

`hpc` is the handler thread in `_serve_connection` and `_serve_stream`; `spc[t]`
is a thread inside `emit()` and `sendall`. The provider function runs on the
handler thread; a duplex function may use its channel from `Helpers` too, and
those are not joined. A frame is written in two parts, because `sendall` may
need several system calls for a large one; torn frames are thus visible.
`session`, `frames` are the fields of `HostSession`. The rolling digest covers
exactly the items that `frames` counts and is represented by that number.
`emit()` is one step: where a `finish()` of the handler may fall inside it, the
event `overlap` is set and the properties about the wire claim nothing. `recv()` counts
an item before it decodes it (`CountItem`); where decoding raises (`RecvUndecodable`),
its number is in `raised`, otherwise in `delivered`. The function may go on after either.

### Pipeline and EventTail

`Pipeline` keeps `plan`, the steps of the Pipeline object, and `eal`, what was
submitted; the two differ as soon as a step is appended after `run()`. An alias is
a sequence of tokens, which is what `_fresh_alias` tells apart. The daemon runs
steps whose inputs are there, may report another ability than asked, and may end
the Mission early. `EventTail` keeps the daemon's log, of which only some entries
are the Mission's, and the tail's cursor, buffer and count of empty pages. An entry
`"other"` stands for a run of events of other Missions, of any length: `PassOthers` is a
page inside it, without events, with more to come and a cursor that has advanced.
`Pages` are the answers that move the tail on, honest or faulty; `WellFormed` is the
validation of a page by `_event_page`, `Refused` that of `_fill_buffer`. A page that
hides or repeats events under the cursor that was asked for is not among them: the
client cannot tell it from an honest one.

### Discovery, Transports and Agents

In `Discovery` each map of the cache is read or written in one step and a whole
`replace()` is many: `Clear` and one `Remember` per row. `local[t]` holds what a
thread has read. `floor` is a history: the version that a `functions()` which ran
alone saw. `Mode` and `Lookup` are the paths on which a descriptor is asked from the
daemon and left in the cache. In `Transports` a transport is an identity with three
`Parts` (environment, session, adapter), any of which may fail to open or to close;
`retired` are those the pool waits for, `orphans` those whose `connect()` failed
half-way, or whose `close()` was broken off by something else than an `SDKError` (see
section 5). `Agents` keeps the owners of one agent id, written by
listings and by lookups, and a request of each thread; its history `sure` says that
the paired user's agent was listed when the call began, stayed so, and that nobody
else wrote the cache meanwhile.

### Arguments and Values

Both are pipelines of pure functions, written as one action per stage so that a
counterexample shows where a value changed. `Arguments` enumerates signatures
over two positional parameters, a keyword-only one, `*items`, `**kwargs`, defaults
that are or are not advertised, and a `Context`, and sends every call through the
`Client`, a stub or a library facade; the reference is Python's own binding
(`Binds`, `Bound`). `Values` enumerates annotations up to two constructors deep and
their values, and sends them as an argument, a result, a member of `*items` or of
`**extra`, an item of a stream, without annotations, or through a facade; the reference
is identity. Among the annotations are containers without arguments (below one
constructor at most), enums of strings and
of integers, `StreamFrame`, and `Any` (which is also no annotation), under which values
richer than JSON may stand. Left out are `Literal`, model classes, and aliases of
`typing` without arguments.

### Onboarding, Staging, Leasing and Library

A path of `config.py` stands for its state root; `present[r]` are the files there.
The process-wide lock makes each access to `settings` one step, but a connection
takes two, one for the identity (`LoadPath`) and one for the daemon
(`Environment`), with everything of other threads in between. `Staging` follows
one `install()` with its session, its lease and one deadline, which bounds the wait for
the upload and no other call; `Frames` is every answer of the daemon. `Leasing` counts
the ticks of each lease, of the renewal under way and of the wait. Time passes whatever
is under way; the history `delayed` counts which ticks of a lease went to delays that
nothing in the code bounds: an acknowledgement that has not come or was not yet added, a
worker's thread that is due and does not run, a renewal that outlives its own timeout.
`Library` has one action per replaced file and one for the
death of the process, which leaves the path in `torn`.

## 3. Runs

| Run | Question | Instance |
|---|---|---|
| `provider_lifecycle` | Do starts, stops, serves and failures of several generations stay apart, is the host controlled by one at a time, and do they all end? | two threads that both start and stop; one of them also serves, the other registers the one ability; 4 generations; 2 activations |
| `provider_registration` | Do registry, host, lease membership and Runtime bindings stay in step, and does the provider implement its contract? | three threads, two abilities, each registered by its own thread; 2 generations; 3 activations |
| `provider_publishes_every_registered` | Is every registered function published? (No.) | as above |
| `provider_late_registration_rollback` | Does a failed late registration leave nothing behind? (No.) | as `provider_lifecycle` |
| `host_server` | Are slots conserved, does `stop()` reach everything and return, is every connection taken unless the host is deaf? | 3 connections, 2 of them endless; 2 slots; 2 starts |
| `host_session` | Is the output lane whole, ordered and closed by a verifiable outcome, and is every item of the input delivered or an exception? | every kind of function, two helper threads (symmetric), 3 items, 2 input frames |
| `mission` | Is the plan that passed the plan that ran, and are events delivered in order and to an end? | plans of 3 steps over 2 names whose aliases collide; a log of 4 own entries and 2 runs of foreign ones, pages of 2, 1 empty page allowed, every fault |
| `client` | Do refreshes, streams, arguments, values and agents survive threads, retries and conversions? | see below |
| `client_pin` | Is a pinned descriptor the one that is called? (No.) | as `client` |
| `distribution` | Are onboarding, installs, leases and libraries whole? | see below |
| `session_outcome` | Does every invocation get an outcome? (No.) | as `host_session` |
| `session_digest` | Does the digest cover what was sent? (No.) | as `host_session` |

### Why the bounds are enough

- *Four generations* (`MaxGen`): a start takes one and a shutdown takes one, so
  two runs of the provider follow each other completely; every fence compares a
  generation with its replacement. Registration needs one run with its shutdown.
- *Activations* (`MaxAct`): one ability deployed in two runs, or two abilities of
  which one is deployed twice.
- *Threads*: the races of the lifecycle are between two callers and the worker;
  registration adds the second registering thread.
- *Three connections, two slots*: all slots taken by functions that never return
  and one more caller; *two starts*: one restart with leftovers of the first run.
- *Two helpers, three items, two input frames*: two threads inside one critical
  section, a third to be interleaved with them, an item after a refused one, and
  a gap before, between or after frames.
- *Client*: two threads (symmetric), two abilities of one verb of which one is
  replaced once, and three operations: a refresh, a listing that overlaps it, and
  the call that reads the result. Two callers (symmetric), five dispatches and four
  transports: a stream, a call that retires its transport and a `close()`, with one
  of each to spare. Up to three positional arguments over two positional
  parameters, so one is left for `*items`. Annotations two constructors deep: a
  container in a container and a union in a container. Two chatters (symmetric),
  three users, three requests: one user more than the paired one and the one a
  listing shows alone.
- *Distribution*: two providers over three roots and two changes from outside (both
  overrides, one after the other). A bundle of two chunks, of which one is lost; two
  installs; two ticks. Two bindings, one added between snapshot and answer of the
  renewal for the other; a lease of 9 ticks, an interval of 3, a renewal timeout of
  2 (the code's 9 s, 3 s and 2 s), and delays of any length: those of less than four
  ticks must do no harm, those of four and more may.
  Two libraries and two aliases, one of which is the directory that holds the other
  library; four commands: two installs over each other, a removal and a
  reinstallation.
- *Mission*: three steps are the least in which a third alias collides with a
  numbered one; the log crosses two pages, with foreign entries between.

### Fairness

`Provider` and `HostServer` state weak fairness for a call in progress, a lease
worker, an accept thread and a handler of a function that returns: the
interpreter runs every runnable thread. The join, a renewal and a revocation have
timeouts. The opening of the Runtime connection and the deployment of an ability
(`node.py:439`) have none, so that they return is an assumption about the Runtime: while
one hangs, so do `start()` and `register()`. No fairness is assumed for new calls, for
the expiry of leases, for the daemon's connections, for Ctrl-C, for endless functions,
or for an error of `accept()`.

`EventTail` states fairness for the consumer's thread only. A request of a page has no
timeout in the client (`mission.py:255`), and a daemon may keep the tail among events of
others; that neither is so for ever is a hypothesis inside `NextReturns`. `Staging`
states it for the clock and for the deadline that ends the wait for the upload, not for
the daemon. Opening, sending, closing and `ability.deploy` have no timeout either
(`_ability_staging.py:47`, `control.py:252`); that they return is a hypothesis of the
second half of `InstallReturns`. `HostSession`, `Client` and the rest of `Distribution`
have safety properties only.

`CHECK_DEADLOCK FALSE` is set everywhere, because these systems may really stop:
a provider whose threads make no further call, a host without callers, a
connection that is closed.

### Preconditions of the passing runs

- Every ability name has one registering thread. With a shared name
  `HostServer.add` (`_host/server.py:232`) can store twice and the rollback of one
  registration removes the other's function; the hazard list says so. Three theorems
  have this as a hypothesis, `OneRegistrar`, and need it: on an instance with two
  threads for one name TLC violates each of `RegisteredIsHosted`,
  `NoRenewalWhileRevoking` and `CleanStopRevokes`. No other theorem does.
- A join of the lease worker times out only while its renewal is in flight. The
  join waits 8 s; the only long operation of the worker besides the renewal
  (2 s) is the `HostServer.stop` of its callback, which waits at most 5 s.
- The join of the accept thread returns because the thread ended: it wakes up at
  least every 0.25 s and the join waits 5 s.
- Threads can be created.
- `ConnectionsTaken` excepts a host whose accept thread was ended by an error of
  `accept()` and that nobody stops (`HostIsDeaf`).
- `InputComplete` counts an item whose `recv()` raised as answered: a function that
  swallows the exception sees an ordinary end of its input.
- `NextReturns` has two hypotheses: requests end (`RequestsEnd`), and the tail does not
  stay among events of other Missions (`OthersEnd`). `InstallReturns` has one for what
  lies outside the wait for the upload: calls return (`CallsReturn`).
- `ArgumentsAgree` leaves out what `Ordinary` names: keywords for positional-only
  parameters, positional arguments without a schema, defaults that a stub or a
  library cannot send, variadics through a library, and a positional-only hidden
  default behind a `Context`.
- `ValuesAgree` leaves out unions whose arms look alike in JSON and an `Iterable` of
  something to be lifted (`Decidable`); what needs lifting on the routes that do not lift
  it, and a `StreamFrame` where it is not yielded (`Restores`); and values about which the
  annotation says too little (`Described`): what is richer than JSON under `Any`, without
  annotation or in a bare container, a bare tuple, and a tuple for a `Sequence[T]` or an
  `Iterable[T]`. Section 5 says what happens to them.
- `OwnAgentCalled` speaks of requests that are `sure`; with another writer between
  the clear and the refill it fails, see section 5.
- `OnboardedAsOne` speaks of paths that were overridden together (`Together`) and
  of connections that no change from outside preceded without a fresh look at the
  roots (`Afresh`), or interrupted; a first run is expected to be found where the
  SDK's root is also the one EasyRemote looks at (`BootRootIsSeen`).
- `BoundIsLeased` excepts a binding of whose lease the delays have taken what an interval
  and a renewal leave (`TooLate`). Nothing in the code bounds them.
- `ListedIsWhole` leaves paths out over which a command died; one library command
  runs at a time.
- `NothingOpenAfterClose` leaves `orphans` out: transports of a `connect()` that failed
  half-way, or of a `close()` that was broken off.

## 4. What is proved

`TLAPS` checks these for every value of the constants. The assumptions are
`ThreadsAssumption` and `BoundsAssumption` of `Provider`, `HostAssumption` of `HostServer`
(finitely many connections, a slot, a start), `SessionAssumption` of `HostSession` (the
handler is none of the helpers, the bounds are numbers), `PipelineAssumption` (a name is a
sequence of tokens), `TailAssumption` (a page has room for an entry),
`ArgumentsAssumption` (a number), `DiscoveryAssumption` (the abilities are finite, and
none is called like the verb), `TransportsAssumption`, `AgentsAssumption` (the users are
finite and the paired one is among them), `StagingAssumption` (a bundle has a chunk) and
`LeasingAssumption` (numbers; the timeout of a renewal is positive and below the interval,
which is what the worker checks). `Onboarding` needs none, and the theorems about
`Library` do not use the one it has.

| Theorem | States |
|---|---|
| `TypeCorrect` | `Spec => []TypeOK` |
| `RenewalsFenced` | `Spec => []FencedRenewal`: a worker holds and renews only activations of its own generation |
| `HostStopsFenced` | `Spec => []HostStopFenced`: `HostServer.stop` has one caller at a time, while `STOPPING` or `FAILED` |
| `HostControlled` | `Spec => HostIsControlled`: the provider's calls of the host are those of `HostControl` |
| `Refinement` | `Spec => ImplementsContract`: the provider implements the safety part of `ProviderContract` |
| `Invariance` | `Spec => []IndInv` |
| `ActiveServes` | `Spec => []ActiveIsServing`: host, connection and worker of an `ACTIVE` provider are its own |
| `StoppedStaysQuiet` | `Spec => []StoppedIsQuiet`: nothing of a run survives in a `STOPPED` provider |
| `NoConnectionLost` | `Spec => []ConnectionsOwned`: every open connection has an owner that closes it |
| `PublicationStaysHonest` | `Spec => []PublicationIsHonest` |
| `BindingsRenewed` | `Spec => []ActiveBindingsRenewed`: what an ability of an `ACTIVE` provider records is what the worker renews |
| `NobodyStrands` | `Spec => []NeverStranded`: `STARTING` has the thread that completes or rolls back this start, `STOPPING` the one that settles it |
| `WakeupsArrive` | `Spec => []NoLostWakeup`: nobody sleeps in `serve()` on a provider that failed or stopped |
| `RegistryStaysHosted` | `OneRegistrar => (Spec => []RegisteredIsHosted)` |
| `RevocationsUnrenewed` | `OneRegistrar => (Spec => []NoRenewalWhileRevoking)` |
| `CleanStops` | `OneRegistrar => (Spec => []CleanStopRevokes)`: a shutdown without a failure revoked what its worker tracked |
| `HostTypeCorrect` | `Spec => []TypeOK` of `HostServer`: among the rest, the semaphore stays between zero and its bound |
| `SlotsAreConserved` | `Spec => []SlotsConserved`: free and held slots add up to `MaxActive`, across restarts |
| `EveryConnectionReached` | `Spec => []StopReachesAll`: `stop()` shuts down every connection that was tracked |
| `AcceptThreadIsAlone` | `Spec => []OneAcceptThread` |
| `JoinNeverBlocks` | `Spec => []JoinWakes`: the accept thread that `stop()` joins runs and does not block in `accept()` |
| `HostServes` | `Spec => ServesController`: the host implements `HostControl` |
| `SessionTypeCorrect` | `Spec => []TypeOK` of `HostSession` |
| `FramesStayWhole`, `OutcomeStaysLast` | `Spec => []FramesWhole`, `Spec => []OutcomeLast`: the output lane, with any number of helper threads and items |
| `CallsAnsweredOnce` | `Spec => []AnsweredOnce`: no call is answered twice, and no handler ends without an answer unless the connection was lost or an exception passed it by |
| `InputIsComplete`, `GapIsTrue` | `Spec => []InputComplete`, `Spec => []NoFalseGap`: the input lane, with any number of receivers and frames; at its end every item was delivered, in order, or its `recv()` raised |
| `OutputIsVerifiable` | `Spec => []OutputVerifiable`: `TERMINAL` counts exactly the items before it |
| `PlanStaysOrdered` | `Spec => []PlanOrdered` of `Mission`: aliases are unique and a step uses only what comes before it, in plans of any length |
| `PassedPlanRan` | `Spec => []PassedMeansRun`: a check that passed is about the plan that was submitted, every step of which ran |
| `EventsDelivered` | `Spec => []DeliveredIsPrefix`: logs, pages and faults of any number |
| `RefreshSeen` | `DiscoverySpec => []RefreshIsSeen`: any abilities, versions and threads |
| `StreamsSurvive`, `CloseReachesAll` | `TransportsSpec => []StreamsOutlivePool`, `TransportsSpec => []NothingOpenAfterClose`: any callers and transports |
| `ArgumentsArrive` | `ArgumentsSpec => []ArgumentsAgree`: every shape of signature, any number of positional arguments, every route |
| `OwnAgentIsCalled` | `AgentsSpec => []OwnAgentCalled` |
| `ProvidersOnboardedAsOne` | `OnboardingSpec => []OnboardedAsOne`: any providers, with any number of changes from outside |
| `DeployedWhole` | `StagingSpec => []DeployedIsWhole`: bundles of any size |
| `NoneLapses` | `LeasingSpec => []BoundIsLeased`: with any bindings, any lease and any timing of calls and threads, a binding of a running worker lapses only if delays took what an interval and a renewal leave of its lease |
| `ListingsAreOwn`, `ListingsAreWhole` | `LibrarySpec => []ListedIsOwn`, `LibrarySpec => []ListedIsWhole`: any libraries, aliases and nesting |
| `OwnersStay` | `LibrarySpec => OwnerStays`, an action property: a lock keeps its library until it is deleted |
| `DistributionSafe` | `Spec` of `Distribution`, the specification that TLC runs, keeps the five invariants of its parts |

`TypeOK` is inductive only together with control facts (the generation stays in
its bound because a shutdown is preceded by a start that left room for it; the
worker that a failed deployment tracks is one of `Gens`), and the fences are not
inductive at all. `IndInv` adds:

- `CallMatchesStep`: which steps belong to which call, and that a thread carries
  no generation between calls;
- `OneStarter`, `OneShutdown`: a generation has one start, and `STOPPING` has one
  thread;
- `GenerationFence`: nobody carries the generation of a shutdown, and who carries
  the current one works on a provider that runs. This is the heart of it: it
  turns the comparison `_require_generation` makes into knowledge about the state;
- `NodeFollowsState`, `WorkerFollowsNode`, `HostFollowsState`: which worker,
  callback and host can exist in which state. That no thread is past its join
  while a callback is still closing the host is what excludes two stoppers;
- `ActivationsFenced`: the activation a thread carries, a worker tracks or a
  renewal contains was deployed for the generation of its holder.

`ProviderProofs` shows that every action keeps the types, that it keeps the control
part, one lemma per group of actions, and combines them. The refinement proof maps every
action to one of the contract or to a stutter. It needs `HostFollowsState` for
`Activate` and `Fail`, which the contract allows only with an open host. So does the
refinement of `HostControl`, where the interesting step is the start that opens the
host: `OneShutdown` and `WorkerFollowsNode` say that nobody is still inside a `stop()`
then, although a failure callback runs outside the lock.

`ProviderServingProofs` adds `Serving` to `IndInv`: the connection follows the start
that opened it (`ConnectionFollowsStart`: a start in flight has the provider's slot
for a connection to itself, and a stale one never holds the adopted connection),
the publication follows the state (`PublicationFollowsState`), and a worker that is
no longer the provider's was told to stop before it was let go (`WorkersHalted`).
`ServingStands` covers all steps that none of the parts notice. For
`BindingsRenewed` it adds `Covered`: whatever an earlier run left recorded, a start
that works for the current generation has it in hand, still to do, or renewed by its
worker, and on an `ACTIVE` provider only a registration that is being rolled back may
record what the worker does not renew.

`NobodyStrands` and `WakeupsArrive` are the safety halves of the liveness that TLC
checks: `Progress` says who ends what was begun, a start by one of its own steps or its
rollback, a shutdown by its thread, and that the event of `serve()` is set whenever
nobody may sleep (`EventFollowsState`). What liveness adds is only that these threads
run. A start whose generation was overtaken does not count, which is why `Starting`
compares generations: the state is then that of who overtook it.

`ProviderRegistryProofs` relates the registry to the host, the worker and the Runtime.
`Hosting` holds a start and a registration of one generation apart and says which
names a thread at each step finds in the registry and on the host.
`Unrenewed` says that an activation a thread is about to commit is known to no worker,
batch or ability, and that whoever revokes one got it out of every worker first: a
shutdown because its worker is done, a registration because it revokes only what no
worker took. `Tracking` and `RevokeCovers` say what a shutdown finds: a name is tracked
as it is recorded, only a failed worker tracks a name that the registry has forgotten,
and whatever is tracked and bound is still among what the shutdown has to revoke,
unless it has met an error. `CleanStopRevokes` is what remains when nothing is left to
revoke. Each invariant uses those before it and none after it, so they are proved one
after the other.

The theorems about `HostServer` rest on `HostInv`, with three facts that its properties do
not state. `ControlAgrees`: the listener is that of the last start, and the flag is set
for as long as a `stop()` is under way, so an accept thread that looks under the lock
afterwards drops its connection. `HandsHold`: an accept thread between `accept()` and the
start of the handler holds exactly one connection, which nobody else has. `TrackedIsOpen`:
a tracked connection is with its handler or about to be. Slots are conserved because every
step adds one connection to the holders, removes one, or leaves them alone
(`SlotsFollow`). `JoinNeverBlocks` is the safety half of `StopReturns`: a thread that is
joined was started, and since `listening` ended before, it is not where only a caller
could wake it.

The theorems about `HostSession` rest on two invariants that share only the types, because
no step disturbs both lanes. `OutputInv`: the write lock gives one sender (`OneSender`),
the handler answers only when its session is over or never began
(`HandlerFollowsSession`), and the socket ends inside a frame only while that frame's
writer is between its two parts (`WireFollowsWriters`). `FramesWhole` and `OutcomeLast`
follow from the last part of the wire alone, which is why they need no argument over its
history. `CountInv` is the history that `OutputVerifiable` does need, stated by positions
of the wire and not by a recursive count: the items sent and the one in flight are
numbered without a gap below `frames`, in the order of the wire, and the outcome that was
decided on carries `frames`. It is suspended by the events that excuse the property, a
`finish()` inside an `emit()` and an item refused after it was counted. `AnswerInv`, for
`CallsAnsweredOnce`, relates an outcome on the wire to the handler: before it answers
there is none, and while it answers only a first part. It is the part of "Exactly one
terminal/error outcome" (section 5) that the host keeps. `InputInv`: the read lock gives
one frame in hand (`OneReader`), numbers are those of the peer and nothing comes after the
half-close (`InputNumbered`), what `_sequence` counts was delivered in order or raised
(`ItemsAnswered`), at the end that is all there was (`ClosedAtEnd`), and without a fault
of the peer the frame in hand and those in flight continue it without a gap
(`InputGapless`).

`PlanStaysOrdered` needs that `_fresh_alias` finds an alias at all, and that it is
free (`AliasIsFresh`): numbered aliases of one base differ, so of one number more than
there are aliases one is free (`FreeCounter`, the pigeonhole principle), and the loop
stops at the least of them (`SetLeast`). `PassedPlanRan` adds `SubmittedIsPlan`: what
was submitted stays a first part of the plan, however it grows afterwards, and what
the daemon reports are steps of that part. `EventsDelivered` rests on
`HandedInOrder`: what was handed out and what is buffered together list the Mission's
events up to the cursor. A page that `WellFormed` accepts continues such a list,
because two lists of one set are the same (`ListPrefix`) and lists of adjacent ranges
join (`ListConcat`); `TerminalIsLast` is why nothing is missed by a tail that stops
there. Induction over natural numbers is used in the form of sets (`SetInduction`).

`RefreshSeen` rests on `DiscoveryInv`. Nobody ever holds anything older than the
floor: the catalogue has passed it, and the cache, the rows of a listing and the
target of a call are each compared with it (`FloorHolds`, `ListingHolds`,
`CallHolds`). A floor rises only with a `functions()` that ran alone, and while it
does, the cache is what it makes of it (`AloneHolds`): emptied map by map, then filled
with rows of its own. `ThreadKeeps` reduces every step of one thread to what it leaves
in the cache and in its own hands.

The theorems about `Transports` rest on `PartsOwned` and `StreamingApart`. Every part
that is open is left to somebody: the pool, the streams, a `close()` on its way to it,
those that the pool has retired, or the orphans. Until `close()`, the transport of the streams is
neither the pool's nor retired, so nothing that the pool does can reach it.

`ArgumentsArrive` has no history: a call goes through three stages, and its invariant says
that what is on the wire carries what Python would have bound (`Carries`), whoever mapped
it, and the host splits it back from there. The signatures are finitely many shapes;
positional arguments and those taken by `*items` are any number.

`OwnAgentIsCalled` rests on `Grounded`: as long as a request is sure, its user's
agent is listed, the cache holds no others alone, and the rows in hand contain it
where an answer of the whole realm was just read; `Preferred` then cannot name
anybody else. Every action of another thread that writes the cache ends the
sureness, so only the thread's own steps need an argument.

`ProvidersOnboardedAsOne` rests on `Steady`, which is about time more than about state:
as long as some connection is undisturbed, whatever anybody under way has seen of the
roots still agrees with the settings. A disturbance ends that for all who are under
way, and the next connection that counts begins with a fresh look (`Afresh`).
`RootHolds` says that the root of the settings is the one that would be picked now,
with one exception: a first run may create the desktop's root after the SDK's was
picked, but only for want of an identity in the SDK's (`Overtaken`), so nobody takes
an identity from there. `Follows` says what a
connection knows at each of its steps, among it that a first run leaves a root that
the second look finds.

`DeployedWhole` rests on `StoredHolds`: an install begins with a resource that holds
nothing, and after its upload was believed nothing can be added to what was compared.
The theorems about `Library` rest on `InstallHolds` and `RemoveHolds`: until its last
file an install has no lock, or tears the path and keeps its owner; a removal leaves
no lock behind that it did not tear. Both name what the next command finds when this
one dies, so interruption needs no case of its own. `OwnersStay` uses them once more:
whoever replaces a lock has compared its library when it began, and nobody else has run
since. `DistributionSafe` carries the theorems over to the sum: the steps of one part
leave the variables of the others alone (`PartsRun`). For `Client` this is not possible,
because a module that reaches `Values` reaches a recursive operator.

`NoneLapses` rests on `Covered`: apart from its delays, the lease of a known binding
has lost no more than the time since the current wait began, or, during a renewal, the
time that this renewal has taken within its timeout, and a whole interval in addition if
it is one that the renewal has still to reach. A binding that was added after the snapshot
loses the rest of that renewal and then the interval up to the next one. No bound on any
delay is assumed. The sum shows where the design has its reserve: with the code's 9 s, 3 s
and 2 s an acknowledgement and the worker's thread together may be late by just under
4 s. If the next renewal were due an interval after the last one returned, it would not
hold (the mutant of `BoundIsLeased`).

Only model-checked: liveness (`LapseIsNoticed`, `ServeRecovers`, the liveness in
`KeepsContractMoving`, `StopReturns`, `ConnectionsTaken`, `NextReturns`,
`InstallReturns`), which TLAPS cannot do, and the conversions of `Values`
(`ValuesAgree`): they are recursive over data, and what a recursive definition computes
for every input needs induction theorems that the installed provers cannot instantiate.
`Values` has no constants, so the run checks all that the module states. Every other
invariant and action property that a passing run checks is a theorem; of
`KeepsContractMoving` the safety part is (`Refinement`).

## 5. Where code and documents disagree

1. `PublishesEveryRegistered`: a `register()` that was admitted while the provider
   was stopped and stores its entry after `start()` took its snapshot returns
   normally and is never published (`node.py:268`, `README.md:114`).
2. `LateRegistrationRollback`: a late registration whose deployment fails after a
   `stop()` leaves its entry behind (`node.py:278`,
   `docs/design/runtime-bootstrap-hub-governance-spec.md:157`).
3. `ExactlyOneOutcome`: an exception where `_serve_stream` does not catch it closes
   the connection without an outcome (`_host/server.py:389`, `:410`, `:425`;
   `Agent.md:299`).
4. `OutputDigest`: an item is counted and folded into the digest before its size
   is refused (`_host/protocol.py:135`, `Agent.md:300`).

5. `PinKept`: `stream()`, `invoke()`, `prepare()` and `session()` resolve the
   descriptor of a target that carries its own `descriptor_ref`; only `call()`
   hands it on (`client.py:509`, `:420`; `tests/test_client.py:2004`).

The passing runs exclude exactly these cases and nothing around them:
`OutputVerifiable` holds except after a refusal by size, `RefreshIsSeen` except
for pinned targets.

Met while modelling, shown by no run because nothing in the repository promises
otherwise clearly enough, or because the model excludes it by a named precondition:

*Provider and host*
- Any `OSError` of `accept()` ends the accept thread (`_host/server.py:296-299`), for
  instance when the process has no descriptor left; the comment says "listener closed
  by stop()". The provider stays `ACTIVE`, its bindings are renewed, and callers wait in
  the backlog of a host that nobody serves.
- The deployment of an ability has no timeout (`node.py:439`, `control.py:252`), so
  `install()`, `start()` and `register()` wait for ever for a daemon that does not answer.
- A deployment that is acknowledged later than its lease allows is added to the worker all
  the same. The Runtime then refuses the next renewal, of all bindings, and the provider
  fails.
- `recv()` counts an item before it decodes it (`duplex.py:52-53`,
  `_host/protocol.py:208-212`): a function that swallows the exception receives the next
  item and, later, an end that looks complete.
- `register()` checks the number of abilities before it stores one, without a lock
  (`node.py:221`): concurrent registrations can exceed `MAX_BINDINGS`, and the next
  start fails.
- A `serve()` that `stop()` released runs its own `stop()` later and may shut down a
  generation that was started in between (`node.py:308`).
- `_lease_worker` is read twice without the lock (`node.py:425`), so
  `publication_state` may raise `AttributeError` during a shutdown.
- `finish()` takes no lock of the duplex channel (`_host/server.py:426`): a helper
  that is inside `send()` while the function returns tears frames apart.
- Members of `*items: T` are lifted as one value by the member's annotation
  (`_host/server.py:174`), members of `**extra: T` and of an `Iterable[T]` are not lifted
  at all, and a function with a schema override only has its bytes decoded.
- Where the annotation does not describe a value, JSON does: a bare `tuple` and a tuple
  for a `Sequence[T]` arrive as lists, integer keys of a bare `dict` as strings, and
  bytes, tuples or dataclasses under `Any`, in a bare container or without annotation as
  base64 text, lists and mappings (`_codec.py:54-87`, `schema.py:63-70`).
- A parameter that is annotated `StreamFrame` has the schema of a string, which the mapping
  that a frame is lowered to does not satisfy; a facade takes such a result for `str`.
- Behind a `Context`, a positional-only parameter whose default is not advertised
  shifts the rest (`_host/server.py:126`).

*Client*
- `client.agent("bot")` is documented as "local to the paired user"
  (`client.py:634`), but the only owner in the cache is taken, also when it is
  another user's: after `client.agent("ann.bot")` was called, for one
  (`_addressing.py:166`). The tests rely on the single-owner fallback.
- A `functions()` of another thread between its clear and its refill makes a bare
  id resolve to another user's agent, or to none.
- An agent that replied raises `InternalError` when its trace can be read but has no
  record yet, while a trace that cannot be read is tolerated (`agent.py:208-232`).
- `remember()` leaves the schema that was cached for a verb when a candidate with
  another one joins (`_addressing.py:117`); a listing that is overtaken by another one
  restores its older rows; two threads can select the same round-robin candidate
  (`_addressing.py:174`); a listing that iterates a map while another thread fills it
  may raise.
- `Transport.connect()` leaves an adapter open when a later part fails, and `close()` goes
  on to the next part only after an `SDKError` (`_sdk_transport/__init__.py:246-264`).
- A stub whose first use fails, or is made by two threads, keeps or loses a client
  that nobody closes (`client.py:1292-1325`); so does a helper thread that uses a
  `Context` after it was closed (`_context_dispatch.py:80-88`).
- A prepared invocation that is sent twice sends the same draft.
- Python's binding and the client's differ where the wire has one name for two
  things: keyword-only parameters given by position, positional-only ones by
  keyword, a `**kwargs` key with the name of a positional-only parameter.
- A frame whose media type merely contains "json" arrives as a value
  (`client.py:263`), while the host compares for equality (`_host/protocol.py:208`).

*Distribution*
- `configure(control=...)` alone after the settings were resolved leaves the
  credentials at the root that was resolved before (`config.py:82`): identity and
  Runtime then are of different roots. So they are when another thread rediscovers
  between the two, after a root appeared that was not there when it was picked.
- `install()` validates `binding_lease_ms` after the bundle was staged, and leaves
  the bundle behind when deployment fails (`control.py:238`).
- A completed upload is believed without a verified receipt if it reports the right
  digest (`_ability_staging.py:204`).
- `remove_library` deletes a library that is nested below the removed one
  (`library.py:372`), and two installs under one alias at one time mix their files
  (`library.py:292`).
- A facade sends `null` for defaults that are not advertised and `*args` as one
  array.

*Missions*
- Empty pages that announce more are neither counted nor paused (`mission.py:381-382`): a
  busy log of other Missions, or a daemon that always announces more, keeps `__next__()`
  in its loop, whatever `max_empty_pages` is.
- `_empty_pages` counts over the whole tail (`mission.py:383`); a tail that is closed
  with buffered events and continued from its `cursor_sequence` skips them; `close()`
  does not stop buffered events.
- A step that is optional and did not run counts as missing; the output of a step of
  another Pipeline passes when its alias is the same; the check does not compare
  Mission ids.

## 6. Plan

What is here was built in this order: provider, host, session, missions, client
(discovery, transports, arguments, values, agents), distribution (staging, library,
leases, onboarding). What would come next:

1. The framing of `_host/protocol.py` (length prefix, limits, media types) as a
   module of its own between `HostSession` and the socket.
2. The lineage of child invocations (`_context_dispatch.py`, `invocation_policy.py`).

## 7. Not modelled, and why

- Errors, the command line, the package surface and the scripts: tables, argument
  parsing, re-exports and tooling.
- The pandas, pillow and torch codecs: envelopes like that of numpy, around
  libraries that are not in the repository.
- Agent control and the projections of records in `control.py` and `mission.py`: one
  request each, without state.
- The first connection of a client's identity and its gateway check, device and hub
  handles: one cached value each, never invalidated.
- The text of EAL, of schemas and of rendered facades, beyond what the properties
  tell apart.
- The daemon and the SDK: not in the repository. Their actions in the modules are
  external and as permissive as the code that calls them must expect.

The type invariants of `Provider`, `HostServer` and `HostSession` are proved; no run
checks that of `HostSession` for its own sake. Of `HostStopFenced` the run
checks what matters to the host, one caller at a time, as `HostIsControlled`.
`AnsweredOnce`, `JoinWakes`, `NeverStranded`, `NoLostWakeup`, `ServesController` and
`OwnerStays` are proved and in no run either: they are the safety side of something that
a run checks, or a consequence of its invariants for a step.
