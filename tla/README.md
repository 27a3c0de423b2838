# Ferrum Edge: TLA+ specifications

TLA+ models of the parts of Ferrum Edge (an edge proxy and gateway written in
Rust, `src/src/`) whose correctness rests on the order in which threads, tasks
and processes touch shared state. Each module is translated from the source; the
line ranges behind every definition are in `PROJECT.json` under `map`.

## The system

One binary runs in a mode: `database`, `file`, `cp` (control plane), `dp` (data
plane), `mesh`, `injector`, `node_agent` or `migrate`. A serving mode loads a
configuration, publishes it as an immutable request epoch, and runs listeners
whose connections are tokio tasks on a multi-threaded runtime. A request passes
overload admission, routing, plugins, the circuit breaker and the backend
limits, goes to a backend over a pooled connection, and reports its outcome to
the breaker and to passive health checks, for a streamed response only when the
body ends.

| Component | State | Operations | What is hard |
|---|---|---|---|
| Circuit breaker (`circuit_breaker.rs`) | one packed atomic word (generation, state, half-open probes), two counters, a time stamp | admit, record success / failure / neutral, release a probe slot | every operation is a sequence of atomics that races all the others; outcomes arrive cycles after admission |
| Breaker cache (`circuit_breaker.rs`) | a concurrent map with a bounded entry count | look up or create, prune at a config change | count and map change in separate steps |
| gRPC probe recorder (`proxy/mod.rs`) | seven flags | headers, upload end, response end, guard timer, drop | three threads settle one slot and one outcome |
| TLS renewal lease (`tls/lease.rs`, `tls/shared_store.rs`) | a lease table in a file, a keeper per renewal | acquire, heartbeat, refresh, fenced commit, release | several processes, crashes, operations that outlive their caller |
| Overload and drain (`overload.rs`) | two counters, three flags, a `Notify` | guards, monitor, begin and wait for drain | lost wake-ups, check-then-act on flags |
| Shutdown sequence (`gateway_entry.rs`, `modes/*.rs`) | signals, a watch channel, a token | signal, pre-drain, drain, escalate | signals at any point |
| Backend limits (`backend_conn_limit.rs`, `backend_pending_limit.rs`, `backend_active_request_limit.rs`) | counters per policy port, a lane per dial address | acquire, release, evict, lease a lane | eviction of a counter that is being acquired; leases of several config generations in one lane |
| Adaptive concurrency (`adaptive_concurrency.rs`) | a limit and permits in flight | acquire, complete, resize | the limit shrinks below what is in flight |
| Request epoch (`request_epoch.rs`, `config_delta.rs`) | one swapped pointer with generations | publish config, trust, load balancers, listener admission | partial updates computed from an older epoch |
| Listener manager (`proxy/gateway_listener.rs`) | bound and retiring listeners, the reconcile pass | bind, retire, defer, decide admission | a config published during a pass; a port that changes class |
| Route cache (`router_cache.rs`) | entries tagged with a route generation | look up, insert, clear | requests of different epochs share it |
| Gateway mesh trust (`proxy/mod.rs`, `proxy/mesh_trust_registry.rs`, `proxy/hbone_pool.rs`) | SVID and trust slots, an admission flag, a registry of transports, a pool | publish, withdraw, dial, register, pool, CONNECT | a dial or a queued stream that straddles a withdrawal |
| Config sources (`modes/database.rs`, `config/*.rs`) | a poll cursor, a supervisor | poll, apply incrementally or in full, back off | failure between read and apply |
| Control and data plane (`modes/control_plane.rs`, `grpc/*.rs`, `dp_config_freshness.rs`) | configurations with stamps, a watermark, subscriptions | poll, broadcast, connect, snapshot, delta, fail over | reconnects, lag, crashes, stale authority |
| xDS (`xds/*.rs`) | nonces per node, snapshots and subscriptions per stream | subscribe, push, ACK, NACK, reconnect | overlapping streams of one node, responses in flight |
| Health and balancing (`health_check.rs`, `load_balancer.rs`) | counters and ejections per target | probe, report, eject, recover | everyone ejected |
| ACME (`tls/acme.rs`) | saved orders and certificates | plan, order, validate, finish, recover | a crash between any two steps |
| Others: plugins, admin API, discovery, DNS, identity, Kubernetes controller, eBPF | own caches and I/O | | see `PROJECT.json` |

The components interact by call and by shared state. The proxy asks the breaker
before a dispatch and owns the probe slot in a guard (`HalfOpenProbeGuard`)
until it is handed to a recorder or settled. Listeners and requests hold
overload guards whose drop wakes the drain waiter. The ACME task holds a lease
keeper around every side effect. The modes share the shutdown channel with the
monitor and the listeners. A configuration reaches the epoch from the database
poller or, in a data plane, from the subscription to a control plane; the epoch
publication bumps the generations that the route cache, the listener manager and
the lanes of the backend limiter compare. Trust roots travel with the
configuration and are published through the same epoch, under a mutex of their
own. Mesh clients get their share of the configuration over ADS streams.

Every component's correctness question, in one line each:

- breaker: slots do not leak, cycles do not mix, the breaker can always recover;
- recorder: one slot release, one outcome, and the right one;
- lease: a superseded renewal has no effect, an abandoned one blocks nobody;
- drain: it ends when traffic does, and not before;
- limits: the number in flight never exceeds the limit and counters are not lost;
- epoch: what a request sees is one configuration, and publications do not go back;
- listeners: a port is routed only when it is bound as declared, and then always;
- trust: a withdrawn root authenticates nobody once the withdrawal is published;
- sync: a data plane's configuration is one the database held, and converges,
  unless its control plane refuses to send something;
- xDS: an ACK is attributed to the response it acknowledges, and the client ends
  up with the configuration;
- ACME: an interrupted renewal is resumed or abandoned, never done twice.

## Modules

| Module | Models | Extends / instantiates |
|---|---|---|
| `BreakerWord` | what the packed word of a breaker may do (abstract specification) | |
| `CircuitBreaker` | the request threads around one breaker | instantiates `BreakerWord` |
| `GrpcProbeRecorder` | one streaming RPC's recorder | |
| `TlsLease` | one lease name and the keepers of all instances | |
| `GracefulDrain` | overload guards, monitor, shutdown and drain waiter | |
| `TrustGate` | what gateway trust publication promises (abstract specification) | |
| `GatewayTrust` | trust publishers, transport registry, HBONE pool | instantiates `TrustGate` |
| `RequestEpoch` | request epoch, listener manager and route cache composed | |
| `BackendLimiter` | connection counters and lane registry of one backend address | |
| `ConfigSync` | control planes, broadcast streams and a data plane composed | |
| `DeltaAds` | the delta ADS streams of one node and its client | |
| `CircuitBreakerProofs`, `TlsLeaseProofs`, `GracefulDrainProofs`, `GatewayTrustProofs`, `RequestEpochProofs`, `BackendLimiterProofs`, `ConfigSyncProofs`, `DeltaAdsProofs` | theorems | each extends its module; `CircuitBreakerProofs` also extends `GrpcProbeRecorder` |
| `MC*` | definitions of constants for TLC | each extends its module |

A definition whose comment starts with "Mutant" is a deliberately wrong variant
of the definition that follows it; it is part of no specification. Substituted
for the original it makes the property named in `PROJECT.json` fail, which shows
that the property depends on that line of the code.

### CircuitBreaker

`packed` is the `AtomicU64` as a record of generation, state and probe count;
`failureCount`, `successCount` and `failureAge` are the other shared fields.
Each thread serves one request after another: `StartRequest` captures the open
generation (`can_execute_with_admission_epoch`), `CanExecuteLoad` through
`TryAcquireHalfOpenSlot` are the admission, then a `sync` request reports at
response time and a `deferred` one gives its slot back at the headers and
reports at the end of the body, if `IsStale` does not drop it. `Success*` and
`Failure*` are the accesses of `record_success` and `record_failure_inner` in
program order. A loop that reloads and retries a compare-exchange is one step,
since its failing iterations change nothing. The staleness test is a plain
comparison of generations: the branch for a breaker whose configuration was
replaced meanwhile belongs to the cache.

The code's atomics on the word are acquire-release on one location, so their
order is the modification order of the word. The two counters and the stamp are
partly `Relaxed` and are modelled as if memory were sequentially consistent. A
counter store that becomes visible later than modelled can change *when* the
breaker trips or closes; the properties are about the word and its owners, and
their proofs use nothing of the counters' values. The generation is 32 bits in the code
and wraps; here it is a natural number, since 2^32 openings during one request
are out of reach.

`BreakerWord` is the promise: seven kinds of exchange. `ImplementsBreakerWord`
says that the threads make no other.

### GrpcProbeRecorder

Three threads: the request task, the task that polls the upload body, and the
guard timer. The flags are written with `Release` and read with `Acquire`, which
allows a load to be satisfied before an earlier store of the same thread is
visible. Each thread therefore has a store buffer that drains in order (total
store order, which x86-64 has and which every weaker machine allows too). A swap
drains the buffer. An initial choice covers probe or not, and the guard being
absent, a timer, or a window so large that the code counts it as elapsed.
An upload and a response may stay open for ever: where no guard is configured a
live upload keeps the slot (there is no timeout after the headers,
`grpc_proxy.rs:5515-5527`), and `SlotComesBack` is about the guard.
Definitions that the breaker's module has too are prefixed (`RpcInit`, `RpcNext`,
`RpcSpec`, `rpcPc`, `rpcProbe`), so that one proof module can extend both.

### TlsLease

`rec` is the one record of the lease name with its expiry relative to the clock;
`claim`, `phase`, `loop` and `lost` are an instance's keeper; `tasks` holds the
store operations handed to the blocking pool. A task outlives its keeper, since
dropping a join handle does not cancel it. `mutate_if` runs under the
cross-process file lock and is one step; `commit_fenced` keeps the lock while it
runs the caller's closure and is two (`CommitLocks`, `CommitWrites`). An
operation may fail to reach the store at any time. `acquisitions` and the
`serial` fields are history: they number the acquisitions that the fence is meant
to tell apart. Identities may be shared between instances, as happens when a
deployment copies its configuration; the runs use that worst case.

Two assumptions are in the clock. All instances read one clock (the `LeaseClock`
trait demands it of stores that share a directory; skew is outside the model).
And nothing started under a claim is still under way a whole retention (24
hours) after that claim expired, which the code ensures by bounding lock waits,
beats and hooks at minutes.

### GracefulDrain

`conn` and `req` are where a connection's task and its request are; the counters
and flags of `OverloadState` are variables of their own and every access to one
is a step. `permit` is the stored permit of the tokio `Notify`. `main` is the
shutdown task of a serving mode: it leaves `serving` when the shutdown channel
fires and the accept loops have ended, runs `begin_drain`, and becomes the waiter
of `wait_for_drain_with_escalation`, which looks once at both counters, then
loops load, load, park, against a timeout and the escalation token. The monitor
is four steps: read the counters, read `draining` and decide, publish whether
connections are shed, publish whether requests are. The
connection-shedding verdict depends on file descriptors and event-loop latency
and is nondeterministic. `owed` is history: the guards alive at the instant
`draining` was published. A connection is counted when its task first runs and not
when it is accepted (`TaskStarts`), so the drain may complete while an accepted
connection's task has not run; `CompleteMeansDrained` speaks of counted guards.

On x86-64 a read-modify-write is a full fence, so the model is sequentially
consistent. The release workflow also builds for aarch64, where the relaxed
decrement of a guard and the acquire load of `draining` after it may be
reordered; that machine is not modelled (see "Without a run" below).

### TrustGate and GatewayTrust

`TrustGate` is the promise: a set of trusted roots, transports authenticated by
one of them, and a root that leaves the set only while admission is closed and
no usable transport rests on it. `GatewayTrust` is the protocol. `override`,
`file` and `slot` are the trust and SVID slots of `ProxyState`; `live` and
`svid` the trust part of the request epoch; `pub` the holder of the publication
mutex, whose critical section (`Begin`, `InstallMaterial`, `AdvanceGeneration`,
`SweepTransport`, `ClearPool`, `PublishLive`) is one step per location that others read without the
mutex. A request looks the pool up, or takes a ticket, verifies the peer against
the slot as it is then, registers, pools its transport, and sends a CONNECT that
the HTTP/2 driver writes later. A transport is retired in two steps, the flag of
its gate (`SweepTransport`) and the wake-up of its driver (`NotifyDriver`, a
`Notify` that stores one permit), and the driver is the loop of `cancelled()` and
its select: read the flag (`DriverChecks`), look for the notification
(`DriverPolls`), then poll the connection and write what is queued
(`DriverServes`). No lock joins the last two, so a retirement and the whole
publication may fall between them, and the poll under way then still writes a
CONNECT on withdrawn trust. `NoStreamOnWithdrawnTrust` says what the code does
guarantee: that poll is the last one. It rests on the notification being polled
first (`biased`). `RetiredTransportsClose` rests on a notification that comes
before the driver waits for it not being lost.
`ImplementsTrustGate` maps `trusted` to the slot's roots, plus the ones they
replace from the store to the end of the sweep, and `peer` to the root of every
registered transport that is not retired.

### RequestEpoch

A configuration is its listener plan: the class (plaintext or TLS) each port is
declared with. `epoch` is the published epoch with its config, route and
load-balancer generations and the listener admission, pending after each config
publication, which may also replace the load balancer. `rec` is the reconcile pass: load the epoch, retire and bind
sockets, publish the decision unless the config generation has moved. Retirement
may outlast the pass (`draining`), a bind may fail, a listener may die. A request
pins an epoch, looks its key up in the cache that all epochs share, and on a
miss searches its own table and inserts what it found. The route considered has
a variant scoped to each port and a port-agnostic sibling, which is what makes
answers depend on admission. `Search` is `search_route_table` with
`port_match_priority`, reduced to these siblings.

### BackendLimiter

`count` and `resident` are the counters of the policy ports of one dial address,
`holds` and `clones` the shared guards of open sockets; `leases`, `laneGen` and
`lane` are the address's entry in the lane registry. `AcquireHit` and
`AcquireCold` are the two critical sections of `acquire_slot`, between which any
other step may run. A dispatch resolves a cap under the generation its request
pinned, leases the lane for the duration of `send()`, and may retry; reqwest's
connector admits a dial under the registered lane (`Admit`), which may be
another dispatch's; a pool outside reqwest admits under the dispatch's own cap
(`AdmitPooled`). `Bounded` are the dispatches with a read timeout. `Policy` gives what each generation may resolve, including
no cap. A configured cap of 0 is refused before a lane exists and is not in the
model.

### ConfigSync

The database is a sequence of writes, and configuration v is its first v writes.
A control plane takes the stamp of a poll before it reads, publishes a change as
a delta or a snapshot in one critical section, and may crash; `history` records
what the database held when a stamp was taken. The subscription is a broadcast
ring of `QueueCap` messages, registered before the initial snapshot is loaded. A
receiver that fell behind is sent the current snapshot and then what the ring
retained, which is older; the watermark is what keeps those messages out.
`ReceiveFull` and `ReceiveDelta` are the whole of the data plane's handling:
validation, clock-skew test, authority test, apply, watermark, divergence, and
where the next attempt goes. `Invalid` and `Bad` are configurations that fail in
validation and in apply.

`refused` are the payloads that a control plane cannot send, because they are too
large or their trust material or serialization fails; which they are is chosen
initially. An initial snapshot that cannot be sent fails the subscription, a lag
recovery ends the stream, and a broadcast is dropped after the configuration was
stored: nothing tells the subscribers (`Broadcast`, second disjunct). `refusedAt`
and `gap` are history of that: `gap` is `"missed"` from such a publication on,
`"mixed"` once a delta has been applied since, and `"none"` again after a snapshot
that is not older. The properties except what the code does not guarantee in
between.

### DeltaAds

The tasks of a node's delta streams for one resource type, and an external
client. `snap`, `sent` and `accepted` are the stream's configuration, its last
response and the last acknowledged snapshot, from which differences are
computed; `issued` is the nonce kept per node, which overlapping streams share.
`Handle` is a request of any kind (first, ACK, NACK, subscription change),
`Update` a wake-up of the broadcast, `Notice` the server learning of a lost
connection, `Expire` the stream lifetime. A task whose response channel is full
waits in `Send` and does neither. The client applies a response as a whole or
rejects it, and on reconnecting reports the resources it holds. A new nonce is any
that is not in use, so `MaxNonce` bounds how many are in use at a time and not how
many are issued. The bound is a conjunct of `Send`, so that the model is defined for
every `MaxNonce`; the run's value is large enough that it never holds a send back.

## Runs

All bounds are constants of the `.cfg` files. Run `tlc -config X.cfg M`.

| Run | Instance | Distinct states | Shows |
|---|---|---|---|
| `breaker` | 2 threads, both kinds, thresholds 2, limit configured as 0, 3 openings | about 520 k | slots, refinement of `BreakerWord`, deferred outcomes, recovery |
| `grpc_probe` | one RPC | about 22 k | one settlement, no false recovery, no masked failure, the slot comes back |
| `lease` | 2 instances, one identity, TTL 2, retention 2, 2 acquisitions | about 46 k | fencing, expiry, loss |
| `drain` | 2 connections, semaphore of 2, shedding at 1 request | about 940 k | no lost wake-up, truthful completion, the drain ends, shedding ends |
| `gateway_trust` | 2 roots, bundles {r1} and {r1, r2}, 1 transport, 2 requests, 2 generations | about 500 k | refinement of `TrustGate`, no stream on withdrawn trust, fences lift, retired transports close |
| `request_epoch` | 1 port, 2 lookup keys, 1 request, 3 configs, 2 load-balancer changes, 1 fault | about 3 M | admission follows sockets, no lost publication, exact answers, a bound listener is admitted |
| `backend_limiter` | 2 dispatches with a retry, one of them with a read timeout, 2 sockets, 2 ports, 3 generations | about 350 k | exact counters, caps, the strictest lane governs, retired lanes drain |
| `config_sync` | 2 control planes, 2 writes of which the first cannot be applied, ring of 1, 1 crash or cut, with and without a refused snapshot | about 1.1 M | no mixed configuration but for a refusal, no lost write at failover, convergence |
| `delta_ads` | 2 stream slots, 3 configs of 2 resources, channel of 1, 1 change, NACK, resubscription and loss each | about 430 k | acknowledgements, repair on reconnect, convergence |

The bounds are the smallest in which the cases meet. Two breaker threads and
three openings let a straggler of one cycle settle beside a current probe, and
return after the next opening; a limit of 0 clamps to one slot, which the two
fight over. Two acquisitions let a task of the first meet the claim of the
second, with the record still there or pruned in between, and a TTL of two ticks
separates a claim extended in time from one extended at the last moment. Two
connections with a request each let either counter reach zero first, between the
waiter's loads, while the other connection starts or ends; the slot of one that
ended is reused. In `gateway_trust` one request dials while the other streams on
or checks out the same transport; two generations hold one withdrawal, and
publications that withdraw nothing before and after it. In `request_epoch` three configs let
a pass be overtaken twice and a port change its class and change back, and two
load-balancer changes let one come with a config and one by itself; one request meets entries that its predecessors left under other epochs. In
`backend_limiter` the generations tighten, move and remove a cap while
dispatches of the older ones retry. In `config_sync` a ring of one falls behind
at the second publication, and a crash or a cut then sends the data plane to a
control plane whose poll is older; a refused snapshot of the first write is
followed by a delta of the second, and by lag recoveries before and after. In
`delta_ads` a lost connection leaves an old
stream beside the new one, each with a response in flight. Where a property is
proved (below), the bound is immaterial.

Symmetry is used in one run without liveness properties only
(`drain_monitor_race`). `CHECK_DEADLOCK FALSE` is set where the modelled thing
ends: the RPC, the process, and a data plane that is in sync after the last
write. `MaxGen`, `MaxAcquisitions`, `MaxGeneration`, `MaxConfigs`, `MaxBalances`,
`MaxFaults`, `MaxRetries`, `MaxClones`, `MaxWrites`, `IdleClock`, `MaxPublishes`,
`MaxNacks`, `MaxChanges`, `MaxLosses` and `MaxNonce` cap what is unbounded in the guards of the actions that raise it.

### Fairness

- `breaker`: weak fairness of each started request's steps. Backend
  reads and bodies are bounded by timeouts, and a dropped request settles in its
  guard's destructor. New requests and the clock are not fair.
- `grpc_probe`: a thread ends what it has begun, its stores become visible, and
  the guard's timer fires. Client and backend are not fair: headers, upload and
  response may each be outstanding for ever.
- `lease`: the clock, the heartbeat loops and the store operations, each kind of
  each instance, are fair: `lock_exclusive` gives up at a deadline. Nothing is
  assumed of the renewal's own work, of acquisition, of drops or of crashes.
- `drain`: the shutdown task, the monitor and the bookkeeping steps of
  tasks already scheduled are fair. Clients, requests in progress, signals and
  the drain timeout are not: the drain ends without any of them.
- `gateway_trust`: the steps of the critical section, which is straight-line
  code; a driver ends the poll it has begun, and is polled when it was notified or
  a CONNECT is queued. Requests, publishers, the peer and the end of connections
  are not fair.
- `request_epoch`: weak fairness of the reconcile pass. The supervisor starts one
  every 30 seconds whatever happened, and a pass bounds its waits for sockets.
- `backend_limiter`: a started dispatch goes on, since leasing and admission are
  synchronous. `send()` resolves even if it causes further dials first (strong
  fairness) for the `Bounded` dispatches only, which have a read timeout;
  `backend_read_timeout_ms` 0 disables it (docs/size_limits.md), and such a
  dispatch may keep a retired lane.
- `config_sync`: polls of a control plane that is up or comes back, and the data
  plane's own steps, since it never stops reconnecting. The snapshot of a fallback
  is received with strong fairness: the primary-retry timer is minutes, so it does
  not cut every one off. Writes, crashes, cuts and the timer are not fair.
- `delta_ads`: the client reconnects; requests are handled and responses accepted
  with strong fairness; a stream ends with its lifetime. The lifetime
  (`FERRUM_CP_GRPC_MAX_STREAM_LIFETIME_SECONDS`, docs/configuration.md) is at
  least a minute, long enough for a stream to be served before it ends. Broadcast
  wake-ups (`Update`) are not fair: `ClientConverges` follows from the lifetime
  alone, and not without it, which `delta_ads_baseline` explains.

### Disagreements with the source's own words

Three runs are expected to fail; each states a sentence of the source or docs.

- `drain_monitor_race`: "the monitor must preserve that state instead of clearing
  reject_new_requests". It reads `draining` and publishes some lines later; a
  drain begun in between is undone, and since the monitor stops on the same
  signal nobody sets the flag again. That left-over verdict is the only way to lose
  the refusal (`RefusalIsPermanent`, proved).
- `config_sync_fence`: correct-clock control planes are fenced "until real wall
  time catches up". A stamp moves only with a change. A primary whose clock is
  ahead, within the tolerance, reloads unchanged content and dies; the fallback's
  snapshot, with newer content and an older stamp, is refused until the *next*
  change, however much time passes.
- `delta_ads_baseline`: the server "follows the Envoy ADS wire contract", in which
  a client that acknowledged a version holds it. Differences are taken from the last acknowledged
  snapshot, also while a response is in flight. A resource that this response
  adds and the next configuration drops is not in the baseline, so it is not
  removed either; the client keeps it and acknowledges a snapshot that lacks it.
  The next reconnect repairs it (`ReconnectRepairs`).

### Without a run

Behaviours met while modelling for which no run is kept. None breaks a property
above, and none is claimed otherwise by the properties' comments.

- A breaker probe that outlives its cycle releases a slot of the next one, so the
  probes really under way may exceed `half_open_max_requests` by one for each such
  straggler; the count (`TypeOK`, proved) never exceeds it and no slot leaks
  (`EverySlotHasAnOwner`). A
  request admitted in CLOSED may fail into a later half-open cycle and reopen it.
  The staleness test of a deferred outcome and its recording load the word
  separately, and a reopening between the two goes unseen.
- The two sides of the gRPC join each store a flag and load the other's with
  Release and Acquire; both loads may miss, and a clean success is then recorded
  by nobody, and the slot stays with the recorder until its guard expires or it is
  dropped; only the destructor returns it where no guard is configured.
- Pruning forgets a lease's fence after the retention. Under the retention
  assumption no guard is left to be confused by it.
- Outside x86-64 the last guard of a drain may miss `draining` and not notify;
  the waiter then sleeps until its timeout.
- A refused broadcast leaves data planes on "their last-known-good configuration"
  (docs/cp_dp_mode.md:63-66). That is so until the next delta that can be sent: it
  is applied on the older base and leaves a configuration that the database never
  held, without divergence, until the next snapshot (`gap = "mixed"`; the state is
  reached in `config_sync`). A snapshot from before a refused one that the ring
  retained may also follow a lag recovery of the same control plane and take the
  data plane back behind it.
- A CONNECT may be written on a transport of withdrawn trust by the poll of its
  driver that was under way at the notification.
- A config publication that changes no route goes back to a pending admission and
  keeps the route generation, so requests pinned to the two epochs may get each
  other's cached answers. `ScopedRouteIsAdmitted` still holds for both, and
  `CurrentEpochAnswersExactly` for the one that is published.

## Proofs

`tlapm` checks all proofs. The type invariant of every module with a proof module
is proved there, together with the parts of the inductive invariants that are
properties in their own right (`OnlyHalfOpenCountsProbes`,
`GenerationCountsOpenings`, `OwnerIsLatest`, `NoWithdrawnTransportWhenLive`,
`AdmissionMatchesVerifier`, `SweepReachesEveryTransport`, `LaneWhileLeased`); the runs
check what is not proved as well, and the properties a reader would look for
first. The theorems hold for every value of the constants
that satisfies the named assumptions (`BreakerAssumption`, `LeaseAssumption`,
`DrainAssumption`; `GenerationAssumption`, `OfferedAssumption` and
`DistinctAssumption` of `GatewayTrust`; `PortsAssumption`, `GlobalAssumption` and
`KeysAssumption` of `RequestEpoch`; `FiniteAssumption`, `BoundAssumption`,
`PortAssumption`, `PolicyAssumption` and `BoundedAssumption` of `BackendLimiter`; `SyncAssumption`;
`AdsAssumption`), in particular for any number of threads, instances, connections,
requests, ports, generations, control planes, writes and streams. Two clauses of
the last two are conventions of the encoding: there is at least one resource and
no write makes it `"unset"` (so that having no configuration is not one of the
configurations), and a configuration of `DeltaAds` is a function on the names.

- `CircuitBreakerProofs`. `StepRefinesWord` shows that from a well-formed word
  each action is a `BreakerWord` transition or leaves the word alone;
  `WordTransitions` that those keep it well formed and without probes outside
  HALF_OPEN. `WordInv` is thereby inductive, and `OnlyHalfOpenCounts`,
  `BreakerImplementsWord` and `GenerationsAreOpenings` follow. `TypeCorrect` adds
  the locals. `SlotsAreOwned` needs more: that a thread outside an admitted
  request holds no probe (`SlotInv`), and a classification of every step as one
  that keeps, gives, takes or clears slots (`StepMovesSlots`); each class keeps
  the count below the number of owners (`MovesKeepOwners`), with cardinality
  facts of finite sets. `OutcomesReachTheirCycle` needs the order of three
  generations (`CycleInv`): the captured one is no later than the admitting word's,
  which is no later than the present one. An outcome that is not stale has the
  first equal to the last, hence all three equal.
- `CircuitBreakerProofs`, second half: the recorder (`GrpcProbeRecorder`), which is
  the breaker's client for a streaming RPC. `RecorderInv` is inductive. `SlotOnce` hands the
  slot from the request's guard to the flag `slot_released` at the headers;
  `TaskOrder` and `UploadOrder` tell from where a thread is what it has published;
  `Joins` says what a thread has found out by the time it records a success; and
  `OutcomeOnce` that what was recorded is right and was recorded once. Since a store
  may be invisible for a while, "published" means stored or pending in the thread's
  own buffer, and two orders of stores carry the proof (`Ordered`: whoever sees the
  second flag sees the first): the outcome before the clean end, or the upload
  side would record a second one, and the overflow before the end of the upload,
  or the other side would record a success. `StoreEffect`, `FlushEffect`,
  `SwapEffect` and `LoadEffect` say what the accesses to memory do to these; then
  there is one lemma per action.
  `SlotAndOutcomeSettleOnce`, `NoSuccessAfterLateUpload` and
  `StreamingFailureIsRecorded` follow, and `SettlementIsFinal`: no later step adds
  to what was settled or takes it back. The recorder has no constants, so the run
  explores all of it; the proof adds the reason, and buffers of any length.
- `TlsLeaseProofs`. `LeaseInv` is inductive. Fences alone do not identify an
  acquisition, since pruning resets them; `Aligned` says that the fence of every
  claim and task is as far from its acquisition number as the record's is. Then
  a fence that matches is the latest acquisition (`MatchIsLatest`), from which
  `CommitsAreCurrent`, `OwnersAreLatest`, `SupersededTasksDoNothing` and
  `OnlyAcquisitionRevives` follow. Pruning may move the offset because nothing
  is under way then (`RecordInv`).
- `GracefulDrainProofs`. `DrainInv` says that the counters are the numbers of
  live guards (`CountersAreExact`), that the place of the shutdown task tells
  what it has published (`SequenceInv`), and that after the waiter has seen
  connections at zero only request guards are still owed (`OwedInv`).
  `WaiterIsWoken` and `CompletionIsTrue` follow. `RefusalIsPermanent` says how far
  the sentence that `drain_monitor_race` refutes is true: once the drain refuses
  requests and the monitor holds no verdict from before it, every later state
  refuses them.
- `GatewayTrustProofs`. No property is inductive: whether a transport rests on a
  trusted root depends on a handshake that may have read the slot before the
  withdrawal. The invariant follows a root from the handshake (`TaskInv`: a dial
  whose ticket is current verified an acceptable root) through registration
  (`ConnInv`: every usable transport is registered under the generation the sweep
  looks for) to the sweep, with what the mutex holder knows about the slots
  (`PubInv`) and the order of tickets and generations (`GenInv`). `StreamsAreTrusted`
  needs in addition that no notification is lost (`NotifyInv`): the driver of a
  retired transport has a permit or is about to read the flag, but for the one
  transport between its flag and its notification, and that one is still within the
  sweep, which trusts its root. `Implementation`
  shows that every step is a step of `TrustGate` or a stutter.
- `RequestEpochProofs`. What a request answers depends on what requests of other
  epochs left in the cache, so the invariant says how far epochs of one route
  generation agree (`PinsAgree`: same plan, same admission unless pending again)
  and what an entry of a generation may hold (`CacheAgrees`); what a decided
  admission admits depends on the pass that decided it, so it says what a pass
  knows of the published epoch between its steps. The run has one request at a
  time; the theorems cover any number of concurrent ones.
- `BackendLimiterProofs`. Counters and registry touch disjoint variables and have
  an invariant each: `CountsAreExact` with `CapHeld`, and `LaneWhileLeased` with
  `StrictestLaneGoverns`. The work is in the cardinalities: a step moves one
  socket in or out of a port, or one dispatch in or out of the leaseholders.
- `ConfigSyncProofs`. That the applied configuration is one the database held is
  not inductive: it depends on what is still in the ring and on the wire. `Stream`
  says that this is a chain. The retained messages are consecutive publications of
  the control plane (`Consecutive`) that end with what it serves (`EndsServed`);
  what arrives next starts no later than the applied configuration and ends no
  earlier, or is older than the watermark and will be refused (`Fits`, `Connects`).
  The last alternative is the receiver that lagged: it is sent the current snapshot
  first, and only the watermark keeps the older retained deltas from being applied
  to it. A publication that was refused breaks the chain at its stamp: `Consecutive`,
  `EndsServed` and the wire's message promise nothing of what is older than
  `refusedAt`. With `gap = "none"` the watermark is not older than `refusedAt`, so
  whatever can still be accepted is on this side of the break (`DeltaFits`); with
  `gap = "missed"` the invariant only says which configuration is applied, and with
  `"mixed"` only that there is one. `DeltaApplies` is the fact about the data that makes a chain enough: a delta
  turns every configuration between its ends into the newer end. `Stamps` relates
  a stamp, less its control plane's skew, to the writes that its poll could read, which
  gives `FailoverIsNotARollback`. `LastWriteExists` is an induction over the
  writes; it is done with the least-element principle (`LeastNatural`, from the
  library's theorem on well-founded relations).
- `DeltaAdsProofs`. Acknowledgements are matched against one nonce per node, while
  baselines are kept per stream. `Attributed` says what the last nonce stands for: a
  response that carries it has the snapshot of its stream's last send, and an
  acknowledgement that carries it was sent by a client that applied that snapshot.
  A send establishes it because its nonce is not in use (`FreshNonce`), and the other
  streams keep it because none of their messages carries the new nonce
  (`AttributedFrame`). `ReconnectRepairs` rests on `FirstExchange`: until the first
  response is accepted or rejected the client's state is the one it reported, so
  what that response leaves out the client still holds (`FirstResponseRepairs`,
  about the operators `Resources` and `Removed`). The first response of a stream is
  also the first thing in its channel (`Channels`).

The strengthened invariants were model-checked before they were proved:
`SyncInvariant`, `AdsInvariant` and `RecorderInvariant` state the whole of theirs.

Only model-checked are the liveness properties of all modules (fairness and
`ENABLED` are beyond the prover) and the three violations.

## Not modelled

The repository has about a million lines of Rust. Most of them translate data
(Kubernetes, Istio and Gateway API resources, database rows, xDS resources),
implement one of a hundred request plugins, wrap an external library, or test
the rest. They keep no shared state whose order matters, and a model of them
would restate them. The modules here are about the state that threads, tasks and
processes share, which is a small part of the lines; the map covers accordingly
few of them.

Left out of the modelled parts:

- overload: the probabilistic and keepalive tiers, the `drain_started` token,
  readiness and the length of the pre-drain window;
- lease: clock skew between holders, the read cache of the shared store;
- breaker: wrap-around of the 32-bit generation, the cache of breakers;
- trust: the flag for an unresolved trust authority, the mesh-mTLS pool (which
  shares the registry), CRLs and keepalive failures (part of `ConnectionEnds`);
- epoch: UDP and HTTP/3 siblings of a listener, certificates, status reports, the
  computation of a delta, eviction from the route cache by size;
- limiter: the pending and active-request limiters, which repeat the counter part
  with other keys;
- sync: authentication, namespaces, heartbeats, the freshness report and the data
  plane's on-disk copy; a refusal that depends on the moment and not on the payload;
- xDS: state-of-the-world streams, admission ceilings, the snapshot cache.

Everything else is listed as `not_modelled` in `PROJECT.json` with its reason.

## Plan

In this order, each with an MC module, its properties and, where an inductive
invariant is in reach, its theorems.

1. `BreakerCache`: entry reservation, creation and pruning, composed with the
   abstract `BreakerWord` per entry; a config change during a probe.
2. `DbPolling`: supervision, back-off and cursor, feeding `RequestEpoch`.
3. `AcmeRenewal`: the order state machine under `TlsLease`, crash at any point.
4. State-of-the-world ADS beside `DeltaAds`; the coherence of types in a push.
5. `AdaptiveConcurrency`, `HealthCheck`, `SharedStoreFile` (cached reads) and the
   audit spool.

Theorems to add to what exists: for each liveness property the safety part that
it rests on, where that is more than the invariants above (from every state in
which a slot, a lease or a fence is held, what the holder still has to do), and
the invariants of the planned modules as they are written.
