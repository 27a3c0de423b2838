--------------------------- MODULE BackendLimiter ---------------------------
(***************************************************************************)
(* The DestinationRule maxConnections ceiling of one backend host          *)
(* (src/src/backend_conn_limit.rs).  Two maps cooperate.                   *)
(*                                                                         *)
(* The limiter counts open sockets per policy port.  A slot is taken in    *)
(* two critical sections, a hit section (get_mut) and, when that misses, a *)
(* cold section (entry().or_insert): between the two any other acquirer or *)
(* releaser may run.  A slot is returned, and an idle counter evicted, in  *)
(* one critical section when the last clone of its shared guard drops.     *)
(*                                                                         *)
(* The lane registry tells reqwest's connector, which knows only the dial  *)
(* address, which ceiling governs the dial.  A dispatch leases the lane    *)
(* before send() and drops the lease when send() resolves.  Dispatches of  *)
(* several routes, and of several configuration generations, meet in one   *)
(* lane: one generation's strictest lane wins, a newer generation replaces *)
(* an older one.                                                           *)
(*                                                                         *)
(* Modelled here is one dial address; the policy ports that can share it   *)
(* are the set Ports.                                                      *)
(***************************************************************************)
EXTENDS Integers, FiniteSets

CONSTANTS
    Tasks,          \* dispatches, each a request with its retries
    Bounded,        \* those whose route has a backend_read_timeout_ms above 0
    Sockets,        \* bound: identities of admitted physical connections
    Ports,          \* DestinationRule policy ports
    Policy,         \* Policy[g]: what routes resolve under generation g
    MaxGeneration,  \* bound: configuration generations 1 .. MaxGeneration
    MaxRetries,     \* bound: retry attempts of one request
    MaxClones       \* bound: clones of one shared guard

\* "No cap configured": the None of resolve_backend_max_connections.
NoCap == [cap |-> 0, port |-> 0]

\* A lane is a cap and the policy port it counts on.
Lane == [cap : Nat \ {0}, port : Ports]

\* What generation g may resolve for a route to this address.
Published(g) == Policy[g] \ {NoCap}

AllPublished == UNION {Published(g) : g \in 1..MaxGeneration}

ASSUME FiniteAssumption == IsFiniteSet(Tasks) /\ IsFiniteSet(Sockets)

ASSUME BoundedAssumption == Bounded \subseteq Tasks

ASSUME BoundAssumption ==
    /\ MaxGeneration \in Nat \ {0}
    /\ MaxRetries \in Nat
    /\ MaxClones \in Nat \ {0}

\* Port 0 stands for no port.
ASSUME PortAssumption == Ports \subseteq Nat \ {0}

ASSUME PolicyAssumption == Policy \in [1..MaxGeneration -> SUBSET (Lane \cup {NoCap})]

VARIABLES
    live,      \* the published configuration generation
    count,     \* count[p]: the open-socket counter of port p
    resident,  \* the ports that have a counter in the map
    holds,     \* holds[s]: the port a socket's guard holds a slot of, or 0
    clones,    \* clones[s]: the clones of that guard
    leases,    \* leases of the dial address's lane; 0: no registry entry
    laneGen,   \* the generation the registered lane was published under
    lane,      \* the registered lane
    pc,        \* pc[t]: where a dispatch is
    gen,       \* gen[t]: the generation its request pinned
    cap,       \* cap[t]: the lane its route resolved, or NoCap
    leased,    \* leased[t]: it holds a lease
    seen,      \* seen[t]: the lane its admission runs under
    tries      \* tries[t]: retries made

counters == <<count, resident, holds, clones>>
registry == <<leases, laneGen, lane>>
dispatch == <<pc, gen, cap, leased, seen, tries>>
vars == <<live, counters, registry, dispatch>>

\* Steps of one dispatch.  hit and cold are the two sections of acquire_slot,
\* pinned and insert those of lease_lane.
PCs == {"idle", "pinned", "insert", "sending", "hit", "cold"}

\* One type invariant: variables have their types, a dispatch that is
\* acquiring knows a lane some generation published, and only a capped
\* dispatch holds a lease.
TypeOK ==
    /\ live \in 1..MaxGeneration
    /\ count \in [Ports -> Nat]
    /\ resident \subseteq Ports
    /\ holds \in [Sockets -> Ports \cup {0}]
    /\ clones \in [Sockets -> 0..MaxClones]
    /\ \A s \in Sockets : holds[s] = 0 <=> clones[s] = 0
    /\ leases \in Nat
    /\ laneGen \in 0..live
    /\ lane \in AllPublished \cup {NoCap}
    /\ leases > 0 => lane \in AllPublished
    /\ pc \in [Tasks -> PCs]
    /\ gen \in [Tasks -> 0..live]
    /\ cap \in [Tasks -> AllPublished \cup {NoCap}]
    /\ leased \in [Tasks -> BOOLEAN]
    /\ seen \in [Tasks -> AllPublished \cup {NoCap}]
    /\ tries \in [Tasks -> 0..MaxRetries]
    /\ \A t \in Tasks :
         /\ pc[t] \in {"hit", "cold"} => seen[t] \in AllPublished
         /\ pc[t] = "insert" => cap[t] \in AllPublished
         /\ leased[t] => cap[t] \in AllPublished /\ pc[t] \in {"sending", "hit", "cold"}

Init ==
    /\ live = 1
    /\ count = [p \in Ports |-> 0]
    /\ resident = {}
    /\ holds = [s \in Sockets |-> 0]
    /\ clones = [s \in Sockets |-> 0]
    /\ leases = 0
    /\ laneGen = 0
    /\ lane = NoCap
    /\ pc = [t \in Tasks |-> "idle"]
    /\ gen = [t \in Tasks |-> 0]
    /\ cap = [t \in Tasks |-> NoCap]
    /\ leased = [t \in Tasks |-> FALSE]
    /\ seen = [t \in Tasks |-> NoCap]
    /\ tries = [t \in Tasks |-> 0]

-----------------------------------------------------------------------------
(* The lane registry.                                                      *)

\* ReqwestLane's derived order, (cap, policy_port) lexicographic.
Stricter(a, b) ==
    \/ a.cap < b.cap
    \/ a.cap = b.cap /\ a.port < b.port

\* Mutant: the retired generation's publication replaces the live one.
FoldAny(t) ==
    /\ leases' = leases + 1
    /\ IF leases = 0 \/ gen[t] # laneGen \/ Stricter(cap[t], lane)
         THEN laneGen' = gen[t] /\ lane' = cap[t]
         ELSE UNCHANGED <<laneGen, lane>>

\* ReqwestDialLaneEntry::acquire: take a lease and fold the dispatch's
\* publication into the lane.  A freshly inserted entry has no lease yet.
Fold(t) ==
    /\ leases' = leases + 1
    /\ IF \/ leases = 0
          \/ gen[t] > laneGen
          \/ gen[t] = laneGen /\ Stricter(cap[t], lane)
         THEN laneGen' = gen[t] /\ lane' = cap[t]
         ELSE UNCHANGED <<laneGen, lane>>

\* ReqwestLaneLease::drop: return a lease; the last one evicts the entry.
Unlease ==
    /\ leases' = leases - 1
    /\ IF leases = 1
         THEN laneGen' = 0 /\ lane' = NoCap
         ELSE UNCHANGED <<laneGen, lane>>

\* A configuration publication advances the generation requests will pin.
Reload ==
    /\ live < MaxGeneration
    /\ live' = live + 1
    /\ UNCHANGED <<counters, registry, dispatch>>

\* A request pins the live configuration and resolves its route's cap.
Pin(t) ==
    /\ pc[t] = "idle"
    /\ pc' = [pc EXCEPT ![t] = "pinned"]
    /\ gen' = [gen EXCEPT ![t] = live]
    /\ \E l \in Policy[live] : cap' = [cap EXCEPT ![t] = l]
    /\ UNCHANGED <<live, counters, registry, leased, seen, tries>>

\* An uncapped dispatch touches no map before send().
SendUncapped(t) ==
    /\ pc[t] = "pinned"
    /\ cap[t] = NoCap
    /\ pc' = [pc EXCEPT ![t] = "sending"]
    /\ UNCHANGED <<live, counters, registry, gen, cap, leased, seen, tries>>

\* The lease is taken and the request is handed to reqwest.
Lease(t) ==
    /\ Fold(t)
    /\ pc' = [pc EXCEPT ![t] = "sending"]
    /\ leased' = [leased EXCEPT ![t] = TRUE]

\* lease_lane, first section: a resident entry is folded into under the shard
\* read lock; a miss goes on to the inserting section.
LeaseLookup(t) ==
    /\ pc[t] = "pinned"
    /\ cap[t] # NoCap
    /\ IF leases = 0
         THEN /\ pc' = [pc EXCEPT ![t] = "insert"]
              /\ UNCHANGED <<registry, leased>>
         ELSE Lease(t)
    /\ UNCHANGED <<live, counters, gen, cap, seen, tries>>

\* lease_lane, second section: entry().or_insert finds a sibling's entry or
\* inserts one, and folds under the same shard lock.
LeaseInsert(t) ==
    /\ pc[t] = "insert"
    /\ Lease(t)
    /\ UNCHANGED <<live, counters, gen, cap, seen, tries>>

\* A dispatch is over, its request answered.
Finish(t) ==
    /\ pc' = [pc EXCEPT ![t] = "idle"]
    /\ cap' = [cap EXCEPT ![t] = NoCap]
    /\ gen' = [gen EXCEPT ![t] = 0]
    /\ tries' = [tries EXCEPT ![t] = 0]

\* Mutant: a lease is not returned when the attempt is retried.
ResolveLeaksOnRetry(t) ==
    /\ pc[t] = "sending"
    /\ leased' = [leased EXCEPT ![t] = FALSE]
    /\ \/ /\ IF leased[t] THEN Unlease ELSE UNCHANGED registry
          /\ Finish(t)
       \/ /\ tries[t] < MaxRetries
          /\ tries' = [tries EXCEPT ![t] = @ + 1]
          /\ pc' = [pc EXCEPT ![t] = "pinned"]
          /\ UNCHANGED <<registry, gen, cap>>
    /\ UNCHANGED <<live, counters, seen>>

\* send() resolves, or its future is dropped: the lease goes back.  A retry
\* keeps the pinned generation and leases again.
Resolve(t) ==
    /\ pc[t] = "sending"
    /\ IF leased[t] THEN Unlease ELSE UNCHANGED registry
    /\ leased' = [leased EXCEPT ![t] = FALSE]
    /\ \/ Finish(t)
       \/ /\ tries[t] < MaxRetries
          /\ tries' = [tries EXCEPT ![t] = @ + 1]
          /\ pc' = [pc EXCEPT ![t] = "pinned"]
          /\ UNCHANGED <<gen, cap>>
    /\ UNCHANGED <<live, counters, seen>>

-----------------------------------------------------------------------------
(* The limiter.                                                            *)

\* ReqwestConnectionAdmission::admit, lane_for: reqwest needs a new physical
\* connection and the connector looks its lane up.  Without a lane the dial is
\* unlimited and takes no slot.
Admit(t) ==
    /\ pc[t] = "sending"
    /\ leases > 0
    /\ pc' = [pc EXCEPT ![t] = "hit"]
    /\ seen' = [seen EXCEPT ![t] = lane]
    /\ UNCHANGED <<live, counters, registry, gen, cap, leased, tries>>

\* The transports that own their sockets (raw TCP, WebSocket, the HTTP/2, gRPC,
\* HTTP/3 and mesh pools) acquire under the cap their own route resolved.
AdmitPooled(t) ==
    /\ pc[t] = "pinned"
    /\ cap[t] # NoCap
    /\ pc' = [pc EXCEPT ![t] = "hit"]
    /\ seen' = [seen EXCEPT ![t] = cap[t]]
    /\ UNCHANGED <<live, counters, registry, gen, cap, leased, tries>>

\* Where the dispatch goes when admission is over: back into send(), or, for a
\* transport that holds no lease, to its end.
AfterAdmission(t) ==
    /\ seen' = [seen EXCEPT ![t] = NoCap]
    /\ IF leased[t] \/ cap[t] = NoCap
         THEN pc' = [pc EXCEPT ![t] = "sending"] /\ UNCHANGED <<gen, cap, tries>>
         ELSE Finish(t)

Refuse(t) ==
    /\ AfterAdmission(t)
    /\ UNCHANGED counters

\* A slot of the dispatch's port becomes the guard of a new socket.  When the
\* bound on open sockets is reached the dial fails instead and gives its slot
\* back within the step.
Reserve(t) ==
  IF \A s \in Sockets : holds[s] # 0 THEN Refuse(t) ELSE
    LET p == seen[t].port IN
    /\ \E s \in Sockets :
         /\ holds[s] = 0
         /\ holds' = [holds EXCEPT ![s] = p]
         /\ clones' = [clones EXCEPT ![s] = 1]
    /\ count' = [count EXCEPT ![p] = @ + 1]
    /\ resident' = resident \cup {p}
    /\ AfterAdmission(t)

\* acquire_slot's cap test, under the shard lock.
AtCap(t) == count[seen[t].port] >= seen[t].cap

\* acquire_slot, hit section.
AcquireHit(t) ==
    /\ pc[t] = "hit"
    /\ IF seen[t].port \in resident
         THEN IF AtCap(t) THEN Refuse(t) ELSE Reserve(t)
         ELSE /\ pc' = [pc EXCEPT ![t] = "cold"]
              /\ UNCHANGED <<counters, gen, cap, seen, tries>>
    /\ UNCHANGED <<live, registry, leased>>

\* Mutant: the cold section trusts the miss and does not test the cap again.
AcquireColdUnchecked(t) ==
    /\ pc[t] = "cold"
    /\ Reserve(t)
    /\ UNCHANGED <<live, registry, leased>>

\* acquire_slot, cold section: a sibling may have inserted the counter, and
\* filled it, since the miss.
AcquireCold(t) ==
    /\ pc[t] = "cold"
    /\ IF AtCap(t) THEN Refuse(t) ELSE Reserve(t)
    /\ UNCHANGED <<live, registry, leased>>

\* A DNS-candidate attempt or the connection's driver clones the guard.
CloneGuard(s) ==
    /\ clones[s] \in 1..(MaxClones - 1)
    /\ clones' = [clones EXCEPT ![s] = @ + 1]
    /\ UNCHANGED <<live, count, resident, holds, registry, dispatch>>

\* Mutant: each clone returns the slot.
DropGuardTwice(s) ==
    /\ clones[s] > 0
    /\ clones' = [clones EXCEPT ![s] = @ - 1]
    /\ LET p == holds[s] IN
       /\ holds' = [holds EXCEPT ![s] = IF clones[s] > 1 THEN @ ELSE 0]
       /\ count' = [count EXCEPT ![p] = IF @ > 0 THEN @ - 1 ELSE 0]
       /\ resident' = IF count[p] = 1 THEN resident \ {p} ELSE resident
    /\ UNCHANGED <<live, registry, dispatch>>

\* A clone drops.  The last one is BackendConnectionGuard::drop: decrement and
\* at-zero eviction in one remove_if, under the lock admission takes.
DropGuard(s) ==
    /\ clones[s] > 0
    /\ clones' = [clones EXCEPT ![s] = @ - 1]
    /\ IF clones[s] > 1
         THEN UNCHANGED <<count, resident, holds>>
         ELSE LET p == holds[s] IN
              /\ holds' = [holds EXCEPT ![s] = 0]
              /\ count' = [count EXCEPT ![p] = @ - 1]
              /\ resident' = IF count[p] = 1 THEN resident \ {p} ELSE resident
    /\ UNCHANGED <<live, registry, dispatch>>

Dispatch(t) ==
    \/ Pin(t) \/ SendUncapped(t) \/ LeaseLookup(t) \/ LeaseInsert(t) \/ Resolve(t)
    \/ Admit(t) \/ AdmitPooled(t) \/ AcquireHit(t) \/ AcquireCold(t)

Next ==
    \/ Reload
    \/ \E t \in Tasks : Dispatch(t)
    \/ \E s \in Sockets : CloneGuard(s) \/ DropGuard(s)

SafeSpec == Init /\ [][Next]_vars

\* lease_lane and admit are synchronous.  A read timeout bounds the whole of
\* send(), so that it resolves even when it causes further dials first; a route
\* that disabled the timeout may wait for its response for ever.
Fairness ==
    /\ \A t \in Tasks :
         WF_vars(SendUncapped(t) \/ LeaseLookup(t) \/ LeaseInsert(t) \/ AcquireHit(t)
                   \/ AcquireCold(t))
    /\ \A t \in Bounded : SF_vars(Resolve(t))

Spec == SafeSpec /\ Fairness

-----------------------------------------------------------------------------
(* Properties.                                                             *)

Holding(p) == {s \in Sockets : holds[s] = p}

Leaseholders == {t \in Tasks : leased[t]}

\* Every port's counter equals the number of sockets whose guard is still held,
\* and a counter is in the map exactly while it is not zero: whatever an
\* acquirer saw between its two sections, no release is lost, no slot is
\* counted on an evicted counter, and no idle counter is left behind.
CountsAreExact ==
    /\ \A p \in Ports : count[p] = Cardinality(Holding(p))
    /\ resident = {p \in Ports : count[p] > 0}

\* The sockets open on a policy port never outnumber the largest cap any
\* generation published for it, however many dispatches raced for the last
\* slot and whichever retired lanes they still carried.
CapHeld ==
    \A p \in Ports : Holding(p) # {} =>
        \E l \in AllPublished : l.port = p /\ Cardinality(Holding(p)) <= l.cap

\* A lane is registered exactly while a capped dispatch holds a lease of it, so
\* a capped dispatch's own dial is never unlimited and a removed cap leaves no
\* registration behind.
LaneWhileLeased == leases = Cardinality(Leaseholders)

\* The registered lane comes from a generation at least as new as that of any
\* dispatch in flight, and is at least as strict as the lane of every dispatch
\* in flight of that generation: the order in which they leased, retried and
\* finished does not matter, and a retired configuration never weakens it.
StrictestLaneGoverns ==
    \A t \in Leaseholders :
        /\ gen[t] <= laneGen
        /\ gen[t] = laneGen => ~Stricter(cap[t], lane)

\* A retired generation's lane is dropped or replaced in the end, though
\* requests pinned to it may lease it again after the reload: only a dispatch
\* without a read timeout can keep it registered.
RetiredLaneDrains ==
    (leases > 0 /\ laneGen < live)
      ~> (leases = 0 \/ laneGen = live \/ Leaseholders \ Bounded # {})

=============================================================================
