---------------------------- MODULE GatewayTrust ----------------------------
(***************************************************************************)
(* Publication and withdrawal of the SPIFFE roots that gateway-to-mesh     *)
(* peers are verified against: the publishers of src/src/proxy/mod.rs,     *)
(* the trust admission of the request epoch (src/src/request_epoch.rs),    *)
(* the transport registry (src/src/proxy/mesh_trust_registry.rs) and the   *)
(* HBONE pool's dial, pool and CONNECT paths (src/src/proxy/               *)
(* hbone_pool.rs).                                                         *)
(*                                                                         *)
(* A trust bundle is the set of its root authorities.  An SVID bundle is   *)
(* represented by its trust bundle: leaf and key play no part here.  Each  *)
(* action writes at most one location that another thread reads without    *)
(* the publication mutex.                                                  *)
(***************************************************************************)
EXTENDS Integers, FiniteSets

CONSTANTS
  Roots,          \* root authorities
  Offered,        \* the trust bundles publishers may deliver
  Conns,          \* identities of established transports
  Tasks,          \* requests in flight
  NoBundle,       \* an absent bundle (Option::None)
  NoRoot,         \* no root: not verified yet, or closed
  NoConn,         \* a request that holds no transport
  MaxGeneration   \* bound on the withdrawals explored

ASSUME GenerationAssumption == MaxGeneration \in Nat \ {0}
ASSUME OfferedAssumption == Offered \subseteq SUBSET Roots
ASSUME DistinctAssumption ==
  /\ \A bundle \in SUBSET Roots : bundle # NoBundle
  /\ NoRoot \notin Roots
  /\ NoConn \notin Conns

VARIABLES
  override,   \* gateway_trust_bundles: roots delivered by the control plane
  file,       \* gateway_file_svid_bundle: the SVID loaded from its source
  slot,       \* gateway_svid_bundle: the SVID the live verifier reads
  live,       \* GatewayTrustEpoch.live of the published request epoch
  svid,       \* GatewayTrustEpoch.svid of the published request epoch
  accepted,   \* MeshTrustRegistry.accepted_generation
  retiredThrough, \* MeshTrustRegistry.retired_through
  registry,   \* MeshTrustRegistry.transports
  pub,        \* the holder of gateway_trust_publication_lock
  open,       \* transports whose connection driver is running
  croot,      \* the root that authenticated a transport
  cgen,       \* the generation a transport is registered under
  retired,    \* MeshTransportGate.retired
  swept,      \* the transport that is retired and not notified yet
  dpc,        \* where a transport's driver is in its select
  permit,     \* the permit or wake-up stored in MeshTransportGate.driver_cancel
  pool,       \* the entries of the HBONE pool
  tpc,        \* where a request is
  ticket,     \* MeshAdmissionTicket.generation of its dial
  troot,      \* the root its handshake verified the peer against
  fresh,      \* no store to the SVID slot since svid_slot_before_dial
  tconn       \* the transport it holds

trustVars == <<override, file, slot>>
epochVars == <<live, svid>>
registryVars == <<accepted, retiredThrough, registry>>
connVars == <<open, croot, cgen, retired>>
driverVars == <<swept, dpc, permit>>
taskVars == <<tpc, ticket, troot, fresh, tconn>>
vars == <<trustVars, epochVars, registryVars, pub, connVars,
          driverVars, pool, taskVars>>

Bundles == SUBSET Roots
Slots == {NoBundle} \cup Bundles

RootsOf(bundle) == IF bundle = NoBundle THEN {} ELSE bundle

PubPcs == {"idle", "install", "advance", "sweep", "clear", "publish"}
Holding == {"pooling", "insert", "holding", "ready", "checked",
            "queued", "wire"}
DriverPcs == {"off", "check", "waiting", "serve"}
TaskPcs == {"idle", "lookup", "dial", "ticketed", "verified"} \cup Holding

Idle == [pc |-> "idle", rotate |-> FALSE, bundle |-> NoBundle,
         before |-> {}, withdraw |-> FALSE]

Init ==
  /\ override = NoBundle
  /\ file \in {NoBundle} \cup Offered
  /\ slot = file
  /\ live = TRUE
  /\ svid = slot
  /\ accepted = 1
  /\ retiredThrough = 0
  /\ registry = {}
  /\ pub = Idle
  /\ open = {}
  /\ croot = [c \in Conns |-> NoRoot]
  /\ cgen = [c \in Conns |-> 0]
  /\ retired = [c \in Conns |-> FALSE]
  /\ swept = NoConn
  /\ dpc = [c \in Conns |-> "off"]
  /\ permit = [c \in Conns |-> FALSE]
  /\ pool = {}
  /\ tpc = [t \in Tasks |-> "idle"]
  /\ ticket = [t \in Tasks |-> 0]
  /\ troot = [t \in Tasks |-> NoRoot]
  /\ fresh = [t \in Tasks |-> FALSE]
  /\ tconn = [t \in Tasks |-> NoConn]

-----------------------------------------------------------------------------
(***************************************************************************)
(* The publishers.  One at a time holds gateway_trust_publication_lock.    *)
(***************************************************************************)

\* effective_gateway_trust_bundles
EffectiveRoots == IF slot # NoBundle THEN slot ELSE RootsOf(override)

\* trust_withdrawal_reason: some authority accepted before is missing after.
Withdraws(after) == ~(EffectiveRoots \subseteq after)

\* What the live SVID slot becomes: a Replace overwrites the roots of an
\* installed SVID, a Clear restores the source SVID, a source rotation keeps
\* an override's roots.
NextSlot(rotate, bundle) ==
  IF rotate
  THEN IF override = NoBundle THEN bundle ELSE override
  ELSE IF bundle = NoBundle THEN file
  ELSE IF slot = NoBundle THEN NoBundle ELSE bundle

\* What a decision is compared with to classify it as a withdrawal.
NextRoots(rotate, bundle) ==
  IF rotate \/ bundle = NoBundle THEN RootsOf(NextSlot(rotate, bundle))
  ELSE bundle

\* Mutant: a withdrawing rotation does not fence.
BeginNoFence(rotate, bundle, fence, first) ==
  LET withdraw == first = "install" /\ Withdraws(NextRoots(rotate, bundle))
  IN  /\ pub.pc = "idle"
      /\ withdraw => accepted < MaxGeneration
      /\ pub' = [pc |-> first, rotate |-> rotate, bundle |-> bundle,
                 before |-> EffectiveRoots, withdraw |-> withdraw]
      /\ live' = IF fence THEN FALSE ELSE live
      /\ UNCHANGED <<trustVars, svid, registryVars, connVars,
                     driverVars, pool, taskVars>>

\* Take the mutex, classify the decision before any material is stored, and
\* close admission unless the decision may leave it open.
Begin(rotate, bundle, fence, first) ==
  LET withdraw == first = "install" /\ Withdraws(NextRoots(rotate, bundle))
  IN  /\ pub.pc = "idle"
      /\ withdraw => accepted < MaxGeneration
      /\ pub' = [pc |-> first, rotate |-> rotate, bundle |-> bundle,
                 before |-> EffectiveRoots, withdraw |-> withdraw]
      /\ live' = IF fence \/ withdraw THEN FALSE ELSE live
      /\ UNCHANGED <<trustVars, svid, registryVars, connVars,
                     driverVars, pool, taskVars>>

\* A configuration publication or a trust-only commit.  NoBundle is Clear,
\* anything else Replace; a decision equal to the installed override is
\* Unchanged and only republishes.
CommitTrust(bundle) ==
  LET unchanged == bundle = override
  IN  Begin(FALSE, bundle, ~unchanged, IF unchanged THEN "publish" ELSE "install")

\* install_gateway_runtime_svid_bundle: fences only when it withdraws a root.
RotateSvid(bundle) == Begin(TRUE, bundle, FALSE, "install")

\* store_gateway_trust_material, or the two stores of a source rotation.
InstallMaterial ==
  /\ pub.pc = "install"
  /\ slot' = NextSlot(pub.rotate, pub.bundle)
  /\ IF pub.rotate
     THEN file' = pub.bundle /\ UNCHANGED override
     ELSE override' = pub.bundle /\ UNCHANGED file
  /\ fresh' = [t \in Tasks |-> FALSE]
  /\ pub' = [pub EXCEPT !.pc = IF pub.withdraw THEN "advance" ELSE "publish",
                        !.rotate = FALSE,
                        !.bundle = NoBundle]
  /\ UNCHANGED <<epochVars, registryVars, connVars,
                 driverVars, pool, tpc, ticket, troot, tconn>>

\* retire_for_trust_withdrawal takes the registry's write fence and moves the
\* generations on; a ticket may be taken as soon as they are stored.
AdvanceGeneration ==
  /\ pub.pc = "advance"
  /\ accepted' = accepted + 1
  /\ retiredThrough' = accepted
  /\ pub' = [pub EXCEPT !.pc = "sweep"]
  /\ UNCHANGED <<trustVars, epochVars, registry, connVars,
                 driverVars, pool, taskVars>>

\* The sweep of the registered transports, one gate at a time: retire() swaps
\* the flag ...
SweepTransport(c) ==
  /\ pub.pc = "sweep"
  /\ swept = NoConn
  /\ c \in registry
  /\ cgen[c] <= retiredThrough
  /\ retired' = [retired EXCEPT ![c] = TRUE]
  /\ registry' = registry \ {c}
  /\ swept' = c
  /\ UNCHANGED <<trustVars, epochVars, accepted, retiredThrough, pub, open,
                 croot, cgen, dpc, permit, pool, taskVars>>

\* Mutant: the notification is lost unless the driver is parked on it
\* (notify_waiters for notify_one).
NotifyDriverIfParked(c) ==
  /\ swept = c
  /\ swept' = NoConn
  /\ permit' = [permit EXCEPT ![c] = dpc[c] = "waiting"]
  /\ UNCHANGED <<trustVars, epochVars, registryVars, pub, connVars, dpc, pool,
                 taskVars>>

\* ... and notify_one wakes the driver, or stores a permit for its next poll.
\* The gate of a driver that is gone is read by nobody.
NotifyDriver(c) ==
  /\ swept = c
  /\ swept' = NoConn
  /\ permit' = [permit EXCEPT ![c] = c \in open]
  /\ UNCHANGED <<trustVars, epochVars, registryVars, pub, connVars, dpc, pool,
                 taskVars>>

EndSweep ==
  /\ pub.pc = "sweep"
  /\ swept = NoConn
  /\ \A c \in registry : cgen[c] > retiredThrough
  /\ pub' = [pub EXCEPT !.pc = "clear"]
  /\ UNCHANGED <<trustVars, epochVars, registryVars, connVars,
                 driverVars, pool,
                 taskVars>>

\* retire_backend_transports_for_committed_trust empties the HBONE pool.
ClearPool ==
  /\ pub.pc = "clear"
  /\ pool' = {}
  /\ pub' = [pub EXCEPT !.pc = "publish"]
  /\ UNCHANGED <<trustVars, epochVars, registryVars, connVars,
                 driverVars, taskVars>>

\* Mutant: publishing skips an epoch whose SVID pointer is unchanged.
PublishLiveSamePointer ==
  /\ pub.pc = "publish"
  /\ live' = IF svid = slot THEN live ELSE TRUE
  /\ svid' = slot
  /\ pub' = Idle
  /\ UNCHANGED <<trustVars, registryVars, connVars,
                 driverVars, pool, taskVars>>

\* publish_live_gateway_trust, and the end of the critical section.
PublishLive ==
  /\ pub.pc = "publish"
  /\ live' = TRUE
  /\ svid' = slot
  /\ pub' = Idle
  /\ UNCHANGED <<trustVars, registryVars, connVars,
                 driverVars, pool, taskVars>>

-----------------------------------------------------------------------------
(***************************************************************************)
(* A request: admission, pool lookup, dial, registration, pooling, CONNECT.*)
(***************************************************************************)

Usable(c) == c \in open /\ ~retired[c]

Goto(t, pc) == tpc' = [tpc EXCEPT ![t] = pc]

\* Fields a request no longer reads are reset, so that equal states are equal.
Leave(t) ==
  /\ Goto(t, "idle")
  /\ tconn' = [tconn EXCEPT ![t] = NoConn]
  /\ fresh' = [fresh EXCEPT ![t] = FALSE]
  /\ ticket' = [ticket EXCEPT ![t] = 0]
  /\ troot' = [troot EXCEPT ![t] = NoRoot]

\* admits_gateway_mesh_identity
Admit(t) ==
  /\ tpc[t] = "idle"
  /\ live
  /\ svid # NoBundle
  /\ Goto(t, "lookup")
  /\ UNCHANGED <<trustVars, epochVars, registryVars, pub, connVars,
                 driverVars, pool,
                 ticket, troot, fresh, tconn>>

\* try_cached_sender_read and the ready arm of cached_sender.
Checkout(t, c) ==
  /\ tpc[t] = "lookup"
  /\ c \in pool
  /\ Usable(c)
  /\ Goto(t, "holding")
  /\ tconn' = [tconn EXCEPT ![t] = c]
  /\ UNCHANGED <<trustVars, epochVars, registryVars, pub, connVars,
                 driverVars, pool,
                 ticket, troot, fresh>>

\* No ready sender: unusable entries are dropped, the slot is snapshotted.
StartDial(t) ==
  /\ tpc[t] = "lookup"
  /\ pool' = {c \in pool : Usable(c)}
  /\ Goto(t, "dial")
  /\ fresh' = [fresh EXCEPT ![t] = TRUE]
  /\ UNCHANGED <<trustVars, epochVars, registryVars, pub, connVars, driverVars,
                 ticket, troot, tconn>>

TakeTicket(t) ==
  /\ tpc[t] = "dial"
  /\ Goto(t, "ticketed")
  /\ ticket' = [ticket EXCEPT ![t] = accepted]
  /\ UNCHANGED <<trustVars, epochVars, registryVars, pub, connVars,
                 driverVars, pool,
                 troot, fresh, tconn>>

\* The TLS handshake verifies the peer against the slot's current roots.
Handshake(t) ==
  /\ tpc[t] = "ticketed"
  /\ \E r \in RootsOf(slot) : troot' = [troot EXCEPT ![t] = r]
  /\ Goto(t, "verified")
  /\ UNCHANGED <<trustVars, epochVars, registryVars, pub, connVars,
                 driverVars, pool,
                 ticket, fresh, tconn>>

\* DNS, TCP, TLS or HTTP/2 failure, a timeout, or a cancelled request.
DialFails(t) ==
  /\ tpc[t] \in {"dial", "ticketed", "verified"}
  /\ Leave(t)
  /\ UNCHANGED <<trustVars, epochVars, registryVars, pub, connVars,
                 driverVars, pool>>

Admissible(t) == ticket[t] = accepted /\ ticket[t] > retiredThrough

\* A transport identity that nothing refers to any more.
Unreferenced(c) ==
  /\ c \notin open
  /\ c \notin pool
  /\ \A t \in Tasks : tconn[t] # c

\* MeshTrustRegistry::register under the read fence; the driver is spawned and
\* will first look at the gate's flag.
Register(t, c) ==
  /\ tpc[t] = "verified"
  /\ pub.pc # "sweep"
  /\ Admissible(t)
  /\ Unreferenced(c)
  /\ registry' = registry \cup {c}
  /\ open' = open \cup {c}
  /\ croot' = [croot EXCEPT ![c] = troot[t]]
  /\ cgen' = [cgen EXCEPT ![c] = ticket[t]]
  /\ retired' = [retired EXCEPT ![c] = FALSE]
  /\ dpc' = [dpc EXCEPT ![c] = "check"]
  /\ tconn' = [tconn EXCEPT ![t] = c]
  /\ ticket' = [ticket EXCEPT ![t] = 0]
  /\ troot' = [troot EXCEPT ![t] = NoRoot]
  /\ Goto(t, "pooling")
  /\ UNCHANGED <<trustVars, epochVars, accepted, retiredThrough, pub, swept,
                 permit, pool, fresh>>

RegisterRefused(t) ==
  /\ tpc[t] = "verified"
  /\ pub.pc # "sweep"
  /\ ~Admissible(t)
  /\ Leave(t)
  /\ UNCHANGED <<trustVars, epochVars, registryVars, pub, connVars,
                 driverVars, pool>>

\* After the dial: a retired transport is refused, one whose SVID slot moved
\* is served without pooling.
AfterDial(t) ==
  /\ tpc[t] = "pooling"
  /\ IF retired[tconn[t]]
     THEN Leave(t)
     ELSE /\ Goto(t, IF fresh[t] THEN "insert" ELSE "holding")
          /\ fresh' = [fresh EXCEPT ![t] = FALSE]
          /\ UNCHANGED <<ticket, troot, tconn>>
  /\ UNCHANGED <<trustVars, epochVars, registryVars, pub, connVars,
                 driverVars, pool>>

InsertEntry(t) ==
  /\ tpc[t] = "insert"
  /\ pool' = pool \cup {tconn[t]}
  /\ Goto(t, "holding")
  /\ UNCHANGED <<trustVars, epochVars, registryVars, pub, connVars, driverVars,
                 ticket, troot, fresh, tconn>>

\* open_h2_connect_stream checks the gate, waits for readiness (the sender
\* fails when the connection is closed) and checks it again.
OpenStream(t) ==
  /\ tpc[t] = "holding"
  /\ IF retired[tconn[t]]
     THEN Leave(t)
     ELSE Goto(t, "ready") /\ UNCHANGED <<ticket, troot, fresh, tconn>>
  /\ UNCHANGED <<trustVars, epochVars, registryVars, pub, connVars,
                 driverVars, pool>>

CheckAgain(t) ==
  /\ tpc[t] = "ready"
  /\ IF Usable(tconn[t])
     THEN Goto(t, "checked") /\ UNCHANGED <<ticket, troot, fresh, tconn>>
     ELSE Leave(t)
  /\ UNCHANGED <<trustVars, epochVars, registryVars, pub, connVars, driverVars,
                 pool>>

\* send_request queues the CONNECT for the driver; a retirement since the
\* second check goes unseen.
SendRequest(t) ==
  /\ tpc[t] = "checked"
  /\ IF tconn[t] \in open
     THEN Goto(t, "queued") /\ UNCHANGED <<ticket, troot, fresh, tconn>>
     ELSE Leave(t)
  /\ UNCHANGED <<trustVars, epochVars, registryVars, pub, connVars, driverVars,
                 pool>>

\* The tunnel ends, or its connection was closed under it.
FinishStream(t) ==
  /\ \/ tpc[t] = "wire"
     \/ tpc[t] = "queued" /\ tconn[t] \notin open
  /\ Leave(t)
  /\ UNCHANGED <<trustVars, epochVars, registryVars, pub, connVars,
                 driverVars, pool>>

-----------------------------------------------------------------------------
(***************************************************************************)
(* The connection driver, and the pool's own evictions.                    *)
(***************************************************************************)

CloseTransport(c) ==
  /\ open' = open \ {c}
  /\ registry' = registry \ {c}
  /\ croot' = [croot EXCEPT ![c] = NoRoot]
  /\ cgen' = [cgen EXCEPT ![c] = 0]
  /\ dpc' = [dpc EXCEPT ![c] = "off"]
  /\ permit' = [permit EXCEPT ![c] = FALSE]
  /\ UNCHANGED <<trustVars, epochVars, accepted, retiredThrough, pub,
                 retired, swept, pool, taskVars>>

\* cancelled() reads the flag and makes a future of the notification.  It
\* reads the flag twice; the flag is only ever set, so the second read decides.
DriverChecks(c) ==
  /\ dpc[c] = "check"
  /\ IF retired[c]
     THEN CloseTransport(c)
     ELSE /\ dpc' = [dpc EXCEPT ![c] = "waiting"]
          /\ UNCHANGED <<trustVars, epochVars, registryVars, pub, connVars,
                         swept, permit, pool, taskVars>>

\* Mutant: the select polls the connection before the notification.
DriverPollsUnbiased(c) ==
  /\ dpc[c] = "waiting"
  /\ \/ /\ permit[c]
        /\ permit' = [permit EXCEPT ![c] = FALSE]
        /\ dpc' = [dpc EXCEPT ![c] = "check"]
     \/ /\ dpc' = [dpc EXCEPT ![c] = "serve"]
        /\ UNCHANGED permit
  /\ UNCHANGED <<trustVars, epochVars, registryVars, pub, connVars, swept, pool,
                 taskVars>>

\* A poll of the driver's biased select looks for the notification first; it
\* consumes it and reads the flag again, or goes on to the connection.  The
\* peer's frames wake the driver as well as a notification and a queued CONNECT.
DriverPolls(c) ==
  /\ dpc[c] = "waiting"
  /\ IF permit[c]
     THEN /\ permit' = [permit EXCEPT ![c] = FALSE]
          /\ dpc' = [dpc EXCEPT ![c] = "check"]
     ELSE /\ dpc' = [dpc EXCEPT ![c] = "serve"]
          /\ UNCHANGED permit
  /\ UNCHANGED <<trustVars, epochVars, registryVars, pub, connVars, swept, pool,
                 taskVars>>

Queued(c) == {t \in Tasks : tpc[t] = "queued" /\ tconn[t] = c}

\* The rest of the poll writes what is queued, whatever happened to the gate
\* since the notification was looked for.
DriverServes(c) ==
  /\ dpc[c] = "serve"
  /\ tpc' = [t \in Tasks |-> IF t \in Queued(c) THEN "wire" ELSE tpc[t]]
  /\ dpc' = [dpc EXCEPT ![c] = "waiting"]
  /\ UNCHANGED <<trustVars, epochVars, registryVars, pub, connVars, swept,
                 permit, pool, ticket, troot, fresh, tconn>>

\* The connection ends by itself or its keepalive fails.
ConnectionEnds(c) ==
  /\ dpc[c] = "serve"
  /\ CloseTransport(c)

\* Idle pruning and overflow of a pool entry.
EvictEntry(c) ==
  /\ c \in pool
  /\ pool' = pool \ {c}
  /\ UNCHANGED <<trustVars, epochVars, registryVars, pub, connVars,
                 driverVars, taskVars>>

-----------------------------------------------------------------------------

Publisher ==
  \/ InstallMaterial
  \/ AdvanceGeneration
  \/ \E c \in Conns : SweepTransport(c) \/ NotifyDriver(c)
  \/ EndSweep
  \/ ClearPool
  \/ PublishLive

Request(t) ==
  \/ Admit(t)
  \/ \E c \in Conns : Checkout(t, c) \/ Register(t, c)
  \/ StartDial(t)
  \/ TakeTicket(t)
  \/ Handshake(t)
  \/ DialFails(t)
  \/ RegisterRefused(t)
  \/ AfterDial(t)
  \/ InsertEntry(t)
  \/ OpenStream(t)
  \/ CheckAgain(t)
  \/ SendRequest(t)
  \/ FinishStream(t)

Transport(c) ==
  \/ DriverChecks(c)
  \/ DriverPolls(c)
  \/ DriverServes(c)
  \/ ConnectionEnds(c)
  \/ EvictEntry(c)

Next ==
  \/ \E bundle \in {NoBundle} \cup Offered : CommitTrust(bundle)
  \/ \E bundle \in Offered : RotateSvid(bundle)
  \/ Publisher
  \/ \E t \in Tasks : Request(t)
  \/ \E c \in Conns : Transport(c)

SafeSpec == Init /\ [][Next]_vars

\* What wakes a parked driver, its peer apart.
Woken(c) == permit[c] \/ Queued(c) # {}

\* The critical section is straight-line code; a driver's poll runs to its end,
\* and a driver that was woken is polled.
Fairness ==
  /\ WF_vars(Publisher)
  /\ \A c \in Conns :
       WF_vars(\/ DriverChecks(c)
               \/ DriverServes(c)
               \/ Woken(c) /\ DriverPolls(c))

Spec == SafeSpec /\ Fairness

-----------------------------------------------------------------------------
(***************************************************************************)
(* Properties.                                                             *)
(***************************************************************************)

\* Every variable keeps its type, and a request past its dial or checkout
\* holds a transport until it leaves.
TypeOK ==
  /\ override \in Slots
  /\ file \in Slots
  /\ slot \in Slots
  /\ live \in BOOLEAN
  /\ svid \in Slots
  /\ accepted \in Nat
  /\ retiredThrough \in Nat
  /\ registry \subseteq Conns
  /\ pub \in [pc : PubPcs, rotate : BOOLEAN, bundle : Slots,
              before : Bundles, withdraw : BOOLEAN]
  /\ open \subseteq Conns
  /\ croot \in [Conns -> Roots \cup {NoRoot}]
  /\ cgen \in [Conns -> Nat]
  /\ retired \in [Conns -> BOOLEAN]
  /\ swept \in Conns \cup {NoConn}
  /\ dpc \in [Conns -> DriverPcs]
  /\ permit \in [Conns -> BOOLEAN]
  /\ pool \subseteq Conns
  /\ tpc \in [Tasks -> TaskPcs]
  /\ ticket \in [Tasks -> Nat]
  /\ troot \in [Tasks -> Roots \cup {NoRoot}]
  /\ fresh \in [Tasks -> BOOLEAN]
  /\ tconn \in [Tasks -> Conns \cup {NoConn}]
  /\ \A t \in Tasks : tpc[t] \in Holding => tconn[t] \in Conns

\* While admission is open no usable transport was authenticated by a root
\* the live verifier no longer trusts: a dial that straddles a withdrawal is
\* refused at registration, one that finished before it is swept.
NoWithdrawnTransportWhenLive ==
  live => \A c \in Conns : Usable(c) => croot[c] \in RootsOf(slot)

\* Outside the critical section the epoch is live and carries exactly the
\* SVID the verifier reads: no publication leaves a fence standing or an
\* epoch that names replaced material.
AdmissionMatchesVerifier ==
  pub.pc = "idle" => live /\ svid = slot

\* Every usable transport is in the registry under the accepted generation,
\* so the next withdrawal's sweep reaches it; during a sweep it is still
\* registered under the generation that is being retired.
SweepReachesEveryTransport ==
  \A c \in Conns : Usable(c) =>
    /\ c \in registry
    /\ cgen[c] = IF pub.pc = "sweep" THEN retiredThrough ELSE accepted

\* The roots usable transports may rest on: those of the slot and, from the
\* store of the new material to the end of the sweep, the ones they replace.
Trusted ==
  RootsOf(slot) \cup
  (IF pub.withdraw /\ pub.pc \in {"advance", "sweep"} THEN pub.before ELSE {})

\* A poll of a driver goes on to its connection only when the transport's root
\* is trusted, or is being withdrawn by a sweep that has not notified the driver
\* yet.  A CONNECT request, however early it checked the gate, can therefore be
\* written on a transport of withdrawn trust only by the one poll that was
\* already under way when its driver was notified, and not by any later one.
NoStreamOnWithdrawnTrust ==
  [][\A c \in Conns :
       dpc[c] # "serve" /\ dpc'[c] = "serve" => croot[c] \in Trusted]_vars

\* The root each usable transport rests on.
Peer == [c \in Conns |-> IF Usable(c) THEN croot[c] ELSE NoRoot]

Gate == INSTANCE TrustGate WITH
  admitting <- live,
  trusted <- Trusted,
  peer <- Peer

\* The protocol of slots, tickets, sweep and pool implements the abstract
\* trust gate: roots are withdrawn only while admission is closed and only
\* when no usable transport rests on them.
ImplementsTrustGate == Gate!Spec

\* A fence is always lifted: gateway-to-mesh admission never stays closed
\* after a publication.
FenceLifts == ~live ~> live

\* A retired transport is closed, with no traffic to wake its driver: the one
\* notification is not lost, whether the driver was parked, was serving the
\* connection or had not been polled yet when it came.
RetiredTransportsClose ==
  \A c \in Conns : (c \in open /\ retired[c]) ~> (c \notin open)
=============================================================================
