-------------------------- MODULE GatewayTrustProofs --------------------------
(***************************************************************************)
(* The withdrawal protocol of GatewayTrust is safe for any number of       *)
(* roots, transports and requests, and implements TrustGate.  The          *)
(* inductive invariant follows a root from the handshake that verified it  *)
(* (TaskInv) through registration (ConnInv) to the sweep, with what the    *)
(* holder of the publication mutex knows about the slots (PubInv).         *)
(***************************************************************************)
EXTENDS GatewayTrust, TLAPS

\* The mutex holder's classification still describes the slots when the
\* material is installed, and a withdrawal is fenced to its end.
PubInv ==
  /\ pub.pc = "install" =>
       /\ pub.before = EffectiveRoots
       /\ pub.withdraw = Withdraws(NextRoots(pub.rotate, pub.bundle))
       /\ pub.rotate => pub.bundle # NoBundle
  /\ pub.pc \in {"advance", "sweep", "clear"} => pub.withdraw
  /\ pub.pc # "idle" /\ pub.withdraw => ~live
  /\ AdmissionMatchesVerifier

\* Tickets never run ahead of the accepted generation.
GenInv ==
  /\ accepted = retiredThrough + 1
  /\ \A t \in Tasks : ticket[t] <= accepted

\* The roots a transport may be registered with under the current ticket.
Verifiable ==
  RootsOf(slot) \cup (IF pub.pc = "advance" THEN pub.before ELSE {})

\* A dial whose ticket is still current verified a root that is acceptable.
TaskInv ==
  \A t \in Tasks :
    tpc[t] = "verified" /\ ticket[t] = accepted => troot[t] \in Verifiable

\* Every usable transport is within reach of the sweep and rests on a root
\* that is trusted or about to be swept.
ConnInv ==
  /\ SweepReachesEveryTransport
  /\ \A c \in Conns : Usable(c) => croot[c] \in Trusted

IInv == TypeOK /\ PubInv /\ GenInv /\ TaskInv /\ ConnInv

\* The driver of every open transport knows of its retirement or will look at
\* the flag again before it serves its connection, but for the one transport
\* whose gate was just swapped; that one is still within the sweep.
NotifyInv ==
  /\ \A c \in Conns : c \in open <=> dpc[c] # "off"
  /\ \A c \in registry : c \in open /\ ~retired[c]
  /\ swept # NoConn => pub.pc = "sweep"
  /\ swept \in open => croot[swept] \in Trusted
  /\ \A c \in open : retired[c] /\ swept # c => permit[c] \/ dpc[c] = "check"

TrustInv == IInv /\ NotifyInv

-----------------------------------------------------------------------------
\* The roots of a bundle slot are roots.
LEMMA RootsOfType ==
  ASSUME NEW b \in Slots
  PROVE  RootsOf(b) \in SUBSET Roots
BY DistinctAssumption DEF RootsOf, Slots, Bundles

\* The slot a decision installs is a bundle slot.
LEMMA NextSlotType ==
  ASSUME TypeOK, NEW r \in BOOLEAN, NEW b \in Slots
  PROVE  /\ NextSlot(r, b) \in Slots
         /\ EffectiveRoots \in SUBSET Roots
<1>1. NextSlot(r, b) \in Slots
  BY DEF TypeOK, NextSlot, Slots
<1>2. EffectiveRoots \in SUBSET Roots
  BY RootsOfType DEF TypeOK, EffectiveRoots, Slots, Bundles
<1> QED BY <1>1, <1>2

\* Requests leave slots, epoch, generations and the mutex alone.
LEMMA RequestFrame ==
  ASSUME NEW t \in Tasks, Request(t)
  PROVE  UNCHANGED <<trustVars, epochVars, accepted, retiredThrough, pub>>
BY DEF Request, Admit, Checkout, Register, StartDial, TakeTicket, Handshake,
       DialFails, RegisterRefused, AfterDial, InsertEntry, OpenStream,
       CheckAgain, SendRequest, FinishStream, registryVars

\* So do the connection drivers and the pool.
LEMMA TransportFrame ==
  ASSUME NEW c \in Conns, Transport(c)
  PROVE  UNCHANGED <<trustVars, epochVars, accepted, retiredThrough, pub>>
BY DEF Transport, DriverChecks, DriverPolls, DriverServes, ConnectionEnds,
       EvictEntry, CloseTransport, registryVars

\* Requests and drivers leave the trusted roots and the admission alone.
LEMMA TrustedFrame ==
  ASSUME UNCHANGED <<trustVars, epochVars, accepted, retiredThrough, pub>>
  PROVE  UNCHANGED <<live, Trusted>>
BY DEF Trusted, RootsOf, trustVars, epochVars

-----------------------------------------------------------------------------
\* Every step of a publisher keeps the types.
LEMMA PublisherType ==
  ASSUME TypeOK, Publisher
  PROVE  TypeOK'
<1>1. CASE InstallMaterial
  <2>1. NextSlot(pub.rotate, pub.bundle) \in Slots
    BY NextSlotType DEF TypeOK
  <2>2. pub' \in [pc : PubPcs, rotate : BOOLEAN, bundle : Slots,
                  before : Bundles, withdraw : BOOLEAN]
    BY <1>1 DEF TypeOK, InstallMaterial, PubPcs, Slots
  <2> QED
    BY <1>1, <2>1, <2>2 DEF TypeOK, InstallMaterial, epochVars, registryVars,
       connVars, driverVars
<1>2. CASE AdvanceGeneration
  BY <1>2 DEF TypeOK, AdvanceGeneration, trustVars, epochVars, connVars,
       driverVars,
     taskVars, PubPcs
<1>3. CASE \E c \in Conns : SweepTransport(c)
  BY <1>3 DEF TypeOK, SweepTransport, trustVars, epochVars, taskVars
<1>7. CASE \E c \in Conns : NotifyDriver(c)
  BY <1>7 DEF TypeOK, NotifyDriver, trustVars, epochVars, registryVars,
       connVars,
     taskVars
<1>4. CASE EndSweep
  BY <1>4 DEF TypeOK, EndSweep, trustVars, epochVars, registryVars, connVars,
       driverVars,
     taskVars, PubPcs
<1>5. CASE ClearPool
  BY <1>5 DEF TypeOK, ClearPool, trustVars, epochVars, registryVars, connVars,
       driverVars,
     taskVars, PubPcs
<1>6. CASE PublishLive
  BY <1>6 DEF TypeOK, PublishLive, Idle, trustVars, registryVars, connVars,
       driverVars,
     taskVars, PubPcs, Slots, Bundles
<1> QED BY <1>1, <1>2, <1>3, <1>4, <1>5, <1>6, <1>7 DEF Publisher

\* So does taking the publication mutex.
LEMMA BeginType ==
  ASSUME TypeOK, NEW r \in BOOLEAN, NEW b \in Slots, NEW f \in BOOLEAN,
         NEW first \in {"install", "publish"}, Begin(r, b, f, first)
  PROVE  TypeOK'
<1>1. EffectiveRoots \in Bundles
  BY NextSlotType DEF Bundles
<1>2. Withdraws(NextRoots(r, b)) \in BOOLEAN
  BY DEF Withdraws
<1>3. pub' \in [pc : PubPcs, rotate : BOOLEAN, bundle : Slots,
                before : Bundles, withdraw : BOOLEAN]
  BY <1>1, <1>2 DEF Begin, PubPcs
<1> QED
  BY <1>3 DEF TypeOK, Begin, trustVars, registryVars, connVars, driverVars,
       taskVars

\* A request that leaves keeps the types.
LEMMA LeaveType ==
  ASSUME TypeOK, NEW t \in Tasks, Leave(t),
         UNCHANGED <<trustVars, epochVars, registryVars, pub, connVars,
                     driverVars, pool>>
  PROVE  TypeOK'
BY DEF TypeOK, trustVars, epochVars, registryVars, connVars, driverVars, Goto,
     Leave,
       TaskPcs, Holding

\* Every step of a request keeps the types.
LEMMA RequestType ==
  ASSUME TypeOK, NEW t \in Tasks, Request(t)
  PROVE  TypeOK'
<1> USE DEF TypeOK, trustVars, epochVars, registryVars, connVars, driverVars,
     Goto,
            TaskPcs, Holding, DriverPcs
<1>1. CASE Admit(t)  BY <1>1 DEF Admit
<1>2. CASE \E c \in Conns : Checkout(t, c)  BY <1>2 DEF Checkout
<1>3. CASE \E c \in Conns : Register(t, c)  BY <1>3 DEF Register
<1>4. CASE StartDial(t)  BY <1>4 DEF StartDial
<1>5. CASE TakeTicket(t)  BY <1>5 DEF TakeTicket
<1>6. CASE Handshake(t)
  BY <1>6, RootsOfType DEF Handshake
<1>7. CASE DialFails(t)  BY <1>7, LeaveType DEF DialFails
<1>8. CASE RegisterRefused(t)  BY <1>8, LeaveType DEF RegisterRefused
<1>9. CASE AfterDial(t)
  <2>1. CASE retired[tconn[t]]
    BY <1>9, <2>1, LeaveType DEF AfterDial
  <2>2. CASE ~retired[tconn[t]] /\ fresh[t]  BY <1>9, <2>2 DEF AfterDial
  <2>3. CASE ~retired[tconn[t]] /\ ~fresh[t]  BY <1>9, <2>3 DEF AfterDial
  <2> QED BY <2>1, <2>2, <2>3
<1>10. CASE InsertEntry(t)
  <2>1. tconn[t] \in Conns  BY <1>10 DEF InsertEntry
  <2> QED BY <1>10, <2>1 DEF InsertEntry
<1>11. CASE OpenStream(t)
  <2>1. CASE retired[tconn[t]]
    BY <1>11, <2>1, LeaveType DEF OpenStream
  <2>2. CASE ~retired[tconn[t]]  BY <1>11, <2>2 DEF OpenStream
  <2> QED BY <2>1, <2>2
<1>12. CASE SendRequest(t)
  <2>1. CASE tconn[t] \in open  BY <1>12, <2>1 DEF SendRequest
  <2>2. CASE tconn[t] \notin open
    BY <1>12, <2>2, LeaveType DEF SendRequest
  <2> QED BY <2>1, <2>2
<1>13. CASE FinishStream(t)  BY <1>13, LeaveType DEF FinishStream
<1>14. CASE CheckAgain(t)
  <2>1. CASE Usable(tconn[t])  BY <1>14, <2>1 DEF CheckAgain
  <2>2. CASE ~Usable(tconn[t])
    BY <1>14, <2>2, LeaveType DEF CheckAgain
  <2> QED BY <2>1, <2>2
<1> QED
  BY <1>1, <1>2, <1>3, <1>4, <1>5, <1>6, <1>7, <1>8, <1>9, <1>10, <1>11,
     <1>12, <1>13, <1>14 DEF Request

\* Every step of a connection driver keeps the types.
LEMMA TransportType ==
  ASSUME TypeOK, NEW c \in Conns, Transport(c)
  PROVE  TypeOK'
<1> USE DEF TypeOK, trustVars, epochVars, registryVars, connVars, driverVars,
     taskVars,
            TaskPcs, Holding, DriverPcs
<1>1. CASE CloseTransport(c)  BY <1>1 DEF CloseTransport
<1>2. CASE DriverChecks(c) /\ ~retired[c]  BY <1>2 DEF DriverChecks
<1>3. CASE DriverPolls(c)
  <2>1. CASE permit[c]  BY <1>3, <2>1 DEF DriverPolls
  <2>2. CASE ~permit[c]  BY <1>3, <2>2 DEF DriverPolls
  <2> QED BY <2>1, <2>2
<1>4. CASE DriverServes(c)
  <2>1. tpc' \in [Tasks -> TaskPcs]
    BY <1>4 DEF DriverServes
  <2>2. \A t \in Tasks : tpc'[t] \in Holding => tpc[t] \in Holding
    BY <1>4 DEF DriverServes, Queued
  <2> QED BY <1>4, <2>1, <2>2 DEF DriverServes
<1>5. CASE EvictEntry(c)  BY <1>5 DEF EvictEntry
<1> QED
  BY <1>1, <1>2, <1>3, <1>4, <1>5 DEF Transport, DriverChecks, ConnectionEnds

-----------------------------------------------------------------------------
\* Taking the mutex establishes what its holder relies on.
LEMMA BeginInv ==
  ASSUME IInv, NEW r \in BOOLEAN, NEW b \in Slots, r => b # NoBundle,
         NEW f \in BOOLEAN, NEW first \in {"install", "publish"},
         Begin(r, b, f, first)
  PROVE  IInv'
<1> USE DEF IInv
<1>1. TypeOK'
  BY BeginType
<1>2. UNCHANGED <<override, file, slot, accepted, retiredThrough, registry,
                  open, croot, cgen, retired, tpc, ticket, troot>>
  BY DEF Begin, trustVars, registryVars, connVars, driverVars, taskVars
<1>3. /\ pub'.pc = first /\ pub'.rotate = r /\ pub'.bundle = b
      /\ pub'.before = EffectiveRoots
      /\ pub'.withdraw = (first = "install" /\ Withdraws(NextRoots(r, b)))
      /\ pub.pc = "idle"
  BY DEF Begin
<1>4. pub'.withdraw => ~live'
  BY DEF Begin
<1>5. PubInv'
  BY <1>2, <1>3, <1>4 DEF PubInv, EffectiveRoots, Withdraws, NextRoots,
     NextSlot, AdmissionMatchesVerifier, RootsOf
<1>6. GenInv' /\ TaskInv'
  BY <1>2, <1>3 DEF GenInv, TaskInv, Verifiable, RootsOf
<1>7. ConnInv'
  BY <1>2, <1>3 DEF ConnInv, SweepReachesEveryTransport, Usable, Trusted,
     RootsOf
<1> QED BY <1>1, <1>5, <1>6, <1>7

\* Installing material: what was trusted stays in Trusted, and no root of the
\* old slot is lost to a dial that verified against it.
LEMMA InstallInv ==
  ASSUME IInv, InstallMaterial
  PROVE  IInv' /\ Trusted \subseteq Trusted'
<1> USE DEF IInv
<1>1. TypeOK'
  BY PublisherType DEF Publisher
<1>2. UNCHANGED <<live, svid, accepted, retiredThrough, registry, open, croot,
                  cgen, retired, tpc, ticket, troot>>
  BY DEF InstallMaterial, epochVars, registryVars, connVars, driverVars
<1>3. /\ pub.pc = "install"
      /\ pub'.pc = IF pub.withdraw THEN "advance" ELSE "publish"
      /\ pub'.withdraw = pub.withdraw /\ pub'.before = pub.before
      /\ slot' = NextSlot(pub.rotate, pub.bundle)
  BY DEF InstallMaterial, TypeOK
<1>4. /\ pub.before = EffectiveRoots
      /\ pub.withdraw = Withdraws(NextRoots(pub.rotate, pub.bundle))
      /\ pub.rotate => pub.bundle # NoBundle
      /\ pub.withdraw => ~live
  BY <1>3 DEF PubInv
<1>5. RootsOf(slot) \subseteq EffectiveRoots
  BY DEF RootsOf, EffectiveRoots
<1>6. ~pub.withdraw => RootsOf(slot) \subseteq RootsOf(slot')
  <2> SUFFICES ASSUME ~pub.withdraw, slot # NoBundle
               PROVE  RootsOf(slot) \subseteq RootsOf(slot')
    BY DEF RootsOf
  <2>1. slot \subseteq NextRoots(pub.rotate, pub.bundle)
    BY <1>4 DEF Withdraws, EffectiveRoots
  <2>2. NextRoots(pub.rotate, pub.bundle) = RootsOf(slot')
    BY <1>3 DEF NextRoots, NextSlot, RootsOf
  <2> QED BY <2>1, <2>2 DEF RootsOf
<1>7. PubInv'
  BY <1>2, <1>3, <1>4 DEF PubInv, AdmissionMatchesVerifier
<1>8. GenInv'
  BY <1>2 DEF GenInv
<1>9. Verifiable \subseteq Verifiable'
  BY <1>3, <1>4, <1>5, <1>6 DEF Verifiable
<1>10. TaskInv'
  BY <1>2, <1>9 DEF TaskInv
<1>11. Trusted \subseteq Trusted'
  BY <1>3, <1>4, <1>5, <1>6 DEF Trusted
<1>12. ConnInv'
  <2>1. \A c \in Conns : Usable(c)' = Usable(c)
    BY <1>2 DEF Usable
  <2>2. pub.pc # "sweep" /\ pub'.pc # "sweep"
    BY <1>3
  <2> QED
    BY <1>2, <1>11, <2>1, <2>2 DEF ConnInv, SweepReachesEveryTransport
<1> QED BY <1>1, <1>7, <1>8, <1>10, <1>11, <1>12

\* Advancing the generation makes every outstanding ticket stale.
LEMMA AdvanceInv ==
  ASSUME IInv, AdvanceGeneration
  PROVE  IInv' /\ Trusted' = Trusted
<1> USE DEF IInv
<1>1. TypeOK'
  BY PublisherType DEF Publisher
<1>2. UNCHANGED <<override, file, slot, live, svid, registry, open, croot,
                  cgen, retired, tpc, ticket, troot>>
  BY DEF AdvanceGeneration, trustVars, epochVars, connVars, driverVars, taskVars
<1>3. /\ pub.pc = "advance" /\ pub'.pc = "sweep"
      /\ pub'.withdraw = pub.withdraw /\ pub'.before = pub.before
      /\ accepted' = accepted + 1 /\ retiredThrough' = accepted
  BY DEF AdvanceGeneration, TypeOK
<1>4. PubInv'
  BY <1>2, <1>3 DEF PubInv, AdmissionMatchesVerifier
<1>5. GenInv'
  BY <1>2, <1>3 DEF GenInv, TypeOK
<1>6. \A t \in Tasks : ticket'[t] # accepted'
  BY <1>2, <1>3 DEF GenInv, TypeOK
<1>7. TaskInv'
  BY <1>6 DEF TaskInv
<1>8. Trusted' = Trusted
  BY <1>2, <1>3 DEF Trusted, RootsOf
<1>9. ConnInv'
  <2>1. \A c \in Conns : Usable(c)' = Usable(c)
    BY <1>2 DEF Usable
  <2> QED
    BY <1>2, <1>3, <1>8, <2>1 DEF ConnInv, SweepReachesEveryTransport
<1> QED BY <1>1, <1>4, <1>5, <1>7, <1>8, <1>9

\* Sweeping one transport only takes it out of use.
LEMMA SweepInv ==
  ASSUME IInv, NEW c \in Conns, SweepTransport(c)
  PROVE  /\ IInv'
         /\ Trusted' = Trusted
         /\ \A d \in Conns : Usable(d)' = (Usable(d) /\ d # c)
<1> USE DEF IInv
<1>1. TypeOK'
  BY PublisherType DEF Publisher
<1>2. UNCHANGED <<override, file, slot, live, svid, accepted, retiredThrough,
                  pub, open, croot, cgen, tpc, ticket, troot>>
  BY DEF SweepTransport, trustVars, epochVars, taskVars
<1>3. /\ retired' = [retired EXCEPT ![c] = TRUE]
      /\ registry' = registry \ {c}
  BY DEF SweepTransport
<1>4. PubInv' /\ GenInv' /\ TaskInv' /\ Trusted' = Trusted
  BY <1>2 DEF PubInv, GenInv, TaskInv, Verifiable, Trusted, RootsOf,
     EffectiveRoots, Withdraws, NextRoots, NextSlot, AdmissionMatchesVerifier
<1>5. \A d \in Conns : Usable(d)' = (Usable(d) /\ d # c)
  BY <1>2, <1>3 DEF Usable, TypeOK
<1>6. ConnInv'
  BY <1>2, <1>3, <1>4, <1>5 DEF ConnInv, SweepReachesEveryTransport
<1> QED BY <1>1, <1>4, <1>5, <1>6

\* Notifying a driver changes nothing a transport rests on.
LEMMA NotifyKeeps ==
  ASSUME IInv, NEW c \in Conns, NotifyDriver(c)
  PROVE  IInv' /\ Trusted' = Trusted /\ UNCHANGED connVars
<1> USE DEF IInv
<1>1. TypeOK'
  BY PublisherType DEF Publisher
<1>2. UNCHANGED <<override, file, slot, live, svid, accepted, retiredThrough,
                  registry, pub, open, croot, cgen, retired, tpc, ticket, troot>>
  BY DEF NotifyDriver, trustVars, epochVars, registryVars, connVars, taskVars
<1>3. PubInv' /\ GenInv' /\ TaskInv' /\ Trusted' = Trusted
  BY <1>2 DEF PubInv, GenInv, TaskInv, Verifiable, Trusted, RootsOf,
     EffectiveRoots, Withdraws, NextRoots, NextSlot, AdmissionMatchesVerifier
<1>4. ConnInv'
  BY <1>2, <1>3 DEF ConnInv, SweepReachesEveryTransport, Usable
<1> QED BY <1>1, <1>2, <1>3, <1>4 DEF connVars

\* When the sweep is over no transport is usable.
LEMMA EndSweepInv ==
  ASSUME IInv, EndSweep
  PROVE  /\ IInv'
         /\ Trusted' \subseteq Trusted
         /\ ~live
         /\ \A c \in Conns : ~Usable(c)
<1> USE DEF IInv
<1>1. TypeOK'
  BY PublisherType DEF Publisher
<1>2. UNCHANGED <<override, file, slot, live, svid, accepted, retiredThrough,
                  registry, open, croot, cgen, retired, tpc, ticket, troot>>
  BY DEF EndSweep, trustVars, epochVars, registryVars, connVars, driverVars,
       taskVars
<1>3. /\ pub.pc = "sweep" /\ pub'.pc = "clear"
      /\ pub'.withdraw = pub.withdraw /\ pub'.before = pub.before
      /\ \A c \in registry : cgen[c] > retiredThrough
  BY DEF EndSweep, TypeOK
<1>4. \A c \in Conns : ~Usable(c)
  BY <1>3 DEF ConnInv, SweepReachesEveryTransport, TypeOK
<1>5. PubInv' /\ ~live
  BY <1>2, <1>3 DEF PubInv, AdmissionMatchesVerifier
<1>6. GenInv' /\ TaskInv'
  BY <1>2, <1>3 DEF GenInv, TaskInv, Verifiable, RootsOf
<1>7. ConnInv'
  BY <1>2, <1>4 DEF ConnInv, SweepReachesEveryTransport, Usable
<1>8. Trusted' \subseteq Trusted
  BY <1>2, <1>3 DEF Trusted, RootsOf
<1> QED BY <1>1, <1>4, <1>5, <1>6, <1>7, <1>8

\* Clearing the pool and publishing live change nothing a transport rests on.
LEMMA FinishInv ==
  ASSUME IInv, ClearPool \/ PublishLive
  PROVE  IInv' /\ Trusted' = Trusted /\ UNCHANGED connVars
<1> USE DEF IInv
<1>1. TypeOK'
  BY PublisherType DEF Publisher
<1>2. UNCHANGED <<override, file, slot, accepted, retiredThrough, registry,
                  open, croot, cgen, retired, tpc, ticket, troot>>
  BY DEF ClearPool, PublishLive, trustVars, epochVars, registryVars, connVars,
       driverVars,
         taskVars
<1>3. pub.pc \in {"clear", "publish"} /\ pub'.pc \in {"publish", "idle"}
  BY DEF ClearPool, PublishLive, Idle, TypeOK
<1>4. PubInv'
  <2>1. CASE ClearPool
    BY <2>1, <1>2 DEF PubInv, ClearPool, epochVars, TypeOK,
       AdmissionMatchesVerifier
  <2>2. CASE PublishLive
    BY <2>2, <1>2 DEF PubInv, PublishLive, Idle, AdmissionMatchesVerifier
  <2> QED BY <2>1, <2>2
<1>5. GenInv' /\ TaskInv'
  BY <1>2, <1>3 DEF GenInv, TaskInv, Verifiable, RootsOf
<1>6. Trusted' = Trusted
  BY <1>2, <1>3 DEF Trusted, RootsOf
<1>7. ConnInv'
  BY <1>2, <1>3, <1>6 DEF ConnInv, SweepReachesEveryTransport, Usable
<1> QED BY <1>1, <1>2, <1>4, <1>5, <1>6, <1>7 DEF connVars, driverVars

-----------------------------------------------------------------------------
\* Registration is the only request step that adds a transport; its root was
\* verified under a ticket that is still current.
LEMMA RegisterInv ==
  ASSUME IInv, NEW t \in Tasks, NEW c \in Conns, Register(t, c)
  PROVE  /\ IInv'
         /\ ~Usable(c)
         /\ troot[t] \in Trusted
         /\ \A d \in Conns : Usable(d)' = (Usable(d) \/ d = c)
<1> USE DEF IInv
<1>1. TypeOK'
  BY RequestType DEF Request
<1>2. UNCHANGED <<override, file, slot, live, svid, accepted, retiredThrough,
                  pub>>
  BY DEF Register, trustVars, epochVars
<1>3. /\ tpc[t] = "verified" /\ pub.pc # "sweep" /\ ticket[t] = accepted
      /\ c \notin open
      /\ registry' = registry \cup {c}
      /\ open' = open \cup {c}
      /\ croot' = [croot EXCEPT ![c] = troot[t]]
      /\ cgen' = [cgen EXCEPT ![c] = ticket[t]]
      /\ retired' = [retired EXCEPT ![c] = FALSE]
  BY DEF Register, Admissible, Unreferenced
<1>4. PubInv'
  BY <1>2 DEF PubInv, EffectiveRoots, Withdraws, NextRoots, NextSlot, RootsOf,
     AdmissionMatchesVerifier
<1>5. GenInv' /\ TaskInv'
  BY <1>2 DEF GenInv, TaskInv, Verifiable, RootsOf, Register, Goto, TypeOK
<1>6. troot[t] \in Trusted
  BY <1>3 DEF TaskInv, Verifiable, Trusted, PubInv
<1>7. \A d \in Conns : Usable(d)' = (Usable(d) \/ d = c)
  BY <1>3 DEF Usable, TypeOK
<1>8. Trusted' = Trusted
  BY <1>2 DEF Trusted, RootsOf
<1>9. ConnInv'
  BY <1>2, <1>3, <1>6, <1>7, <1>8 DEF ConnInv, SweepReachesEveryTransport,
       TypeOK
<1> QED BY <1>1, <1>3, <1>4, <1>5, <1>6, <1>7, <1>9 DEF Usable

\* A request step other than registration leaves the transports alone, and
\* only a handshake verifies a root.
LEMMA OtherRequestFrame ==
  ASSUME TypeOK, NEW t \in Tasks, Request(t),
         ~ \E c \in Conns : Register(t, c)
  PROVE  /\ UNCHANGED <<registry, connVars, driverVars>>
         /\ \A u \in Tasks : \/ ticket'[u] = ticket[u]
                             \/ ticket'[u] \in {0, accepted}
         /\ \A u \in Tasks : tpc'[u] = "verified" =>
              /\ ticket'[u] = ticket[u]
              /\ \/ tpc[u] = "verified" /\ troot'[u] = troot[u]
                 \/ troot'[u] \in RootsOf(slot)
<1> USE DEF TypeOK, registryVars, Goto, Leave
<1>1. CASE Admit(t)  BY <1>1 DEF Admit
<1>2. CASE \E c \in Conns : Checkout(t, c)  BY <1>2 DEF Checkout
<1>4. CASE StartDial(t)  BY <1>4 DEF StartDial
<1>5. CASE TakeTicket(t)  BY <1>5 DEF TakeTicket
<1>6. CASE Handshake(t)  BY <1>6 DEF Handshake
<1>7. CASE DialFails(t)  BY <1>7 DEF DialFails
<1>8. CASE RegisterRefused(t)  BY <1>8 DEF RegisterRefused
<1>9. CASE AfterDial(t)
  <2>1. CASE Leave(t)  BY <1>9, <2>1 DEF AfterDial
  <2>2. CASE Goto(t, "insert") \/ Goto(t, "holding")
    <3>1. UNCHANGED <<registry, connVars, driverVars>>
      BY <1>9 DEF AfterDial
    <3>2. tpc' \in {[tpc EXCEPT ![t] = "insert"], [tpc EXCEPT ![t] = "holding"]}
      BY <2>2
    <3>3. UNCHANGED <<ticket, troot>> \/ Leave(t)
      BY <1>9 DEF AfterDial
    <3> QED BY <3>1, <3>2, <3>3
  <2> QED BY <1>9, <2>1, <2>2 DEF AfterDial
<1>10. CASE InsertEntry(t)  BY <1>10 DEF InsertEntry
<1>11. CASE OpenStream(t)
  <2>1. CASE Leave(t)  BY <1>11, <2>1 DEF OpenStream
  <2>2. CASE Goto(t, "ready") /\ UNCHANGED <<ticket, troot, fresh, tconn>>
    BY <1>11, <2>2 DEF OpenStream
  <2> QED BY <1>11, <2>1, <2>2 DEF OpenStream
<1>12. CASE SendRequest(t)
  <2>1. CASE Leave(t)  BY <1>12, <2>1 DEF SendRequest
  <2>2. CASE Goto(t, "queued") /\ UNCHANGED <<ticket, troot, fresh, tconn>>
    BY <1>12, <2>2 DEF SendRequest
  <2> QED BY <1>12, <2>1, <2>2 DEF SendRequest
<1>13. CASE FinishStream(t)  BY <1>13 DEF FinishStream
<1>14. CASE CheckAgain(t)
  <2>1. CASE Leave(t)  BY <1>14, <2>1 DEF CheckAgain
  <2>2. CASE Goto(t, "checked") /\ UNCHANGED <<ticket, troot, fresh, tconn>>
    BY <1>14, <2>2 DEF CheckAgain
  <2> QED BY <1>14, <2>1, <2>2 DEF CheckAgain
<1> QED
  BY <1>1, <1>2, <1>4, <1>5, <1>6, <1>7, <1>8, <1>9, <1>10, <1>11,
     <1>12, <1>13, <1>14 DEF Request

\* Hence it keeps the invariant.
LEMMA OtherRequestInv ==
  ASSUME IInv, NEW t \in Tasks, Request(t),
         ~ \E c \in Conns : Register(t, c)
  PROVE  IInv'
<1> USE DEF IInv
<1>1. TypeOK'
  BY RequestType
<1>2. UNCHANGED <<override, file, slot, live, svid, accepted, retiredThrough,
                  pub>>
  BY RequestFrame DEF trustVars, epochVars
<1>3. UNCHANGED <<registry, open, croot, cgen, retired>>
  BY OtherRequestFrame DEF connVars, driverVars
<1>4. PubInv' /\ Verifiable' = Verifiable /\ Trusted' = Trusted
  BY <1>2 DEF PubInv, EffectiveRoots, Withdraws, NextRoots, NextSlot, RootsOf,
     AdmissionMatchesVerifier, Verifiable, Trusted
<1>5. GenInv'
  BY <1>2, OtherRequestFrame DEF GenInv, TypeOK
<1>6. TaskInv'
  <2> SUFFICES ASSUME NEW u \in Tasks, tpc'[u] = "verified",
                      ticket'[u] = accepted'
               PROVE  troot'[u] \in Verifiable'
    BY DEF TaskInv
  <2>1. /\ ticket'[u] = ticket[u]
        /\ \/ tpc[u] = "verified" /\ troot'[u] = troot[u]
           \/ troot'[u] \in RootsOf(slot)
    BY OtherRequestFrame
  <2> QED BY <2>1, <1>2, <1>4 DEF TaskInv, Verifiable
<1>7. ConnInv'
  BY <1>2, <1>3, <1>4 DEF ConnInv, SweepReachesEveryTransport, Usable
<1> QED BY <1>1, <1>4, <1>5, <1>6, <1>7

\* The steps of a driver keep the invariant and at most close its transport.
LEMMA TransportInv ==
  ASSUME IInv, NEW c \in Conns, Transport(c)
  PROVE  /\ IInv'
         /\ \/ UNCHANGED connVars
            \/ /\ \A d \in Conns : Usable(d)' = (Usable(d) /\ d # c)
               /\ \A d \in Conns : d # c => croot'[d] = croot[d]
<1> USE DEF IInv
<1>1. TypeOK'
  BY TransportType
<1>2. UNCHANGED <<override, file, slot, live, svid, accepted, retiredThrough,
                  pub>>
  BY TransportFrame DEF trustVars, epochVars
<1>3. PubInv' /\ Verifiable' = Verifiable /\ Trusted' = Trusted
  BY <1>2 DEF PubInv, EffectiveRoots, Withdraws, NextRoots, NextSlot, RootsOf,
     AdmissionMatchesVerifier, Verifiable, Trusted
<1>4. UNCHANGED <<ticket, troot>> /\ \A t \in Tasks : tpc'[t] = "verified" => tpc[t] = "verified"
  BY DEF Transport, DriverChecks, DriverPolls, DriverServes, ConnectionEnds,
         EvictEntry, CloseTransport, Queued, taskVars
<1>5. GenInv' /\ TaskInv'
  BY <1>2, <1>3, <1>4 DEF GenInv, TaskInv
<1>6. CASE CloseTransport(c)
  <2>1. /\ open' = open \ {c} /\ registry' = registry \ {c}
        /\ croot' = [croot EXCEPT ![c] = NoRoot]
        /\ cgen' = [cgen EXCEPT ![c] = 0]
        /\ retired' = retired
    BY <1>6 DEF CloseTransport
  <2>2. \A d \in Conns : Usable(d)' = (Usable(d) /\ d # c)
    BY <2>1 DEF Usable
  <2>3. \A d \in Conns : d # c => croot'[d] = croot[d] /\ cgen'[d] = cgen[d]
    BY <2>1 DEF TypeOK
  <2>4. ConnInv'
    <3> SUFFICES ASSUME NEW d \in Conns, Usable(d)'
                 PROVE  /\ d \in registry'
                        /\ cgen'[d] = IF pub'.pc = "sweep" THEN retiredThrough'
                                      ELSE accepted'
                        /\ croot'[d] \in Trusted'
      BY DEF ConnInv, SweepReachesEveryTransport
    <3>1. Usable(d) /\ d # c
      BY <2>2
    <3> QED
      BY <3>1, <2>1, <2>3, <1>2, <1>3 DEF ConnInv, SweepReachesEveryTransport
  <2> QED BY <1>1, <1>3, <1>5, <2>2, <2>3, <2>4
<1>7. CASE \/ DriverChecks(c) /\ ~retired[c]
           \/ DriverPolls(c) \/ DriverServes(c) \/ EvictEntry(c)
  <2>1. UNCHANGED <<registry, open, croot, cgen, retired>>
    BY <1>7 DEF DriverChecks, DriverPolls, DriverServes, EvictEntry, connVars,
       registryVars
  <2>2. ConnInv'
    BY <2>1, <1>2, <1>3 DEF ConnInv, SweepReachesEveryTransport, Usable
  <2> QED BY <1>1, <1>3, <1>5, <2>1, <2>2 DEF connVars
<1> QED BY <1>6, <1>7 DEF Transport, DriverChecks, ConnectionEnds

-----------------------------------------------------------------------------
\* The invariant holds initially.
LEMMA InitInv == Init => IInv
<1> SUFFICES ASSUME Init PROVE IInv
  OBVIOUS
<1>1. TypeOK
  BY OfferedAssumption DEF Init, TypeOK, Slots, Bundles, Idle, PubPcs, TaskPcs,
     Holding, DriverPcs
<1>2. PubInv /\ GenInv /\ TaskInv
  BY DEF Init, PubInv, GenInv, TaskInv, Idle, AdmissionMatchesVerifier
<1>3. ConnInv
  BY DEF Init, ConnInv, SweepReachesEveryTransport, Usable
<1> QED BY <1>1, <1>2, <1>3 DEF IInv

\* The two ways to take the mutex, as instances of Begin.
LEMMA BeginCases ==
  ASSUME \/ \E b \in {NoBundle} \cup Offered : CommitTrust(b)
         \/ \E b \in Offered : RotateSvid(b)
  PROVE  \E r, f \in BOOLEAN, b \in Slots, first \in {"install", "publish"} :
           (r => b # NoBundle) /\ Begin(r, b, f, first)
<1>1. CASE \E b \in {NoBundle} \cup Offered : CommitTrust(b)
  BY <1>1, OfferedAssumption DEF CommitTrust, Slots, Bundles
<1>2. CASE \E b \in Offered : RotateSvid(b)
  <2>1. PICK b \in Offered : RotateSvid(b)
    BY <1>2
  <2>2. b \in Slots /\ b # NoBundle
    BY OfferedAssumption, DistinctAssumption DEF Slots, Bundles
  <2> QED BY <2>1, <2>2 DEF RotateSvid
<1> QED BY <1>1, <1>2

\* Every step keeps the invariant.
LEMMA NextInv == IInv /\ [Next]_vars => IInv'
<1> SUFFICES ASSUME IInv, [Next]_vars PROVE IInv'
  OBVIOUS
<1>1. CASE \/ \E b \in {NoBundle} \cup Offered : CommitTrust(b)
           \/ \E b \in Offered : RotateSvid(b)
  BY <1>1, BeginCases, BeginInv
<1>2. CASE Publisher
  BY <1>2, InstallInv, AdvanceInv, SweepInv, NotifyKeeps, EndSweepInv, FinishInv
     DEF Publisher
<1>3. CASE \E t \in Tasks : Request(t)
  BY <1>3, RegisterInv, OtherRequestInv
<1>4. CASE \E c \in Conns : Transport(c)
  BY <1>4, TransportInv
<1>5. CASE UNCHANGED vars
  BY <1>5 DEF IInv, TypeOK, PubInv, GenInv, TaskInv, ConnInv, Verifiable,
     Trusted, SweepReachesEveryTransport, AdmissionMatchesVerifier, Usable,
     EffectiveRoots, Withdraws, NextRoots, NextSlot, RootsOf, vars, trustVars,
     epochVars, registryVars, connVars, driverVars, taskVars
<1> QED BY <1>1, <1>2, <1>3, <1>4, <1>5 DEF Next

\* Steps that change neither transports nor drivers keep what drivers know, if
\* nothing is between its retirement and its notification.
LEMMA NotifyFrame ==
  ASSUME TypeOK, NotifyInv, UNCHANGED <<registry, connVars, driverVars>>,
         \/ swept = NoConn
         \/ pub'.pc = pub.pc /\ Trusted' = Trusted
  PROVE  NotifyInv'
BY DistinctAssumption DEF NotifyInv, TypeOK, connVars, driverVars

\* Retirement and notification keep it, in this order.
LEMMA SweepNotifies ==
  ASSUME TrustInv, NEW c \in Conns, SweepTransport(c) \/ NotifyDriver(c)
  PROVE  NotifyInv'
<1> USE DEF TrustInv, IInv
<1>1. CASE SweepTransport(c)
  <2>1. /\ UNCHANGED <<pub, open, croot, dpc, permit>>
        /\ retired' = [retired EXCEPT ![c] = TRUE]
        /\ registry' = registry \ {c}
        /\ swept' = c /\ swept = NoConn
        /\ pub.pc = "sweep" /\ c \in registry
    BY <1>1 DEF SweepTransport
  <2>2. Trusted' = Trusted
    BY <1>1, SweepInv
  <2>3. croot[c] \in Trusted
    BY <2>1 DEF NotifyInv, ConnInv, Usable
  <2>4. \A d \in Conns : retired'[d] = (retired[d] \/ d = c)
    BY <2>1 DEF TypeOK
  <2> QED BY <2>1, <2>2, <2>3, <2>4, DistinctAssumption DEF NotifyInv, TypeOK
<1>2. CASE NotifyDriver(c)
  <2>1. /\ UNCHANGED <<registry, pub, open, croot, dpc, retired>>
        /\ permit' = [permit EXCEPT ![c] = c \in open]
        /\ swept' = NoConn /\ swept = c
    BY <1>2 DEF NotifyDriver, registryVars, connVars
  <2>2. \A d \in Conns : d # c => permit'[d] = permit[d]
    BY <2>1 DEF TypeOK
  <2>3. permit'[c] = (c \in open)
    BY <2>1 DEF TypeOK
  <2>4. NoConn \notin open
    BY DistinctAssumption DEF TypeOK
  <2> QED BY <2>1, <2>2, <2>3, <2>4 DEF NotifyInv, TypeOK
<1> QED BY <1>1, <1>2

\* A new transport's driver has the flag still to read.
LEMMA RegisterNotifies ==
  ASSUME TrustInv, NEW t \in Tasks, NEW c \in Conns, Register(t, c)
  PROVE  NotifyInv'
<1> USE DEF TrustInv, IInv
<1>1. /\ UNCHANGED <<pub, swept, permit>>
      /\ registry' = registry \cup {c}
      /\ open' = open \cup {c}
      /\ pub.pc # "sweep" /\ c \notin open
  BY DEF Register, Unreferenced
<1>2. \A d \in Conns : /\ retired'[d] = (d # c /\ retired[d])
                       /\ dpc'[d] = IF d = c THEN "check" ELSE dpc[d]
  BY DEF Register, TypeOK
<1>3. swept = NoConn /\ swept' \notin open'
  BY <1>1, DistinctAssumption DEF NotifyInv, TypeOK
<1> QED BY <1>1, <1>2, <1>3 DEF NotifyInv, TypeOK

\* A driver consumes its notification only to read the flag.
LEMMA DriverNotifies ==
  ASSUME TrustInv, NEW c \in Conns, Transport(c)
  PROVE  NotifyInv'
<1> USE DEF TrustInv, IInv
<1>1. Trusted' = Trusted /\ pub' = pub
  BY TransportFrame, TrustedFrame
<1>2. CASE CloseTransport(c)
  <2>1. /\ open' = open \ {c}
        /\ registry' = registry \ {c}
        /\ UNCHANGED <<retired, swept>>
    BY <1>2 DEF CloseTransport
  <2>2. \A d \in Conns : /\ dpc'[d] = IF d = c THEN "off" ELSE dpc[d]
                         /\ d # c => permit'[d] = permit[d] /\ croot'[d] = croot[d]
    BY <1>2 DEF CloseTransport, TypeOK
  <2> QED BY <1>1, <2>1, <2>2 DEF NotifyInv, TypeOK
<1>3. CASE \/ DriverChecks(c) /\ ~retired[c]
           \/ DriverPolls(c) \/ DriverServes(c)
  <2>1. UNCHANGED <<registry, open, croot, retired, swept>>
    BY <1>3 DEF DriverChecks, DriverPolls, DriverServes, connVars, registryVars
  <2>2. \A d \in Conns : d # c => dpc'[d] = dpc[d] /\ permit'[d] = permit[d]
    BY <1>3 DEF DriverChecks, DriverPolls, DriverServes, TypeOK
  <2>3. dpc[c] # "off" /\ dpc'[c] # "off"
    BY <1>3 DEF DriverChecks, DriverPolls, DriverServes, TypeOK
  <2>4. retired[c] /\ swept # c => permit'[c] \/ dpc'[c] = "check"
    <3>1. CASE DriverChecks(c) /\ ~retired[c]
      BY <3>1
    <3>2. CASE DriverPolls(c)
      <4>1. c \in open /\ dpc[c] # "check"
        BY <3>2 DEF DriverPolls, NotifyInv
      <4>2. CASE permit[c]
        BY <3>2, <4>2 DEF DriverPolls, TypeOK
      <4>3. CASE ~permit[c]
        BY <4>1, <4>3 DEF NotifyInv
      <4> QED BY <4>2, <4>3
    <3>3. CASE DriverServes(c)
      BY <3>3 DEF DriverServes, NotifyInv
    <3> QED BY <1>3, <3>1, <3>2, <3>3
  <2> QED BY <1>1, <2>1, <2>2, <2>3, <2>4 DEF NotifyInv, TypeOK
<1>4. CASE EvictEntry(c)
  <2>1. UNCHANGED <<registry, connVars, driverVars>>
    BY <1>4 DEF EvictEntry, registryVars
  <2> QED BY <1>1, <2>1, NotifyFrame
<1> QED
  BY <1>2, <1>3, <1>4 DEF Transport, DriverChecks, ConnectionEnds

\* Every step keeps what drivers know.
LEMMA NotifyStep == TrustInv /\ [Next]_vars => NotifyInv'
<1> SUFFICES ASSUME TrustInv, [Next]_vars PROVE NotifyInv'
  OBVIOUS
<1> USE DEF TrustInv, IInv
<1>1. CASE \/ \E b \in {NoBundle} \cup Offered : CommitTrust(b)
           \/ \E b \in Offered : RotateSvid(b)
  <2>1. UNCHANGED <<registry, connVars, driverVars>> /\ pub.pc = "idle"
    BY <1>1, BeginCases DEF Begin, registryVars
  <2> QED BY <2>1, NotifyFrame DEF NotifyInv
<1>2. CASE InstallMaterial \/ AdvanceGeneration \/ EndSweep \/ ClearPool \/ PublishLive
  <2>1. UNCHANGED <<registry, connVars, driverVars>>
    BY <1>2 DEF InstallMaterial, AdvanceGeneration, EndSweep, ClearPool,
       PublishLive, registryVars
  <2>2. swept = NoConn
    BY <1>2 DEF InstallMaterial, AdvanceGeneration, EndSweep, ClearPool,
       PublishLive, NotifyInv
  <2> QED BY <2>1, <2>2, NotifyFrame
<1>3. CASE \E c \in Conns : SweepTransport(c) \/ NotifyDriver(c)
  BY <1>3, SweepNotifies
<1>4. CASE \E t \in Tasks : Request(t)
  <2>1. PICK t \in Tasks : Request(t)
    BY <1>4
  <2>2. CASE \E c \in Conns : Register(t, c)
    BY <2>2, RegisterNotifies
  <2>3. CASE ~ \E c \in Conns : Register(t, c)
    <3>1. UNCHANGED <<registry, connVars, driverVars>>
      BY <2>1, <2>3, OtherRequestFrame
    <3>2. pub' = pub /\ Trusted' = Trusted
      BY <2>1, RequestFrame, TrustedFrame
    <3> QED BY <3>1, <3>2, NotifyFrame
  <2> QED BY <2>2, <2>3
<1>5. CASE \E c \in Conns : Transport(c)
  BY <1>5, DriverNotifies
<1>6. CASE UNCHANGED vars
  <2>1. UNCHANGED <<registry, connVars, driverVars, pub>> /\ Trusted' = Trusted
    BY <1>6, TrustedFrame DEF vars, registryVars
  <2> QED BY <2>1, NotifyFrame
<1> QED BY <1>1, <1>2, <1>3, <1>4, <1>5, <1>6 DEF Next, Publisher

\* The inductive invariant holds in every reachable state, for every number
\* of roots, transports, requests and publications.
THEOREM TrustInvariant == SafeSpec => []TrustInv
<1>1. Init => TrustInv
  <2> SUFFICES ASSUME Init PROVE NotifyInv
    BY InitInv DEF TrustInv
  <2> QED BY DistinctAssumption DEF Init, NotifyInv
<1>2. TrustInv /\ [Next]_vars => TrustInv'
  BY NextInv, NotifyStep DEF TrustInv
<1> QED BY <1>1, <1>2, PTL DEF SafeSpec

\* Type correctness of the withdrawal protocol.
THEOREM TypeCorrect == SafeSpec => []TypeOK
<1>1. TrustInv => TypeOK
  BY DEF TrustInv, IInv
<1> QED BY <1>1, TrustInvariant, PTL

\* With admission open, no usable transport rests on a withdrawn root.
THEOREM WithdrawalIsComplete == SafeSpec => []NoWithdrawnTransportWhenLive
<1>1. TrustInv => NoWithdrawnTransportWhenLive
  BY DEF TrustInv, IInv, PubInv, ConnInv, Trusted, NoWithdrawnTransportWhenLive
<1> QED BY <1>1, TrustInvariant, PTL

\* Outside the critical section the epoch is live and names the verifier's SVID.
THEOREM AdmissionAgrees == SafeSpec => []AdmissionMatchesVerifier
<1>1. TrustInv => AdmissionMatchesVerifier
  BY DEF TrustInv, IInv, PubInv
<1> QED BY <1>1, TrustInvariant, PTL

\* No usable transport is out of the sweep's reach.
THEOREM SweepIsComplete == SafeSpec => []SweepReachesEveryTransport
<1>1. TrustInv => SweepReachesEveryTransport
  BY DEF TrustInv, IInv, ConnInv
<1> QED BY <1>1, TrustInvariant, PTL

\* A driver's poll goes on to the connection only under a trusted root or, until
\* its notification, one that the sweep is withdrawing.
THEOREM StreamsAreTrusted == SafeSpec => NoStreamOnWithdrawnTrust
<1> DEFINE Serves == \A c \in Conns :
             dpc[c] # "serve" /\ dpc'[c] = "serve" => croot[c] \in Trusted
<1>1. TrustInv /\ [Next]_vars => [Serves]_vars
  <2> SUFFICES ASSUME TrustInv, Next, NEW c \in Conns,
                      dpc[c] # "serve", dpc'[c] = "serve"
               PROVE  croot[c] \in Trusted
    OBVIOUS
  <2> USE DEF TrustInv, IInv
  <2>1. DriverPolls(c)
    <3>1. CASE \/ \E b \in {NoBundle} \cup Offered : CommitTrust(b)
               \/ \E b \in Offered : RotateSvid(b)
      BY <3>1, BeginCases DEF Begin, driverVars
    <3>2. CASE Publisher
      BY <3>2 DEF Publisher, InstallMaterial, AdvanceGeneration, SweepTransport,
         NotifyDriver, EndSweep, ClearPool, PublishLive, driverVars
    <3>3. CASE \E u \in Tasks : Request(u)
      <4>1. PICK u \in Tasks : Request(u)
        BY <3>3
      <4>2. CASE \E d \in Conns : Register(u, d)
        BY <4>2 DEF Register, TypeOK
      <4>3. CASE ~ \E d \in Conns : Register(u, d)
        BY <4>1, <4>3, OtherRequestFrame DEF driverVars
      <4> QED BY <4>2, <4>3
    <3>4. CASE \E d \in Conns : Transport(d)
      <4>1. PICK d \in Conns : Transport(d)
        BY <3>4
      <4>2. d = c
        BY <4>1 DEF Transport, DriverChecks, DriverPolls, DriverServes,
           ConnectionEnds, EvictEntry, CloseTransport, TypeOK, driverVars
      <4> QED
        BY <4>1, <4>2 DEF Transport, DriverChecks, DriverServes,
           ConnectionEnds, EvictEntry, CloseTransport, TypeOK, driverVars
    <3> QED BY <3>1, <3>2, <3>3, <3>4 DEF Next
  <2>2. dpc[c] = "waiting" /\ ~permit[c]
    BY <2>1 DEF DriverPolls, TypeOK
  <2>3. c \in open /\ (~retired[c] \/ swept = c)
    BY <2>2 DEF NotifyInv
  <2>4. CASE ~retired[c]
    BY <2>3, <2>4 DEF ConnInv, Usable
  <2>5. CASE swept = c
    BY <2>3, <2>5 DEF NotifyInv
  <2> QED BY <2>3, <2>4, <2>5
<1> QED BY <1>1, TrustInvariant, PTL DEF SafeSpec, NoStreamOnWithdrawnTrust

-----------------------------------------------------------------------------
\* A transport that is not usable has no root in the abstract gate, whatever
\* root it was authenticated by; one that is has its own.
LEMMA PeerFrame ==
  ASSUME UNCHANGED connVars
  PROVE  Peer' = Peer
BY DEF Peer, Usable, connVars, driverVars

\* Taking one transport out of use drops its peer.
LEMMA PeerDrop ==
  ASSUME NEW c \in Conns,
         \A d \in Conns : Usable(d)' = (Usable(d) /\ d # c),
         \A d \in Conns : d # c => croot'[d] = croot[d]
  PROVE  Peer' = [Peer EXCEPT ![c] = NoRoot]
BY DEF Peer

\* Every step is a step of the abstract trust gate or leaves it unchanged.
LEMMA GateStep == IInv /\ [Next]_vars => [Gate!Next]_(Gate!gateVars)
<1> SUFFICES ASSUME IInv, [Next]_vars
             PROVE  Gate!Next \/ UNCHANGED <<live, Trusted, Peer>>
  BY DEF Gate!gateVars
<1>1. CASE \/ \E b \in {NoBundle} \cup Offered : CommitTrust(b)
           \/ \E b \in Offered : RotateSvid(b)
  <2>1. PICK r \in BOOLEAN, f \in BOOLEAN, b \in Slots,
             first \in {"install", "publish"} : Begin(r, b, f, first)
    BY <1>1, BeginCases
  <2>2. Peer' = Peer
    BY <2>1, PeerFrame DEF Begin
  <2>3. Trusted' = Trusted
    BY <2>1 DEF Begin, Trusted, RootsOf, trustVars
  <2>4. live' = FALSE \/ live' = live
    BY <2>1 DEF Begin
  <2> QED BY <2>2, <2>3, <2>4 DEF Gate!Next, Gate!Fence
<1>2. CASE InstallMaterial
  <2>1. Trusted \subseteq Trusted' /\ IInv'
    BY <1>2, InstallInv
  <2>2. Peer' = Peer /\ live' = live
    BY <1>2, PeerFrame DEF InstallMaterial, epochVars
  <2>3. Trusted' \subseteq Roots
    <3>1. slot' \in Slots /\ pub'.before \in Bundles
      BY <2>1 DEF IInv, TypeOK
    <3>2. RootsOf(slot') \subseteq Roots
      BY <3>1, RootsOfType
    <3> QED BY <3>1, <3>2 DEF Trusted, Bundles, RootsOf
  <2> QED BY <2>1, <2>2, <2>3 DEF Gate!Next, Gate!Extend
<1>3. CASE AdvanceGeneration
  BY <1>3, AdvanceInv, PeerFrame DEF AdvanceGeneration, epochVars
<1>4. CASE \E c \in Conns : SweepTransport(c)
  <2>1. PICK c \in Conns : SweepTransport(c)
    BY <1>4
  <2>2. Peer' = [Peer EXCEPT ![c] = NoRoot]
    BY <2>1, SweepInv, PeerDrop DEF SweepTransport
  <2>3. UNCHANGED <<live, Trusted>>
    BY <2>1, SweepInv DEF SweepTransport, epochVars
  <2> QED BY <2>2, <2>3 DEF Gate!Next, Gate!Drop
<1>5. CASE EndSweep
  <2>1. Peer' = Peer /\ live' = live
    BY <1>5, PeerFrame DEF EndSweep, epochVars
  <2>2. \A c \in Conns : Peer[c] = NoRoot
    BY <1>5, EndSweepInv DEF Peer
  <2> QED BY <1>5, <2>1, <2>2, EndSweepInv DEF Gate!Next, Gate!Withdraw
<1>6. CASE ClearPool \/ PublishLive
  <2>1. Trusted' = Trusted /\ Peer' = Peer
    BY <1>6, FinishInv, PeerFrame
  <2>2. live' = live \/ live' = TRUE
    BY <1>6 DEF ClearPool, PublishLive, epochVars
  <2> QED BY <2>1, <2>2 DEF Gate!Next, Gate!Lift
<1>10. CASE \E c \in Conns : NotifyDriver(c)
  BY <1>10, NotifyKeeps, PeerFrame DEF NotifyDriver, epochVars
<1>7. CASE \E t \in Tasks : Request(t)
  <2>1. PICK t \in Tasks : Request(t)
    BY <1>7
  <2>2. UNCHANGED <<live, Trusted>>
    BY <2>1, RequestFrame, TrustedFrame
  <2>3. CASE \E c \in Conns : Register(t, c)
    <3>1. PICK c \in Conns : Register(t, c)
      BY <2>3
    <3>2. Peer[c] = NoRoot /\ troot[t] \in Trusted
      BY <3>1, RegisterInv DEF Peer
    <3>3. croot' = [croot EXCEPT ![c] = troot[t]]
      BY <3>1 DEF Register
    <3>4. Peer' = [Peer EXCEPT ![c] = troot[t]]
      BY <3>1, <3>3, RegisterInv DEF Peer, IInv, TypeOK
    <3> QED BY <2>2, <3>2, <3>4 DEF Gate!Next, Gate!Authenticate
  <2>4. CASE ~ \E c \in Conns : Register(t, c)
    BY <2>1, <2>2, <2>4, OtherRequestFrame, PeerFrame DEF IInv
  <2> QED BY <2>3, <2>4
<1>8. CASE \E c \in Conns : Transport(c)
  <2>1. PICK c \in Conns : Transport(c)
    BY <1>8
  <2>2. UNCHANGED <<live, Trusted>>
    BY <2>1, TransportFrame, TrustedFrame
  <2>3. Peer' = Peer \/ Peer' = [Peer EXCEPT ![c] = NoRoot]
    BY <2>1, TransportInv, PeerFrame, PeerDrop
  <2> QED BY <2>2, <2>3 DEF Gate!Next, Gate!Drop
<1>9. CASE UNCHANGED vars
  BY <1>9, PeerFrame, TrustedFrame DEF vars, registryVars
<1> QED
  BY <1>1, <1>2, <1>3, <1>4, <1>5, <1>6, <1>7, <1>8, <1>9, <1>10
     DEF Next, Publisher

\* The protocol implements the abstract trust gate: for every number of
\* roots, transports and requests a root is withdrawn only behind the fence
\* and only when no usable transport rests on it.
THEOREM Implementation == SafeSpec => ImplementsTrustGate
<1>1. Init => Gate!Init
  <2> SUFFICES ASSUME Init PROVE Gate!Init
    OBVIOUS
  <2>1. Trusted \subseteq Roots
    BY OfferedAssumption, RootsOfType DEF Init, Trusted, Idle, Slots, Bundles
  <2>2. Peer = [c \in Conns |-> NoRoot]
    BY DEF Init, Peer, Usable
  <2> QED BY <2>1, <2>2 DEF Init, Gate!Init
<1>2. TrustInv => IInv
  BY DEF TrustInv
<1> QED
  BY <1>1, <1>2, GateStep, TrustInvariant, PTL DEF SafeSpec,
     ImplementsTrustGate, Gate!Spec
=============================================================================
