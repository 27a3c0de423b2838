------------------------- MODULE RequestEpochProofs -------------------------
(***************************************************************************)
(* Proofs for RequestEpoch, for any listener ports, lookup keys, requests  *)
(* and numbers of publications and faults.                                 *)
(*                                                                         *)
(* None of the properties is inductive.  What a request answers depends on *)
(* entries that requests of other epochs left in the cache, so the         *)
(* invariant says how far epochs that share a route generation agree, and  *)
(* what an entry of a route generation may hold.  What a decided admission *)
(* admits depends on the pass that decided it, so the invariant says what  *)
(* a pass knows of the published epoch between its steps.                  *)
(***************************************************************************)
EXTENDS RequestEpoch, FiniteSetTheorems, TLAPS

Pinned(t) == task[t].pc # "idle"

\* An epoch loaded earlier agrees with the published one as far as their route
\* generations say: the plan, and the admission unless that is pending again.
AgreesWithCurrent(e) ==
  /\ e.rgen \in 1..epoch.rgen
  /\ e.rgen = epoch.rgen =>
       /\ e.plan = epoch.plan
       /\ ~epoch.admission.pending => e.admission = epoch.admission

\* Generations start at 1 and count the load-balancer publications.
Generations ==
  /\ epoch.cgen >= 1 /\ epoch.rgen >= 1
  /\ epoch.lbgen = 1 + balances

PinsAgree ==
  /\ \A t \in Tasks : Pinned(t) => AgreesWithCurrent(task[t].pin)
  /\ \A t, u \in Tasks :
       Pinned(t) /\ Pinned(u) /\ task[t].pin.rgen = task[u].pin.rgen
         => task[t].pin.plan = task[u].pin.plan

\* An entry is not newer than the published epoch, and every epoch of its
\* route generation declares the listener it is scoped to.
EntryScoped(k) ==
  /\ cache[k].rgen <= epoch.rgen
  /\ cache[k].route \in Ports =>
       /\ cache[k].rgen = epoch.rgen => epoch.plan[cache[k].route] = k[2]
       /\ \A t \in Tasks :
            Pinned(t) /\ task[t].pin.rgen = cache[k].rgen
              => task[t].pin.plan[cache[k].route] = k[2]

\* An entry of the published route generation holds the published answer, or,
\* while admission is pending, a scoped or the port-agnostic route.
EntryCurrent(k) ==
  cache[k].rgen = epoch.rgen =>
    /\ cache[k].route \in Ports \cup {"agnostic"}
    /\ ~epoch.admission.pending => cache[k].route = Search(epoch, k)

CacheAgrees == \A k \in Keys : EntryScoped(k) /\ EntryCurrent(k)

TasksAgree ==
  \A t \in Tasks :
    /\ task[t].pc = "lookup" => task[t].route = "none"
    /\ task[t].pc = "searched" => task[t].route = Search(task[t].pin, task[t].key)

\* What a reconcile pass knows of the published epoch.
PassAgrees ==
  rec.pc # "idle" =>
    /\ rec.expected.cgen <= epoch.cgen
    /\ rec.expected.cgen = epoch.cgen => rec.expected.plan = epoch.plan
    /\ rec.expected.cgen # epoch.cgen => epoch.admission.pending
    /\ rec.pc = "publish" =>
         \A p \in Declared(rec.expected.plan) \ rec.refused :
           live[p] = rec.expected.plan[p]

SocketInv == ClassesNeverCoexist /\ PassAgrees /\ AdmittedPortsAreBound
RouteInv == PinsAgree /\ CacheAgrees /\ TasksAgree /\ ScopedRouteIsAdmitted
IInv == TypeOK /\ Generations /\ SocketInv /\ RouteInv

-----------------------------------------------------------------------------
(* The route search.                                                       *)

\* Search answers with an admitted listener that the epoch declares with the
\* class of the request, or with the port-agnostic route.
LEMMA SearchSound ==
  ASSUME NEW e \in Epochs, NEW k \in Keys
  PROVE  /\ Search(e, k) \in Ports \cup {"agnostic"}
         /\ Search(e, k) \in Ports =>
              Allows(e.admission, Search(e, k)) /\ e.plan[Search(e, k)] = k[2]
<1> DEFINE eligible == {p \in Ports : e.plan[p] = k[2] /\ Allows(e.admission, p)}
           single == {p \in Ports : e.plan[p] = k[2]}
<1>1. ASSUME Cardinality(single) = 1, single \subseteq eligible
      PROVE  (CHOOSE p \in single : TRUE) \in eligible
  <2>1. single # {}
    BY <1>1, FS_EmptySet
  <2> QED BY <2>1, <1>1
<1> HIDE DEF single
<1>2. Search(e, k) \in eligible \cup {"agnostic"}
  <2>1. Search(e, k) = IF k[1] \in eligible THEN k[1]
                       ELSE IF Cardinality(single) = 1 /\ single \subseteq eligible
                       THEN CHOOSE p \in single : TRUE ELSE "agnostic"
    BY DEF Search, single
  <2> HIDE DEF eligible
  <2> QED BY <2>1, <1>1
<1> QED BY <1>2, PortsAssumption

\* It looks at the plan and the admission only.
LEMMA SearchDepends ==
  ASSUME NEW e, NEW d, NEW k, e.plan = d.plan, e.admission = d.admission
  PROVE  Search(e, k) = Search(d, k)
BY DEF Search

\* Under a pending admission it answers with the port-agnostic route.
LEMMA SearchPending ==
  ASSUME NEW e \in Epochs, NEW k \in Keys, e.admission.pending
  PROVE  Search(e, k) = "agnostic"
<1>1. Search(e, k) \in Ports => Allows(e.admission, Search(e, k))
  BY SearchSound
<1> QED BY <1>1, SearchSound DEF Allows

-----------------------------------------------------------------------------
(* Types.                                                                  *)

LEMMA RecordTypes ==
  /\ NoEpoch \in Epochs
  /\ NewPass \in [pc : {"idle", "sockets", "publish"}, expected : Epochs,
                  refused : SUBSET Ports]
  /\ NewTask \in [pc : {"idle", "lookup", "searched", "routed"}, key : Keys,
                  pin : Epochs, route : Routes]
  /\ NoEntry \in [rgen : Nat, route : Routes]
<1>1. NoEpoch \in Epochs
  BY DEF NoEpoch, Epochs, Pending, Plans, Classes
<1>2. (CHOOSE k \in Keys : TRUE) \in Keys
  BY KeysAssumption
<1> QED BY <1>1, <1>2 DEF NewPass, NewTask, NoEntry, Routes

\* The socket part of a pass yields a listener map and refuses ports only.
LEMMA SocketsType ==
  ASSUME TypeOK, ReconcileSockets
  PROVE  TypeOK'
<1> DEFINE alive == [p \in Ports |-> IF p \in dead THEN "none" ELSE live[p]]
           stale == Stale(alive)
<1>1. PICK slow \in SUBSET stale :
        LET retiring == draining \cup slow
            kept == {p \in Ports : alive[p] # "none"} \ stale
            binding == (Declared(rec.expected.plan) \ kept) \ retiring
        IN  \E failed \in SUBSET binding :
              /\ faults' = faults + Cardinality(slow) + Cardinality(failed)
              /\ draining' = retiring
              /\ live' = [p \in Ports |->
                            IF p \in kept \/ p \in binding \ failed
                            THEN rec.expected.plan[p] ELSE "none"]
              /\ rec' = [rec EXCEPT !.pc = "publish",
                           !.refused = stale \cup retiring \cup failed]
  BY DEF ReconcileSockets
<1> DEFINE retiring == draining \cup slow
           kept == {p \in Ports : alive[p] # "none"} \ stale
           binding == (Declared(rec.expected.plan) \ kept) \ retiring
<1>2. PICK failed \in SUBSET binding :
        /\ faults' = faults + Cardinality(slow) + Cardinality(failed)
        /\ draining' = retiring
        /\ live' = [p \in Ports |-> IF p \in kept \/ p \in binding \ failed
                                    THEN rec.expected.plan[p] ELSE "none"]
        /\ rec' = [rec EXCEPT !.pc = "publish",
                     !.refused = stale \cup retiring \cup failed]
  BY <1>1
<1>3. stale \subseteq Ports /\ binding \subseteq Ports
  BY DEF Stale, Declared
<1>4. Cardinality(slow) \in Nat /\ Cardinality(failed) \in Nat
  <2>1. slow \subseteq Ports /\ failed \subseteq Ports
    BY <1>3
  <2> QED BY <2>1, PortsAssumption, FS_Subset, FS_CardinalityType
<1>5. rec.expected.plan \in Plans
  BY DEF TypeOK, Epochs
<1>6. faults' \in Nat
  BY <1>2, <1>4 DEF TypeOK
<1>7. live' \in Plans
  BY <1>2, <1>5 DEF Plans, Classes
<1>8. draining' \subseteq Ports /\ rec'.refused \subseteq Ports /\ rec'.pc = "publish"
      /\ rec' \in [pc : {"idle", "sockets", "publish"}, expected : Epochs,
                   refused : SUBSET Ports]
  BY <1>2, <1>3 DEF TypeOK
<1>9. UNCHANGED <<epoch, balances, cache, task>> /\ dead' = {}
  BY DEF ReconcileSockets
<1> QED BY <1>6, <1>7, <1>8, <1>9 DEF TypeOK

\* What a config publication stores, field by field.
LEMMA ConfigEpoch ==
  ASSUME TypeOK, NEW plan \in Plans, NEW lb \in BOOLEAN, UpdateConfig(plan, lb)
  PROVE  /\ epoch' \in Epochs
         /\ epoch'.cgen = epoch.cgen + 1
         /\ epoch'.plan = plan
         /\ epoch'.rgen = IF plan = epoch.plan THEN epoch.rgen ELSE epoch.rgen + 1
         /\ epoch'.lbgen = IF lb THEN epoch.lbgen + 1 ELSE epoch.lbgen
         /\ epoch'.admission.pending
<1>1. epoch \in Epochs
  BY DEF TypeOK
<1>2. Pending \in [pending : BOOLEAN, refused : SUBSET Ports] /\ Pending.pending
  BY DEF Pending
<1>3. /\ epoch'.cgen = epoch.cgen + 1
      /\ epoch'.plan = plan
      /\ epoch'.rgen = IF plan = epoch.plan THEN epoch.rgen ELSE epoch.rgen + 1
      /\ epoch'.lbgen = IF lb THEN epoch.lbgen + 1 ELSE epoch.lbgen
      /\ epoch'.admission = Pending
  BY <1>1 DEF UpdateConfig, Epochs
<1>4. epoch' = [cgen |-> epoch'.cgen, plan |-> epoch'.plan, rgen |-> epoch'.rgen,
                lbgen |-> epoch'.lbgen, admission |-> epoch'.admission]
  BY <1>1 DEF UpdateConfig, Epochs
<1>5. /\ epoch'.cgen \in Nat /\ epoch'.rgen \in Nat /\ epoch'.lbgen \in Nat
      /\ epoch'.plan \in Plans
      /\ epoch'.admission \in [pending : BOOLEAN, refused : SUBSET Ports]
  BY <1>1, <1>2, <1>3 DEF Epochs
<1> QED BY <1>2, <1>3, <1>4, <1>5 DEF Epochs

\* What an admission decision stores: the published epoch as it is, or with the
\* decision and the next route generation.
LEMMA AdmissionEpoch ==
  ASSUME TypeOK, PublishAdmission
  PROVE  /\ epoch' \in Epochs
         /\ \/ /\ rec.expected.cgen # epoch.cgen \/ Decided(rec.refused) = epoch.admission
               /\ epoch' = epoch
            \/ /\ rec.expected.cgen = epoch.cgen
               /\ epoch'.cgen = epoch.cgen
               /\ epoch'.plan = epoch.plan
               /\ epoch'.rgen = epoch.rgen + 1
               /\ epoch'.lbgen = epoch.lbgen
               /\ epoch'.admission = Decided(rec.refused)
<1>1. epoch \in Epochs /\ rec.refused \subseteq Ports
  BY DEF TypeOK
<1>2. CASE rec.expected.cgen # epoch.cgen \/ Decided(rec.refused) = epoch.admission
  BY <1>1, <1>2 DEF PublishAdmission
<1>3. CASE ~(rec.expected.cgen # epoch.cgen \/ Decided(rec.refused) = epoch.admission)
  <2>1. epoch' = [epoch EXCEPT !.admission = Decided(rec.refused), !.rgen = @ + 1]
    BY <1>3 DEF PublishAdmission
  <2>2. Decided(rec.refused) \in [pending : BOOLEAN, refused : SUBSET Ports]
    BY <1>1 DEF Decided
  <2>3. /\ epoch'.cgen = epoch.cgen
        /\ epoch'.plan = epoch.plan
        /\ epoch'.rgen = epoch.rgen + 1
        /\ epoch'.lbgen = epoch.lbgen
        /\ epoch'.admission = Decided(rec.refused)
    BY <1>1, <2>1 DEF Epochs
  <2>4. epoch' = [cgen |-> epoch'.cgen, plan |-> epoch'.plan, rgen |-> epoch'.rgen,
                  lbgen |-> epoch'.lbgen, admission |-> epoch'.admission]
    BY <1>1, <2>1 DEF Epochs
  <2>5. epoch' \in Epochs
    BY <1>1, <2>2, <2>3, <2>4 DEF Epochs
  <2> QED BY <1>3, <2>3, <2>5
<1> QED BY <1>2, <1>3

LEMMA TypeStep ==
  ASSUME TypeOK, [Next]_vars
  PROVE  TypeOK'
<1>1. ASSUME NEW plan \in Plans, NEW lb \in BOOLEAN, UpdateConfig(plan, lb) PROVE TypeOK'
  <2>1. epoch' \in Epochs
    BY <1>1, ConfigEpoch
  <2>2. cache' \in [Keys -> [rgen : Nat, route : Routes]]
    BY <1>1, RecordTypes DEF TypeOK, UpdateConfig, Mirror
  <2>3. UNCHANGED <<live, dead, faults, draining, rec, task>> /\ balances' \in Nat
    BY <1>1 DEF UpdateConfig, TypeOK
  <2> QED BY <2>1, <2>2, <2>3 DEF TypeOK
<1>2. CASE UpdateLoadBalancer
  BY <1>2, RecordTypes DEF TypeOK, UpdateLoadBalancer, Mirror, Epochs
<1>3. CASE ReconcileStart
  BY <1>3, RecordTypes DEF TypeOK, ReconcileStart
<1>4. CASE ReconcileSockets
  BY <1>4, SocketsType
<1>5. CASE PublishAdmission
  <2>1. epoch' \in Epochs
    BY <1>5, AdmissionEpoch
  <2>2. cache' \in [Keys -> [rgen : Nat, route : Routes]]
    BY <1>5, RecordTypes DEF TypeOK, PublishAdmission, Mirror
  <2>3. rec' = NewPass /\ UNCHANGED <<balances, live, dead, faults, draining, task>>
    BY <1>5 DEF PublishAdmission
  <2> QED BY <2>1, <2>2, <2>3, RecordTypes DEF TypeOK
<1>6. ASSUME NEW p \in Ports, DrainEnds(p) \/ ListenerDies(p) PROVE TypeOK'
  BY <1>6 DEF TypeOK, DrainEnds, ListenerDies
<1>7. ASSUME NEW t \in Tasks, NEW key \in Keys, Pin(t, key) PROVE TypeOK'
  BY <1>7 DEF TypeOK, Pin, Routes
<1>8. ASSUME NEW t \in Tasks, Lookup(t) PROVE TypeOK'
  <2>1. task[t].pin \in Epochs /\ task[t].key \in Keys
    BY DEF TypeOK
  <2>2. Search(task[t].pin, task[t].key) \in Routes /\ cache[task[t].key].route \in Routes
    BY <2>1, SearchSound DEF TypeOK, Routes
  <2> QED BY <1>8, <2>2 DEF TypeOK, Lookup
<1>9. ASSUME NEW t \in Tasks, Insert(t) PROVE TypeOK'
  <2>1. task[t].pin.rgen \in Nat /\ task[t].route \in Routes
    BY DEF TypeOK, Epochs
  <2> QED BY <1>9, <2>1 DEF TypeOK, Insert
<1>10. ASSUME NEW t \in Tasks, Finish(t) PROVE TypeOK'
  BY <1>10, RecordTypes DEF TypeOK, Finish
<1>11. CASE UNCHANGED vars
  BY <1>11 DEF TypeOK, vars
<1> QED BY <1>1, <1>2, <1>3, <1>4, <1>5, <1>6, <1>7, <1>8, <1>9, <1>10, <1>11
        DEF Next, Reconcile

-----------------------------------------------------------------------------
(* Generations.                                                            *)

LEMMA GenerationsStep ==
  ASSUME TypeOK, Generations, [Next]_vars
  PROVE  Generations'
<1>1. epoch \in Epochs /\ balances \in Nat
  BY DEF TypeOK
<1>2. ASSUME NEW plan \in Plans, NEW lb \in BOOLEAN, UpdateConfig(plan, lb) PROVE Generations'
  <2>1. balances' = IF lb THEN balances + 1 ELSE balances
    BY <1>2 DEF UpdateConfig
  <2> QED BY <1>1, <1>2, <2>1, ConfigEpoch DEF Generations, Epochs
<1>3. CASE UpdateLoadBalancer
  BY <1>1, <1>3 DEF UpdateLoadBalancer, Generations, Epochs
<1>4. CASE PublishAdmission
  <2>1. balances' = balances
    BY <1>4 DEF PublishAdmission
  <2> QED BY <1>1, <1>4, <2>1, AdmissionEpoch DEF Generations, Epochs
<1>5. ASSUME UNCHANGED <<epoch, balances>> PROVE Generations'
  BY <1>5 DEF Generations
<1> QED BY <1>2, <1>3, <1>4, <1>5
        DEF Next, Reconcile, ReconcileStart, ReconcileSockets, DrainEnds, ListenerDies,
            Pin, Lookup, Insert, Finish, vars

-----------------------------------------------------------------------------
(* Sockets and passes.                                                     *)

\* The socket part of a pass: whatever it does not refuse is bound as its
\* epoch declares, and no port with a retiring task is bound.
LEMMA SocketsStep ==
  ASSUME TypeOK, SocketInv, ReconcileSockets
  PROVE  SocketInv'
<1> DEFINE alive == [p \in Ports |-> IF p \in dead THEN "none" ELSE live[p]]
           stale == Stale(alive)
           kept == {p \in Ports : alive[p] # "none"} \ stale
           plan == rec.expected.plan
<1>1. PICK slow \in SUBSET stale :
        \E failed \in SUBSET ((Declared(plan) \ kept) \ (draining \cup slow)) :
          /\ draining' = draining \cup slow
          /\ live' = [p \in Ports |->
                        IF p \in kept \/ p \in ((Declared(plan) \ kept) \ (draining \cup slow)) \ failed
                        THEN plan[p] ELSE "none"]
          /\ rec' = [rec EXCEPT !.pc = "publish",
                       !.refused = stale \cup (draining \cup slow) \cup failed]
  BY DEF ReconcileSockets
<1>2. PICK failed \in SUBSET ((Declared(plan) \ kept) \ (draining \cup slow)) :
        /\ draining' = draining \cup slow
        /\ live' = [p \in Ports |->
                      IF p \in kept \/ p \in ((Declared(plan) \ kept) \ (draining \cup slow)) \ failed
                      THEN plan[p] ELSE "none"]
        /\ rec' = [rec EXCEPT !.pc = "publish",
                     !.refused = stale \cup (draining \cup slow) \cup failed]
  BY <1>1
<1>3. UNCHANGED epoch /\ rec.pc = "sockets"
  BY DEF ReconcileSockets
<1>4. rec'.pc = "publish" /\ rec'.expected = rec.expected
      /\ rec'.refused = stale \cup (draining \cup slow) \cup failed
  BY <1>2 DEF TypeOK
<1>5. ClassesNeverCoexist'
  <2> SUFFICES ASSUME NEW p \in draining' PROVE live'[p] = "none"
    BY DEF ClassesNeverCoexist
  <2>1. p \in Ports /\ p \in draining \cup slow
    BY <1>2 DEF TypeOK, Stale
  <2>2. p \notin kept
    BY <2>1 DEF SocketInv, ClassesNeverCoexist
  <2> HIDE DEF kept, plan
  <2> QED BY <1>2, <2>1, <2>2
<1>6. PassAgrees'
  <2>1. \A p \in Declared(plan) \ rec'.refused : live'[p] = plan[p]
    <3> SUFFICES ASSUME NEW p \in Declared(plan), p \notin rec'.refused
                 PROVE  live'[p] = plan[p]
      OBVIOUS
    <3>1. p \in Ports
      BY DEF Declared
    <3> HIDE DEF kept, plan, stale
    <3> QED BY <1>2, <1>4, <3>1
  <2> HIDE DEF kept, stale
  <2> QED BY <1>3, <1>4, <2>1 DEF SocketInv, PassAgrees
<1>7. AdmittedPortsAreBound'
  BY <1>4 DEF AdmittedPortsAreBound
<1> QED BY <1>5, <1>6, <1>7 DEF SocketInv

LEMMA SocketStep ==
  ASSUME TypeOK, Generations, SocketInv, [Next]_vars
  PROVE  SocketInv'
<1>1. epoch \in Epochs /\ rec.expected \in Epochs
  BY DEF TypeOK
<1>2. ASSUME NEW plan \in Plans, NEW lb \in BOOLEAN, UpdateConfig(plan, lb) PROVE SocketInv'
  <2>1. UNCHANGED <<live, draining, rec>>
    BY <1>2 DEF UpdateConfig
  <2>2. epoch'.cgen = epoch.cgen + 1 /\ epoch'.admission.pending
    BY <1>2, ConfigEpoch
  <2>3. ClassesNeverCoexist'
    BY <2>1 DEF SocketInv, ClassesNeverCoexist
  <2>4. PassAgrees'
    BY <1>1, <2>1, <2>2 DEF SocketInv, PassAgrees, Epochs
  <2>5. AdmittedPortsAreBound'
    BY <2>2 DEF AdmittedPortsAreBound, Allows
  <2> QED BY <2>3, <2>4, <2>5 DEF SocketInv
<1>3. CASE UpdateLoadBalancer
  <2>1. /\ UNCHANGED <<live, draining, rec>>
        /\ epoch'.cgen = epoch.cgen /\ epoch'.plan = epoch.plan
        /\ epoch'.admission = epoch.admission
    BY <1>1, <1>3 DEF UpdateLoadBalancer, Epochs
  <2> QED BY <2>1 DEF SocketInv, ClassesNeverCoexist, PassAgrees, AdmittedPortsAreBound
<1>4. CASE ReconcileStart
  <2>1. UNCHANGED <<epoch, live, draining>> /\ rec.pc = "idle"
        /\ rec'.pc = "sockets" /\ rec'.expected = epoch
    BY <1>4 DEF ReconcileStart, NewPass
  <2> QED BY <1>1, <2>1
          DEF SocketInv, ClassesNeverCoexist, PassAgrees, AdmittedPortsAreBound, Epochs
<1>5. CASE ReconcileSockets
  BY <1>5, SocketsStep
<1>6. CASE PublishAdmission
  <2>1. rec.pc = "publish" /\ rec'.pc = "idle" /\ UNCHANGED <<live, draining>>
    BY <1>6 DEF PublishAdmission, NewPass
  <2>2. ClassesNeverCoexist' /\ PassAgrees'
    BY <2>1 DEF SocketInv, ClassesNeverCoexist, PassAgrees
  <2>3. ASSUME rec.expected.cgen = epoch.cgen, epoch'.plan = epoch.plan,
               epoch'.admission = Decided(rec.refused)
        PROVE  AdmittedPortsAreBound'
    <3>1. rec.expected.plan = epoch.plan
          /\ \A p \in Declared(rec.expected.plan) \ rec.refused : live[p] = rec.expected.plan[p]
      BY <2>1, <2>3 DEF SocketInv, PassAgrees
    <3> QED BY <2>1, <2>3, <3>1 DEF AdmittedPortsAreBound, Allows, Decided
  <2>4. ASSUME rec.expected.cgen # epoch.cgen, epoch' = epoch
        PROVE  AdmittedPortsAreBound'
    BY <2>1, <2>4 DEF SocketInv, PassAgrees, AdmittedPortsAreBound, Allows
  <2> QED BY <1>6, <2>2, <2>3, <2>4, AdmissionEpoch DEF SocketInv
<1>7. ASSUME NEW p \in Ports, DrainEnds(p) PROVE SocketInv'
  BY <1>7 DEF DrainEnds, SocketInv, ClassesNeverCoexist, PassAgrees, AdmittedPortsAreBound
<1>8. ASSUME UNCHANGED <<epoch, live, draining, rec>> PROVE SocketInv'
  BY <1>8 DEF SocketInv, ClassesNeverCoexist, PassAgrees, AdmittedPortsAreBound
<1> QED BY <1>2, <1>3, <1>4, <1>5, <1>6, <1>7, <1>8
        DEF Next, Reconcile, ListenerDies, Pin, Lookup, Insert, Finish, vars

-----------------------------------------------------------------------------
(* Routes.                                                                 *)

\* A publication that keeps the plan within a route generation, closes
\* admission or keeps it, and empties the cache otherwise.
LEMMA PublicationRoutes ==
  ASSUME TypeOK, Generations, RouteInv, epoch' \in Epochs, UNCHANGED task,
         Mirror(epoch'),
         \/ epoch'.rgen = epoch.rgen + 1
         \/ /\ epoch'.rgen = epoch.rgen
            /\ epoch'.plan = epoch.plan
            /\ epoch'.admission.pending \/ epoch'.admission = epoch.admission
  PROVE  RouteInv'
<1>1. epoch \in Epochs /\ epoch.rgen \in Nat /\ epoch.rgen >= 1
  BY DEF TypeOK, Epochs, Generations
<1>2. \A t \in Tasks : task[t].pin \in Epochs /\ task[t].pin.rgen \in Nat
  BY DEF TypeOK, Epochs
<1>3. TasksAgree' /\ ScopedRouteIsAdmitted'
  BY DEF RouteInv, TasksAgree, ScopedRouteIsAdmitted
<1>4. PinsAgree'
  <2>1. ASSUME NEW t \in Tasks, Pinned(t) PROVE AgreesWithCurrent(task[t].pin)'
    <3>1. AgreesWithCurrent(task[t].pin)
      BY <2>1 DEF RouteInv, PinsAgree
    <3> QED BY <1>1, <1>2, <3>1 DEF AgreesWithCurrent
  <2> QED BY <2>1 DEF RouteInv, PinsAgree, Pinned
<1>5. CASE epoch'.rgen = epoch.rgen + 1
  <2>1. \A k \in Keys : cache'[k] = NoEntry
    BY <1>1, <1>5 DEF Mirror
  <2>2. ASSUME NEW k \in Keys PROVE EntryScoped(k)' /\ EntryCurrent(k)'
    BY <1>1, <1>5, <2>1, PortsAssumption DEF EntryScoped, EntryCurrent, NoEntry
  <2>3. CacheAgrees'
    BY <2>2 DEF CacheAgrees
  <2> QED BY <1>3, <1>4, <2>3 DEF RouteInv
<1>6. CASE /\ epoch'.rgen = epoch.rgen
           /\ epoch'.plan = epoch.plan
           /\ epoch'.admission.pending \/ epoch'.admission = epoch.admission
  <2>1. UNCHANGED cache
    BY <1>6 DEF Mirror
  <2>2. ASSUME NEW k \in Keys PROVE EntryScoped(k)' /\ EntryCurrent(k)'
    <3>1. EntryScoped(k) /\ EntryCurrent(k)
      BY DEF RouteInv, CacheAgrees
    <3>2. EntryScoped(k)'
      BY <1>6, <2>1, <3>1 DEF EntryScoped, Pinned
    <3>3. epoch'.admission = epoch.admission => Search(epoch', k) = Search(epoch, k)
      BY <1>6, SearchDepends
    <3>4. EntryCurrent(k)'
      BY <1>6, <2>1, <3>1, <3>3 DEF EntryCurrent
    <3> QED BY <3>2, <3>4
  <2>3. CacheAgrees'
    BY <2>2 DEF CacheAgrees
  <2> QED BY <1>3, <1>4, <2>3 DEF RouteInv
<1> QED BY <1>5, <1>6

\* A request pins the published epoch.
LEMMA PinRoutes ==
  ASSUME TypeOK, Generations, RouteInv, NEW t \in Tasks, NEW key \in Keys, Pin(t, key)
  PROVE  RouteInv'
<1>1. epoch \in Epochs /\ epoch.rgen \in Nat /\ epoch.rgen >= 1
  BY DEF TypeOK, Epochs, Generations
<1>2. UNCHANGED <<epoch, cache>>
  BY DEF Pin
<1>3. /\ task'[t] = [pc |-> "lookup", key |-> key, pin |-> epoch, route |-> "none"]
      /\ \A u \in Tasks : u # t => task'[u] = task[u]
  BY DEF Pin, TypeOK
<1>4. TasksAgree' /\ ScopedRouteIsAdmitted'
  BY <1>3 DEF RouteInv, TasksAgree, ScopedRouteIsAdmitted
<1>5. AgreesWithCurrent(epoch)
  BY <1>1 DEF AgreesWithCurrent
<1>6. PinsAgree'
  <2>1. \A u \in Tasks : Pinned(u)' => AgreesWithCurrent(task'[u].pin)
    BY <1>3, <1>5 DEF RouteInv, PinsAgree, Pinned
  <2>2. \A u \in Tasks : Pinned(u)' => AgreesWithCurrent(task[u].pin)'
    BY <1>2, <2>1 DEF AgreesWithCurrent
  <2>3. ASSUME NEW u \in Tasks, NEW v \in Tasks, Pinned(u)', Pinned(v)',
               task'[u].pin.rgen = task'[v].pin.rgen
        PROVE  task'[u].pin.plan = task'[v].pin.plan
    <3>1. CASE u = t \/ v = t
      BY <1>3, <2>1, <2>3, <3>1 DEF AgreesWithCurrent
    <3>2. CASE u # t /\ v # t
      BY <1>3, <2>3, <3>2 DEF RouteInv, PinsAgree, Pinned
    <3> QED BY <3>1, <3>2
  <2> QED BY <2>2, <2>3 DEF PinsAgree
<1>7. CacheAgrees'
  <2>1. ASSUME NEW k \in Keys PROVE EntryScoped(k)' /\ EntryCurrent(k)'
    <3>1. EntryScoped(k) /\ EntryCurrent(k)
      BY DEF RouteInv, CacheAgrees
    <3>2. EntryScoped(k)'
      BY <1>2, <1>3, <3>1 DEF EntryScoped, Pinned
    <3> QED BY <1>2, <3>1, <3>2 DEF EntryCurrent, Search, Allows
  <2> QED BY <2>1 DEF CacheAgrees
<1> QED BY <1>4, <1>6, <1>7 DEF RouteInv

\* A step of one request that keeps its key and pin, or forgets them, and
\* leaves the cache alone, disturbs neither the pins nor the cache.
LEMMA RequestKeepsCache ==
  ASSUME TypeOK, RouteInv, NEW t \in Tasks, UNCHANGED <<epoch, cache>>,
         \A u \in Tasks \ {t} : task'[u] = task[u],
         task'[t].pc # "idle" => task[t].pc # "idle" /\ task'[t].pin = task[t].pin
  PROVE  PinsAgree' /\ CacheAgrees'
<1>1. \A u \in Tasks : Pinned(u)' => Pinned(u) /\ task'[u].pin = task[u].pin
  BY DEF Pinned
<1>2. PinsAgree'
  BY <1>1 DEF RouteInv, PinsAgree, AgreesWithCurrent
<1>3. ASSUME NEW k \in Keys PROVE EntryScoped(k)' /\ EntryCurrent(k)'
  <2>1. EntryScoped(k) /\ EntryCurrent(k)
    BY DEF RouteInv, CacheAgrees
  <2>2. EntryScoped(k)'
    BY <1>1, <2>1 DEF EntryScoped
  <2> QED BY <2>1, <2>2 DEF EntryCurrent, Search, Allows
<1> QED BY <1>2, <1>3 DEF CacheAgrees

\* What a lookup finds: a scoped hit is admitted and declared.
LEMMA LookupRoutes ==
  ASSUME TypeOK, RouteInv, NEW t \in Tasks, Lookup(t)
  PROVE  RouteInv'
<1> DEFINE e == task[t].pin
           key == task[t].key
<1>1. e \in Epochs /\ key \in Keys /\ task[t].pc = "lookup" /\ task[t].route = "none"
  BY DEF TypeOK, Lookup, RouteInv, TasksAgree
<1>2. UNCHANGED <<epoch, cache>> /\ \A u \in Tasks \ {t} : task'[u] = task[u]
  BY DEF TypeOK, Lookup
<1>3. /\ task'[t].pin = e /\ task'[t].key = key
      /\ \/ task'[t].pc = "routed" /\ task'[t].route = "none"
         \/ Hit(e, key) /\ task'[t].pc = "routed" /\ task'[t].route = cache[key].route
         \/ task'[t].pc = "searched" /\ task'[t].route = Search(e, key)
  BY <1>1 DEF TypeOK, Lookup
<1>4. PinsAgree' /\ CacheAgrees'
  BY <1>1, <1>2, <1>3, RequestKeepsCache
<1>5. TasksAgree'
  <2>1. ASSUME NEW u \in Tasks
        PROVE  /\ task'[u].pc = "lookup" => task'[u].route = "none"
               /\ task'[u].pc = "searched" => task'[u].route = Search(task'[u].pin, task'[u].key)
    <3>1. CASE u = t
      BY <1>3, <3>1
    <3>2. CASE u # t
      BY <1>2, <3>2 DEF RouteInv, TasksAgree
    <3> QED BY <3>1, <3>2
  <2> QED BY <2>1 DEF TasksAgree, Search, Allows
<1>6. ScopedRouteIsAdmitted'
  <2>1. ASSUME Hit(e, key), cache[key].route \in Ports
        PROVE  Allows(e.admission, cache[key].route) /\ e.plan[cache[key].route] = key[2]
    <3>1. EntryScoped(key) /\ Pinned(t)
      BY <1>1 DEF RouteInv, CacheAgrees, Pinned
    <3> QED BY <2>1, <3>1 DEF Hit, EntryScoped
  <2>2. task'[t].pc = "routed" /\ task'[t].route \in Ports =>
          Allows(e.admission, task'[t].route) /\ e.plan[task'[t].route] = key[2]
    BY <1>3, <2>1, PortsAssumption
  <2> QED BY <1>2, <1>3, <2>2 DEF RouteInv, ScopedRouteIsAdmitted, Allows
<1> QED BY <1>4, <1>5, <1>6 DEF RouteInv

\* A request leaves what its own epoch answers in the cache.
LEMMA InsertRoutes ==
  ASSUME TypeOK, Generations, RouteInv, NEW t \in Tasks, Insert(t),
         NEW e, NEW key, e = task[t].pin, key = task[t].key
  PROVE  RouteInv'
<1>1. /\ e \in Epochs /\ key \in Keys /\ task[t].pc = "searched"
      /\ task[t].route = Search(e, key)
      /\ e.rgen \in Nat /\ epoch \in Epochs /\ epoch.rgen \in Nat
  BY DEF TypeOK, Insert, RouteInv, TasksAgree, Epochs
<1>2. UNCHANGED epoch /\ \A u \in Tasks \ {t} : task'[u] = task[u]
  BY DEF TypeOK, Insert
<1>3. /\ task'[t].pin = e /\ task'[t].key = key
      /\ task'[t].pc = "routed" /\ task'[t].route = Search(e, key)
  BY <1>1 DEF TypeOK, Insert
<1>4. /\ cache'[key].rgen = e.rgen /\ cache'[key].route = Search(e, key)
      /\ \A k \in Keys \ {key} : cache'[k] = cache[k]
  BY <1>1 DEF TypeOK, Insert
<1>5. /\ Search(e, key) \in Ports \cup {"agnostic"}
      /\ Search(e, key) \in Ports =>
           Allows(e.admission, Search(e, key)) /\ e.plan[Search(e, key)] = key[2]
  BY <1>1, SearchSound
<1>6. \A u \in Tasks : Pinned(u)' => Pinned(u) /\ task'[u].pin = task[u].pin
  BY <1>1, <1>2, <1>3 DEF Pinned
<1>7. PinsAgree'
  BY <1>2, <1>6 DEF RouteInv, PinsAgree, AgreesWithCurrent
<1>8. AgreesWithCurrent(e) /\ Pinned(t)
  BY <1>1 DEF RouteInv, PinsAgree, Pinned
<1>9. EntryScoped(key)'
  <2>1. \A u \in Tasks : Pinned(u) /\ task[u].pin.rgen = e.rgen => task[u].pin.plan = e.plan
    BY <1>8 DEF RouteInv, PinsAgree
  <2>2. e.rgen <= epoch.rgen /\ (e.rgen = epoch.rgen => e.plan = epoch.plan)
    BY <1>1, <1>8 DEF AgreesWithCurrent
  <2> QED BY <1>2, <1>4, <1>5, <1>6, <2>1, <2>2 DEF EntryScoped
<1>10. EntryCurrent(key)'
  <2>1. e.rgen = epoch.rgen /\ ~epoch.admission.pending => Search(e, key) = Search(epoch, key)
    BY <1>8, SearchDepends DEF AgreesWithCurrent
  <2>2. Search(epoch', key) = Search(epoch, key)
    BY <1>2
  <2> QED BY <1>2, <1>4, <1>5, <2>1, <2>2 DEF EntryCurrent
<1>11. ASSUME NEW k \in Keys, k # key PROVE EntryScoped(k)' /\ EntryCurrent(k)'
  <2>1. EntryScoped(k) /\ EntryCurrent(k) /\ cache'[k] = cache[k]
    BY <1>4, <1>11 DEF RouteInv, CacheAgrees
  <2>2. EntryScoped(k)'
    BY <1>2, <1>6, <2>1 DEF EntryScoped
  <2> QED BY <1>2, <2>1, <2>2 DEF EntryCurrent, Search, Allows
<1>12. CacheAgrees'
  BY <1>9, <1>10, <1>11 DEF CacheAgrees
<1>13. TasksAgree'
  <2>1. ASSUME NEW u \in Tasks
        PROVE  /\ task'[u].pc = "lookup" => task'[u].route = "none"
               /\ task'[u].pc = "searched" => task'[u].route = Search(task'[u].pin, task'[u].key)
    <3>1. CASE u = t
      BY <1>3, <3>1
    <3>2. CASE u # t
      BY <1>2, <3>2 DEF RouteInv, TasksAgree
    <3> QED BY <3>1, <3>2
  <2> QED BY <2>1 DEF TasksAgree, Search, Allows
<1>14. ScopedRouteIsAdmitted'
  <2>1. task'[t].route \in Ports =>
          Allows(task'[t].pin.admission, task'[t].route)
            /\ task'[t].pin.plan[task'[t].route] = task'[t].key[2]
    BY <1>3, <1>5
  <2> QED BY <1>2, <2>1 DEF RouteInv, ScopedRouteIsAdmitted, Allows
<1> QED BY <1>7, <1>12, <1>13, <1>14 DEF RouteInv

\* A request ends.
LEMMA FinishRoutes ==
  ASSUME TypeOK, RouteInv, NEW t \in Tasks, Finish(t)
  PROVE  RouteInv'
<1>1. /\ UNCHANGED <<epoch, cache>> /\ task'[t].pc = "idle"
      /\ \A u \in Tasks \ {t} : task'[u] = task[u]
  BY DEF TypeOK, Finish, NewTask
<1>2. PinsAgree' /\ CacheAgrees'
  BY <1>1, RequestKeepsCache
<1>3. ScopedRouteIsAdmitted'
  BY <1>1 DEF RouteInv, ScopedRouteIsAdmitted
<1>4. TasksAgree'
  <2>1. ASSUME NEW u \in Tasks
        PROVE  /\ task'[u].pc = "lookup" => task'[u].route = "none"
               /\ task'[u].pc = "searched" => task'[u].route = Search(task'[u].pin, task'[u].key)
    BY <1>1 DEF RouteInv, TasksAgree
  <2> QED BY <2>1 DEF TasksAgree, Search, Allows
<1> QED BY <1>2, <1>3, <1>4 DEF RouteInv

LEMMA RouteStep ==
  ASSUME TypeOK, Generations, RouteInv, [Next]_vars
  PROVE  RouteInv'
<1>1. epoch \in Epochs
  BY DEF TypeOK
<1>2. ASSUME NEW plan \in Plans, NEW lb \in BOOLEAN, UpdateConfig(plan, lb) PROVE RouteInv'
  <2>1. Mirror(epoch') /\ UNCHANGED task
    BY <1>2 DEF UpdateConfig
  <2>2. epoch' \in Epochs /\ epoch'.plan = plan /\ epoch'.admission.pending
        /\ epoch'.rgen = IF plan = epoch.plan THEN epoch.rgen ELSE epoch.rgen + 1
    BY <1>2, ConfigEpoch
  <2> QED BY <2>1, <2>2, PublicationRoutes
<1>3. CASE UpdateLoadBalancer
  <2>1. /\ Mirror(epoch') /\ UNCHANGED task /\ epoch' \in Epochs
        /\ epoch'.plan = epoch.plan /\ epoch'.rgen = epoch.rgen
        /\ epoch'.admission = epoch.admission
    BY <1>1, <1>3 DEF UpdateLoadBalancer, Epochs
  <2> QED BY <2>1, PublicationRoutes
<1>4. CASE PublishAdmission
  <2>1. Mirror(epoch') /\ UNCHANGED task
    BY <1>4 DEF PublishAdmission
  <2> QED BY <1>4, <2>1, AdmissionEpoch, PublicationRoutes
<1>5. ASSUME NEW t \in Tasks, NEW key \in Keys, Pin(t, key) PROVE RouteInv'
  BY <1>5, PinRoutes
<1>6. ASSUME NEW t \in Tasks, Lookup(t) PROVE RouteInv'
  BY <1>6, LookupRoutes
<1>7. ASSUME NEW t \in Tasks, Insert(t) PROVE RouteInv'
  BY <1>7, InsertRoutes
<1>8. ASSUME NEW t \in Tasks, Finish(t) PROVE RouteInv'
  BY <1>8, FinishRoutes
<1>9. ASSUME UNCHANGED <<epoch, cache, task>> PROVE RouteInv'
  <2>1. PinsAgree'
    BY <1>9 DEF RouteInv, PinsAgree, AgreesWithCurrent, Pinned
  <2>2. ASSUME NEW k \in Keys PROVE EntryScoped(k)' /\ EntryCurrent(k)'
    <3>1. EntryScoped(k) /\ EntryCurrent(k)
      BY DEF RouteInv, CacheAgrees
    <3>2. EntryScoped(k)'
      BY <1>9, <3>1 DEF EntryScoped, Pinned
    <3> QED BY <1>9, <3>1, <3>2 DEF EntryCurrent, Search, Allows
  <2>3. CacheAgrees'
    BY <2>2 DEF CacheAgrees
  <2>4. TasksAgree'
    <3>1. ASSUME NEW u \in Tasks
          PROVE  /\ task'[u].pc = "lookup" => task'[u].route = "none"
                 /\ task'[u].pc = "searched"
                      => task'[u].route = Search(task'[u].pin, task'[u].key)
      BY <1>9 DEF RouteInv, TasksAgree
    <3> QED BY <3>1 DEF TasksAgree, Search, Allows
  <2>5. ScopedRouteIsAdmitted'
    BY <1>9 DEF RouteInv, ScopedRouteIsAdmitted, Allows
  <2> QED BY <2>1, <2>3, <2>4, <2>5 DEF RouteInv
<1> QED BY <1>2, <1>3, <1>4, <1>5, <1>6, <1>7, <1>8, <1>9
        DEF Next, Reconcile, ReconcileStart, ReconcileSockets, DrainEnds, ListenerDies, vars

LEMMA InitInv == Init => IInv
<1> SUFFICES ASSUME Init PROVE IInv
  OBVIOUS
<1>1. TypeOK
  <2>1. epoch \in Epochs
    <3>1. Pending \in [pending : BOOLEAN, refused : SUBSET Ports]
      BY DEF Pending
    <3>2. epoch \in [cgen : {1}, plan : Plans, rgen : {1}, lbgen : {1},
                     admission : {Pending}]
      BY DEF Init
    <3> QED BY <3>1, <3>2 DEF Epochs
  <2>2. live \in Plans
    BY DEF Init, Plans
  <2>3. cache \in [Keys -> [rgen : Nat, route : Routes]]
    BY RecordTypes DEF Init
  <2>4. task \in [Tasks -> [pc : {"idle", "lookup", "searched", "routed"},
                            key : Keys, pin : Epochs, route : Routes]]
    BY RecordTypes DEF Init
  <2>5. rec \in [pc : {"idle", "sockets", "publish"}, expected : Epochs,
                 refused : SUBSET Ports]
    BY RecordTypes DEF Init
  <2> QED BY <2>1, <2>2, <2>3, <2>4, <2>5 DEF Init, TypeOK
<1>2. Generations
  BY DEF Init, Generations
<1>3. SocketInv
  BY DEF Init, SocketInv, ClassesNeverCoexist, PassAgrees, AdmittedPortsAreBound, NewPass,
         Pending, Allows
<1>4. RouteInv
  <2>1. \A t \in Tasks : task[t].pc = "idle"
    BY DEF Init, NewTask
  <2>2. \A k \in Keys : cache[k].rgen = 0 /\ cache[k].route = "none" /\ epoch.rgen = 1
    BY DEF Init, NoEntry
  <2>3. PinsAgree /\ TasksAgree /\ ScopedRouteIsAdmitted
    BY <2>1 DEF PinsAgree, TasksAgree, ScopedRouteIsAdmitted, Pinned
  <2>4. CacheAgrees
    BY <2>1, <2>2, PortsAssumption DEF CacheAgrees, EntryScoped, EntryCurrent, Pinned
  <2> QED BY <2>3, <2>4 DEF RouteInv
<1> QED BY <1>1, <1>2, <1>3, <1>4 DEF IInv

-----------------------------------------------------------------------------
(* The theorems.                                                           *)

\* The invariant holds in every state of the request epoch, the listener
\* manager and the route cache.
THEOREM EpochInvariant == Spec => []IInv
<1>1. Init => IInv
  BY InitInv
<1>2. IInv /\ [Next]_vars => IInv'
  BY TypeStep, GenerationsStep, SocketStep, RouteStep DEF IInv
<1> QED BY <1>1, <1>2, PTL DEF Spec, SafeSpec

\* Epochs, listeners, passes, cache entries and requests keep their types.
THEOREM TypeCorrect == Spec => []TypeOK
<1>1. IInv => TypeOK
  BY DEF IInv
<1> QED BY EpochInvariant, <1>1, PTL

\* reconcile_generation never binds a port whose retiring listener may still
\* accept.
THEOREM ClassesApart == Spec => []ClassesNeverCoexist
<1>1. IInv => ClassesNeverCoexist
  BY DEF IInv, SocketInv
<1> QED BY EpochInvariant, <1>1, PTL

\* A decided admission, fenced by the config generation, admits a declared
\* port only if the manager bound it as declared.
THEOREM AdmittedAreBound == Spec => []AdmittedPortsAreBound
<1>1. IInv => AdmittedPortsAreBound
  BY DEF IInv, SocketInv
<1> QED BY EpochInvariant, <1>1, PTL

\* find_proxy_with_admission answers with a listener-scoped route only if the
\* request's own epoch declares and admits that listener.
THEOREM ScopedAreAdmitted == Spec => []ScopedRouteIsAdmitted
<1>1. IInv => ScopedRouteIsAdmitted
  BY DEF IInv, RouteInv
<1> QED BY EpochInvariant, <1>1, PTL

\* A lookup whose pinned epoch is still published answers as that epoch does.
THEOREM CurrentAnswers == Spec => CurrentEpochAnswersExactly
<1> DEFINE A(t) == task[t].pc = "lookup" /\ task'[t].pc # "lookup" /\ task[t].pin = epoch
                     => task'[t].route = RouteOf(epoch, task[t].key)
<1>1. ASSUME IInv, [Next]_vars, NEW t \in Tasks PROVE A(t)
  <2> SUFFICES ASSUME task[t].pc = "lookup", task'[t].pc # "lookup", task[t].pin = epoch
               PROVE  task'[t].route = RouteOf(epoch, task[t].key)
    OBVIOUS
  <2>1. Lookup(t)
    <3>1. ASSUME NEW u \in Tasks, u # t, Lookup(u) \/ Insert(u) \/ Finish(u)
          PROVE  task'[t] = task[t]
      BY <1>1, <3>1 DEF IInv, TypeOK, Lookup, Insert, Finish
    <3>2. ASSUME NEW u \in Tasks, NEW key \in Keys, Pin(u, key)
          PROVE  task'[t] = task[t]
      BY <1>1, <3>2 DEF IInv, TypeOK, Pin
    <3>3. ~Insert(t) /\ ~Finish(t)
      BY DEF Insert, Finish
    <3>4. task' # task
      OBVIOUS
    <3> QED BY <1>1, <3>1, <3>2, <3>3, <3>4
            DEF Next, Reconcile, UpdateConfig, UpdateLoadBalancer, ReconcileStart,
                ReconcileSockets, PublishAdmission, DrainEnds, ListenerDies, vars
  <2>2. task[t].key \in Keys /\ epoch \in Epochs /\ task[t].route = "none"
    BY <1>1 DEF IInv, TypeOK, RouteInv, TasksAgree
  <2>3. task'[t].route = IF ExplicitlyRefused(epoch, task[t].key) THEN "none"
                         ELSE IF Hit(epoch, task[t].key) THEN cache[task[t].key].route
                         ELSE Search(epoch, task[t].key)
    BY <1>1, <2>1, <2>2 DEF IInv, TypeOK, Lookup
  <2>4. ASSUME Hit(epoch, task[t].key)
        PROVE  cache[task[t].key].route = Search(epoch, task[t].key)
    <3>1. EntryCurrent(task[t].key) /\ cache[task[t].key].rgen = epoch.rgen
      BY <1>1, <2>2, <2>4 DEF IInv, RouteInv, CacheAgrees, Hit
    <3>2. CASE epoch.admission.pending
      <4>1. cache[task[t].key].route \notin Ports
        BY <2>4, <3>2 DEF Hit, Allows
      <4> QED BY <2>2, <3>1, <3>2, <4>1, SearchPending DEF EntryCurrent
    <3>3. CASE ~epoch.admission.pending
      BY <3>1, <3>3 DEF EntryCurrent
    <3> QED BY <3>2, <3>3
  <2> QED BY <2>3, <2>4 DEF RouteOf
<1>2. IInv /\ [Next]_vars => \A t \in Tasks : A(t)
  BY <1>1
<1>3. (\A t \in Tasks : A(t)) => [\A t \in Tasks : A(t)]_vars
  OBVIOUS
<1> QED BY EpochInvariant, <1>2, <1>3, PTL DEF Spec, SafeSpec, CurrentEpochAnswersExactly

\* No publication undoes another: generations never go back and every load
\* balancer, whoever publishes it, is counted.
THEOREM PublicationsKept == Spec => NoLostPublication
<1> DEFINE A == /\ epoch'.cgen >= epoch.cgen
                /\ epoch'.rgen >= epoch.rgen
                /\ epoch'.lbgen = 1 + balances'
                /\ epoch'.plan # epoch.plan =>
                     epoch'.cgen > epoch.cgen /\ epoch'.rgen > epoch.rgen
                /\ epoch'.admission # epoch.admission /\ ~epoch'.admission.pending =>
                     epoch'.rgen > epoch.rgen
<1>1. IInv /\ [Next]_vars => A
  <2> SUFFICES ASSUME IInv, [Next]_vars PROVE A
    OBVIOUS
  <2>1. /\ epoch \in Epochs /\ epoch.cgen \in Nat /\ epoch.rgen \in Nat
        /\ epoch'.lbgen = 1 + balances'
    BY GenerationsStep DEF IInv, TypeOK, Epochs, Generations
  <2>2. ASSUME NEW plan \in Plans, NEW lb \in BOOLEAN, UpdateConfig(plan, lb) PROVE A
    BY <2>1, <2>2, ConfigEpoch DEF IInv
  <2>3. CASE UpdateLoadBalancer
    BY <2>1, <2>3 DEF UpdateLoadBalancer, Epochs
  <2>4. CASE PublishAdmission
    BY <2>1, <2>4, AdmissionEpoch DEF IInv
  <2>5. CASE UNCHANGED epoch
    BY <2>1, <2>5
  <2> QED BY <2>2, <2>3, <2>4, <2>5
          DEF Next, Reconcile, ReconcileStart, ReconcileSockets, DrainEnds, ListenerDies,
              Pin, Lookup, Insert, Finish, vars
<1>2. A => [A]_vars
  OBVIOUS
<1> QED BY EpochInvariant, <1>1, <1>2, PTL DEF Spec, SafeSpec, NoLostPublication
=============================================================================
