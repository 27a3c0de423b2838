------------------------ MODULE BackendLimiterProofs ------------------------
(***************************************************************************)
(* The limiter's counters are exact, its caps hold and the lane registry   *)
(* follows its leases, for any number of dispatches, sockets, ports and    *)
(* generations.  The counters and the registry touch disjoint variables,   *)
(* so each has its own inductive invariant over TypeOK.                    *)
(***************************************************************************)
EXTENDS BackendLimiter, FiniteSetTheorems, TLAPS

\* The limiter: exact counters within a published cap.
CountInv == CountsAreExact /\ CapHeld

\* The registry: one lease per leaseholder and the strictest lane in force.
LaneInv == LaneWhileLeased /\ StrictestLaneGoverns

IInv == TypeOK /\ CountInv /\ LaneInv

\* The steps that leave the leases alone and end an admission.
Admission(t) == AcquireHit(t) \/ AcquireCold(t)

-----------------------------------------------------------------------------
\* Every published lane is a capped lane on a policy port.
LEMMA PublishedLanes ==
  /\ AllPublished \subseteq Lane
  /\ NoCap \notin AllPublished
  /\ \A g \in 1..MaxGeneration : Policy[g] \subseteq AllPublished \cup {NoCap}
BY PolicyAssumption, BoundAssumption DEF AllPublished, Published

\* Adding an element to, or taking one from, a subset of a finite set moves
\* its cardinality by one.
LEMMA CardinalityMoves ==
  ASSUME NEW S, IsFiniteSet(S), NEW A \in SUBSET S
  PROVE  /\ IsFiniteSet(A)
         /\ Cardinality(A) \in Nat
         /\ Cardinality(A) = 0 <=> A = {}
         /\ \A x \in S \ A : Cardinality(A \cup {x}) = Cardinality(A) + 1
         /\ \A x \in A : Cardinality(A \ {x}) = Cardinality(A) - 1
<1>1. IsFiniteSet(A)
  BY FS_Subset
<1>2. Cardinality(A) \in Nat
  BY <1>1, FS_CardinalityType
<1>3. Cardinality(A) = 0 <=> A = {}
  BY <1>1, FS_EmptySet
<1>4. \A x \in S \ A : Cardinality(A \cup {x}) = Cardinality(A) + 1
  BY <1>1, FS_AddElement
<1>5. \A x \in A : Cardinality(A \ {x}) = Cardinality(A) - 1
  BY <1>1, FS_RemoveElement
<1> QED BY <1>1, <1>2, <1>3, <1>4, <1>5

\* What the counters' types say of the sockets.
LEMMA SlotTypes ==
  ASSUME TypeOK
  PROVE  /\ count \in [Ports -> Nat] /\ resident \subseteq Ports
         /\ holds \in [Sockets -> Ports \cup {0}]
         /\ clones \in [Sockets -> 0..MaxClones]
         /\ \A s \in Sockets : holds[s] = 0 <=> clones[s] = 0
         /\ 0 \notin Ports
BY PortAssumption DEF TypeOK

\* A socket that takes, or gives back, a slot of one port moves that port's
\* holders and no other's.
LEMMA HoldingMoves ==
  ASSUME TypeOK, NEW s \in Sockets, NEW p \in Ports
  PROVE  /\ holds[s] = 0 /\ holds' = [holds EXCEPT ![s] = p] =>
              /\ s \notin Holding(p) /\ Holding(p)' = Holding(p) \cup {s}
              /\ \A q \in Ports \ {p} : Holding(q)' = Holding(q)
         /\ holds[s] = p /\ holds' = [holds EXCEPT ![s] = 0] =>
              /\ s \in Holding(p) /\ Holding(p)' = Holding(p) \ {s}
              /\ \A q \in Ports \ {p} : Holding(q)' = Holding(q)
         /\ holds' = holds => \A q \in Ports : Holding(q)' = Holding(q)
BY SlotTypes DEF Holding

\* The derived order of lanes is irreflexive and transitive, and what is not
\* stricter than a lane is not stricter than a lane below it.
LEMMA StricterOrder ==
  ASSUME NEW a \in Lane, NEW b \in Lane, NEW c \in Lane
  PROVE  /\ ~Stricter(a, a)
         /\ ~Stricter(a, b) /\ Stricter(c, b) => ~Stricter(a, c)
<1>1. /\ a.cap \in Nat /\ b.cap \in Nat /\ c.cap \in Nat
      /\ a.port \in Nat /\ b.port \in Nat /\ c.port \in Nat
  BY PortAssumption DEF Lane
<1>2. ASSUME NEW i \in Nat, NEW j \in Nat, NEW k \in Nat, NEW l \in Nat,
             NEW m \in Nat, NEW n \in Nat
      PROVE  ~(i < j \/ (i = j /\ l < m)) /\ (k < j \/ (k = j /\ n < m))
                => ~(i < k \/ (i = k /\ l < n))
  OBVIOUS
<1>3. ~(a.cap < a.cap) /\ ~(a.port < a.port)
  BY <1>1
<1> QED BY <1>1, <1>2, <1>3 DEF Stricter
\* Folding a publication keeps the registry's types, and leaves a lane that is
\* no older and no weaker than the publication or than the lane before.
LEMMA FoldFacts ==
  ASSUME TypeOK, NEW t \in Tasks, cap[t] \in AllPublished, Fold(t)
  PROVE  /\ leases' \in Nat \ {0}
         /\ laneGen' \in 0..live
         /\ lane' \in AllPublished
         /\ gen[t] <= laneGen'
         /\ gen[t] = laneGen' => ~Stricter(cap[t], lane')
         /\ leases > 0 => laneGen <= laneGen'
         /\ leases > 0 /\ laneGen = laneGen' => lane' = lane \/ Stricter(lane', lane)
<1>1. /\ leases \in Nat /\ laneGen \in 0..live /\ gen[t] \in 0..live
      /\ live \in Nat
      /\ leases > 0 => lane \in AllPublished
  BY BoundAssumption DEF TypeOK
<1>2. ~Stricter(cap[t], cap[t])
  BY StricterOrder, PublishedLanes
<1> QED BY <1>1, <1>2 DEF Fold

-----------------------------------------------------------------------------
\* The end of an admission keeps the dispatches' types and their leases.
LEMMA AdmissionKeepsDispatch ==
  ASSUME TypeOK, NEW t \in Tasks, Admission(t)
  PROVE  /\ UNCHANGED <<live, registry, leased>>
         /\ pc' \in [Tasks -> PCs] /\ gen' \in [Tasks -> 0..live]
         /\ cap' \in [Tasks -> AllPublished \cup {NoCap}]
         /\ seen' \in [Tasks -> AllPublished \cup {NoCap}]
         /\ tries' \in [Tasks -> 0..MaxRetries]
         /\ \A u \in Tasks :
              /\ pc'[u] \in {"hit", "cold"} => seen'[u] \in AllPublished
              /\ pc'[u] = "insert" => cap'[u] \in AllPublished
              /\ leased[u] => cap'[u] = cap[u] /\ gen'[u] = gen[u]
              /\ leased[u] => pc'[u] \in {"sending", "hit", "cold"}
<1> USE BoundAssumption
<1>1. UNCHANGED <<live, registry, leased>>
  BY DEF Admission, AcquireHit, AcquireCold
<1>2. CASE pc[t] = "hit" /\ pc' = [pc EXCEPT ![t] = "cold"] /\ UNCHANGED <<gen, cap, seen, tries>>
  BY <1>1, <1>2 DEF TypeOK, PCs
<1>3. CASE AfterAdmission(t)
  <2>1. CASE leased[t] \/ cap[t] = NoCap
    BY <1>1, <1>3, <2>1 DEF TypeOK, AfterAdmission, PCs
  <2>2. CASE ~(leased[t] \/ cap[t] = NoCap)
    BY <1>1, <1>3, <2>2 DEF TypeOK, AfterAdmission, Finish, PCs
  <2> QED BY <2>1, <2>2
<1> QED BY <1>2, <1>3 DEF Admission, AcquireHit, AcquireCold, Reserve, Refuse

\* Types are preserved by every step.
LEMMA TypeStep ==
  ASSUME TypeOK, CountsAreExact, LaneWhileLeased, [Next]_vars
  PROVE  TypeOK'
<1> USE BoundAssumption
<1>1. CASE Reload
  BY <1>1 DEF TypeOK, Reload, counters, registry, dispatch
<1>2. ASSUME NEW t \in Tasks, Pin(t)
      PROVE  TypeOK'
  BY <1>2, PublishedLanes DEF TypeOK, Pin, PCs, counters, registry
<1>3. ASSUME NEW t \in Tasks, SendUncapped(t)
      PROVE  TypeOK'
  BY <1>3 DEF TypeOK, SendUncapped, PCs, counters, registry
<1>4. ASSUME NEW t \in Tasks, LeaseLookup(t) \/ LeaseInsert(t)
      PROVE  TypeOK'
  <2>1. cap[t] \in AllPublished
    BY <1>4 DEF TypeOK, LeaseLookup, LeaseInsert
  <2>2. CASE Lease(t)
    BY <1>4, <2>1, <2>2, FoldFacts DEF TypeOK, LeaseLookup, LeaseInsert, Lease, PCs, counters
  <2>3. CASE LeaseLookup(t) /\ leases = 0
    BY <2>1, <2>3 DEF TypeOK, LeaseLookup, PCs, counters, registry
  <2> QED BY <1>4, <2>2, <2>3 DEF LeaseLookup, LeaseInsert
<1>5. ASSUME NEW t \in Tasks, Resolve(t)
      PROVE  TypeOK'
  <2>1. /\ leases' \in Nat /\ laneGen' \in 0..live
        /\ lane' \in AllPublished \cup {NoCap}
        /\ leases' > 0 => lane' \in AllPublished
    <3>1. CASE leased[t]
      <4>1. leases # 0
        BY <3>1, CardinalityMoves, FiniteAssumption DEF LaneWhileLeased, Leaseholders
      <4> QED BY <1>5, <3>1, <4>1 DEF TypeOK, Resolve, Unlease
    <3>2. CASE ~leased[t]
      BY <1>5, <3>2 DEF TypeOK, Resolve, registry
    <3> QED BY <3>1, <3>2
  <2>2. CASE Finish(t)
    BY <1>5, <2>1, <2>2 DEF TypeOK, Resolve, Finish, PCs, counters
  <2>3. CASE ~Finish(t)
    BY <1>5, <2>1, <2>3 DEF TypeOK, Resolve, PCs, counters
  <2> QED BY <2>2, <2>3
<1>6. ASSUME NEW t \in Tasks, Admit(t) \/ AdmitPooled(t)
      PROVE  TypeOK'
  BY <1>6 DEF TypeOK, Admit, AdmitPooled, PCs, counters, registry
<1>7. ASSUME NEW t \in Tasks, Admission(t)
      PROVE  TypeOK'
  <2>1. seen[t].port \in Ports
    BY <1>7, PublishedLanes DEF TypeOK, Admission, AcquireHit, AcquireCold, Lane
  <2>2. /\ count' \in [Ports -> Nat]
        /\ resident' \subseteq Ports
        /\ holds' \in [Sockets -> Ports \cup {0}]
        /\ clones' \in [Sockets -> 0..MaxClones]
        /\ \A s \in Sockets : holds'[s] = 0 <=> clones'[s] = 0
    <3>1. CASE UNCHANGED counters
      BY <3>1 DEF TypeOK, counters
    <3>2. CASE Reserve(t) /\ ~UNCHANGED counters
      <4>1. PICK s \in Sockets : /\ holds' = [holds EXCEPT ![s] = seen[t].port]
                                 /\ clones' = [clones EXCEPT ![s] = 1]
        BY <3>2 DEF Reserve, Refuse
      <4>2. /\ count' = [count EXCEPT ![seen[t].port] = @ + 1]
            /\ resident' = resident \cup {seen[t].port}
        BY <3>2 DEF Reserve, Refuse
      <4> QED BY <2>1, <4>1, <4>2, SlotTypes
    <3> QED BY <1>7, <3>1, <3>2 DEF Admission, AcquireHit, AcquireCold, Refuse
  <2>3. leased \in [Tasks -> BOOLEAN] /\ \A u \in Tasks : leased[u] => cap[u] \in AllPublished
    BY DEF TypeOK
  <2> QED BY <1>7, <2>2, <2>3, AdmissionKeepsDispatch DEF TypeOK, registry
<1>8. ASSUME NEW s \in Sockets, CloneGuard(s)
      PROVE  TypeOK'
  BY <1>8 DEF TypeOK, CloneGuard, registry, dispatch
<1>9. ASSUME NEW s \in Sockets, DropGuard(s)
      PROVE  TypeOK'
  <2>1. holds[s] \in Ports
    BY <1>9 DEF TypeOK, DropGuard
  <2>2. count[holds[s]] \in Nat \ {0}
    <3>1. s \in Holding(holds[s]) /\ Holding(holds[s]) \in SUBSET Sockets
      BY DEF Holding
    <3>2. Cardinality(Holding(holds[s])) \in Nat \ {0}
      BY <3>1, CardinalityMoves, FiniteAssumption
    <3> QED BY <2>1, <3>2 DEF CountsAreExact
  <2>3. CASE clones[s] > 1
    BY <1>9, <2>3 DEF TypeOK, DropGuard, registry, dispatch
  <2>4. CASE ~(clones[s] > 1)
    BY <1>9, <2>1, <2>2, <2>4 DEF TypeOK, DropGuard, registry, dispatch
  <2> QED BY <2>3, <2>4
<1>10. CASE UNCHANGED vars
  BY <1>10 DEF TypeOK, vars, counters, registry, dispatch
<1> QED BY <1>1, <1>2, <1>3, <1>4, <1>5, <1>6, <1>7, <1>8, <1>9, <1>10
        DEF Next, Dispatch, Admission

\* Taking a slot below the cap counts the new socket and keeps the cap.
LEMMA ReserveStep ==
  ASSUME TypeOK, CountInv, NEW t \in Tasks, pc[t] \in {"hit", "cold"},
         ~AtCap(t), Reserve(t)
  PROVE  CountInv'
<1> USE BoundAssumption
<1>0. PICK l \in AllPublished : l = seen[t]
  BY DEF TypeOK
<1>p. PICK p \in Ports : p = l.port
  BY PublishedLanes DEF Lane
<1>1. l.cap \in Nat
  BY PublishedLanes DEF Lane
<1>2. CASE UNCHANGED counters
  BY <1>2 DEF CountInv, CountsAreExact, CapHeld, Holding, counters
<1>3. CASE ~UNCHANGED counters
  <2>1. PICK s \in Sockets : holds[s] = 0 /\ holds' = [holds EXCEPT ![s] = p]
    BY <1>3, <1>0, <1>p DEF Reserve, Refuse
  <2>2. count' = [count EXCEPT ![p] = @ + 1] /\ resident' = resident \cup {p}
    BY <1>3, <1>0, <1>p DEF Reserve, Refuse
  <2>3. /\ s \notin Holding(p) /\ Holding(p)' = Holding(p) \cup {s}
        /\ \A q \in Ports \ {p} : Holding(q)' = Holding(q)
    BY <1>1, <2>1, HoldingMoves
  <2>4. Holding(p) \in SUBSET Sockets
    BY DEF Holding
  <2>5. count[p] + 1 = Cardinality(Holding(p)')
    BY <1>1, <2>3, <2>4, CardinalityMoves, FiniteAssumption DEF CountInv, CountsAreExact
  <2>6. \A q \in Ports : count'[q] = Cardinality(Holding(q)')
    BY <1>1, <2>2, <2>3, <2>5, SlotTypes DEF CountInv, CountsAreExact
  <2>7. CountsAreExact'
    BY <1>1, <2>2, <2>6, SlotTypes DEF CountInv, CountsAreExact
  <2>8. Cardinality(Holding(p)') <= l.cap
    BY <1>1, <1>0, <1>p, <2>5, SlotTypes DEF AtCap
  <2>9. CapHeld'
    BY <1>p, <2>3, <2>8 DEF CountInv, CapHeld
  <2> QED BY <2>7, <2>9 DEF CountInv
<1> QED BY <1>2, <1>3

\* Exact counters and held caps are preserved by every step.
LEMMA CountStep ==
  ASSUME TypeOK, CountInv, [Next]_vars
  PROVE  CountInv'
<1> USE BoundAssumption
<1>1. CASE UNCHANGED counters
  BY <1>1 DEF CountInv, CountsAreExact, CapHeld, Holding, counters
<1>2. ASSUME NEW t \in Tasks, Admission(t)
      PROVE  CountInv'
  BY <1>1, <1>2, ReserveStep DEF Admission, AcquireHit, AcquireCold, Refuse
<1>3. ASSUME NEW s \in Sockets, UNCHANGED <<count, resident, holds>>
      PROVE  CountInv'
  BY <1>3 DEF CountInv, CountsAreExact, CapHeld, Holding
<1>4. ASSUME NEW s \in Sockets, DropGuard(s), ~UNCHANGED <<count, resident, holds>>
      PROVE  CountInv'
  <2>1. PICK p \in Ports : p = holds[s]
    BY <1>4, SlotTypes DEF DropGuard
  <2>2. /\ holds' = [holds EXCEPT ![s] = 0]
        /\ count' = [count EXCEPT ![p] = @ - 1]
        /\ resident' = IF count[p] = 1 THEN resident \ {p} ELSE resident
    BY <1>4, <2>1 DEF DropGuard
  <2>3. /\ s \in Holding(p) /\ Holding(p)' = Holding(p) \ {s}
        /\ \A q \in Ports \ {p} : Holding(q)' = Holding(q)
    BY <2>1, <2>2, HoldingMoves
  <2>4. Holding(p) \in SUBSET Sockets
    BY DEF Holding
  <2>5. count[p] - 1 = Cardinality(Holding(p)') /\ count[p] # 0
    BY <2>1, <2>3, <2>4, CardinalityMoves, FiniteAssumption DEF CountInv, CountsAreExact
  <2>6. \A q \in Ports : count'[q] = Cardinality(Holding(q)')
    BY <2>1, <2>2, <2>3, <2>5, SlotTypes DEF CountInv, CountsAreExact
  <2>7. resident' = {q \in Ports : count'[q] > 0}
    BY <2>1, <2>2, <2>5, SlotTypes DEF CountInv, CountsAreExact
  <2>8. ASSUME Holding(p)' # {}
        PROVE  \E l \in AllPublished : l.port = p /\ Cardinality(Holding(p)') <= l.cap
    <3>1. PICK l \in AllPublished : l.port = p /\ Cardinality(Holding(p)) <= l.cap
      BY <2>1, <2>3 DEF CountInv, CapHeld
    <3>2. l.cap \in Nat
      BY PublishedLanes DEF Lane
    <3>3. Cardinality(Holding(p)) = count[p] /\ count[p] \in Nat
      BY <2>1, SlotTypes DEF CountInv, CountsAreExact
    <3>4. Cardinality(Holding(p)') <= l.cap
      BY <2>5, <3>1, <3>2, <3>3
    <3> QED BY <3>1, <3>4
  <2>9. CapHeld'
    BY <2>1, <2>3, <2>8 DEF CountInv, CapHeld
  <2> QED BY <2>6, <2>7, <2>9 DEF CountInv, CountsAreExact
<1> QED BY <1>1, <1>2, <1>3, <1>4
        DEF Next, Dispatch, Admission, Reload, Pin, SendUncapped, LeaseLookup,
            LeaseInsert, Resolve, Admit, AdmitPooled, CloneGuard, vars, counters

\* A dispatch that takes or returns no lease, and a step of the limiter, keep
\* the registry's invariant.
LEMMA LaneKept ==
  ASSUME TypeOK, LaneInv, UNCHANGED <<registry, leased>>,
         \A u \in Tasks : leased[u] => cap'[u] = cap[u] /\ gen'[u] = gen[u]
  PROVE  LaneInv'
BY DEF LaneInv, LaneWhileLeased, StrictestLaneGoverns, Leaseholders, registry

\* The registry's invariant is preserved by every step.
LEMMA LaneStep ==
  ASSUME TypeOK, LaneInv, [Next]_vars
  PROVE  LaneInv'
<1> USE BoundAssumption
<1>1. CASE Reload \/ UNCHANGED vars
  BY <1>1, LaneKept DEF Reload, vars, dispatch
<1>2. ASSUME NEW s \in Sockets, CloneGuard(s) \/ DropGuard(s)
      PROVE  LaneInv'
  BY <1>2, LaneKept DEF CloneGuard, DropGuard, dispatch
<1>3. ASSUME NEW t \in Tasks, Admission(t)
      PROVE  LaneInv'
  BY <1>3, LaneKept, AdmissionKeepsDispatch
<1>4. ASSUME NEW t \in Tasks, SendUncapped(t) \/ Admit(t) \/ AdmitPooled(t)
      PROVE  LaneInv'
  BY <1>4, LaneKept DEF SendUncapped, Admit, AdmitPooled
<1>5. ASSUME NEW t \in Tasks, Pin(t)
      PROVE  LaneInv'
  <2>1. ~leased[t]
    BY <1>5 DEF TypeOK, Pin
  <2> QED BY <1>5, <2>1, LaneKept DEF Pin, TypeOK
<1>6. ASSUME NEW t \in Tasks, LeaseLookup(t) \/ LeaseInsert(t)
      PROVE  LaneInv'
  <2>1. cap[t] \in AllPublished /\ ~leased[t]
    BY <1>6 DEF TypeOK, LeaseLookup, LeaseInsert
  <2>2. CASE LeaseLookup(t) /\ leases = 0
    BY <2>2, LaneKept DEF LeaseLookup
  <2>3. CASE Lease(t)
    <3>1. Leaseholders' = Leaseholders \cup {t} /\ t \notin Leaseholders
      BY <2>1, <2>3 DEF Lease, Leaseholders, TypeOK
    <3>2. LaneWhileLeased'
      BY <2>3, <3>1, CardinalityMoves, FiniteAssumption DEF LaneInv, LaneWhileLeased, Lease, Fold, Leaseholders
    <3>3. UNCHANGED <<gen, cap>>
      BY <1>6 DEF LeaseLookup, LeaseInsert
    <3>4. ASSUME NEW u \in Leaseholders
          PROVE  gen[u] <= laneGen' /\ (gen[u] = laneGen' => ~Stricter(cap[u], lane'))
      <4>1. leases > 0
        <5>1. Leaseholders \in SUBSET Tasks /\ Leaseholders # {}
          BY DEF Leaseholders
        <5>2. Cardinality(Leaseholders) \in Nat \ {0}
          BY <5>1, CardinalityMoves, FiniteAssumption
        <5> QED BY <5>2 DEF LaneInv, LaneWhileLeased
      <4>2. gen[u] <= laneGen /\ (gen[u] = laneGen => ~Stricter(cap[u], lane))
        BY DEF LaneInv, StrictestLaneGoverns
      <4>3. /\ laneGen \in Nat /\ laneGen' \in Nat /\ gen[u] \in Nat /\ laneGen <= laneGen'
            /\ laneGen = laneGen' => lane' = lane \/ Stricter(lane', lane)
        BY <2>1, <2>3, <4>1, FoldFacts DEF Lease, TypeOK, Leaseholders
      <4>4. cap[u] \in Lane /\ lane \in Lane /\ lane' \in Lane
        BY <2>1, <2>3, <4>1, FoldFacts, PublishedLanes DEF Lease, TypeOK, Leaseholders
      <4>5. ~Stricter(cap[u], lane) /\ Stricter(lane', lane) => ~Stricter(cap[u], lane')
        BY <4>4, StricterOrder
      <4> QED BY <4>2, <4>3, <4>5
    <3>5. gen[t] <= laneGen' /\ (gen[t] = laneGen' => ~Stricter(cap[t], lane'))
      BY <2>1, <2>3, FoldFacts DEF Lease
    <3>6. StrictestLaneGoverns'
      BY <3>1, <3>3, <3>4, <3>5 DEF StrictestLaneGoverns
    <3> QED BY <3>2, <3>6 DEF LaneInv
  <2> QED BY <1>6, <2>2, <2>3 DEF LeaseLookup, LeaseInsert
<1>7. ASSUME NEW t \in Tasks, Resolve(t)
      PROVE  LaneInv'
  <2>1. CASE leased[t]
    <3>1. Leaseholders' = Leaseholders \ {t} /\ t \in Leaseholders
      BY <1>7, <2>1 DEF Resolve, Leaseholders, TypeOK
    <3>2. Leaseholders \in SUBSET Tasks /\ Leaseholders' \in SUBSET Tasks
      BY DEF Leaseholders
    <3>3. leases' = Cardinality(Leaseholders') /\ leases' \in Nat
      BY <1>7, <2>1, <3>1, <3>2, CardinalityMoves, FiniteAssumption DEF LaneInv, LaneWhileLeased, Resolve, Unlease
    <3>4. ASSUME NEW u \in Leaseholders'
          PROVE  gen'[u] <= laneGen' /\ (gen'[u] = laneGen' => ~Stricter(cap'[u], lane'))
      <4>1. u # t /\ u \in Leaseholders /\ u \in Tasks
        BY <3>1, <3>2
      <4>2. gen'[u] = gen[u] /\ cap'[u] = cap[u]
        BY <1>7, <4>1 DEF Resolve, Finish, TypeOK
      <4>3. leases' # 0
        BY <3>2, <3>3, CardinalityMoves, FiniteAssumption
      <4>4. UNCHANGED <<laneGen, lane>>
        BY <1>7, <2>1, <4>3 DEF Resolve, Unlease, TypeOK
      <4> QED BY <4>1, <4>2, <4>4 DEF LaneInv, StrictestLaneGoverns
    <3> QED BY <3>3, <3>4 DEF LaneInv, LaneWhileLeased, StrictestLaneGoverns
  <2>2. CASE ~leased[t]
    <3>1. leased' = leased
      BY <1>7, <2>2 DEF Resolve, TypeOK
    <3>2. \A u \in Tasks : leased[u] => cap'[u] = cap[u] /\ gen'[u] = gen[u]
      BY <1>7, <2>2 DEF Resolve, Finish, TypeOK
    <3> QED BY <1>7, <2>2, <3>1, <3>2, LaneKept DEF Resolve
  <2> QED BY <2>1, <2>2
<1> QED BY <1>1, <1>2, <1>3, <1>4, <1>5, <1>6, <1>7 DEF Next, Dispatch, Admission

-----------------------------------------------------------------------------
\* The initial state satisfies the invariant.
LEMMA InitInv == Init => IInv
<1> SUFFICES ASSUME Init PROVE IInv
  OBVIOUS
<1> USE BoundAssumption DEF Init
<1>1. TypeOK
  BY DEF TypeOK, PCs
<1>2. \A p \in Ports : Holding(p) = {}
  BY PortAssumption DEF Holding
<1>3. CountInv
  BY <1>2, FS_EmptySet DEF CountInv, CountsAreExact, CapHeld
<1>4. Leaseholders = {}
  BY DEF Leaseholders
<1>5. LaneInv
  BY <1>4, FS_EmptySet DEF LaneInv, LaneWhileLeased, StrictestLaneGoverns
<1> QED BY <1>1, <1>3, <1>5 DEF IInv

\* The inductive invariant holds of the limiter and the registry of
\* backend_conn_limit.rs, whatever the policies and however many dispatches.
THEOREM LimiterInvariant == SafeSpec => []IInv
<1>1. IInv /\ [Next]_vars => IInv'
  BY TypeStep, CountStep, LaneStep DEF IInv, CountInv, LaneInv
<1> QED BY <1>1, InitInv, PTL DEF SafeSpec

\* Types are never violated.
THEOREM TypeCorrect == SafeSpec => []TypeOK
BY LimiterInvariant, PTL DEF IInv

\* Every socket slot is counted exactly once and every idle counter evicted,
\* through both sections of acquire_slot and the shared guard's drop.
THEOREM CountersExact == SafeSpec => []CountsAreExact
BY LimiterInvariant, PTL DEF IInv, CountInv

\* No interleaving of acquirers opens more sockets to a policy port than some
\* generation allowed.
THEOREM CapsHold == SafeSpec => []CapHeld
BY LimiterInvariant, PTL DEF IInv, CountInv

\* lease_lane and the lease's drop keep the lane registered exactly while a
\* capped dispatch is in flight.
THEOREM LanesFollowLeases == SafeSpec => []LaneWhileLeased
BY LimiterInvariant, PTL DEF IInv, LaneInv

\* The lane the connector reads is the strictest of the newest generation in
\* flight.
THEOREM StrictestGoverns == SafeSpec => []StrictestLaneGoverns
BY LimiterInvariant, PTL DEF IInv, LaneInv
=============================================================================
