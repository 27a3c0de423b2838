--------------------------- MODULE TlsLeaseProofs ---------------------------
(***************************************************************************)
(* Safety of the renewal lease for any number of instances, with or        *)
(* without distinct identities, any TTL and any retention.                 *)
(***************************************************************************)
EXTENDS TlsLease, TLAPS

\* The fence of a claim runs ahead of, or behind, its acquisition number as
\* much as the record's does: prune_expired moves the offset, but only when
\* nothing is under way.
Aligned(c) == c.serial > 0 /\ c.fence + rec.serial = c.serial + rec.fence

KeeperInv ==
  /\ \A i \in Instances : phase[i] # "idle" \/ loop[i] # "off" => claim[i] # NoClaim
  /\ \A i \in Instances : claim[i] # NoClaim => Aligned(claim[i])

PoolInv == \A task \in tasks \cup locked : Aligned(task)

RecordInv ==
  /\ Prunable => Quiet
  /\ ~Prunable => rec.serial = acquisitions

LeaseInv == TypeOK /\ KeeperInv /\ PoolInv /\ RecordInv /\ NoStaleCommit

-----------------------------------------------------------------------------
\* A claim or task that matches the record was made by the latest acquisition.
LEMMA MatchIsLatest ==
  ASSUME LeaseInv, ~Prunable, NEW c, c.fence \in Nat, c.serial \in Nat,
         Aligned(c), rec.fence = c.fence
  PROVE  c.serial = acquisitions
  BY DEF LeaseInv, TypeOK, RecordInv, Aligned

\* A live record is inside its retention.
LEMMA LiveIsKept ==
  ASSUME LeaseInv, IsLive
  PROVE  ~Prunable
  BY LeaseAssumption DEF LeaseInv, TypeOK, IsLive, Prunable

\* While anything is under way the record is inside its retention.
LEMMA BusyIsKept ==
  ASSUME LeaseInv, NEW task \in tasks
  PROVE  ~Prunable
  BY DEF LeaseInv, RecordInv, Quiet

\* The same for an instance that holds a claim.
LEMMA ClaimIsKept ==
  ASSUME LeaseInv, NEW i \in Instances, claim[i] # NoClaim
  PROVE  ~Prunable
  BY DEF LeaseInv, RecordInv, Quiet

-----------------------------------------------------------------------------
(* Type correctness *)

\* The initial state has the right types.
LEMMA LeaseTypeInit == Init => TypeOK
  BY LeaseAssumption DEF Init, TypeOK, NoRecord, NoClaim, Phases

\* A task spawned by a keeper is well formed.
LEMMA TaskType ==
  ASSUME TypeOK, NEW i \in Instances, NEW k \in Kinds
  PROVE  Task(k, i) \in Tasks
  BY DEF TypeOK, Task, Tasks

\* So is an extended or released record.
LEMMA RecordType ==
  ASSUME TypeOK, NEW i \in Instances, NEW f
  PROVE  /\ Renewed(i, f) \in [holder : {Holder[j] : j \in Instances} \cup {"none"},
                               fence : Nat, left : (-Retention)..TTL, serial : Nat]
         /\ ReleasedRec(i, f) \in [holder : {Holder[j] : j \in Instances} \cup {"none"},
                                   fence : Nat, left : (-Retention)..TTL, serial : Nat]
  BY LeaseAssumption DEF TypeOK, Renewed, ReleasedRec

\* Every step keeps the types.
LEMMA LeaseTypeStep == TypeOK /\ [Next]_vars => TypeOK'
<1> SUFFICES ASSUME TypeOK, [Next]_vars
             PROVE  TypeOK'
  OBVIOUS
<1> USE LeaseAssumption
<1>1. ASSUME NEW i \in Instances, TryAcquire(i)
      PROVE  TypeOK'
  BY <1>1 DEF TypeOK, TryAcquire, NextFence, Phases
<1>2. ASSUME NEW i \in Instances, Heartbeat(i)
      PROVE  TypeOK'
  <2>1. Task("beat", i) \in Tasks /\ Task("release", i) \in Tasks
    BY TaskType DEF Kinds
  <2>2. CASE BeatStarts(i)
    BY <2>1, <2>2 DEF TypeOK, BeatStarts, Spawn
  <2>3. CASE LoopStops(i)
    BY <2>3 DEF TypeOK, LoopStops
  <2>4. CASE FinishReleases(i)
    BY <2>1, <2>4 DEF TypeOK, FinishReleases, Spawn, Phases
  <2> QED
    BY <1>2, <2>2, <2>3, <2>4 DEF Heartbeat
<1>3. ASSUME NEW i \in Instances, Renewal(i)
      PROVE  TypeOK'
  <2>1. Task("refresh", i) \in Tasks /\ Task("commit", i) \in Tasks
    BY TaskType DEF Kinds
  <2>2. CASE RefreshStarts(i)
    BY <2>1, <2>2 DEF TypeOK, RefreshStarts, Spawn, Phases
  <2>3. CASE CommitStarts(i)
    BY <2>1, <2>3 DEF TypeOK, CommitStarts, Spawn, Phases
  <2>4. CASE CleanupEnds(i)
    BY <2>4 DEF TypeOK, CleanupEnds, Phases
  <2>5. CASE EnsureOwnedFails(i)
    BY <2>5 DEF TypeOK, EnsureOwnedFails, MarkLost
  <2>6. CASE Finish(i)
    BY <2>6 DEF TypeOK, Finish, Phases
  <2> QED
    BY <1>3, <2>2, <2>3, <2>4, <2>5, <2>6 DEF Renewal
<1>4. ASSUME NEW i \in Instances, DropKeeper(i)
      PROVE  TypeOK'
  <2>1. Task("release", i) \in Tasks
    BY TaskType DEF Kinds
  <2> QED
    BY <1>4, <2>1 DEF TypeOK, DropKeeper, Forget, Spawn, NoClaim, Phases
<1>5. ASSUME NEW i \in Instances, Crash(i)
      PROVE  TypeOK'
  BY <1>5 DEF TypeOK, Crash, Forget, NoClaim, Phases
<1>6. ASSUME NEW task \in tasks, PoolStep(task)
      PROVE  TypeOK'
  <2>0. task.inst \in Instances
    BY DEF TypeOK, Tasks
  <2>1. ASSUME NEW reached \in BOOLEAN, BeatEnds(task, reached)
        PROVE  TypeOK'
    BY <2>0, <2>1, RecordType DEF TypeOK, BeatEnds
  <2>2. ASSUME NEW reached \in BOOLEAN, RefreshEnds(task, reached)
        PROVE  TypeOK'
    BY <2>0, <2>2, RecordType DEF TypeOK, RefreshEnds, Phases
  <2>3. ASSUME NEW reached \in BOOLEAN, ReleaseEnds(task, reached)
        PROVE  TypeOK'
    <3>0. /\ rec' = rec \/ rec' = ReleasedRec(task.inst, task.fence)
          /\ tasks' \subseteq tasks
          /\ UNCHANGED <<acquisitions, locked, lastWriter>>
      BY <2>3 DEF ReleaseEnds
    <3>1. CASE Awaited(task)
      <4>1. Forget(task.inst)
        BY <2>3, <3>1 DEF ReleaseEnds
      <4> QED
        BY <2>0, <3>0, <4>1, RecordType DEF TypeOK, Forget, NoClaim, Phases
    <3>2. CASE ~Awaited(task)
      BY <2>0, <2>3, <3>0, <3>2, RecordType DEF TypeOK, ReleaseEnds, keepers
    <3> QED
      BY <3>1, <3>2
  <2>4. CASE CommitLocks(task)
    BY <2>4 DEF TypeOK, CommitLocks, keepers
  <2>5. CASE CommitRefused(task)
    BY <2>0, <2>5 DEF TypeOK, CommitRefused, MarkLost, Phases
  <2> QED
    BY <1>6, <2>1, <2>2, <2>3, <2>4, <2>5 DEF PoolStep
<1>7. ASSUME NEW task \in locked, CommitWrites(task)
      PROVE  TypeOK'
  <2>0. task.inst \in Instances /\ task.serial \in Nat
    BY DEF TypeOK, Tasks
  <2> QED
    BY <1>7, <2>0 DEF TypeOK, CommitWrites, Phases
<1>8. CASE PruneExpired
  BY <1>8 DEF TypeOK, PruneExpired, NoRecord, keepers
<1>9. CASE ClockTick
  BY <1>9 DEF TypeOK, ClockTick, Prunable, keepers
<1>10. CASE UNCHANGED vars
  BY <1>10 DEF TypeOK, vars
<1> QED
  BY <1>1, <1>2, <1>3, <1>4, <1>5, <1>6, <1>7, <1>8, <1>9, <1>10 DEF Next

\* Every variable of the lease table and of its keepers keeps its type.
THEOREM LeaseTypeCorrect == Spec => []TypeOK
  BY LeaseTypeInit, LeaseTypeStep, PTL DEF Spec

-----------------------------------------------------------------------------
(* Ownership *)

\* What every step but an acquisition, a pruning and a tick of the clock does:
\* guards and tasks only ever come from guards, only the latest acquisition
\* enters the lock, and the record keeps its fence.
Shape ==
  /\ acquisitions' = acquisitions
  /\ \A i \in Instances : claim'[i] = claim[i] \/ claim'[i] = NoClaim
  /\ \A i \in Instances : phase'[i] # "idle" \/ loop'[i] # "off" => claim'[i] # NoClaim
  /\ \A task \in tasks' :
       \/ task \in tasks
       \/ \E i \in Instances : /\ claim[i] # NoClaim
                               /\ task.fence = claim[i].fence
                               /\ task.serial = claim[i].serial
  /\ \A task \in locked' : task \in tasks \cup locked /\ task.serial = acquisitions
  /\ rec'.fence = rec.fence /\ rec'.serial = rec.serial
  /\ rec' # rec => ~Prunable /\ ~Prunable'
  /\ Prunable => Quiet'

\* A step of that shape keeps the invariant.
LEMMA ShapeKeepsInv ==
  ASSUME LeaseInv, TypeOK', Shape
  PROVE  LeaseInv'
<1>1. \A c : Aligned(c) => Aligned(c)'
  BY DEF Shape, Aligned
<1>2. KeeperInv'
  BY DEF Shape, KeeperInv, LeaseInv, Aligned
<1>3. PoolInv'
  <2> SUFFICES ASSUME NEW task \in tasks' \cup locked'
               PROVE  Aligned(task)'
    BY DEF PoolInv
  <2>1. CASE task \in tasks \cup locked
    BY <1>1, <2>1 DEF LeaseInv, PoolInv
  <2>2. CASE task \notin tasks \cup locked
    BY <2>2 DEF LeaseInv, KeeperInv, Shape, Aligned
  <2> QED
    BY <2>1, <2>2
<1>4. RecordInv'
  <2>1. CASE rec' = rec
    BY <2>1 DEF RecordInv, LeaseInv, Shape, Prunable
  <2>2. CASE rec' # rec
    BY <2>2 DEF RecordInv, LeaseInv, Shape
  <2> QED
    BY <2>1, <2>2
<1>5. NoStaleCommit'
  BY DEF NoStaleCommit, Shape
<1> QED
  BY <1>2, <1>3, <1>4, <1>5 DEF LeaseInv

\* Tasks and claims of a state that satisfies the invariant.
LEMMA PoolFacts ==
  ASSUME LeaseInv, NEW task \in tasks \cup locked
  PROVE  /\ task.inst \in Instances
         /\ task.fence \in Nat
         /\ task.serial \in Nat
         /\ task.serial > 0
         /\ Awaited(task) => claim[task.inst] # NoClaim
         /\ ~Prunable
  BY DEF LeaseInv, TypeOK, Tasks, PoolInv, Aligned, Awaited, NoClaim, RecordInv, Quiet

\* A store operation that ends leaves the record's identity alone, and changes
\* it only inside the retention.
LEMMA RecordMoves ==
  ASSUME LeaseInv, ~Prunable, NEW i \in Instances, NEW f,
         rec' = rec \/ rec' = Renewed(i, f) \/ rec' = ReleasedRec(i, f)
  PROVE  /\ rec'.fence = rec.fence
         /\ rec'.serial = rec.serial
         /\ ~Prunable'
  BY LeaseAssumption DEF LeaseInv, TypeOK, Renewed, ReleasedRec, Prunable

\* Every step of an instance has that shape.
LEMMA InstanceShape ==
  ASSUME LeaseInv, NEW i \in Instances,
         Heartbeat(i) \/ Renewal(i) \/ DropKeeper(i) \/ Crash(i)
  PROVE  Shape
<1>0. ASSUME phase[i] # "idle" \/ loop[i] # "off"
      PROVE  claim[i] # NoClaim /\ ~Prunable
  BY <1>0, ClaimIsKept DEF LeaseInv, KeeperInv
<1>1. CASE BeatStarts(i)
  BY <1>0, <1>1 DEF LeaseInv, TypeOK, KeeperInv, NoStaleCommit, Shape, BeatStarts, Spawn, Task
<1>2. CASE LoopStops(i)
  BY <1>0, <1>2 DEF LeaseInv, TypeOK, KeeperInv, NoStaleCommit, Shape, LoopStops
<1>3. CASE FinishReleases(i)
  BY <1>0, <1>3 DEF LeaseInv, TypeOK, KeeperInv, NoStaleCommit, Shape, FinishReleases, Spawn, Task
<1>4. CASE RefreshStarts(i)
  BY <1>0, <1>4 DEF LeaseInv, TypeOK, KeeperInv, NoStaleCommit, Shape, RefreshStarts, Spawn, Task
<1>5. CASE CommitStarts(i)
  BY <1>0, <1>5 DEF LeaseInv, TypeOK, KeeperInv, NoStaleCommit, Shape, CommitStarts, Spawn, Task
<1>6. CASE CleanupEnds(i)
  BY <1>0, <1>6 DEF LeaseInv, TypeOK, KeeperInv, NoStaleCommit, Shape, CleanupEnds
<1>7. CASE EnsureOwnedFails(i)
  BY <1>0, <1>7 DEF LeaseInv, TypeOK, KeeperInv, NoStaleCommit, Shape, EnsureOwnedFails
<1>8. CASE Finish(i)
  BY <1>0, <1>8 DEF LeaseInv, TypeOK, KeeperInv, NoStaleCommit, Shape, Finish
<1>9. CASE DropKeeper(i)
  BY <1>0, <1>9 DEF LeaseInv, TypeOK, KeeperInv, NoStaleCommit, Shape, DropKeeper, Forget, Spawn, Task
<1>10. CASE Crash(i)
  BY <1>10 DEF LeaseInv, TypeOK, KeeperInv, RecordInv, Quiet, NoStaleCommit, Shape, Crash, Forget
<1> QED
  BY <1>1, <1>2, <1>3, <1>4, <1>5, <1>6, <1>7, <1>8, <1>9, <1>10 DEF Heartbeat, Renewal

\* So has every store operation that ends.
LEMMA PoolShape ==
  ASSUME LeaseInv, NEW task \in tasks, PoolStep(task)
  PROVE  Shape
<1>0. /\ task.inst \in Instances /\ task.fence \in Nat /\ task.serial \in Nat
      /\ ~Prunable
      /\ Aligned(task)
      /\ Awaited(task) => claim[task.inst] # NoClaim
  BY PoolFacts DEF LeaseInv, PoolInv
<1>1. ASSUME NEW reached \in BOOLEAN, BeatEnds(task, reached)
      PROVE  Shape
  <2>1. rec'.fence = rec.fence /\ rec'.serial = rec.serial /\ ~Prunable'
    BY <1>0, <1>1, RecordMoves DEF BeatEnds
  <2> QED
    BY <1>0, <1>1, <2>1 DEF LeaseInv, TypeOK, KeeperInv, NoStaleCommit, Shape, BeatEnds
<1>2. ASSUME NEW reached \in BOOLEAN, RefreshEnds(task, reached)
      PROVE  Shape
  <2>1. rec'.fence = rec.fence /\ rec'.serial = rec.serial /\ ~Prunable'
    BY <1>0, <1>2, RecordMoves DEF RefreshEnds
  <2> QED
    BY <1>0, <1>2, <2>1 DEF LeaseInv, TypeOK, KeeperInv, NoStaleCommit, Shape, RefreshEnds
<1>3. ASSUME NEW reached \in BOOLEAN, ReleaseEnds(task, reached)
      PROVE  Shape
  <2>1. rec'.fence = rec.fence /\ rec'.serial = rec.serial /\ ~Prunable'
    BY <1>0, <1>3, RecordMoves DEF ReleaseEnds
  <2>2. CASE Awaited(task)
    BY <1>0, <1>3, <2>1, <2>2
    DEF LeaseInv, TypeOK, KeeperInv, NoStaleCommit, Shape, ReleaseEnds, Forget
  <2>3. CASE ~Awaited(task)
    BY <1>0, <1>3, <2>1, <2>3
    DEF LeaseInv, TypeOK, KeeperInv, NoStaleCommit, Shape, ReleaseEnds, keepers
  <2> QED
    BY <2>2, <2>3
<1>4. CASE CommitLocks(task)
  <2>1. task.serial = acquisitions
    BY <1>0, <1>4, MatchIsLatest DEF CommitLocks, IsOwner, Matches
  <2> QED
    BY <1>0, <1>4, <2>1 DEF LeaseInv, TypeOK, KeeperInv, Shape, CommitLocks, keepers
<1>5. CASE CommitRefused(task)
  BY <1>0, <1>5 DEF LeaseInv, TypeOK, KeeperInv, NoStaleCommit, Shape, CommitRefused
<1> QED
  BY <1>1, <1>2, <1>3, <1>4, <1>5 DEF PoolStep

\* And the write of a fenced commit.
LEMMA CommitShape ==
  ASSUME LeaseInv, NEW task \in locked, CommitWrites(task)
  PROVE  Shape
<1>0. /\ task.inst \in Instances /\ ~Prunable
      /\ Awaited(task) => claim[task.inst] # NoClaim
  BY PoolFacts
<1> QED
  BY <1>0 DEF LeaseInv, TypeOK, KeeperInv, Shape, CommitWrites

\* The invariant is inductive.
LEMMA LeaseInvStep == LeaseInv /\ [Next]_vars => LeaseInv'
<1> SUFFICES ASSUME LeaseInv, [Next]_vars
             PROVE  LeaseInv'
  OBVIOUS
<1>0. TypeOK /\ TypeOK'
  BY LeaseTypeStep DEF LeaseInv
<1>1. ASSUME NEW i \in Instances, TryAcquire(i)
      PROVE  LeaseInv'
  <2> DEFINE new == [fence |-> NextFence, serial |-> acquisitions + 1]
  <2>1. /\ rec'.fence = NextFence /\ rec'.serial = acquisitions + 1 /\ rec'.left = TTL
        /\ acquisitions' = acquisitions + 1
        /\ claim' = [claim EXCEPT ![i] = new]
        /\ tasks' = tasks /\ locked = {} /\ locked' = {}
    BY <1>1 DEF TryAcquire, LockFree
  <2>2. ~Prunable'
    BY <2>1, LeaseAssumption DEF Prunable
  <2>3. acquisitions \in Nat /\ rec.fence \in Nat /\ NextFence \in Nat
    BY <1>0 DEF TypeOK, NextFence
  <2>4. ASSUME NEW c, c.fence \in Nat, c.serial \in Nat, Aligned(c), ~Prunable
        PROVE  Aligned(c)'
    <3>1. rec.serial = acquisitions /\ NextFence = rec.fence + 1
      BY <2>4 DEF LeaseInv, RecordInv, NextFence
    <3> QED
      BY <2>1, <2>3, <2>4, <3>1 DEF Aligned
  <2>5. /\ new.serial > 0 /\ new.fence + rec'.serial = new.serial + rec'.fence
        /\ new # NoClaim
    BY <2>1, <2>3 DEF NoClaim
  <2>6. KeeperInv'
    <3> SUFFICES ASSUME NEW j \in Instances
                 PROVE  /\ phase'[j] # "idle" \/ loop'[j] # "off" => claim'[j] # NoClaim
                        /\ claim'[j] # NoClaim => Aligned(claim[j])'
      BY DEF KeeperInv
    <3>1. CASE j = i
      <4>1. claim'[j] = new
        BY <1>0, <2>1, <3>1 DEF TypeOK
      <4> QED
        BY <4>1, <2>1, <2>3, <2>5 DEF Aligned
    <3>2. CASE j # i
      <4>1. claim'[j] = claim[j] /\ phase'[j] = phase[j] /\ loop'[j] = loop[j]
        BY <1>0, <1>1, <3>2 DEF TypeOK, TryAcquire
      <4>2. claim[j].fence \in Nat /\ claim[j].serial \in Nat
        BY <1>0 DEF TypeOK
      <4>3. claim[j] # NoClaim => ~Prunable /\ Aligned(claim[j])
        BY ClaimIsKept DEF LeaseInv, KeeperInv
      <4>4. claim[j] # NoClaim => rec.serial = acquisitions /\ NextFence = rec.fence + 1
        BY <4>3 DEF LeaseInv, RecordInv, NextFence
      <4> QED
        BY <2>1, <2>3, <4>1, <4>2, <4>3, <4>4 DEF LeaseInv, KeeperInv, Aligned
    <3> QED
      BY <3>1, <3>2
  <2>7. PoolInv'
    <3> SUFFICES ASSUME NEW task \in tasks
                 PROVE  Aligned(task)'
      BY <2>1 DEF PoolInv
    <3>1. task.fence \in Nat /\ task.serial \in Nat /\ Aligned(task) /\ ~Prunable
      BY PoolFacts DEF LeaseInv, PoolInv
    <3> QED
      BY <2>4, <3>1
  <2>8. RecordInv' /\ NoStaleCommit'
    BY <2>1, <2>2 DEF RecordInv, NoStaleCommit
  <2> QED
    BY <1>0, <2>6, <2>7, <2>8 DEF LeaseInv
<1>2. ASSUME NEW i \in Instances, Heartbeat(i) \/ Renewal(i) \/ DropKeeper(i) \/ Crash(i)
      PROVE  LeaseInv'
  BY <1>0, <1>2, InstanceShape, ShapeKeepsInv
<1>3. ASSUME NEW task \in tasks, PoolStep(task)
      PROVE  LeaseInv'
  BY <1>0, <1>3, PoolShape, ShapeKeepsInv
<1>4. ASSUME NEW task \in locked, CommitWrites(task)
      PROVE  LeaseInv'
  BY <1>0, <1>4, CommitShape, ShapeKeepsInv
<1>5. CASE PruneExpired
  <2>1. /\ tasks' = {} /\ locked' = {}
        /\ \A i \in Instances : claim'[i] = NoClaim
        /\ UNCHANGED <<acquisitions, claim, phase, loop>>
    BY <1>5 DEF LeaseInv, RecordInv, PruneExpired, Quiet, keepers
  <2>2. KeeperInv' /\ PoolInv' /\ NoStaleCommit'
    BY <2>1 DEF LeaseInv, KeeperInv, PoolInv, NoStaleCommit
  <2>3. Prunable' /\ Quiet'
    BY <1>5, <2>1, LeaseAssumption DEF PruneExpired, NoRecord, Prunable, Quiet
  <2> QED
    BY <1>0, <2>2, <2>3 DEF LeaseInv, RecordInv
<1>6. CASE ClockTick
  <2>1. /\ rec'.fence = rec.fence /\ rec'.serial = rec.serial /\ rec'.left = rec.left - 1
        /\ UNCHANGED <<acquisitions, claim, phase, loop, tasks, locked>>
    BY <1>0, <1>6 DEF TypeOK, ClockTick, keepers
  <2>2. RecordInv'
    BY <1>0, <1>6, <2>1 DEF LeaseInv, TypeOK, RecordInv, ClockTick, Prunable, Quiet
  <2> QED
    BY <1>0, <2>1, <2>2 DEF LeaseInv, KeeperInv, PoolInv, NoStaleCommit, Aligned
<1>7. CASE UNCHANGED vars
  BY <1>0, <1>7
  DEF vars, LeaseInv, KeeperInv, PoolInv, RecordInv, NoStaleCommit, Aligned, Prunable, Quiet
<1> QED
  BY <1>1, <1>2, <1>3, <1>4, <1>5, <1>6, <1>7 DEF Next

\* Nothing is under way in the initial state.
LEMMA LeaseInvInit == Init => LeaseInv
  BY LeaseTypeInit
  DEF Init, LeaseInv, KeeperInv, PoolInv, RecordInv, NoStaleCommit, Quiet, Prunable, NoRecord, NoClaim

\* No superseded owner writes: for any number of instances, even ones that share
\* an identity, a commit_fenced closure runs only for the latest acquisition.
THEOREM CommitsAreCurrent == Spec => []NoStaleCommit
<1>1. LeaseInv => NoStaleCommit
  BY DEF LeaseInv
<1> QED
  BY <1>1, LeaseInvInit, LeaseInvStep, PTL DEF Spec

\* No two renewals both own the certificate: the ownership test of is_owner,
\* renew_claim and commit_fenced passes for the latest acquisition only.
THEOREM OwnersAreLatest == Spec => []OwnerIsLatest
<1>1. LeaseInv => OwnerIsLatest
  <2> SUFFICES ASSUME LeaseInv, NEW i \in Instances,
                      claim[i] # NoClaim, IsOwner(i, claim[i].fence)
               PROVE  claim[i].serial = acquisitions
    BY DEF OwnerIsLatest
  <2>1. ~Prunable /\ Aligned(claim[i]) /\ rec.fence = claim[i].fence
    BY LiveIsKept DEF IsOwner, Matches, LeaseInv, KeeperInv
  <2>2. claim[i].fence \in Nat /\ claim[i].serial \in Nat
    BY DEF LeaseInv, TypeOK
  <2> QED
    BY <2>1, <2>2, MatchIsLatest
<1> QED
  BY <1>1, LeaseInvInit, LeaseInvStep, PTL DEF Spec

\* A store operation that changes the record was started under the latest
\* acquisition.
LEMMA ChangeIsLatest ==
  ASSUME LeaseInv, NEW task \in tasks,
         rec' = rec \/ rec' = Renewed(task.inst, task.fence)
                    \/ rec' = ReleasedRec(task.inst, task.fence),
         rec' # rec
  PROVE  task.serial = acquisitions
<1>1. rec.fence = task.fence
  BY DEF Renewed, ReleasedRec, IsOwner, Matches
<1>2. task.fence \in Nat /\ task.serial \in Nat /\ Aligned(task) /\ ~Prunable
  BY PoolFacts DEF LeaseInv, PoolInv
<1> QED
  BY <1>1, <1>2, MatchIsLatest

\* What a task does when it ends: it leaves the pool alone, and with it the
\* record is unchanged, extended or released.
LEMMA PoolStepEffect ==
  ASSUME NEW task \in tasks, PoolStep(task)
  PROVE  /\ tasks' = tasks \ {task}
         /\ \/ rec' = rec
            \/ rec' = Renewed(task.inst, task.fence)
            \/ rec' = ReleasedRec(task.inst, task.fence)
<1>1. ASSUME NEW reached \in BOOLEAN, BeatEnds(task, reached)
      PROVE  tasks' = tasks \ {task} /\ (rec' = rec \/ rec' = Renewed(task.inst, task.fence))
  BY <1>1 DEF BeatEnds
<1>2. ASSUME NEW reached \in BOOLEAN, RefreshEnds(task, reached)
      PROVE  tasks' = tasks \ {task} /\ (rec' = rec \/ rec' = Renewed(task.inst, task.fence))
  BY <1>2 DEF RefreshEnds
<1>3. ASSUME NEW reached \in BOOLEAN, ReleaseEnds(task, reached)
      PROVE  tasks' = tasks \ {task} /\ (rec' = rec \/ rec' = ReleasedRec(task.inst, task.fence))
  BY <1>3 DEF ReleaseEnds
<1>4. ASSUME CommitLocks(task) \/ CommitRefused(task)
      PROVE  tasks' = tasks \ {task} /\ rec' = rec
  BY <1>4 DEF CommitLocks, CommitRefused
<1> QED
  BY <1>1, <1>2, <1>3, <1>4 DEF PoolStep

\* An extension or a release that outlives its keeper, or its whole claim,
\* cannot touch a later claim, whoever made it.
THEOREM SupersededTasksDoNothing == Spec => SupersededTasksAreHarmless
<1> DEFINE Harmless == \A task \in tasks \ tasks' : task.serial # acquisitions => rec' = rec
<1>1. LeaseInv /\ [Next]_vars => [Harmless]_vars
  <2> SUFFICES ASSUME LeaseInv, Next
               PROVE  Harmless
    OBVIOUS
  <2>1. ASSUME NEW task \in tasks, PoolStep(task)
        PROVE  Harmless
    BY <2>1, PoolStepEffect, ChangeIsLatest
  <2>2. ASSUME NEW task \in locked, CommitWrites(task)
        PROVE  Harmless
    BY <2>2 DEF CommitWrites
  <2>3. CASE PruneExpired \/ ClockTick
    BY <2>3 DEF PruneExpired, ClockTick
  <2>4. ASSUME NEW i \in Instances,
               TryAcquire(i) \/ Heartbeat(i) \/ Renewal(i) \/ DropKeeper(i) \/ Crash(i)
        PROVE  Harmless
    <3>1. tasks \subseteq tasks' \/ rec' = rec
      BY <2>4
      DEF TryAcquire, Heartbeat, BeatStarts, LoopStops, FinishReleases, Renewal, RefreshStarts,
          CleanupEnds, EnsureOwnedFails, CommitStarts, Finish, DropKeeper, Crash, Spawn
    <3> QED
      BY <3>1
  <2> QED
    BY <2>1, <2>2, <2>3, <2>4 DEF Next
<1>2. LeaseInv /\ [Next]_vars
        => [\A task \in tasks \ tasks' : task.serial # acquisitions => rec' = rec]_vars
  BY <1>1
<1> QED
  BY <1>2, LeaseInvInit, LeaseInvStep, PTL DEF Spec, SupersededTasksAreHarmless

\* "A single detached in-flight beat cannot resurrect the claim": only an
\* acquisition makes an expired or released claim live again.
THEOREM OnlyAcquisitionRevives == Spec => NoResurrection
<1>1. LeaseInv /\ [Next]_vars => [~IsLive /\ IsLive' => acquisitions' = acquisitions + 1]_vars
  <2> SUFFICES ASSUME LeaseInv, Next, ~IsLive, IsLive'
               PROVE  acquisitions' = acquisitions + 1
    OBVIOUS
  <2>0. rec' # rec
    BY DEF IsLive
  <2>1. ASSUME NEW task \in tasks, PoolStep(task)
        PROVE  FALSE
    <3>1. rec' = Renewed(task.inst, task.fence) \/ rec' = ReleasedRec(task.inst, task.fence)
      BY <2>0, <2>1, PoolStepEffect
    <3>2. rec'.left = 0
      BY <2>0, <3>1 DEF Renewed, ReleasedRec, IsOwner, LeaseInv, TypeOK
    <3> QED
      BY <3>2 DEF IsLive
  <2>2. ASSUME NEW task \in locked, CommitWrites(task)
        PROVE  FALSE
    BY <2>0, <2>2 DEF CommitWrites
  <2>3. CASE PruneExpired
    BY <2>3, LeaseAssumption DEF PruneExpired, NoRecord, IsLive
  <2>4. CASE ClockTick
    BY <2>4 DEF ClockTick, IsLive, LeaseInv, TypeOK
  <2>5. ASSUME NEW i \in Instances, Heartbeat(i) \/ Renewal(i) \/ DropKeeper(i) \/ Crash(i)
        PROVE  FALSE
    BY <2>0, <2>5
    DEF Heartbeat, BeatStarts, LoopStops, FinishReleases, Renewal, RefreshStarts,
        CleanupEnds, EnsureOwnedFails, CommitStarts, Finish, DropKeeper, Crash
  <2>6. ASSUME NEW i \in Instances, TryAcquire(i)
        PROVE  acquisitions' = acquisitions + 1
    BY <2>6 DEF TryAcquire
  <2> QED
    BY <2>1, <2>2, <2>3, <2>4, <2>5, <2>6 DEF Next
<1> QED
  BY <1>1, LeaseInvInit, LeaseInvStep, PTL DEF Spec, NoResurrection
=============================================================================
