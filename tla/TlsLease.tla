------------------------------ MODULE TlsLease ------------------------------
(***************************************************************************)
(* The shared renewal lease of src/tls/lease.rs for one lease name, and    *)
(* the RenewalLeaseKeeper each gateway instance runs while it renews the   *)
(* certificate (src/tls/acme.rs).                                          *)
(*                                                                         *)
(* The lease table is a file; SharedStoreFile::mutate_if reads, decides    *)
(* and replaces it under one cross-process lock, so a mutation is one step *)
(* taken while the lock is free.  The exception is commit_fenced, which    *)
(* keeps the lock while the target store is written: two steps.            *)
(*                                                                         *)
(* Store operations run on the blocking pool.  Dropping the future that    *)
(* awaits one does not cancel it, so a task outlives its keeper.           *)
(*                                                                         *)
(* Instants are kept relative to the shared clock: `left` is expires_at -  *)
(* now.  Records are dropped EXPIRED_LEASE_RETENTION_SECONDS after expiry. *)
(***************************************************************************)
EXTENDS Integers, FiniteSets

CONSTANTS
  Instances,        \* gateway processes sharing the store directory
  Holder,           \* Holder[i]: the instance identity of i, possibly shared
  TTL,              \* the lease TTL, in clock ticks
  Retention,        \* EXPIRED_LEASE_RETENTION_SECONDS, in clock ticks
  MaxAcquisitions   \* bound: acquisitions of the lease in one behaviour

ASSUME LeaseAssumption ==
  /\ TTL \in Nat \ {0}
  /\ Retention \in Nat \ {0}
  /\ MaxAcquisitions \in Nat

VARIABLES
  rec,           \* the TlsLeaseRecord, with the acquisition that wrote it (history)
  acquisitions,  \* history: successful acquisitions so far
  claim,         \* the fence of each instance's guard, and its acquisition (history)
  phase,         \* what the renewal of each instance is doing
  loop,          \* its heartbeat_loop
  lost,          \* its loss signal
  tasks,         \* store operations on the blocking pool, waiting for the lock
  locked,        \* the fenced commit that holds the lock, if any
  lastWriter     \* history: the acquisition behind the last target-store write

vars == <<rec, acquisitions, claim, phase, loop, lost, tasks, locked, lastWriter>>
keepers == <<claim, phase, loop, lost>>

NoRecord == [holder |-> "none", fence |-> 0, left |-> -Retention, serial |-> 0]
NoClaim == [fence |-> 0, serial |-> 0]

Phases == {"idle", "working", "refreshing", "cleanup", "committing", "finishing", "releasing"}
Kinds == {"beat", "refresh", "commit", "release"}

Init ==
  /\ rec = NoRecord
  /\ acquisitions = 0
  /\ claim = [i \in Instances |-> NoClaim]
  /\ phase = [i \in Instances |-> "idle"]
  /\ loop = [i \in Instances |-> "off"]
  /\ lost = [i \in Instances |-> FALSE]
  /\ tasks = {}
  /\ locked = {}
  /\ lastWriter = 0

-----------------------------------------------------------------------------
(* The lease table *)

LockFree == locked = {}

\* TlsLeaseRecord::is_live_at
IsLive == rec.left > 0

\* Mutant: an identity is taken for ownership.
MatchesHolderOnly(i, fence) == rec.holder = Holder[i]

Matches(i, fence) == rec.holder = Holder[i] /\ rec.fence = fence

\* The test of is_owner, renew_claim and commit_fenced.
IsOwner(i, fence) == Matches(i, fence) /\ IsLive

\* The retention window of prune_expired has passed.
Prunable == rec.left <= -Retention

\* prune_expired forgets the fence; a record it keeps goes on counting.
NextFence == (IF Prunable THEN 0 ELSE rec.fence) + 1

\* try_acquire, then RenewalLeaseKeeper::start.  A live claim denies everyone,
\* its own holder included.  A denied or failed attempt changes nothing.
TryAcquire(i) ==
  /\ acquisitions < MaxAcquisitions
  /\ phase[i] = "idle"
  /\ LockFree
  /\ ~IsLive
  /\ acquisitions' = acquisitions + 1
  /\ rec' = [holder |-> Holder[i], fence |-> NextFence, left |-> TTL,
             serial |-> acquisitions + 1]
  /\ claim' = [claim EXCEPT ![i] = [fence |-> NextFence, serial |-> acquisitions + 1]]
  /\ phase' = [phase EXCEPT ![i] = "working"]
  /\ loop' = [loop EXCEPT ![i] = "sleeping"]
  /\ lost' = [lost EXCEPT ![i] = FALSE]
  /\ UNCHANGED <<tasks, locked, lastWriter>>

\* prune_expired in the acquisition of some other lease name.
PruneExpired ==
  /\ LockFree
  /\ Prunable
  /\ rec' = NoRecord
  /\ UNCHANGED <<acquisitions, keepers, tasks, locked, lastWriter>>

\* Mutant: an expired claim is extended.
RenewedExpired(i, fence) == IF Matches(i, fence) THEN [rec EXCEPT !.left = TTL] ELSE rec

\* renew_claim
Renewed(i, fence) == IF IsOwner(i, fence) THEN [rec EXCEPT !.left = TTL] ELSE rec

\* Mutant: a release does not look at whose claim it ends.
ReleasedAnyone(i, fence) == [rec EXCEPT !.left = 0]

\* release_claim tests holder and fence, not liveness, and keeps the record.
ReleasedRec(i, fence) == IF Matches(i, fence) THEN [rec EXCEPT !.left = 0] ELSE rec

-----------------------------------------------------------------------------
(* The blocking pool *)

Task(k, i) == [kind |-> k, inst |-> i, fence |-> claim[i].fence, serial |-> claim[i].serial]

Spawn(k, i) == tasks' = tasks \cup {Task(k, i)}

\* The keeper that spawned the task still awaits it.
Awaited(task) == claim[task.inst].serial = task.serial

MarkLost(i) == lost' = [lost EXCEPT ![i] = TRUE]

-----------------------------------------------------------------------------
(* heartbeat_loop *)

\* The sleep ends.  The stop signal is looked at first.
BeatStarts(i) ==
  /\ loop[i] = "sleeping"
  /\ phase[i] # "finishing"
  /\ loop' = [loop EXCEPT ![i] = "beating"]
  /\ Spawn("beat", i)
  /\ UNCHANGED <<rec, acquisitions, claim, phase, lost, locked, lastWriter>>

LoopStops(i) ==
  /\ loop[i] = "sleeping"
  /\ phase[i] = "finishing"
  /\ loop' = [loop EXCEPT ![i] = "off"]
  /\ UNCHANGED <<rec, acquisitions, claim, phase, lost, tasks, locked, lastWriter>>

\* Mutants: an extension that succeeds is repeated without its loop; a loop that
\* lost the claim ends without a word.
BeatRepeats(task, reached) ==
  /\ task.kind = "beat"
  /\ LockFree
  /\ tasks' = IF IsOwner(task.inst, task.fence) THEN tasks ELSE tasks \ {task}
  /\ rec' = Renewed(task.inst, task.fence)
  /\ UNCHANGED <<acquisitions, keepers, locked, lastWriter>>

BeatDiesSilently(task, reached) ==
  /\ task.kind = "beat"
  /\ LockFree
  /\ tasks' = tasks \ {task}
  /\ rec' = Renewed(task.inst, task.fence)
  /\ loop' = IF Awaited(task)
             THEN [loop EXCEPT ![task.inst] = IF IsOwner(task.inst, task.fence)
                                              THEN "sleeping" ELSE "off"]
             ELSE loop
  /\ UNCHANGED <<acquisitions, claim, phase, lost, locked, lastWriter>>

\* An extension ends: it reached the store, or it failed (lock timeout, I/O).
\* Whatever is not "still ours" is loss.
BeatEnds(task, reached) ==
  LET i == task.inst
      ours == reached /\ IsOwner(i, task.fence)
  IN
  /\ task.kind = "beat"
  /\ reached => LockFree
  /\ tasks' = tasks \ {task}
  /\ rec' = IF reached THEN Renewed(i, task.fence) ELSE rec
  /\ IF Awaited(task)
     THEN /\ loop' = [loop EXCEPT ![i] = IF ours THEN "sleeping" ELSE "off"]
          /\ lost' = [lost EXCEPT ![i] = lost[i] \/ ~ours]
     ELSE UNCHANGED <<loop, lost>>
  /\ UNCHANGED <<acquisitions, claim, phase, locked, lastWriter>>

-----------------------------------------------------------------------------
(* The keeper's operations, called by the renewal *)

\* guarded_cleanup: refresh_claim first, the hook only if it succeeds.
RefreshStarts(i) ==
  /\ phase[i] = "working"
  /\ ~lost[i]
  /\ phase' = [phase EXCEPT ![i] = "refreshing"]
  /\ Spawn("refresh", i)
  /\ UNCHANGED <<rec, acquisitions, claim, loop, lost, locked, lastWriter>>

RefreshEnds(task, reached) ==
  LET i == task.inst
      ours == reached /\ IsOwner(i, task.fence)
  IN
  /\ task.kind = "refresh"
  /\ reached => LockFree
  /\ tasks' = tasks \ {task}
  /\ rec' = IF reached THEN Renewed(i, task.fence) ELSE rec
  /\ IF Awaited(task)
     THEN /\ phase' = [phase EXCEPT ![i] = IF ours THEN "cleanup" ELSE "working"]
          /\ lost' = [lost EXCEPT ![i] = lost[i] \/ ~ours]
     ELSE UNCHANGED <<phase, lost>>
  /\ UNCHANGED <<acquisitions, claim, loop, locked, lastWriter>>

\* The hook completes, fails, or is cancelled by the loss signal.
CleanupEnds(i) ==
  /\ phase[i] = "cleanup"
  /\ phase' = [phase EXCEPT ![i] = "working"]
  /\ UNCHANGED <<rec, acquisitions, claim, loop, lost, tasks, locked, lastWriter>>

\* ensure_owned: the claim is not ours, or the table cannot be read.
EnsureOwnedFails(i) ==
  /\ phase[i] = "working"
  /\ ~lost[i]
  /\ MarkLost(i)
  /\ UNCHANGED <<rec, acquisitions, claim, phase, loop, tasks, locked, lastWriter>>

CommitStarts(i) ==
  /\ phase[i] = "working"
  /\ ~lost[i]
  /\ phase' = [phase EXCEPT ![i] = "committing"]
  /\ Spawn("commit", i)
  /\ UNCHANGED <<rec, acquisitions, claim, loop, lost, locked, lastWriter>>

\* commit_fenced: the check, under the lock that the write will be made under.
CommitLocks(task) ==
  /\ task.kind = "commit"
  /\ LockFree
  /\ IsOwner(task.inst, task.fence)
  /\ locked' = {task}
  /\ tasks' = tasks \ {task}
  /\ UNCHANGED <<rec, acquisitions, keepers, lastWriter>>

\* NotOwner, or the lock could not be taken: nothing is written.
CommitRefused(task) ==
  /\ task.kind = "commit"
  /\ tasks' = tasks \ {task}
  /\ IF Awaited(task)
     THEN /\ MarkLost(task.inst)
          /\ phase' = [phase EXCEPT ![task.inst] = "working"]
     ELSE UNCHANGED <<lost, phase>>
  /\ UNCHANGED <<rec, acquisitions, claim, loop, locked, lastWriter>>

\* The closure writes the target store, or fails to, and the lock is released.
CommitWrites(task) ==
  /\ task \in locked
  /\ lastWriter' \in {lastWriter, task.serial}
  /\ locked' = {}
  /\ phase' = IF Awaited(task) THEN [phase EXCEPT ![task.inst] = "working"] ELSE phase
  /\ UNCHANGED <<rec, acquisitions, claim, loop, lost, tasks>>

-----------------------------------------------------------------------------
(* The end of a keeper *)

\* finish: stop_heartbeat, wait for the loop, then release on the pool.
Finish(i) ==
  /\ phase[i] = "working"
  /\ phase' = [phase EXCEPT ![i] = "finishing"]
  /\ UNCHANGED <<rec, acquisitions, claim, loop, lost, tasks, locked, lastWriter>>

FinishReleases(i) ==
  /\ phase[i] = "finishing"
  /\ loop[i] = "off"
  /\ phase' = [phase EXCEPT ![i] = "releasing"]
  /\ Spawn("release", i)
  /\ UNCHANGED <<rec, acquisitions, claim, loop, lost, locked, lastWriter>>

\* The keeper is gone, and its loop with it.
Forget(i) ==
  /\ claim' = [claim EXCEPT ![i] = NoClaim]
  /\ phase' = [phase EXCEPT ![i] = "idle"]
  /\ loop' = [loop EXCEPT ![i] = "off"]
  /\ lost' = [lost EXCEPT ![i] = FALSE]

ReleaseEnds(task, reached) ==
  /\ task.kind = "release"
  /\ reached => LockFree
  /\ tasks' = tasks \ {task}
  /\ rec' = IF reached THEN ReleasedRec(task.inst, task.fence) ELSE rec
  /\ IF Awaited(task) THEN Forget(task.inst) ELSE UNCHANGED keepers
  /\ UNCHANGED <<acquisitions, locked, lastWriter>>

\* RenewalLeaseKeeper::drop at any point: the release is handed to the pool,
\* and operations already there go on without anyone awaiting them.
DropKeeper(i) ==
  /\ phase[i] # "idle"
  /\ Forget(i)
  /\ IF phase[i] = "releasing" THEN UNCHANGED tasks ELSE Spawn("release", i)
  /\ UNCHANGED <<rec, acquisitions, locked, lastWriter>>

\* The process dies with its tasks, and the system drops its file lock.
Crash(i) ==
  /\ Forget(i)
  /\ tasks' = {task \in tasks : task.inst # i}
  /\ locked' = {task \in locked : task.inst # i}
  /\ UNCHANGED <<rec, acquisitions, lastWriter>>

-----------------------------------------------------------------------------
\* No operation is under way, in any instance.
Quiet == tasks = {} /\ locked = {} /\ \A i \in Instances : claim[i] = NoClaim

\* LeaseClock::now advances.  Store operations time out within minutes and a
\* keeper that fails to extend its claim is lost at its next beat, so nothing
\* started under a claim is still under way a whole retention (24 hours) later.
ClockTick ==
  /\ ~Prunable
  /\ rec.left - 1 <= -Retention => Quiet
  /\ rec' = [rec EXCEPT !.left = @ - 1]
  /\ UNCHANGED <<acquisitions, keepers, tasks, locked, lastWriter>>

PoolStep(task) ==
  \/ \E reached \in BOOLEAN :
       BeatEnds(task, reached) \/ RefreshEnds(task, reached) \/ ReleaseEnds(task, reached)
  \/ CommitLocks(task) \/ CommitRefused(task)

\* Steps a live process takes by itself.
Heartbeat(i) == BeatStarts(i) \/ LoopStops(i) \/ FinishReleases(i)

Renewal(i) ==
  \/ RefreshStarts(i) \/ CleanupEnds(i) \/ EnsureOwnedFails(i)
  \/ CommitStarts(i) \/ Finish(i)

Next ==
  \/ \E i \in Instances :
       TryAcquire(i) \/ Heartbeat(i) \/ Renewal(i) \/ DropKeeper(i) \/ Crash(i)
  \/ \E task \in tasks : PoolStep(task)
  \/ \E task \in locked : CommitWrites(task)
  \/ PruneExpired
  \/ ClockTick

Spec == Init /\ [][Next]_vars

\* The clock runs, heartbeat loops are scheduled, and every store operation
\* ends: lock_exclusive gives up at its deadline, closures are bounded file I/O.
FairSpec ==
  /\ Spec
  /\ WF_vars(ClockTick)
  /\ WF_vars(\E task \in locked : CommitWrites(task))
  /\ \A i \in Instances, k \in Kinds :
       WF_vars(\E task \in tasks : task.inst = i /\ task.kind = k /\ PoolStep(task))
  /\ \A i \in Instances : WF_vars(Heartbeat(i))

-----------------------------------------------------------------------------
(* Properties *)

Tasks == [kind : Kinds, inst : Instances, fence : Nat, serial : Nat]

\* The variables keep their types: an extension sets the time left to the TTL and
\* never adds to what was left.
TypeOK ==
  /\ rec \in [holder : {Holder[i] : i \in Instances} \cup {"none"}, fence : Nat,
              left : (-Retention)..TTL, serial : Nat]
  /\ acquisitions \in Nat
  /\ claim \in [Instances -> [fence : Nat, serial : Nat]]
  /\ phase \in [Instances -> Phases]
  /\ loop \in [Instances -> {"off", "sleeping", "beating"}]
  /\ lost \in [Instances -> BOOLEAN]
  /\ tasks \subseteq Tasks
  /\ locked \subseteq Tasks
  /\ lastWriter \in Nat

\* A fenced commit under way belongs to the latest acquisition, even when its
\* TTL elapses during the write, its keeper is gone, or another process uses
\* the same identity: a superseded owner cannot publish certificate state.
NoStaleCommit == \A task \in locked : task.serial = acquisitions

\* An instance whose guard passes the ownership test made the latest
\* acquisition: two renewals never both own the certificate, shared identity
\* or not.
OwnerIsLatest ==
  \A i \in Instances :
    claim[i] # NoClaim /\ IsOwner(i, claim[i].fence) => claim[i].serial = acquisitions

\* An expired or released claim is only ever revived by an acquisition: no
\* beat or refresh still on the pool resurrects it.
NoResurrection ==
  [][~IsLive /\ IsLive' => acquisitions' = acquisitions + 1]_vars

\* An extension or release left over from an earlier acquisition ends without
\* touching the record: it neither prolongs nor hands away a later claim.
SupersededTasksAreHarmless ==
  [][\A task \in tasks \ tasks' :
       task.serial # acquisitions => rec' = rec]_vars

\* A live claim nobody drives any more, after a crash or an abandoned renewal,
\* becomes acquirable.
AbandonedClaimExpires ==
  (IsLive /\ \A i \in Instances : claim[i].serial # rec.serial) ~> ~IsLive

\* A renewal that has lost its claim gets to know: its guarded work is
\* cancelled, although nobody tells it but its own heartbeat.
LossIsNoticed ==
  \A i \in Instances :
    (phase[i] = "working" /\ ~IsOwner(i, claim[i].fence))
       ~> (lost[i] \/ phase[i] # "working")

=============================================================================
