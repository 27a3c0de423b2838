--------------------------- MODULE CircuitBreaker ---------------------------
(***************************************************************************)
(* One circuit breaker of src/circuit_breaker.rs, shared by concurrent     *)
(* requests.  A request runs can_execute, is in flight, and reports one    *)
(* outcome; every shared atomic it touches is a step of its own.           *)
(*                                                                         *)
(* Loops that only retry a compare-exchange on the value they have just    *)
(* loaded (slot acquisition, slot release, close, reopen) are one step:    *)
(* they act at the instant the exchange succeeds, or return at the load.   *)
(*                                                                         *)
(* Only differences of clock readings are compared, so instants are ages   *)
(* that saturate at the recovery timeout.                                  *)
(***************************************************************************)
EXTENDS Naturals, FiniteSets

CONSTANTS
  Threads,                 \* request tasks; a task serves one request after another
  Kinds,                   \* subset of {"sync", "deferred"}: when the outcome is recorded
  FailureThreshold,        \* failure_threshold
  SuccessThreshold,        \* success_threshold
  HalfOpenMax,             \* half_open_max_requests as configured, 0 included
  Timeout,                 \* timeout_seconds, in clock ticks
  TripOnConnectionErrors,  \* trip_on_connection_errors
  MaxGen                   \* bound: no request is started once this generation is reached

ASSUME BreakerAssumption ==
  /\ IsFiniteSet(Threads)
  /\ Kinds \subseteq {"sync", "deferred"}
  /\ FailureThreshold \in Nat \ {0}
  /\ SuccessThreshold \in Nat \ {0}
  /\ HalfOpenMax \in Nat
  /\ Timeout \in Nat
  /\ TripOnConnectionErrors \in BOOLEAN
  /\ MaxGen \in Nat

CountMask == 1073741823    \* (1 << 30) - 1

\* half_open_max_requests.clamp(1, COUNT_MASK)
ProbeLimit ==
  IF HalfOpenMax = 0 THEN 1
  ELSE IF HalfOpenMax > CountMask THEN CountMask ELSE HalfOpenMax

CLOSED == "closed"
OPEN == "open"
HALF_OPEN == "half_open"
States == {CLOSED, OPEN, HALF_OPEN}

Pack(g, s, c) == [gen |-> g, state |-> s, count |-> c]

VARIABLES
  packed,        \* the AtomicU64: open generation, state, half-open probes in flight
  failureCount,
  successCount,
  failureAge,    \* age of last_failure_tick_ms, at most Timeout
  pc,            \* where each task is
  kind,          \* whether the outcome is recorded at once or at body completion
  epoch,         \* admission_open_epoch
  probe,         \* is_half_open_probe, until the slot is settled
  seen,          \* the word loaded last by the operation in progress
  tick,          \* age of the clock reading taken by record_failure, at most Timeout
  admitGen       \* history: generation of the word that admitted the request

shared == <<packed, failureCount, successCount, failureAge>>
locals == <<pc, kind, epoch, probe, seen, tick, admitGen>>
vars == <<packed, failureCount, successCount, failureAge,
          pc, kind, epoch, probe, seen, tick, admitGen>>

AdmissionPcs == {"can_execute", "check_timeout", "to_half_open", "acquire", "reset_successes"}
SuccessPcs == {"success", "s_release", "s_recheck", "s_count", "s_close",
               "s_clear_failures", "s_clear_successes",
               "s_release_closed", "s_reset_failures"}
FailurePcs == {"failure", "f_clock", "f_stamp", "f_release", "f_count", "f_reload",
               "f_generation", "f_open", "f_verify", "f_rollback",
               "f_reset_successes", "f_reopen"}
Pcs == {"idle", "in_flight", "streaming", "settle", "release"}
         \cup AdmissionPcs \cup SuccessPcs \cup FailurePcs

NoWord == Pack(0, CLOSED, 0)

Init ==
  /\ packed = Pack(0, CLOSED, 0)
  /\ failureCount = 0
  /\ successCount = 0
  /\ failureAge = 0
  /\ pc = [t \in Threads |-> "idle"]
  /\ kind = [t \in Threads |-> "sync"]
  /\ epoch = [t \in Threads |-> 0]
  /\ probe = [t \in Threads |-> FALSE]
  /\ seen = [t \in Threads |-> NoWord]
  /\ tick = [t \in Threads |-> 0]
  /\ admitGen = [t \in Threads |-> 0]

-----------------------------------------------------------------------------
(* Control flow of one task. *)

GoTo(t, from, to) ==
  /\ pc[t] = from
  /\ pc' = [pc EXCEPT ![t] = to]

\* The operation returns and the request is over: its locals are dead.
Finish(t) ==
  /\ pc' = [pc EXCEPT ![t] = "idle"]
  /\ kind' = [kind EXCEPT ![t] = "sync"]
  /\ epoch' = [epoch EXCEPT ![t] = 0]
  /\ probe' = [probe EXCEPT ![t] = FALSE]
  /\ seen' = [seen EXCEPT ![t] = NoWord]
  /\ tick' = [tick EXCEPT ![t] = 0]
  /\ admitGen' = [admitGen EXCEPT ![t] = 0]

\* The request goes to the backend, admitted by the word of generation g.
Admit(t, g, isProbe) ==
  /\ pc' = [pc EXCEPT ![t] = "in_flight"]
  /\ probe' = [probe EXCEPT ![t] = isProbe]
  /\ admitGen' = [admitGen EXCEPT ![t] = g]
  /\ seen' = [seen EXCEPT ![t] = NoWord]
  /\ UNCHANGED <<kind, epoch, tick>>

\* Mutant: the release does not stop at zero.
ReleasedBelowZero(w) == [w EXCEPT !.count = @ - 1]

\* release_half_open_slot: one slot back, a no-op at zero.
Released(w) == IF w.count = 0 THEN w ELSE [w EXCEPT !.count = @ - 1]

GiveBackSlot(t) ==
  /\ packed' = Released(packed)
  /\ probe' = [probe EXCEPT ![t] = FALSE]

-----------------------------------------------------------------------------
(* Admission: CircuitBreakerCache::can_execute_with_admission_epoch, then  *)
(* CircuitBreaker::can_execute_inner.                                      *)

\* The open generation is captured before the admission decision.
StartRequest(t) ==
  /\ packed.gen < MaxGen
  /\ GoTo(t, "idle", "can_execute")
  /\ \E k \in Kinds : kind' = [kind EXCEPT ![t] = k]
  /\ epoch' = [epoch EXCEPT ![t] = packed.gen]
  /\ UNCHANGED <<shared, probe, seen, tick, admitGen>>

CanExecuteLoad(t) ==
  /\ pc[t] = "can_execute"
  /\ UNCHANGED shared
  /\ \/ /\ packed.state = CLOSED
        /\ Admit(t, packed.gen, FALSE)
     \/ /\ packed.state # CLOSED
        /\ pc' = [pc EXCEPT ![t] = IF packed.state = OPEN THEN "check_timeout" ELSE "acquire"]
        /\ seen' = [seen EXCEPT ![t] = packed]
        /\ UNCHANGED <<kind, epoch, probe, tick, admitGen>>

RecoveryDue == failureAge >= Timeout

CheckTimeout(t) ==
  /\ pc[t] = "check_timeout"
  /\ UNCHANGED shared
  /\ \/ /\ RecoveryDue
        /\ pc' = [pc EXCEPT ![t] = "to_half_open"]
        /\ UNCHANGED <<kind, epoch, probe, seen, tick, admitGen>>
     \/ /\ ~RecoveryDue
        /\ Finish(t)

\* OPEN -> HALF_OPEN together with the first probe, or what the loser finds.
ToHalfOpen(t) ==
  /\ pc[t] = "to_half_open"
  /\ UNCHANGED <<failureCount, successCount, failureAge>>
  /\ \/ /\ packed = Pack(seen[t].gen, OPEN, 0)
        /\ packed' = Pack(seen[t].gen, HALF_OPEN, 1)
        /\ pc' = [pc EXCEPT ![t] = "reset_successes"]
        /\ probe' = [probe EXCEPT ![t] = TRUE]
        /\ admitGen' = [admitGen EXCEPT ![t] = seen[t].gen]
        /\ UNCHANGED <<kind, epoch, seen, tick>>
     \/ /\ packed # Pack(seen[t].gen, OPEN, 0)
        /\ UNCHANGED packed
        /\ \/ /\ packed.state = HALF_OPEN
              /\ pc' = [pc EXCEPT ![t] = "acquire"]
              /\ UNCHANGED <<kind, epoch, probe, seen, tick, admitGen>>
           \/ packed.state = CLOSED /\ Admit(t, packed.gen, FALSE)
           \/ packed.state = OPEN /\ Finish(t)

ResetSuccesses(t) ==
  /\ pc[t] = "reset_successes"
  /\ successCount' = 0
  /\ Admit(t, admitGen[t], TRUE)
  /\ UNCHANGED <<packed, failureCount, failureAge>>

\* try_acquire_half_open_slot
TryAcquireHalfOpenSlot(t) ==
  /\ pc[t] = "acquire"
  /\ UNCHANGED <<failureCount, successCount, failureAge>>
  /\ \/ /\ packed.state = HALF_OPEN
        /\ packed.count < ProbeLimit
        /\ packed' = [packed EXCEPT !.count = @ + 1]
        /\ Admit(t, packed.gen, TRUE)
     \/ /\ UNCHANGED packed
        /\ \/ packed.state = HALF_OPEN /\ packed.count >= ProbeLimit /\ Finish(t)
           \/ packed.state = OPEN /\ Finish(t)
           \/ packed.state = CLOSED /\ Admit(t, packed.gen, FALSE)

-----------------------------------------------------------------------------
(* Completion.  A deferred outcome gives its slot back when the response   *)
(* headers arrive and records health, as a non-probe, when the body ends;  *)
(* it is dropped when the generation captured at admission is over.        *)

\* Mutant: the open generation is not compared.
NeverStale(t) == FALSE

\* deferred_circuit_breaker_is_stale
IsStale(t) == epoch[t] # packed.gen

\* cb_probe.release_neutral() at header time, then the body streams.
HeadersArrive(t) ==
  /\ kind[t] = "deferred"
  /\ GoTo(t, "in_flight", "streaming")
  /\ packed' = IF probe[t] THEN Released(packed) ELSE packed
  /\ probe' = [probe EXCEPT ![t] = FALSE]
  /\ UNCHANGED <<failureCount, successCount, failureAge, kind, epoch, seen, tick, admitGen>>

\* record_deferred_backend_dispatch
BodyCompletes(t) ==
  /\ pc[t] = "streaming"
  /\ UNCHANGED shared
  /\ \/ IsStale(t) /\ Finish(t)
     \/ /\ ~IsStale(t)
        /\ pc' = [pc EXCEPT ![t] = "settle"]
        /\ UNCHANGED <<kind, epoch, probe, seen, tick, admitGen>>

ResponseCompletes(t) ==
  /\ kind[t] = "sync"
  /\ GoTo(t, "in_flight", "settle")
  /\ UNCHANGED <<shared, kind, epoch, probe, seen, tick, admitGen>>

\* Mutant: a request without an outcome keeps its slot.
LeakSlot(t) == Finish(t)

\* The tail of record_neutral and of every filtered failure: only the slot counts.
SettleSlotOnly(t) ==
  \/ /\ probe[t]
     /\ pc' = [pc EXCEPT ![t] = "release"]
     /\ UNCHANGED <<kind, epoch, probe, seen, tick, admitGen>>
  \/ ~probe[t] /\ Finish(t)

\* HalfOpenProbeGuard::drop: the request ends before it has an outcome.
DropRequest(t) ==
  /\ pc[t] = "in_flight"
  /\ SettleSlotOnly(t)
  /\ UNCHANGED shared

RecordNeutral(t) ==
  /\ pc[t] = "settle"
  /\ SettleSlotOnly(t)
  /\ UNCHANGED shared

RecordSuccess(t) ==
  /\ GoTo(t, "settle", "success")
  /\ UNCHANGED <<shared, kind, epoch, probe, seen, tick, admitGen>>

\* A status listed in failure_status_codes.
RecordFailure(t) ==
  /\ GoTo(t, "settle", "failure")
  /\ UNCHANGED <<shared, kind, epoch, probe, seen, tick, admitGen>>

\* A connection-level failure is a failure only when it is configured to trip.
RecordConnectionError(t) ==
  /\ pc[t] = "settle"
  /\ UNCHANGED shared
  /\ IF TripOnConnectionErrors
     THEN /\ pc' = [pc EXCEPT ![t] = "failure"]
          /\ UNCHANGED <<kind, epoch, probe, seen, tick, admitGen>>
     ELSE SettleSlotOnly(t)

ReleaseHalfOpenSlot(t) ==
  /\ pc[t] = "release"
  /\ packed' = Released(packed)
  /\ Finish(t)
  /\ UNCHANGED <<failureCount, successCount, failureAge>>

-----------------------------------------------------------------------------
(* record_success *)

SuccessLoad(t) ==
  /\ pc[t] = "success"
  /\ UNCHANGED shared
  /\ \/ /\ packed.state = HALF_OPEN
        /\ pc' = [pc EXCEPT ![t] = IF probe[t] THEN "s_release" ELSE "s_recheck"]
        /\ UNCHANGED <<kind, epoch, probe, seen, tick, admitGen>>
     \/ /\ packed.state = CLOSED
        /\ pc' = [pc EXCEPT ![t] = IF probe[t] THEN "s_release_closed" ELSE "s_reset_failures"]
        /\ UNCHANGED <<kind, epoch, probe, seen, tick, admitGen>>
     \/ packed.state = OPEN /\ SettleSlotOnly(t)

SuccessRelease(t) ==
  /\ \/ GoTo(t, "s_release", "s_recheck")
     \/ GoTo(t, "s_release_closed", "s_reset_failures")
  /\ GiveBackSlot(t)
  /\ UNCHANGED <<failureCount, successCount, failureAge, kind, epoch, seen, tick, admitGen>>

SuccessRecheck(t) ==
  /\ pc[t] = "s_recheck"
  /\ UNCHANGED shared
  /\ \/ packed.state # HALF_OPEN /\ Finish(t)
     \/ /\ packed.state = HALF_OPEN
        /\ pc' = [pc EXCEPT ![t] = "s_count"]
        /\ UNCHANGED <<kind, epoch, probe, seen, tick, admitGen>>

SuccessCount(t) ==
  /\ pc[t] = "s_count"
  /\ successCount' = successCount + 1
  /\ UNCHANGED <<packed, failureCount, failureAge>>
  /\ \/ successCount' < SuccessThreshold /\ Finish(t)
     \/ /\ successCount' >= SuccessThreshold
        /\ pc' = [pc EXCEPT ![t] = "s_close"]
        /\ UNCHANGED <<kind, epoch, probe, seen, tick, admitGen>>

SuccessClose(t) ==
  /\ pc[t] = "s_close"
  /\ UNCHANGED <<failureCount, successCount, failureAge>>
  /\ \/ packed.state # HALF_OPEN /\ UNCHANGED packed /\ Finish(t)
     \/ /\ packed.state = HALF_OPEN
        /\ packed' = Pack(packed.gen, CLOSED, 0)
        /\ pc' = [pc EXCEPT ![t] = "s_clear_failures"]
        /\ UNCHANGED <<kind, epoch, probe, seen, tick, admitGen>>

SuccessClearFailures(t) ==
  /\ GoTo(t, "s_clear_failures", "s_clear_successes")
  /\ failureCount' = 0
  /\ UNCHANGED <<packed, successCount, failureAge, kind, epoch, probe, seen, tick, admitGen>>

SuccessClearSuccesses(t) ==
  /\ pc[t] = "s_clear_successes"
  /\ successCount' = 0
  /\ Finish(t)
  /\ UNCHANGED <<packed, failureCount, failureAge>>

\* A success in CLOSED breaks the streak of consecutive failures.
SuccessResetFailures(t) ==
  /\ pc[t] = "s_reset_failures"
  /\ failureCount' = 0
  /\ Finish(t)
  /\ UNCHANGED <<packed, successCount, failureAge>>

-----------------------------------------------------------------------------
(* record_failure *)

FailureLoad(t) ==
  /\ GoTo(t, "failure", "f_clock")
  /\ seen' = [seen EXCEPT ![t] = packed]
  /\ UNCHANGED <<shared, kind, epoch, probe, tick, admitGen>>

FailureClock(t) ==
  /\ pc[t] = "f_clock"
  /\ UNCHANGED shared
  /\ \/ /\ seen[t].state # OPEN
        /\ pc' = [pc EXCEPT ![t] = "f_stamp"]
        /\ tick' = [tick EXCEPT ![t] = 0]
        /\ UNCHANGED <<kind, epoch, probe, seen, admitGen>>
     \/ seen[t].state = OPEN /\ SettleSlotOnly(t)

FailureStamp(t) ==
  /\ pc[t] = "f_stamp"
  /\ failureAge' = tick[t]
  /\ pc' = [pc EXCEPT ![t] = IF seen[t].state = HALF_OPEN THEN "f_reset_successes"
                             ELSE IF probe[t] THEN "f_release" ELSE "f_count"]
  /\ tick' = [tick EXCEPT ![t] = 0]
  /\ UNCHANGED <<packed, failureCount, successCount, kind, epoch, probe, seen, admitGen>>

FailureRelease(t) ==
  /\ GoTo(t, "f_release", "f_count")
  /\ GiveBackSlot(t)
  /\ UNCHANGED <<failureCount, successCount, failureAge, kind, epoch, seen, tick, admitGen>>

FailureCount(t) ==
  /\ pc[t] = "f_count"
  /\ failureCount' = failureCount + 1
  /\ UNCHANGED <<packed, successCount, failureAge>>
  /\ \/ failureCount' < FailureThreshold /\ Finish(t)
     \/ /\ failureCount' >= FailureThreshold
        /\ pc' = [pc EXCEPT ![t] = "f_reload"]
        /\ UNCHANGED <<kind, epoch, probe, seen, tick, admitGen>>

\* The streak may have been broken since this failure was counted.
FailureReload(t) ==
  /\ pc[t] = "f_reload"
  /\ UNCHANGED shared
  /\ \/ failureCount < FailureThreshold /\ Finish(t)
     \/ /\ failureCount >= FailureThreshold
        /\ pc' = [pc EXCEPT ![t] = "f_generation"]
        /\ UNCHANGED <<kind, epoch, probe, seen, tick, admitGen>>

FailureGeneration(t) ==
  /\ GoTo(t, "f_generation", "f_open")
  /\ seen' = [seen EXCEPT ![t] = packed]
  /\ UNCHANGED <<shared, kind, epoch, probe, tick, admitGen>>

FailureOpen(t) ==
  /\ pc[t] = "f_open"
  /\ UNCHANGED <<failureCount, successCount, failureAge>>
  /\ \/ /\ packed = Pack(seen[t].gen, CLOSED, 0)
        /\ packed' = Pack(seen[t].gen + 1, OPEN, 0)
        /\ pc' = [pc EXCEPT ![t] = "f_verify"]
        /\ UNCHANGED <<kind, epoch, probe, seen, tick, admitGen>>
     \/ /\ packed # Pack(seen[t].gen, CLOSED, 0)
        /\ UNCHANGED packed
        /\ Finish(t)

FailureVerify(t) ==
  /\ pc[t] = "f_verify"
  /\ UNCHANGED shared
  /\ \/ failureCount >= FailureThreshold /\ Finish(t)
     \/ /\ failureCount < FailureThreshold
        /\ pc' = [pc EXCEPT ![t] = "f_rollback"]
        /\ UNCHANGED <<kind, epoch, probe, seen, tick, admitGen>>

\* The generation stays advanced when the opening is rolled back.
FailureRollback(t) ==
  /\ pc[t] = "f_rollback"
  /\ packed' = IF packed = Pack(seen[t].gen + 1, OPEN, 0)
               THEN Pack(seen[t].gen + 1, CLOSED, 0) ELSE packed
  /\ Finish(t)
  /\ UNCHANGED <<failureCount, successCount, failureAge>>

FailureResetSuccesses(t) ==
  /\ GoTo(t, "f_reset_successes", "f_reopen")
  /\ successCount' = 0
  /\ UNCHANGED <<packed, failureCount, failureAge, kind, epoch, probe, seen, tick, admitGen>>

\* reopen_after_probe_failure: the slot of the failed probe goes with the count.
FailureReopen(t) ==
  /\ pc[t] = "f_reopen"
  /\ packed' = IF packed.state = OPEN THEN packed ELSE Pack(packed.gen + 1, OPEN, 0)
  /\ Finish(t)
  /\ UNCHANGED <<failureCount, successCount, failureAge>>

-----------------------------------------------------------------------------
\* socket_opts::monotonic_now_ms advances: every remembered reading grows older.
Older(age) == IF age < Timeout THEN age + 1 ELSE age

ClockTick ==
  /\ failureAge' = Older(failureAge)
  /\ tick' = [t \in Threads |-> IF pc[t] = "f_stamp" THEN Older(tick[t]) ELSE tick[t]]
  /\ UNCHANGED <<packed, failureCount, successCount, pc, kind, epoch, probe, seen, admitGen>>

Admission(t) ==
  \/ CanExecuteLoad(t) \/ CheckTimeout(t) \/ ToHalfOpen(t)
  \/ ResetSuccesses(t) \/ TryAcquireHalfOpenSlot(t)

Settlement(t) ==
  \/ HeadersArrive(t) \/ BodyCompletes(t) \/ ResponseCompletes(t) \/ DropRequest(t)
  \/ RecordNeutral(t) \/ RecordSuccess(t) \/ RecordFailure(t)
  \/ RecordConnectionError(t) \/ ReleaseHalfOpenSlot(t)

SuccessStep(t) ==
  \/ SuccessLoad(t) \/ SuccessRelease(t) \/ SuccessRecheck(t) \/ SuccessCount(t)
  \/ SuccessClose(t) \/ SuccessClearFailures(t) \/ SuccessClearSuccesses(t)
  \/ SuccessResetFailures(t)

FailureStep(t) ==
  \/ FailureLoad(t) \/ FailureClock(t) \/ FailureStamp(t) \/ FailureRelease(t)
  \/ FailureCount(t) \/ FailureReload(t) \/ FailureGeneration(t) \/ FailureOpen(t)
  \/ FailureVerify(t) \/ FailureRollback(t) \/ FailureResetSuccesses(t) \/ FailureReopen(t)

\* One step of a request that has started.
Step(t) == Admission(t) \/ Settlement(t) \/ SuccessStep(t) \/ FailureStep(t)

Next == ClockTick \/ \E t \in Threads : StartRequest(t) \/ Step(t)

Spec == Init /\ [][Next]_vars

\* A request that has started ends: backend reads and bodies are bounded by
\* timeouts, and a dropped request settles its slot in HalfOpenProbeGuard::drop.
FairSpec == Spec /\ \A t \in Threads : WF_vars(Step(t))

-----------------------------------------------------------------------------
(* Properties *)

Words == [gen : Nat, state : States, count : 0..ProbeLimit]

SharedOK ==
  /\ packed \in Words
  /\ failureCount \in Nat
  /\ successCount \in Nat
  /\ failureAge \in 0..Timeout

LocalsOK ==
  /\ pc \in [Threads -> Pcs]
  /\ kind \in [Threads -> {"sync", "deferred"}]
  /\ epoch \in [Threads -> Nat]
  /\ probe \in [Threads -> BOOLEAN]
  /\ seen \in [Threads -> Words]
  /\ tick \in [Threads -> 0..Timeout]
  /\ admitGen \in [Threads -> Nat]

\* The variables keep their types; the probe count keeps within its limit.
TypeOK == SharedOK /\ LocalsOK

\* Only HALF_OPEN carries probes.  can_execute_inner and record_failure_inner
\* build their expected words on "OPEN always carries count=0" and "CLOSED
\* always carries count=0"; were it false, the exchange could never succeed
\* and the breaker would stay open for good.
OnlyHalfOpenCountsProbes == packed.state # HALF_OPEN => packed.count = 0

\* The probes of the cycle in progress that have not settled their slot.
Holders == {t \in Threads : probe[t] /\ admitGen[t] = packed.gen}

\* No slot leaks: each unit of the half-open count is owned by a request still
\* under way that was admitted in this very cycle.  There is no timer out of
\* HALF_OPEN, so a unit without an owner would shed traffic for ever.
EverySlotHasAnOwner == packed.count <= Cardinality(Holders)

\* The generation moves exactly when OPEN is published, by one, and by the
\* winner of the exchange only.
GenerationCountsOpenings ==
  [][ IF packed.state # OPEN /\ packed'.state = OPEN
      THEN packed'.gen = packed.gen + 1
      ELSE packed'.gen = packed.gen ]_vars

\* A deferred outcome that passes the staleness check while the breaker is
\* half-open was admitted in that half-open cycle: the generation captured
\* before the admission decision can be too old, never too new.
DeferredOutcomeKnowsItsCycle ==
  [][ \A t \in Threads :
        pc[t] = "streaming" /\ pc'[t] = "settle" /\ packed.state = HALF_OPEN
          => admitGen[t] = packed.gen ]_vars


Word == INSTANCE BreakerWord

\* Every atomic update of the word is one of the transitions of BreakerWord.
ImplementsBreakerWord == Word!Spec

=============================================================================
