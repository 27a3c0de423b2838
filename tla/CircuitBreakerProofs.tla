------------------------- MODULE CircuitBreakerProofs -------------------------
(***************************************************************************)
(* Machine-checked facts about CircuitBreaker for every set of request     *)
(* tasks and every value of the thresholds, the timeout and the bound, and *)
(* about the recorder that settles a streaming RPC with the breaker        *)
(* (GrpcProbeRecorder, the second half).                                   *)
(***************************************************************************)
EXTENDS CircuitBreaker, GrpcProbeRecorder, FiniteSetTheorems, SequenceTheorems, TLAPS

-----------------------------------------------------------------------------
(* The packed word *)

\* The clamp of half_open_max_requests always leaves room for one probe.
LEMMA ProbeLimitIsPositive == ProbeLimit \in Nat /\ ProbeLimit >= 1
  BY BreakerAssumption DEF ProbeLimit, CountMask

\* The word is well formed and only HALF_OPEN carries probes.
WordInv == packed \in Words /\ OnlyHalfOpenCountsProbes

\* Each compare-exchange that BreakerWord allows leaves a well-formed word.
LEMMA WordTransitions ==
  ASSUME WordInv, Word!Next
  PROVE  WordInv'
<1> USE ProbeLimitIsPositive
<1> USE DEF WordInv, Words, States, OnlyHalfOpenCountsProbes, CLOSED, OPEN, HALF_OPEN,
            Word!CLOSED, Word!OPEN, Word!HALF_OPEN, Word!Pack
<1>1. CASE Word!Open
  BY <1>1 DEF Word!Open
<1>2. CASE Word!RollBack
  BY <1>2 DEF Word!RollBack
<1>3. CASE Word!BeginHalfOpen
  BY <1>3 DEF Word!BeginHalfOpen
<1>4. CASE Word!AdmitProbe
  BY <1>4 DEF Word!AdmitProbe
<1>5. CASE Word!ReturnProbe
  BY <1>5 DEF Word!ReturnProbe
<1>6. CASE Word!Close
  BY <1>6 DEF Word!Close
<1> QED
  BY <1>1, <1>2, <1>3, <1>4, <1>5, <1>6 DEF Word!Next

\* A release is a transition of BreakerWord or leaves the word alone: outside
\* HALF_OPEN there is nothing to give back.
LEMMA ReleaseIsReturn ==
  ASSUME WordInv, packed' = Released(packed)
  PROVE  Word!Next \/ packed' = packed
  BY ProbeLimitIsPositive
  DEF WordInv, Words, OnlyHalfOpenCountsProbes, Released, Word!Next, Word!ReturnProbe,
      HALF_OPEN, Word!HALF_OPEN

\* Every step of every request changes the word by one transition of
\* BreakerWord, or not at all.
LEMMA StepRefinesWord ==
  ASSUME WordInv, [Next]_vars
  PROVE  Word!Next \/ packed' = packed
<1> USE DEF Word!Next, Pack, Word!Pack, CLOSED, OPEN, HALF_OPEN,
            Word!CLOSED, Word!OPEN, Word!HALF_OPEN
<1>1. CASE UNCHANGED vars
  BY <1>1 DEF vars
<1>2. CASE ClockTick
  BY <1>2 DEF ClockTick
<1>3. ASSUME NEW t \in Threads, StartRequest(t)
      PROVE  packed' = packed
  BY <1>3 DEF StartRequest, shared
<1>4. ASSUME NEW t \in Threads, Admission(t)
      PROVE  Word!Next \/ packed' = packed
  <2>1. CASE ToHalfOpen(t)
    <3>1. CASE packed = Pack(seen[t].gen, OPEN, 0)
      <4>1. packed' = Pack(seen[t].gen, HALF_OPEN, 1)
        BY <2>1, <3>1 DEF ToHalfOpen
      <4>2. packed.gen = seen[t].gen /\ packed.state = OPEN
        BY <3>1
      <4> QED
        BY <4>1, <4>2 DEF Word!BeginHalfOpen
    <3>2. CASE packed # Pack(seen[t].gen, OPEN, 0)
      BY <2>1, <3>2 DEF ToHalfOpen
    <3> QED
      BY <3>1, <3>2
  <2>2. CASE TryAcquireHalfOpenSlot(t)
    BY <2>2 DEF TryAcquireHalfOpenSlot, Word!AdmitProbe, WordInv, Words, States
  <2>3. CASE CanExecuteLoad(t) \/ CheckTimeout(t) \/ ResetSuccesses(t)
    BY <2>3 DEF CanExecuteLoad, CheckTimeout, ResetSuccesses, shared
  <2> QED
    BY <1>4, <2>1, <2>2, <2>3 DEF Admission
<1>5. ASSUME NEW t \in Threads, Settlement(t)
      PROVE  Word!Next \/ packed' = packed
  <2>1. CASE HeadersArrive(t)
    BY <2>1, ReleaseIsReturn DEF HeadersArrive
  <2>2. CASE ReleaseHalfOpenSlot(t)
    BY <2>2, ReleaseIsReturn DEF ReleaseHalfOpenSlot
  <2>3. CASE \/ BodyCompletes(t) \/ ResponseCompletes(t) \/ DropRequest(t)
            \/ RecordNeutral(t) \/ RecordSuccess(t) \/ RecordFailure(t)
            \/ RecordConnectionError(t)
    BY <2>3 DEF BodyCompletes, ResponseCompletes, DropRequest, RecordNeutral,
           RecordSuccess, RecordFailure, RecordConnectionError, shared
  <2> QED
    BY <1>5, <2>1, <2>2, <2>3 DEF Settlement
<1>6. ASSUME NEW t \in Threads, SuccessStep(t)
      PROVE  Word!Next \/ packed' = packed
  <2>1. CASE SuccessRelease(t)
    BY <2>1, ReleaseIsReturn DEF SuccessRelease, GiveBackSlot
  <2>2. CASE SuccessClose(t)
    BY <2>2 DEF SuccessClose, Word!Close, WordInv, Words, States
  <2>3. CASE \/ SuccessLoad(t) \/ SuccessRecheck(t) \/ SuccessCount(t)
            \/ SuccessClearFailures(t) \/ SuccessClearSuccesses(t) \/ SuccessResetFailures(t)
    BY <2>3 DEF SuccessLoad, SuccessRecheck, SuccessCount, SuccessClearFailures,
           SuccessClearSuccesses, SuccessResetFailures, shared
  <2> QED
    BY <1>6, <2>1, <2>2, <2>3 DEF SuccessStep
<1>7. ASSUME NEW t \in Threads, FailureStep(t)
      PROVE  Word!Next \/ packed' = packed
  <2>1. CASE FailureRelease(t)
    BY <2>1, ReleaseIsReturn DEF FailureRelease, GiveBackSlot
  <2>2. CASE FailureOpen(t)
    BY <2>2 DEF FailureOpen, Word!Open, WordInv, Words, States
  <2>3. CASE FailureRollback(t)
    BY <2>3 DEF FailureRollback, Word!RollBack, WordInv, Words, States
  <2>4. CASE FailureReopen(t)
    BY <2>4 DEF FailureReopen, Word!Open, WordInv, Words, States
  <2>5. CASE \/ FailureLoad(t) \/ FailureClock(t) \/ FailureStamp(t)
            \/ FailureCount(t) \/ FailureReload(t) \/ FailureGeneration(t)
            \/ FailureVerify(t) \/ FailureResetSuccesses(t)
    BY <2>5 DEF FailureLoad, FailureClock, FailureStamp, FailureCount,
           FailureReload, FailureGeneration, FailureVerify, FailureResetSuccesses,
           shared
  <2> QED
    BY <1>7, <2>1, <2>2, <2>3, <2>4, <2>5 DEF FailureStep
<1> QED
  BY <1>1, <1>2, <1>3, <1>4, <1>5, <1>6, <1>7 DEF Next, Step

\* The word invariant is inductive on its own: no step relies on the locals.
LEMMA WordInvStep == WordInv /\ [Next]_vars => WordInv'
<1> SUFFICES ASSUME WordInv, [Next]_vars
             PROVE  WordInv'
  OBVIOUS
<1>1. CASE Word!Next
  BY <1>1, WordTransitions
<1>2. CASE packed' = packed
  BY <1>2 DEF WordInv, OnlyHalfOpenCountsProbes
<1> QED
  BY <1>1, <1>2, StepRefinesWord

\* A new breaker is closed, with no probe.
LEMMA WordInvInit == Init => WordInv
  BY ProbeLimitIsPositive
  DEF Init, WordInv, Words, States, OnlyHalfOpenCountsProbes, Pack, CLOSED, OPEN, HALF_OPEN

\* OPEN and CLOSED never carry a probe count, in any interleaving of any number
\* of requests: the expected words of the three fixed compare-exchanges of
\* circuit_breaker.rs are exact, so none of them can be refused for ever.
THEOREM OnlyHalfOpenCounts == Spec => []OnlyHalfOpenCountsProbes
<1>1. WordInv => OnlyHalfOpenCountsProbes
  BY DEF WordInv
<1> QED
  BY <1>1, WordInvInit, WordInvStep, PTL DEF Spec

\* The breaker implements its abstract specification: what the threads do to
\* the packed word is a behaviour of BreakerWord.
THEOREM BreakerImplementsWord == Spec => ImplementsBreakerWord
<1>1. Init => Word!Init
  BY DEF Init, Word!Init, Pack, Word!Pack, CLOSED, Word!CLOSED
<1>2. WordInv /\ [Next]_vars => [Word!Next]_packed
  BY StepRefinesWord
<1> QED
  BY <1>1, <1>2, WordInvInit, WordInvStep, PTL DEF Spec, ImplementsBreakerWord, Word!Spec

\* The open generation advances exactly when OPEN is published and by one: a
\* thread that loses the exchange never makes a live probe look stale.
THEOREM GenerationsAreOpenings == Spec => GenerationCountsOpenings
<1>1. ASSUME WordInv, [Next]_vars
      PROVE  IF packed.state # OPEN /\ packed'.state = OPEN
             THEN packed'.gen = packed.gen + 1
             ELSE packed'.gen = packed.gen
  <2> USE DEF WordInv, Words, States, CLOSED, OPEN, HALF_OPEN,
              Word!CLOSED, Word!OPEN, Word!HALF_OPEN, Word!Pack
  <2>1. CASE packed' = packed
    BY <2>1
  <2>2. CASE Word!Open
    BY <2>2 DEF Word!Open
  <2>3. CASE Word!RollBack
    BY <2>3 DEF Word!RollBack
  <2>4. CASE Word!BeginHalfOpen
    BY <2>4 DEF Word!BeginHalfOpen
  <2>5. CASE Word!AdmitProbe
    BY <2>5 DEF Word!AdmitProbe
  <2>6. CASE Word!ReturnProbe
    BY <2>6 DEF Word!ReturnProbe
  <2>7. CASE Word!Close
    BY <2>7 DEF Word!Close
  <2> QED
    BY <1>1, StepRefinesWord, <2>1, <2>2, <2>3, <2>4, <2>5, <2>6, <2>7 DEF Word!Next
<1>2. WordInv /\ [Next]_vars =>
        [IF packed.state # OPEN /\ packed'.state = OPEN
         THEN packed'.gen = packed.gen + 1
         ELSE packed'.gen = packed.gen]_vars
  BY <1>1
<1> QED
  BY <1>2, WordInvInit, WordInvStep, PTL DEF Spec, GenerationCountsOpenings

-----------------------------------------------------------------------------
(* Type correctness of the rest of the state *)

\* The word no operation has loaded.
LEMMA NoWordType == NoWord \in Words
  BY ProbeLimitIsPositive DEF NoWord, Pack, Words, States

\* The end of a request resets its locals to values of their types.
LEMMA FinishKeepsTypes ==
  ASSUME LocalsOK, NEW t \in Threads, Finish(t)
  PROVE  LocalsOK'
<1>1. pc' \in [Threads -> Pcs] /\ kind' \in [Threads -> {"sync", "deferred"}]
  BY DEF LocalsOK, Finish, Pcs
<1>2. epoch' \in [Threads -> Nat] /\ admitGen' \in [Threads -> Nat]
  BY DEF LocalsOK, Finish
<1>3. probe' \in [Threads -> BOOLEAN]
  BY DEF LocalsOK, Finish
<1>4. seen' \in [Threads -> Words]
  BY NoWordType DEF LocalsOK, Finish
<1>5. tick' \in [Threads -> 0..Timeout]
  BY BreakerAssumption DEF LocalsOK, Finish
<1> QED
  BY <1>1, <1>2, <1>3, <1>4, <1>5 DEF LocalsOK

\* An admission keeps them too.
LEMMA AdmitKeepsTypes ==
  ASSUME LocalsOK, NEW t \in Threads, NEW g \in Nat, NEW p \in BOOLEAN, Admit(t, g, p)
  PROVE  LocalsOK'
<1>1. pc' \in [Threads -> Pcs] /\ admitGen' \in [Threads -> Nat]
  BY DEF LocalsOK, Admit, Pcs
<1>2. probe' \in [Threads -> BOOLEAN]
  BY DEF LocalsOK, Admit
<1>3. seen' \in [Threads -> Words]
  BY NoWordType DEF LocalsOK, Admit
<1> QED
  BY <1>1, <1>2, <1>3 DEF LocalsOK, Admit

\* The request state of every task keeps its type in every step.
LEMMA LocalsStep ==
  ASSUME TypeOK, [Next]_vars
  PROVE  LocalsOK'
<1> USE BreakerAssumption DEF TypeOK
<1>0. packed \in Words /\ packed.gen \in Nat
  BY DEF SharedOK, Words
<1>1. CASE UNCHANGED vars
  BY <1>1 DEF vars, LocalsOK
<1>2. CASE ClockTick
  BY <1>2 DEF ClockTick, Older, LocalsOK
<1>3. ASSUME NEW t \in Threads, StartRequest(t)
      PROVE  LocalsOK'
  BY <1>0, <1>3 DEF StartRequest, GoTo, LocalsOK, Pcs, AdmissionPcs
<1>4. ASSUME NEW t \in Threads, Admission(t)
      PROVE  LocalsOK'
  <2>1. CASE CanExecuteLoad(t)
    <3>1. CASE packed.state = CLOSED
      BY <1>0, <2>1, <3>1, AdmitKeepsTypes DEF CanExecuteLoad
    <3>2. CASE packed.state # CLOSED
      BY <1>0, <2>1, <3>2 DEF CanExecuteLoad, LocalsOK, Pcs, AdmissionPcs
    <3> QED
      BY <3>1, <3>2
  <2>2. CASE CheckTimeout(t)
    BY <1>0, <2>2, FinishKeepsTypes
    DEF CheckTimeout, RecoveryDue, LocalsOK, Words, Pcs, AdmissionPcs
  <2>3. CASE ToHalfOpen(t)
    BY <1>0, <2>3, FinishKeepsTypes, AdmitKeepsTypes
    DEF ToHalfOpen, LocalsOK, Words, Pcs, AdmissionPcs
  <2>4. CASE ResetSuccesses(t)
    BY <1>0, <2>4, AdmitKeepsTypes
    DEF ResetSuccesses, LocalsOK, Words, Pcs, AdmissionPcs
  <2>5. CASE TryAcquireHalfOpenSlot(t)
    BY <1>0, <2>5, FinishKeepsTypes, AdmitKeepsTypes
    DEF TryAcquireHalfOpenSlot, LocalsOK, Words, Pcs, AdmissionPcs
  <2> QED
    BY <1>4, <2>1, <2>2, <2>3, <2>4, <2>5 DEF Admission
<1>5. ASSUME NEW t \in Threads, Settlement(t)
      PROVE  LocalsOK'
  <2>1. CASE HeadersArrive(t)
    BY <1>0, <2>1
    DEF HeadersArrive, GoTo, LocalsOK, Words, Pcs, SuccessPcs, FailurePcs
  <2>2. CASE BodyCompletes(t)
    BY <1>0, <2>2, FinishKeepsTypes
    DEF BodyCompletes, IsStale, LocalsOK, Words, Pcs, SuccessPcs, FailurePcs
  <2>3. CASE ResponseCompletes(t)
    BY <1>0, <2>3
    DEF ResponseCompletes, GoTo, LocalsOK, Words, Pcs, SuccessPcs, FailurePcs
  <2>4. CASE DropRequest(t)
    BY <1>0, <2>4, FinishKeepsTypes
    DEF DropRequest, SettleSlotOnly, LocalsOK, Words, Pcs, SuccessPcs, FailurePcs
  <2>5. CASE RecordNeutral(t)
    BY <1>0, <2>5, FinishKeepsTypes
    DEF RecordNeutral, SettleSlotOnly, LocalsOK, Words, Pcs, SuccessPcs, FailurePcs
  <2>6. CASE RecordSuccess(t)
    BY <1>0, <2>6
    DEF RecordSuccess, GoTo, LocalsOK, Words, Pcs, SuccessPcs, FailurePcs
  <2>7. CASE RecordFailure(t)
    BY <1>0, <2>7
    DEF RecordFailure, GoTo, LocalsOK, Words, Pcs, SuccessPcs, FailurePcs
  <2>8. CASE RecordConnectionError(t)
    BY <1>0, <2>8, FinishKeepsTypes
    DEF RecordConnectionError, SettleSlotOnly, LocalsOK, Words, Pcs, SuccessPcs,
           FailurePcs
  <2>9. CASE ReleaseHalfOpenSlot(t)
    BY <1>0, <2>9, FinishKeepsTypes
    DEF ReleaseHalfOpenSlot, LocalsOK, Words, Pcs, SuccessPcs, FailurePcs
  <2> QED
    BY <1>5, <2>1, <2>2, <2>3, <2>4, <2>5, <2>6, <2>7, <2>8, <2>9 DEF Settlement
<1>6. ASSUME NEW t \in Threads, SuccessStep(t)
      PROVE  LocalsOK'
  <2>1. CASE SuccessLoad(t)
    BY <1>0, <2>1, FinishKeepsTypes
    DEF SuccessLoad, SettleSlotOnly, LocalsOK, Words, Pcs, SuccessPcs
  <2>2. CASE SuccessRelease(t)
    BY <1>0, <2>2
    DEF SuccessRelease, GoTo, GiveBackSlot, LocalsOK, Words, Pcs, SuccessPcs
  <2>3. CASE SuccessRecheck(t)
    BY <1>0, <2>3, FinishKeepsTypes
    DEF SuccessRecheck, LocalsOK, Words, Pcs, SuccessPcs
  <2>4. CASE SuccessCount(t)
    BY <1>0, <2>4, FinishKeepsTypes
    DEF SuccessCount, LocalsOK, Words, Pcs, SuccessPcs
  <2>5. CASE SuccessClose(t)
    BY <1>0, <2>5, FinishKeepsTypes
    DEF SuccessClose, LocalsOK, Words, Pcs, SuccessPcs
  <2>6. CASE SuccessClearFailures(t)
    BY <1>0, <2>6
    DEF SuccessClearFailures, GoTo, LocalsOK, Words, Pcs, SuccessPcs
  <2>7. CASE SuccessClearSuccesses(t)
    BY <1>0, <2>7, FinishKeepsTypes
    DEF SuccessClearSuccesses, LocalsOK, Words, Pcs, SuccessPcs
  <2>8. CASE SuccessResetFailures(t)
    BY <1>0, <2>8, FinishKeepsTypes
    DEF SuccessResetFailures, LocalsOK, Words, Pcs, SuccessPcs
  <2> QED
    BY <1>6, <2>1, <2>2, <2>3, <2>4, <2>5, <2>6, <2>7, <2>8 DEF SuccessStep
<1>7. ASSUME NEW t \in Threads, FailureStep(t)
      PROVE  LocalsOK'
  <2>1. CASE FailureLoad(t)
    BY <1>0, <2>1
    DEF FailureLoad, GoTo, LocalsOK, Words, Pcs, FailurePcs
  <2>2. CASE FailureClock(t)
    BY <1>0, <2>2, FinishKeepsTypes
    DEF FailureClock, SettleSlotOnly, LocalsOK, Words, Pcs, FailurePcs
  <2>3. CASE FailureStamp(t)
    BY <1>0, <2>3
    DEF FailureStamp, LocalsOK, Words, Pcs, FailurePcs
  <2>4. CASE FailureRelease(t)
    BY <1>0, <2>4
    DEF FailureRelease, GoTo, GiveBackSlot, LocalsOK, Words, Pcs, FailurePcs
  <2>5. CASE FailureCount(t)
    BY <1>0, <2>5, FinishKeepsTypes
    DEF FailureCount, LocalsOK, Words, Pcs, FailurePcs
  <2>6. CASE FailureReload(t)
    BY <1>0, <2>6, FinishKeepsTypes
    DEF FailureReload, LocalsOK, Words, Pcs, FailurePcs
  <2>7. CASE FailureGeneration(t)
    BY <1>0, <2>7
    DEF FailureGeneration, GoTo, LocalsOK, Words, Pcs, FailurePcs
  <2>8. CASE FailureOpen(t)
    BY <1>0, <2>8, FinishKeepsTypes
    DEF FailureOpen, LocalsOK, Words, Pcs, FailurePcs
  <2>9. CASE FailureVerify(t)
    BY <1>0, <2>9, FinishKeepsTypes
    DEF FailureVerify, LocalsOK, Words, Pcs, FailurePcs
  <2>10. CASE FailureRollback(t)
    BY <1>0, <2>10, FinishKeepsTypes
    DEF FailureRollback, LocalsOK, Words, Pcs, FailurePcs
  <2>11. CASE FailureResetSuccesses(t)
    BY <1>0, <2>11
    DEF FailureResetSuccesses, GoTo, LocalsOK, Words, Pcs, FailurePcs
  <2>12. CASE FailureReopen(t)
    BY <1>0, <2>12, FinishKeepsTypes
    DEF FailureReopen, LocalsOK, Words, Pcs, FailurePcs
  <2> QED
    BY <1>7, <2>1, <2>2, <2>3, <2>4, <2>5, <2>6, <2>7, <2>8, <2>9, <2>10, <2>11,
           <2>12 DEF FailureStep
<1> QED
  BY <1>1, <1>2, <1>3, <1>4, <1>5, <1>6, <1>7 DEF Next, Step

\* The two counters and the failure stamp keep their types in every step.
LEMMA CountersStep ==
  ASSUME TypeOK, [Next]_vars
  PROVE  failureCount' \in Nat /\ successCount' \in Nat /\ failureAge' \in 0..Timeout
<1> USE BreakerAssumption DEF TypeOK, SharedOK
<1>1. CASE UNCHANGED vars
  BY <1>1 DEF vars
<1>2. CASE ClockTick
  BY <1>2 DEF ClockTick, Older
<1>3. ASSUME NEW t \in Threads, StartRequest(t)
      PROVE  UNCHANGED <<failureCount, successCount, failureAge>>
  BY <1>3 DEF StartRequest, shared
<1>4. ASSUME NEW t \in Threads, Admission(t)
      PROVE  failureCount' \in Nat /\ successCount' \in Nat /\ failureAge' \in 0..Timeout
  <2>1. CASE CanExecuteLoad(t) \/ CheckTimeout(t)
    BY <2>1 DEF CanExecuteLoad, CheckTimeout, shared
  <2>2. CASE ToHalfOpen(t)
    <3>1. UNCHANGED <<failureCount, successCount, failureAge>>
      BY <2>2, Zenon DEF ToHalfOpen
    <3> QED
      BY <3>1
  <2>3. CASE ResetSuccesses(t)
    <3>1. successCount' = 0 /\ UNCHANGED <<failureCount, failureAge>>
      BY <2>3, Zenon DEF ResetSuccesses
    <3> QED
      BY <3>1
  <2>4. CASE TryAcquireHalfOpenSlot(t)
    <3>1. UNCHANGED <<failureCount, successCount, failureAge>>
      BY <2>4, Zenon DEF TryAcquireHalfOpenSlot
    <3> QED
      BY <3>1
  <2> QED
    BY <1>4, <2>1, <2>2, <2>3, <2>4 DEF Admission
<1>5. ASSUME NEW t \in Threads, Settlement(t)
      PROVE  failureCount' \in Nat /\ successCount' \in Nat /\ failureAge' \in 0..Timeout
  BY <1>5 DEF Settlement, HeadersArrive, BodyCompletes, ResponseCompletes,
         DropRequest, RecordNeutral, RecordSuccess, RecordFailure,
         RecordConnectionError, ReleaseHalfOpenSlot, shared
<1>6. ASSUME NEW t \in Threads, SuccessStep(t)
      PROVE  failureCount' \in Nat /\ successCount' \in Nat /\ failureAge' \in 0..Timeout
  BY <1>6 DEF SuccessStep, SuccessLoad, SuccessRelease, SuccessRecheck,
         SuccessCount, SuccessClose, SuccessClearFailures, SuccessClearSuccesses,
         SuccessResetFailures, shared
<1>7. ASSUME NEW t \in Threads, FailureStep(t)
      PROVE  failureCount' \in Nat /\ successCount' \in Nat /\ failureAge' \in 0..Timeout
  BY <1>7 DEF FailureStep, FailureLoad, FailureClock, FailureStamp, FailureRelease,
         FailureCount, FailureReload, FailureGeneration, FailureOpen, FailureVerify,
         FailureRollback, FailureResetSuccesses, FailureReopen, shared, LocalsOK
<1> QED
  BY <1>1, <1>2, <1>3, <1>4, <1>5, <1>6, <1>7 DEF Next, Step

\* Every variable of the breaker and of its callers keeps its type, whatever
\* the interleaving; in particular the half-open count never leaves
\* 0..ProbeLimit.
THEOREM TypeCorrect == Spec => []TypeOK
<1>1. Init => TypeOK
  BY ProbeLimitIsPositive, BreakerAssumption, NoWordType
  DEF Init, TypeOK, SharedOK, LocalsOK, Pcs, NoWord
<1>2. TypeOK /\ WordInv /\ [Next]_vars => TypeOK'
  <2> SUFFICES ASSUME TypeOK, WordInv, [Next]_vars
               PROVE  TypeOK'
    OBVIOUS
  <2> QED
    BY LocalsStep, CountersStep, WordInvStep DEF TypeOK, SharedOK, WordInv
<1> QED
  BY <1>1, <1>2, WordInvInit, WordInvStep, PTL DEF Spec

-----------------------------------------------------------------------------
(* Slot ownership *)

\* Where a request owns no slot: before it is admitted, and after it gave the
\* slot back.
FreePcs == {"idle", "can_execute", "check_timeout", "to_half_open", "acquire", "streaming",
            "s_recheck", "s_count", "s_close", "s_clear_failures", "s_clear_successes",
            "s_reset_failures", "f_count", "f_reload", "f_generation", "f_open",
            "f_verify", "f_rollback"}

\* The strengthening that makes slot ownership inductive.
SlotInv == \A t \in Threads : pc[t] \in FreePcs => probe[t] = FALSE

\* What a step of task t may do to the slots: keep its own, give it back, take
\* a free one, or clear them all.
Keeps(t) == packed' = packed /\ (probe[t] => probe'[t] /\ admitGen'[t] = admitGen[t])
Gives(t) == packed' = Released(packed)
Takes(t) ==
  /\ probe[t] = FALSE /\ probe'[t]
  /\ admitGen'[t] = packed.gen
  /\ packed'.gen = packed.gen
  /\ packed'.count = packed.count + 1
Clears == packed'.count = 0

\* A step of task t leaves the other tasks alone, keeps SlotInv for t, and
\* moves slots in one of the four ways.
SlotMove(t) ==
  /\ \A u \in Threads \ {t} :
        pc'[u] = pc[u] /\ probe'[u] = probe[u] /\ admitGen'[u] = admitGen[u]
  /\ pc'[t] \in FreePcs => probe'[t] = FALSE
  /\ Keeps(t) \/ Gives(t) \/ Takes(t) \/ Clears

\* What the end of a request does to the variables that carry ownership.
LEMMA FinishSlots ==
  ASSUME LocalsOK, NEW t \in Threads, Finish(t)
  PROVE  /\ \A u \in Threads \ {t} :
               pc'[u] = pc[u] /\ probe'[u] = probe[u] /\ admitGen'[u] = admitGen[u]
         /\ probe'[t] = FALSE
  BY DEF LocalsOK, Finish

\* What an admission does to them.
LEMMA AdmitSlots ==
  ASSUME LocalsOK, NEW t \in Threads, NEW g \in Nat, NEW p \in BOOLEAN, Admit(t, g, p)
  PROVE  /\ \A u \in Threads \ {t} :
               pc'[u] = pc[u] /\ probe'[u] = probe[u] /\ admitGen'[u] = admitGen[u]
         /\ pc'[t] = "in_flight" /\ probe'[t] = p /\ admitGen'[t] = g
  BY DEF LocalsOK, Admit

\* Every step of a started request is a slot move.
LEMMA StepMovesSlots ==
  ASSUME TypeOK, WordInv, SlotInv, NEW t \in Threads, Step(t)
  PROVE  SlotMove(t)
<1> USE DEF TypeOK
<1>0. packed \in Words /\ packed.gen \in Nat /\ packed.count \in Nat /\ probe[t] \in BOOLEAN
  BY ProbeLimitIsPositive DEF SharedOK, Words, LocalsOK
<1>1. CASE Admission(t)
  <2>1. CASE CanExecuteLoad(t)
    BY <1>0, <2>1, AdmitSlots
    DEF CanExecuteLoad, shared, SlotMove, Keeps, LocalsOK, SlotInv, FreePcs
  <2>2. CASE CheckTimeout(t)
    BY <1>0, <2>2, FinishSlots
    DEF CheckTimeout, RecoveryDue, shared, SlotMove, Keeps, LocalsOK, SlotInv,
           FreePcs
  <2>3. CASE ToHalfOpen(t)
    <3>1. probe[t] = FALSE
      BY <2>3 DEF ToHalfOpen, SlotInv, FreePcs
    <3>2. CASE packed = Pack(seen[t].gen, OPEN, 0)
      <4>1. /\ packed' = Pack(seen[t].gen, HALF_OPEN, 1)
            /\ pc' = [pc EXCEPT ![t] = "reset_successes"]
            /\ probe' = [probe EXCEPT ![t] = TRUE]
            /\ admitGen' = [admitGen EXCEPT ![t] = seen[t].gen]
        BY <2>3, <3>2 DEF ToHalfOpen
      <4>2. Takes(t)
        BY <3>1, <3>2, <4>1 DEF Takes, Pack, LocalsOK
      <4> QED
        BY <4>1, <4>2 DEF SlotMove, LocalsOK, FreePcs
    <3>3. CASE packed # Pack(seen[t].gen, OPEN, 0)
      <4>1. packed' = packed
        BY <2>3, <3>3 DEF ToHalfOpen
      <4>2. \/ /\ pc' = [pc EXCEPT ![t] = "acquire"]
               /\ UNCHANGED <<kind, epoch, probe, seen, tick, admitGen>>
            \/ Admit(t, packed.gen, FALSE)
            \/ Finish(t)
        BY <2>3, <3>3, Zenon DEF ToHalfOpen
      <4> QED
        BY <1>0, <3>1, <4>1, <4>2, FinishSlots, AdmitSlots
        DEF SlotMove, Keeps, LocalsOK, FreePcs
    <3> QED
      BY <3>2, <3>3
  <2>4. CASE ResetSuccesses(t)
    BY <1>0, <2>4, AdmitSlots
    DEF ResetSuccesses, SlotMove, Keeps, LocalsOK, SlotInv, FreePcs
  <2>5. CASE TryAcquireHalfOpenSlot(t)
    <3>1. probe[t] = FALSE
      BY <2>5 DEF TryAcquireHalfOpenSlot, SlotInv, FreePcs
    <3>2. \/ packed' = [packed EXCEPT !.count = @ + 1] /\ Admit(t, packed.gen, TRUE)
          \/ packed' = packed /\ (Finish(t) \/ Admit(t, packed.gen, FALSE))
      BY <2>5, Zenon DEF TryAcquireHalfOpenSlot
    <3>3. CASE packed' = [packed EXCEPT !.count = @ + 1] /\ Admit(t, packed.gen, TRUE)
      <4>1. packed'.gen = packed.gen /\ packed'.count = packed.count + 1
        BY <1>0, <3>3 DEF Words
      <4> QED
        BY <1>0, <3>1, <3>3, <4>1, AdmitSlots DEF SlotMove, Takes, FreePcs
    <3>4. CASE packed' = packed /\ (Finish(t) \/ Admit(t, packed.gen, FALSE))
      BY <1>0, <3>1, <3>4, FinishSlots, AdmitSlots DEF SlotMove, Keeps, FreePcs
    <3> QED
      BY <3>2, <3>3, <3>4
  <2> QED
    BY <1>1, <2>1, <2>2, <2>3, <2>4, <2>5 DEF Admission
<1>2. CASE Settlement(t)
  <2>1. CASE HeadersArrive(t)
    BY <1>0, <2>1
    DEF HeadersArrive, GoTo, SlotMove, Keeps, Gives, LocalsOK, SlotInv, FreePcs
  <2>2. CASE BodyCompletes(t)
    BY <1>0, <2>2, FinishSlots
    DEF BodyCompletes, IsStale, shared, SlotMove, Keeps, LocalsOK, SlotInv, FreePcs
  <2>3. CASE ResponseCompletes(t)
    BY <1>0, <2>3
    DEF ResponseCompletes, GoTo, shared, SlotMove, Keeps, LocalsOK, SlotInv, FreePcs
  <2>4. CASE DropRequest(t)
    BY <1>0, <2>4, FinishSlots
    DEF DropRequest, SettleSlotOnly, shared, SlotMove, Keeps, LocalsOK, SlotInv,
           FreePcs
  <2>5. CASE RecordNeutral(t)
    BY <1>0, <2>5, FinishSlots
    DEF RecordNeutral, SettleSlotOnly, shared, SlotMove, Keeps, LocalsOK, SlotInv,
           FreePcs
  <2>6. CASE RecordSuccess(t)
    BY <1>0, <2>6
    DEF RecordSuccess, GoTo, shared, SlotMove, Keeps, LocalsOK, SlotInv, FreePcs
  <2>7. CASE RecordFailure(t)
    BY <1>0, <2>7
    DEF RecordFailure, GoTo, shared, SlotMove, Keeps, LocalsOK, SlotInv, FreePcs
  <2>8. CASE RecordConnectionError(t)
    BY <1>0, <2>8, FinishSlots
    DEF RecordConnectionError, SettleSlotOnly, shared, SlotMove, Keeps, LocalsOK,
           SlotInv, FreePcs
  <2>9. CASE ReleaseHalfOpenSlot(t)
    BY <1>0, <2>9, FinishSlots
    DEF ReleaseHalfOpenSlot, SlotMove, Keeps, Gives, LocalsOK, SlotInv, FreePcs
  <2> QED
    BY <1>2, <2>1, <2>2, <2>3, <2>4, <2>5, <2>6, <2>7, <2>8, <2>9 DEF Settlement
<1>3. CASE SuccessStep(t)
  <2>1. CASE SuccessLoad(t)
    BY <1>0, <2>1, FinishSlots
    DEF SuccessLoad, SettleSlotOnly, shared, SlotMove, Keeps, LocalsOK, SlotInv,
           FreePcs
  <2>2. CASE SuccessRelease(t)
    BY <1>0, <2>2
    DEF SuccessRelease, GoTo, GiveBackSlot, SlotMove, Keeps, Gives, LocalsOK,
           SlotInv, FreePcs
  <2>3. CASE SuccessRecheck(t)
    BY <1>0, <2>3, FinishSlots
    DEF SuccessRecheck, shared, SlotMove, Keeps, LocalsOK, SlotInv, FreePcs
  <2>4. CASE SuccessCount(t)
    BY <1>0, <2>4, FinishSlots
    DEF SuccessCount, SlotMove, Keeps, LocalsOK, SlotInv, FreePcs
  <2>5. CASE SuccessClose(t)
    <3>1. probe[t] = FALSE
      BY <2>5 DEF SuccessClose, SlotInv, FreePcs
    <3>2. CASE packed.state # HALF_OPEN
      <4>1. packed' = packed /\ Finish(t)
        BY <2>5, <3>2 DEF SuccessClose
      <4> QED
        BY <3>1, <4>1, FinishSlots DEF SlotMove, Keeps
    <3>3. CASE packed.state = HALF_OPEN
      BY <2>5, <3>1, <3>3 DEF SuccessClose, SlotMove, Clears, Pack, LocalsOK, FreePcs
    <3> QED
      BY <3>2, <3>3
  <2>6. CASE SuccessClearFailures(t)
    BY <1>0, <2>6
    DEF SuccessClearFailures, GoTo, SlotMove, Keeps, LocalsOK, SlotInv, FreePcs
  <2>7. CASE SuccessClearSuccesses(t)
    BY <1>0, <2>7, FinishSlots
    DEF SuccessClearSuccesses, SlotMove, Keeps, LocalsOK, SlotInv, FreePcs
  <2>8. CASE SuccessResetFailures(t)
    BY <1>0, <2>8, FinishSlots
    DEF SuccessResetFailures, SlotMove, Keeps, LocalsOK, SlotInv, FreePcs
  <2> QED
    BY <1>3, <2>1, <2>2, <2>3, <2>4, <2>5, <2>6, <2>7, <2>8 DEF SuccessStep
<1>4. CASE FailureStep(t)
  <2>1. CASE FailureLoad(t)
    BY <1>0, <2>1
    DEF FailureLoad, GoTo, shared, SlotMove, Keeps, LocalsOK, SlotInv, FreePcs
  <2>2. CASE FailureClock(t)
    BY <1>0, <2>2, FinishSlots
    DEF FailureClock, SettleSlotOnly, shared, SlotMove, Keeps, LocalsOK, SlotInv,
           FreePcs
  <2>3. CASE FailureStamp(t)
    BY <1>0, <2>3
    DEF FailureStamp, SlotMove, Keeps, LocalsOK, SlotInv, FreePcs
  <2>4. CASE FailureRelease(t)
    BY <1>0, <2>4
    DEF FailureRelease, GoTo, GiveBackSlot, SlotMove, Keeps, Gives, LocalsOK,
           SlotInv, FreePcs
  <2>5. CASE FailureCount(t)
    BY <1>0, <2>5, FinishSlots
    DEF FailureCount, SlotMove, Keeps, LocalsOK, SlotInv, FreePcs
  <2>6. CASE FailureReload(t)
    BY <1>0, <2>6, FinishSlots
    DEF FailureReload, shared, SlotMove, Keeps, LocalsOK, SlotInv, FreePcs
  <2>7. CASE FailureGeneration(t)
    BY <1>0, <2>7
    DEF FailureGeneration, GoTo, shared, SlotMove, Keeps, LocalsOK, SlotInv, FreePcs
  <2>8. CASE FailureOpen(t)
    <3>1. probe[t] = FALSE
      BY <2>8 DEF FailureOpen, SlotInv, FreePcs
    <3>2. CASE packed = Pack(seen[t].gen, CLOSED, 0)
      BY <2>8, <3>1, <3>2 DEF FailureOpen, SlotMove, Clears, Pack, LocalsOK, FreePcs
    <3>3. CASE packed # Pack(seen[t].gen, CLOSED, 0)
      <4>1. packed' = packed /\ Finish(t)
        BY <2>8, <3>3 DEF FailureOpen
      <4> QED
        BY <3>1, <4>1, FinishSlots DEF SlotMove, Keeps
    <3> QED
      BY <3>2, <3>3
  <2>9. CASE FailureVerify(t)
    BY <1>0, <2>9, FinishSlots
    DEF FailureVerify, shared, SlotMove, Keeps, LocalsOK, SlotInv, FreePcs
  <2>10. CASE FailureRollback(t)
    BY <1>0, <2>10, FinishSlots
    DEF FailureRollback, SlotMove, Keeps, Clears, Pack, LocalsOK, SlotInv, FreePcs
  <2>11. CASE FailureResetSuccesses(t)
    BY <1>0, <2>11
    DEF FailureResetSuccesses, GoTo, SlotMove, Keeps, LocalsOK, SlotInv, FreePcs
  <2>12. CASE FailureReopen(t)
    <3>1. packed'.count = 0
      BY <1>0, <2>12 DEF FailureReopen, Pack, WordInv, OnlyHalfOpenCountsProbes, OPEN, HALF_OPEN
    <3> QED
      BY <2>12, <3>1, FinishSlots DEF FailureReopen, SlotMove, Clears
  <2> QED
    BY <1>4, <2>1, <2>2, <2>3, <2>4, <2>5, <2>6, <2>7, <2>8, <2>9, <2>10, <2>11,
           <2>12 DEF FailureStep
<1> QED
  BY <1>1, <1>2, <1>3, <1>4 DEF Step

\* A slot move keeps every slot owned.
LEMMA MovesKeepOwners ==
  ASSUME TypeOK, WordInv, EverySlotHasAnOwner, NEW t \in Threads, SlotMove(t),
         packed' \in Words
  PROVE  EverySlotHasAnOwner'
<1> USE DEF TypeOK
<1>1. IsFiniteSet(Holders) /\ IsFiniteSet(Holders')
  BY BreakerAssumption, FS_Subset DEF Holders
<1>2. /\ Cardinality(Holders) \in Nat /\ Cardinality(Holders') \in Nat
      /\ packed.count \in Nat /\ packed'.count \in Nat
  BY <1>1, FS_CardinalityType, ProbeLimitIsPositive DEF SharedOK, Words
<1>3. ASSUME packed'.gen = packed.gen
      PROVE  Holders \ {t} \subseteq Holders'
  BY <1>3 DEF Holders, SlotMove
<1>4. CASE Keeps(t)
  <2>1. Holders \subseteq Holders'
    BY <1>3, <1>4 DEF Keeps, Holders
  <2>2. Cardinality(Holders) <= Cardinality(Holders')
    BY <1>1, <2>1, FS_Subset
  <2> QED
    BY <1>2, <1>4, <2>2 DEF Keeps, EverySlotHasAnOwner
<1>5. CASE Gives(t)
  <2>1. packed'.gen = packed.gen
    BY <1>5 DEF Gives, Released, SharedOK, Words
  <2>2. Cardinality(Holders \ {t}) <= Cardinality(Holders')
    BY <1>1, <1>3, <2>1, FS_Subset
  <2>3. Cardinality(Holders \ {t}) >= Cardinality(Holders) - 1
    BY <1>1, <1>2, FS_RemoveElement
  <2>4. packed'.count = 0 \/ packed'.count = packed.count - 1
    BY <1>5 DEF Gives, Released, SharedOK, Words
  <2>5. Cardinality(Holders \ {t}) \in Nat
    BY <1>1, FS_RemoveElement, FS_CardinalityType
  <2> QED
    BY <1>2, <2>2, <2>3, <2>4, <2>5 DEF EverySlotHasAnOwner
<1>6. CASE Takes(t)
  <2>1. t \notin Holders /\ Holders \cup {t} \subseteq Holders'
    BY <1>3, <1>6 DEF Takes, Holders
  <2>2. Cardinality(Holders \cup {t}) = Cardinality(Holders) + 1
    BY <1>1, <2>1, FS_AddElement
  <2>3. Cardinality(Holders \cup {t}) <= Cardinality(Holders')
    BY <1>1, <2>1, FS_Subset
  <2> QED
    BY <1>2, <1>6, <2>2, <2>3 DEF Takes, EverySlotHasAnOwner
<1>7. CASE Clears
  BY <1>2, <1>7 DEF Clears, EverySlotHasAnOwner
<1> QED
  BY <1>4, <1>5, <1>6, <1>7 DEF SlotMove

OwnerInv == TypeOK /\ WordInv /\ SlotInv /\ EverySlotHasAnOwner

\* The conjunction is preserved by every step of the specification.
LEMMA OwnerInvStep == OwnerInv /\ [Next]_vars => OwnerInv'
<1> SUFFICES ASSUME OwnerInv, [Next]_vars
             PROVE  OwnerInv'
  OBVIOUS
<1> USE DEF OwnerInv
<1>1. WordInv' /\ packed' \in Words
  BY WordInvStep DEF WordInv
<1>2. TypeOK'
  BY <1>1, LocalsStep, CountersStep DEF TypeOK, SharedOK
<1>3. CASE UNCHANGED vars \/ ClockTick
  <2>1. UNCHANGED <<packed, pc, probe, admitGen>>
    BY <1>3 DEF vars, ClockTick
  <2> QED
    BY <1>1, <1>2, <2>1 DEF SlotInv, EverySlotHasAnOwner, Holders
<1>4. ASSUME NEW t \in Threads, StartRequest(t)
      PROVE  OwnerInv'
  <2>1. UNCHANGED <<packed, probe, admitGen>>
    BY <1>4 DEF StartRequest, shared
  <2>2. SlotInv'
    BY <1>4, <2>1 DEF StartRequest, GoTo, SlotInv, FreePcs, TypeOK, LocalsOK
  <2> QED
    BY <1>1, <1>2, <2>1, <2>2 DEF EverySlotHasAnOwner, Holders
<1>5. ASSUME NEW t \in Threads, Step(t)
      PROVE  OwnerInv'
  <2>1. SlotMove(t)
    BY <1>5, StepMovesSlots
  <2>2. SlotInv'
    BY <2>1 DEF SlotMove, SlotInv
  <2> QED
    BY <1>1, <1>2, <2>1, <2>2, MovesKeepOwners
<1> QED
  BY <1>3, <1>4, <1>5 DEF Next

\* No half-open slot is ever lost: for any number of requests, each unit of the
\* count belongs to a probe of the current cycle that is still under way and
\* will give it back, so HALF_OPEN cannot stay full with nobody inside.
THEOREM SlotsAreOwned == Spec => []EverySlotHasAnOwner
<1>1. Init => OwnerInv
  <2> SUFFICES ASSUME Init
               PROVE  OwnerInv
    OBVIOUS
  <2>1. TypeOK /\ WordInv
    BY WordInvInit, ProbeLimitIsPositive, BreakerAssumption, NoWordType
    DEF Init, TypeOK, SharedOK, LocalsOK, Pcs, NoWord
  <2>2. SlotInv
    BY DEF Init, SlotInv
  <2>3. IsFiniteSet(Holders) /\ packed.count = 0
    BY BreakerAssumption, FS_Subset DEF Init, Holders, Pack
  <2> QED
    BY <2>1, <2>2, <2>3, FS_CardinalityType DEF OwnerInv, EverySlotHasAnOwner
<1>2. OwnerInv => EverySlotHasAnOwner
  BY DEF OwnerInv
<1> QED
  BY <1>1, <1>2, OwnerInvStep, PTL DEF Spec

-----------------------------------------------------------------------------
(* The generation that a request captures *)

\* Where a request has not been admitted.
Unadmitted == {"idle", "can_execute", "check_timeout", "to_half_open", "acquire"}

\* The strengthening: the generation captured before the admission decision is
\* no later than the one of the word that decided, which is no later than now.
CycleInv ==
  \A t \in Threads :
    /\ epoch[t] <= packed.gen
    /\ pc[t] \notin Unadmitted => epoch[t] <= admitGen[t] /\ admitGen[t] <= packed.gen

\* What a step of task t may do to the generations: keep its own, take that of
\* the word that admits it, or end.
Same(t) ==
  /\ epoch'[t] = epoch[t] /\ admitGen'[t] = admitGen[t]
  /\ pc'[t] \notin Unadmitted => pc[t] \notin Unadmitted
Admits(t) == epoch'[t] = epoch[t] /\ admitGen'[t] = packed.gen
Ends(t) == pc'[t] = "idle" /\ epoch'[t] = 0

\* A step of task t leaves the other tasks alone, moves its generations in one
\* of the three ways, and passes the staleness check in its own generation only.
Goes(t) ==
  /\ \A u \in Threads \ {t} : pc'[u] = pc[u] /\ epoch'[u] = epoch[u] /\ admitGen'[u] = admitGen[u]
  /\ Same(t) \/ Admits(t) \/ Ends(t)
  /\ pc[t] = "streaming" /\ pc'[t] = "settle" => epoch[t] = packed.gen

\* The end of a request and an admission are such moves.
LEMMA FinishGoes ==
  ASSUME LocalsOK, NEW t \in Threads, Finish(t)
  PROVE  Goes(t)
  BY DEF LocalsOK, Finish, Goes, Ends

\* An admission takes the generation of the word that decided it.
LEMMA AdmitGoes ==
  ASSUME LocalsOK, NEW t \in Threads, Admit(t, packed.gen, TRUE) \/ Admit(t, packed.gen, FALSE)
  PROVE  Goes(t)
  BY DEF LocalsOK, Admit, Goes, Admits

\* A request that only its slot matters for keeps its generations or ends.
LEMMA SettleSlotGoes ==
  ASSUME LocalsOK, NEW t \in Threads, SettleSlotOnly(t),
         pc[t] \notin Unadmitted, pc[t] # "streaming"
  PROVE  Goes(t)
<1>1. CASE Finish(t)
  BY <1>1, FinishGoes
<1>2. CASE pc' = [pc EXCEPT ![t] = "release"] /\ UNCHANGED <<kind, epoch, probe, seen, tick, admitGen>>
  BY <1>2 DEF Goes, Same, LocalsOK
<1> QED
  BY <1>1, <1>2 DEF SettleSlotOnly

\* A step of record_success or record_failure, and any other that only moves on.
LEMMA MoveOnGoes ==
  ASSUME LocalsOK, NEW t \in Threads, NEW to, pc' = [pc EXCEPT ![t] = to],
         UNCHANGED <<epoch, admitGen>>,
         to \notin Unadmitted => pc[t] \notin Unadmitted,
         pc[t] = "streaming" /\ to = "settle" => epoch[t] = packed.gen
  PROVE  Goes(t)
  BY DEF Goes, Same, LocalsOK

\* Every step of a started request is such a move.
LEMMA StepGoes ==
  ASSUME TypeOK, NEW t \in Threads, Step(t)
  PROVE  Goes(t)
<1> USE FinishGoes, AdmitGoes, SettleSlotGoes, MoveOnGoes DEF TypeOK, Unadmitted
<1>1. CASE Admission(t)
  <2>1. CASE CanExecuteLoad(t)
    BY <2>1 DEF CanExecuteLoad
  <2>2. CASE CheckTimeout(t)
    BY <2>2 DEF CheckTimeout
  <2>3. CASE ToHalfOpen(t)
    <3>1. CASE packed = Pack(seen[t].gen, OPEN, 0)
      <4>1. packed.gen = seen[t].gen
        BY <3>1 DEF Pack
      <4>2. /\ pc' = [pc EXCEPT ![t] = "reset_successes"]
            /\ admitGen' = [admitGen EXCEPT ![t] = seen[t].gen]
            /\ UNCHANGED epoch /\ pc[t] = "to_half_open"
        BY <2>3, <3>1 DEF ToHalfOpen
      <4> QED
        BY <4>1, <4>2 DEF Goes, Admits, LocalsOK
    <3>2. CASE packed # Pack(seen[t].gen, OPEN, 0)
      BY <2>3, <3>2 DEF ToHalfOpen
    <3> QED
      BY <3>1, <3>2
  <2>4. CASE ResetSuccesses(t)
    BY <2>4 DEF ResetSuccesses, Admit, Goes, Same, LocalsOK
  <2>5. CASE TryAcquireHalfOpenSlot(t)
    BY <2>5 DEF TryAcquireHalfOpenSlot
  <2> QED
    BY <1>1, <2>1, <2>2, <2>3, <2>4, <2>5 DEF Admission
<1>2. CASE Settlement(t)
  <2>1. CASE HeadersArrive(t)
    BY <2>1 DEF HeadersArrive, GoTo
  <2>2. CASE BodyCompletes(t)
    BY <2>2 DEF BodyCompletes, IsStale
  <2>3. CASE ResponseCompletes(t)
    BY <2>3 DEF ResponseCompletes, GoTo
  <2>4. CASE DropRequest(t)
    BY <2>4 DEF DropRequest
  <2>5. CASE RecordNeutral(t)
    BY <2>5 DEF RecordNeutral
  <2>6. CASE RecordSuccess(t)
    BY <2>6 DEF RecordSuccess, GoTo
  <2>7. CASE RecordFailure(t)
    BY <2>7 DEF RecordFailure, GoTo
  <2>8. CASE RecordConnectionError(t)
    BY <2>8 DEF RecordConnectionError
  <2>9. CASE ReleaseHalfOpenSlot(t)
    BY <2>9 DEF ReleaseHalfOpenSlot
  <2> QED
    BY <1>2, <2>1, <2>2, <2>3, <2>4, <2>5, <2>6, <2>7, <2>8, <2>9 DEF Settlement
<1>3. CASE SuccessStep(t)
  <2>1. CASE SuccessLoad(t)
    BY <2>1 DEF SuccessLoad
  <2>2. CASE SuccessRelease(t)
    BY <2>2 DEF SuccessRelease, GoTo
  <2>3. CASE SuccessRecheck(t)
    BY <2>3 DEF SuccessRecheck
  <2>4. CASE SuccessCount(t)
    BY <2>4 DEF SuccessCount
  <2>5. CASE SuccessClose(t)
    BY <2>5 DEF SuccessClose
  <2>6. CASE SuccessClearFailures(t)
    BY <2>6 DEF SuccessClearFailures, GoTo
  <2>7. CASE SuccessClearSuccesses(t)
    BY <2>7 DEF SuccessClearSuccesses
  <2>8. CASE SuccessResetFailures(t)
    BY <2>8 DEF SuccessResetFailures
  <2> QED
    BY <1>3, <2>1, <2>2, <2>3, <2>4, <2>5, <2>6, <2>7, <2>8 DEF SuccessStep
<1>4. CASE FailureStep(t)
  <2>1. CASE FailureLoad(t)
    BY <2>1 DEF FailureLoad, GoTo
  <2>2. CASE FailureClock(t)
    BY <2>2 DEF FailureClock
  <2>3. CASE FailureStamp(t)
    BY <2>3 DEF FailureStamp
  <2>4. CASE FailureRelease(t)
    BY <2>4 DEF FailureRelease, GoTo
  <2>5. CASE FailureCount(t)
    BY <2>5 DEF FailureCount
  <2>6. CASE FailureReload(t)
    BY <2>6 DEF FailureReload
  <2>7. CASE FailureGeneration(t)
    BY <2>7 DEF FailureGeneration, GoTo
  <2>8. CASE FailureOpen(t)
    BY <2>8 DEF FailureOpen
  <2>9. CASE FailureVerify(t)
    BY <2>9 DEF FailureVerify
  <2>10. CASE FailureRollback(t)
    BY <2>10 DEF FailureRollback
  <2>11. CASE FailureResetSuccesses(t)
    BY <2>11 DEF FailureResetSuccesses, GoTo
  <2>12. CASE FailureReopen(t)
    BY <2>12 DEF FailureReopen
  <2> QED
    BY <1>4, <2>1, <2>2, <2>3, <2>4, <2>5, <2>6, <2>7, <2>8, <2>9, <2>10, <2>11, <2>12 DEF FailureStep
<1> QED
  BY <1>1, <1>2, <1>3, <1>4 DEF Step

\* The open generation never goes back.
LEMMA GenerationGrows ==
  ASSUME WordInv, [Next]_vars
  PROVE  packed'.gen \in Nat /\ packed.gen \in Nat /\ packed.gen <= packed'.gen
<1>1. packed'.gen \in Nat /\ packed.gen \in Nat
  BY WordInvStep DEF WordInv, Words
<1>2. CASE packed' = packed
  BY <1>1, <1>2
<1>3. CASE Word!Next
  BY <1>1, <1>3
  DEF Word!Next, Word!Open, Word!RollBack, Word!BeginHalfOpen, Word!AdmitProbe,
      Word!ReturnProbe, Word!Close, Word!Pack, WordInv, Words
<1> QED
  BY <1>2, <1>3, StepRefinesWord

\* The captured generations stay in order.
LEMMA CycleInvStep ==
  ASSUME TypeOK, WordInv, CycleInv, [Next]_vars
  PROVE  CycleInv'
<1>0. /\ packed'.gen \in Nat /\ packed.gen \in Nat /\ packed.gen <= packed'.gen
      /\ \A t \in Threads : epoch[t] \in Nat /\ admitGen[t] \in Nat
  BY GenerationGrows DEF TypeOK, LocalsOK
<1>1. CASE UNCHANGED vars \/ ClockTick
  <2>1. UNCHANGED <<packed, pc, epoch, admitGen>>
    BY <1>1 DEF vars, ClockTick
  <2> QED
    BY <2>1 DEF CycleInv
<1>2. ASSUME NEW t \in Threads, StartRequest(t)
      PROVE  CycleInv'
  <2>1. /\ epoch' = [epoch EXCEPT ![t] = packed.gen] /\ pc' = [pc EXCEPT ![t] = "can_execute"]
        /\ UNCHANGED <<packed, admitGen>>
    BY <1>2 DEF StartRequest, GoTo, shared
  <2> QED
    BY <1>0, <2>1 DEF CycleInv, Unadmitted, TypeOK, LocalsOK
<1>3. ASSUME NEW t \in Threads, Step(t)
      PROVE  CycleInv'
  <2>1. Goes(t)
    BY <1>3, StepGoes
  <2>2. ASSUME NEW u \in Threads
        PROVE  /\ epoch'[u] <= packed'.gen
               /\ pc'[u] \notin Unadmitted =>
                     epoch'[u] <= admitGen'[u] /\ admitGen'[u] <= packed'.gen
    <3>1. CASE u # t
      BY <1>0, <2>1, <3>1 DEF Goes, CycleInv
    <3>2. CASE u = t /\ Same(t)
      BY <1>0, <3>2 DEF Same, CycleInv
    <3>3. CASE u = t /\ Admits(t)
      BY <1>0, <3>3 DEF Admits, CycleInv
    <3>4. CASE u = t /\ Ends(t)
      BY <1>0, <3>4 DEF Ends, Unadmitted
    <3> QED
      BY <2>1, <3>1, <3>2, <3>3, <3>4 DEF Goes
  <2> QED
    BY <2>2 DEF CycleInv
<1> QED
  BY <1>1, <1>2, <1>3 DEF Next

\* A deferred outcome that passes the staleness check was admitted in the
\* half-open cycle whose health it reports, for any number of requests in any
\* interleaving: the captured generation may be too old, never too new.
THEOREM OutcomesReachTheirCycle == Spec => DeferredOutcomeKnowsItsCycle
<1>1. ASSUME TypeOK, WordInv, CycleInv, [Next]_vars, NEW t \in Threads,
             pc[t] = "streaming", pc'[t] = "settle"
      PROVE  admitGen[t] = packed.gen
  <2>1. epoch[t] <= admitGen[t] /\ admitGen[t] <= packed.gen
    BY <1>1 DEF CycleInv, Unadmitted
  <2>2. epoch[t] = packed.gen
    <3>1. pc' # pc
      BY <1>1
    <3>2. ASSUME NEW u \in Threads, Step(u)
          PROVE  epoch[t] = packed.gen
      BY <1>1, <3>2, StepGoes DEF Goes
    <3>3. ASSUME NEW u \in Threads, StartRequest(u)
          PROVE  FALSE
      BY <1>1, <3>3 DEF StartRequest, GoTo, TypeOK, LocalsOK
    <3> QED
      BY <1>1, <3>1, <3>2, <3>3 DEF Next, ClockTick, vars
  <2>3. epoch[t] \in Nat /\ admitGen[t] \in Nat /\ packed.gen \in Nat
    BY <1>1, GenerationGrows DEF TypeOK, LocalsOK
  <2> QED
    BY <2>1, <2>2, <2>3
<1>2. TypeOK /\ WordInv /\ CycleInv /\ [Next]_vars =>
        [\A t \in Threads :
            pc[t] = "streaming" /\ pc'[t] = "settle" /\ packed.state = HALF_OPEN
              => admitGen[t] = packed.gen]_vars
  BY <1>1
<1>3. Init => CycleInv
  BY DEF Init, CycleInv, Unadmitted, Pack
<1>4. TypeOK /\ WordInv /\ CycleInv /\ [Next]_vars => CycleInv'
  BY CycleInvStep
<1> QED
  BY <1>2, <1>3, <1>4, TypeCorrect, WordInvInit, WordInvStep, PTL
  DEF Spec, DeferredOutcomeKnowsItsCycle

-----------------------------------------------------------------------------
(* The recorder of a streaming RPC *)

TaskPcs == {"dispatch", "arm", "armed", "guard_swap", "settle", "release", "release_swap",
            "record", "record_exceeded", "record_expired", "record_swap", "headers",
            "streaming", "failure_swap", "done"}
UploadPcs == {"uploading", "aborting", "release", "release_swap", "record",
              "record_exceeded", "record_expired", "record_swap", "done"}
GuardPcs == {"off", "armed", "guard_swap", "settle", "done"}

\* A thread that has seen a clean response and the end of the upload.
Joined == {"record_exceeded", "record_expired", "record_swap"}

\* A store that the other threads do not see yet.
Pending(t, f) == \E n \in DOMAIN buf[t] : buf[t][n] = f

\* Whoever sees flag g of thread t sees flag f too.
Ordered(t, f, g) ==
  /\ mem[g] => mem[f]
  /\ \A j \in DOMAIN buf[t] :
        buf[t][j] = g => mem[f] \/ \E i \in DOMAIN buf[t] : i < j /\ buf[t][i] = f

\* Values, and which thread stores which flag.
RecorderTypes ==
  /\ rpcProbe \in BOOLEAN /\ dropped \in BOOLEAN /\ lateUpload \in BOOLEAN
  /\ releases \in {0, 1}
  /\ outcomes \in {<<>>, <<"failure">>, <<"success">>}
  /\ terminal \in {"none", "clean", "failure", "client"}
  /\ mem \in [Flags -> BOOLEAN]
  /\ buf \in [RpcThreads -> Seq(Flags)]
  /\ rpcPc \in [RpcThreads -> TaskPcs \cup UploadPcs \cup GuardPcs]
  /\ rpcPc["task"] \in TaskPcs /\ rpcPc["upload"] \in UploadPcs /\ rpcPc["guard"] \in GuardPcs
  /\ then \in [RpcThreads -> {"headers", "done"}]
  /\ then["upload"] = "done" /\ then["guard"] = "done"

Stores ==
  /\ \A f \in Flags : Pending("task", f) =>
        f \in {"headers_seen", "upload_guard_expired", "health_recorded", "response_clean"}
  /\ \A f \in Flags : Pending("upload", f) =>
        f \in {"request_body_exceeded", "upload_terminated", "health_recorded"}
  /\ \A f \in Flags : Pending("guard", f) => f = "upload_guard_expired"

\* What each thread has published.
Headers == mem["headers_seen"] \/ Pending("task", "headers_seen")
Clean == mem["response_clean"] \/ Pending("task", "response_clean")
Ended == mem["upload_terminated"] \/ Pending("upload", "upload_terminated")
Exceeded == mem["request_body_exceeded"] \/ Pending("upload", "request_body_exceeded")
Recorded == mem["health_recorded"] \/ Pending("task", "health_recorded")
              \/ Pending("upload", "health_recorded")
TaskRecorded == mem["health_recorded"] \/ Pending("task", "health_recorded")

\* The two orders of stores that the recorder relies on.
HealthBeforeClean == Ordered("task", "health_recorded", "response_clean")
OverflowBeforeEnd == Ordered("upload", "request_body_exceeded", "upload_terminated")

\* Every store is visible.
Quiet == \A t \in RpcThreads : buf[t] = <<>>

\* The slot belongs to the request's guard until the headers, and to
\* slot_released from then on.
SlotOnce ==
  /\ rpcPc["task"] = "dispatch" => ~Headers
  /\ rpcPc["task"] \notin {"dispatch", "done"} => Headers
  /\ rpcPc["guard"] # "off" => Headers
  /\ ~Headers => ~mem["slot_released"]
                 /\ releases = IF rpcPc["task"] = "done" /\ rpcProbe THEN 1 ELSE 0
  /\ Headers => releases = IF mem["slot_released"] THEN 1 ELSE 0
  /\ mem["slot_released"] => rpcProbe
  /\ ("release_swap" \in {rpcPc["task"], rpcPc["upload"]}
      \/ "guard_swap" \in {rpcPc["task"], rpcPc["guard"]}) => rpcProbe /\ Headers
  /\ dropped => /\ Finished /\ Quiet
                /\ releases = IF rpcProbe THEN 1 ELSE 0

\* The request task: it waits for headers, streams the response, has its end.
TaskOrder ==
  /\ rpcPc["task"] \in {"arm", "armed", "guard_swap", "settle", "release", "release_swap",
                        "headers", "streaming"} => then["task"] = "headers"
  /\ rpcPc["task"] = "record" => then["task"] = "headers" \/ Clean
  /\ rpcPc["task"] = "failure_swap" => terminal = "failure"
  /\ rpcPc["task"] = "dispatch" \/ then["task"] = "headers" => terminal = "none"
  /\ terminal = "failure" => rpcPc["task"] \in {"failure_swap", "done"}
  /\ Clean => /\ then["task"] = "done" /\ terminal = "clean"
              /\ rpcPc["task"] \in Joined \cup {"record", "done"}
  /\ rpcPc["task"] \in Joined => Clean

\* The upload: an overflow is published before its end is.
UploadOrder ==
  /\ Ended <=> rpcPc["upload"] \notin {"uploading", "aborting"}
  /\ rpcPc["upload"] = "uploading" => ~Exceeded
  /\ Exceeded => OverflowBeforeEnd
  /\ lateUpload => Ended /\ mem["upload_guard_expired"]

\* A join: what a thread has found out by the time it records a success.
Joins ==
  /\ rpcPc["task"] \in Joined => mem["upload_terminated"]
  /\ rpcPc["upload"] \in Joined => mem["response_clean"]
  /\ (rpcPc["task"] \in Joined \ {"record_exceeded"}
      \/ rpcPc["upload"] \in Joined \ {"record_exceeded"}) => ~Exceeded
  /\ rpcPc["task"] = "record_swap" \/ rpcPc["upload"] = "record_swap" => ~lateUpload

\* An outcome is recorded once, and what was recorded is right.
OutcomeOnce ==
  /\ outcomes # <<>> => TaskRecorded /\ HealthBeforeClean
  /\ outcomes = <<"success">> => Clean /\ Ended /\ ~Exceeded /\ ~lateUpload
  /\ Recorded /\ (terminal = "none" \/ rpcPc["task"] = "failure_swap") => outcomes = <<"failure">>
  /\ terminal = "failure" /\ rpcPc["task"] = "done" => outcomes = <<"failure">> \/ Exceeded
  /\ (rpcPc["task"] = "dispatch"
      \/ (then["task"] = "headers" /\ rpcPc["task"] \notin {"streaming", "done"})) => outcomes = <<>>

RecorderInv ==
  RecorderTypes /\ Stores /\ SlotOnce /\ TaskOrder /\ UploadOrder /\ Joins /\ OutcomeOnce

-----------------------------------------------------------------------------
(* Recorder: memory *)

\* A store becomes pending behind what its thread stored before.
LEMMA StoreEffect ==
  ASSUME RecorderTypes, NEW t \in RpcThreads, NEW f \in Flags, Store(t, f), mem' = mem
  PROVE  /\ buf' \in [RpcThreads -> Seq(Flags)]
         /\ \A u \in RpcThreads, g \in Flags :
               Pending(u, g)' <=> Pending(u, g) \/ (u = t /\ g = f)
         /\ \A u \in RpcThreads, g, h \in Flags :
               Ordered(u, g, h) /\ (u # t \/ h # f \/ mem[g] \/ Pending(u, g)) => Ordered(u, g, h)'
<1>1. /\ buf[t] \in Seq(Flags) /\ buf' = [buf EXCEPT ![t] = Append(buf[t], f)]
      /\ buf \in [RpcThreads -> Seq(Flags)]
  BY DEF RecorderTypes, Store
<1>2. /\ buf' \in [RpcThreads -> Seq(Flags)] /\ buf'[t] = Append(buf[t], f)
      /\ \A u \in RpcThreads : u # t => buf'[u] = buf[u]
  BY <1>1, AppendProperties
<1>3. /\ DOMAIN buf[t] = 1..Len(buf[t]) /\ DOMAIN buf'[t] = 1..(Len(buf[t]) + 1)
      /\ Len(buf[t]) \in Nat /\ buf'[t][Len(buf[t]) + 1] = f
      /\ \A i \in 1..Len(buf[t]) : buf'[t][i] = buf[t][i]
  BY <1>1, <1>2
<1>4. ASSUME NEW u \in RpcThreads, NEW g \in Flags
      PROVE  Pending(u, g)' <=> Pending(u, g) \/ (u = t /\ g = f)
  <2>1. CASE u # t
    BY <1>2, <2>1 DEF Pending
  <2>2. CASE u = t
    BY <1>3, <2>2 DEF Pending
  <2> QED BY <2>1, <2>2
<1>5. ASSUME NEW u \in RpcThreads, NEW g \in Flags, NEW h \in Flags, Ordered(u, g, h),
             u # t \/ h # f \/ mem[g] \/ Pending(u, g)
      PROVE  Ordered(u, g, h)'
  <2>1. CASE u # t
    BY <1>2, <1>5, <2>1 DEF Ordered
  <2>2. CASE u = t
    <3>1. ASSUME NEW j \in DOMAIN buf'[t], buf'[t][j] = h, ~mem[g]
          PROVE  \E i \in DOMAIN buf'[t] : i < j /\ buf'[t][i] = g
      <4>1. CASE j \in 1..Len(buf[t])
        <5>1. PICK i \in DOMAIN buf[t] : i < j /\ buf[t][i] = g
          BY <1>3, <1>5, <2>2, <3>1, <4>1 DEF Ordered
        <5> QED BY <1>3, <5>1
      <4>2. CASE j = Len(buf[t]) + 1
        <5>1. PICK i \in DOMAIN buf[t] : buf[t][i] = g
          BY <1>3, <1>5, <2>2, <3>1, <4>2 DEF Pending
        <5> QED BY <1>3, <4>2, <5>1
      <4> QED BY <1>3, <3>1, <4>1, <4>2
    <3> QED BY <1>5, <2>2, <3>1 DEF Ordered
  <2> QED BY <2>1, <2>2
<1> QED BY <1>2, <1>4, <1>5

\* The oldest pending store becomes visible: no thread forgets a flag, and the
\* order of two flags stays as it was.
LEMMA FlushEffect ==
  ASSUME RecorderTypes, NEW t \in RpcThreads, Flush(t)
  PROVE  /\ mem' \in [Flags -> BOOLEAN] /\ buf' \in [RpcThreads -> Seq(Flags)]
         /\ \A g \in Flags : mem[g] => mem'[g]
         /\ \A g \in Flags : mem'[g] => mem[g] \/ Pending(t, g)
         /\ \A u \in RpcThreads, g \in Flags : Pending(u, g)' => Pending(u, g)
         /\ \A u \in RpcThreads, g \in Flags : Pending(u, g) => Pending(u, g)' \/ mem'[g]
         /\ \A u \in RpcThreads, g, h \in Flags :
               Ordered(u, g, h) /\ (u = t \/ ~Pending(t, h)) => Ordered(u, g, h)'
<1> DEFINE f == Head(buf[t])
<1>1. /\ buf[t] \in Seq(Flags) /\ buf[t] # <<>>
      /\ mem' = [mem EXCEPT ![f] = TRUE] /\ buf' = [buf EXCEPT ![t] = Tail(buf[t])]
      /\ mem \in [Flags -> BOOLEAN] /\ buf \in [RpcThreads -> Seq(Flags)]
  BY DEF RecorderTypes, Flush
<1>2. /\ f \in Flags /\ Tail(buf[t]) \in Seq(Flags) /\ f = buf[t][1]
      /\ Len(buf[t]) \in Nat \ {0} /\ DOMAIN buf[t] = 1..Len(buf[t])
      /\ DOMAIN Tail(buf[t]) = 1..(Len(buf[t]) - 1)
      /\ \A i \in 1..(Len(buf[t]) - 1) : Tail(buf[t])[i] = buf[t][i + 1]
  <2>1. Len(buf[t]) \in Nat \ {0}
    BY <1>1, EmptySeq
  <2>2. f \in Flags /\ Tail(buf[t]) \in Seq(Flags) /\ Len(Tail(buf[t])) = Len(buf[t]) - 1
        /\ \A i \in 1..Len(Tail(buf[t])) : Tail(buf[t])[i] = buf[t][i + 1]
    BY <1>1, HeadTailProperties
  <2> QED BY <1>1, <2>1, <2>2
<1> HIDE DEF f
<1>3. /\ mem' \in [Flags -> BOOLEAN] /\ buf' \in [RpcThreads -> Seq(Flags)]
      /\ buf'[t] = Tail(buf[t]) /\ mem'[f]
      /\ \A u \in RpcThreads : u # t => buf'[u] = buf[u]
      /\ \A g \in Flags : g # f => mem'[g] = mem[g]
  BY <1>1, <1>2
<1>4. \A g \in Flags : (mem[g] => mem'[g]) /\ (mem'[g] => mem[g] \/ Pending(t, g))
  <2>1. ASSUME NEW g \in Flags, g # f
        PROVE  mem'[g] = mem[g]
    BY <1>3, <2>1
  <2>2. 1 \in DOMAIN buf[t] /\ buf[t][1] = f
    BY <1>2
  <2>3. Pending(t, f)
    BY <2>2 DEF Pending
  <2> QED BY <1>3, <2>1, <2>3
<1>5. ASSUME NEW u \in RpcThreads, NEW g \in Flags
      PROVE  (Pending(u, g)' => Pending(u, g)) /\ (Pending(u, g) => Pending(u, g)' \/ mem'[g])
  <2>1. CASE u # t
    BY <1>3, <2>1 DEF Pending
  <2>2. CASE u = t
    <3>1. ASSUME NEW i \in DOMAIN buf'[t], buf'[t][i] = g PROVE \E n \in DOMAIN buf[t] : buf[t][n] = g
      <4>1. i + 1 \in DOMAIN buf[t] /\ buf[t][i + 1] = g
        BY <1>2, <1>3, <3>1
      <4> QED BY <4>1
    <3>2. ASSUME NEW n \in DOMAIN buf[t], buf[t][n] = g, ~mem'[g]
          PROVE  \E i \in DOMAIN buf'[t] : buf'[t][i] = g
      <4>1. n # 1
        BY <1>2, <1>3, <3>2
      <4>2. n \in Nat /\ n - 1 \in 1..(Len(buf[t]) - 1) /\ (n - 1) + 1 = n
        BY <1>2, <3>2, <4>1
      <4>3. Tail(buf[t])[n - 1] = g
        BY <1>2, <3>2, <4>2
      <4> QED BY <1>2, <1>3, <4>2, <4>3
    <3> QED BY <2>2, <3>1, <3>2 DEF Pending
  <2> QED BY <2>1, <2>2
<1>6. ASSUME NEW u \in RpcThreads, NEW g \in Flags, NEW h \in Flags, Ordered(u, g, h),
             u = t \/ ~Pending(t, h)
      PROVE  Ordered(u, g, h)'
  <2>1. CASE u # t
    <3>1. h # f
      BY <1>2, <1>6, <2>1 DEF Pending
    <3> QED BY <1>3, <1>4, <1>6, <2>1, <3>1 DEF Ordered
  <2>2. CASE u = t
    <3>1. mem'[h] => mem'[g]
      <4>1. CASE h = f
        BY <1>2, <1>4, <1>6, <2>2, <4>1 DEF Ordered
      <4>2. CASE h # f
        BY <1>3, <1>4, <1>6, <4>2 DEF Ordered
      <4> QED BY <4>1, <4>2
    <3>2. ASSUME NEW j \in DOMAIN buf'[t], buf'[t][j] = h, ~mem'[g]
          PROVE  \E i \in DOMAIN buf'[t] : i < j /\ buf'[t][i] = g
      <4>1. j + 1 \in DOMAIN buf[t] /\ buf[t][j + 1] = h /\ ~mem[g] /\ j \in Nat
        BY <1>2, <1>3, <1>4, <3>2
      <4>2. PICK i \in DOMAIN buf[t] : i < j + 1 /\ buf[t][i] = g
        BY <1>6, <2>2, <4>1 DEF Ordered
      <4>3. i # 1
        BY <1>2, <1>3, <3>2, <4>2
      <4>4. i - 1 \in DOMAIN buf'[t] /\ i - 1 < j /\ buf'[t][i - 1] = g
        BY <1>2, <1>3, <4>1, <4>2, <4>3
      <4> QED BY <4>4
    <3> QED BY <2>2, <3>1, <3>2 DEF Ordered
  <2> QED BY <2>1, <2>2
<1> QED BY <1>3, <1>4, <1>5, <1>6

\* A swap acts on memory; its own thread has nothing pending.
LEMMA SwapEffect ==
  ASSUME RecorderTypes, NEW f \in Flags, mem' = [mem EXCEPT ![f] = TRUE], buf' = buf
  PROVE  /\ mem' \in [Flags -> BOOLEAN]
         /\ \A g \in Flags : mem'[g] = (mem[g] \/ g = f)
         /\ \A u \in RpcThreads, g \in Flags : Pending(u, g)' = Pending(u, g)
         /\ \A u \in RpcThreads, g, h \in Flags : Ordered(u, g, h) /\ h # f => Ordered(u, g, h)'
<1>1. mem' \in [Flags -> BOOLEAN] /\ \A g \in Flags : mem'[g] = (mem[g] \/ g = f)
  BY DEF RecorderTypes
<1> QED BY <1>1 DEF Pending, Ordered

\* A step that only loads.
LEMMA LoadEffect ==
  ASSUME mem' = mem, buf' = buf
  PROVE  /\ \A u \in RpcThreads, g \in Flags : Pending(u, g)' = Pending(u, g)
         /\ \A u \in RpcThreads, g, h \in Flags : Ordered(u, g, h)' = Ordered(u, g, h)
BY DEF Pending, Ordered

\* An empty buffer has nothing pending.
LEMMA NothingPending ==
  ASSUME NEW t \in RpcThreads, buf[t] = <<>>, NEW f
  PROVE  ~Pending(t, f)
BY DEF Pending

\* What a thread can load.
LEMMA LoadMeans ==
  ASSUME RecorderTypes, Stores, NEW t \in RpcThreads
  PROVE  /\ \A f \in Flags : mem[f] => Load(t, f)
         /\ Load(t, "headers_seen") => Headers
         /\ Load(t, "response_clean") => Clean
         /\ Load(t, "response_clean") /\ t # "task" => mem["response_clean"]
         /\ Load(t, "upload_terminated") => Ended
         /\ Load(t, "upload_terminated") /\ t # "upload" => mem["upload_terminated"]
         /\ Load(t, "request_body_exceeded") => Exceeded
         /\ Exceeded /\ t = "upload" => Load(t, "request_body_exceeded")
<1>1. \A f \in Flags : Load(t, f) <=> mem[f] \/ Pending(t, f)
  BY DEF Load, Pending
<1>2. /\ Pending(t, "headers_seen") => t = "task"
      /\ Pending(t, "response_clean") => t = "task"
      /\ Pending(t, "upload_terminated") => t = "upload"
      /\ Pending(t, "request_body_exceeded") => t = "upload"
  BY Zenon DEF Stores, RpcThreads, Flags
<1>3. /\ "headers_seen" \in Flags /\ "response_clean" \in Flags
      /\ "upload_terminated" \in Flags /\ "request_body_exceeded" \in Flags
  BY DEF Flags
<1> QED BY <1>1, <1>2, <1>3 DEF Headers, Clean, Ended, Exceeded

\* A step after which the same flags are published, in the same order.
SameSignals ==
  /\ Headers' <=> Headers
  /\ Clean' <=> Clean
  /\ Ended' <=> Ended
  /\ Exceeded' <=> Exceeded
  /\ Recorded' <=> Recorded
  /\ TaskRecorded => TaskRecorded'
  /\ HealthBeforeClean => HealthBeforeClean'
  /\ OverflowBeforeEnd => OverflowBeforeEnd'

\* A step that only loads is one.
LEMMA LoadSignals ==
  ASSUME mem' = mem, buf' = buf
  PROVE  SameSignals /\ (Stores' <=> Stores)
<1>1. \A u \in RpcThreads, g \in Flags : Pending(u, g)' <=> Pending(u, g)
  BY LoadEffect
<1>2. \A u \in RpcThreads, g, h \in Flags : Ordered(u, g, h)' <=> Ordered(u, g, h)
  BY LoadEffect
<1>3. Stores' <=> Stores
  BY <1>1 DEF Stores, RpcThreads, Flags
<1> QED
  BY <1>1, <1>2, <1>3 DEF SameSignals, Headers, Clean, Ended, Exceeded, Recorded, TaskRecorded,
     HealthBeforeClean, OverflowBeforeEnd, RpcThreads, Flags

\* A store publishes its flag, and nothing else.
LEMMA StoreSignals ==
  ASSUME RecorderTypes, NEW t \in RpcThreads, NEW f \in Flags, Store(t, f), mem' = mem
  PROVE  /\ Headers' <=> Headers \/ (t = "task" /\ f = "headers_seen")
         /\ Clean' <=> Clean \/ (t = "task" /\ f = "response_clean")
         /\ Ended' <=> Ended \/ (t = "upload" /\ f = "upload_terminated")
         /\ Exceeded' <=> Exceeded \/ (t = "upload" /\ f = "request_body_exceeded")
         /\ Recorded' <=> Recorded \/ (t \in {"task", "upload"} /\ f = "health_recorded")
         /\ TaskRecorded' <=> TaskRecorded \/ (t = "task" /\ f = "health_recorded")
         /\ HealthBeforeClean /\ (f # "response_clean" \/ TaskRecorded) => HealthBeforeClean'
         /\ OverflowBeforeEnd /\ (f # "upload_terminated" \/ Exceeded) => OverflowBeforeEnd'
         /\ buf' \in [RpcThreads -> Seq(Flags)]
<1>1. \A u \in RpcThreads, g \in Flags : Pending(u, g)' <=> Pending(u, g) \/ (u = t /\ g = f)
  BY StoreEffect
<1>2. \A u \in RpcThreads, g, h \in Flags :
         Ordered(u, g, h) /\ (u # t \/ h # f \/ mem[g] \/ Pending(u, g)) => Ordered(u, g, h)'
  BY StoreEffect
<1>3. buf' \in [RpcThreads -> Seq(Flags)]
  BY StoreEffect
<1>4. /\ Headers' <=> Headers \/ (t = "task" /\ f = "headers_seen")
      /\ Clean' <=> Clean \/ (t = "task" /\ f = "response_clean")
      /\ Ended' <=> Ended \/ (t = "upload" /\ f = "upload_terminated")
      /\ Exceeded' <=> Exceeded \/ (t = "upload" /\ f = "request_body_exceeded")
      /\ Recorded' <=> Recorded \/ (t \in {"task", "upload"} /\ f = "health_recorded")
      /\ TaskRecorded' <=> TaskRecorded \/ (t = "task" /\ f = "health_recorded")
  BY <1>1 DEF Headers, Clean, Ended, Exceeded, Recorded, TaskRecorded, RpcThreads, Flags
<1>5. HealthBeforeClean /\ (f # "response_clean" \/ TaskRecorded) => HealthBeforeClean'
  BY <1>2 DEF HealthBeforeClean, TaskRecorded, RpcThreads, Flags
<1>6. OverflowBeforeEnd /\ (f # "upload_terminated" \/ Exceeded) => OverflowBeforeEnd'
  BY <1>2 DEF OverflowBeforeEnd, Exceeded, RpcThreads, Flags
<1> QED BY <1>3, <1>4, <1>5, <1>6

\* Stores has one clause for each thread.
LEMMA StoresStay ==
  ASSUME RecorderTypes, Stores, NEW t \in RpcThreads, NEW f \in Flags, Store(t, f), mem' = mem,
         \/ t = "task" /\ f \in {"headers_seen", "upload_guard_expired", "health_recorded", "response_clean"}
         \/ t = "upload" /\ f \in {"request_body_exceeded", "upload_terminated", "health_recorded"}
         \/ t = "guard" /\ f = "upload_guard_expired"
  PROVE  Stores'
<1>1. \A u \in RpcThreads, g \in Flags : Pending(u, g)' <=> Pending(u, g) \/ (u = t /\ g = f)
  BY StoreEffect
<1>2. "task" \in RpcThreads /\ "upload" \in RpcThreads /\ "guard" \in RpcThreads
  BY DEF RpcThreads
<1>3. ASSUME NEW g \in Flags, Pending("task", g)'
      PROVE  g \in {"headers_seen", "upload_guard_expired", "health_recorded", "response_clean"}
  BY <1>1, <1>2, <1>3 DEF Stores
<1>4. ASSUME NEW g \in Flags, Pending("upload", g)'
      PROVE  g \in {"request_body_exceeded", "upload_terminated", "health_recorded"}
  BY <1>1, <1>2, <1>4 DEF Stores
<1>5. ASSUME NEW g \in Flags, Pending("guard", g)'
      PROVE  g = "upload_guard_expired"
  BY <1>1, <1>2, <1>5 DEF Stores
<1>6. Flags' = Flags
  BY DEF Flags
<1> QED BY <1>3, <1>4, <1>5, <1>6 DEF Stores

\* A swap publishes its flag to everyone.
LEMMA SwapSignals ==
  ASSUME RecorderTypes, Stores, NEW f \in {"slot_released", "health_recorded"},
         mem' = [mem EXCEPT ![f] = TRUE], buf' = buf
  PROVE  /\ Headers' <=> Headers
         /\ Clean' <=> Clean
         /\ Ended' <=> Ended
         /\ Exceeded' <=> Exceeded
         /\ Recorded' <=> Recorded \/ f = "health_recorded"
         /\ TaskRecorded' <=> TaskRecorded \/ f = "health_recorded"
         /\ HealthBeforeClean \/ f = "health_recorded" => HealthBeforeClean'
         /\ OverflowBeforeEnd => OverflowBeforeEnd'
         /\ Stores'
         /\ mem' \in [Flags -> BOOLEAN]
         /\ \A g \in Flags : mem'[g] = (mem[g] \/ g = f)
<1>0. f \in Flags
  BY DEF Flags
<1>1. \A u \in RpcThreads, g \in Flags : Pending(u, g)' <=> Pending(u, g)
  BY <1>0, SwapEffect
<1>2. \A u \in RpcThreads, g, h \in Flags : Ordered(u, g, h) /\ h # f => Ordered(u, g, h)'
  BY <1>0, SwapEffect
<1>3. mem' \in [Flags -> BOOLEAN] /\ \A g \in Flags : mem'[g] = (mem[g] \/ g = f)
  BY <1>0, SwapEffect
<1>4. Stores'
  BY <1>1 DEF Stores, RpcThreads, Flags
<1>5. /\ Headers' <=> Headers
      /\ Clean' <=> Clean
      /\ Ended' <=> Ended
      /\ Exceeded' <=> Exceeded
      /\ Recorded' <=> Recorded \/ f = "health_recorded"
      /\ TaskRecorded' <=> TaskRecorded \/ f = "health_recorded"
  BY <1>1, <1>3 DEF Headers, Clean, Ended, Exceeded, Recorded, TaskRecorded, RpcThreads, Flags
<1>6. OverflowBeforeEnd => OverflowBeforeEnd'
  BY <1>2 DEF OverflowBeforeEnd, RpcThreads, Flags
<1>7. HealthBeforeClean => HealthBeforeClean'
  BY <1>2 DEF HealthBeforeClean, RpcThreads, Flags
<1>8. f = "health_recorded" => HealthBeforeClean'
  <2>1. f = "health_recorded" => mem'["health_recorded"]
    BY <1>0, <1>3
  <2> QED BY <2>1 DEF HealthBeforeClean, Ordered
<1> QED BY <1>3, <1>4, <1>5, <1>6, <1>7, <1>8

\* slot_released is no part of a signal.
LEMMA SlotSwapSignals ==
  ASSUME RecorderTypes, Stores, mem' = [mem EXCEPT !["slot_released"] = TRUE], buf' = buf
  PROVE  /\ SameSignals
         /\ Stores' /\ mem' \in [Flags -> BOOLEAN] /\ mem'["slot_released"]
         /\ mem'["health_recorded"] = mem["health_recorded"]
         /\ mem'["upload_terminated"] = mem["upload_terminated"]
         /\ mem'["response_clean"] = mem["response_clean"]
         /\ mem'["upload_guard_expired"] = mem["upload_guard_expired"]
<1>1. "slot_released" \in {"slot_released", "health_recorded"}
  OBVIOUS
<1>2. \A g \in Flags : mem'[g] = (mem[g] \/ g = "slot_released")
  BY <1>1, SwapSignals
<1>3. /\ SameSignals
      /\ Stores' /\ mem' \in [Flags -> BOOLEAN]
  BY <1>1, SwapSignals DEF SameSignals
<1>4. mem \in [Flags -> BOOLEAN]
  BY DEF RecorderTypes
<1> QED BY <1>2, <1>3, <1>4 DEF Flags

\* After a swap of health_recorded everyone sees it.
LEMMA HealthSwapSignals ==
  ASSUME RecorderTypes, Stores, mem' = [mem EXCEPT !["health_recorded"] = TRUE], buf' = buf
  PROVE  /\ (Headers' <=> Headers) /\ (Clean' <=> Clean) /\ (Ended' <=> Ended)
         /\ (Exceeded' <=> Exceeded) /\ TaskRecorded' /\ HealthBeforeClean'
         /\ (OverflowBeforeEnd => OverflowBeforeEnd')
         /\ Stores' /\ mem' \in [Flags -> BOOLEAN] /\ mem'["health_recorded"]
         /\ mem'["slot_released"] = mem["slot_released"]
         /\ mem'["upload_terminated"] = mem["upload_terminated"]
         /\ mem'["response_clean"] = mem["response_clean"]
         /\ mem'["upload_guard_expired"] = mem["upload_guard_expired"]
<1>1. "health_recorded" \in {"slot_released", "health_recorded"}
  OBVIOUS
<1>2. \A g \in Flags : mem'[g] = (mem[g] \/ g = "health_recorded")
  BY <1>1, SwapSignals
<1>3. /\ (Headers' <=> Headers) /\ (Clean' <=> Clean) /\ (Ended' <=> Ended)
      /\ (Exceeded' <=> Exceeded) /\ TaskRecorded' /\ HealthBeforeClean'
      /\ (OverflowBeforeEnd => OverflowBeforeEnd')
      /\ Stores' /\ mem' \in [Flags -> BOOLEAN]
  BY <1>1, SwapSignals
<1>4. mem \in [Flags -> BOOLEAN]
  BY DEF RecorderTypes
<1> QED BY <1>2, <1>3, <1>4 DEF Flags

\* A flush makes a flag visible that was published before.
LEMMA FlushSignals ==
  ASSUME RecorderTypes, Stores, NEW t \in RpcThreads, Flush(t)
  PROVE  /\ SameSignals /\ Stores'
         /\ mem' \in [Flags -> BOOLEAN] /\ buf' \in [RpcThreads -> Seq(Flags)]
         /\ \A g \in Flags : mem[g] => mem'[g]
         /\ mem'["slot_released"] <=> mem["slot_released"]
<1>1. /\ \A g \in Flags : mem[g] => mem'[g]
      /\ \A g \in Flags : mem'[g] => mem[g] \/ Pending(t, g)
      /\ mem' \in [Flags -> BOOLEAN] /\ buf' \in [RpcThreads -> Seq(Flags)]
  BY FlushEffect
<1>2. /\ \A u \in RpcThreads, g \in Flags : Pending(u, g)' => Pending(u, g)
      /\ \A u \in RpcThreads, g \in Flags : Pending(u, g) => Pending(u, g)' \/ mem'[g]
  BY FlushEffect
<1>3. \A u \in RpcThreads, g, h \in Flags :
         Ordered(u, g, h) /\ (u = t \/ ~Pending(t, h)) => Ordered(u, g, h)'
  BY FlushEffect
<1>4. /\ t # "task" => ~Pending(t, "headers_seen") /\ ~Pending(t, "response_clean")
      /\ t # "upload" => ~Pending(t, "upload_terminated") /\ ~Pending(t, "request_body_exceeded")
      /\ t = "guard" => ~Pending(t, "health_recorded")
      /\ ~Pending(t, "slot_released")
  BY Zenon DEF Stores, RpcThreads, Flags
<1>5. Stores'
  BY <1>2 DEF Stores, RpcThreads, Flags
<1>6. /\ Headers' <=> Headers
      /\ Clean' <=> Clean
      /\ Ended' <=> Ended
      /\ Exceeded' <=> Exceeded
  BY <1>1, <1>2, <1>4 DEF Headers, Clean, Ended, Exceeded, RpcThreads, Flags
<1>7. Recorded' <=> Recorded
  BY <1>1, <1>2, <1>4 DEF Recorded, RpcThreads, Flags
<1>8. (TaskRecorded => TaskRecorded') /\ (mem'["slot_released"] <=> mem["slot_released"])
  BY <1>1, <1>2, <1>4 DEF TaskRecorded, RpcThreads, Flags
<1>9. (HealthBeforeClean => HealthBeforeClean') /\ (OverflowBeforeEnd => OverflowBeforeEnd')
  BY <1>3, <1>4 DEF HealthBeforeClean, OverflowBeforeEnd, RpcThreads, Flags
<1> QED BY <1>1, <1>5, <1>6, <1>7, <1>8, <1>9 DEF SameSignals

\* As long as the later store is not made, the two are in order.
LEMMA OrdersNothing ==
  /\ ~Clean => HealthBeforeClean
  /\ ~Ended => OverflowBeforeEnd
BY DEF Clean, Ended, HealthBeforeClean, OverflowBeforeEnd, Ordered, Pending

-----------------------------------------------------------------------------
(* Recorder: one lemma per action *)

\* Thread t goes to v, the others stay where they are.
Moves(t, v) ==
  /\ rpcPc'["task"] = IF t = "task" THEN v ELSE rpcPc["task"]
  /\ rpcPc'["upload"] = IF t = "upload" THEN v ELSE rpcPc["upload"]
  /\ rpcPc'["guard"] = IF t = "guard" THEN v ELSE rpcPc["guard"]

PcTypes ==
  /\ rpcPc \in [RpcThreads -> TaskPcs \cup UploadPcs \cup GuardPcs]
  /\ rpcPc["task"] \in TaskPcs /\ rpcPc["upload"] \in UploadPcs /\ rpcPc["guard"] \in GuardPcs

\* One thread moves.
LEMMA OneThreadMoves ==
  ASSUME RecorderTypes, NEW t \in RpcThreads, NEW v,
         \/ t = "task" /\ v \in TaskPcs
         \/ t = "upload" /\ v \in UploadPcs
         \/ t = "guard" /\ v \in GuardPcs,
         rpcPc' = [rpcPc EXCEPT ![t] = v]
  PROVE  Moves(t, v) /\ PcTypes'
<1>1. /\ rpcPc \in [RpcThreads -> TaskPcs \cup UploadPcs \cup GuardPcs]
      /\ rpcPc["task"] \in TaskPcs /\ rpcPc["upload"] \in UploadPcs /\ rpcPc["guard"] \in GuardPcs
  BY DEF RecorderTypes
<1>2. "task" \in RpcThreads /\ "upload" \in RpcThreads /\ "guard" \in RpcThreads
  BY DEF RpcThreads
<1>3. v \in TaskPcs \cup UploadPcs \cup GuardPcs
  OBVIOUS
<1> QED BY <1>1, <1>2, <1>3 DEF Moves, PcTypes

\* A live thread keeps the recorder alive.
LEMMA NotDropped ==
  ASSUME SlotOnce, \/ rpcPc["task"] # "done" \/ rpcPc["upload"] # "done"
                   \/ rpcPc["guard"] \notin {"off", "done"}
  PROVE  dropped # TRUE
BY DEF SlotOnce, Finished

\* The three values of outcomes are different.
LEMMA OutcomesDiffer == <<"failure">> # <<"success">> /\ <<"failure">> # <<>> /\ <<"success">> # <<>>
<1>1. <<"failure">>[1] = "failure" /\ <<"success">>[1] = "success"
  OBVIOUS
<1>2. Len(<<"failure">>) = 1 /\ Len(<<"success">>) = 1 /\ Len(<<>>) = 0
  OBVIOUS
<1> QED BY <1>1, <1>2

\* try_release_slot: a join that has seen the headers goes on to the swap.
LEMMA TryReleaseSlotKeeps ==
  ASSUME RecorderInv, NEW t \in RpcThreads, TryReleaseSlot(t)
  PROVE  RecorderInv'
<1>1. RecorderTypes /\ Stores /\ SlotOnce /\ TaskOrder /\ UploadOrder /\ Joins /\ OutcomeOnce
  BY DEF RecorderInv
<1>2. t \in {"task", "upload"} /\ rpcPc[t] = "release"
  BY <1>1 DEF RecorderTypes, RpcThreads, GuardPcs, TryReleaseSlot, RpcGoTo
<1>3. PICK v \in {"release_swap", "record"} :
        rpcPc' = [rpcPc EXCEPT ![t] = v] /\ (v = "release_swap" => rpcProbe /\ Load(t, "headers_seen"))
  BY DEF TryReleaseSlot, RpcGoTo, ReleaseJoin
<1>4. /\ mem' = mem /\ buf' = buf /\ rpcProbe' = rpcProbe /\ then' = then /\ terminal' = terminal
      /\ releases' = releases /\ outcomes' = outcomes /\ lateUpload' = lateUpload /\ dropped' = dropped
  BY DEF TryReleaseSlot
<1>5. v = "release_swap" => rpcProbe /\ Headers
  BY <1>1, <1>3, LoadMeans
<1>6. v \in TaskPcs /\ v \in UploadPcs
  BY DEF TaskPcs, UploadPcs
<1>7. Moves(t, v) /\ PcTypes'
  BY <1>1, <1>2, <1>3, <1>6, OneThreadMoves
<1>8. RecorderTypes'
  BY <1>1, <1>4, <1>7 DEF RecorderTypes, PcTypes
<1>9. SameSignals /\ Stores'
  BY <1>1, <1>4, LoadSignals
<1>10. dropped = FALSE
  BY <1>1, <1>2, NotDropped DEF RecorderTypes
<1>11. SlotOnce'
  BY <1>1, <1>2, <1>4, <1>5, <1>7, <1>9, <1>10 DEF SlotOnce, Moves, SameSignals
<1>12. TaskOrder'
  BY <1>1, <1>2, <1>4, <1>7, <1>9 DEF TaskOrder, Joined, Moves, SameSignals
<1>13. UploadOrder'
  BY <1>1, <1>2, <1>4, <1>7, <1>9 DEF UploadOrder, Moves, SameSignals
<1>14. Joins'
  BY <1>1, <1>2, <1>4, <1>7, <1>9 DEF Joins, Joined, Moves, SameSignals
<1>15. OutcomeOnce'
  BY <1>1, <1>2, <1>4, <1>7, <1>9 DEF OutcomeOnce, Moves, SameSignals
<1> QED BY <1>8, <1>9, <1>11, <1>12, <1>13, <1>14, <1>15 DEF RecorderInv

\* slot_released.swap(true): the slot is given back by whoever finds it FALSE.
LEMMA ReleaseSwapKeeps ==
  ASSUME RecorderInv, NEW t \in RpcThreads, ReleaseSwap(t)
  PROVE  RecorderInv'
<1>1. RecorderTypes /\ Stores /\ SlotOnce /\ TaskOrder /\ UploadOrder /\ Joins /\ OutcomeOnce
  BY DEF RecorderInv
<1>2. PICK v \in {"record", "settle"} :
        /\ rpcPc' = [rpcPc EXCEPT ![t] = v]
        /\ rpcPc[t] = IF v = "record" THEN "release_swap" ELSE "guard_swap"
  BY DEF ReleaseSwap, RpcGoTo
<1>3. /\ buf' = buf /\ rpcProbe' = rpcProbe /\ then' = then /\ terminal' = terminal
      /\ outcomes' = outcomes /\ lateUpload' = lateUpload /\ dropped' = dropped
      /\ mem' = [mem EXCEPT !["slot_released"] = TRUE]
      /\ releases' = IF mem["slot_released"] THEN releases ELSE releases + 1
  BY DEF ReleaseSwap, Swap
<1>4. \/ t = "task" /\ rpcPc["task"] \in {"release_swap", "guard_swap"} /\ v \in TaskPcs
      \/ t = "upload" /\ rpcPc["upload"] = "release_swap" /\ v \in UploadPcs /\ v = "record"
      \/ t = "guard" /\ rpcPc["guard"] = "guard_swap" /\ v \in GuardPcs
  BY <1>1, <1>2 DEF RecorderTypes, RpcThreads, TaskPcs, UploadPcs, GuardPcs
<1>5. Moves(t, v) /\ PcTypes'
  BY <1>1, <1>2, <1>4, OneThreadMoves
<1>6. /\ rpcProbe /\ Headers /\ releases = IF mem["slot_released"] THEN 1 ELSE 0
      /\ mem["slot_released"] \in BOOLEAN
  BY <1>1, <1>4 DEF SlotOnce, RecorderTypes, Flags
<1>7. releases' = 1
  BY <1>3, <1>6
<1>8. /\ SameSignals /\ Stores' /\ mem' \in [Flags -> BOOLEAN] /\ mem'["slot_released"]
      /\ mem'["upload_terminated"] = mem["upload_terminated"]
      /\ mem'["response_clean"] = mem["response_clean"]
      /\ mem'["upload_guard_expired"] = mem["upload_guard_expired"]
  BY <1>1, <1>3, SlotSwapSignals
<1>9. RecorderTypes'
  BY <1>1, <1>3, <1>5, <1>7, <1>8 DEF RecorderTypes, PcTypes
<1>10. dropped = FALSE
  BY <1>1, <1>4, NotDropped DEF RecorderTypes
<1>11. SlotOnce'
  BY <1>1, <1>3, <1>4, <1>5, <1>6, <1>7, <1>8, <1>10 DEF SlotOnce, Moves, SameSignals
<1>12. TaskOrder'
  BY <1>1, <1>2, <1>3, <1>4, <1>5, <1>8 DEF TaskOrder, Joined, Moves, SameSignals
<1>13. UploadOrder'
  BY <1>1, <1>3, <1>4, <1>5, <1>8 DEF UploadOrder, Moves, SameSignals
<1>14. Joins'
  BY <1>1, <1>3, <1>4, <1>5, <1>8 DEF Joins, Joined, Moves, SameSignals
<1>15. OutcomeOnce'
  BY <1>1, <1>3, <1>4, <1>5, <1>8 DEF OutcomeOnce, Moves, SameSignals
<1> QED BY <1>8, <1>9, <1>11, <1>12, <1>13, <1>14, <1>15 DEF RecorderInv

\* try_record_clean_success: a join that has seen the clean response and the end
\* of the upload goes on, with the other thread's flag visible to everyone.
LEMMA TryRecordCleanSuccessKeeps ==
  ASSUME RecorderInv, NEW t \in RpcThreads, TryRecordCleanSuccess(t)
  PROVE  RecorderInv'
<1>1. RecorderTypes /\ Stores /\ SlotOnce /\ TaskOrder /\ UploadOrder /\ Joins /\ OutcomeOnce
  BY DEF RecorderInv
<1>2. t \in {"task", "upload"} /\ rpcPc[t] = "record"
  BY <1>1 DEF RecorderTypes, RpcThreads, GuardPcs, TryRecordCleanSuccess
<1>3. /\ then["task"] \in {"headers", "done"} /\ then["upload"] = "done"
      /\ rpcPc["task"] \in TaskPcs /\ rpcPc["upload"] \in UploadPcs
  BY <1>1 DEF RecorderTypes, RpcThreads
<1>4. PICK v :
        /\ rpcPc' = [rpcPc EXCEPT ![t] = v]
        /\ \/ v = "record_exceeded" /\ Load(t, "response_clean") /\ Load(t, "upload_terminated")
           \/ v = then[t]
  BY DEF TryRecordCleanSuccess, CleanJoin
<1>5. /\ mem' = mem /\ buf' = buf /\ rpcProbe' = rpcProbe /\ then' = then /\ terminal' = terminal
      /\ releases' = releases /\ outcomes' = outcomes /\ lateUpload' = lateUpload /\ dropped' = dropped
  BY DEF TryRecordCleanSuccess
<1>6. \/ /\ v = "record_exceeded" /\ Clean
         /\ t = "task" => mem["upload_terminated"]
         /\ t = "upload" => mem["response_clean"]
      \/ v = then[t]
  BY <1>1, <1>2, <1>4, LoadMeans
<1>7. Moves(t, v) /\ PcTypes'
  <2>1. (t = "task" => v \in TaskPcs) /\ (t = "upload" => v \in UploadPcs)
    BY <1>3, <1>4 DEF TaskPcs, UploadPcs
  <2> QED BY <1>1, <1>2, <1>4, <2>1, OneThreadMoves
<1>8. RecorderTypes'
  BY <1>1, <1>5, <1>7 DEF RecorderTypes, PcTypes
<1>9. SameSignals /\ Stores'
  BY <1>1, <1>5, LoadSignals
<1>10. dropped = FALSE
  BY <1>1, <1>2, NotDropped DEF RecorderTypes
<1>11. SlotOnce'
  BY <1>1, <1>2, <1>3, <1>5, <1>6, <1>7, <1>9, <1>10 DEF SlotOnce, Moves, SameSignals
<1>12. TaskOrder'
  BY <1>1, <1>2, <1>3, <1>5, <1>6, <1>7, <1>9 DEF TaskOrder, Joined, Moves, SameSignals
<1>13. UploadOrder'
  BY <1>1, <1>2, <1>3, <1>5, <1>6, <1>7, <1>9 DEF UploadOrder, Moves, SameSignals
<1>14. Joins'
  BY <1>1, <1>2, <1>3, <1>5, <1>6, <1>7, <1>9 DEF Joins, Joined, Moves, SameSignals
<1>15. OutcomeOnce'
  <2>1. terminal # "failure" \/ t # "task"
    BY <1>1, <1>2 DEF TaskOrder
  <2> QED BY <1>1, <1>2, <1>3, <1>5, <1>6, <1>7, <1>9, <2>1 DEF OutcomeOnce, TaskOrder, Moves, SameSignals
<1> QED BY <1>8, <1>9, <1>11, <1>12, <1>13, <1>14, <1>15 DEF RecorderInv

\* A spoiled outcome: health_recorded is stored after a clean response, so what
\* it consumes is that response's outcome and no failure.
LEMMA SettleNeutralKeeps ==
  ASSUME RecorderInv, NEW t \in {"task", "upload"}, rpcPc[t] \in Joined, SettleNeutral(t),
         mem' = mem, rpcProbe' = rpcProbe, then' = then, terminal' = terminal, releases' = releases,
         outcomes' = outcomes, lateUpload' = lateUpload, dropped' = dropped
  PROVE  RecorderInv'
<1>1. RecorderTypes /\ Stores /\ SlotOnce /\ TaskOrder /\ UploadOrder /\ Joins /\ OutcomeOnce
  BY DEF RecorderInv
<1>2. t \in RpcThreads /\ "health_recorded" \in Flags /\ rpcPc[t] # "done"
      /\ rpcPc[t] \notin {"uploading", "aborting"}
  BY DEF RpcThreads, Flags, Joined
<1>3. Store(t, "health_recorded") /\ rpcPc' = [rpcPc EXCEPT ![t] = then[t]]
  BY DEF SettleNeutral
<1>4. Clean
  BY <1>1 DEF TaskOrder, Joins, Clean
<1>5. /\ then["task"] = "done" /\ then["upload"] = "done" /\ terminal = "clean"
      /\ rpcPc["task"] \in Joined \cup {"record", "done"}
  BY <1>1, <1>4 DEF RecorderTypes, TaskOrder
<1>6. Moves(t, "done") /\ PcTypes'
  BY <1>1, <1>2, <1>3, <1>5, OneThreadMoves DEF TaskPcs, UploadPcs
<1>7. /\ (Headers' <=> Headers) /\ (Clean' <=> Clean) /\ (Ended' <=> Ended) /\ (Exceeded' <=> Exceeded)
      /\ (TaskRecorded => TaskRecorded') /\ (HealthBeforeClean => HealthBeforeClean')
      /\ (OverflowBeforeEnd => OverflowBeforeEnd') /\ buf' \in [RpcThreads -> Seq(Flags)]
  BY <1>1, <1>2, <1>3, StoreSignals
<1>8. Stores'
  BY <1>1, <1>2, <1>3, StoresStay
<1>9. RecorderTypes'
  BY <1>1, <1>6, <1>7 DEF RecorderTypes, PcTypes
<1>10. dropped = FALSE
  BY <1>1, <1>2, NotDropped DEF RecorderTypes
<1>11. SlotOnce'
  BY <1>1, <1>2, <1>5, <1>6, <1>7, <1>10 DEF SlotOnce, Moves, Joined
<1>12. TaskOrder'
  BY <1>1, <1>2, <1>5, <1>6, <1>7 DEF TaskOrder, Joined, Moves
<1>13. UploadOrder'
  BY <1>1, <1>2, <1>6, <1>7 DEF UploadOrder, Moves
<1>14. Joins'
  BY <1>1, <1>6, <1>7 DEF Joins, Joined, Moves
<1>15. OutcomeOnce'
  BY <1>1, <1>5, <1>6, <1>7 DEF OutcomeOnce, Joined, Moves
<1> QED BY <1>8, <1>9, <1>11, <1>12, <1>13, <1>14, <1>15 DEF RecorderInv

\* A join goes on from one check to the next, and has learnt its answer.
LEMMA JoinGoesOn ==
  ASSUME RecorderInv, NEW t \in {"task", "upload"}, NEW v \in {"record_expired", "record_swap"},
         rpcPc[t] = IF v = "record_expired" THEN "record_exceeded" ELSE "record_expired",
         rpcPc' = [rpcPc EXCEPT ![t] = v], v = "record_expired" => ~Exceeded,
         v = "record_swap" => ~lateUpload,
         mem' = mem, buf' = buf, rpcProbe' = rpcProbe, then' = then, terminal' = terminal,
         releases' = releases, outcomes' = outcomes, lateUpload' = lateUpload, dropped' = dropped
  PROVE  RecorderInv'
<1>1. RecorderTypes /\ Stores /\ SlotOnce /\ TaskOrder /\ UploadOrder /\ Joins /\ OutcomeOnce
  BY DEF RecorderInv
<1>2. t \in RpcThreads /\ v \in TaskPcs /\ v \in UploadPcs
  BY DEF RpcThreads, TaskPcs, UploadPcs
<1>3. Moves(t, v) /\ PcTypes'
  BY <1>1, <1>2, OneThreadMoves
<1>4. RecorderTypes'
  BY <1>1, <1>3 DEF RecorderTypes, PcTypes
<1>5. SameSignals /\ Stores'
  BY <1>1, LoadSignals
<1>6. dropped = FALSE
  BY <1>1, NotDropped DEF RecorderTypes
<1>7. SlotOnce'
  BY <1>1, <1>3, <1>5, <1>6 DEF SlotOnce, Moves, SameSignals
<1>8. TaskOrder'
  BY <1>1, <1>3, <1>5 DEF TaskOrder, Joined, Moves, SameSignals
<1>9. UploadOrder'
  BY <1>1, <1>3, <1>5 DEF UploadOrder, Moves, SameSignals
<1>10. Joins'
  BY <1>1, <1>3, <1>5 DEF Joins, Joined, Moves, SameSignals
<1>11. OutcomeOnce'
  BY <1>1, <1>3, <1>5 DEF OutcomeOnce, Moves, SameSignals
<1> QED BY <1>4, <1>5, <1>7, <1>8, <1>9, <1>10, <1>11 DEF RecorderInv

\* The overflow is re-read: the upload task sees its own store, and the request
\* task, which has seen the end of the upload, sees what was stored before it.
LEMMA RecordExceededKeeps ==
  ASSUME RecorderInv, NEW t \in RpcThreads, RecordExceeded(t)
  PROVE  RecorderInv'
<1>1. RecorderTypes /\ Stores /\ UploadOrder /\ Joins
  BY DEF RecorderInv
<1>2. t \in {"task", "upload"} /\ rpcPc[t] = "record_exceeded" /\ rpcPc[t] \in Joined
  BY <1>1 DEF RecorderTypes, RpcThreads, GuardPcs, RecordExceeded, Joined
<1>3. /\ mem' = mem /\ rpcProbe' = rpcProbe /\ then' = then /\ terminal' = terminal
      /\ releases' = releases /\ outcomes' = outcomes /\ lateUpload' = lateUpload /\ dropped' = dropped
  BY DEF RecordExceeded
<1>4. CASE SettleNeutral(t)
  BY <1>2, <1>3, <1>4, SettleNeutralKeeps
<1>5. CASE ~Load(t, "request_body_exceeded") /\ buf' = buf
           /\ rpcPc' = [rpcPc EXCEPT ![t] = "record_expired"]
  <2>1. ~Exceeded
    <3>1. CASE t = "upload"
      BY <1>1, <1>5, <3>1, LoadMeans
    <3>2. CASE t = "task"
      <4>1. mem["upload_terminated"] /\ ~mem["request_body_exceeded"]
        BY <1>1, <1>2, <1>5, <3>2, LoadMeans DEF Joins, Flags
      <4> QED BY <1>1, <4>1 DEF UploadOrder, OverflowBeforeEnd, Ordered
    <3> QED BY <1>2, <3>1, <3>2
  <2> QED BY <1>2, <1>3, <1>5, <2>1, JoinGoesOn
<1> QED BY <1>4, <1>5 DEF RecordExceeded

\* The guard's deadline is re-read: a late end of the upload came after it.
LEMMA RecordExpiredKeeps ==
  ASSUME RecorderInv, NEW t \in RpcThreads, RecordExpired(t)
  PROVE  RecorderInv'
<1>1. RecorderTypes /\ Stores /\ UploadOrder
  BY DEF RecorderInv
<1>2. t \in {"task", "upload"} /\ rpcPc[t] = "record_expired" /\ rpcPc[t] \in Joined
  BY <1>1 DEF RecorderTypes, RpcThreads, GuardPcs, RecordExpired, Joined
<1>3. /\ mem' = mem /\ rpcProbe' = rpcProbe /\ then' = then /\ terminal' = terminal
      /\ releases' = releases /\ outcomes' = outcomes /\ lateUpload' = lateUpload /\ dropped' = dropped
  BY DEF RecordExpired
<1>4. CASE SettleNeutral(t)
  BY <1>2, <1>3, <1>4, SettleNeutralKeeps
<1>5. CASE ~Load(t, "upload_guard_expired") /\ buf' = buf
           /\ rpcPc' = [rpcPc EXCEPT ![t] = "record_swap"]
  <2>1. ~mem["upload_guard_expired"]
    BY <1>1, <1>5, LoadMeans DEF Flags
  <2>2. ~lateUpload
    BY <1>1, <2>1 DEF UploadOrder
  <2> QED BY <1>2, <1>3, <1>5, <2>2, JoinGoesOn
<1> QED BY <1>4, <1>5 DEF RecordExpired

\* health_recorded.swap(true): a thread that wins it has seen the flag FALSE, and
\* with it whatever the request task stored before the response ended cleanly.
LEMMA RecordSwapKeeps ==
  ASSUME RecorderInv, NEW t \in RpcThreads, RecordSwap(t)
  PROVE  RecorderInv'
<1>1. RecorderTypes /\ Stores /\ SlotOnce /\ TaskOrder /\ UploadOrder /\ Joins /\ OutcomeOnce
  BY DEF RecorderInv
<1>2. t \in {"task", "upload"} /\ rpcPc[t] = "record_swap" /\ rpcPc[t] \in Joined
  BY <1>1 DEF RecorderTypes, RpcThreads, GuardPcs, RecordSwap, Joined
<1>3. /\ buf' = buf /\ rpcProbe' = rpcProbe /\ then' = then /\ terminal' = terminal
      /\ releases' = releases /\ lateUpload' = lateUpload /\ dropped' = dropped
      /\ buf[t] = <<>> /\ mem' = [mem EXCEPT !["health_recorded"] = TRUE]
      /\ outcomes' = IF mem["health_recorded"] THEN outcomes ELSE Append(outcomes, "success")
      /\ rpcPc' = [rpcPc EXCEPT ![t] = then[t]]
  BY DEF RecordSwap, Swap
<1>4. Clean /\ Ended /\ ~Exceeded /\ ~lateUpload
  <2>1. Clean
    BY <1>1, <1>2 DEF TaskOrder, Joins, Clean
  <2>2. Ended
    BY <1>1, <1>2 DEF Joins, UploadOrder, Ended
  <2> QED BY <1>1, <1>2, <2>1, <2>2 DEF Joins, Joined
<1>5. /\ then["task"] = "done" /\ then["upload"] = "done" /\ terminal = "clean"
      /\ rpcPc["task"] \in Joined \cup {"record", "done"}
  BY <1>1, <1>4 DEF RecorderTypes, TaskOrder
<1>6. Moves(t, "done") /\ PcTypes'
  BY <1>1, <1>2, <1>3, <1>5, OneThreadMoves DEF TaskPcs, UploadPcs
<1>7. ~mem["health_recorded"] => outcomes = <<>>
  <2>1. SUFFICES ASSUME ~mem["health_recorded"], outcomes # <<>> PROVE FALSE
    OBVIOUS
  <2>2. Pending("task", "health_recorded") /\ HealthBeforeClean
    BY <1>1, <2>1 DEF OutcomeOnce, TaskRecorded
  <2>3. CASE t = "task"
    BY <1>3, <2>2, <2>3, NothingPending
  <2>4. CASE t = "upload"
    BY <1>1, <1>2, <2>1, <2>2, <2>4 DEF Joins, HealthBeforeClean, Ordered
  <2> QED BY <1>2, <2>3, <2>4
<1>8. outcomes' = outcomes \/ outcomes' = <<"success">>
  <2>1. CASE mem["health_recorded"]
    BY <1>3, <2>1
  <2>2. CASE ~mem["health_recorded"]
    <3>1. outcomes = <<>> /\ outcomes' = Append(outcomes, "success")
      BY <1>3, <1>7, <2>2
    <3> QED BY <3>1
  <2> QED BY <2>1, <2>2
<1>9. /\ (Headers' <=> Headers) /\ (Clean' <=> Clean) /\ (Ended' <=> Ended) /\ (Exceeded' <=> Exceeded)
      /\ TaskRecorded' /\ HealthBeforeClean' /\ (OverflowBeforeEnd => OverflowBeforeEnd')
      /\ Stores' /\ mem' \in [Flags -> BOOLEAN]
      /\ mem'["slot_released"] = mem["slot_released"]
      /\ mem'["upload_terminated"] = mem["upload_terminated"]
      /\ mem'["response_clean"] = mem["response_clean"]
      /\ mem'["upload_guard_expired"] = mem["upload_guard_expired"]
  BY <1>1, <1>3, HealthSwapSignals
<1>10. RecorderTypes'
  BY <1>1, <1>3, <1>6, <1>8, <1>9 DEF RecorderTypes, PcTypes
<1>11. dropped = FALSE
  BY <1>1, <1>2, NotDropped DEF RecorderTypes
<1>12. SlotOnce'
  BY <1>1, <1>2, <1>3, <1>5, <1>6, <1>9, <1>11 DEF SlotOnce, Moves, Joined
<1>13. TaskOrder'
  BY <1>1, <1>2, <1>3, <1>5, <1>6, <1>9 DEF TaskOrder, Joined, Moves
<1>14. UploadOrder'
  BY <1>1, <1>2, <1>3, <1>6, <1>9 DEF UploadOrder, Moves
<1>15. Joins'
  BY <1>1, <1>3, <1>6, <1>9 DEF Joins, Joined, Moves
<1>16. OutcomeOnce'
  BY <1>1, <1>3, <1>4, <1>5, <1>6, <1>8, <1>9 DEF OutcomeOnce, Joined, Moves
<1> QED BY <1>9, <1>10, <1>12, <1>13, <1>14, <1>15, <1>16 DEF RecorderInv

\* The request fails before the headers: the guard of the request gives the slot back.
LEMMA DispatchFailsKeeps ==
  ASSUME RecorderInv, DispatchFails
  PROVE  RecorderInv'
<1>1. RecorderTypes /\ Stores /\ SlotOnce /\ TaskOrder /\ UploadOrder /\ Joins /\ OutcomeOnce
  BY DEF RecorderInv
<1>2. /\ rpcPc["task"] = "dispatch" /\ rpcPc' = [rpcPc EXCEPT !["task"] = "done"]
      /\ releases' = IF rpcProbe THEN releases + 1 ELSE releases
      /\ mem' = mem /\ buf' = buf /\ rpcProbe' = rpcProbe /\ then' = then /\ terminal' = terminal
      /\ outcomes' = outcomes /\ lateUpload' = lateUpload /\ dropped' = dropped
  BY DEF DispatchFails, RpcGoTo
<1>3. Moves("task", "done") /\ PcTypes'
  BY <1>1, <1>2, OneThreadMoves DEF TaskPcs, RpcThreads
<1>4. ~Headers /\ releases = 0
  BY <1>1, <1>2 DEF SlotOnce
<1>5. releases' = IF rpcProbe THEN 1 ELSE 0
  BY <1>2, <1>4
<1>6. RecorderTypes'
  BY <1>1, <1>2, <1>3, <1>5 DEF RecorderTypes, PcTypes
<1>7. SameSignals /\ Stores'
  BY <1>1, <1>2, LoadSignals
<1>8. dropped = FALSE /\ terminal = "none"
  BY <1>1, <1>2, NotDropped DEF RecorderTypes, TaskOrder
<1>9. SlotOnce'
  BY <1>1, <1>2, <1>3, <1>4, <1>5, <1>7, <1>8 DEF SlotOnce, Moves, SameSignals
<1>10. TaskOrder'
  BY <1>1, <1>2, <1>3, <1>7, <1>8 DEF TaskOrder, Joined, Moves, SameSignals
<1>11. UploadOrder'
  BY <1>1, <1>2, <1>3, <1>7 DEF UploadOrder, Moves, SameSignals
<1>12. Joins'
  BY <1>1, <1>2, <1>3, <1>7 DEF Joins, Joined, Moves, SameSignals
<1>13. OutcomeOnce'
  BY <1>1, <1>2, <1>3, <1>7, <1>8 DEF OutcomeOnce, Moves, SameSignals
<1> QED BY <1>6, <1>7, <1>9, <1>10, <1>11, <1>12, <1>13 DEF RecorderInv

\* The headers move the slot from the request's guard to the recorder.
LEMMA HeadersArriveKeeps ==
  ASSUME RecorderInv, NoteHeadersArrived
  PROVE  RecorderInv'
<1>1. RecorderTypes /\ Stores /\ SlotOnce /\ TaskOrder /\ UploadOrder /\ Joins /\ OutcomeOnce
  BY DEF RecorderInv
<1>2. /\ rpcPc["task"] = "dispatch" /\ rpcPc' = [rpcPc EXCEPT !["task"] = "arm"]
      /\ Store("task", "headers_seen") /\ then' = [then EXCEPT !["task"] = "headers"]
      /\ mem' = mem /\ rpcProbe' = rpcProbe /\ terminal' = terminal /\ releases' = releases
      /\ outcomes' = outcomes /\ lateUpload' = lateUpload /\ dropped' = dropped
  BY DEF NoteHeadersArrived, RpcGoTo
<1>3. "task" \in RpcThreads /\ "headers_seen" \in Flags
  BY DEF RpcThreads, Flags
<1>4. Moves("task", "arm") /\ PcTypes'
  BY <1>1, <1>2, <1>3, OneThreadMoves DEF TaskPcs
<1>5. /\ then' \in [RpcThreads -> {"headers", "done"}] /\ then'["task"] = "headers"
      /\ then'["upload"] = "done" /\ then'["guard"] = "done"
  BY <1>1, <1>2, <1>3 DEF RecorderTypes, RpcThreads
<1>6. /\ Headers' /\ (Clean' <=> Clean) /\ (Ended' <=> Ended) /\ (Exceeded' <=> Exceeded)
      /\ (Recorded' <=> Recorded) /\ (TaskRecorded => TaskRecorded')
      /\ (HealthBeforeClean => HealthBeforeClean')
      /\ (OverflowBeforeEnd => OverflowBeforeEnd') /\ buf' \in [RpcThreads -> Seq(Flags)]
  BY <1>1, <1>2, <1>3, StoreSignals
<1>7. Stores'
  BY <1>1, <1>2, <1>3, StoresStay
<1>8. RecorderTypes'
  BY <1>1, <1>2, <1>4, <1>5, <1>6 DEF RecorderTypes, PcTypes
<1>9. dropped = FALSE /\ terminal = "none" /\ ~Clean
  BY <1>1, <1>2, NotDropped DEF RecorderTypes, TaskOrder, Joined
<1>10. SlotOnce'
  BY <1>1, <1>2, <1>4, <1>6, <1>9 DEF SlotOnce, Moves
<1>11. TaskOrder'
  BY <1>1, <1>2, <1>4, <1>5, <1>6, <1>9 DEF TaskOrder, Joined, Moves
<1>12. UploadOrder'
  BY <1>1, <1>2, <1>4, <1>6 DEF UploadOrder, Moves
<1>13. Joins'
  BY <1>1, <1>2, <1>4, <1>6 DEF Joins, Joined, Moves
<1>14. OutcomeOnce'
  BY <1>1, <1>2, <1>4, <1>5, <1>6, <1>9 DEF OutcomeOnce, Moves
<1> QED BY <1>7, <1>8, <1>10, <1>11, <1>12, <1>13, <1>14 DEF RecorderInv

\* The guard starts with the headers published.
LEMMA ArmGuardKeeps ==
  ASSUME RecorderInv, ArmGuard
  PROVE  RecorderInv'
<1>1. RecorderTypes /\ Stores /\ SlotOnce /\ TaskOrder /\ UploadOrder /\ Joins /\ OutcomeOnce
  BY DEF RecorderInv
<1>2. /\ rpcPc["task"] = "arm"
      /\ mem' = mem /\ buf' = buf /\ rpcProbe' = rpcProbe /\ then' = then /\ terminal' = terminal
      /\ releases' = releases /\ outcomes' = outcomes /\ lateUpload' = lateUpload /\ dropped' = dropped
  BY DEF ArmGuard
<1>3. /\ PcTypes' /\ rpcPc'["task"] \in {"release", "armed"} /\ rpcPc'["upload"] = rpcPc["upload"]
      /\ rpcPc'["guard"] = rpcPc["guard"] \/ rpcPc'["guard"] = "armed"
  <2>1. PcTypes
    BY <1>1 DEF RecorderTypes, PcTypes
  <2>2. "task" \in RpcThreads /\ "upload" \in RpcThreads /\ "guard" \in RpcThreads
    BY DEF RpcThreads
  <2>3. "release" \in TaskPcs /\ "armed" \in TaskPcs /\ "armed" \in GuardPcs
    BY DEF TaskPcs, GuardPcs
  <2>4. CASE rpcPc' = [rpcPc EXCEPT !["task"] = "release", !["guard"] = "armed"]
    BY <2>1, <2>2, <2>3, <2>4 DEF PcTypes
  <2>5. CASE \E v \in {"release", "armed"} : rpcPc' = [rpcPc EXCEPT !["task"] = v]
    BY <2>1, <2>2, <2>3, <2>5 DEF PcTypes
  <2> QED BY <2>4, <2>5 DEF ArmGuard
<1>4. RecorderTypes'
  BY <1>1, <1>2, <1>3 DEF RecorderTypes, PcTypes
<1>5. SameSignals /\ Stores'
  BY <1>1, <1>2, LoadSignals
<1>6. dropped = FALSE
  BY <1>1, <1>2, NotDropped DEF RecorderTypes
<1>7. SlotOnce'
  BY <1>1, <1>2, <1>3, <1>5, <1>6 DEF SlotOnce, SameSignals
<1>8. TaskOrder'
  BY <1>1, <1>2, <1>3, <1>5 DEF TaskOrder, Joined, SameSignals
<1>9. UploadOrder'
  BY <1>1, <1>2, <1>3, <1>5 DEF UploadOrder, SameSignals
<1>10. Joins'
  BY <1>1, <1>2, <1>3, <1>5 DEF Joins, Joined, SameSignals
<1>11. OutcomeOnce'
  BY <1>1, <1>2, <1>3, <1>5 DEF OutcomeOnce, TaskOrder, SameSignals
<1> QED BY <1>4, <1>5, <1>7, <1>8, <1>9, <1>10, <1>11 DEF RecorderInv

\* A failure known from the headers is the first outcome, stored before the
\* response can end.
LEMMA RecordEagerlyKeeps ==
  ASSUME RecorderInv, RecordEagerly
  PROVE  RecorderInv'
<1>1. RecorderTypes /\ Stores /\ SlotOnce /\ TaskOrder /\ UploadOrder /\ Joins /\ OutcomeOnce
  BY DEF RecorderInv
<1>2. /\ rpcPc["task"] = "headers" /\ rpcPc' = [rpcPc EXCEPT !["task"] = "streaming"]
      /\ Store("task", "health_recorded") /\ outcomes' = Append(outcomes, "failure")
      /\ mem' = mem /\ rpcProbe' = rpcProbe /\ then' = then /\ terminal' = terminal
      /\ releases' = releases /\ lateUpload' = lateUpload /\ dropped' = dropped
  BY DEF RecordEagerly, RpcGoTo
<1>3. "task" \in RpcThreads /\ "health_recorded" \in Flags
  BY DEF RpcThreads, Flags
<1>4. Moves("task", "streaming") /\ PcTypes'
  BY <1>1, <1>2, <1>3, OneThreadMoves DEF TaskPcs
<1>5. then["task"] = "headers" /\ terminal = "none" /\ ~Clean
  BY <1>1, <1>2 DEF TaskOrder
<1>6. outcomes' = <<"failure">>
  <2>1. outcomes = <<>>
    BY <1>1, <1>2, <1>5 DEF OutcomeOnce
  <2> QED BY <1>2, <2>1
<1>7. HealthBeforeClean
  BY <1>5, OrdersNothing
<1>8. /\ (Headers' <=> Headers) /\ (Clean' <=> Clean) /\ (Ended' <=> Ended) /\ (Exceeded' <=> Exceeded)
      /\ TaskRecorded' /\ HealthBeforeClean'
      /\ (OverflowBeforeEnd => OverflowBeforeEnd') /\ buf' \in [RpcThreads -> Seq(Flags)]
  BY <1>1, <1>2, <1>3, <1>7, StoreSignals
<1>9. Stores'
  BY <1>1, <1>2, <1>3, StoresStay
<1>10. RecorderTypes'
  BY <1>1, <1>2, <1>4, <1>6, <1>8 DEF RecorderTypes, PcTypes
<1>11. dropped = FALSE
  BY <1>1, <1>2, NotDropped DEF RecorderTypes
<1>12. SlotOnce'
  BY <1>1, <1>2, <1>4, <1>8, <1>11 DEF SlotOnce, Moves
<1>13. TaskOrder'
  BY <1>1, <1>2, <1>4, <1>5, <1>8 DEF TaskOrder, Joined, Moves
<1>14. UploadOrder'
  BY <1>1, <1>2, <1>4, <1>8 DEF UploadOrder, Moves
<1>15. Joins'
  BY <1>1, <1>2, <1>4, <1>8 DEF Joins, Joined, Moves
<1>16. OutcomeOnce'
  <2>1. rpcPc'["task"] = "streaming"
    BY <1>4 DEF Moves
  <2>2. outcomes' # <<"success">>
    BY <1>6, OutcomesDiffer
  <2> QED BY <1>6, <1>8, <2>1, <2>2 DEF OutcomeOnce
<1> QED BY <1>9, <1>10, <1>12, <1>13, <1>14, <1>15, <1>16 DEF RecorderInv

\* The response is dropped before it has an observer.
LEMMA ResponseAbandonedKeeps ==
  ASSUME RecorderInv, ResponseAbandoned
  PROVE  RecorderInv'
<1>1. RecorderTypes /\ Stores /\ SlotOnce /\ TaskOrder /\ UploadOrder /\ Joins /\ OutcomeOnce
  BY DEF RecorderInv
<1>2. /\ rpcPc["task"] \in {"headers", "streaming"} /\ rpcPc' = [rpcPc EXCEPT !["task"] = "done"]
      /\ mem' = mem /\ buf' = buf /\ rpcProbe' = rpcProbe /\ then' = then /\ terminal' = terminal
      /\ releases' = releases /\ outcomes' = outcomes /\ lateUpload' = lateUpload /\ dropped' = dropped
  BY DEF ResponseAbandoned
<1>3. Moves("task", "done") /\ PcTypes'
  BY <1>1, <1>2, OneThreadMoves DEF TaskPcs, RpcThreads
<1>4. RecorderTypes'
  BY <1>1, <1>2, <1>3 DEF RecorderTypes, PcTypes
<1>5. SameSignals /\ Stores'
  BY <1>1, <1>2, LoadSignals
<1>6. dropped = FALSE /\ terminal = "none" /\ Headers
  BY <1>1, <1>2, NotDropped DEF RecorderTypes, TaskOrder, SlotOnce
<1>7. SlotOnce'
  BY <1>1, <1>2, <1>3, <1>5, <1>6 DEF SlotOnce, Moves, SameSignals
<1>8. TaskOrder'
  BY <1>1, <1>2, <1>3, <1>5, <1>6 DEF TaskOrder, Joined, Moves, SameSignals
<1>9. UploadOrder'
  BY <1>1, <1>2, <1>3, <1>5 DEF UploadOrder, Moves, SameSignals
<1>10. Joins'
  BY <1>1, <1>2, <1>3, <1>5 DEF Joins, Joined, Moves, SameSignals
<1>11. OutcomeOnce'
  BY <1>1, <1>2, <1>3, <1>5, <1>6 DEF OutcomeOnce, Moves, SameSignals
<1> QED BY <1>4, <1>5, <1>7, <1>8, <1>9, <1>10, <1>11 DEF RecorderInv

\* on_response_terminal: the end of the response is decided once, by the request
\* task. A clean end is stored behind the outcome of the headers, if there was one.
LEMMA ResponseTerminalKeeps ==
  ASSUME RecorderInv, ResponseTerminal
  PROVE  RecorderInv'
<1>1. RecorderTypes /\ Stores /\ SlotOnce /\ TaskOrder /\ UploadOrder /\ Joins /\ OutcomeOnce
  BY DEF RecorderInv
<1>2. /\ rpcPc["task"] \in {"headers", "streaming"} /\ terminal' \in {"clean", "failure", "client"}
      /\ then' = [then EXCEPT !["task"] = "done"]
      /\ mem' = mem /\ rpcProbe' = rpcProbe /\ releases' = releases
      /\ outcomes' = outcomes /\ lateUpload' = lateUpload /\ dropped' = dropped
  BY DEF ResponseTerminal
<1>3. /\ "task" \in RpcThreads /\ "health_recorded" \in Flags /\ "response_clean" \in Flags
      /\ "done" \in TaskPcs /\ "failure_swap" \in TaskPcs /\ "record" \in TaskPcs
  BY DEF RpcThreads, Flags, TaskPcs
<1>4. /\ then' \in [RpcThreads -> {"headers", "done"}] /\ then'["task"] = "done"
      /\ then'["upload"] = "done" /\ then'["guard"] = "done"
  BY <1>1, <1>2, <1>3 DEF RecorderTypes, RpcThreads
<1>5. /\ dropped = FALSE /\ Headers /\ then["task"] = "headers" /\ terminal = "none" /\ ~Clean
  BY <1>1, <1>2, NotDropped DEF RecorderTypes, TaskOrder, SlotOnce
<1>6. CASE /\ Load("task", "request_body_exceeded") \/ terminal' = "client"
           /\ Store("task", "health_recorded") /\ rpcPc' = [rpcPc EXCEPT !["task"] = "done"]
  <2>1. Moves("task", "done") /\ PcTypes'
    BY <1>1, <1>3, <1>6, OneThreadMoves
  <2>2. Exceeded \/ terminal' = "client"
    BY <1>1, <1>3, <1>6, LoadMeans
  <2>3. /\ (Headers' <=> Headers) /\ (Clean' <=> Clean) /\ (Ended' <=> Ended) /\ (Exceeded' <=> Exceeded)
        /\ TaskRecorded' /\ (HealthBeforeClean => HealthBeforeClean')
        /\ (OverflowBeforeEnd => OverflowBeforeEnd') /\ buf' \in [RpcThreads -> Seq(Flags)]
    BY <1>1, <1>2, <1>3, <1>6, StoreSignals
  <2>4. Stores'
    BY <1>1, <1>2, <1>3, <1>6, StoresStay
  <2>5. RecorderTypes'
    BY <1>1, <1>2, <1>4, <2>1, <2>3 DEF RecorderTypes, PcTypes
  <2>6. SlotOnce'
    BY <1>1, <1>2, <1>5, <2>1, <2>3 DEF SlotOnce, Moves
  <2>7. TaskOrder'
    BY <1>2, <1>4, <1>5, <2>1, <2>3 DEF TaskOrder, Joined, Moves
  <2>8. UploadOrder'
    BY <1>1, <1>2, <2>1, <2>3 DEF UploadOrder, Moves
  <2>9. Joins'
    BY <1>1, <1>2, <2>1, <2>3 DEF Joins, Joined, Moves
  <2>10. OutcomeOnce'
    BY <1>1, <1>2, <1>4, <2>1, <2>2, <2>3 DEF OutcomeOnce, Moves
  <2> QED BY <2>4, <2>5, <2>6, <2>7, <2>8, <2>9, <2>10 DEF RecorderInv
<1>7. CASE /\ terminal' = "failure" /\ buf' = buf /\ rpcPc' = [rpcPc EXCEPT !["task"] = "failure_swap"]
  <2>1. Moves("task", "failure_swap") /\ PcTypes'
    BY <1>1, <1>3, <1>7, OneThreadMoves
  <2>2. SameSignals /\ Stores'
    BY <1>1, <1>2, <1>7, LoadSignals
  <2>3. RecorderTypes'
    BY <1>1, <1>2, <1>4, <1>7, <2>1 DEF RecorderTypes, PcTypes
  <2>4. SlotOnce'
    BY <1>1, <1>2, <1>5, <2>1, <2>2 DEF SlotOnce, Moves, SameSignals
  <2>5. TaskOrder'
    BY <1>4, <1>5, <1>7, <2>1, <2>2 DEF TaskOrder, Joined, Moves, SameSignals
  <2>6. UploadOrder'
    BY <1>1, <1>2, <2>1, <2>2 DEF UploadOrder, Moves, SameSignals
  <2>7. Joins'
    BY <1>1, <1>2, <2>1, <2>2 DEF Joins, Joined, Moves, SameSignals
  <2>8. OutcomeOnce'
    BY <1>1, <1>2, <1>4, <1>5, <1>7, <2>1, <2>2 DEF OutcomeOnce, Moves, SameSignals
  <2> QED BY <2>2, <2>3, <2>4, <2>5, <2>6, <2>7, <2>8 DEF RecorderInv
<1>8. CASE /\ terminal' = "clean" /\ Store("task", "response_clean")
           /\ rpcPc' = [rpcPc EXCEPT !["task"] = "record"]
  <2>1. Moves("task", "record") /\ PcTypes'
    BY <1>1, <1>3, <1>8, OneThreadMoves
  <2>2. /\ (Headers' <=> Headers) /\ Clean' /\ (Ended' <=> Ended) /\ (Exceeded' <=> Exceeded)
        /\ (Recorded' <=> Recorded) /\ (TaskRecorded => TaskRecorded')
        /\ (HealthBeforeClean /\ TaskRecorded => HealthBeforeClean')
        /\ (OverflowBeforeEnd => OverflowBeforeEnd') /\ buf' \in [RpcThreads -> Seq(Flags)]
    BY <1>1, <1>2, <1>3, <1>8, StoreSignals
  <2>3. Stores'
    BY <1>1, <1>2, <1>3, <1>8, StoresStay
  <2>4. RecorderTypes'
    BY <1>1, <1>2, <1>4, <1>8, <2>1, <2>2 DEF RecorderTypes, PcTypes
  <2>5. SlotOnce'
    BY <1>1, <1>2, <1>5, <2>1, <2>2 DEF SlotOnce, Moves
  <2>6. TaskOrder'
    BY <1>4, <1>5, <1>8, <2>1, <2>2 DEF TaskOrder, Joined, Moves
  <2>7. UploadOrder'
    BY <1>1, <1>2, <2>1, <2>2 DEF UploadOrder, Moves
  <2>8. Joins'
    BY <1>1, <1>2, <2>1, <2>2 DEF Joins, Joined, Moves
  <2>9. OutcomeOnce'
    BY <1>1, <1>2, <1>4, <1>5, <1>8, <2>1, <2>2 DEF OutcomeOnce, Moves
  <2> QED BY <2>3, <2>4, <2>5, <2>6, <2>7, <2>8, <2>9 DEF RecorderInv
<1> QED BY <1>6, <1>7, <1>8 DEF ResponseTerminal

\* The failure of a response is recorded, unless the headers' failure was.
LEMMA FailureSwapKeeps ==
  ASSUME RecorderInv, FailureSwap
  PROVE  RecorderInv'
<1>1. RecorderTypes /\ Stores /\ SlotOnce /\ TaskOrder /\ UploadOrder /\ Joins /\ OutcomeOnce
  BY DEF RecorderInv
<1>2. /\ rpcPc["task"] = "failure_swap" /\ rpcPc' = [rpcPc EXCEPT !["task"] = "done"]
      /\ buf' = buf /\ rpcProbe' = rpcProbe /\ then' = then /\ terminal' = terminal
      /\ releases' = releases /\ lateUpload' = lateUpload /\ dropped' = dropped
      /\ buf["task"] = <<>> /\ mem' = [mem EXCEPT !["health_recorded"] = TRUE]
      /\ outcomes' = IF mem["health_recorded"] THEN outcomes ELSE Append(outcomes, "failure")
  BY DEF FailureSwap, RpcGoTo, Swap
<1>3. Moves("task", "done") /\ PcTypes'
  BY <1>1, <1>2, OneThreadMoves DEF TaskPcs, RpcThreads
<1>4. outcomes' = <<"failure">>
  <2>1. CASE mem["health_recorded"]
    <3>1. outcomes = <<"failure">>
      BY <1>1, <1>2, <2>1 DEF OutcomeOnce, Recorded
    <3> QED BY <1>2, <2>1, <3>1
  <2>2. CASE ~mem["health_recorded"]
    <3>1. ~Pending("task", "health_recorded")
      BY <1>2, NothingPending DEF RpcThreads
    <3>2. outcomes = <<>>
      BY <1>1, <2>2, <3>1 DEF OutcomeOnce, TaskRecorded
    <3>3. outcomes' = Append(outcomes, "failure")
      BY <1>2, <2>2
    <3> QED BY <3>2, <3>3
  <2> QED BY <2>1, <2>2
<1>5. /\ (Headers' <=> Headers) /\ (Clean' <=> Clean) /\ (Ended' <=> Ended) /\ (Exceeded' <=> Exceeded)
      /\ TaskRecorded' /\ HealthBeforeClean' /\ (OverflowBeforeEnd => OverflowBeforeEnd')
      /\ Stores' /\ mem' \in [Flags -> BOOLEAN]
      /\ mem'["slot_released"] = mem["slot_released"]
      /\ mem'["upload_terminated"] = mem["upload_terminated"]
      /\ mem'["response_clean"] = mem["response_clean"]
      /\ mem'["upload_guard_expired"] = mem["upload_guard_expired"]
  BY <1>1, <1>2, HealthSwapSignals
<1>6. RecorderTypes'
  BY <1>1, <1>2, <1>3, <1>4, <1>5 DEF RecorderTypes, PcTypes
<1>7. dropped = FALSE /\ terminal = "failure" /\ then["task"] = "done" /\ ~Clean
  BY <1>1, <1>2, NotDropped DEF RecorderTypes, TaskOrder, Joined, RpcThreads
<1>8. SlotOnce'
  BY <1>1, <1>2, <1>3, <1>5, <1>7 DEF SlotOnce, Moves
<1>9. TaskOrder'
  BY <1>1, <1>2, <1>3, <1>5, <1>7 DEF TaskOrder, Joined, Moves
<1>10. UploadOrder'
  BY <1>1, <1>2, <1>3, <1>5 DEF UploadOrder, Moves
<1>11. Joins'
  BY <1>1, <1>2, <1>3, <1>5 DEF Joins, Joined, Moves
<1>12. OutcomeOnce'
  <2>1. rpcPc'["task"] = "done" /\ then'["task"] = "done"
    BY <1>2, <1>3, <1>7 DEF Moves
  <2>2. outcomes' # <<"success">>
    BY <1>4, OutcomesDiffer
  <2> QED BY <1>4, <1>5, <2>1, <2>2 DEF OutcomeOnce
<1> QED BY <1>5, <1>6, <1>8, <1>9, <1>10, <1>11, <1>12 DEF RecorderInv

\* An overflow comes before the end of the upload, so no success was recorded
\* and no join is under way.
LEMMA UploadOverflowsKeeps ==
  ASSUME RecorderInv, UploadOverflows
  PROVE  RecorderInv'
<1>1. RecorderTypes /\ Stores /\ SlotOnce /\ TaskOrder /\ UploadOrder /\ Joins /\ OutcomeOnce
  BY DEF RecorderInv
<1>2. /\ rpcPc["upload"] = "uploading" /\ rpcPc' = [rpcPc EXCEPT !["upload"] = "aborting"]
      /\ Store("upload", "request_body_exceeded")
      /\ mem' = mem /\ rpcProbe' = rpcProbe /\ then' = then /\ terminal' = terminal
      /\ releases' = releases /\ outcomes' = outcomes /\ lateUpload' = lateUpload /\ dropped' = dropped
  BY DEF UploadOverflows, RpcGoTo
<1>3. "upload" \in RpcThreads /\ "request_body_exceeded" \in Flags
  BY DEF RpcThreads, Flags
<1>4. Moves("upload", "aborting") /\ PcTypes'
  BY <1>1, <1>2, <1>3, OneThreadMoves DEF UploadPcs
<1>5. ~Ended /\ OverflowBeforeEnd
  BY <1>1, <1>2, OrdersNothing DEF UploadOrder
<1>6. rpcPc["task"] \notin Joined
  BY <1>1, <1>5 DEF Joins, Ended
<1>7. /\ (Headers' <=> Headers) /\ (Clean' <=> Clean) /\ (Ended' <=> Ended) /\ Exceeded'
      /\ (Recorded' <=> Recorded) /\ (TaskRecorded => TaskRecorded')
      /\ (HealthBeforeClean => HealthBeforeClean')
      /\ OverflowBeforeEnd' /\ buf' \in [RpcThreads -> Seq(Flags)]
  BY <1>1, <1>2, <1>3, <1>5, StoreSignals
<1>8. Stores'
  BY <1>1, <1>2, <1>3, StoresStay
<1>9. RecorderTypes'
  BY <1>1, <1>2, <1>4, <1>7 DEF RecorderTypes, PcTypes
<1>10. dropped = FALSE
  BY <1>1, <1>2, NotDropped DEF RecorderTypes
<1>11. SlotOnce'
  BY <1>1, <1>2, <1>4, <1>7, <1>10 DEF SlotOnce, Moves
<1>12. TaskOrder'
  BY <1>1, <1>2, <1>4, <1>7 DEF TaskOrder, Moves
<1>13. UploadOrder'
  BY <1>1, <1>2, <1>4, <1>5, <1>7 DEF UploadOrder, Moves
<1>14. Joins'
  BY <1>1, <1>2, <1>4, <1>6, <1>7 DEF Joins, Joined, Moves
<1>15. OutcomeOnce'
  BY <1>1, <1>2, <1>4, <1>5, <1>7 DEF OutcomeOnce, Moves
<1> QED BY <1>8, <1>9, <1>11, <1>12, <1>13, <1>14, <1>15 DEF RecorderInv

\* The end of the upload is stored behind its overflow.
LEMMA UploadTerminatesKeeps ==
  ASSUME RecorderInv, UploadTerminates
  PROVE  RecorderInv'
<1>1. RecorderTypes /\ Stores /\ SlotOnce /\ TaskOrder /\ UploadOrder /\ Joins /\ OutcomeOnce
  BY DEF RecorderInv
<1>2. /\ rpcPc["upload"] \in {"uploading", "aborting"} /\ rpcPc' = [rpcPc EXCEPT !["upload"] = "release"]
      /\ Store("upload", "upload_terminated") /\ lateUpload' = mem["upload_guard_expired"]
      /\ mem' = mem /\ rpcProbe' = rpcProbe /\ then' = then /\ terminal' = terminal
      /\ releases' = releases /\ outcomes' = outcomes /\ dropped' = dropped
  BY DEF UploadTerminates, RpcGoTo
<1>3. "upload" \in RpcThreads /\ "upload_terminated" \in Flags
  BY DEF RpcThreads, Flags
<1>4. Moves("upload", "release") /\ PcTypes'
  BY <1>1, <1>2, <1>3, OneThreadMoves DEF UploadPcs
<1>5. ~Ended
  BY <1>1, <1>2 DEF UploadOrder
<1>6. rpcPc["task"] \notin Joined
  BY <1>1, <1>5 DEF Joins, Ended
<1>7. /\ (Headers' <=> Headers) /\ (Clean' <=> Clean) /\ Ended' /\ (Exceeded' <=> Exceeded)
      /\ (Recorded' <=> Recorded) /\ (TaskRecorded => TaskRecorded')
      /\ (HealthBeforeClean => HealthBeforeClean')
      /\ (OverflowBeforeEnd /\ Exceeded => OverflowBeforeEnd')
      /\ buf' \in [RpcThreads -> Seq(Flags)]
  BY <1>1, <1>2, <1>3, StoreSignals
<1>8. Stores'
  BY <1>1, <1>2, <1>3, StoresStay
<1>9. RecorderTypes'
  <2>1. lateUpload' \in BOOLEAN
    BY <1>1, <1>2 DEF RecorderTypes, Flags
  <2> QED BY <1>1, <1>2, <1>4, <1>7, <2>1 DEF RecorderTypes, PcTypes
<1>10. dropped = FALSE
  BY <1>1, <1>2, NotDropped DEF RecorderTypes
<1>11. SlotOnce'
  BY <1>1, <1>2, <1>4, <1>7, <1>10 DEF SlotOnce, Moves
<1>12. TaskOrder'
  BY <1>1, <1>2, <1>4, <1>7 DEF TaskOrder, Moves
<1>13. UploadOrder'
  BY <1>1, <1>2, <1>4, <1>7 DEF UploadOrder, Moves
<1>14. Joins'
  BY <1>1, <1>2, <1>4, <1>6, <1>7 DEF Joins, Joined, Moves
<1>15. OutcomeOnce'
  BY <1>1, <1>2, <1>4, <1>5, <1>7 DEF OutcomeOnce, Moves
<1> QED BY <1>8, <1>9, <1>11, <1>12, <1>13, <1>14, <1>15 DEF RecorderInv

\* settle_neutral_if_upload_still_open: the deadline is published first.
LEMMA GuardFiresKeeps ==
  ASSUME RecorderInv, NEW t \in RpcThreads, GuardFires(t)
  PROVE  RecorderInv'
<1>1. RecorderTypes /\ Stores /\ SlotOnce /\ TaskOrder /\ UploadOrder /\ Joins /\ OutcomeOnce
  BY DEF RecorderInv
<1>2. t \in {"task", "guard"} /\ rpcPc[t] = "armed"
  BY <1>1 DEF RecorderTypes, RpcThreads, UploadPcs, GuardFires
<1>3. /\ mem' = mem /\ rpcProbe' = rpcProbe /\ then' = then /\ terminal' = terminal
      /\ releases' = releases /\ outcomes' = outcomes /\ lateUpload' = lateUpload /\ dropped' = dropped
  BY DEF GuardFires
<1>4. PICK v :
        /\ rpcPc' = [rpcPc EXCEPT ![t] = v]
        /\ \/ v = AfterGuard(t) /\ buf' = buf
           \/ v = (IF rpcProbe THEN "guard_swap" ELSE "settle") /\ Store(t, "upload_guard_expired")
  BY DEF GuardFires
<1>5. /\ v \in {AfterGuard(t), "guard_swap", "settle"} /\ (v = "guard_swap" => rpcProbe)
      /\ t = "task" => v \in {"release", "guard_swap", "settle"}
      /\ t = "guard" => v \in {"done", "guard_swap", "settle"}
  BY <1>2, <1>4 DEF AfterGuard
<1>6. Moves(t, v) /\ PcTypes'
  <2>1. (t = "task" => v \in TaskPcs) /\ (t = "guard" => v \in GuardPcs)
    BY <1>2, <1>5 DEF TaskPcs, GuardPcs
  <2> QED BY <1>1, <1>2, <1>4, <2>1, OneThreadMoves
<1>7. SameSignals /\ Stores' /\ buf' \in [RpcThreads -> Seq(Flags)]
  <2>1. CASE buf' = buf
    BY <1>1, <1>3, <2>1, LoadSignals DEF RecorderTypes
  <2>2. CASE Store(t, "upload_guard_expired")
    <3>1. "upload_guard_expired" \in Flags
      BY DEF Flags
    <3>2. SameSignals /\ buf' \in [RpcThreads -> Seq(Flags)]
      BY <1>1, <1>3, <2>2, <3>1, StoreSignals DEF SameSignals
    <3>3. Stores'
      BY <1>1, <1>2, <1>3, <2>2, <3>1, StoresStay
    <3> QED BY <3>2, <3>3
  <2> QED BY <1>4, <2>1, <2>2
<1>8. RecorderTypes'
  BY <1>1, <1>3, <1>6, <1>7 DEF RecorderTypes, PcTypes
<1>9. dropped = FALSE /\ Headers
  BY <1>1, <1>2, NotDropped DEF RecorderTypes, SlotOnce
<1>10. SlotOnce'
  BY <1>1, <1>2, <1>3, <1>5, <1>6, <1>7, <1>9 DEF SlotOnce, Moves, SameSignals
<1>11. TaskOrder'
  BY <1>1, <1>2, <1>3, <1>5, <1>6, <1>7 DEF TaskOrder, Joined, Moves, SameSignals
<1>12. UploadOrder'
  BY <1>1, <1>2, <1>3, <1>6, <1>7 DEF UploadOrder, Moves, SameSignals
<1>13. Joins'
  BY <1>1, <1>2, <1>3, <1>5, <1>6, <1>7 DEF Joins, Joined, Moves, SameSignals
<1>14. OutcomeOnce'
  BY <1>1, <1>2, <1>3, <1>5, <1>6, <1>7 DEF OutcomeOnce, TaskOrder, Moves, SameSignals
<1> QED BY <1>7, <1>8, <1>10, <1>11, <1>12, <1>13, <1>14 DEF RecorderInv

\* The guard consumes an outcome only of a response that has ended cleanly.
LEMMA GuardSettlesKeeps ==
  ASSUME RecorderInv, NEW t \in RpcThreads, GuardSettles(t)
  PROVE  RecorderInv'
<1>1. RecorderTypes /\ Stores /\ SlotOnce /\ TaskOrder /\ UploadOrder /\ Joins /\ OutcomeOnce
  BY DEF RecorderInv
<1>2. t \in {"task", "guard"} /\ rpcPc[t] = "settle"
  BY <1>1 DEF RecorderTypes, RpcThreads, UploadPcs, GuardSettles, RpcGoTo
<1>3. /\ buf' = buf /\ rpcProbe' = rpcProbe /\ then' = then /\ terminal' = terminal
      /\ releases' = releases /\ outcomes' = outcomes /\ lateUpload' = lateUpload /\ dropped' = dropped
      /\ rpcPc' = [rpcPc EXCEPT ![t] = AfterGuard(t)]
  BY DEF GuardSettles, RpcGoTo
<1>4. mem' = mem \/ (Clean /\ mem' = [mem EXCEPT !["health_recorded"] = TRUE])
  BY <1>1, LoadMeans DEF GuardSettles, Swap
<1>5. /\ t = "task" => AfterGuard(t) = "release"
      /\ t = "guard" => AfterGuard(t) = "done"
  BY DEF AfterGuard
<1>6. Moves(t, AfterGuard(t)) /\ PcTypes'
  <2>1. (t = "task" => AfterGuard(t) \in TaskPcs) /\ (t = "guard" => AfterGuard(t) \in GuardPcs)
    BY <1>5 DEF TaskPcs, GuardPcs
  <2> HIDE DEF AfterGuard
  <2> QED BY <1>1, <1>2, <1>3, <2>1, OneThreadMoves
<1>7. /\ (Headers' <=> Headers) /\ (Clean' <=> Clean) /\ (Ended' <=> Ended) /\ (Exceeded' <=> Exceeded)
      /\ (TaskRecorded => TaskRecorded') /\ (HealthBeforeClean => HealthBeforeClean')
      /\ (Recorded' => Recorded \/ Clean)
      /\ (OverflowBeforeEnd => OverflowBeforeEnd')
      /\ Stores' /\ mem' \in [Flags -> BOOLEAN]
      /\ mem'["slot_released"] = mem["slot_released"]
      /\ mem'["upload_terminated"] = mem["upload_terminated"]
      /\ mem'["response_clean"] = mem["response_clean"]
      /\ mem'["upload_guard_expired"] = mem["upload_guard_expired"]
  <2>1. CASE mem' = mem
    BY <1>1, <1>3, <2>1, LoadSignals DEF SameSignals, RecorderTypes
  <2>2. CASE Clean /\ mem' = [mem EXCEPT !["health_recorded"] = TRUE]
    BY <1>1, <1>3, <2>2, HealthSwapSignals
  <2> QED BY <1>4, <2>1, <2>2
<1>8. RecorderTypes'
  BY <1>1, <1>3, <1>6, <1>7 DEF RecorderTypes, PcTypes
<1>9. dropped = FALSE /\ Headers
  BY <1>1, <1>2, NotDropped DEF RecorderTypes, SlotOnce
<1>10. SlotOnce'
  BY <1>1, <1>2, <1>3, <1>5, <1>6, <1>7, <1>9 DEF SlotOnce, Moves
<1>11. TaskOrder'
  BY <1>1, <1>2, <1>3, <1>5, <1>6, <1>7 DEF TaskOrder, Joined, Moves
<1>12. UploadOrder'
  BY <1>1, <1>2, <1>3, <1>6, <1>7 DEF UploadOrder, Moves
<1>13. Joins'
  BY <1>1, <1>2, <1>3, <1>5, <1>6, <1>7 DEF Joins, Joined, Moves
<1>14. OutcomeOnce'
  <2>1. Clean => terminal = "clean" /\ rpcPc["task"] # "failure_swap"
    BY <1>1 DEF TaskOrder, Joined
  <2> QED BY <1>1, <1>2, <1>3, <1>5, <1>6, <1>7, <2>1 DEF OutcomeOnce, TaskOrder, Moves
<1> QED BY <1>7, <1>8, <1>10, <1>11, <1>12, <1>13, <1>14 DEF RecorderInv

\* A store that becomes visible changes nothing that a thread relies on.
LEMMA FlushKeeps ==
  ASSUME RecorderInv, NEW t \in RpcThreads, Flush(t)
  PROVE  RecorderInv'
<1>1. RecorderTypes /\ Stores /\ SlotOnce /\ TaskOrder /\ UploadOrder /\ Joins /\ OutcomeOnce
  BY DEF RecorderInv
<1>2. /\ buf[t] # <<>> /\ rpcProbe' = rpcProbe /\ rpcPc' = rpcPc /\ then' = then /\ terminal' = terminal
      /\ releases' = releases /\ outcomes' = outcomes /\ lateUpload' = lateUpload /\ dropped' = dropped
  BY DEF Flush
<1>3. /\ SameSignals /\ Stores' /\ mem' \in [Flags -> BOOLEAN]
      /\ buf' \in [RpcThreads -> Seq(Flags)] /\ (mem'["slot_released"] <=> mem["slot_released"])
      /\ mem["upload_terminated"] => mem'["upload_terminated"]
      /\ mem["response_clean"] => mem'["response_clean"]
      /\ mem["upload_guard_expired"] => mem'["upload_guard_expired"]
  <2>1. \A g \in Flags : mem[g] => mem'[g]
    BY <1>1, FlushSignals
  <2>2. /\ SameSignals /\ Stores' /\ mem' \in [Flags -> BOOLEAN]
        /\ buf' \in [RpcThreads -> Seq(Flags)] /\ (mem'["slot_released"] <=> mem["slot_released"])
    BY <1>1, FlushSignals
  <2> QED BY <2>1, <2>2 DEF Flags
<1>4. dropped = FALSE
  <2>1. ~Quiet
    BY <1>2 DEF Quiet
  <2> QED BY <1>1, <2>1 DEF SlotOnce, RecorderTypes
<1>5. RecorderTypes'
  BY <1>1, <1>2, <1>3 DEF RecorderTypes
<1>6. SlotOnce'
  BY <1>1, <1>2, <1>3, <1>4 DEF SlotOnce, SameSignals
<1>7. TaskOrder'
  BY <1>1, <1>2, <1>3 DEF TaskOrder, SameSignals
<1>8. UploadOrder'
  BY <1>1, <1>2, <1>3 DEF UploadOrder, SameSignals
<1>9. Joins'
  BY <1>1, <1>2, <1>3 DEF Joins, Joined, SameSignals
<1>10. OutcomeOnce'
  BY <1>1, <1>2, <1>3 DEF OutcomeOnce, SameSignals
<1> QED BY <1>3, <1>5, <1>6, <1>7, <1>8, <1>9, <1>10 DEF RecorderInv

\* The destructor gives back a slot that the recorder owned and nobody released.
LEMMA DropRecorderKeeps ==
  ASSUME RecorderInv, DropRecorder
  PROVE  RecorderInv'
<1> DEFINE owed == rpcProbe /\ mem["headers_seen"] /\ ~mem["slot_released"]
<1>1. RecorderTypes /\ Stores /\ SlotOnce /\ TaskOrder /\ UploadOrder /\ Joins /\ OutcomeOnce
  BY DEF RecorderInv
<1>2. /\ buf' = buf /\ rpcProbe' = rpcProbe /\ rpcPc' = rpcPc /\ then' = then /\ terminal' = terminal
      /\ outcomes' = outcomes /\ lateUpload' = lateUpload /\ dropped' = TRUE
      /\ Finished /\ Quiet /\ releases' = IF owed THEN releases + 1 ELSE releases
      /\ mem' = [mem EXCEPT !["slot_released"] = mem["slot_released"] \/ owed]
  BY DEF DropRecorder, Quiet
<1>3. Headers <=> mem["headers_seen"]
  BY <1>2, NothingPending DEF Headers, Quiet, RpcThreads
<1>4. mem \in [Flags -> BOOLEAN] /\ "slot_released" \in Flags
  BY <1>1 DEF RecorderTypes, Flags
<1>5. /\ releases' = IF rpcProbe THEN 1 ELSE 0
      /\ ~Headers => releases' = releases /\ ~owed
      /\ Headers => owed \/ mem["slot_released"] \/ ~rpcProbe
  <2>1. CASE Headers
    BY <1>1, <1>2, <1>3, <2>1 DEF SlotOnce
  <2>2. CASE ~Headers
    BY <1>1, <1>2, <1>3, <2>2 DEF SlotOnce, Finished
  <2> QED BY <1>1, <1>2, <1>3, <2>1, <2>2 DEF SlotOnce
<1>6. mem' = mem \/ (owed /\ mem' = [mem EXCEPT !["slot_released"] = TRUE])
  <2>1. CASE owed
    BY <1>2, <1>4, <2>1
  <2>2. CASE ~owed
    BY <1>2, <1>4, <2>2
  <2> QED BY <2>1, <2>2
<1>7. /\ SameSignals /\ Stores' /\ mem' \in [Flags -> BOOLEAN]
      /\ mem'["upload_terminated"] = mem["upload_terminated"]
      /\ mem'["response_clean"] = mem["response_clean"]
      /\ mem'["upload_guard_expired"] = mem["upload_guard_expired"]
      /\ mem'["slot_released"] = (mem["slot_released"] \/ owed)
  <2>1. CASE mem' = mem /\ ~owed
    BY <1>1, <1>2, <1>4, <2>1, LoadSignals
  <2>2. CASE owed /\ mem' = [mem EXCEPT !["slot_released"] = TRUE]
    BY <1>1, <1>2, <1>4, <2>2, SlotSwapSignals
  <2>3. mem' = mem => ~owed
    BY <1>2, <1>4
  <2> QED BY <1>6, <2>1, <2>2, <2>3
<1>8. RecorderTypes'
  <2>1. releases' \in {0, 1}
    BY <1>5
  <2> QED BY <1>1, <1>2, <1>7, <2>1 DEF RecorderTypes
<1>9. Finished' /\ Quiet'
  BY <1>2 DEF Finished, Quiet, RpcThreads
<1>10. SlotOnce'
  BY <1>1, <1>2, <1>3, <1>5, <1>7, <1>9 DEF SlotOnce, SameSignals, Finished
<1>11. TaskOrder'
  BY <1>1, <1>2, <1>7 DEF TaskOrder, SameSignals
<1>12. UploadOrder'
  BY <1>1, <1>2, <1>7 DEF UploadOrder, SameSignals
<1>13. Joins'
  BY <1>1, <1>2, <1>7 DEF Joins, Joined, SameSignals
<1>14. OutcomeOnce'
  BY <1>1, <1>2, <1>7 DEF OutcomeOnce, SameSignals
<1> QED BY <1>7, <1>8, <1>10, <1>11, <1>12, <1>13, <1>14 DEF RecorderInv

-----------------------------------------------------------------------------
(* Recorder: theorems *)

\* Nothing is published before the RPC starts.
LEMMA RecorderInit == RpcInit => RecorderInv
<1> SUFFICES ASSUME RpcInit PROVE RecorderInv
  OBVIOUS
<1>1. /\ rpcProbe \in BOOLEAN /\ mem = [f \in Flags |-> FALSE] /\ buf = [t \in RpcThreads |-> <<>>]
      /\ then = [t \in RpcThreads |-> "done"] /\ terminal = "none" /\ releases = 0
      /\ outcomes = <<>> /\ lateUpload = FALSE /\ dropped = FALSE
  BY DEF RpcInit
<1>2. /\ rpcPc["task"] = "dispatch" /\ rpcPc["upload"] = "uploading" /\ rpcPc["guard"] = "off"
      /\ rpcPc \in [RpcThreads -> TaskPcs \cup UploadPcs \cup GuardPcs]
  BY DEF RpcInit, RpcThreads, TaskPcs, UploadPcs, GuardPcs
<1>3. \A f \in Flags : ~mem[f]
  BY <1>1
<1>4. \A t \in RpcThreads, f \in Flags : ~Pending(t, f)
  BY <1>1, NothingPending
<1>5. RecorderTypes
  <2>1. mem \in [Flags -> BOOLEAN] /\ buf \in [RpcThreads -> Seq(Flags)]
    BY <1>1, EmptySeq
  <2>2. then \in [RpcThreads -> {"headers", "done"}] /\ then["upload"] = "done" /\ then["guard"] = "done"
    BY <1>1 DEF RpcThreads
  <2> QED BY <1>1, <1>2, <2>1, <2>2 DEF RecorderTypes, TaskPcs, UploadPcs, GuardPcs
<1>6. Stores
  BY <1>4 DEF Stores, RpcThreads
<1>7. /\ ~Headers /\ ~Clean /\ ~Ended /\ ~Exceeded /\ ~Recorded /\ ~mem["slot_released"]
  BY <1>3, <1>4 DEF Headers, Clean, Ended, Exceeded, Recorded, RpcThreads, Flags
<1>8. SlotOnce /\ TaskOrder /\ UploadOrder /\ Joins
  BY <1>1, <1>2, <1>7 DEF SlotOnce, TaskOrder, UploadOrder, Joins, Joined
<1>9. OutcomeOnce
  BY <1>1, <1>2, <1>7, OutcomesDiffer DEF OutcomeOnce
<1> QED BY <1>5, <1>6, <1>8, <1>9 DEF RecorderInv

\* Every step of every thread keeps the invariant.
LEMMA RecorderStep == RecorderInv /\ [RpcNext]_rpcVars => RecorderInv'
<1> SUFFICES ASSUME RecorderInv, [RpcNext]_rpcVars PROVE RecorderInv'
  OBVIOUS
<1>1. CASE TaskStep
  BY <1>1, DispatchFailsKeeps, HeadersArriveKeeps, ArmGuardKeeps, RecordEagerlyKeeps,
     ResponseAbandonedKeeps, ResponseTerminalKeeps, FailureSwapKeeps DEF TaskStep
<1>2. CASE UploadOverflows \/ UploadTerminates
  BY <1>2, UploadOverflowsKeeps, UploadTerminatesKeeps
<1>3. ASSUME NEW t \in RpcThreads, GuardFires(t) \/ GuardSettles(t) \/ Flush(t)
      PROVE  RecorderInv'
  BY <1>3, GuardFiresKeeps, GuardSettlesKeeps, FlushKeeps
<1>4. ASSUME NEW t \in RpcThreads, Settle(t)
      PROVE  RecorderInv'
  BY <1>4, TryReleaseSlotKeeps, ReleaseSwapKeeps, TryRecordCleanSuccessKeeps, RecordExceededKeeps,
     RecordExpiredKeeps, RecordSwapKeeps DEF Settle
<1>5. CASE DropRecorder
  BY <1>5, DropRecorderKeeps
<1>6. CASE UNCHANGED rpcVars
  <2>1. /\ mem' = mem /\ buf' = buf /\ rpcPc' = rpcPc /\ rpcProbe' = rpcProbe /\ then' = then
        /\ terminal' = terminal /\ releases' = releases /\ outcomes' = outcomes
        /\ lateUpload' = lateUpload /\ dropped' = dropped
    BY <1>6 DEF rpcVars
  <2>2. RecorderTypes /\ Stores /\ SlotOnce /\ TaskOrder /\ UploadOrder /\ Joins /\ OutcomeOnce
    BY DEF RecorderInv
  <2>3. SameSignals /\ Stores'
    BY <2>1, <2>2, LoadSignals
  <2>4. RecorderTypes'
    BY <2>1, <2>2 DEF RecorderTypes
  <2>5. (Finished => Finished') /\ (Quiet => Quiet')
    BY <2>1 DEF Finished, Quiet
  <2>6. SlotOnce' /\ TaskOrder'
    BY <2>1, <2>2, <2>3, <2>5 DEF SlotOnce, TaskOrder, Joined, SameSignals
  <2>7. UploadOrder' /\ Joins' /\ OutcomeOnce'
    BY <2>1, <2>2, <2>3 DEF UploadOrder, Joins, Joined, OutcomeOnce, SameSignals
  <2> QED BY <2>3, <2>4, <2>6, <2>7 DEF RecorderInv
<1> QED BY <1>1, <1>2, <1>3, <1>4, <1>5, <1>6 DEF RpcNext

\* The invariant of one streaming RPC, over every interleaving of its three
\* threads and of their store buffers.
THEOREM RecorderInvariant == RpcSpec => []RecorderInv
BY RecorderInit, RecorderStep, PTL DEF RpcSpec

\* The half-open slot of a streaming RPC is given back at most once, exactly once
\* by the time the recorder is dropped, and the breaker gets at most one outcome.
THEOREM SlotAndOutcomeSettleOnce == RpcSpec => []SettledExactlyOnce
<1>1. RecorderInv => SettledExactlyOnce
  <2> SUFFICES ASSUME RecorderInv PROVE SettledExactlyOnce
    OBVIOUS
  <2>1. RecorderTypes /\ SlotOnce
    BY DEF RecorderInv
  <2>2. releases <= 1
    BY <2>1 DEF RecorderTypes
  <2>3. Len(outcomes) <= 1
    <3>1. outcomes \in {<<>>, <<"failure">>, <<"success">>}
      BY <2>1 DEF RecorderTypes
    <3>2. Len(<<>>) = 0 /\ Len(<<"failure">>) = 1 /\ Len(<<"success">>) = 1
      OBVIOUS
    <3>3. Len(outcomes) \in {0, 1}
      BY <3>1, <3>2
    <3>4. \A n \in {0, 1} : n <= 1
      OBVIOUS
    <3> QED BY <3>3, <3>4
  <2>4. dropped => releases = IF rpcProbe THEN 1 ELSE 0
    BY <2>1 DEF SlotOnce
  <2> QED BY <2>2, <2>3, <2>4 DEF SettledExactlyOnce
<1> QED BY <1>1, RecorderInvariant, PTL

\* A success reaches the breaker only when the upload neither overflowed nor ended
\* after the guard's deadline, whichever of the two joins records it.
THEOREM NoSuccessAfterLateUpload == RpcSpec => []OnlyTimelyUploadsHeal
<1>1. RecorderInv => OnlyTimelyUploadsHeal
  <2> SUFFICES ASSUME RecorderInv, Healed
               PROVE  ~Load("upload", "request_body_exceeded") /\ ~lateUpload
    BY DEF OnlyTimelyUploadsHeal
  <2>1. RecorderTypes /\ Stores /\ OutcomeOnce
    BY DEF RecorderInv
  <2>2. outcomes = <<"success">>
    <3>1. outcomes # <<>> /\ outcomes # <<"failure">>
      BY DEF Healed
    <3> QED BY <2>1, <3>1 DEF RecorderTypes
  <2>3. ~Exceeded /\ ~lateUpload
    BY <2>1, <2>2 DEF OutcomeOnce
  <2> QED BY <2>1, <2>3, LoadMeans DEF RpcThreads
<1> QED BY <1>1, RecorderInvariant, PTL

\* A failure that ends a streaming response is recorded, unless the upload had
\* overflowed: no join and no guard consumes the outcome before it.
THEOREM StreamingFailureIsRecorded == RpcSpec => []FailureIsNotMasked
<1>1. RecorderInv => FailureIsNotMasked
  <2> SUFFICES ASSUME RecorderInv, terminal = "failure", rpcPc["task"] = "done",
                      ~Load("upload", "request_body_exceeded")
               PROVE  outcomes = <<"failure">>
    BY DEF FailureIsNotMasked
  <2>1. RecorderTypes /\ Stores /\ OutcomeOnce
    BY DEF RecorderInv
  <2>2. ~Exceeded
    BY <2>1, LoadMeans DEF RpcThreads
  <2> QED BY <2>1, <2>2 DEF OutcomeOnce
<1> QED BY <1>1, RecorderInvariant, PTL

\* A step gives back at most one slot and hands over at most one outcome.
LEMMA OneSettlementPerStep ==
  ASSUME [RpcNext]_rpcVars
  PROVE  /\ releases' = releases \/ releases' = releases + 1
         /\ outcomes' = outcomes \/ \E x \in {"failure", "success"} : outcomes' = Append(outcomes, x)
<1>1. CASE TaskStep
  BY <1>1 DEF TaskStep, DispatchFails, NoteHeadersArrived, ArmGuard, RecordEagerly,
     ResponseAbandoned, ResponseTerminal, FailureSwap
<1>2. CASE UploadOverflows \/ UploadTerminates
  BY <1>2 DEF UploadOverflows, UploadTerminates
<1>3. ASSUME NEW t \in RpcThreads, GuardFires(t) \/ GuardSettles(t) \/ Flush(t)
      PROVE  releases' = releases /\ outcomes' = outcomes
  BY <1>3 DEF GuardFires, GuardSettles, Flush
<1>4. ASSUME NEW t \in RpcThreads, Settle(t)
      PROVE  /\ releases' = releases \/ releases' = releases + 1
             /\ outcomes' = outcomes \/ outcomes' = Append(outcomes, "success")
  BY <1>4 DEF Settle, TryReleaseSlot, ReleaseSwap, TryRecordCleanSuccess,
     RecordExceeded, RecordExpired, RecordSwap
<1>5. CASE DropRecorder
  BY <1>5 DEF DropRecorder
<1>6. CASE UNCHANGED rpcVars
  BY <1>6 DEF rpcVars
<1> QED BY <1>1, <1>2, <1>3, <1>4, <1>5, <1>6 DEF RpcNext

\* What the recorder has told the breaker stands: no later join, timer, response
\* end or destructor adds to it or takes it back.
SettlementStands ==
  [][/\ outcomes # <<>> => outcomes' = outcomes
     /\ releases = 1 => releases' = 1]_rpcVars

\* A settled RPC stays settled as it was, whichever of the three threads moves.
THEOREM SettlementIsFinal == RpcSpec => SettlementStands
<1>1. ASSUME RecorderInv, RecorderInv', [RpcNext]_rpcVars
      PROVE  (outcomes # <<>> => outcomes' = outcomes) /\ (releases = 1 => releases' = 1)
  <2>1. /\ outcomes \in {<<>>, <<"failure">>, <<"success">>} /\ releases \in {0, 1}
        /\ outcomes' \in {<<>>, <<"failure">>, <<"success">>} /\ releases' \in {0, 1}
    BY <1>1 DEF RecorderInv, RecorderTypes
  <2>2. releases = 1 => releases' = 1
    BY <1>1, <2>1, OneSettlementPerStep
  <2>3. ASSUME outcomes # <<>>, NEW x \in {"failure", "success"}, outcomes' = Append(outcomes, x)
        PROVE  FALSE
    <3>1. Len(<<>>) = 0 /\ Len(<<"failure">>) = 1 /\ Len(<<"success">>) = 1
      OBVIOUS
    <3>2. /\ outcomes \in Seq({"failure", "success"}) /\ Len(outcomes) = 1
          /\ Len(outcomes') \in {0, 1}
      BY <2>1, <2>3, <3>1
    <3>3. Len(outcomes') = 2
      BY <2>3, <3>2, AppendProperties
    <3> QED BY <3>2, <3>3
  <2> QED BY <1>1, <2>2, <2>3, OneSettlementPerStep
<1>2. RecorderInv /\ RecorderInv' /\ [RpcNext]_rpcVars =>
        [/\ outcomes # <<>> => outcomes' = outcomes
         /\ releases = 1 => releases' = 1]_rpcVars
  BY <1>1
<1> QED BY <1>2, RecorderInvariant, PTL DEF RpcSpec, SettlementStands
=============================================================================
