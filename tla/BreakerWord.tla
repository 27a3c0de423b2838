---------------------------- MODULE BreakerWord ----------------------------
(***************************************************************************)
(* What src/circuit_breaker.rs promises of its packed word, the one        *)
(* AtomicU64 that fuses the open generation, the state and the number of   *)
(* half-open probes in flight: every change of the word is one of the      *)
(* seven compare-exchanges below.  CircuitBreaker, which models the        *)
(* threads that execute them, is shown to implement this specification.    *)
(***************************************************************************)
EXTENDS Naturals

CONSTANT ProbeLimit     \* half_open_max_requests after the clamp to 1..COUNT_MASK

CLOSED == "closed"
OPEN == "open"
HALF_OPEN == "half_open"

\* pack_full(generation, state, count)
Pack(g, s, c) == [gen |-> g, state |-> s, count |-> c]

VARIABLE packed

Words == [gen : Nat, state : {CLOSED, OPEN, HALF_OPEN}, count : 0..ProbeLimit]

Init == packed = Pack(0, CLOSED, 0)

\* CLOSED -> OPEN, or a probe failure that reopens: the generation advances
\* in the same compare-exchange, and the probe count is cleared.
Open ==
  /\ packed.state # OPEN
  /\ packed' = Pack(packed.gen + 1, OPEN, 0)

\* OPEN -> CLOSED when the failure streak was broken under the opener's feet.
RollBack ==
  /\ packed.state = OPEN
  /\ packed' = Pack(packed.gen, CLOSED, 0)

\* OPEN -> HALF_OPEN carries the first probe with it.
BeginHalfOpen ==
  /\ packed.state = OPEN
  /\ packed' = Pack(packed.gen, HALF_OPEN, 1)

AdmitProbe ==
  /\ packed.state = HALF_OPEN
  /\ packed.count < ProbeLimit
  /\ packed' = [packed EXCEPT !.count = @ + 1]

\* Only a half-open word carries probes, so a release elsewhere is a no-op.
ReturnProbe ==
  /\ packed.state = HALF_OPEN
  /\ packed.count > 0
  /\ packed' = [packed EXCEPT !.count = @ - 1]

Close ==
  /\ packed.state = HALF_OPEN
  /\ packed' = Pack(packed.gen, CLOSED, 0)

Next == Open \/ RollBack \/ BeginHalfOpen \/ AdmitProbe \/ ReturnProbe \/ Close

Spec == Init /\ [][Next]_packed
=============================================================================
