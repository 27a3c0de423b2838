--------------------------- MODULE MCCircuitBreaker ---------------------------
(* CircuitBreaker on a small instance. *)
EXTENDS CircuitBreaker

\* Requests that report at response time, and streams that report at the end
\* of their body.
BothKinds == {"sync", "deferred"}
=============================================================================
