----------------------------- MODULE MCTlsLease -----------------------------
(* TlsLease on small instances. *)
EXTENDS TlsLease

\* FERRUM_TLS_STORE_INSTANCE_ID pinned to one value by mistake, or the old and
\* the new pod of an overlapping replacement.
SharedIdentity == [i \in Instances |-> "gateway"]
=============================================================================
