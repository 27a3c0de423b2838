--------------------------- MODULE GracefulDrain ---------------------------
(***************************************************************************)
(* Graceful shutdown: the counters, flags and drain waiter of              *)
(* src/overload.rs, with the accept loop and the request admission that    *)
(* use them (src/proxy/mod.rs) and the shutdown sequence of a serving mode *)
(* (src/modes/file.rs, src/modes/database.rs, src/gateway_entry.rs).       *)
(*                                                                         *)
(* Each atomic of OverloadState is accessed in a step of its own.  Every   *)
(* counter update is a read-modify-write and CancellationToken::cancel     *)
(* takes a mutex between begin_drain's stores and the waiter's loads, so   *)
(* on x86-64 the steps interleave as if memory were sequentially           *)
(* consistent.                                                             *)
(***************************************************************************)
EXTENDS Naturals, FiniteSets

CONSTANTS
  Conns,             \* connections that may exist at a time, one request each
  MaxConnections,    \* FERRUM_MAX_CONNECTIONS, 0 for no limit
  CriticalRequests   \* active requests at which requests are shed, 0 for never

ASSUME DrainAssumption ==
  /\ IsFiniteSet(Conns)
  /\ MaxConnections \in Nat
  /\ CriticalRequests \in Nat

VARIABLES
  conn,          \* where each connection's task is
  req,           \* where the request of each connection is
  activeConns,   \* active_connections
  activeReqs,    \* active_requests
  draining,
  reject,        \* reject_new_requests
  rejectConns,   \* reject_new_connections
  permit,        \* the stored permit of the Notify drain_complete
  signals,       \* shutdown signals observed, at most 2
  fired,         \* the shutdown watch channel
  main,          \* the serving mode's shutdown sequence, then wait_for_drain
  idleConns,     \* the waiter's last load of active_connections was 0
  result,        \* how the drain ended
  mon,           \* the overload monitor
  verdict,       \* its local: pressure, then should_reject_requests
  owed           \* history: guards alive when draining was published and not dropped yet

counters == <<activeConns, activeReqs>>
flags == <<draining, reject, rejectConns>>
shutdown == <<signals, fired, main, idleConns, result>>
monitor == <<mon, verdict>>
vars == <<conn, req, activeConns, activeReqs, draining, reject, rejectConns, permit,
          signals, fired, main, idleConns, result, mon, verdict, owed>>

ConnStates == {"none", "accepted", "serving", "notifying"}
ReqStates == {"none", "checked", "active", "notifying"}
WaiterPcs == {"first_conns", "first_reqs", "load_conns", "load_reqs", "parked"}
MainPcs == {"serving", "set_draining", "set_reject", "done"} \cup WaiterPcs

Init ==
  /\ conn = [c \in Conns |-> "none"]
  /\ req = [c \in Conns |-> "none"]
  /\ activeConns = 0
  /\ activeReqs = 0
  /\ draining = FALSE
  /\ reject = FALSE
  /\ rejectConns = FALSE
  /\ permit = FALSE
  /\ signals = 0
  /\ fired = FALSE
  /\ main = "serving"
  /\ idleConns = FALSE
  /\ result = "none"
  /\ mon = "sleeping"
  /\ verdict = FALSE
  /\ owed = {}

-----------------------------------------------------------------------------
(* Connections *)

\* Connections that hold a permit of the connection semaphore.
Permitted == {c \in Conns : conn[c] # "none"}

\* run_accept_loop: a connection that is neither shed nor over the limit gets a
\* task.  A connection refused here leaves no trace.
Accept(c) ==
  /\ main = "serving"
  /\ conn[c] = "none"
  /\ ~rejectConns
  /\ MaxConnections = 0 \/ Cardinality(Permitted) < MaxConnections
  /\ conn' = [conn EXCEPT ![c] = "accepted"]
  /\ UNCHANGED <<req, counters, flags, permit, shutdown, monitor, owed>>

\* The task is polled for the first time: ConnectionGuard::new.
TaskStarts(c) ==
  /\ conn[c] = "accepted"
  /\ conn' = [conn EXCEPT ![c] = "serving"]
  /\ activeConns' = activeConns + 1
  /\ UNCHANGED <<req, activeReqs, flags, permit, shutdown, monitor, owed>>

\* ConnectionGuard::drop decrements, then the last one looks at draining.
ConnectionEnds(c) ==
  /\ conn[c] = "serving"
  /\ activeConns' = activeConns - 1
  /\ conn' = [conn EXCEPT ![c] = IF activeConns = 1 THEN "notifying" ELSE "none"]
  /\ owed' = owed \ {<<"conn", c>>}
  /\ UNCHANGED <<req, activeReqs, flags, permit, shutdown, monitor>>

\* Mutant: the waiter is left to find out by itself.
ConnectionForgetsWaiter(c) ==
  /\ conn[c] = "notifying"
  /\ conn' = [conn EXCEPT ![c] = "none"]
  /\ UNCHANGED <<req, counters, flags, permit, shutdown, monitor, owed>>

ConnectionNotifies(c) ==
  /\ conn[c] = "notifying"
  /\ conn' = [conn EXCEPT ![c] = "none"]
  /\ permit' = (permit \/ draining)
  /\ UNCHANGED <<req, counters, flags, shutdown, monitor, owed>>

-----------------------------------------------------------------------------
(* Requests *)

\* Admission: a request that finds reject_new_requests set gets its 503.
RequestArrives(c) ==
  /\ conn[c] = "serving"
  /\ req[c] = "none"
  /\ ~reject
  /\ req' = [req EXCEPT ![c] = "checked"]
  /\ UNCHANGED <<conn, counters, flags, permit, shutdown, monitor, owed>>

\* RequestGuard::new
RequestCounted(c) ==
  /\ req[c] = "checked"
  /\ req' = [req EXCEPT ![c] = "active"]
  /\ activeReqs' = activeReqs + 1
  /\ UNCHANGED <<conn, activeConns, flags, permit, shutdown, monitor, owed>>

\* RequestGuard::drop.  The guard travels with the response body, and a stream's
\* task may outlive its connection.
RequestEnds(c) ==
  /\ req[c] = "active"
  /\ activeReqs' = activeReqs - 1
  /\ req' = [req EXCEPT ![c] = IF activeReqs = 1 THEN "notifying" ELSE "none"]
  /\ owed' = owed \ {<<"req", c>>}
  /\ UNCHANGED <<conn, activeConns, flags, permit, shutdown, monitor>>

\* Mutant: only the connection counter is announced to the waiter.
RequestForgetsWaiter(c) ==
  /\ req[c] = "notifying"
  /\ req' = [req EXCEPT ![c] = "none"]
  /\ UNCHANGED <<conn, counters, flags, permit, shutdown, monitor, owed>>

RequestNotifies(c) ==
  /\ req[c] = "notifying"
  /\ req' = [req EXCEPT ![c] = "none"]
  /\ permit' = (permit \/ draining)
  /\ UNCHANGED <<conn, counters, flags, shutdown, monitor, owed>>

-----------------------------------------------------------------------------
(* start_monitor *)

RequestPressure == CriticalRequests > 0 /\ activeReqs >= CriticalRequests

\* The sleep ends and the counters are read.
MonitorSamples ==
  /\ mon = "sleeping"
  /\ mon' = "sampled"
  /\ verdict' = RequestPressure
  /\ UNCHANGED <<conn, req, counters, flags, permit, shutdown, owed>>

\* Event-loop latency has been measured meanwhile; draining is read now.
MonitorEvaluates ==
  /\ mon = "sampled"
  /\ mon' = "evaluated"
  /\ verdict' = (draining \/ verdict)
  /\ UNCHANGED <<conn, req, counters, flags, permit, shutdown, owed>>

\* The verdicts are published one after the other.  Connections are shed on
\* file-descriptor, connection or latency pressure.
MonitorShedsConns ==
  /\ mon = "evaluated"
  /\ mon' = "publishing"
  /\ rejectConns' \in BOOLEAN
  /\ UNCHANGED <<conn, req, counters, draining, reject, permit, shutdown, verdict, owed>>

\* Mutant: request shedding is switched on and never off again.
MonitorOnlySets ==
  /\ mon = "publishing"
  /\ mon' = "sleeping"
  /\ reject' = (reject \/ verdict)
  /\ verdict' = FALSE
  /\ UNCHANGED <<conn, req, counters, draining, rejectConns, permit, shutdown, owed>>

\* Requests are shed on request pressure and while draining.
MonitorShedsRequests ==
  /\ mon = "publishing"
  /\ mon' = "sleeping"
  /\ reject' = verdict
  /\ verdict' = FALSE
  /\ UNCHANGED <<conn, req, counters, draining, rejectConns, permit, shutdown, owed>>

\* The shutdown channel is one branch of the select with the sleep.
MonitorStops ==
  /\ mon = "sleeping"
  /\ fired
  /\ mon' = "off"
  /\ UNCHANGED <<conn, req, counters, flags, permit, shutdown, verdict, owed>>

-----------------------------------------------------------------------------
(* Shutdown *)

\* The signal observer; the second signal escalates, later ones only log.
Signal ==
  /\ signals < 2
  /\ signals' = signals + 1
  /\ UNCHANGED <<conn, req, counters, flags, permit, fired, main, idleConns, result, monitor, owed>>

Escalated == signals = 2

\* The drain sequencer after its pre-drain window, or a listener that failed.
FireShutdown ==
  /\ ~fired
  /\ fired' = TRUE
  /\ UNCHANGED <<conn, req, counters, flags, permit, signals, main, idleConns, result, monitor, owed>>

MainGoes(from, to) ==
  /\ main = from
  /\ main' = to

\* The accept loops exit and their handles are awaited.
ListenersExit ==
  /\ fired
  /\ MainGoes("serving", "set_draining")
  /\ UNCHANGED <<conn, req, counters, flags, permit, signals, fired, idleConns, result, monitor, owed>>

LiveGuards ==
  {<<"conn", c>> : c \in {d \in Conns : conn[d] = "serving"}}
    \cup {<<"req", c>> : c \in {d \in Conns : req[d] = "active"}}

\* begin_drain, first store.
SetDraining ==
  /\ MainGoes("set_draining", "set_reject")
  /\ draining' = TRUE
  /\ owed' = LiveGuards
  /\ UNCHANGED <<conn, req, counters, reject, rejectConns, permit, signals, fired,
                 idleConns, result, monitor>>

\* begin_drain, second store.  FERRUM_SHUTDOWN_DRAIN_SECONDS = 0 skips the wait.
SetReject ==
  /\ \/ MainGoes("set_reject", "first_conns") /\ UNCHANGED result
     \/ MainGoes("set_reject", "done") /\ result' = "skipped"
  /\ reject' = TRUE
  /\ UNCHANGED <<conn, req, counters, draining, rejectConns, permit, signals, fired,
                 idleConns, monitor, owed>>

Complete ==
  /\ main' = "done"
  /\ result' = "complete"

\* wait_for_drain_with_escalation looks once before it arms the timeout.
FirstConns ==
  /\ MainGoes("first_conns", "first_reqs")
  /\ idleConns' = (activeConns = 0)
  /\ UNCHANGED <<conn, req, counters, flags, permit, signals, fired, result, monitor, owed>>

FirstReqs ==
  /\ main = "first_reqs"
  /\ \/ idleConns /\ activeReqs = 0 /\ Complete
     \/ /\ ~idleConns \/ activeReqs # 0
        /\ main' = "load_conns"
        /\ UNCHANGED result
  /\ idleConns' = FALSE
  /\ UNCHANGED <<conn, req, counters, flags, permit, signals, fired, monitor, owed>>

LoadConns ==
  /\ MainGoes("load_conns", IF activeConns = 0 THEN "load_reqs" ELSE "parked")
  /\ UNCHANGED <<conn, req, counters, flags, permit, signals, fired, idleConns, result, monitor, owed>>

\* Mutant: one idle counter is enough.
LoadReqsTrustsConns ==
  /\ main = "load_reqs"
  /\ Complete
  /\ UNCHANGED <<conn, req, counters, flags, permit, signals, fired, idleConns, monitor, owed>>

LoadReqs ==
  /\ main = "load_reqs"
  /\ \/ activeReqs = 0 /\ Complete
     \/ activeReqs # 0 /\ main' = "parked" /\ UNCHANGED result
  /\ UNCHANGED <<conn, req, counters, flags, permit, signals, fired, idleConns, monitor, owed>>

\* notified() consumes the permit and both counters are looked at again.
Wake ==
  /\ permit
  /\ MainGoes("parked", "load_conns")
  /\ permit' = FALSE
  /\ UNCHANGED <<conn, req, counters, flags, signals, fired, idleConns, result, monitor, owed>>

GiveUp(why) ==
  /\ main' = "done"
  /\ result' = why
  /\ UNCHANGED <<conn, req, counters, flags, permit, signals, fired, idleConns, monitor, owed>>

\* The select over the drain and the escalation token.
Escalate ==
  /\ Escalated
  /\ main \in {"load_conns", "parked"}
  /\ GiveUp("escalated")

DrainTimesOut ==
  /\ main = "parked"
  /\ GiveUp("timeout")

-----------------------------------------------------------------------------
Traffic(c) ==
  \/ Accept(c) \/ TaskStarts(c) \/ ConnectionEnds(c) \/ ConnectionNotifies(c)
  \/ RequestArrives(c) \/ RequestCounted(c) \/ RequestEnds(c) \/ RequestNotifies(c)

MonitorStep ==
  \/ MonitorSamples \/ MonitorEvaluates \/ MonitorShedsConns \/ MonitorShedsRequests
  \/ MonitorStops

\* What the shutdown task does by itself; the timeout is apart.
MainStep ==
  \/ ListenersExit \/ SetDraining \/ SetReject \/ FirstConns \/ FirstReqs
  \/ LoadConns \/ LoadReqs \/ Wake \/ Escalate

Next ==
  \/ \E c \in Conns : Traffic(c)
  \/ MonitorStep \/ MainStep \/ DrainTimesOut
  \/ Signal \/ FireShutdown

Spec == Init /\ [][Next]_vars

\* Tasks that can run are run.  Clients and backends owe the gateway nothing,
\* the drain timeout is long, and nobody has to send a signal.
FairSpec ==
  /\ Spec
  /\ WF_vars(MainStep)
  /\ WF_vars(MonitorStep)
  /\ \A c \in Conns :
       WF_vars(TaskStarts(c) \/ ConnectionNotifies(c) \/ RequestCounted(c) \/ RequestNotifies(c))

-----------------------------------------------------------------------------
(* Properties *)

TrafficOK ==
  /\ conn \in [Conns -> ConnStates]
  /\ req \in [Conns -> ReqStates]
  /\ activeConns \in Nat
  /\ activeReqs \in Nat
  /\ owed \subseteq {"conn", "req"} \X Conns

FlagsOK ==
  /\ draining \in BOOLEAN /\ reject \in BOOLEAN /\ rejectConns \in BOOLEAN
  /\ permit \in BOOLEAN /\ fired \in BOOLEAN /\ idleConns \in BOOLEAN /\ verdict \in BOOLEAN

TasksOK ==
  /\ signals \in 0..2
  /\ main \in MainPcs
  /\ result \in {"none", "skipped", "complete", "escalated", "timeout"}
  /\ mon \in {"sleeping", "sampled", "evaluated", "publishing", "off"}

\* The variables keep their types: the counters, unsigned in the code, never
\* wrap below zero.
TypeOK == TrafficOK /\ FlagsOK /\ TasksOK

\* A guard that took its counter to zero has yet to look at draining.
Notifying == \E c \in Conns : conn[c] = "notifying" \/ req[c] = "notifying"

\* The drain waiter never sleeps through the end of the drain: parked with both
\* counters at zero, it has a permit or the guard that will give it one.  The
\* two counters reach zero in either order, and between the waiter's two loads.
NoLostWakeup ==
  main = "parked" /\ activeConns = 0 /\ activeReqs = 0 => permit \/ Notifying

\* A drain reported complete has outlived every connection and every request
\* that was counted when draining was published, although the two counters are
\* read one after the other while new requests may still get in.
CompleteMeansDrained == result = "complete" => owed = {}

Idle == \A c \in Conns : conn[c] = "none" /\ req[c] = "none"

\* Once the last connection is gone the drain ends without its timeout.
DrainEndsPromptly == (main = "parked" /\ Idle) ~> main = "done"

\* Requests shed under pressure are admitted again when the pressure is gone.
AdmissionRecovers ==
  (reject /\ ~fired) ~> (~reject \/ RequestPressure \/ fired)

-----------------------------------------------------------------------------
(* What a comment in the source says, and an interleaving refutes. *)

\* start_monitor: "once begin_drain() has published draining=true with Release
\* ordering, the monitor must preserve that state instead of clearing
\* reject_new_requests".  The monitor may have read draining before the drain
\* began, publish afterwards, and then stop for good.
DrainRefusesRequests == main \in WaiterPcs => reject
=============================================================================
