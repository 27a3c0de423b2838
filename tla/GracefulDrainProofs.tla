------------------------ MODULE GracefulDrainProofs ------------------------
(***************************************************************************)
(* Proofs about GracefulDrain, for every number of connections and every   *)
(* limit.  The inductive invariant DrainInv has three parts: the counters  *)
(* are exact, a waiter that parks can still be woken, and the guards alive *)
(* when draining was published are accounted for by what the waiter has    *)
(* read so far.                                                            *)
(***************************************************************************)
EXTENDS GracefulDrain, FiniteSetTheorems, TLAPS

\* The connections, and the requests, whose guard is alive.
Serving == {c \in Conns : conn[c] = "serving"}
Active == {c \in Conns : req[c] = "active"}

CountersAreExact ==
  /\ activeConns = Cardinality(Serving)
  /\ activeReqs = Cardinality(Active)

\* Where the shutdown task is tells what it has published.
SequenceInv ==
  /\ main \in WaiterPcs \cup {"set_reject"} => draining
  /\ result # "none" => main = "done"
  /\ idleConns => main = "first_reqs"

\* A guard that is owed is alive; connections are settled before requests.
OwedInv ==
  /\ \A g \in owed : \/ g[1] = "conn" /\ conn[g[2]] = "serving"
                     \/ g[1] = "req" /\ req[g[2]] = "active"
  /\ main = "load_reqs" \/ idleConns => \A g \in owed : g[1] = "req"

DrainInv == TypeOK /\ CountersAreExact /\ SequenceInv /\ NoLostWakeup
              /\ OwedInv /\ CompleteMeansDrained

-----------------------------------------------------------------------------
\* A counter moves by one with its set of guards, and is zero with the empty set.
LEMMA GuardSets ==
  ASSUME NEW S \in SUBSET Conns, NEW c \in Conns
  PROVE  /\ Cardinality(S) \in Nat
         /\ c \notin S => Cardinality(S \cup {c}) = Cardinality(S) + 1
         /\ c \in S => Cardinality(S \ {c}) = Cardinality(S) - 1 /\ Cardinality(S) >= 1
         /\ Cardinality(S) = 0 => S = {}
<1>1. IsFiniteSet(S)
  BY DrainAssumption, FS_Subset DEF DrainAssumption
<1>2. Cardinality(S) \in Nat
  BY <1>1, FS_CardinalityType
<1>3. c \notin S => Cardinality(S \cup {c}) = Cardinality(S) + 1
  BY <1>1, FS_AddElement
<1>4. c \in S => Cardinality(S \ {c}) = Cardinality(S) - 1
  BY <1>1, FS_RemoveElement
<1>5. Cardinality(S) = 0 <=> S = {}
  BY <1>1, FS_EmptySet
<1>6. c \in S => Cardinality(S) >= 1
  BY <1>2, <1>5
<1>. QED
  BY <1>2, <1>3, <1>4, <1>5, <1>6

LEMMA InitDrainInv == Init => DrainInv
<1>. SUFFICES ASSUME Init PROVE DrainInv
  OBVIOUS
<1>1. TypeOK
  <2>1. TrafficOK
    BY DEF Init, TrafficOK, ConnStates, ReqStates
  <2>2. FlagsOK
    BY DEF Init, FlagsOK
  <2>3. TasksOK
    BY DEF Init, TasksOK, MainPcs
  <2>. QED
    BY <2>1, <2>2, <2>3 DEF TypeOK
<1>2. Serving = {} /\ Active = {}
  BY DEF Init, Serving, Active
<1>3. CountersAreExact
  BY <1>2, FS_EmptySet DEF Init, CountersAreExact
<1>4. SequenceInv /\ NoLostWakeup /\ OwedInv /\ CompleteMeansDrained
  BY DEF Init, SequenceInv, NoLostWakeup, OwedInv, CompleteMeansDrained, WaiterPcs
<1>. QED
  BY <1>1, <1>3, <1>4 DEF DrainInv

-----------------------------------------------------------------------------
LEMMA TrafficPreserved == DrainInv /\ [Next]_vars => TrafficOK'
<1>. SUFFICES ASSUME DrainInv, [Next]_vars PROVE TrafficOK'
  OBVIOUS
<1>. USE DEF TrafficOK, ConnStates, ReqStates
<1>t. TrafficOK
  BY DEF DrainInv, TypeOK
<1>1. ASSUME NEW c \in Conns, Traffic(c) PROVE TrafficOK'
  <2>1. activeConns = Cardinality(Serving) /\ activeReqs = Cardinality(Active)
    BY DEF DrainInv, CountersAreExact
  <2>2. conn[c] = "serving" => activeConns >= 1
    BY <2>1, GuardSets DEF Serving
  <2>3. req[c] = "active" => activeReqs >= 1
    BY <2>1, GuardSets DEF Active
  <2>4. CASE Accept(c) \/ TaskStarts(c) \/ ConnectionNotifies(c)
    BY <1>t, <2>4 DEF Accept, TaskStarts, ConnectionNotifies, counters
  <2>5. CASE RequestArrives(c) \/ RequestCounted(c) \/ RequestNotifies(c)
    BY <1>t, <2>5 DEF RequestArrives, RequestCounted, RequestNotifies, counters
  <2>6. CASE ConnectionEnds(c)
    BY <1>t, <2>2, <2>6 DEF ConnectionEnds
  <2>7. CASE RequestEnds(c)
    BY <1>t, <2>3, <2>7 DEF RequestEnds
  <2>. QED
    BY <1>1, <2>4, <2>5, <2>6, <2>7 DEF Traffic
<1>2. CASE SetDraining
  <2>1. LiveGuards \subseteq {"conn", "req"} \X Conns
    BY DEF LiveGuards
  <2>. QED
    BY <1>t, <1>2, <2>1 DEF SetDraining, counters
<1>3. CASE ListenersExit \/ SetReject \/ FirstConns \/ FirstReqs \/ LoadConns \/ LoadReqs
           \/ Wake \/ Escalate \/ DrainTimesOut
  BY <1>t, <1>3 DEF ListenersExit, SetReject, FirstConns, FirstReqs, LoadConns, LoadReqs,
     Wake, Escalate, DrainTimesOut, GiveUp, counters
<1>4. CASE MonitorStep \/ Signal \/ FireShutdown \/ UNCHANGED vars
  BY <1>t, <1>4 DEF MonitorStep, MonitorSamples, MonitorEvaluates, MonitorShedsConns,
     MonitorShedsRequests, MonitorStops, Signal, FireShutdown, vars, counters
<1>. QED
  BY <1>1, <1>2, <1>3, <1>4 DEF Next, MainStep

LEMMA FlagsPreserved == DrainInv /\ [Next]_vars => FlagsOK'
<1>. SUFFICES ASSUME DrainInv, [Next]_vars PROVE FlagsOK'
  OBVIOUS
<1>. USE DEF FlagsOK
<1>t. FlagsOK
  BY DEF DrainInv, TypeOK
<1>1. ASSUME NEW c \in Conns, Traffic(c) PROVE FlagsOK'
  BY <1>t, <1>1 DEF Traffic, Accept, TaskStarts, ConnectionEnds, ConnectionNotifies,
     RequestArrives, RequestCounted, RequestEnds, RequestNotifies, flags, shutdown, monitor
<1>2. CASE MonitorStep
  BY <1>t, <1>2 DEF MonitorStep, MonitorSamples, MonitorEvaluates, MonitorShedsConns,
     MonitorShedsRequests, MonitorStops, RequestPressure, flags, shutdown
<1>3. CASE ListenersExit \/ SetDraining \/ SetReject \/ FirstReqs
  BY <1>t, <1>3 DEF ListenersExit, SetDraining, SetReject, FirstReqs, flags, monitor
<1>4. CASE FirstConns
  BY <1>t, <1>4 DEF FirstConns, flags, monitor
<1>5. CASE LoadConns \/ LoadReqs \/ Wake \/ Escalate \/ DrainTimesOut
  BY <1>t, <1>5 DEF LoadConns, LoadReqs, Wake, Escalate, DrainTimesOut, GiveUp, flags, monitor
<1>6. CASE Signal \/ FireShutdown \/ UNCHANGED vars
  BY <1>t, <1>6 DEF Signal, FireShutdown, vars, flags, monitor
<1>. QED
  BY <1>1, <1>2, <1>3, <1>4, <1>5, <1>6 DEF Next, MainStep

LEMMA TasksPreserved == DrainInv /\ [Next]_vars => TasksOK'
<1>. SUFFICES ASSUME DrainInv, [Next]_vars PROVE TasksOK'
  OBVIOUS
<1>. USE DEF TasksOK, MainPcs, WaiterPcs
<1>t. TasksOK
  BY DEF DrainInv, TypeOK
<1>1. ASSUME NEW c \in Conns, Traffic(c) PROVE TasksOK'
  BY <1>t, <1>1 DEF Traffic, Accept, TaskStarts, ConnectionEnds, ConnectionNotifies,
     RequestArrives, RequestCounted, RequestEnds, RequestNotifies, shutdown, monitor
<1>2. CASE MonitorStep
  BY <1>t, <1>2 DEF MonitorStep, MonitorSamples, MonitorEvaluates, MonitorShedsConns,
     MonitorShedsRequests, MonitorStops, shutdown
<1>3. CASE ListenersExit \/ SetDraining \/ SetReject \/ FirstConns \/ FirstReqs
  BY <1>t, <1>3 DEF ListenersExit, SetDraining, SetReject, FirstConns, FirstReqs, MainGoes,
     Complete, monitor
<1>4. CASE LoadConns \/ LoadReqs \/ Wake \/ Escalate \/ DrainTimesOut
  BY <1>t, <1>4 DEF LoadConns, LoadReqs, Wake, Escalate, DrainTimesOut, GiveUp, MainGoes,
     Complete, monitor
<1>5. CASE Signal \/ FireShutdown \/ UNCHANGED vars
  BY <1>t, <1>5 DEF Signal, FireShutdown, vars, monitor
<1>. QED
  BY <1>1, <1>2, <1>3, <1>4, <1>5 DEF Next, MainStep

\* Only Traffic touches the guards and their counters.
LEMMA GuardsAlone ==
  ASSUME MonitorStep \/ MainStep \/ DrainTimesOut \/ Signal \/ FireShutdown \/ UNCHANGED vars
  PROVE  UNCHANGED <<conn, req, activeConns, activeReqs>>
<1>1. CASE MonitorStep
  BY <1>1 DEF MonitorStep, MonitorSamples, MonitorEvaluates, MonitorShedsConns,
     MonitorShedsRequests, MonitorStops, counters
<1>2. CASE MainStep
  BY <1>2 DEF MainStep, ListenersExit, SetDraining, SetReject, FirstConns, FirstReqs,
     LoadConns, LoadReqs, Wake, Escalate, GiveUp, counters
<1>3. CASE DrainTimesOut \/ Signal \/ FireShutdown
  BY <1>3 DEF DrainTimesOut, GiveUp, Signal, FireShutdown, counters
<1>4. CASE UNCHANGED vars
  BY <1>4 DEF vars
<1>. QED
  BY <1>1, <1>2, <1>3, <1>4

LEMMA CountersPreserved == DrainInv /\ [Next]_vars => CountersAreExact'
<1>. SUFFICES ASSUME DrainInv, [Next]_vars PROVE CountersAreExact'
  OBVIOUS
<1>t. TypeOK /\ CountersAreExact
  BY DEF DrainInv
<1>1. ASSUME NEW c \in Conns, Traffic(c) PROVE CountersAreExact'
  <2>1. CASE TaskStarts(c)
    <3>1. Serving' = Serving \cup {c} /\ c \notin Serving /\ Active' = Active
      BY <1>t, <2>1 DEF TaskStarts, Serving, Active, TypeOK, TrafficOK
    <3>. QED
      BY <1>t, <2>1, <3>1, GuardSets DEF TaskStarts, CountersAreExact, Serving
  <2>2. CASE ConnectionEnds(c)
    <3>1. Serving' = Serving \ {c} /\ c \in Serving /\ Active' = Active
      BY <1>t, <2>2 DEF ConnectionEnds, Serving, Active, TypeOK, TrafficOK
    <3>. QED
      BY <1>t, <2>2, <3>1, GuardSets DEF ConnectionEnds, CountersAreExact, Serving
  <2>3. CASE RequestCounted(c)
    <3>1. Active' = Active \cup {c} /\ c \notin Active /\ Serving' = Serving
      BY <1>t, <2>3 DEF RequestCounted, Serving, Active, TypeOK, TrafficOK
    <3>. QED
      BY <1>t, <2>3, <3>1, GuardSets DEF RequestCounted, CountersAreExact, Active
  <2>4. CASE RequestEnds(c)
    <3>1. Active' = Active \ {c} /\ c \in Active /\ Serving' = Serving
      BY <1>t, <2>4 DEF RequestEnds, Serving, Active, TypeOK, TrafficOK
    <3>. QED
      BY <1>t, <2>4, <3>1, GuardSets DEF RequestEnds, CountersAreExact, Active
  <2>5. CASE Accept(c) \/ ConnectionNotifies(c) \/ RequestArrives(c) \/ RequestNotifies(c)
    <3>1. Serving' = Serving /\ Active' = Active /\ UNCHANGED counters
      BY <1>t, <2>5 DEF Accept, ConnectionNotifies, RequestArrives, RequestNotifies,
         Serving, Active, TypeOK, TrafficOK
    <3>. QED
      BY <1>t, <3>1 DEF CountersAreExact, counters
  <2>. QED
    BY <1>1, <2>1, <2>2, <2>3, <2>4, <2>5 DEF Traffic
<1>2. CASE UNCHANGED <<conn, req, activeConns, activeReqs>>
  BY <1>t, <1>2 DEF CountersAreExact, Serving, Active
<1>. QED
  BY <1>1, <1>2, GuardsAlone DEF Next

LEMMA SequencePreserved == DrainInv /\ [Next]_vars => SequenceInv'
<1>. SUFFICES ASSUME DrainInv, [Next]_vars PROVE SequenceInv'
  OBVIOUS
<1>. USE DEF SequenceInv, WaiterPcs
<1>t. SequenceInv
  BY DEF DrainInv
<1>1. ASSUME NEW c \in Conns, Traffic(c) PROVE SequenceInv'
  BY <1>t, <1>1 DEF Traffic, Accept, TaskStarts, ConnectionEnds, ConnectionNotifies,
     RequestArrives, RequestCounted, RequestEnds, RequestNotifies, flags, shutdown
<1>2. CASE MonitorStep
  BY <1>t, <1>2 DEF MonitorStep, MonitorSamples, MonitorEvaluates, MonitorShedsConns,
     MonitorShedsRequests, MonitorStops, flags, shutdown
<1>3. CASE ListenersExit \/ SetDraining \/ SetReject
  BY <1>t, <1>3 DEF ListenersExit, SetDraining, SetReject, MainGoes, flags
<1>5. CASE FirstConns \/ FirstReqs
  BY <1>t, <1>5 DEF FirstConns, FirstReqs, MainGoes, Complete, flags
<1>6. CASE LoadConns \/ LoadReqs \/ Wake \/ Escalate \/ DrainTimesOut
  BY <1>t, <1>6 DEF LoadConns, LoadReqs, Wake, Escalate, DrainTimesOut, GiveUp, MainGoes,
     Complete, flags
<1>4. CASE Signal \/ FireShutdown \/ UNCHANGED vars
  BY <1>t, <1>4 DEF Signal, FireShutdown, vars, flags
<1>. QED
  BY <1>1, <1>2, <1>3, <1>4, <1>5, <1>6 DEF Next, MainStep

-----------------------------------------------------------------------------
\* A guard that takes its counter to zero becomes a notifier, a notifier leaves
\* a permit behind, and the waiter parks only on a counter it saw above zero.
LEMMA WakeupPreserved == DrainInv /\ [Next]_vars => NoLostWakeup'
<1>. SUFFICES ASSUME DrainInv, [Next]_vars, main' = "parked",
                     activeConns' = 0, activeReqs' = 0
              PROVE  permit' \/ Notifying'
  BY DEF NoLostWakeup
<1>t. TypeOK /\ NoLostWakeup /\ SequenceInv
  BY DEF DrainInv
<1>1. ASSUME NEW c \in Conns, Traffic(c) PROVE permit' \/ Notifying'
  <2>0. main = "parked" /\ draining
    BY <1>t, <1>1 DEF Traffic, Accept, TaskStarts, ConnectionEnds, ConnectionNotifies,
       RequestArrives, RequestCounted, RequestEnds, RequestNotifies, shutdown,
       SequenceInv, WaiterPcs
  <2>1. CASE Accept(c) \/ RequestArrives(c)
    BY <1>t, <2>0, <2>1 DEF Accept, RequestArrives, counters, NoLostWakeup, Notifying, TypeOK, TrafficOK
  <2>2. CASE TaskStarts(c) \/ RequestCounted(c)
    BY <1>t, <2>2 DEF TaskStarts, RequestCounted, TypeOK, TrafficOK
  <2>3. CASE ConnectionEnds(c)
    BY <1>t, <2>3 DEF ConnectionEnds, Notifying, TypeOK, TrafficOK
  <2>4. CASE RequestEnds(c)
    BY <1>t, <2>4 DEF RequestEnds, Notifying, TypeOK, TrafficOK
  <2>5. CASE ConnectionNotifies(c) \/ RequestNotifies(c)
    BY <2>0, <2>5 DEF ConnectionNotifies, RequestNotifies
  <2>. QED
    BY <1>1, <2>1, <2>2, <2>3, <2>4, <2>5 DEF Traffic
<1>2. CASE LoadConns \/ LoadReqs
  BY <1>t, <1>2 DEF LoadConns, LoadReqs, MainGoes, Complete, counters, TypeOK, TrafficOK
<1>3. CASE MonitorStep \/ Signal \/ FireShutdown \/ UNCHANGED vars
  <2>1. UNCHANGED <<main, permit>>
    BY <1>3 DEF MonitorStep, MonitorSamples, MonitorEvaluates, MonitorShedsConns,
     MonitorShedsRequests, MonitorStops,
       Signal, FireShutdown, vars, shutdown
  <2>. QED
    BY <1>t, <1>3, <2>1, GuardsAlone DEF NoLostWakeup, Notifying
<1>4. CASE ListenersExit \/ SetDraining \/ SetReject \/ FirstConns \/ FirstReqs \/ Wake
           \/ Escalate \/ DrainTimesOut
  BY <1>4 DEF ListenersExit, SetDraining, SetReject, FirstConns, FirstReqs, Wake,
     Escalate, DrainTimesOut, GiveUp, MainGoes, Complete
<1>. QED
  BY <1>1, <1>2, <1>3, <1>4 DEF Next, MainStep

-----------------------------------------------------------------------------
\* An idle counter means that none of its guards is alive.
LEMMA IdleCounters ==
  ASSUME TypeOK, CountersAreExact, OwedInv
  PROVE  /\ activeConns = 0 => \A g \in owed : g[1] = "req"
         /\ activeReqs = 0 => \A g \in owed : g[1] = "conn"
<1>1. activeConns = 0 => \A c \in Conns : conn[c] # "serving"
  BY GuardSets DEF CountersAreExact, Serving
<1>2. activeReqs = 0 => \A c \in Conns : req[c] # "active"
  BY GuardSets DEF CountersAreExact, Active
<1>3. \A g \in owed : g[1] \in {"conn", "req"} /\ g[2] \in Conns
  BY DEF TypeOK, TrafficOK
<1>. QED
  BY <1>1, <1>2, <1>3 DEF OwedInv

LEMMA OwedPreserved == DrainInv /\ [Next]_vars => OwedInv' /\ CompleteMeansDrained'
<1>. SUFFICES ASSUME DrainInv, [Next]_vars PROVE OwedInv' /\ CompleteMeansDrained'
  OBVIOUS
<1>t. TrafficOK /\ OwedInv /\ CompleteMeansDrained /\ SequenceInv
  BY DEF DrainInv, TypeOK
<1>z. /\ activeConns = 0 => \A g \in owed : g[1] = "req"
      /\ activeReqs = 0 => \A g \in owed : g[1] = "conn"
  BY IdleCounters DEF DrainInv
<1>1. ASSUME NEW c \in Conns, Traffic(c) PROVE OwedInv' /\ CompleteMeansDrained'
  <2>1. UNCHANGED <<main, idleConns, result>> /\ owed' \subseteq owed
    BY <1>1 DEF Traffic, Accept, TaskStarts, ConnectionEnds, ConnectionNotifies,
       RequestArrives, RequestCounted, RequestEnds, RequestNotifies, shutdown
  <2>2. ASSUME NEW g \in owed'
        PROVE  \/ g[1] = "conn" /\ conn'[g[2]] = "serving"
               \/ g[1] = "req" /\ req'[g[2]] = "active"
    <3>1. g \in owed /\ g \in {"conn", "req"} \X Conns
      BY <1>t, <2>1, <2>2 DEF TrafficOK
    <3>2. g = <<g[1], g[2]>> /\ g[2] \in Conns
      BY <3>1
    <3>3. \/ g[1] = "conn" /\ conn[g[2]] = "serving"
          \/ g[1] = "req" /\ req[g[2]] = "active"
      BY <1>t, <3>1 DEF OwedInv
    <3>4. CASE ConnectionEnds(c)
      BY <1>t, <2>2, <3>2, <3>3, <3>4 DEF ConnectionEnds, TrafficOK
    <3>5. CASE RequestEnds(c)
      BY <1>t, <2>2, <3>2, <3>3, <3>5 DEF RequestEnds, TrafficOK
    <3>6. CASE Accept(c) \/ TaskStarts(c) \/ ConnectionNotifies(c)
      BY <1>t, <3>2, <3>3, <3>6 DEF Accept, TaskStarts, ConnectionNotifies, TrafficOK
    <3>7. CASE RequestArrives(c) \/ RequestCounted(c) \/ RequestNotifies(c)
      BY <1>t, <3>2, <3>3, <3>7 DEF RequestArrives, RequestCounted, RequestNotifies, TrafficOK
    <3>. QED
      BY <1>1, <3>4, <3>5, <3>6, <3>7 DEF Traffic
  <2>3. CompleteMeansDrained'
    BY <1>t, <2>1 DEF CompleteMeansDrained
  <2>4. main' = "load_reqs" \/ idleConns' => \A g \in owed' : g[1] = "req"
    BY <1>t, <2>1 DEF OwedInv
  <2>. QED
    BY <2>2, <2>3, <2>4 DEF OwedInv
<1>2. CASE SetDraining
  <2>1. owed' = LiveGuards /\ main' # "load_reqs" /\ UNCHANGED <<conn, req>>
    BY <1>2 DEF SetDraining, MainGoes
  <2>2. ~idleConns' /\ result' = "none"
    BY <1>t, <1>2 DEF SetDraining, MainGoes, SequenceInv
  <2>. QED
    BY <2>1, <2>2 DEF OwedInv, CompleteMeansDrained, LiveGuards
<1>3. CASE FirstReqs
  <2>1. UNCHANGED <<conn, req, owed>> /\ ~idleConns' /\ main' # "load_reqs"
    BY <1>3 DEF FirstReqs, Complete
  <2>2. result' = "complete" => owed' = {}
    BY <1>t, <1>z, <1>3, <2>1 DEF FirstReqs, Complete, OwedInv, CompleteMeansDrained
  <2>. QED
    BY <1>t, <2>1, <2>2 DEF OwedInv, CompleteMeansDrained
<1>4. CASE FirstConns
  <2>1. /\ UNCHANGED <<conn, req, owed, result>>
        /\ idleConns' => activeConns = 0
        /\ main' # "load_reqs"
    BY <1>4 DEF FirstConns, MainGoes
  <2>. QED
    BY <1>t, <1>z, <2>1 DEF OwedInv, CompleteMeansDrained
<1>5. CASE LoadConns
  <2>1. /\ UNCHANGED <<conn, req, owed, result, idleConns>>
        /\ main' = "load_reqs" => activeConns = 0
    BY <1>5 DEF LoadConns, MainGoes
  <2>. QED
    BY <1>t, <1>z, <2>1 DEF OwedInv, CompleteMeansDrained
<1>6. CASE LoadReqs
  <2>1. /\ UNCHANGED <<conn, req, owed, idleConns>>
        /\ main = "load_reqs" /\ main' # "load_reqs"
        /\ result' = "complete" => activeReqs = 0 \/ result = "complete"
    BY <1>6 DEF LoadReqs, Complete
  <2>. QED
    BY <1>t, <1>z, <2>1 DEF OwedInv, CompleteMeansDrained
<1>7. CASE ListenersExit \/ SetReject \/ Wake \/ Escalate \/ DrainTimesOut
  <2>1. /\ UNCHANGED <<conn, req, owed, idleConns>>
        /\ main' # "load_reqs"
        /\ result' = "complete" => result = "complete"
    BY <1>7 DEF ListenersExit, SetReject, Wake, Escalate, DrainTimesOut, GiveUp, MainGoes
  <2>. QED
    BY <1>t, <2>1 DEF OwedInv, CompleteMeansDrained
<1>8. CASE MonitorStep \/ Signal \/ FireShutdown \/ UNCHANGED vars
  <2>1. UNCHANGED <<conn, req, owed, idleConns, main, result>>
    BY <1>8 DEF MonitorStep, MonitorSamples, MonitorEvaluates, MonitorShedsConns,
     MonitorShedsRequests, MonitorStops, Signal, FireShutdown, vars, shutdown
  <2>. QED
    BY <1>t, <2>1 DEF OwedInv, CompleteMeansDrained
<1>. QED
  BY <1>1, <1>2, <1>3, <1>4, <1>5, <1>6, <1>7, <1>8 DEF Next, MainStep

-----------------------------------------------------------------------------
LEMMA DrainInvariant == Spec => []DrainInv
<1>1. Init => DrainInv
  BY InitDrainInv
<1>2. DrainInv /\ [Next]_vars => DrainInv'
  BY TrafficPreserved, FlagsPreserved, TasksPreserved, CountersPreserved,
     SequencePreserved, WakeupPreserved, OwedPreserved DEF DrainInv, TypeOK
<1>. QED
  BY <1>1, <1>2, PTL DEF Spec

\* The counters of OverloadState never wrap and every task stays on its path.
THEOREM DrainTypeCorrect == Spec => []TypeOK
BY DrainInvariant, PTL DEF DrainInv

\* wait_for_drain_with_escalation is never parked over two idle counters
\* without a notification stored or about to be, however many guards are
\* dropped in whatever order.
THEOREM WaiterIsWoken == Spec => []NoLostWakeup
BY DrainInvariant, PTL DEF DrainInv

\* A drain reported complete leaves no guard behind that begin_drain met.
THEOREM CompletionIsTrue == Spec => []CompleteMeansDrained
BY DrainInvariant, PTL DEF DrainInv

-----------------------------------------------------------------------------
\* The drain refuses requests, and the monitor carries no verdict from before it:
\* if it has evaluated, it has read draining (or found pressure).
Refusing == draining /\ reject /\ (mon \in {"evaluated", "publishing"} => verdict)

\* No step of the monitor, of the shutdown task or of the traffic ends it.
LEMMA RefusingStep == DrainInv /\ Refusing /\ [Next]_vars => Refusing'
<1>. SUFFICES ASSUME DrainInv, Refusing, [Next]_vars PROVE Refusing'
  OBVIOUS
<1>. USE DEF Refusing
<1>1. ASSUME NEW c \in Conns, Traffic(c) PROVE Refusing'
  BY <1>1 DEF Traffic, Accept, TaskStarts, ConnectionEnds, ConnectionNotifies,
     RequestArrives, RequestCounted, RequestEnds, RequestNotifies, flags, monitor
<1>2. CASE MonitorStep
  BY <1>2 DEF MonitorStep, MonitorSamples, MonitorEvaluates, MonitorShedsConns,
     MonitorShedsRequests, MonitorStops, flags
<1>3. CASE ListenersExit \/ SetDraining \/ SetReject \/ FirstConns \/ FirstReqs
  BY <1>3 DEF ListenersExit, SetDraining, SetReject, FirstConns, FirstReqs, flags, monitor
<1>4. CASE LoadConns \/ LoadReqs \/ Wake \/ Escalate \/ DrainTimesOut
  BY <1>4 DEF LoadConns, LoadReqs, Wake, Escalate, DrainTimesOut, GiveUp, flags, monitor
<1>5. CASE Signal \/ FireShutdown \/ UNCHANGED vars
  BY <1>5 DEF Signal, FireShutdown, vars, flags, monitor
<1>. QED
  BY <1>1, <1>2, <1>3, <1>4, <1>5 DEF Next, MainStep

\* What is true of the comment on start_monitor ("the monitor must preserve that
\* state instead of clearing reject_new_requests"): from the first state on in
\* which the drain refuses requests and no verdict is left over from before
\* draining was published, requests are refused for good.  The left-over verdict
\* of one monitor iteration is the only way to lose the refusal.
THEOREM RefusalIsPermanent == Spec => [](Refusing => []reject)
<1>1. Refusing => reject
  BY DEF Refusing
<1>. QED
  BY <1>1, RefusingStep, DrainInvariant, PTL DEF Spec
=============================================================================
