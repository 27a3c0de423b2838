---------------------------- MODULE RequestEpoch ----------------------------
(***************************************************************************)
(* The published request epoch (src/src/request_epoch.rs), the listener    *)
(* manager that decides which listener ports a config generation may       *)
(* route (src/src/proxy/gateway_listener.rs) and the route lookup cache    *)
(* that requests pinned to different epochs share                          *)
(* (src/src/router_cache.rs).                                              *)
(*                                                                         *)
(* A configuration is its listener plan: the frontend class each port is   *)
(* declared with.  One route is considered: it has a variant scoped to     *)
(* every declared port and a port-agnostic sibling.  Epochs are replaced   *)
(* under the store's write lock, so a publication is one step; a request   *)
(* keeps the epoch it loaded.  Trust, plugins and consumers ride along     *)
(* unchanged and are left out (GatewayTrust models the trust part).        *)
(***************************************************************************)
EXTENDS Integers, FiniteSets

CONSTANTS
  Ports,       \* listener ports
  Global,      \* a process-global frontend, which owns no listener port
  Keys,        \* lookup keys: <<frontend, class>>
  Tasks,       \* requests in flight
  MaxConfigs,  \* bound on the config publications explored
  MaxBalances, \* bound on the load balancers published
  MaxFaults    \* bound on failed binds, overdue retirements and dead listeners

ASSUME PortsAssumption == IsFiniteSet(Ports) /\ "agnostic" \notin Ports /\ "none" \notin Ports
ASSUME GlobalAssumption == Global \notin Ports
ASSUME KeysAssumption ==
  Keys # {} /\ Keys \subseteq (Ports \cup {Global}) \X {"plain", "tls"}

VARIABLES
  epoch,     \* RequestEpochStore.current
  balances,  \* history: load balancers published since the first
  live,      \* the manager's listeners: the class each port is bound with
  dead,      \* ports whose accept loop ended unexpectedly
  faults,    \* history: socket faults so far
  draining,  \* ports with a retiring listener task that has not ended
  rec,       \* the reconcile pass
  cache,     \* the route lookup cache
  task       \* the requests

vars == <<epoch, balances, live, dead, faults, draining, rec, cache, task>>

Classes == {"plain", "tls"}
Plans == [Ports -> Classes \cup {"none"}]
Declared(plan) == {p \in Ports : plan[p] # "none"}

\* GatewayListenerAdmission
Pending == [pending |-> TRUE, refused |-> {}]

Decided(refused) == [pending |-> FALSE, refused |-> refused]
Allows(admission, p) == ~admission.pending /\ p \notin admission.refused

NoEntry == [rgen |-> 0, route |-> "none"]
NoEpoch == [cgen |-> 0, plan |-> [p \in Ports |-> "none"], rgen |-> 0,
            lbgen |-> 0, admission |-> Pending]
NewPass == [pc |-> "idle", expected |-> NoEpoch, refused |-> {}]
NewTask == [pc |-> "idle", key |-> CHOOSE k \in Keys : TRUE, pin |-> NoEpoch,
            route |-> "none"]

Init ==
  /\ epoch \in [cgen : {1}, plan : Plans, rgen : {1}, lbgen : {1},
                admission : {Pending}]
  /\ balances = 0
  /\ live = [p \in Ports |-> "none"]
  /\ dead = {}
  /\ faults = 0
  /\ draining = {}
  /\ rec = NewPass
  /\ cache = [k \in Keys |-> NoEntry]
  /\ task = [t \in Tasks |-> NewTask]

-----------------------------------------------------------------------------
(***************************************************************************)
(* Publications.                                                           *)
(***************************************************************************)

\* store_route_epoch_snapshot empties the lookup cache when the route
\* generation moves.
Mirror(next) ==
  cache' = IF next.rgen # epoch.rgen THEN [k \in Keys |-> NoEntry] ELSE cache

\* update_config_with_trust.  A publication that changes no route keeps the
\* route generation; one whose staging changed the load balancer replaces it
\* together with the configuration; and every publication starts with a pending
\* admission.
UpdateConfig(plan, lbChanged) ==
  /\ epoch.cgen < MaxConfigs
  /\ lbChanged => balances < MaxBalances
  /\ epoch' = [epoch EXCEPT !.cgen = @ + 1,
                            !.plan = plan,
                            !.rgen = IF plan = epoch.plan THEN @ ELSE @ + 1,
                            !.lbgen = IF lbChanged THEN @ + 1 ELSE @,
                            !.admission = Pending]
  /\ balances' = IF lbChanged THEN balances + 1 ELSE balances
  /\ Mirror(epoch')
  /\ UNCHANGED <<live, dead, faults, draining, rec, task>>

\* update_load_balancer, as service discovery calls it.
UpdateLoadBalancer ==
  /\ balances < MaxBalances
  /\ balances' = balances + 1
  /\ epoch' = [epoch EXCEPT !.lbgen = @ + 1]
  /\ Mirror(epoch')
  /\ UNCHANGED <<live, dead, faults, draining, rec, task>>

-----------------------------------------------------------------------------
(***************************************************************************)
(* The listener manager.  reconcile_lock admits one pass at a time; it is  *)
(* started by a config revision and by the 30 s retry tick.                *)
(***************************************************************************)

\* Mutant: the retry tick skips a pass when everything looks healthy.
ReconcileStartUnhealthy ==
  /\ rec.pc = "idle"
  /\ epoch.admission.pending \/ dead # {}
  /\ rec' = [NewPass EXCEPT !.pc = "sockets", !.expected = epoch]
  /\ UNCHANGED <<epoch, balances, live, dead, faults, draining, cache, task>>

\* reconcile loads the epoch its decision will be fenced with.
ReconcileStart ==
  /\ rec.pc = "idle"
  /\ rec' = [NewPass EXCEPT !.pc = "sockets", !.expected = epoch]
  /\ UNCHANGED <<epoch, balances, live, dead, faults, draining, cache, task>>

\* The listeners whose port was withdrawn or declared with another class.
Stale(listeners) ==
  {p \in Ports : listeners[p] # "none" /\ listeners[p] # rec.expected.plan[p]}

\* Mutant: a port is bound again while its old listener is retiring.
ReconcileSocketsEager ==
  /\ rec.pc = "sockets"
  /\ LET alive == [p \in Ports |-> IF p \in dead THEN "none" ELSE live[p]]
         stale == Stale(alive)
     IN  \E slow \in SUBSET stale :
           LET retiring == draining \cup slow
               kept == {p \in Ports : alive[p] # "none"} \ stale
               binding == Declared(rec.expected.plan) \ kept
           IN  \E failed \in SUBSET binding :
                 /\ faults' = faults + Cardinality(slow) + Cardinality(failed)
                 /\ faults' <= MaxFaults
                 /\ draining' = retiring
                 /\ live' = [p \in Ports |->
                               IF p \in kept \/ p \in binding \ failed
                               THEN rec.expected.plan[p] ELSE "none"]
                 /\ rec' = [rec EXCEPT !.pc = "publish",
                              !.refused = stale \cup retiring \cup failed]
  /\ dead' = {}
  /\ UNCHANGED <<epoch, balances, cache, task>>

\* Mutant: a port whose bind failed is not refused.
ReconcileSocketsOpen ==
  /\ rec.pc = "sockets"
  /\ LET alive == [p \in Ports |-> IF p \in dead THEN "none" ELSE live[p]]
         stale == Stale(alive)
     IN  \E slow \in SUBSET stale :
           LET retiring == draining \cup slow
               kept == {p \in Ports : alive[p] # "none"} \ stale
               binding == (Declared(rec.expected.plan) \ kept) \ retiring
           IN  \E failed \in SUBSET binding :
                 /\ faults' = faults + Cardinality(slow) + Cardinality(failed)
                 /\ faults' <= MaxFaults
                 /\ draining' = retiring
                 /\ live' = [p \in Ports |->
                               IF p \in kept \/ p \in binding \ failed
                               THEN rec.expected.plan[p] ELSE "none"]
                 /\ rec' = [rec EXCEPT !.pc = "publish",
                              !.refused = stale \cup retiring]
  /\ dead' = {}
  /\ UNCHANGED <<epoch, balances, cache, task>>

\* reconcile_generation.  Ended listeners are reaped, stale ones retired; a
\* port with a task that is still retiring is not bound again, and binding
\* may fail.  Every stale, retiring or unbound port is refused.
ReconcileSockets ==
  /\ rec.pc = "sockets"
  /\ LET alive == [p \in Ports |-> IF p \in dead THEN "none" ELSE live[p]]
         stale == Stale(alive)
     IN  \E slow \in SUBSET stale :
           LET retiring == draining \cup slow
               kept == {p \in Ports : alive[p] # "none"} \ stale
               binding == (Declared(rec.expected.plan) \ kept) \ retiring
           IN  \E failed \in SUBSET binding :
                 /\ faults' = faults + Cardinality(slow) + Cardinality(failed)
                 /\ faults' <= MaxFaults
                 /\ draining' = retiring
                 /\ live' = [p \in Ports |->
                               IF p \in kept \/ p \in binding \ failed
                               THEN rec.expected.plan[p] ELSE "none"]
                 /\ rec' = [rec EXCEPT !.pc = "publish",
                              !.refused = stale \cup retiring \cup failed]
  /\ dead' = {}
  /\ UNCHANGED <<epoch, balances, cache, task>>

\* Mutant: the next epoch is built from the one the pass started with.
PublishAdmissionFromExpected ==
  LET decision == Decided(rec.refused)
  IN  /\ rec.pc = "publish"
      /\ rec' = NewPass
      /\ epoch' = IF rec.expected.cgen # epoch.cgen \/ decision = epoch.admission
                  THEN epoch
                  ELSE [rec.expected EXCEPT !.admission = decision,
                                            !.rgen = epoch.rgen + 1]
      /\ Mirror(epoch')
      /\ UNCHANGED <<balances, live, dead, faults, draining, task>>

\* publish_gateway_listener_admission is fenced by the config generation: a
\* stale decision is dropped and the pass starts over with the latest epoch.
PublishAdmission ==
  LET decision == Decided(rec.refused)
  IN  /\ rec.pc = "publish"
      /\ rec' = NewPass
      /\ epoch' = IF rec.expected.cgen # epoch.cgen \/ decision = epoch.admission
                  THEN epoch
                  ELSE [epoch EXCEPT !.admission = decision, !.rgen = @ + 1]
      /\ Mirror(epoch')
      /\ UNCHANGED <<balances, live, dead, faults, draining, task>>

\* A retiring task ends.
DrainEnds(p) ==
  /\ p \in draining
  /\ draining' = draining \ {p}
  /\ UNCHANGED <<epoch, balances, live, dead, faults, rec, cache, task>>

\* An accept loop ends unexpectedly; the next pass notices.
ListenerDies(p) ==
  /\ live[p] # "none"
  /\ p \notin dead
  /\ faults < MaxFaults
  /\ faults' = faults + 1
  /\ dead' = dead \cup {p}
  /\ UNCHANGED <<epoch, balances, live, draining, rec, cache, task>>

-----------------------------------------------------------------------------
(***************************************************************************)
(* Requests: load the epoch, look the route up in the shared cache, on a   *)
(* miss search the pinned table and insert the answer.                     *)
(***************************************************************************)

\* search_route_table with port_match_priority: the scoped route of the
\* frontend's own listener, else that of the only listener of its class
\* (the Service remap), else the port-agnostic sibling.
Search(e, key) ==
  LET eligible == {p \in Ports : e.plan[p] = key[2] /\ Allows(e.admission, p)}
      single == {p \in Ports : e.plan[p] = key[2]}
  IN  IF key[1] \in eligible THEN key[1]
      ELSE IF Cardinality(single) = 1 /\ single \subseteq eligible
      THEN CHOOSE p \in single : TRUE
      ELSE "agnostic"

\* The first check of find_proxy_with_admission.
ExplicitlyRefused(e, key) == key[1] \in e.admission.refused

\* What find_proxy_in_epoch answers when nothing is cached.
RouteOf(e, key) ==
  IF ExplicitlyRefused(e, key) THEN "none" ELSE Search(e, key)

\* Mutant: a cached answer of the pinned route generation is always used.
HitUnadmitted(e, key) == cache[key].rgen = e.rgen

\* Mutant: a cached answer is used whatever its route generation.
HitAnyGeneration(e, key) ==
  /\ cache[key].rgen # 0
  /\ cache[key].route \in Ports => Allows(e.admission, cache[key].route)

\* A cached answer of the pinned route generation is used if the pinned
\* epoch admits the listener it is scoped to.
Hit(e, key) ==
  /\ cache[key].rgen = e.rgen
  /\ cache[key].route \in Ports => Allows(e.admission, cache[key].route)

Pin(t, key) ==
  /\ task[t].pc = "idle"
  /\ task' = [task EXCEPT ![t] = [pc |-> "lookup", key |-> key, pin |-> epoch,
                                  route |-> "none"]]
  /\ UNCHANGED <<epoch, balances, live, dead, faults, draining, rec, cache>>

\* The request is answered by the explicit refusal, by the cache, or goes on
\* to search its own table.
Lookup(t) ==
  LET e == task[t].pin
      key == task[t].key
  IN  /\ task[t].pc = "lookup"
      /\ task' = [task EXCEPT ![t] =
            IF ExplicitlyRefused(e, key) THEN [@ EXCEPT !.pc = "routed"]
            ELSE IF Hit(e, key)
            THEN [@ EXCEPT !.pc = "routed", !.route = cache[key].route]
            ELSE [@ EXCEPT !.pc = "searched", !.route = Search(e, key)]]
      /\ UNCHANGED <<epoch, balances, live, dead, faults, draining, rec, cache>>

Insert(t) ==
  /\ task[t].pc = "searched"
  /\ cache' = [cache EXCEPT ![task[t].key] =
                 [rgen |-> task[t].pin.rgen, route |-> task[t].route]]
  /\ task' = [task EXCEPT ![t].pc = "routed"]
  /\ UNCHANGED <<epoch, balances, live, dead, faults, draining, rec>>

\* The request is proxied and forgotten.
Finish(t) ==
  /\ task[t].pc = "routed"
  /\ task' = [task EXCEPT ![t] = NewTask]
  /\ UNCHANGED <<epoch, balances, live, dead, faults, draining, rec, cache>>

-----------------------------------------------------------------------------

Reconcile == ReconcileStart \/ ReconcileSockets \/ PublishAdmission

Next ==
  \/ \E plan \in Plans, lbChanged \in BOOLEAN : UpdateConfig(plan, lbChanged)
  \/ UpdateLoadBalancer
  \/ Reconcile
  \/ \E p \in Ports : DrainEnds(p) \/ ListenerDies(p)
  \/ \E t \in Tasks :
       (\E key \in Keys : Pin(t, key)) \/ Lookup(t) \/ Insert(t) \/ Finish(t)

SafeSpec == Init /\ [][Next]_vars

\* The supervisor's retry tick keeps passes coming, and a pass bounds every
\* wait for a socket.
Fairness == WF_vars(Reconcile)

Spec == SafeSpec /\ Fairness

-----------------------------------------------------------------------------
(***************************************************************************)
(* Properties.                                                             *)
(***************************************************************************)

Epochs == [cgen : Nat, plan : Plans, rgen : Nat, lbgen : Nat,
           admission : [pending : BOOLEAN, refused : SUBSET Ports]]
Routes == Ports \cup {"agnostic", "none"}

\* Every variable keeps its type.
TypeOK ==
  /\ epoch \in Epochs
  /\ balances \in Nat
  /\ faults \in Nat
  /\ live \in Plans
  /\ dead \subseteq Ports
  /\ draining \subseteq Ports
  /\ rec \in [pc : {"idle", "sockets", "publish"}, expected : Epochs,
              refused : SUBSET Ports]
  /\ cache \in [Keys -> [rgen : Nat, route : Routes]]
  /\ task \in [Tasks -> [pc : {"idle", "lookup", "searched", "routed"},
                         key : Keys, pin : Epochs, route : Routes]]

\* A port is never bound while a listener task it replaces may still accept:
\* two frontend classes never share a port, however long retirement takes.
ClassesNeverCoexist == \A p \in draining : live[p] = "none"

\* A decided admission admits a declared port only when the manager bound it
\* with the class the same configuration declares: neither a decision made
\* for an older config nor a failed or deferred bind opens a route.  (While a
\* pass holds an unpublished outcome the published one may lag behind it.)
AdmittedPortsAreBound ==
  rec.pc # "publish" =>
    \A p \in Declared(epoch.plan) :
      Allows(epoch.admission, p) => live[p] = epoch.plan[p]

\* A request is sent to a listener-scoped route only if the epoch it pinned
\* declares that listener with the request's class and admits it, whatever
\* other requests left in the shared cache.
ScopedRouteIsAdmitted ==
  \A t \in Tasks :
    task[t].pc = "routed" /\ task[t].route \in Ports =>
      /\ Allows(task[t].pin.admission, task[t].route)
      /\ task[t].pin.plan[task[t].route] = task[t].key[2]

\* A request whose pinned epoch is still the published one when it looks its
\* route up is answered exactly as that epoch answers.
CurrentEpochAnswersExactly ==
  [][\A t \in Tasks :
       task[t].pc = "lookup" /\ task'[t].pc # "lookup" /\ task[t].pin = epoch
         => task'[t].route = RouteOf(epoch, task[t].key)]_vars

\* No publication undoes another: generations never go back, a new plan is a
\* new config generation, a changed admission or plan is a new route
\* generation unless it only closes admission, and every load balancer that
\* service discovery or a configuration publishes is counted in the load-balancer
\* generation, through the admission decisions and configs around it.
NoLostPublication ==
  [][/\ epoch'.cgen >= epoch.cgen
     /\ epoch'.rgen >= epoch.rgen
     /\ epoch'.lbgen = 1 + balances'
     /\ epoch'.plan # epoch.plan =>
          epoch'.cgen > epoch.cgen /\ epoch'.rgen > epoch.rgen
     /\ epoch'.admission # epoch.admission /\ ~epoch'.admission.pending =>
          epoch'.rgen > epoch.rgen]_vars

Bound(p) ==
  /\ epoch.plan[p] # "none"
  /\ live[p] = epoch.plan[p]
  /\ p \notin dead \cup draining

\* A listener that stays bound as declared is eventually admitted, also when
\* the pass that bound it refused it because it replaced another class.
BoundListenerIsAdmitted ==
  \A p \in Ports : <>[]Bound(p) => <>Allows(epoch.admission, p)
=============================================================================
