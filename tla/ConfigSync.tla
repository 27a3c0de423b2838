------------------------------ MODULE ConfigSync ------------------------------
(***************************************************************************)
(* Configuration synchronisation: control planes that poll one database,   *)
(* and a data plane that subscribes to one of them at a time               *)
(* (src/src/modes/control_plane.rs, src/src/grpc/cp_server.rs,             *)
(* src/src/grpc/dp_client.rs, src/src/grpc/configsync_lifecycle.rs).       *)
(*                                                                         *)
(* A control plane stamps a poll before it reads, so the stamp of a        *)
(* configuration is not later than its content.  It publishes a change by  *)
(* storing the new configuration and broadcasting a delta or a snapshot in *)
(* one critical section.  A subscription is a bounded broadcast receiver,  *)
(* registered before the initial snapshot is loaded; a receiver that falls *)
(* behind is sent the current snapshot and then what its ring retained.  A *)
(* message that cannot be sent (it is too large, or its trust material is  *)
(* unusable) is dropped after the configuration was stored, without a lag  *)
(* or a cut that would tell the subscriber.                                *)
(*                                                                         *)
(* The data plane accepts what its control plane sends, subject to a       *)
(* watermark of stamps that fences older configurations of other control   *)
(* planes, and moves on to the next control plane when a stream fails.     *)
(*                                                                         *)
(* The database is a history of writes; configuration v is its first v     *)
(* writes.  The gateway trust side channel is part of the content.         *)
(***************************************************************************)
EXTENDS Integers, Sequences, FiniteSets

CONSTANTS
    CPCount,     \* control planes 1 .. CPCount; 1 is the primary
    Keys,        \* resources
    KeyOf,       \* KeyOf[w]: the resource written by write w
    ValueOf,     \* ValueOf[w]: the value it gets
    MaxWrites,   \* bound: writes to the database
    Refusals,    \* sets of payloads, one of which is what control planes refuse to send
    Invalid,     \* configurations that fail the data plane's validation
    Bad,         \* configurations it validates and cannot apply
    Skew,        \* Skew[c]: how far the clock of control plane c runs ahead
    Tolerance,   \* CONFIGSYNC_MAX_FUTURE_SKEW_SECS
    IdleClock,   \* bound: polls that start without a change to read start before it
    QueueCap,    \* capacity of a broadcast ring
    MaxFaults,   \* bound: control-plane crashes and streams cut by the transport
    Mortal       \* control planes that may stay down

CPs == 1..CPCount

\* What a message carries: configuration ver, or what was written after from.
Payloads == [full : BOOLEAN, from : 0..MaxWrites, ver : 0..MaxWrites]

ASSUME SyncAssumption ==
    /\ CPCount \in Nat \ {0}
    /\ MaxWrites \in Nat
    /\ Keys # {} /\ KeyOf \in [1..MaxWrites -> Keys]
    /\ DOMAIN ValueOf = 1..MaxWrites /\ \A w \in 1..MaxWrites : ValueOf[w] # "unset"
    /\ Refusals \subseteq SUBSET Payloads
    /\ Skew \in [CPs -> Nat]
    /\ Tolerance \in Nat /\ IdleClock \in Nat
    /\ QueueCap \in Nat \ {0}
    /\ MaxFaults \in Nat
    /\ Mortal \subseteq CPs

VARIABLES
    db,         \* writes committed to the database
    refused,    \* the payloads that cannot be sent, which does not change
    clock,      \* the wall clock, which advances with every poll
    history,    \* history[i]: db when the poll that stamped i started
    ver,        \* ver[c]: the configuration a control plane serves, -1: none yet
    loadedAt,   \* loadedAt[c]: its stamp
    pollAt,     \* pollAt[c]: the stamp of a poll in flight, or 0
    pc,         \* the data plane's stream: idle, registered or open
    cp,         \* the control plane it is at (current_cp_index)
    queue,      \* what its broadcast receiver retains
    lagged,     \* whether the receiver has lost messages
    wire,       \* the message on the way to the data plane, if any
    base,       \* SubscriptionApplyState.base_applied
    refusedAt,  \* history: the stamp of the subscription's last refused publication, or 0
    gap,        \* history: "missed" from a refused publication on, "mixed" once a delta
                \*   has been applied since; "none" after a snapshot that is not older
    cfg,        \* the applied configuration
    watermark,  \* AppliedSnapshotAuthority.version, 0: no authority
    source,     \* AppliedSnapshotAuthority.source_cp_url
    diverged,   \* ConfigSyncDivergenceMetrics.diverged
    faults

database == <<db, history, refused>>
control == <<clock, ver, loadedAt, pollAt>>
refusals == <<refusedAt, gap>>
stream == <<pc, cp, queue, lagged, wire, base, refusals>>
applied == <<cfg, watermark, source, diverged>>
vars == <<database, control, stream, applied, faults>>

-----------------------------------------------------------------------------
(* Configurations and messages.                                            *)

\* No value: the resource does not exist.
Absent == "absent"

\* The data plane has applied nothing yet.
Nothing == [k \in Keys |-> "unset"]

LastWrite(k, v) ==
    CHOOSE w \in 1..v : KeyOf[w] = k /\ \A x \in (w + 1)..v : KeyOf[x] # k

Written(k, u, v) == \E w \in (u + 1)..v : KeyOf[w] = k

\* Configuration v.
Content(v) ==
    [k \in Keys |-> IF Written(k, 0, v) THEN ValueOf[LastWrite(k, v)] ELSE Absent]

\* apply_incremental_to_config_snapshot: removals and upserts of the resources
\* written after configuration u up to configuration v.
ApplyDelta(c, u, v) == [k \in Keys |-> IF Written(k, u, v) THEN Content(v)[k] ELSE c[k]]

FailsValidation(c) == c \in Invalid

FailsApply(c) == c \in Bad

Full(v, at) == [full |-> TRUE, from |-> 0, ver |-> v, stamp |-> at]

Delta(u, v, at) == [full |-> FALSE, from |-> u, ver |-> v, stamp |-> at]

NoMessage == [full |-> FALSE, from |-> -1, ver |-> -1, stamp |-> 0]

\* check_message_size, config_json_for_dp and filter_config_and_trust_for_scope
\* fail; what they look at is the payload.
CannotSend(m) == [full |-> m.full, from |-> m.from, ver |-> m.ver] \in refused

Up(c) == ver[c] >= 0

Messages == [full : BOOLEAN, from : 0..MaxWrites, ver : 0..MaxWrites, stamp : Nat \ {0}]

\* One type invariant: types, a ring within its capacity, and no messages or
\* refusals on a stream that is not open.
TypeOK ==
    /\ db \in 0..MaxWrites /\ refused \in Refusals
    /\ clock \in Nat
    /\ history \in Seq(0..db) /\ Len(history) = clock
    /\ ver \in [CPs -> -1..db]
    /\ loadedAt \in [CPs -> Nat] /\ pollAt \in [CPs -> Nat]
    /\ pc \in {"idle", "registered", "open"}
    /\ cp \in CPs
    /\ queue \in Seq(Messages) /\ Len(queue) <= QueueCap
    /\ lagged \in BOOLEAN /\ base \in BOOLEAN
    /\ wire \in Messages \cup {NoMessage}
    /\ refusedAt \in Nat /\ gap \in {"none", "missed", "mixed"}
    /\ pc = "idle" => queue = <<>> /\ ~lagged /\ refusedAt = 0 /\ gap # "missed"
    /\ pc # "open" => wire = NoMessage /\ ~base
    /\ base => cfg # Nothing
    /\ cfg = Nothing <=> watermark = 0
    /\ watermark <= clock + Tolerance
    /\ source \in CPs
    /\ diverged \in BOOLEAN
    /\ faults \in 0..MaxFaults

Init ==
    /\ refused \in Refusals
    /\ db = 0 /\ clock = 0 /\ history = <<>>
    /\ ver = [c \in CPs |-> -1]
    /\ loadedAt = [c \in CPs |-> 0]
    /\ pollAt = [c \in CPs |-> 0]
    /\ pc = "idle" /\ cp = 1
    /\ queue = <<>> /\ lagged = FALSE /\ wire = NoMessage /\ base = FALSE
    /\ refusedAt = 0 /\ gap = "none"
    /\ cfg = Nothing /\ watermark = 0 /\ source = 1 /\ diverged = FALSE
    /\ faults = 0

-----------------------------------------------------------------------------
(* The control plane.                                                      *)

\* An administrator changes a resource.
Write ==
    /\ db < MaxWrites
    /\ db' = db + 1
    /\ UNCHANGED <<history, refused, control, stream, applied, faults>>

\* A poll takes its timestamp before it reads (poll_timestamp, loaded_at).
PollStart(c) ==
    /\ pollAt[c] = 0
    /\ ver[c] < db \/ clock < IdleClock
    /\ clock' = clock + 1
    /\ history' = Append(history, db)
    /\ pollAt' = [pollAt EXCEPT ![c] = clock' + Skew[c]]
    /\ UNCHANGED <<db, refused, ver, loadedAt, stream, applied, faults>>

\* send_bounded_update: a message that cannot be sent is dropped, and its
\* subscribers are not told.  A tokio broadcast ring drops its oldest message
\* when it is full.
Broadcast(c, m) ==
    \/ /\ pc = "idle" \/ cp # c
       /\ UNCHANGED <<queue, lagged, refusals>>
    \/ /\ pc # "idle" /\ cp = c
       /\ CannotSend(m)
       /\ refusedAt' = m.stamp
       /\ gap' = IF gap = "none" THEN "missed" ELSE gap
       /\ UNCHANGED <<queue, lagged>>
    \/ /\ pc # "idle" /\ cp = c
       /\ ~CannotSend(m)
       /\ IF Len(queue) = QueueCap
            THEN queue' = Append(Tail(queue), m) /\ lagged' = TRUE
            ELSE queue' = Append(queue, m) /\ UNCHANGED lagged
       /\ UNCHANGED refusals

\* publish_cp_full_reload: the configuration that was read is stored and
\* broadcast as a snapshot.
PublishFullReload(c) ==
    /\ ver' = [ver EXCEPT ![c] = db]
    /\ loadedAt' = [loadedAt EXCEPT ![c] = pollAt[c]]
    /\ Broadcast(c, Full(db, pollAt[c]))

\* publish_cp_incremental: the changes are stored and broadcast as a delta.
PublishIncremental(c) ==
    /\ ver[c] \in 0..(db - 1)
    /\ ver' = [ver EXCEPT ![c] = db]
    /\ loadedAt' = [loadedAt EXCEPT ![c] = pollAt[c]]
    /\ Broadcast(c, Delta(ver[c], db, pollAt[c]))

\* The poll reads the database.  An incremental poll that finds nothing leaves
\* the configuration and its stamp alone; otherwise the new configuration is
\* stored and broadcast within the publication gate, as a delta or, for a
\* forced reload, as a snapshot.  The load that starts a control plane up is a
\* full one with nobody to send it to.
PollRead(c) ==
    /\ pollAt[c] # 0
    /\ pollAt' = [pollAt EXCEPT ![c] = 0]
    /\ \/ ver[c] = db /\ UNCHANGED <<ver, loadedAt, queue, lagged, refusals>>
       \/ PublishFullReload(c)
       \/ PublishIncremental(c)
    /\ UNCHANGED <<database, clock, pc, cp, wire, base, applied, faults>>

\* Mutant: the base outlives the stream that delivered it.
EndStreamKeepsBase ==
    /\ pc' = "idle"
    /\ queue' = <<>> /\ lagged' = FALSE
    /\ wire' = NoMessage
    /\ UNCHANGED base
    /\ refusedAt' = 0
    /\ gap' = IF gap = "missed" THEN "none" ELSE gap

\* The data plane's stream is gone: its receiver and what was on the wire.
EndStream ==
    /\ pc' = "idle"
    /\ queue' = <<>> /\ lagged' = FALSE
    /\ wire' = NoMessage
    /\ base' = FALSE
    /\ refusedAt' = 0
    /\ gap' = IF gap = "missed" THEN "none" ELSE gap

\* advance_multi_cp_backoff: a failure moves on to the next control plane.
Rotate == cp' = (cp % CPCount) + 1

\* A cut stream that had delivered configuration sends the data plane back to
\* the primary, one that had not moves it on.
AfterCut == IF base THEN cp' = 1 ELSE Rotate

\* A control plane crashes; its configuration is loaded again at startup.
Crash(c) ==
    /\ faults < MaxFaults
    /\ Up(c)
    /\ faults' = faults + 1
    /\ ver' = [ver EXCEPT ![c] = -1]
    /\ loadedAt' = [loadedAt EXCEPT ![c] = 0]
    /\ pollAt' = [pollAt EXCEPT ![c] = 0]
    /\ IF pc # "idle" /\ cp = c THEN EndStream /\ AfterCut ELSE UNCHANGED stream
    /\ UNCHANGED <<database, clock, applied>>

-----------------------------------------------------------------------------
(* The subscription.                                                       *)

\* connect_and_subscribe reaches a control plane that is not serving.
ConnectFails ==
    /\ pc = "idle"
    /\ ~Up(cp)
    /\ Rotate
    /\ UNCHANGED <<database, control, pc, queue, lagged, wire, base, refusals, applied, faults>>

\* subscribe, first half: the broadcast receiver is registered.
Connect ==
    /\ pc = "idle"
    /\ Up(cp)
    /\ pc' = "registered"
    /\ UNCHANGED <<database, control, cp, queue, lagged, wire, base, refusals, applied, faults>>

\* subscribe, second half: the initial snapshot is loaded and sent, or the call
\* fails because it cannot be sent.
Snapshot ==
    /\ pc = "registered"
    /\ IF CannotSend(Full(ver[cp], loadedAt[cp]))
         THEN EndStream /\ Rotate
         ELSE /\ pc' = "open"
              /\ wire' = Full(ver[cp], loadedAt[cp])
              /\ UNCHANGED <<cp, queue, lagged, base, refusals>>
    /\ UNCHANGED <<database, control, applied, faults>>

\* The oldest retained message goes out.
SendNext ==
    /\ queue # <<>>
    /\ wire' = Head(queue)
    /\ queue' = Tail(queue)
    /\ UNCHANGED <<pc, cp, base, refusals>>

\* Mutant: a receiver that has fallen behind goes on with what is retained.
ForwardSkipsLag ==
    /\ pc = "open"
    /\ wire = NoMessage
    /\ SendNext /\ lagged' = FALSE
    /\ UNCHANGED <<database, control, applied, faults>>

\* Mutant: a receiver that has fallen behind is registered again and waits.
ForwardResubscribes ==
    /\ pc = "open"
    /\ wire = NoMessage
    /\ \/ /\ lagged
          /\ queue' = <<>> /\ lagged' = FALSE
          /\ UNCHANGED <<pc, cp, wire, base, refusals>>
       \/ ~lagged /\ SendNext /\ UNCHANGED lagged
    /\ UNCHANGED <<database, control, applied, faults>>

\* The response stream is polled.  A receiver that has fallen behind yields the
\* current snapshot first and keeps what its ring retained; a snapshot that
\* cannot be sent ends the stream.
Forward ==
    /\ pc = "open"
    /\ wire = NoMessage
    /\ \/ /\ lagged /\ CannotSend(Full(ver[cp], loadedAt[cp]))
          /\ EndStream /\ AfterCut
       \/ /\ lagged /\ ~CannotSend(Full(ver[cp], loadedAt[cp]))
          /\ wire' = Full(ver[cp], loadedAt[cp])
          /\ lagged' = FALSE
          /\ UNCHANGED <<pc, cp, queue, base, refusals>>
       \/ ~lagged /\ SendNext /\ UNCHANGED lagged
    /\ UNCHANGED <<database, control, applied, faults>>

\* The transport cuts the stream, or the server ends it.
StreamDrop ==
    /\ faults < MaxFaults
    /\ pc # "idle"
    /\ faults' = faults + 1
    /\ EndStream
    /\ AfterCut
    /\ UNCHANGED <<database, control, applied>>

\* The primary-retry timer of a data plane that is served by a fallback.
PrimaryRetry ==
    /\ pc = "open"
    /\ cp # 1
    /\ cfg # Nothing
    /\ EndStream
    /\ cp' = 1
    /\ UNCHANGED <<database, control, applied, faults>>

-----------------------------------------------------------------------------
(* The data plane.                                                         *)

Later(a, b) == IF a > b THEN a ELSE b

\* evaluate_snapshot_clock_skew.
FutureStamp(m) == m.stamp > clock + Tolerance

\* Mutant: a fallback's snapshot is never too old.
FencedNever(m) == FALSE

\* evaluate_full_snapshot_authority: an older snapshot of another control plane
\* is refused unless its payload is what is applied.
Fenced(m) ==
    /\ watermark # 0
    /\ source # cp
    /\ m.stamp < watermark
    /\ Content(m.ver) # cfg

\* Mutant: the same control plane is asked again after every refusal.
FailOverInPlace == EndStream /\ UNCHANGED cp

\* The next attempt goes to another control plane.
FailOver == EndStream /\ Rotate

\* react_to_unusable_snapshot: ask the same control plane again if this stream
\* had a base, another one if it had none.
Unserved == EndStream /\ (IF base THEN UNCHANGED cp ELSE Rotate)

\* A FULL_SNAPSHOT: validated, its stamp compared with the wall clock and the
\* watermark, then applied.  One that fails to apply raises divergence, one
\* that is refused before does not; an accepted one clears it.
ReceiveFull ==
    /\ pc = "open" /\ wire # NoMessage /\ wire.full
    /\ IF FailsValidation(Content(wire.ver))
         THEN Unserved /\ UNCHANGED applied
       ELSE IF FutureStamp(wire) \/ Fenced(wire)
         THEN FailOver /\ UNCHANGED applied
       ELSE IF FailsApply(Content(wire.ver))
         THEN Unserved /\ diverged' = TRUE /\ UNCHANGED <<cfg, watermark, source>>
       ELSE /\ cfg' = Content(wire.ver)
            /\ watermark' = Later(watermark, wire.stamp)
            /\ source' = cp
            /\ diverged' = FALSE
            /\ base' = TRUE
            /\ wire' = NoMessage
            /\ gap' = IF wire.stamp < refusedAt THEN "missed" ELSE "none"
            /\ UNCHANGED <<pc, cp, queue, lagged, refusedAt>>
    /\ UNCHANGED <<database, control, faults>>

\* A DELTA: refused without a base, from the future or behind the watermark;
\* applied to the configuration in force otherwise.  What is refused or fails
\* to apply ends the stream.
ReceiveDelta ==
    /\ pc = "open" /\ wire # NoMessage /\ ~wire.full
    /\ IF ~base
         THEN FailOver /\ UNCHANGED applied
       ELSE IF FutureStamp(wire) \/ wire.stamp < watermark
         THEN FailOver /\ diverged' = TRUE /\ UNCHANGED <<cfg, watermark, source>>
       ELSE LET next == ApplyDelta(cfg, wire.from, wire.ver) IN
            IF FailsValidation(next) \/ FailsApply(next)
              THEN /\ EndStream /\ UNCHANGED cp
                   /\ diverged' = TRUE
                   /\ UNCHANGED <<cfg, watermark, source>>
              ELSE /\ cfg' = next
                   /\ watermark' = Later(watermark, wire.stamp)
                   /\ source' = cp
                   /\ wire' = NoMessage
                   /\ gap' = IF gap = "none" THEN "none" ELSE "mixed"
                   /\ UNCHANGED <<pc, cp, queue, lagged, base, refusedAt, diverged>>
    /\ UNCHANGED <<database, control, faults>>

Next ==
    \/ Write
    \/ \E c \in CPs : PollStart(c) \/ PollRead(c) \/ Crash(c)
    \/ ConnectFails \/ Connect \/ Snapshot \/ Forward
    \/ ReceiveFull \/ ReceiveDelta
    \/ StreamDrop \/ PrimaryRetry

SafeSpec == Init /\ [][Next]_vars

\* The data plane's own steps.
Client == ConnectFails \/ Connect \/ Snapshot \/ Forward \/ ReceiveFull \/ ReceiveDelta

\* A control plane that is up, or comes back up, polls.
Polls(c) == (Up(c) \/ c \notin Mortal) /\ (PollStart(c) \/ PollRead(c))

\* Polls run on a timer and end, and the data plane never stops reconnecting.
\* The primary-retry interval is minutes, so the snapshot a fallback sends is
\* not cut off every time: taking it is strongly fair.
Fairness ==
    /\ \A c \in CPs : WF_vars(Polls(c))
    /\ WF_vars(Client)
    /\ \A c \in CPs \ {1} : SF_vars(cp = c /\ ReceiveFull)

Spec == SafeSpec /\ Fairness

-----------------------------------------------------------------------------
(* Properties.                                                             *)

\* No delta is applied to a configuration it was not computed from, whatever was
\* lost with a stream, dropped by the ring, retained, sent again or refused by
\* the data plane: its configuration is one the database has held.  The one way
\* to a mix is a publication that the control plane refused to send, followed by
\* a delta on the same subscription, and the next snapshot ends that.
AppliedWasPublished ==
    gap = "mixed" \/ cfg = Nothing \/ \E v \in 0..db : cfg = Content(v)

\* A subscription with nothing in flight has delivered everything, unless the
\* control plane refused to send something and no snapshot has made up for it:
\* no publication falls between the registration of the receiver and the load
\* of the initial snapshot, or is lost when the receiver falls behind.
QuiescentStreamIsCurrent ==
    (pc = "open" /\ base /\ wire = NoMessage /\ queue = <<>> /\ ~lagged /\ gap = "none") =>
        cfg = Content(ver[cp])

\* A failover never loses what was committed before the applied watermark's
\* poll began: whatever another control plane's snapshot replaces, it holds
\* every write that poll could have read.  (Of accurate clocks.)
FailoverKeepsCommittedWrites ==
    [][ (watermark # 0 /\ source' # source /\ cfg' # cfg /\ \A c \in CPs : Skew[c] = 0) =>
            \E v \in history[watermark]..db : cfg' = Content(v) ]_vars

\* In the end the data plane serves what the database holds and reports no
\* divergence, or, when it cannot apply that, reports that it diverges; unless
\* the configuration cannot be sent as a snapshot, or a publication was refused
\* on the stream that is still open, which nothing tells the data plane.
Converges ==
    <>[] ( \/ cfg = Content(db) /\ ~diverged
           \/ Content(db) \in Bad /\ diverged
           \/ Content(db) \in Invalid
           \/ CannotSend(Full(db, 1))
           \/ pc # "idle" /\ gap # "none" )

\* A control plane whose clock runs ahead within the tolerance holds fallbacks
\* off only until real time has passed the watermark it left behind: from then
\* on the data plane converges.
FenceEndsWithTime == (<>[](clock > watermark)) => Converges

=============================================================================
