--------------------------- MODULE ConfigSyncProofs ---------------------------
(***************************************************************************)
(* Proofs about ConfigSync, for every number of control planes, every      *)
(* history of writes, every capacity of the broadcast ring and every skew  *)
(* of the control planes' clocks.                                          *)
(*                                                                         *)
(* The argument: what is under way on a stream is a chain.  The retained   *)
(* messages are consecutive publications of one control plane that end     *)
(* with the configuration it serves, and the oldest of them, or the        *)
(* snapshot that a lagged receiver is sent first, connects to what the     *)
(* data plane will have applied by then; or it is older than the watermark *)
(* and the data plane will refuse it.  A publication that its control      *)
(* plane refused to send is a break in the chain.  It matters until a      *)
(* snapshot that is not older is accepted, and no longer: what the ring    *)
(* retains from before the break is then older than the watermark.         *)
(***************************************************************************)
EXTENDS ConfigSync, SequenceTheorems, WellFoundedInduction, TLAPS

-----------------------------------------------------------------------------
(* The inductive invariant.                                                *)

\* Wall-clock stamps.  The poll stamped i + Skew[c] by control plane c started
\* at time i, when the database held history[i] writes; what c serves was read
\* later, and a poll in flight is later than the one that was stored.
Stamps ==
    /\ watermark \in Nat
    /\ (\A c \in CPs : Skew[c] = 0) => watermark <= clock
    /\ \A i, j \in 1..clock : i <= j => history[i] <= history[j]
    /\ \A c \in CPs :
        /\ loadedAt[c] <= clock + Skew[c]
        /\ pollAt[c] <= clock + Skew[c]
        /\ pollAt[c] # 0 => pollAt[c] > Skew[c] /\ pollAt[c] > loadedAt[c]
        /\ Up(c) => loadedAt[c] > Skew[c] /\ history[loadedAt[c] - Skew[c]] <= ver[c]

\* A message of the data plane's control plane is one of its publications.
Genuine(m) ==
    /\ m.from <= m.ver /\ m.ver <= ver[cp]
    /\ m.stamp > Skew[cp] /\ m.stamp <= loadedAt[cp]
    /\ history[m.stamp - Skew[cp]] <= m.ver

\* Consecutive publications: each delta starts where the one before it ends,
\* except where something was refused in between.
Consecutive(q) ==
    /\ \A i, j \in 1..Len(q) : i < j => q[i].ver <= q[j].ver /\ q[i].stamp < q[j].stamp
    /\ \A i, j \in 1..Len(q) : j = i + 1 /\ ~q[j].full =>
                                   q[j].from = q[i].ver \/ q[i].stamp < refusedAt

\* They end with the configuration that is served now, or that was refused.
EndsServed(q) ==
    q # <<>> => \/ q[Len(q)].ver = ver[cp] /\ q[Len(q)].stamp = loadedAt[cp]
                \/ q[Len(q)].stamp < refusedAt

\* What a receiver has not yielded yet.
Publications(q) ==
    /\ \A i \in 1..Len(q) : Genuine(q[i])
    /\ Consecutive(q)
    /\ EndsServed(q)

Retained == Publications(queue)

\* Message m can be applied to configuration x under watermark w, or is refused.
Fits(m, x, w) == m.full \/ (m.from <= x /\ (x <= m.ver \/ m.stamp < w))

\* What a receiver yields next connects to configuration x and watermark w.
Connects(x, w) ==
    \/ lagged
    \/ queue = <<>> /\ x = ver[cp]
    \/ queue # <<>> /\ Fits(Head(queue), x, w)

\* The applied configuration is configuration x and, if nothing is missing, what
\* arrives next connects.
AppliedAt(x) ==
    /\ cfg = Content(x)
    /\ base /\ gap = "none" /\ wire = NoMessage => Connects(x, watermark)
    /\ base /\ gap = "none" /\ wire # NoMessage => Fits(wire, x, watermark)

Stream ==
    /\ pc # "idle" => Up(cp)
    /\ base => source = cp
    /\ refusedAt <= loadedAt[cp]
    /\ base /\ gap = "none" => refusedAt <= watermark
    /\ Retained
    /\ wire # NoMessage => /\ Genuine(wire)
                           /\ wire.stamp < refusedAt \/ Connects(wire.ver, wire.stamp)
    /\ cfg # Nothing => \A k \in Keys : cfg[k] # "unset"
    /\ cfg # Nothing /\ gap # "mixed" => \E x \in 0..db : AppliedAt(x)

IInv == TypeOK /\ Stamps /\ Stream

\* The parts of TypeOK: database and control planes, the stream, what is applied.
ControlTypes ==
    /\ db \in 0..MaxWrites /\ refused \in Refusals
    /\ clock \in Nat
    /\ history \in Seq(0..db) /\ Len(history) = clock
    /\ ver \in [CPs -> -1..db]
    /\ loadedAt \in [CPs -> Nat] /\ pollAt \in [CPs -> Nat]

StreamTypes ==
    /\ pc \in {"idle", "registered", "open"}
    /\ cp \in CPs
    /\ queue \in Seq(Messages) /\ Len(queue) <= QueueCap
    /\ lagged \in BOOLEAN /\ base \in BOOLEAN
    /\ wire \in Messages \cup {NoMessage}
    /\ refusedAt \in Nat /\ gap \in {"none", "missed", "mixed"}
    /\ pc = "idle" => queue = <<>> /\ ~lagged /\ refusedAt = 0 /\ gap # "missed"
    /\ pc # "open" => wire = NoMessage /\ ~base

AppliedTypes ==
    /\ base => cfg # Nothing
    /\ cfg = Nothing <=> watermark = 0
    /\ watermark <= clock + Tolerance
    /\ source \in CPs
    /\ diverged \in BOOLEAN
    /\ faults \in 0..MaxFaults

\* The type invariant in three parts, which the actions change apart.
LEMMA Types == TypeOK <=> ControlTypes /\ StreamTypes /\ AppliedTypes
BY DEF TypeOK, ControlTypes, StreamTypes, AppliedTypes

-----------------------------------------------------------------------------
(* Configurations and deltas.                                              *)

\* A set of naturals that has an element has a least one.
LEMMA LeastNatural ==
    ASSUME NEW T \in SUBSET Nat, T # {}
    PROVE  \E n \in T : \A m \in T : n <= m
<1>1. \E n \in T : \A m \in T : ~ (<<m, n>> \in OpToRel(<, Nat))
  BY NatLessThanWellFounded, WFMin
<1>2. \E n \in T : \A m \in T : ~(m < n)
  BY <1>1, Zenon DEF OpToRel
<1> QED BY <1>2

\* A resource that was written has a last write.
LEMMA LastWriteExists ==
    ASSUME NEW v \in 0..MaxWrites, NEW k, Written(k, 0, v)
    PROVE  LastWrite(k, v) \in 1..v
<1> DEFINE T == {n \in Nat : n < v /\ KeyOf[v - n] = k}
<1>1. T \in SUBSET Nat /\ T # {}
  <2>1. PICK w \in (0 + 1)..v : KeyOf[w] = k
    BY DEF Written
  <2>2. v - w \in T
    BY <2>1, SyncAssumption
  <2> QED BY <2>2
<1>2. PICK n \in T : \A m \in T : n <= m
  BY <1>1, LeastNatural
<1>3. v - n \in 1..v /\ KeyOf[v - n] = k
  BY <1>2, SyncAssumption
<1>4. ASSUME NEW x \in (v - n + 1)..v PROVE KeyOf[x] # k
  <2>1. v - x \in Nat /\ v - x < n /\ v - x < v /\ v - (v - x) = x
    BY <1>2, SyncAssumption
  <2> QED BY <1>2, <2>1
<1>5. \E w \in 1..v : KeyOf[w] = k /\ \A x \in (w + 1)..v : KeyOf[x] # k
  BY <1>3, <1>4
<1> QED BY <1>5 DEF LastWrite

\* Configurations are over the resources, and none of them is no configuration.
LEMMA ContentDefined ==
    ASSUME NEW v \in 0..MaxWrites
    PROVE  /\ Content(v) = [k \in Keys |-> Content(v)[k]]
           /\ \A k \in Keys : Content(v)[k] # "unset"
           /\ Content(v) # Nothing
<1>1. ASSUME NEW k \in Keys PROVE Content(v)[k] # "unset"
  <2>1. Content(v)[k] = IF Written(k, 0, v) THEN ValueOf[LastWrite(k, v)] ELSE Absent
    BY DEF Content
  <2>2. CASE Written(k, 0, v)
    <3>1. LastWrite(k, v) \in 1..v
      BY <2>2, LastWriteExists
    <3>2. LastWrite(k, v) \in 1..MaxWrites
      BY <3>1, SyncAssumption
    <3> QED BY <2>1, <2>2, <3>2, SyncAssumption
  <2>3. CASE ~Written(k, 0, v)
    BY <2>1, <2>3 DEF Absent
  <2> QED BY <2>2, <2>3
<1>2. PICK k \in Keys : TRUE
  BY SyncAssumption
<1>3. Nothing[k] = "unset"
  BY DEF Nothing
<1> QED BY <1>1, <1>3 DEF Content

\* A resource not written between two configurations is the same in both.
LEMMA Unwritten ==
    ASSUME NEW v \in 0..MaxWrites, NEW x \in 0..v, NEW k \in Keys, ~Written(k, x, v)
    PROVE  Content(x)[k] = Content(v)[k]
<1>1. Written(k, 0, x) <=> Written(k, 0, v)
  BY SyncAssumption DEF Written
<1>2. \A w : (w \in 1..v /\ KeyOf[w] = k /\ \A y \in (w + 1)..v : KeyOf[y] # k) <=>
             (w \in 1..x /\ KeyOf[w] = k /\ \A y \in (w + 1)..x : KeyOf[y] # k)
  BY SyncAssumption DEF Written
<1>3. LastWrite(k, x) = LastWrite(k, v)
  BY <1>2 DEF LastWrite
<1> QED BY <1>1, <1>3 DEF Content

\* A delta between two configurations turns each one in between, and the older
\* of the two, into the newer.
LEMMA DeltaApplies ==
    ASSUME NEW v \in 0..MaxWrites, NEW u \in 0..v, NEW x \in u..v
    PROVE  ApplyDelta(Content(x), u, v) = Content(v)
<1>1. ASSUME NEW k \in Keys PROVE ApplyDelta(Content(x), u, v)[k] = Content(v)[k]
  <2>1. CASE Written(k, u, v)
    BY <2>1 DEF ApplyDelta
  <2>2. CASE ~Written(k, u, v)
    <3>1. x \in 0..v /\ ~Written(k, x, v)
      BY <2>2, SyncAssumption DEF Written
    <3> QED BY <2>2, <3>1, Unwritten DEF ApplyDelta
  <2> QED BY <2>1, <2>2
<1> QED BY <1>1, ContentDefined DEF ApplyDelta

-----------------------------------------------------------------------------
(* The invariant holds initially and is kept by every step.                *)

\* Before the first poll nothing is served, retained or applied.
LEMMA InitInv == Init => IInv
<1> SUFFICES ASSUME Init PROVE IInv
  OBVIOUS
<1>1. TypeOK
  <2>1. ControlTypes
    <3>1. history \in Seq(0..db) /\ Len(history) = clock
      BY EmptySeq DEF Init
    <3>2. ver \in [CPs -> -1..db]
      BY DEF Init
    <3> QED BY <3>1, <3>2, SyncAssumption DEF Init, ControlTypes
  <2>2. StreamTypes
    <3>1. queue \in Seq(Messages) /\ Len(queue) <= QueueCap
      BY EmptySeq, SyncAssumption DEF Init
    <3>2. cp \in CPs
      BY SyncAssumption DEF Init, CPs
    <3> QED BY <3>1, <3>2 DEF Init, StreamTypes
  <2>3. AppliedTypes
    <3>1. watermark <= clock + Tolerance /\ faults \in 0..MaxFaults
      BY SyncAssumption DEF Init
    <3>2. source \in CPs
      BY SyncAssumption DEF Init, CPs
    <3> QED BY <3>1, <3>2 DEF Init, AppliedTypes
  <2> QED BY <2>1, <2>2, <2>3, Types
<1>2. Stamps
  BY SyncAssumption DEF Init, Stamps, Up, CPs
<1>3. Stream
  <2>1. refusedAt <= loadedAt[cp]
    BY SyncAssumption DEF Init, CPs
  <2> QED BY <2>1, EmptySeq DEF Init, Stream, Retained, Publications,
       Consecutive, EndsServed
<1> QED BY <1>1, <1>2, <1>3 DEF IInv

\* Moving on to the next control plane stays within them.
LEMMA RotateType ==
    ASSUME TypeOK, Rotate
    PROVE  cp' \in CPs
<1>1. cp \in Int /\ CPCount \in Nat \ {0}
  BY SyncAssumption DEF TypeOK, CPs
<1>2. cp % CPCount \in 0..(CPCount - 1)
  BY <1>1
<1> QED BY <1>1, <1>2 DEF Rotate, CPs

\* Nothing is retained or under way once a stream has ended.
LEMMA EndStreamInv ==
    ASSUME IInv, EndStream, cp' \in CPs, loadedAt' \in [CPs -> Nat], UNCHANGED <<database, cfg>>
    PROVE  /\ Stream'
           /\ queue' \in Seq(Messages) /\ Len(queue') = 0
<1>1. /\ queue' = <<>> /\ pc' = "idle" /\ wire' = NoMessage /\ base' = FALSE /\ lagged' = FALSE
      /\ refusedAt' = 0 /\ (gap' # "mixed" => gap # "mixed")
  BY DEF EndStream
<1>2. queue' \in Seq(Messages) /\ Len(queue') = 0
  BY <1>1, EmptySeq
<1>3. Retained'
  BY <1>1, <1>2 DEF Retained, Publications, Consecutive, EndsServed
<1>4. cfg' # Nothing /\ gap' # "mixed" => \E x \in 0..db' : AppliedAt(x)'
  BY <1>1 DEF IInv, Stream, AppliedAt, database
<1>5. refusedAt' <= loadedAt'[cp']
  BY <1>1
<1>6. cfg' # Nothing => \A k \in Keys : cfg'[k] # "unset"
  BY DEF IInv, Stream
<1> QED BY <1>1, <1>2, <1>3, <1>4, <1>5, <1>6 DEF Stream

\* So the steps that only end the stream keep the invariant.
LEMMA EndsInv ==
    ASSUME IInv, EndStream, cp' \in CPs, diverged' \in BOOLEAN,
           UNCHANGED <<database, control, cfg, watermark, source>>,
           faults' \in 0..MaxFaults
    PROVE  IInv'
<1>1. Stream' /\ queue' \in Seq(Messages) /\ Len(queue') = 0
  <2>1. loadedAt' \in [CPs -> Nat]
    BY DEF IInv, TypeOK, control
  <2> QED BY <2>1, EndStreamInv
<1>2. TypeOK'
  <2>1. ControlTypes'
    BY Types DEF IInv, ControlTypes, database, control
  <2>2. StreamTypes'
    <3>1. queue' \in Seq(Messages) /\ Len(queue') <= QueueCap
      BY <1>1, SyncAssumption
    <3>2. pc' = "idle" /\ queue' = <<>>
      BY DEF EndStream
    <3>3. lagged' \in BOOLEAN /\ base' \in BOOLEAN /\ ~lagged' /\ ~base'
      BY DEF EndStream
    <3>4. wire' = NoMessage
      BY DEF EndStream
    <3>5. /\ refusedAt' \in Nat /\ gap' \in {"none", "missed", "mixed"}
          /\ refusedAt' = 0 /\ gap' # "missed"
      BY DEF EndStream, IInv, TypeOK
    <3> QED BY <3>1, <3>2, <3>3, <3>4, <3>5 DEF StreamTypes
  <2>3. AppliedTypes'
    BY Types DEF IInv, AppliedTypes, EndStream, control
  <2> QED BY <2>1, <2>2, <2>3 DEF TypeOK, ControlTypes, StreamTypes,
       AppliedTypes
<1>3. Stamps'
  BY DEF IInv, Stamps, Up, database, control
<1> QED BY <1>1, <1>2, <1>3 DEF IInv

\* A cut stream leaves what was applied and drops what was under way.
LEMMA StreamDropInv ==
    ASSUME IInv, StreamDrop
    PROVE  IInv'
<1>1. cp' \in CPs
  BY RotateType, SyncAssumption DEF IInv, StreamDrop, AfterCut, CPs
<1>2. faults' \in 0..MaxFaults
  BY SyncAssumption DEF IInv, TypeOK, StreamDrop
<1> QED BY <1>1, <1>2, EndsInv DEF IInv, TypeOK, StreamDrop, applied

\* Leaving a fallback for the primary ends the stream and nothing else.
LEMMA PrimaryRetryInv ==
    ASSUME IInv, PrimaryRetry
    PROVE  IInv'
<1>1. cp' \in CPs
  BY SyncAssumption DEF PrimaryRetry, CPs
<1> QED BY <1>1, EndsInv DEF IInv, TypeOK, PrimaryRetry, applied

\* A write changes nothing that was published.
LEMMA WriteInv ==
    ASSUME IInv, Write
    PROVE  IInv'
<1>1. db \in 0..MaxWrites /\ db' = db + 1 /\ db' \in 0..MaxWrites /\ MaxWrites \in Nat
  BY SyncAssumption DEF IInv, TypeOK, Write
<1>2. UNCHANGED <<history, refused, control, stream, applied, faults>>
  BY DEF Write
<1>3. history' \in Seq(0..db')
  BY <1>1, <1>2, SeqMonotonic DEF IInv, TypeOK
<1>4. ver' \in [CPs -> -1..db']
  BY <1>1, <1>2 DEF IInv, TypeOK, control
<1>5. TypeOK'
  <2>1. ControlTypes'
    BY <1>1, <1>2, <1>3, <1>4 DEF IInv, TypeOK, ControlTypes, control
  <2>2. StreamTypes' /\ AppliedTypes'
    BY <1>2 DEF IInv, TypeOK, StreamTypes, AppliedTypes, control, stream,
         refusals, applied
  <2> QED BY <2>1, <2>2 DEF TypeOK, ControlTypes, StreamTypes, AppliedTypes
<1>6. Stamps'
  BY <1>2 DEF IInv, Stamps, Up, control, applied
<1>7. Stream'
  <2>1. Retained' /\ (pc' # "idle" => Up(cp)')
    BY <1>2 DEF IInv, Stream, Retained, Publications, Consecutive, EndsServed,
         Genuine, Up,
                control, stream, refusals
  <2>2. wire' # NoMessage => /\ Genuine(wire)'
                             /\ wire'.stamp < refusedAt' \/ Connects(wire.ver, wire.stamp)'
    BY <1>2 DEF IInv, Stream, Genuine, Connects, control, stream, refusals
  <2>3. \A x : AppliedAt(x) => AppliedAt(x)'
    BY <1>2 DEF AppliedAt, Connects, control, stream, refusals, applied
  <2>4. cfg' # Nothing /\ gap' # "mixed" => \E x \in 0..db' : AppliedAt(x)'
    BY <1>1, <1>2, <2>3 DEF IInv, Stream, stream, refusals, applied
  <2> QED BY <1>2, <2>1, <2>2, <2>4 DEF IInv, Stream, control, stream,
       refusals, applied
<1> QED BY <1>5, <1>6, <1>7 DEF IInv

\* A poll takes the next time as its stamp, after every stamp of its control
\* plane, and remembers what the database holds.
LEMMA PollStartInv ==
    ASSUME IInv, NEW c \in CPs, PollStart(c)
    PROVE  IInv'
<1>1. /\ db \in 0..MaxWrites /\ clock \in Nat /\ clock' = clock + 1
      /\ history \in Seq(0..db) /\ Len(history) = clock
      /\ loadedAt \in [CPs -> Nat] /\ pollAt \in [CPs -> Nat] /\ Skew \in [CPs -> Nat]
      /\ MaxWrites \in Nat /\ ver \in [CPs -> -1..db] /\ refused \in Refusals
  BY SyncAssumption DEF IInv, TypeOK, PollStart
<1>2. history' \in Seq(0..db') /\ Len(history') = clock'
  BY <1>1, AppendProperties DEF PollStart
<1>3. \A i \in 1..clock : history'[i] = history[i]
  BY <1>1, AppendProperties DEF PollStart
<1>4. history'[clock'] = db
  BY <1>1, AppendProperties DEF PollStart
<1>5. pollAt' \in [CPs -> Nat] /\ pollAt'[c] = clock + 1 + Skew[c]
  BY <1>1 DEF PollStart
<1>6. UNCHANGED <<db, refused, ver, loadedAt, stream, applied, faults>>
  BY DEF PollStart
<1>7. TypeOK'
  <2>1. ControlTypes'
    BY <1>1, <1>2, <1>5, <1>6 DEF ControlTypes
  <2>2. StreamTypes'
    BY <1>6 DEF IInv, TypeOK, StreamTypes, stream, refusals
  <2>3. AppliedTypes'
    <3>1. watermark' <= clock' + Tolerance
      BY <1>1, <1>6, SyncAssumption DEF IInv, TypeOK, Stamps, applied
    <3> QED BY <1>6, <3>1 DEF IInv, TypeOK, AppliedTypes, stream, refusals,
         applied
  <2> QED BY <2>1, <2>2, <2>3 DEF TypeOK, ControlTypes, StreamTypes,
       AppliedTypes
<1>8. Stamps'
  <2>1. watermark' \in Nat /\ ((\A d \in CPs : Skew[d] = 0) => watermark' <= clock')
    BY <1>1, <1>6 DEF IInv, Stamps, applied
  <2>2. ASSUME NEW i \in 1..clock', NEW j \in 1..clock', i <= j
        PROVE  history'[i] <= history'[j]
    <3>1. CASE j \in 1..clock
      BY <1>1, <1>3, <2>2, <3>1 DEF IInv, Stamps
    <3>2. CASE j = clock'
      <4>1. history'[i] \in 0..db'
        BY <1>1, <1>2, ElementOfSeq
      <4> QED BY <1>4, <1>1, <1>6, <3>2, <4>1
    <3> QED BY <1>1, <3>1, <3>2
  <2>3. ASSUME NEW d \in CPs
        PROVE  /\ loadedAt'[d] <= clock' + Skew[d]
               /\ pollAt'[d] <= clock' + Skew[d]
               /\ pollAt'[d] # 0 => pollAt'[d] > Skew[d] /\ pollAt'[d] > loadedAt'[d]
    <3>1. CASE d = c
      <4>1. loadedAt[c] \in Nat /\ Skew[c] \in Nat /\ loadedAt[c] <= clock + Skew[c]
        BY <1>1 DEF IInv, Stamps
      <4>2. loadedAt'[c] = loadedAt[c]
        BY <1>6
      <4> QED BY <1>1, <1>5, <3>1, <4>1, <4>2
    <3>2. CASE d # c
      <4>1. /\ loadedAt[d] \in Nat /\ Skew[d] \in Nat /\ loadedAt[d] <= clock + Skew[d]
            /\ pollAt[d] \in Nat /\ pollAt[d] <= clock + Skew[d]
            /\ pollAt[d] # 0 => pollAt[d] > Skew[d] /\ pollAt[d] > loadedAt[d]
        BY <1>1 DEF IInv, Stamps
      <4>2. loadedAt'[d] = loadedAt[d] /\ pollAt'[d] = pollAt[d]
        BY <1>1, <1>6, <3>2 DEF PollStart
      <4> QED BY <1>1, <4>1, <4>2
    <3> QED BY <3>1, <3>2
  <2>4. ASSUME NEW d \in CPs, Up(d)'
        PROVE  loadedAt'[d] > Skew[d] /\ history'[loadedAt'[d] - Skew[d]] <= ver'[d]
    <3>1. /\ loadedAt[d] > Skew[d] /\ loadedAt[d] <= clock + Skew[d]
          /\ history[loadedAt[d] - Skew[d]] <= ver[d]
      BY <1>6, <2>4 DEF IInv, Stamps, Up
    <3>2. loadedAt[d] - Skew[d] \in 1..clock
      BY <1>1, <3>1
    <3> QED BY <1>3, <1>6, <3>1, <3>2
  <2> QED BY <2>1, <2>2, <2>3, <2>4 DEF Stamps
<1>9. ASSUME NEW m \in Messages, Genuine(m)
      PROVE  Genuine(m)'
  <2>1. m.stamp - Skew[cp] \in 1..clock
    <3>1. /\ cp \in CPs /\ m.stamp \in Nat
          /\ loadedAt[cp] <= clock + Skew[cp]
          /\ m.stamp > Skew[cp] /\ m.stamp <= loadedAt[cp]
      BY <1>9 DEF IInv, TypeOK, Stamps, Genuine, Messages
    <3>2. Skew[cp] \in Nat /\ loadedAt[cp] \in Nat
      BY <1>1, <3>1
    <3>3. clock \in Nat
      BY <1>1
    <3> QED BY <3>1, <3>2, <3>3
  <2> QED BY <1>3, <1>6, <1>9, <2>1 DEF Genuine, stream, refusals
<1>10. Stream'
  <2>1. \A i \in 1..Len(queue) : queue[i] \in Messages
    BY ElementOfSeq DEF IInv, TypeOK
  <2>2. Retained'
    BY <1>6, <1>9, <2>1 DEF IInv, Stream, Retained, Publications, Consecutive,
         EndsServed,
                            stream, refusals
  <2>3. wire' # NoMessage => /\ Genuine(wire)'
                             /\ wire'.stamp < refusedAt' \/ Connects(wire.ver, wire.stamp)'
    BY <1>6, <1>9 DEF IInv, TypeOK, Stream, Connects, stream, refusals
  <2> QED BY <1>6, <2>2, <2>3 DEF IInv, Stream, AppliedAt, Connects, Up,
       stream, refusals, applied
<1> QED BY <1>7, <1>8, <1>10 DEF IInv

-----------------------------------------------------------------------------
(* Publication.                                                            *)

\* The types of the fields of a message.
LEMMA MessageFields ==
    ASSUME NEW m \in Messages
    PROVE  /\ m.full \in BOOLEAN /\ m.from \in 0..MaxWrites /\ m.ver \in 0..MaxWrites
           /\ m.from \in Nat /\ m.ver \in Nat /\ m.stamp \in Nat \ {0} /\ m.stamp \in Nat
           /\ m # NoMessage
BY SyncAssumption DEF Messages, NoMessage

\* Dropping the oldest of some publications leaves publications.
LEMMA PublicationsTail ==
    ASSUME NEW q \in Seq(Messages), q # <<>>, Publications(q)
    PROVE  Publications(Tail(q))
<1>1. /\ Tail(q) \in Seq(Messages) /\ Len(Tail(q)) = Len(q) - 1 /\ Len(q) \in Nat \ {0}
      /\ \A i \in 1..Len(Tail(q)) : Tail(q)[i] = q[i + 1]
  BY HeadTailProperties, EmptySeq
<1>2. \A i \in 1..Len(Tail(q)) : i + 1 \in 1..Len(q)
  BY <1>1
<1>3. \A i \in 1..Len(Tail(q)) : Genuine(Tail(q)[i])
  BY <1>1, <1>2 DEF Publications
<1>4. Consecutive(Tail(q))
  <2>1. ASSUME NEW i \in 1..Len(Tail(q)), NEW j \in 1..Len(Tail(q))
        PROVE  /\ i < j => q[i + 1].ver <= q[j + 1].ver /\ q[i + 1].stamp < q[j + 1].stamp
               /\ j = i + 1 /\ ~q[j + 1].full =>
                      q[j + 1].from = q[i + 1].ver \/ q[i + 1].stamp < refusedAt
    <3>1. i + 1 \in 1..Len(q) /\ j + 1 \in 1..Len(q)
      BY <1>2
    <3>2. /\ i + 1 < j + 1 => q[i + 1].ver <= q[j + 1].ver /\ q[i + 1].stamp < q[j + 1].stamp
          /\ j + 1 = (i + 1) + 1 /\ ~q[j + 1].full =>
                 q[j + 1].from = q[i + 1].ver \/ q[i + 1].stamp < refusedAt
      BY <3>1 DEF Publications, Consecutive
    <3> QED BY <3>2, <1>1
  <2> QED BY <1>1, <2>1 DEF Consecutive
<1>5. EndsServed(Tail(q))
  <2>1. CASE Tail(q) = <<>>
    BY <2>1 DEF EndsServed
  <2>2. CASE Tail(q) # <<>>
    <3>1. Len(Tail(q)) \in 1..Len(Tail(q)) /\ Len(Tail(q)) + 1 = Len(q)
      BY <1>1, <2>2, EmptySeq
    <3> QED BY <1>1, <3>1 DEF Publications, EndsServed
  <2> QED BY <2>1, <2>2
<1> QED BY <1>3, <1>4, <1>5 DEF Publications

\* A publication that starts where the others end continues them.
LEMMA ConsecutiveAppend ==
    ASSUME NEW q \in Seq(Messages), NEW m \in Messages, Consecutive(q),
           q # <<>> => /\ q[Len(q)].ver <= m.ver /\ q[Len(q)].stamp < m.stamp
                       /\ ~m.full => m.from = q[Len(q)].ver \/ q[Len(q)].stamp < refusedAt
    PROVE  Consecutive(Append(q, m))
<1> DEFINE a == Append(q, m)
<1>1. /\ Len(q) \in Nat /\ Len(a) = Len(q) + 1 /\ a[Len(q) + 1] = m
      /\ \A i \in 1..Len(q) : a[i] = q[i]
  BY AppendProperties, LenProperties
<1>2. \A i \in 1..Len(q) : q[i].ver \in Nat /\ q[i].stamp \in Nat
  <2>1. \A i \in 1..Len(q) : q[i] \in Messages
    BY ElementOfSeq
  <2> QED BY <2>1, MessageFields
<1>3. m.ver \in Nat /\ m.stamp \in Nat
  BY MessageFields
<1>4. ASSUME NEW i \in 1..Len(q) PROVE q[i].ver <= m.ver /\ q[i].stamp < m.stamp
  <2>1. q # <<>> /\ Len(q) \in 1..Len(q)
    BY <1>1, EmptySeq
  <2>2. i = Len(q) \/ (q[i].ver <= q[Len(q)].ver /\ q[i].stamp < q[Len(q)].stamp)
    BY <1>1, <2>1 DEF Consecutive
  <2>3. /\ q[i].ver \in Nat /\ q[i].stamp \in Nat
        /\ q[Len(q)].ver \in Nat /\ q[Len(q)].stamp \in Nat
    BY <1>2, <2>1
  <2> QED BY <1>3, <2>1, <2>2, <2>3
<1>5. ASSUME NEW i \in 1..Len(a), NEW j \in 1..Len(a), i < j
      PROVE  a[i].ver <= a[j].ver /\ a[i].stamp < a[j].stamp
  <2>1. CASE j \in 1..Len(q)
    <3>1. i \in 1..Len(q)
      BY <1>1, <1>5, <2>1
    <3> QED BY <1>1, <1>5, <2>1, <3>1 DEF Consecutive
  <2>2. CASE j = Len(q) + 1
    <3>1. i \in 1..Len(q)
      BY <1>1, <1>5, <2>2
    <3> QED BY <1>1, <1>4, <2>2, <3>1
  <2> QED BY <1>1, <2>1, <2>2
<1>6. ASSUME NEW i \in 1..Len(a), NEW j \in 1..Len(a), j = i + 1, ~a[j].full
      PROVE  a[j].from = a[i].ver \/ a[i].stamp < refusedAt
  <2>1. i \in 1..Len(q)
    BY <1>1, <1>6
  <2>2. CASE j \in 1..Len(q)
    BY <1>1, <1>6, <2>1, <2>2 DEF Consecutive
  <2>3. CASE j = Len(q) + 1
    <3>1. i = Len(q) /\ q # <<>>
      BY <1>1, <1>6, <2>1, <2>3, EmptySeq
    <3> QED BY <1>1, <1>6, <2>1, <2>3, <3>1
  <2> QED BY <1>1, <2>2, <2>3
<1> HIDE DEF a
<1>7. Consecutive(a)
  BY <1>5, <1>6 DEF Consecutive
<1> QED BY <1>7 DEF a

\* What a control plane knows when a poll of it reads the database.
LEMMA PollFacts ==
    ASSUME IInv, NEW c \in CPs, pollAt[c] # 0
    PROVE  /\ db \in 0..MaxWrites /\ MaxWrites \in Nat /\ clock \in Nat
           /\ ver \in [CPs -> -1..db] /\ ver[c] \in -1..db
           /\ loadedAt \in [CPs -> Nat] /\ pollAt \in [CPs -> Nat] /\ Skew \in [CPs -> Nat]
           /\ pollAt[c] \in Nat \ {0} /\ loadedAt[c] \in Nat /\ Skew[c] \in Nat
           /\ pollAt[c] <= clock + Skew[c] /\ pollAt[c] > Skew[c] /\ pollAt[c] > loadedAt[c]
           /\ history[pollAt[c] - Skew[c]] <= db
<1>1. /\ db \in 0..MaxWrites /\ MaxWrites \in Nat /\ clock \in Nat
      /\ ver \in [CPs -> -1..db] /\ ver[c] \in -1..db
      /\ loadedAt \in [CPs -> Nat] /\ pollAt \in [CPs -> Nat] /\ Skew \in [CPs -> Nat]
      /\ history \in Seq(0..db) /\ Len(history) = clock
  BY SyncAssumption DEF IInv, TypeOK
<1>2. pollAt[c] \in Nat \ {0} /\ loadedAt[c] \in Nat /\ Skew[c] \in Nat
  BY <1>1
<1>3. pollAt[c] <= clock + Skew[c] /\ pollAt[c] > Skew[c] /\ pollAt[c] > loadedAt[c]
  BY DEF IInv, Stamps
<1>4. pollAt[c] - Skew[c] \in 1..Len(history)
  BY <1>1, <1>2, <1>3
<1>5. history[pollAt[c] - Skew[c]] \in 0..db
  BY <1>1, <1>4, ElementOfSeq
<1> QED BY <1>1, <1>2, <1>3, <1>5

\* A message stays one of its control plane's publications when that publishes
\* another configuration.
LEMMA GenuineKept ==
    ASSUME IInv, NEW c \in CPs, pollAt[c] # 0,
           ver' = [ver EXCEPT ![c] = db], loadedAt' = [loadedAt EXCEPT ![c] = pollAt[c]],
           UNCHANGED <<history, cp>>, NEW m \in Messages, Genuine(m)
    PROVE  Genuine(m)'
<1>1. cp \in CPs
  BY DEF IInv, TypeOK
<1>2. m.ver \in Nat /\ m.stamp \in Nat
  BY MessageFields
<1>3. ver[cp] \in Int /\ ver'[cp] \in Int /\ ver[cp] <= ver'[cp]
  BY <1>1, PollFacts
<1>4. loadedAt[cp] \in Nat /\ loadedAt'[cp] \in Nat /\ loadedAt[cp] <= loadedAt'[cp]
  BY <1>1, PollFacts
<1>5. m.ver <= ver'[cp]
  BY <1>2, <1>3 DEF Genuine
<1>6. m.stamp <= loadedAt'[cp]
  BY <1>2, <1>4 DEF Genuine
<1> QED BY <1>5, <1>6 DEF Genuine

\* A configuration is stored and broadcast to a receiver of its control plane.
LEMMA PublishedToReceiver ==
    ASSUME IInv, NEW c \in CPs, pollAt[c] # 0, cp = c, pc # "idle",
           ver' = [ver EXCEPT ![c] = db], loadedAt' = [loadedAt EXCEPT ![c] = pollAt[c]],
           UNCHANGED <<database, pc, cp, wire, base, applied>>,
           NEW m \in Messages, m.ver = db, m.stamp = pollAt[c], m.from <= db,
           m.full \/ m.from = ver[c],
           ~CannotSend(m), Broadcast(c, m)
    PROVE  /\ queue' \in Seq(Messages) /\ Len(queue') <= QueueCap
           /\ lagged' \in BOOLEAN /\ UNCHANGED refusals
           /\ Stream'
<1>0. UNCHANGED refusals
  BY DEF Broadcast
<1>1. queue \in Seq(Messages) /\ Len(queue) <= QueueCap /\ lagged \in BOOLEAN
  BY DEF IInv, TypeOK
<1>2. Publications(queue)
  BY DEF IInv, Stream, Retained
<1>3. QueueCap \in Nat \ {0} /\ Len(queue) \in Nat
  BY <1>1, SyncAssumption, LenProperties
<1>4. PICK q \in Seq(Messages) :
        /\ queue' = Append(q, m)
        /\ Publications(q)
        /\ Len(q) < QueueCap
        /\ (q = queue /\ UNCHANGED lagged) \/ lagged' = TRUE
  <2>1. CASE Len(queue) = QueueCap
    <3>1. queue # <<>>
      BY <1>3, <2>1, EmptySeq
    <3>2. Tail(queue) \in Seq(Messages) /\ Len(Tail(queue)) = Len(queue) - 1
      BY <1>1, <3>1, HeadTailProperties
    <3>3. Publications(Tail(queue))
      BY <1>1, <1>2, <3>1, PublicationsTail
    <3>4. queue' = Append(Tail(queue), m) /\ lagged' = TRUE
      BY <2>1 DEF Broadcast, IInv, TypeOK
    <3>5. Len(Tail(queue)) < QueueCap
      BY <1>3, <2>1, <3>2
    <3> Tail(queue) \in Seq(Messages)
      BY <3>2
    <3> WITNESS Tail(queue) \in Seq(Messages)
    <3> QED BY <3>3, <3>4, <3>5
  <2>2. CASE Len(queue) # QueueCap
    <3>1. queue' = Append(queue, m) /\ UNCHANGED lagged
      BY <2>2 DEF Broadcast, IInv, TypeOK
    <3>2. Len(queue) < QueueCap
      BY <1>1, <1>3, <2>2
    <3> queue \in Seq(Messages)
      BY <1>1
    <3> WITNESS queue \in Seq(Messages)
    <3> QED BY <1>2, <3>1, <3>2
  <2> QED BY <2>1, <2>2
<1>5. /\ queue' \in Seq(Messages) /\ Len(queue') = Len(q) + 1 /\ Len(q) \in Nat
      /\ queue'[Len(q) + 1] = m /\ \A i \in 1..Len(q) : queue'[i] = q[i]
  BY <1>4, AppendProperties, LenProperties
<1>6. ver'[cp'] = db /\ loadedAt'[cp'] = pollAt[c] /\ ver[c] <= db /\ pollAt[c] > loadedAt[c]
  BY PollFacts
<1>7. Retained'
  <2>1. Genuine(m)'
    BY <1>6, PollFacts, MessageFields DEF Genuine, database
  <2>2. ASSUME NEW i \in 1..Len(queue') PROVE Genuine(queue[i])'
    <3>1. CASE i \in 1..Len(q)
      <4>1. q[i] \in Messages /\ Genuine(q[i])
        BY <1>4, <3>1, ElementOfSeq DEF Publications
      <4>2. ASSUME NEW x \in Messages, Genuine(x) PROVE Genuine(x)'
        BY <4>2, GenuineKept DEF database
      <4>3. queue'[i] = q[i]
        BY <1>5, <3>1
      <4> QED BY <4>1, <4>2, <4>3 DEF Genuine
    <3>2. CASE i = Len(q) + 1
      BY <1>5, <2>1, <3>2 DEF Genuine
    <3> QED BY <1>5, <3>1, <3>2
  <2>3. Consecutive(Append(q, m))
    <3>1. q # <<>> => /\ q[Len(q)].ver <= m.ver /\ q[Len(q)].stamp < m.stamp
                      /\ ~m.full => m.from = q[Len(q)].ver \/ q[Len(q)].stamp < refusedAt
      <4>1. ASSUME q # <<>>
            PROVE  /\ Genuine(q[Len(q)]) /\ q[Len(q)].ver \in Nat /\ q[Len(q)].stamp \in Nat
        <5>1. Len(q) \in 1..Len(q)
          BY <1>5, <4>1, EmptySeq
        <5>2. q[Len(q)] \in Messages
          BY <1>4, <5>1, ElementOfSeq
        <5> QED BY <1>4, <5>1, <5>2, MessageFields DEF Publications
      <4>2. /\ ver[c] \in Int /\ loadedAt[c] \in Nat /\ pollAt[c] \in Nat /\ db \in Nat
        BY PollFacts
      <4>3. q # <<>> => q[Len(q)].ver <= ver[c] /\ q[Len(q)].stamp <= loadedAt[c]
        BY <4>1 DEF Genuine
      <4>4. q # <<>> => \/ q[Len(q)].ver = ver[c]
                        \/ q[Len(q)].stamp < refusedAt
        BY <1>4 DEF Publications, EndsServed
      <4> QED BY <1>6, <4>1, <4>2, <4>3, <4>4
    <3> QED BY <1>4, <3>1, ConsecutiveAppend DEF Publications
  <2>4. Consecutive(queue)'
    BY <1>0, <1>4, <2>3 DEF Consecutive, refusals
  <2>5. EndsServed(queue)'
    BY <1>5, <1>6 DEF EndsServed
  <2> QED BY <2>2, <2>4, <2>5 DEF Retained, Publications
<1>8. ASSUME NEW x \in Int, NEW w, Connects(x, w) PROVE Connects(x, w)'
  <2>1. CASE lagged' = TRUE
    BY <2>1 DEF Connects
  <2>2. CASE q = queue /\ UNCHANGED lagged
    <3>1. CASE lagged
      BY <2>2, <3>1 DEF Connects
    <3>2. CASE queue = <<>> /\ x = ver[cp]
      <4>1. queue' # <<>> /\ Head(queue') = m
        BY <1>4, <1>5, <2>2, <3>2, EmptySeq
      <4>2. Fits(m, x, w)
        BY <1>6, <3>2, MessageFields DEF Fits
      <4> QED BY <4>1, <4>2 DEF Connects, Fits
    <3>3. CASE queue # <<>> /\ Fits(Head(queue), x, w)
      <4>1. queue' # <<>> /\ Head(queue') = Head(queue)
        BY <1>4, <1>5, <2>2, <3>3, EmptySeq
      <4> QED BY <3>3, <4>1 DEF Connects, Fits
    <3> QED BY <1>8, <3>1, <3>2, <3>3 DEF Connects
  <2> QED BY <1>4, <2>1, <2>2
<1>9. wire' # NoMessage => /\ Genuine(wire)'
                           /\ wire'.stamp < refusedAt' \/ Connects(wire.ver, wire.stamp)'
  <2>1. ASSUME wire # NoMessage
        PROVE  Genuine(wire)' /\ (wire'.stamp < refusedAt' \/ Connects(wire.ver, wire.stamp)')
    <3>1. wire \in Messages /\ wire.ver \in Int /\ wire' = wire /\ refusedAt' = refusedAt
      BY <1>0, <2>1, MessageFields DEF IInv, TypeOK, refusals
    <3>2. Genuine(wire) /\ (wire.stamp < refusedAt \/ Connects(wire.ver, wire.stamp))
      BY <2>1 DEF IInv, Stream
    <3>3. ASSUME NEW x \in Messages, Genuine(x) PROVE Genuine(x)'
      BY <3>3, GenuineKept DEF database
    <3>4. Genuine(wire)'
      BY <3>1, <3>2, <3>3 DEF Genuine
    <3>5. Connects(wire.ver, wire.stamp) => Connects(wire.ver, wire.stamp)'
      BY <3>1, <1>8 DEF Connects
    <3> QED BY <3>1, <3>2, <3>4, <3>5
  <2> QED BY <2>1
<1>10. cfg' # Nothing /\ gap' # "mixed" => \E x \in 0..db' : AppliedAt(x)'
  <2>1. ASSUME NEW x \in 0..db, AppliedAt(x) PROVE AppliedAt(x)'
    <3>1. base' /\ gap' = "none" /\ wire' = NoMessage => Connects(x, watermark)'
      BY <1>0, <2>1, <1>8 DEF AppliedAt, Connects, applied, refusals
    <3> QED BY <1>0, <2>1, <3>1 DEF AppliedAt, Fits, applied, refusals
  <2> QED BY <1>0, <2>1 DEF IInv, Stream, database, applied, refusals
<1>11. Up(cp)'
  BY <1>6, PollFacts DEF Up
<1>12. lagged' \in BOOLEAN
  BY <1>1, <1>4
<1>13. Len(queue') <= QueueCap
  BY <1>3, <1>4, <1>5
<1>14. refusedAt' <= loadedAt'[cp']
  <2>1. refusedAt <= loadedAt[c] /\ refusedAt \in Nat /\ loadedAt[c] \in Nat /\ pollAt[c] \in Nat
    BY PollFacts DEF IInv, Stream, TypeOK
  <2> QED BY <1>0, <1>6, <2>1 DEF refusals
<1>15. Stream'
  BY <1>0, <1>7, <1>9, <1>10, <1>11, <1>14 DEF IInv, Stream, applied, refusals
<1> QED BY <1>0, <1>5, <1>12, <1>13, <1>15

\* A configuration is stored and its control plane refuses to send it: what is
\* under way is older, and what is applied lacks it.
LEMMA RefusedToReceiver ==
    ASSUME IInv, NEW c \in CPs, pollAt[c] # 0, cp = c, pc # "idle",
           ver' = [ver EXCEPT ![c] = db], loadedAt' = [loadedAt EXCEPT ![c] = pollAt[c]],
           UNCHANGED <<database, pc, cp, wire, base, applied>>,
           NEW m \in Messages, m.stamp = pollAt[c],
           CannotSend(m), Broadcast(c, m)
    PROVE  /\ UNCHANGED <<queue, lagged>>
           /\ refusedAt' \in Nat /\ gap' \in {"none", "missed", "mixed"}
           /\ Stream'
<1>1. /\ UNCHANGED <<queue, lagged>> /\ refusedAt' = pollAt[c]
      /\ gap' = IF gap = "none" THEN "missed" ELSE gap
  BY DEF Broadcast
<1>2. /\ ver'[cp'] = db /\ loadedAt'[cp'] = pollAt[c] /\ pollAt[c] > loadedAt[c]
      /\ loadedAt[c] \in Nat /\ pollAt[c] \in Nat /\ db \in Nat
  BY PollFacts
<1>3. refusedAt' \in Nat /\ gap' \in {"none", "missed", "mixed"} /\ gap' # "none"
  BY <1>1, <1>2 DEF IInv, TypeOK
<1>4. refusedAt \in Nat /\ refusedAt <= loadedAt[c] /\ refusedAt < refusedAt'
  <2>1. refusedAt \in Nat /\ refusedAt <= loadedAt[c]
    BY DEF IInv, TypeOK, Stream
  <2> QED BY <1>1, <1>2, <2>1
<1>5. ASSUME NEW x \in Messages, Genuine(x)
      PROVE  Genuine(x)' /\ x.stamp \in Nat /\ x.stamp < refusedAt'
  <2>1. Genuine(x)'
    BY <1>5, GenuineKept DEF database
  <2>2. x.stamp \in Nat /\ x.stamp <= loadedAt[c]
    BY <1>5, MessageFields DEF Genuine
  <2> QED BY <1>1, <1>2, <2>1, <2>2
<1>6. queue \in Seq(Messages) /\ Publications(queue) /\ Len(queue) \in Nat
  BY LenProperties DEF IInv, TypeOK, Stream, Retained
<1>7. ASSUME NEW i \in 1..Len(queue) PROVE Genuine(queue[i])' /\ queue[i].stamp < refusedAt'
  <2>1. queue[i] \in Messages /\ Genuine(queue[i])
    BY <1>6, ElementOfSeq DEF Publications
  <2>2. Genuine(queue[i])'
    BY <1>1, <1>5, <2>1 DEF Genuine
  <2> QED BY <1>5, <2>1, <2>2
<1>8. Retained'
  <2>1. \A i \in 1..Len(queue') : Genuine(queue[i])'
    BY <1>1, <1>7
  <2>2. Consecutive(queue)'
    BY <1>1, <1>6, <1>7 DEF Publications, Consecutive
  <2>3. EndsServed(queue)'
    <3>1. queue # <<>> => Len(queue) \in 1..Len(queue)
      BY <1>6, EmptySeq
    <3> QED BY <1>1, <1>7, <3>1 DEF EndsServed
  <2> QED BY <2>1, <2>2, <2>3 DEF Retained, Publications
<1>9. wire' # NoMessage => Genuine(wire)' /\ wire'.stamp < refusedAt'
  <2>1. ASSUME wire # NoMessage PROVE Genuine(wire)' /\ wire'.stamp < refusedAt'
    <3>1. wire \in Messages /\ Genuine(wire) /\ wire' = wire
      BY <2>1 DEF IInv, TypeOK, Stream
    <3> QED BY <1>5, <3>1 DEF Genuine
  <2> QED BY <2>1
<1>10. cfg' # Nothing /\ gap' # "mixed" => \E x \in 0..db' : AppliedAt(x)'
  BY <1>1, <1>3 DEF IInv, Stream, AppliedAt, database, applied
<1>11. Up(cp)' /\ refusedAt' <= loadedAt'[cp']
  BY <1>1, <1>2 DEF Up
<1>12. Stream'
  BY <1>3, <1>8, <1>9, <1>10, <1>11 DEF IInv, Stream, applied
<1> QED BY <1>1, <1>3, <1>12

\* What other control planes do, or any of them without a stream, leaves the
\* stream alone.
LEMMA ServedElsewhere ==
    ASSUME IInv, UNCHANGED <<database, stream, applied>>, loadedAt' \in [CPs -> Nat],
           pc = "idle" \/ (ver'[cp] = ver[cp] /\ loadedAt'[cp] = loadedAt[cp])
    PROVE  Stream'
<1>1. CASE ver'[cp] = ver[cp] /\ loadedAt'[cp] = loadedAt[cp]
  <2>1. ver'[cp'] = ver[cp] /\ loadedAt'[cp'] = loadedAt[cp]
    BY <1>1 DEF stream, refusals
  <2> QED BY <2>1 DEF IInv, Stream, Retained, Publications, Consecutive,
                      EndsServed, Genuine, AppliedAt, Connects, Up, database, stream, refusals, applied
<1>2. CASE pc = "idle"
  <2>1. /\ queue' = <<>> /\ wire' = NoMessage /\ ~base' /\ pc' = "idle" /\ refusedAt' = 0
        /\ cp' \in CPs /\ gap' = gap
    BY <1>2 DEF IInv, TypeOK, stream, refusals
  <2>2. Retained'
    BY <2>1, EmptySeq DEF Retained, Publications, Consecutive, EndsServed
  <2>3. cfg' # Nothing /\ gap' # "mixed" => \E x \in 0..db' : AppliedAt(x)'
    BY <2>1 DEF IInv, Stream, AppliedAt, database, applied
  <2>4. refusedAt' <= loadedAt'[cp']
    BY <2>1
  <2>5. cfg' # Nothing => \A k \in Keys : cfg'[k] # "unset"
    BY DEF IInv, Stream, applied
  <2> QED BY <2>1, <2>2, <2>3, <2>4, <2>5 DEF Stream
<1> QED BY <1>1, <1>2

\* A poll that reads the database stores what is committed by then, under the
\* stamp it took before.
LEMMA PollReadInv ==
    ASSUME IInv, NEW c \in CPs, PollRead(c)
    PROVE  IInv'
<1>1. pollAt[c] # 0 /\ pollAt' = [pollAt EXCEPT ![c] = 0]
  BY DEF PollRead
<1>2. UNCHANGED <<database, clock, pc, cp, wire, base, applied, faults>>
  BY DEF PollRead
<1>3. CASE UNCHANGED <<ver, loadedAt, queue, lagged, refusals>>
  <2>1. TypeOK'
    <3>1. ControlTypes'
      BY <1>1, <1>2, <1>3, PollFacts DEF IInv, TypeOK, ControlTypes, database
    <3>2. StreamTypes'
      BY <1>2, <1>3 DEF IInv, TypeOK, StreamTypes, refusals
    <3>3. AppliedTypes'
      BY <1>2, <1>3 DEF IInv, TypeOK, AppliedTypes, applied
    <3> QED BY <3>1, <3>2, <3>3 DEF TypeOK, ControlTypes, StreamTypes,
         AppliedTypes
  <2>2. Stamps'
    <3>1. \A d \in CPs : pollAt'[d] = 0 \/ pollAt'[d] = pollAt[d]
      BY <1>1, PollFacts
    <3>2. \A d \in CPs : 0 <= clock + Skew[d]
      BY <1>1, PollFacts
    <3> QED BY <1>2, <1>3, <3>1, <3>2 DEF IInv, Stamps, Up, database, applied
  <2>3. Stream'
    BY <1>2, <1>3 DEF IInv, Stream, Retained, Publications, Consecutive,
         EndsServed, Genuine,
                      AppliedAt, Connects, Up, database, applied, refusals
  <2> QED BY <2>1, <2>2, <2>3 DEF IInv
<1>4. CASE /\ ver' = [ver EXCEPT ![c] = db]
           /\ loadedAt' = [loadedAt EXCEPT ![c] = pollAt[c]]
           /\ \/ Broadcast(c, Full(db, pollAt[c]))
              \/ ver[c] \in 0..(db - 1) /\ Broadcast(c, Delta(ver[c], db, pollAt[c]))
  <2>1. PICK m \in Messages :
          /\ m.ver = db /\ m.stamp = pollAt[c] /\ m.from <= db
          /\ m.full \/ m.from = ver[c]
          /\ Broadcast(c, m)
    <3>1. db \in 0..MaxWrites /\ pollAt[c] \in Nat \ {0} /\ MaxWrites \in Nat
      BY <1>1, PollFacts
    <3>2. CASE Broadcast(c, Full(db, pollAt[c]))
      <4>1. Full(db, pollAt[c]) \in Messages
        BY <3>1 DEF Full, Messages
      <4> QED BY <3>1, <3>2, <4>1 DEF Full
    <3>3. CASE ver[c] \in 0..(db - 1) /\ Broadcast(c, Delta(ver[c], db, pollAt[c]))
      <4>1. Delta(ver[c], db, pollAt[c]) \in Messages
        BY <3>1, <3>3 DEF Delta, Messages
      <4> QED BY <3>1, <3>3, <4>1 DEF Delta
    <3> QED BY <1>4, <3>2, <3>3
  <2>2. /\ Stream' /\ queue' \in Seq(Messages) /\ Len(queue') <= QueueCap /\ lagged' \in BOOLEAN
        /\ refusedAt' \in Nat /\ gap' \in {"none", "missed", "mixed"}
        /\ (pc = "idle" => UNCHANGED <<queue, lagged, refusals>>)
    <3>0. /\ queue \in Seq(Messages) /\ Len(queue) <= QueueCap /\ lagged \in BOOLEAN
          /\ refusedAt \in Nat /\ gap \in {"none", "missed", "mixed"}
      BY DEF IInv, TypeOK
    <3>1. CASE cp = c /\ pc # "idle" /\ ~CannotSend(m)
      BY <1>1, <1>2, <1>4, <2>1, <3>0, <3>1, PublishedToReceiver DEF refusals
    <3>2. CASE cp = c /\ pc # "idle" /\ CannotSend(m)
      BY <1>1, <1>2, <1>4, <2>1, <3>0, <3>2, RefusedToReceiver
    <3>3. CASE cp # c \/ pc = "idle"
      <4>1. UNCHANGED <<queue, lagged, refusals>>
        BY <2>1, <3>3 DEF Broadcast
      <4>2. UNCHANGED stream
        BY <1>2, <4>1 DEF stream
      <4>3. pc = "idle" \/ (ver'[cp] = ver[cp] /\ loadedAt'[cp] = loadedAt[cp])
        BY <1>1, <1>4, <3>3, PollFacts DEF IInv, TypeOK
      <4>4. loadedAt' \in [CPs -> Nat]
        BY <1>1, <1>4, PollFacts
      <4>5. Stream'
        BY <1>2, <4>2, <4>3, <4>4, ServedElsewhere
      <4> QED BY <3>0, <4>1, <4>5 DEF refusals
    <3> QED BY <3>1, <3>2, <3>3
  <2>3. TypeOK'
    <3>1. ControlTypes'
      <4>1. ver' \in [CPs -> -1..db]
        BY <1>1, <1>4, PollFacts
      <4>2. loadedAt' \in [CPs -> Nat] /\ pollAt' \in [CPs -> Nat]
        BY <1>1, <1>4, PollFacts
      <4> QED BY <1>2, <4>1, <4>2 DEF IInv, TypeOK, ControlTypes, database
    <3>2. StreamTypes'
      BY <1>2, <2>2 DEF IInv, TypeOK, StreamTypes, refusals
    <3>3. AppliedTypes'
      BY <1>2 DEF IInv, TypeOK, AppliedTypes, applied
    <3> QED BY <3>1, <3>2, <3>3 DEF TypeOK, ControlTypes, StreamTypes,
         AppliedTypes
  <2>4. Stamps'
    <3>1. ASSUME NEW d \in CPs
          PROVE  /\ loadedAt'[d] <= clock' + Skew[d]
                 /\ pollAt'[d] <= clock' + Skew[d]
                 /\ pollAt'[d] # 0 => pollAt'[d] > Skew[d] /\ pollAt'[d] > loadedAt'[d]
                 /\ Up(d)' => loadedAt'[d] > Skew[d] /\ history'[loadedAt'[d] - Skew[d]] <= ver'[d]
      <4>1. CASE d = c
        <5>1. ver'[c] = db /\ loadedAt'[c] = pollAt[c] /\ pollAt'[c] = 0
          BY <1>1, <1>4, PollFacts
        <5> QED BY <1>1, <1>2, <4>1, <5>1, PollFacts DEF database
      <4>2. CASE d # c
        <5>1. ver'[d] = ver[d] /\ loadedAt'[d] = loadedAt[d] /\ pollAt'[d] = pollAt[d]
          BY <1>1, <1>4, <4>2, PollFacts
        <5> QED BY <1>2, <5>1 DEF IInv, Stamps, Up, database
      <4> QED BY <4>1, <4>2
    <3> QED BY <1>2, <3>1 DEF IInv, Stamps, database, applied
  <2> QED BY <2>2, <2>3, <2>4 DEF IInv
<1> QED BY <1>3, <1>4 DEF PollRead, PublishFullReload, PublishIncremental

\* A crash takes the configuration, the poll in flight and the stream with it.
LEMMA CrashInv ==
    ASSUME IInv, NEW c \in CPs, Crash(c)
    PROVE  IInv'
<1>1. /\ ver' = [ver EXCEPT ![c] = -1]
      /\ loadedAt' = [loadedAt EXCEPT ![c] = 0]
      /\ pollAt' = [pollAt EXCEPT ![c] = 0]
      /\ UNCHANGED <<database, clock, applied>>
  BY DEF Crash
<1>2. /\ ver \in [CPs -> -1..db] /\ loadedAt \in [CPs -> Nat] /\ pollAt \in [CPs -> Nat]
      /\ clock \in Nat /\ Skew \in [CPs -> Nat] /\ cp \in CPs
  BY SyncAssumption DEF IInv, TypeOK
<1>3. faults' \in 0..MaxFaults
  BY SyncAssumption DEF IInv, TypeOK, Crash
<1>4. ControlTypes'
  <2>1. ver' \in [CPs -> -1..db]
    <3>1. -1 \in -1..db
      BY SyncAssumption DEF IInv, TypeOK
    <3> QED BY <1>1, <1>2, <3>1
  <2>2. loadedAt' \in [CPs -> Nat] /\ pollAt' \in [CPs -> Nat]
    BY <1>1, <1>2
  <2> QED BY <1>1, <2>1, <2>2 DEF IInv, TypeOK, ControlTypes, database
<1>5. Stamps'
  <2>1. ASSUME NEW d \in CPs
        PROVE  /\ loadedAt'[d] <= clock' + Skew[d]
               /\ pollAt'[d] <= clock' + Skew[d]
               /\ pollAt'[d] # 0 => pollAt'[d] > Skew[d] /\ pollAt'[d] > loadedAt'[d]
               /\ Up(d)' => loadedAt'[d] > Skew[d] /\ history'[loadedAt'[d] - Skew[d]] <= ver'[d]
    <3>1. CASE d = c
      <4>1. ver'[d] = -1 /\ loadedAt'[d] = 0 /\ pollAt'[d] = 0
        BY <1>1, <1>2, <3>1
      <4>2. clock' = clock /\ Skew[d] \in Nat
        BY <1>1, <1>2
      <4> QED BY <1>2, <4>1, <4>2 DEF Up
    <3>2. CASE d # c
      <4>1. ver'[d] = ver[d] /\ loadedAt'[d] = loadedAt[d] /\ pollAt'[d] = pollAt[d]
        BY <1>1, <1>2, <3>2
      <4> QED BY <1>1, <4>1 DEF IInv, Stamps, Up, database
    <3> QED BY <3>1, <3>2
  <2> QED BY <1>1, <2>1 DEF IInv, Stamps, database, applied
<1>6. CASE pc # "idle" /\ cp = c
  <2>1. EndStream /\ AfterCut
    BY <1>6 DEF Crash
  <2>2. cp' \in CPs
    BY <2>1, RotateType, SyncAssumption DEF IInv, AfterCut, CPs
  <2>3. Stream' /\ queue' \in Seq(Messages) /\ Len(queue') = 0
    BY <1>1, <1>4, <2>1, <2>2, EndStreamInv DEF applied, ControlTypes
  <2>4. Len(queue') <= QueueCap /\ queue' = <<>> /\ pc' = "idle" /\ wire' = NoMessage
    BY <2>1, <2>3, SyncAssumption DEF EndStream
  <2>5. /\ lagged' = FALSE /\ base' = FALSE /\ refusedAt' = 0
        /\ gap' \in {"none", "missed", "mixed"} /\ gap' # "missed"
    BY <2>1 DEF EndStream, IInv, TypeOK
  <2>6. StreamTypes'
    BY <2>2, <2>3, <2>4, <2>5 DEF StreamTypes
  <2>7. AppliedTypes'
    BY <1>1, <1>3, <2>5 DEF IInv, TypeOK, AppliedTypes, applied
  <2> QED BY <1>4, <1>5, <2>3, <2>6, <2>7 DEF IInv, TypeOK, ControlTypes,
       StreamTypes, AppliedTypes
<1>7. CASE ~(pc # "idle" /\ cp = c)
  <2>1. UNCHANGED stream
    BY <1>7 DEF Crash
  <2>2. pc = "idle" \/ (ver'[cp] = ver[cp] /\ loadedAt'[cp] = loadedAt[cp])
    BY <1>1, <1>2, <1>7
  <2>3. Stream'
    BY <1>1, <1>4, <2>1, <2>2, ServedElsewhere DEF ControlTypes
  <2>4. StreamTypes' /\ AppliedTypes'
    BY <1>1, <1>3, <2>1 DEF IInv, TypeOK, StreamTypes, AppliedTypes, stream,
         refusals, applied
  <2> QED BY <1>4, <1>5, <2>3, <2>4 DEF IInv, TypeOK, ControlTypes,
       StreamTypes, AppliedTypes
<1> QED BY <1>6, <1>7

-----------------------------------------------------------------------------
(* The subscription.                                                       *)

\* A failed attempt only moves to the next control plane.
LEMMA ConnectFailsInv ==
    ASSUME IInv, ConnectFails
    PROVE  IInv'
<1>1. cp' \in CPs
  BY RotateType DEF IInv, ConnectFails
<1>2. /\ pc' = "idle" /\ queue' = <<>> /\ wire' = NoMessage /\ ~base' /\ ~lagged' /\ refusedAt' = 0
      /\ UNCHANGED <<queue, lagged, wire, base, refusedAt, gap, database,
                     control, applied, faults>>
  BY DEF ConnectFails, IInv, TypeOK, refusals
<1>3. TypeOK'
  BY <1>1, <1>2 DEF IInv, TypeOK, ConnectFails, database, control, applied
<1>4. Stamps'
  BY <1>2 DEF IInv, Stamps, Up, database, control, applied
<1>5. Retained'
  BY <1>2, EmptySeq DEF Retained, Publications, Consecutive, EndsServed
<1>6. cfg' # Nothing /\ gap' # "mixed" => \E x \in 0..db' : AppliedAt(x)'
  BY <1>2 DEF IInv, Stream, AppliedAt, database, applied
<1>7. Stream'
  <2>1. refusedAt' <= loadedAt'[cp']
    BY <1>1, <1>2, <1>3 DEF TypeOK
  <2>2. cfg' # Nothing => \A k \in Keys : cfg'[k] # "unset"
    BY <1>2 DEF IInv, Stream, applied
  <2> QED BY <1>2, <1>5, <1>6, <2>1, <2>2 DEF Stream
<1> QED BY <1>3, <1>4, <1>7 DEF IInv

\* A new receiver has nothing retained, and no base yet.
LEMMA ConnectInv ==
    ASSUME IInv, Connect
    PROVE  IInv'
<1>1. /\ pc' = "registered" /\ wire = NoMessage /\ ~base /\ Up(cp)
      /\ UNCHANGED <<database, control, cp, queue, lagged, wire, base,
                     refusals, applied, faults>>
  BY DEF Connect, IInv, TypeOK
<1>2. TypeOK'
  BY <1>1 DEF IInv, TypeOK, database, control, applied, refusals
<1>3. Stamps'
  BY <1>1 DEF IInv, Stamps, Up, database, control, applied
<1>4. Stream'
  BY <1>1 DEF IInv, Stream, Retained, Publications, Consecutive, EndsServed,
       Genuine,
              AppliedAt, Connects, Up, database, control, applied, refusals
<1> QED BY <1>2, <1>3, <1>4 DEF IInv

\* The snapshot of what is served connects to everything the receiver retains:
\* the oldest message is the last one or older than the snapshot.
LEMMA SnapshotConnects ==
    ASSUME IInv, pc # "idle"
    PROVE  /\ Full(ver[cp], loadedAt[cp]) \in Messages
           /\ Genuine(Full(ver[cp], loadedAt[cp]))
           /\ queue = <<>> \/ Fits(Head(queue), ver[cp], loadedAt[cp])
<1>1. Up(cp) /\ cp \in CPs
  BY DEF IInv, TypeOK, Stream
<1>2. /\ ver[cp] \in 0..MaxWrites /\ loadedAt[cp] \in Nat /\ loadedAt[cp] > Skew[cp]
      /\ Skew[cp] \in Nat /\ history[loadedAt[cp] - Skew[cp]] <= ver[cp]
  <2>1. ver[cp] \in -1..db /\ db \in 0..MaxWrites /\ MaxWrites \in Nat
    BY <1>1, SyncAssumption DEF IInv, TypeOK
  <2>2. loadedAt[cp] \in Nat /\ Skew[cp] \in Nat
    BY <1>1, SyncAssumption DEF IInv, TypeOK
  <2>3. loadedAt[cp] > Skew[cp] /\ history[loadedAt[cp] - Skew[cp]] <= ver[cp]
    BY <1>1 DEF IInv, Stamps
  <2> QED BY <1>1, <2>1, <2>2, <2>3 DEF Up
<1>3. Full(ver[cp], loadedAt[cp]) \in Messages
  <2>1. loadedAt[cp] \in Nat \ {0} /\ 0 \in 0..MaxWrites
    BY <1>2, SyncAssumption
  <2> QED BY <1>2, <2>1 DEF Full, Messages
<1>4. Genuine(Full(ver[cp], loadedAt[cp]))
  BY <1>2 DEF Full, Genuine
<1>5. ASSUME queue # <<>> PROVE Fits(Head(queue), ver[cp], loadedAt[cp])
  <2>1. /\ queue \in Seq(Messages) /\ Len(queue) \in Nat \ {0}
        /\ 1 \in 1..Len(queue) /\ Len(queue) \in 1..Len(queue)
    BY <1>5, EmptySeq DEF IInv, TypeOK
  <2>2. Head(queue) = queue[1]
    BY <2>1
  <2>3. Genuine(queue[1]) /\ queue[1] \in Messages
    BY <2>1, ElementOfSeq DEF IInv, Stream, Retained, Publications
  <2>4. queue[1].from <= ver[cp] /\ queue[1].ver <= ver[cp]
    BY <1>2, <2>3, MessageFields DEF Genuine
  <2>5. \/ queue[Len(queue)].ver = ver[cp] /\ queue[Len(queue)].stamp = loadedAt[cp]
        \/ queue[Len(queue)].stamp < refusedAt
    BY <1>5 DEF IInv, Stream, Retained, Publications, EndsServed
  <2>6. CASE Len(queue) = 1
    <3>1. queue[1].stamp \in Nat /\ refusedAt \in Nat /\ refusedAt <= loadedAt[cp]
      BY <2>3, MessageFields DEF IInv, TypeOK, Stream
    <3>2. ver[cp] <= queue[1].ver \/ queue[1].stamp < loadedAt[cp]
      BY <1>2, <2>5, <2>6, <3>1
    <3> QED BY <2>2, <2>4, <3>2 DEF Fits
  <2>7. CASE Len(queue) # 1
    <3>1. 1 < Len(queue)
      <4>1. Len(queue) \in Nat \ {0}
        BY <2>1
      <4> QED BY <2>7, <4>1
    <3>2. queue[1].stamp < queue[Len(queue)].stamp
      BY <2>1, <3>1 DEF IInv, Stream, Retained, Publications, Consecutive
    <3>3. queue[Len(queue)] \in Messages /\ queue[Len(queue)].stamp <= loadedAt[cp]
      BY <2>1, ElementOfSeq DEF IInv, Stream, Retained, Publications, Genuine
    <3>4. queue[1].stamp < loadedAt[cp]
      BY <1>2, <2>3, <3>2, <3>3, MessageFields
    <3> QED BY <2>2, <2>4, <3>4 DEF Fits
  <2> QED BY <2>6, <2>7
<1> QED BY <1>3, <1>4, <1>5

\* The initial snapshot is what is served, and the ring goes on from there; if it
\* cannot be sent there is no stream.
LEMMA SnapshotInv ==
    ASSUME IInv, Snapshot
    PROVE  IInv'
<1>1. CASE CannotSend(Full(ver[cp], loadedAt[cp]))
  <2>1. EndStream /\ Rotate /\ UNCHANGED <<database, control, applied, faults>>
    BY <1>1 DEF Snapshot
  <2>2. cp' \in CPs
    BY <2>1, RotateType DEF IInv
  <2> QED BY <2>1, <2>2, EndsInv DEF IInv, TypeOK, applied
<1>2. CASE ~CannotSend(Full(ver[cp], loadedAt[cp]))
  <2>1. /\ pc = "registered" /\ pc' = "open" /\ wire' = Full(ver[cp], loadedAt[cp]) /\ ~base
        /\ UNCHANGED <<database, control, cp, queue, lagged, base, refusals,
                       applied, faults>>
    BY <1>2 DEF Snapshot, IInv, TypeOK
  <2>2. /\ wire' \in Messages /\ Genuine(wire')
        /\ queue = <<>> \/ Fits(Head(queue), ver[cp], loadedAt[cp])
    BY <2>1, SnapshotConnects
  <2>3. TypeOK'
    <3>1. ControlTypes' /\ AppliedTypes'
      BY <2>1 DEF IInv, TypeOK, ControlTypes, AppliedTypes, database, control,
           applied
    <3>2. StreamTypes'
      BY <2>1, <2>2 DEF IInv, TypeOK, StreamTypes, refusals
    <3> QED BY <3>1, <3>2 DEF TypeOK, ControlTypes, StreamTypes, AppliedTypes
  <2>4. Stamps'
    BY <2>1 DEF IInv, Stamps, Up, database, control, applied
  <2>5. Genuine(wire)'
    BY <2>1, <2>2 DEF Genuine, database, control
  <2>6. Connects(wire.ver, wire.stamp)'
    BY <2>1, <2>2 DEF Connects, Fits, Full, control
  <2>7. Retained' /\ Up(cp)' /\ refusedAt' <= loadedAt'[cp']
    BY <2>1 DEF IInv, Stream, Retained, Publications, Consecutive, EndsServed,
         Genuine, Up,
                database, control, refusals
  <2>8. cfg' # Nothing /\ gap' # "mixed" => \E x \in 0..db' : AppliedAt(x)'
    BY <2>1 DEF IInv, Stream, AppliedAt, database, applied, refusals
  <2>9. Stream'
    BY <2>1, <2>5, <2>6, <2>7, <2>8 DEF IInv, Stream, applied
  <2> QED BY <2>3, <2>4, <2>9 DEF IInv
<1> QED BY <1>1, <1>2

\* The oldest retained message is put on the wire: the next one starts where it
\* ends, and if there is none, it is what is served; or something newer than it
\* was refused.
LEMMA HeadConnects ==
    ASSUME IInv, queue # <<>>
    PROVE  /\ Head(queue) \in Messages /\ Genuine(Head(queue))
           /\ Tail(queue) \in Seq(Messages) /\ Len(Tail(queue)) <= QueueCap
           /\ Publications(Tail(queue))
           /\ \/ Head(queue).stamp < refusedAt
              \/ Tail(queue) = <<>> /\ Head(queue).ver = ver[cp]
              \/ Tail(queue) # <<>> /\ Fits(Head(Tail(queue)), Head(queue).ver, Head(queue).stamp)
<1>1. queue \in Seq(Messages) /\ Len(queue) <= QueueCap /\ Publications(queue)
  BY DEF IInv, TypeOK, Stream, Retained
<1>2. Len(queue) \in Nat \ {0}
  BY <1>1, EmptySeq
<1>3. /\ Head(queue) \in Messages /\ Tail(queue) \in Seq(Messages)
      /\ Len(Tail(queue)) = Len(queue) - 1
      /\ \A i \in 1..Len(Tail(queue)) : Tail(queue)[i] = queue[i + 1]
  BY <1>1, HeadTailProperties
<1>4. Head(queue) = queue[1] /\ 1 \in 1..Len(queue)
  BY <1>1, <1>2
<1>5. Genuine(Head(queue))
  BY <1>1, <1>4 DEF Publications
<1>6. Publications(Tail(queue))
  BY <1>1, PublicationsTail
<1>7. Len(Tail(queue)) <= QueueCap
  BY <1>1, <1>2, <1>3, SyncAssumption
<1>8. CASE Tail(queue) = <<>>
  <2>1. Len(queue) = 1
    BY <1>2, <1>3, <1>8, EmptySeq
  <2>2. Head(queue).ver = ver[cp] \/ Head(queue).stamp < refusedAt
    BY <1>1, <1>4, <2>1 DEF Publications, EndsServed
  <2> QED BY <1>3, <1>5, <1>6, <1>7, <1>8, <2>2
<1>9. CASE Tail(queue) # <<>>
  <2>1. Len(Tail(queue)) \in Nat \ {0}
    BY <1>3, <1>9, EmptySeq
  <2>2. 2 \in 1..Len(queue) /\ 1 \in 1..Len(Tail(queue))
    BY <1>2, <1>3, <2>1
  <2>3. Head(Tail(queue)) = Tail(queue)[1]
    BY <1>3, <2>1
  <2>4. Tail(queue)[1] = queue[2]
    BY <1>3, <2>2
  <2>5. /\ queue[1].ver <= queue[2].ver
        /\ queue[2].full \/ queue[2].from = queue[1].ver \/ queue[1].stamp < refusedAt
    <3>1. 1 < 2 /\ 2 = 1 + 1
      OBVIOUS
    <3> QED BY <1>1, <1>4, <2>2, <3>1 DEF Publications, Consecutive
  <2>6. queue[1].ver \in Nat
    BY <1>3, <1>4, MessageFields
  <2>7. \/ Head(queue).stamp < refusedAt
        \/ Fits(Head(Tail(queue)), Head(queue).ver, Head(queue).stamp)
    <3>1. queue[1].stamp < refusedAt \/ Fits(queue[2], queue[1].ver, queue[1].stamp)
      BY <2>5, <2>6 DEF Fits
    <3> QED BY <1>4, <2>3, <2>4, <3>1
  <2> QED BY <1>3, <1>5, <1>6, <1>7, <1>9, <2>7
<1> QED BY <1>8, <1>9

\* The snapshot for a lagged receiver goes on the wire.
LEMMA RecoveryInv ==
    ASSUME IInv, pc = "open", wire = NoMessage,
           wire' = Full(ver[cp], loadedAt[cp]), lagged' = FALSE,
           UNCHANGED <<database, control, pc, cp, queue, base, refusals,
                       applied, faults>>
    PROVE  IInv'
<1>1. /\ wire' \in Messages /\ Genuine(wire')
      /\ queue = <<>> \/ Fits(Head(queue), ver[cp], loadedAt[cp])
  BY SnapshotConnects
<1>2. ControlTypes' /\ AppliedTypes'
  BY DEF IInv, TypeOK, ControlTypes, AppliedTypes, database, control, applied
<1>3. StreamTypes'
  BY <1>1 DEF IInv, TypeOK, StreamTypes, refusals
<1>4. Stamps'
  BY DEF IInv, Stamps, Up, database, control, applied
<1>5. Genuine(wire)'
  BY <1>1 DEF Genuine, database, control
<1>6. Connects(wire.ver, wire.stamp)'
  BY <1>1 DEF Connects, Fits, Full, control
<1>7. Retained' /\ Up(cp)' /\ refusedAt' <= loadedAt'[cp']
  BY DEF IInv, Stream, Retained, Publications, Consecutive, EndsServed,
       Genuine, Up,
         database, control, refusals
<1>8. wire' # NoMessage /\ wire'.full
  BY <1>1, MessageFields DEF Full
<1>9. cfg' # Nothing /\ gap' # "mixed" => \E x \in 0..db' : AppliedAt(x)'
  BY <1>8 DEF IInv, Stream, AppliedAt, Fits, database, applied, refusals
<1>10. Stream'
  BY <1>5, <1>6, <1>7, <1>9 DEF IInv, Stream, applied, refusals
<1> QED BY <1>2, <1>3, <1>4, <1>10 DEF IInv, TypeOK, ControlTypes,
     StreamTypes, AppliedTypes

\* The oldest retained message goes on the wire.
LEMMA SendNextInv ==
    ASSUME IInv, pc = "open", wire = NoMessage, ~lagged, SendNext,
           UNCHANGED <<lagged, database, control, applied, faults>>
    PROVE  IInv'
<1>1. /\ queue # <<>> /\ wire' = Head(queue) /\ queue' = Tail(queue) /\ lagged' = lagged
      /\ UNCHANGED <<pc, cp, base, refusals>>
  BY DEF SendNext
<1>2. /\ wire' \in Messages /\ Genuine(wire')
      /\ queue' \in Seq(Messages) /\ Len(queue') <= QueueCap
      /\ Publications(queue')
      /\ \/ wire'.stamp < refusedAt
         \/ queue' = <<>> /\ wire'.ver = ver[cp]
         \/ queue' # <<>> /\ Fits(Head(queue'), wire'.ver, wire'.stamp)
  BY <1>1, HeadConnects
<1>3. ControlTypes' /\ AppliedTypes'
  BY <1>1 DEF IInv, TypeOK, ControlTypes, AppliedTypes, database, control,
       applied
<1>4. StreamTypes'
  BY <1>1, <1>2 DEF IInv, TypeOK, StreamTypes, refusals
<1>5. Stamps'
  BY DEF IInv, Stamps, Up, database, control, applied
<1>6. Genuine(wire)'
  BY <1>1, <1>2 DEF Genuine, database, control
<1>7. wire'.stamp < refusedAt' \/ Connects(wire.ver, wire.stamp)'
  BY <1>1, <1>2 DEF Connects, Fits, control, refusals
<1>8. Retained' /\ Up(cp)' /\ refusedAt' <= loadedAt'[cp']
  BY <1>1, <1>2 DEF IInv, Stream, Retained, Publications, Consecutive,
       EndsServed, Genuine, Up,
                    database, control, refusals
<1>9. wire' # NoMessage
  BY <1>2, MessageFields
<1>10. \A x \in 0..db : AppliedAt(x) => AppliedAt(x)'
  BY <1>1, <1>9 DEF AppliedAt, Connects, Fits, applied, refusals
<1>11. Stream'
  BY <1>1, <1>6, <1>7, <1>8, <1>10 DEF IInv, Stream, database, applied, refusals
<1> QED BY <1>3, <1>4, <1>5, <1>11 DEF IInv, TypeOK, ControlTypes,
     StreamTypes, AppliedTypes

\* The next message or the snapshot for a lagged receiver goes on the wire, or
\* the stream ends because that snapshot cannot be sent.
LEMMA ForwardInv ==
    ASSUME IInv, Forward
    PROVE  IInv'
<1>1. pc = "open" /\ wire = NoMessage /\ UNCHANGED <<database, control,
                                                     applied, faults>>
  BY DEF Forward
<1>2. CASE EndStream /\ AfterCut
  <2>1. cp' \in CPs
    BY <1>2, RotateType, SyncAssumption DEF IInv, AfterCut, CPs
  <2> QED BY <1>1, <1>2, <2>1, EndsInv DEF IInv, TypeOK, applied
<1>3. CASE /\ wire' = Full(ver[cp], loadedAt[cp]) /\ lagged' = FALSE
           /\ UNCHANGED <<pc, cp, queue, base, refusals>>
  BY <1>1, <1>3, RecoveryInv
<1>4. CASE ~lagged /\ SendNext /\ UNCHANGED lagged
  BY <1>1, <1>4, SendNextInv
<1> QED BY <1>2, <1>3, <1>4 DEF Forward

-----------------------------------------------------------------------------
(* The data plane.                                                         *)

\* A message that is applied raises the watermark to its stamp at least, and
\* leaves what is retained alone.
LEMMA AcceptedMessage ==
    ASSUME IInv, pc = "open", wire # NoMessage, ~FutureStamp(wire),
           cfg' # Nothing, watermark' = Later(watermark, wire.stamp), source' = cp,
           diverged' \in BOOLEAN, base' = TRUE, wire' = NoMessage,
           gap' \in {"none", "missed", "mixed"},
           UNCHANGED <<pc, cp, queue, lagged, refusedAt, database, control,
                       faults>>
    PROVE  /\ TypeOK' /\ Stamps' /\ Retained' /\ Up(cp)' /\ refusedAt' <= loadedAt'[cp']
           /\ wire.ver \in 0..db /\ wire.ver \in 0..MaxWrites /\ wire.stamp \in Nat
           /\ watermark' \in Nat /\ wire.stamp <= watermark'
<1>1. wire \in Messages /\ Genuine(wire)
  BY DEF IInv, TypeOK, Stream
<1>2. wire.ver \in 0..MaxWrites /\ wire.ver \in Nat /\ wire.stamp \in Nat \ {0}
  BY <1>1, MessageFields
<1>3. /\ watermark \in Nat /\ clock \in Nat /\ Tolerance \in Nat /\ cp \in CPs
      /\ watermark <= clock + Tolerance
  BY SyncAssumption DEF IInv, TypeOK, Stamps
<1>4. /\ watermark' \in Nat \ {0} /\ watermark' <= clock + Tolerance
      /\ wire.stamp <= watermark' /\ watermark <= watermark'
      /\ watermark' = watermark \/ watermark' = wire.stamp
  BY <1>2, <1>3 DEF Later, FutureStamp
<1>5. wire.ver \in 0..db
  <2>1. ver[cp] \in -1..db /\ db \in 0..MaxWrites /\ wire.ver <= ver[cp]
    BY <1>1, <1>3 DEF IInv, TypeOK, Genuine
  <2> QED BY <1>2, <2>1
<1>6. TypeOK'
  <2>1. ControlTypes'
    BY DEF IInv, TypeOK, ControlTypes, database, control
  <2>2. StreamTypes'
    BY DEF IInv, TypeOK, StreamTypes
  <2>3. AppliedTypes'
    BY <1>3, <1>4 DEF IInv, TypeOK, AppliedTypes, control
  <2> QED BY <2>1, <2>2, <2>3 DEF TypeOK, ControlTypes, StreamTypes,
       AppliedTypes
<1>7. Stamps'
  <2>1. ASSUME \A c \in CPs : Skew[c] = 0 PROVE watermark' <= clock
    <3>1. loadedAt[cp] <= clock + Skew[cp] /\ Skew[cp] = 0 /\ loadedAt[cp] \in Nat
      BY <1>3, <2>1 DEF IInv, Stamps, TypeOK
    <3>2. wire.stamp <= loadedAt[cp]
      BY <1>1 DEF Genuine
    <3>3. watermark <= clock
      BY <2>1 DEF IInv, Stamps
    <3> QED BY <1>2, <1>3, <1>4, <3>1, <3>2, <3>3
  <2>2. clock' = clock /\ watermark' \in Nat
    BY <1>4 DEF control
  <2> QED BY <2>1, <2>2 DEF IInv, Stamps, Up, database, control
<1>8. Retained' /\ Up(cp)' /\ refusedAt' <= loadedAt'[cp']
  BY DEF IInv, Stream, Retained, Publications, Consecutive, EndsServed,
       Genuine, Up,
         database, control
<1> QED BY <1>2, <1>4, <1>5, <1>6, <1>7, <1>8

\* A message that leaves its own configuration in force, and is not older than
\* what was refused: what follows it connects.
LEMMA AcceptInv ==
    ASSUME IInv, pc = "open", wire # NoMessage, ~FutureStamp(wire), ~(wire.stamp < refusedAt),
           cfg' = Content(wire.ver), watermark' = Later(watermark, wire.stamp), source' = cp,
           diverged' \in BOOLEAN, base' = TRUE, wire' = NoMessage, gap' = "none",
           UNCHANGED <<pc, cp, queue, lagged, refusedAt, database, control,
                       faults>>
    PROVE  IInv'
<1>1. Connects(wire.ver, wire.stamp) /\ refusedAt \in Nat /\ wire \in Messages
  BY DEF IInv, TypeOK, Stream
<1>2. wire.ver \in 0..MaxWrites
  BY <1>1, MessageFields
<1>3. cfg' # Nothing /\ \A k \in Keys : cfg'[k] # "unset"
  BY <1>2, ContentDefined
<1>4. /\ TypeOK' /\ Stamps' /\ Retained' /\ Up(cp)' /\ refusedAt' <= loadedAt'[cp']
      /\ wire.ver \in 0..db /\ wire.stamp \in Nat
      /\ watermark' \in Nat /\ wire.stamp <= watermark'
  BY <1>3, AcceptedMessage
<1>5. refusedAt' <= watermark'
  BY <1>1, <1>4
<1>6. ASSUME NEW v, v = wire.ver PROVE AppliedAt(v)'
  <2>1. CASE lagged
    BY <1>6, <2>1 DEF AppliedAt, Connects
  <2>2. CASE queue = <<>> /\ wire.ver = ver[cp]
    BY <1>6, <2>2 DEF AppliedAt, Connects, control
  <2>3. CASE queue # <<>> /\ Fits(Head(queue), wire.ver, wire.stamp)
    <3>1. Head(queue) \in Messages
      BY <2>3, HeadConnects
    <3>2. Fits(Head(queue), wire.ver, watermark')
      BY <1>4, <2>3, <3>1, MessageFields DEF Fits
    <3>3. queue' = queue /\ queue' # <<>> /\ base' = TRUE /\ wire' = NoMessage
      BY <2>3
    <3> QED BY <1>6, <3>2, <3>3 DEF AppliedAt, Connects, Fits
  <2> QED BY <1>1, <2>1, <2>2, <2>3 DEF Connects
<1>7. Stream'
  <2>1. PICK v \in 0..db : v = wire.ver
    BY <1>4
  <2>2. AppliedAt(v)' /\ v \in 0..db'
    BY <1>6, <2>1 DEF database
  <2> QED BY <1>3, <1>4, <1>5, <2>2 DEF Stream
<1> QED BY <1>4, <1>7 DEF IInv

\* A snapshot from before a refused publication: its configuration is in force,
\* and what was refused is missing again.
LEMMA AcceptOldInv ==
    ASSUME IInv, pc = "open", wire # NoMessage, ~FutureStamp(wire),
           cfg' = Content(wire.ver), watermark' = Later(watermark, wire.stamp), source' = cp,
           diverged' \in BOOLEAN, base' = TRUE, wire' = NoMessage, gap' = "missed",
           UNCHANGED <<pc, cp, queue, lagged, refusedAt, database, control,
                       faults>>
    PROVE  IInv'
<1>1. wire.ver \in 0..MaxWrites
  BY MessageFields DEF IInv, TypeOK
<1>2. cfg' # Nothing /\ \A k \in Keys : cfg'[k] # "unset"
  BY <1>1, ContentDefined
<1>3. /\ TypeOK' /\ Stamps' /\ Retained' /\ Up(cp)' /\ refusedAt' <= loadedAt'[cp']
      /\ wire.ver \in 0..db
  BY <1>2, AcceptedMessage
<1>4. PICK v \in 0..db : v = wire.ver
  BY <1>3
<1>5. AppliedAt(v)' /\ v \in 0..db'
  BY <1>4 DEF AppliedAt, database
<1>6. Stream'
  BY <1>2, <1>3, <1>5 DEF Stream
<1> QED BY <1>3, <1>6 DEF IInv

\* A delta that is applied while something is missing.
LEMMA AcceptMixedInv ==
    ASSUME IInv, pc = "open", wire # NoMessage, ~FutureStamp(wire), base,
           cfg' = ApplyDelta(cfg, wire.from, wire.ver),
           watermark' = Later(watermark, wire.stamp), source' = cp,
           diverged' \in BOOLEAN, base' = TRUE, wire' = NoMessage, gap' = "mixed",
           UNCHANGED <<pc, cp, queue, lagged, refusedAt, database, control,
                       faults>>
    PROVE  IInv'
<1>1. wire.ver \in 0..MaxWrites
  BY MessageFields DEF IInv, TypeOK
<1>2. \A k \in Keys : cfg[k] # "unset" /\ Content(wire.ver)[k] # "unset"
  BY <1>1, ContentDefined DEF IInv, TypeOK, Stream
<1>3. \A k \in Keys : cfg'[k] # "unset"
  BY <1>2 DEF ApplyDelta
<1>4. cfg' # Nothing
  <2>1. PICK k \in Keys : TRUE
    BY SyncAssumption
  <2>2. Nothing[k] = "unset"
    BY DEF Nothing
  <2> QED BY <1>3, <2>2
<1>5. TypeOK' /\ Stamps' /\ Retained' /\ Up(cp)' /\ refusedAt' <= loadedAt'[cp']
  BY <1>4, AcceptedMessage
<1>6. Stream'
  BY <1>3, <1>5 DEF Stream
<1> QED BY <1>5, <1>6 DEF IInv

\* The data plane stays at its control plane or moves on when it ends a stream.
LEMMA MovesOn ==
    ASSUME IInv
    PROVE  /\ Unserved => EndStream /\ cp' \in CPs
           /\ FailOver => EndStream /\ cp' \in CPs
<1>1. cp \in CPs /\ TypeOK
  BY DEF IInv, TypeOK
<1> QED BY <1>1, RotateType DEF Unserved, FailOver

\* A snapshot is applied whole, or refused.
LEMMA ReceiveFullInv ==
    ASSUME IInv, ReceiveFull
    PROVE  IInv'
<1>1. pc = "open" /\ wire # NoMessage /\ UNCHANGED <<database, control, faults>>
  BY DEF ReceiveFull
<1>2. diverged \in BOOLEAN /\ faults \in 0..MaxFaults
  BY DEF IInv, TypeOK
<1>3. CASE (Unserved \/ FailOver) /\ diverged' \in {diverged, TRUE}
           /\ UNCHANGED <<cfg, watermark, source>>
  BY <1>1, <1>2, <1>3, MovesOn, EndsInv
<1>4. CASE /\ ~FutureStamp(wire)
           /\ cfg' = Content(wire.ver)
           /\ watermark' = Later(watermark, wire.stamp)
           /\ source' = cp
           /\ diverged' = FALSE
           /\ base' = TRUE
           /\ wire' = NoMessage
           /\ gap' = IF wire.stamp < refusedAt THEN "missed" ELSE "none"
           /\ UNCHANGED <<pc, cp, queue, lagged, refusedAt>>
  <2>1. CASE wire.stamp < refusedAt
    BY <1>1, <1>4, <2>1, AcceptOldInv
  <2>2. CASE ~(wire.stamp < refusedAt)
    BY <1>1, <1>4, <2>2, AcceptInv
  <2> QED BY <2>1, <2>2
<1> QED BY <1>3, <1>4 DEF ReceiveFull, applied

\* If nothing is missing, a delta that is neither refused nor behind the
\* watermark is applied to a configuration between the two it was computed from,
\* and is newer than anything that was refused.
LEMMA DeltaFits ==
    ASSUME IInv, wire # NoMessage, ~wire.full, base, gap = "none", ~(wire.stamp < watermark)
    PROVE  /\ ApplyDelta(cfg, wire.from, wire.ver) = Content(wire.ver)
           /\ ~(wire.stamp < refusedAt)
<1>1. cfg # Nothing
  BY DEF IInv, TypeOK
<1>2. PICK x \in 0..db : cfg = Content(x) /\ Fits(wire, x, watermark)
  BY <1>1 DEF IInv, Stream, AppliedAt
<1>3. wire \in Messages /\ Genuine(wire)
  BY DEF IInv, TypeOK, Stream
<1>4. wire.ver \in 0..MaxWrites /\ wire.from \in 0..MaxWrites
  BY <1>3, MessageFields
<1>5. wire.from \in 0..wire.ver /\ x \in wire.from..wire.ver
  BY <1>2, <1>3, <1>4 DEF Genuine, Fits
<1>6. ApplyDelta(cfg, wire.from, wire.ver) = Content(wire.ver)
  BY <1>2, <1>4, <1>5, DeltaApplies
<1>7. refusedAt <= watermark /\ refusedAt \in Nat /\ watermark \in Nat /\ wire.stamp \in Nat
  BY <1>3, MessageFields DEF IInv, TypeOK, Stamps, Stream
<1> QED BY <1>6, <1>7

\* A delta is applied to the configuration it starts from, or refused; or the
\* configuration was mixed by a refused publication, and still is.
LEMMA ReceiveDeltaInv ==
    ASSUME IInv, ReceiveDelta
    PROVE  IInv'
<1>1. pc = "open" /\ wire # NoMessage /\ ~wire.full /\ UNCHANGED <<database, control, faults>>
  BY DEF ReceiveDelta
<1>2. diverged \in BOOLEAN /\ faults \in 0..MaxFaults /\ cp \in CPs
  BY DEF IInv, TypeOK
<1>3. CASE FailOver /\ diverged' \in {diverged, TRUE} /\ UNCHANGED <<cfg, watermark, source>>
  BY <1>1, <1>2, <1>3, MovesOn, EndsInv
<1>4. CASE EndStream /\ UNCHANGED cp /\ diverged' = TRUE /\ UNCHANGED <<cfg, watermark, source>>
  BY <1>1, <1>2, <1>4, EndsInv
<1>5. CASE /\ base /\ ~FutureStamp(wire) /\ ~(wire.stamp < watermark)
           /\ cfg' = ApplyDelta(cfg, wire.from, wire.ver)
           /\ watermark' = Later(watermark, wire.stamp)
           /\ source' = cp
           /\ wire' = NoMessage
           /\ gap' = IF gap = "none" THEN "none" ELSE "mixed"
           /\ UNCHANGED <<pc, cp, queue, lagged, base, refusedAt, diverged>>
  <2>1. base' = TRUE
    BY <1>5 DEF IInv, TypeOK
  <2>2. CASE gap = "none"
    <3>1. cfg' = Content(wire.ver) /\ ~(wire.stamp < refusedAt)
      BY <1>1, <1>5, <2>2, DeltaFits
    <3> QED BY <1>1, <1>2, <1>5, <2>1, <2>2, <3>1, AcceptInv
  <2>3. CASE gap # "none"
    BY <1>1, <1>2, <1>5, <2>1, <2>3, AcceptMixedInv
  <2> QED BY <2>2, <2>3
<1> QED BY <1>3, <1>4, <1>5 DEF ReceiveDelta, applied

-----------------------------------------------------------------------------
(* The theorems.                                                           *)

\* A step that changes nothing.
LEMMA StutterInv ==
    ASSUME IInv, UNCHANGED vars
    PROVE  IInv'
<1>1. UNCHANGED <<database, control, stream, applied, faults>>
  BY DEF vars
<1>2. ControlTypes' /\ StreamTypes' /\ AppliedTypes'
  BY <1>1 DEF IInv, TypeOK, ControlTypes, StreamTypes, AppliedTypes, database,
       control, stream, refusals, applied
<1>3. Stamps'
  BY <1>1 DEF IInv, Stamps, Up, database, control, applied
<1>4. Stream'
  <2>1. loadedAt' \in [CPs -> Nat]
    BY <1>1 DEF IInv, TypeOK, control
  <2> QED BY <1>1, <2>1, ServedElsewhere DEF control, stream, refusals
<1> QED BY <1>2, <1>3, <1>4 DEF IInv, TypeOK, ControlTypes, StreamTypes,
     AppliedTypes

\* The inductive invariant: the chain of what is under way and the stamps of
\* what is served.
THEOREM SyncInvariant == SafeSpec => []IInv
<1>1. ASSUME IInv, [Next]_vars PROVE IInv'
  <2>1. CASE Write
    BY <1>1, <2>1, WriteInv
  <2>2. ASSUME NEW c \in CPs, PollStart(c) PROVE IInv'
    BY <1>1, <2>2, PollStartInv
  <2>3. ASSUME NEW c \in CPs, PollRead(c) PROVE IInv'
    BY <1>1, <2>3, PollReadInv
  <2>4. ASSUME NEW c \in CPs, Crash(c) PROVE IInv'
    BY <1>1, <2>4, CrashInv
  <2>5. CASE ConnectFails \/ Connect \/ Snapshot \/ Forward
    BY <1>1, <2>5, ConnectFailsInv, ConnectInv, SnapshotInv, ForwardInv
  <2>6. CASE ReceiveFull \/ ReceiveDelta
    BY <1>1, <2>6, ReceiveFullInv, ReceiveDeltaInv
  <2>7. CASE StreamDrop \/ PrimaryRetry
    BY <1>1, <2>7, StreamDropInv, PrimaryRetryInv
  <2>8. CASE UNCHANGED vars
    BY <1>1, <2>8, StutterInv
  <2> QED BY <1>1, <2>1, <2>2, <2>3, <2>4, <2>5, <2>6, <2>7, <2>8 DEF Next
<1> QED BY <1>1, InitInv, PTL DEF SafeSpec

\* Types, and what a stream that is not open cannot have.
THEOREM SyncTypeCorrect == SafeSpec => []TypeOK
<1>1. IInv => TypeOK
  BY DEF IInv
<1> QED BY <1>1, SyncInvariant, PTL

\* The data plane serves a configuration that the database has held, never a
\* mix of two, whatever was lost with a stream, dropped by the ring, retained or
\* restarted on the way; except between a delta that followed a publication its
\* control plane refused to send and the next snapshot.
THEOREM AppliedConfigurationWasPublished == SafeSpec => []AppliedWasPublished
<1>1. IInv => AppliedWasPublished
  BY DEF IInv, Stream, AppliedAt, AppliedWasPublished
<1> QED BY <1>1, SyncInvariant, PTL

\* A subscription with nothing in flight has delivered what its control plane
\* serves, unless that refused to send something and no snapshot has made up for
\* it: no publication is lost between the receiver's registration and the initial
\* snapshot, or when the ring overflows.
THEOREM QuiescentStreamHasCaughtUp == SafeSpec => []QuiescentStreamIsCurrent
<1>1. IInv => QuiescentStreamIsCurrent
  BY DEF IInv, TypeOK, Stream, AppliedAt, Connects, QuiescentStreamIsCurrent
<1> QED BY <1>1, SyncInvariant, PTL

\* With accurate clocks, the snapshot of another control plane that replaces a
\* configuration holds every write committed when the poll behind the applied
\* watermark began.
THEOREM FailoverIsNotARollback == SafeSpec => FailoverKeepsCommittedWrites
<1> DEFINE Kept == (watermark # 0 /\ source' # source /\ cfg' # cfg /\ \A c \in CPs : Skew[c] = 0) =>
                       \E v \in history[watermark]..db : cfg' = Content(v)
<1>1. ASSUME IInv, [Next]_vars PROVE [Kept]_vars
  <2> SUFFICES ASSUME watermark # 0, source' # source, cfg' # cfg, \A c \in CPs : Skew[c] = 0
               PROVE  \E v \in history[watermark]..db : cfg' = Content(v)
    OBVIOUS
  <2>1. ReceiveFull \/ ReceiveDelta
    BY <1>1 DEF Next, vars, applied, Write, PollStart, PollRead, Crash,
         ConnectFails, Connect,
                Snapshot, Forward, StreamDrop, PrimaryRetry
  <2>2. ~ReceiveDelta
    BY <1>1 DEF ReceiveDelta, IInv, Stream, applied
  <2>3. /\ wire # NoMessage /\ ~Fenced(wire) /\ source' = cp /\ cfg' = Content(wire.ver)
    BY <2>1, <2>2 DEF ReceiveFull, applied
  <2>4. ~(wire.stamp < watermark)
    BY <2>3 DEF Fenced
  <2>5. wire \in Messages /\ Genuine(wire) /\ cp \in CPs
    BY <1>1, <2>3 DEF IInv, TypeOK, Stream
  <2>6. /\ watermark \in 1..clock /\ wire.stamp \in Nat /\ wire.ver \in Nat /\ clock \in Nat
        /\ loadedAt[cp] \in Nat /\ loadedAt[cp] <= clock + 0 /\ Skew[cp] = 0
    <3>1. watermark \in Nat /\ clock \in Nat /\ watermark <= clock /\ loadedAt[cp] <= clock + Skew[cp]
      BY <1>1, <2>5 DEF IInv, Stamps, TypeOK
    <3>2. loadedAt[cp] \in Nat
      BY <1>1, <2>5 DEF IInv, TypeOK
    <3> QED BY <2>5, <3>1, <3>2, MessageFields
  <2>7. wire.stamp <= loadedAt[cp] /\ history[wire.stamp - 0] <= wire.ver /\ wire.ver <= ver[cp]
    BY <2>5, <2>6 DEF Genuine
  <2>8. wire.stamp \in 1..clock /\ wire.stamp - 0 = wire.stamp /\ watermark <= wire.stamp
    BY <2>4, <2>6, <2>7
  <2>9. history[watermark] <= history[wire.stamp]
    BY <1>1, <2>6, <2>8 DEF IInv, Stamps
  <2>10. history[watermark] \in 0..db /\ history[wire.stamp] \in 0..db
    <3>1. history \in Seq(0..db) /\ Len(history) = clock
      BY <1>1 DEF IInv, TypeOK
    <3> QED BY <2>6, <2>8, <3>1, ElementOfSeq
  <2>11. ver[cp] \in -1..db /\ db \in Nat
    BY <1>1, <2>5, SyncAssumption DEF IInv, TypeOK
  <2>12. wire.ver \in history[watermark]..db
    BY <2>6, <2>7, <2>8, <2>9, <2>10, <2>11
  <2> QED BY <2>3, <2>12
<1> QED BY <1>1, SyncInvariant, PTL DEF SafeSpec, FailoverKeepsCommittedWrites

=============================================================================
