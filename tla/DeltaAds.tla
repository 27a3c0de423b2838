------------------------------- MODULE DeltaAds -------------------------------
(***************************************************************************)
(* The delta ADS streams of one node (src/src/xds/server.rs,               *)
(* src/src/xds/nonce.rs, src/src/xds/snapshot.rs): what a control plane    *)
(* sends to a mesh client for one resource type, what it takes the client  *)
(* to hold, and how a client that reconnects is brought back.              *)
(*                                                                         *)
(* A stream is a task that alternates between the requests of its client   *)
(* and the wake-ups of the configuration broadcast.  It sends differences  *)
(* from the snapshot that the client has acknowledged.  The nonce of the   *)
(* last response is kept per node, not per stream: a node that reconnects  *)
(* before the server has noticed the loss of its old stream shares it with *)
(* that stream.                                                            *)
(*                                                                         *)
(* The client is external: it applies or rejects a response as a whole,    *)
(* acknowledges it by its nonce, and reports what it holds when it         *)
(* reconnects.  A snapshot is the configuration filtered for the node, so  *)
(* a configuration is its snapshot.                                        *)
(***************************************************************************)
EXTENDS Naturals, Sequences, FiniteSets

CONSTANTS
    Names,         \* resource names
    Configs,       \* configurations: Names to a value or Absent
    Absent,        \* the value of a resource that does not exist
    Star,          \* the name "*"
    Streams,       \* stream slots
    NoStream,      \* no stream
    Subscriptions, \* what the client asks for first; {} is the wildcard
    ChannelCap,    \* stream_channel_capacity
    MaxPublishes,  \* bound: configuration changes
    MaxNacks,      \* bound: responses the client rejects
    MaxChanges,    \* bound: subscription changes of the client
    MaxLosses,     \* bound: connections lost without notice
    MaxNonce       \* bound: nonces in use at a time

ASSUME AdsAssumption ==
    /\ Configs # {}
    /\ \A c \in Configs : c \in [Names -> {c[n] : n \in Names}]
    /\ Star \notin Names /\ NoStream \notin Streams
    /\ Subscriptions \subseteq SUBSET Names /\ Subscriptions # {}
    /\ ChannelCap \in Nat \ {0}
    /\ MaxPublishes \in Nat /\ MaxNacks \in Nat /\ MaxChanges \in Nat
    /\ MaxLosses \in Nat /\ MaxNonce \in Nat

VARIABLES
    conf,        \* the published configuration
    open,        \* the streams whose task runs
    registered,  \* those that have registered their node and a subscription
    sub,         \* sub[s]: the subscription, a set of names or Star
    snap,        \* snap[s]: stream_config
    woken,       \* woken[s]: whether its broadcast receiver holds an update
    sent,        \* sent[s]: last_sent_snapshot_by_type, at most one
    accepted,    \* accepted[s]: last_accepted_snapshot_by_type, at most one
    out, inb,    \* responses and requests under way
    issued,      \* last_issued_nonce of the node, 0: no state
    current,     \* the client's stream
    want,        \* the client's subscription
    held,        \* the resources it holds
    taken,       \* taken[s]: the snapshots whose response it applied (history)
    published, nacks, changes, losses

stream == <<open, registered, sub, snap, woken, sent, accepted>>
client == <<current, want, held, taken>>
bounds == <<published, nacks, changes, losses>>
vars == <<conf, stream, out, inb, issued, client, bounds>>

-----------------------------------------------------------------------------
(* Resources and messages.                                                 *)

Nothing == [n \in Names |-> Absent]

\* The stream_config of a stream that does not run.
Unloaded == CHOOSE c \in Configs : TRUE

\* XdsSnapshot::filtered_resources.
Wanted(w, n) == Star \in w \/ n \in w

Filter(c, w) == [n \in Names |-> IF Wanted(w, n) THEN c[n] ELSE Absent]

\* subscription_resources_changed, from the accepted snapshot if there is one.
Changed(previous, c, w) == \A p \in previous : Filter(p, w) # Filter(c, w)

\* build_delta_subscription: a first request that names nothing is a wildcard.
Subscription(first, w, add, del) ==
    IF first /\ add = {} /\ del = {} THEN {Star} ELSE ((IF first THEN {} ELSE w) \cup add) \ del

\* The resources of a delta response: those asked for by name, and those that
\* neither the client's report nor the accepted snapshot has.
Resources(c, w, previous, initial, add) ==
    {n \in Names :
        /\ c[n] # Absent /\ Wanted(w, n)
        /\ \/ Star \in add \/ n \in add
           \/ initial[n] # c[n] /\ \A p \in previous : p[n] # c[n]}

\* Mutant: the client's report is not looked at for removals.
RemovedIgnoresReport(c, w, previous, initial, add, del) ==
    {n \in Names : Wanted(w, n) /\ c[n] = Absent /\ \E p \in previous : p[n] # Absent}
        \cup (((add \cup del) \ {Star}) \ Resources(c, w, previous, initial, add))

\* Its removals: what the client reports, or else the accepted snapshot has,
\* and this one has not; and the names of the request that are not answered.
Removed(c, w, previous, initial, add, del) ==
    {n \in Names :
        /\ Wanted(w, n) /\ c[n] = Absent
        /\ IF initial = Nothing THEN \E p \in previous : p[n] # Absent
                                ELSE initial[n] # Absent}
        \cup (((add \cup del) \ {Star}) \ Resources(c, w, previous, initial, add))

\* A nonce is a hash of a counter and is only compared with others: any value
\* that is not in use is a new one.
InUse ==
    {issued} \cup (UNION {{out[s][i].nonce : i \in 1..Len(out[s])} : s \in Streams})
             \cup (UNION {{inb[s][i].nonce : i \in 1..Len(inb[s])} : s \in Streams})

NewNonce == CHOOSE n \in 1..MaxNonce : n \notin InUse

Request(nonce, ok, add, del) ==
    [nonce |-> nonce, ok |-> ok, add |-> add, del |-> del, initial |-> Nothing, first |-> FALSE]

\* The first request of a stream reports what the client holds.
FirstRequest(add, initial) ==
    [nonce |-> 0, ok |-> TRUE, add |-> add, del |-> {}, initial |-> initial, first |-> TRUE]

Response(nonce, c, w, previous, q) ==
    [nonce |-> nonce, snap |-> c, sub |-> w, first |-> q.first,
     resources |-> Resources(c, w, previous, q.initial, q.add),
     removed |-> Removed(c, w, previous, q.initial, q.add, q.del)]

\* An update answers no request.
NoRequest == Request(0, TRUE, {}, {})

\* One type invariant: types, channels within their capacity, and no state of a
\* stream that has ended.
TypeOK ==
    /\ conf \in Configs
    /\ registered \subseteq open /\ open \subseteq Streams
    /\ \A s \in Streams :
        /\ sub[s] \subseteq Names \cup {Star}
        /\ snap[s] \in Configs /\ woken[s] \in BOOLEAN
        /\ sent[s] \subseteq Configs /\ Cardinality(sent[s]) <= 1
        /\ accepted[s] \subseteq Configs /\ Cardinality(accepted[s]) <= 1
        /\ Len(out[s]) <= ChannelCap + 1
        /\ \A i \in 1..Len(inb[s]) : inb[s][i].nonce \in 0..MaxNonce
        /\ s \notin open => out[s] = <<>> /\ inb[s] = <<>> /\ ~woken[s]
        /\ s \in registered <=> sent[s] # {}
    /\ issued \in 0..MaxNonce
    /\ current \in open \cup {NoStream}
    /\ want \subseteq Names \cup {Star}
    /\ \A n \in Names : held[n] # Absent => Wanted(want, n)

-----------------------------------------------------------------------------
(* The server.                                                             *)

\* A configuration is stored and broadcast.
Publish(c) ==
    /\ published < MaxPublishes
    /\ c # conf
    /\ conf' = c
    /\ published' = published + 1
    /\ woken' = [s \in Streams |-> s \in open]
    /\ UNCHANGED <<open, registered, sub, snap, sent, accepted, out, inb, issued, client,
                   nacks, changes, losses>>

\* The task waits in tx.send: its last response does not fit in the channel.
Blocked(s) == Len(out[s]) > ChannelCap

\* Mutant: the snapshot is remembered once it is acknowledged.
SendUnremembered(s, c, w, previous, q) ==
    /\ ~(1..MaxNonce \subseteq InUse)
    /\ out' = [out EXCEPT ![s] = Append(@, Response(NewNonce, c, w, previous, q))]
    /\ issued' = NewNonce
    /\ UNCHANGED sent

\* issue_nonce, and the response handed to the stream's channel, where the task
\* waits if there is no room.  (Bound: while there is a nonce that is not in use.)
Send(s, c, w, previous, q) ==
    /\ ~(1..MaxNonce \subseteq InUse)
    /\ out' = [out EXCEPT ![s] = Append(@, Response(NewNonce, c, w, previous, q))]
    /\ issued' = NewNonce
    /\ sent' = [sent EXCEPT ![s] = {c}]

\* Mutant: any acknowledgement counts, whatever response it names.
AckedAny(q) == q.nonce # 0 /\ q.ok

\* record_response: an acknowledgement counts if it names the last response of
\* the node; an older nonce, an unknown one and a rejection do not.
Acked(q) == q.nonce # 0 /\ q.nonce = issued /\ q.ok

\* A request q.  The first one registers the node and catches up with the
\* broadcast; an acknowledgement moves the baseline; a response is sent for a
\* first request, a change of subscription or a report of what is held.
Answer(s, q) ==
    LET first == s \notin registered
        c == IF first /\ woken[s] THEN conf ELSE snap[s]
        previous == IF Acked(q) /\ sent[s] # {} THEN sent[s] ELSE accepted[s]
        w == Subscription(first, sub[s], q.add, q.del)
    IN /\ registered' = registered \cup {s}
       /\ snap' = [snap EXCEPT ![s] = c]
       /\ woken' = [woken EXCEPT ![s] = @ /\ ~first]
       /\ accepted' = [accepted EXCEPT ![s] = previous]
       /\ sub' = [sub EXCEPT ![s] = w]
       /\ IF q.nonce = 0 \/ w # sub[s] \/ q.add # {} \/ q.del # {} \/ q.initial # Nothing
            THEN Send(s, c, w, previous, q)
            ELSE UNCHANGED <<out, issued, sent>>

\* Mutant: a stream waits for the other streams of its node to end.
HandleOneStream(s) ==
    /\ s \in open
    /\ registered \subseteq {s}
    /\ inb[s] # <<>>
    /\ ~Blocked(s)
    /\ Answer(s, Head(inb[s]))
    /\ inb' = [inb EXCEPT ![s] = Tail(@)]
    /\ UNCHANGED <<conf, open, client, bounds>>

\* The stream's task takes a request.
Handle(s) ==
    /\ s \in open
    /\ inb[s] # <<>>
    /\ ~Blocked(s)
    /\ Answer(s, Head(inb[s]))
    /\ inb' = [inb EXCEPT ![s] = Tail(@)]
    /\ UNCHANGED <<conf, open, client, bounds>>

\* A broadcast: the stream's configuration is read again and, if it differs,
\* what is subscribed and differs from the accepted snapshot is sent.  A receiver
\* that has fallen behind is sent that whether it differs or not.
Update(s) ==
    /\ woken[s]
    /\ ~Blocked(s)
    /\ woken' = [woken EXCEPT ![s] = FALSE]
    /\ snap' = [snap EXCEPT ![s] = conf]
    /\ \/ /\ s \in registered /\ Changed(accepted[s], conf, sub[s])
          /\ Send(s, conf, sub[s], accepted[s], NoRequest)
       \/ /\ s \notin registered \/ conf = snap[s] \/ ~Changed(accepted[s], conf, sub[s])
          /\ UNCHANGED <<out, issued, sent>>
    /\ UNCHANGED <<conf, open, registered, sub, accepted, inb, client, bounds>>

\* XdsStreamGuard::drop: the last stream of the node takes the nonce with it.
End(s) ==
    /\ open' = open \ {s}
    /\ registered' = registered \ {s}
    /\ issued' = IF s \in registered /\ registered = {s} THEN 0 ELSE issued
    /\ out' = [out EXCEPT ![s] = <<>>]
    /\ inb' = [inb EXCEPT ![s] = <<>>]
    /\ woken' = [woken EXCEPT ![s] = FALSE]
    /\ sent' = [sent EXCEPT ![s] = {}]
    /\ accepted' = [accepted EXCEPT ![s] = {}]
    /\ sub' = [sub EXCEPT ![s] = {}]
    /\ snap' = [snap EXCEPT ![s] = Unloaded]
    /\ taken' = [taken EXCEPT ![s] = {}]

\* The authorization of the client's stream ends, at the latest after
\* FERRUM_CP_GRPC_MAX_STREAM_LIFETIME_SECONDS.
Expire ==
    /\ current # NoStream
    /\ End(current)
    /\ current' = NoStream
    /\ UNCHANGED <<conf, want, held, bounds>>

\* The server notices that the peer of a stream is gone.
Notice(s) ==
    /\ s \in open /\ s # current
    /\ End(s)
    /\ UNCHANGED <<conf, current, want, held, bounds>>

-----------------------------------------------------------------------------
(* The client.                                                             *)

\* The client connects: the receiver is registered, then the configuration is
\* loaded.  The two are one step: a publication in between would only leave the
\* receiver an update that is loaded already, and nothing is sent before the
\* first request, which empties the receiver.  That request carries what the
\* client holds.
Open(s) ==
    /\ current = NoStream
    /\ open # Streams /\ s = CHOOSE x \in Streams \ open : TRUE
    /\ current' = s
    /\ open' = open \cup {s}
    /\ snap' = [snap EXCEPT ![s] = conf]
    /\ inb' = [inb EXCEPT ![s] = <<FirstRequest(want \ {Star}, held)>>]
    /\ UNCHANGED <<conf, registered, sub, woken, sent, accepted, out, issued, want, held, taken, bounds>>

\* The connection is lost; the server does not know yet.
Disconnect ==
    /\ current # NoStream
    /\ losses < MaxLosses
    /\ losses' = losses + 1
    /\ current' = NoStream
    /\ UNCHANGED <<conf, stream, out, inb, issued, want, held, taken, published, nacks, changes>>

Apply(r) ==
    [n \in Names |-> IF ~Wanted(want, n) THEN Absent
                     ELSE IF n \in r.resources THEN r.snap[n]
                     ELSE IF n \in r.removed THEN Absent ELSE held[n]]

\* A response is applied and acknowledged.
Accept ==
    /\ current # NoStream
    /\ out[current] # <<>>
    /\ LET r == Head(out[current]) IN
        /\ held' = Apply(r)
        /\ taken' = [taken EXCEPT ![current] = @ \cup {r.snap}]
        /\ inb' = [inb EXCEPT ![current] = Append(@, Request(r.nonce, TRUE, {}, {}))]
    /\ out' = [out EXCEPT ![current] = Tail(@)]
    /\ UNCHANGED <<conf, stream, issued, current, want, bounds>>

\* A response is rejected as a whole.
Nack ==
    /\ current # NoStream
    /\ out[current] # <<>>
    /\ nacks < MaxNacks
    /\ nacks' = nacks + 1
    /\ inb' = [inb EXCEPT ![current] =
                  Append(@, Request(Head(out[current]).nonce, FALSE, {}, {}))]
    /\ out' = [out EXCEPT ![current] = Tail(@)]
    /\ UNCHANGED <<conf, stream, issued, client, published, changes, losses>>

\* The client of a named subscription asks for another resource, or drops one
\* and forgets it.
Resubscribe(n) ==
    /\ current # NoStream
    /\ changes < MaxChanges
    /\ Star \notin want
    /\ want # {n}
    /\ changes' = changes + 1
    /\ IF n \in want
         THEN /\ want' = want \ {n}
              /\ held' = [held EXCEPT ![n] = Absent]
              /\ inb' = [inb EXCEPT ![current] = Append(@, Request(0, TRUE, {}, {n}))]
         ELSE /\ want' = want \cup {n}
              /\ inb' = [inb EXCEPT ![current] = Append(@, Request(0, TRUE, {n}, {}))]
              /\ UNCHANGED held
    /\ UNCHANGED <<conf, stream, out, issued, current, taken, published, nacks, losses>>

-----------------------------------------------------------------------------
Init ==
    /\ conf \in Configs
    /\ open = {} /\ registered = {}
    /\ sub = [s \in Streams |-> {}]
    /\ snap = [s \in Streams |-> Unloaded]
    /\ woken = [s \in Streams |-> FALSE]
    /\ sent = [s \in Streams |-> {}] /\ accepted = [s \in Streams |-> {}]
    /\ out = [s \in Streams |-> <<>>] /\ inb = [s \in Streams |-> <<>>]
    /\ issued = 0
    /\ current = NoStream
    /\ \E w \in Subscriptions : want = IF w = {} THEN {Star} ELSE w
    /\ held = Nothing
    /\ taken = [s \in Streams |-> {}]
    /\ published = 0 /\ nacks = 0 /\ changes = 0 /\ losses = 0

Next ==
    \/ \E c \in Configs : Publish(c)
    \/ \E s \in Streams : Handle(s) \/ Update(s) \/ Notice(s) \/ Open(s)
    \/ Expire \/ Disconnect \/ Accept \/ Nack
    \/ \E n \in Names : Resubscribe(n)

SafeSpec == Init /\ [][Next]_vars

\* The client reconnects, requests and responses are handled, and a stream ends
\* with its lifetime.  That is a minute at least: a stream is served before.
Fairness ==
    /\ WF_vars(\E s \in Streams : Open(s))
    /\ SF_vars(\E s \in Streams : Handle(s))
    /\ SF_vars(Accept)
    /\ WF_vars(Expire)

Spec == SafeSpec /\ Fairness

-----------------------------------------------------------------------------
(* Properties.                                                             *)

\* The snapshot that a stream takes its client to hold is one whose response
\* the client applied: no acknowledgement of an older response, of another
\* stream of the node or of a rejected one moves the baseline.  And the node's
\* acknowledgement state lives exactly as long as its streams: none of them
\* loses it while it has a response to be acknowledged, and the last one leaves
\* nothing behind.
AcksAreAttributed ==
    /\ \A s \in Streams : s # current \/ accepted[s] \subseteq taken[s]
    /\ issued # 0 <=> registered # {}

\* The first response of a stream repairs the client: it reports what it holds,
\* and holds exactly the snapshot afterwards, whatever earlier streams left.
ReconnectRepairs ==
    [][ (Accept /\ Head(out[current]).first) =>
          LET r == Head(out[current]) IN
          \A n \in Names : Wanted(r.sub, n) /\ Wanted(want, n) => held'[n] = r.snap[n] ]_vars

\* Once the configuration no longer changes, the client holds it and keeps it.
ClientConverges == <>[](held = Filter(conf, want))

\* A client that has acknowledged the current snapshot holds it: nothing is
\* under way, and the server has nothing more to send.
AcknowledgedIsHeld ==
    \A s \in Streams :
        (s = current /\ s \in registered /\ out[s] = <<>> /\ inb[s] = <<>> /\ ~woken[s] /\
           accepted[s] = {conf})
        => held = Filter(conf, want)

=============================================================================
