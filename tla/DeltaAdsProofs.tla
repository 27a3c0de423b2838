---------------------------- MODULE DeltaAdsProofs ----------------------------
(***************************************************************************)
(* Proofs about DeltaAds, for every set of resources, configurations and   *)
(* streams of the node, every channel capacity and every number of         *)
(* publications, rejections, subscription changes and lost connections.    *)
(*                                                                         *)
(* Two arguments.  A nonce that is issued is not in use, so while it is    *)
(* the node's last one, only the response it was issued for and the        *)
(* client's answer to that response carry it.  And nothing reaches the     *)
(* client between its report and the first response of a stream, so what   *)
(* that response leaves out is what the client still holds.                *)
(***************************************************************************)
EXTENDS DeltaAds, SequenceTheorems, FiniteSetTheorems, TLAPS

-----------------------------------------------------------------------------
(* The inductive invariant.                                                *)

Values == {Absent} \cup UNION {{c[n] : n \in Names} : c \in Configs}

Requests ==
    [nonce : 0..MaxNonce, ok : BOOLEAN, add : SUBSET Names, del : SUBSET Names,
     initial : [Names -> Values], first : BOOLEAN]

Responses ==
    [nonce : 1..MaxNonce, snap : Configs, sub : SUBSET (Names \cup {Star}), first : BOOLEAN,
     resources : SUBSET Names, removed : SUBSET Names]

ServerTypes ==
    /\ conf \in Configs
    /\ open \subseteq Streams /\ registered \subseteq open
    /\ sub \in [Streams -> SUBSET (Names \cup {Star})]
    /\ snap \in [Streams -> Configs]
    /\ woken \in [Streams -> BOOLEAN]
    /\ sent \in [Streams -> SUBSET Configs]
    /\ accepted \in [Streams -> SUBSET Configs]
    /\ issued \in 0..MaxNonce

ChannelTypes ==
    /\ out \in [Streams -> Seq(Responses)]
    /\ inb \in [Streams -> Seq(Requests)]

ClientTypes ==
    /\ current \in open \cup {NoStream}
    /\ want \subseteq Names \cup {Star}
    /\ held \in [Names -> Values]
    /\ taken \in [Streams -> SUBSET Configs]

AtMostOne(S) == S = {} \/ \E c \in Configs : S = {c}

\* What the server remembers of a stream.
Memory(s) ==
    /\ AtMostOne(sent[s]) /\ AtMostOne(accepted[s])
    /\ s \in registered <=> sent[s] # {}
    /\ s \notin registered => accepted[s] = {}
    /\ s \notin open => ~woken[s]

\* The channels of a stream: the first request comes first and only the
\* response to it is a first response.
Channels(s) ==
    /\ Len(out[s]) <= ChannelCap + 1
    /\ s \notin open => inb[s] = <<>>
    /\ s \notin registered => out[s] = <<>>
    /\ s \in open \ registered => inb[s] # <<>> /\ inb[s][1].nonce = 0 /\ inb[s][1].del = {}
    /\ \A i \in 1..Len(inb[s]) : i > 1 \/ s \in registered => ~inb[s][i].first
    /\ \A i \in 1..Len(out[s]) : i > 1 => ~out[s][i].first

\* The last nonce of the node names the response that was sent last, and an
\* acknowledgement by it what the client has applied.
Attributed(s) ==
    /\ \A i \in 1..Len(out[s]) : out[s][i].nonce = issued => sent[s] = {out[s][i].snap}
    /\ s = current =>
        /\ accepted[s] \subseteq taken[s]
        /\ \A i \in 1..Len(inb[s]) :
              inb[s][i].nonce = issued /\ issued # 0 /\ inb[s][i].ok => sent[s] \subseteq taken[s]

\* The client subscribes to everything or to some names, and holds no more.
Subscribed ==
    /\ want = {Star} \/ (Star \notin want /\ want # {})
    /\ \A n \in Names : held[n] # Absent => Wanted(want, n)

\* The first request reports what is held; of a subscription by name all
\* resources are asked for.
Reported(q) ==
    /\ q.add = {} <=> want = {Star}
    /\ want = {Star} => q.initial = held

\* A response that leaves its client with its snapshot.
Repairs(r) ==
    \A n \in Names : Wanted(r.sub, n) =>
        \/ n \in r.resources
        \/ n \in r.removed /\ r.snap[n] = Absent
        \/ n \notin r.removed /\ want = {Star} /\ held[n] = r.snap[n]

FirstExchange(s) ==
    /\ s \notin registered => Reported(inb[s][1])
    /\ out[s] # <<>> => ~out[s][1].first \/ Repairs(out[s][1])

IInv ==
    /\ ServerTypes /\ ChannelTypes /\ ClientTypes
    /\ \A s \in Streams : Memory(s)
    /\ \A s \in Streams : Channels(s)
    /\ issued # 0 <=> registered # {}
    /\ \A s \in Streams : Attributed(s)
    /\ Subscribed
    /\ current # NoStream => FirstExchange(current)

-----------------------------------------------------------------------------
(* Resources, messages and nonces.                                         *)

\* A configuration gives each name one of the values.
LEMMA ConfigValues ==
    ASSUME NEW c \in Configs
    PROVE  c \in [Names -> Values]
<1>1. c \in [Names -> {c[n] : n \in Names}]
  BY AdsAssumption
<1>2. {c[n] : n \in Names} \subseteq Values
  BY DEF Values
<1> QED BY <1>1, <1>2

\* The types of the fields of a response.
LEMMA ResponseFields ==
    ASSUME NEW r \in Responses
    PROVE  /\ r.nonce \in 1..MaxNonce /\ r.nonce # 0 /\ r.nonce \in 0..MaxNonce
           /\ r.snap \in Configs /\ r.sub \subseteq Names \cup {Star} /\ r.first \in BOOLEAN
           /\ r.resources \subseteq Names /\ r.removed \subseteq Names
BY AdsAssumption DEF Responses

\* The types of the fields of a request.
LEMMA RequestFields ==
    ASSUME NEW q \in Requests
    PROVE  /\ q.nonce \in 0..MaxNonce /\ q.ok \in BOOLEAN /\ q.first \in BOOLEAN
           /\ q.add \subseteq Names /\ q.del \subseteq Names /\ q.initial \in [Names -> Values]
BY DEF Requests

\* A client that holds nothing has a report too.
LEMMA NothingValues == Nothing \in [Names -> Values]
BY DEF Nothing, Values

\* What the client sends is a request.
LEMMA RequestType ==
    ASSUME NEW n \in 0..MaxNonce, NEW ok \in BOOLEAN,
           NEW add \in SUBSET Names, NEW del \in SUBSET Names
    PROVE  /\ Request(n, ok, add, del) \in Requests
           /\ Request(n, ok, add, del).nonce = n /\ Request(n, ok, add, del).ok = ok
           /\ Request(n, ok, add, del).first = FALSE
<1>1. Nothing \in [Names -> Values]
  BY NothingValues
<1> QED BY <1>1 DEF Request, Requests

\* The first request is a request.
LEMMA FirstRequestType ==
    ASSUME NEW add \in SUBSET Names, NEW initial \in [Names -> Values]
    PROVE  /\ FirstRequest(add, initial) \in Requests
           /\ FirstRequest(add, initial).nonce = 0 /\ FirstRequest(add, initial).del = {}
           /\ FirstRequest(add, initial).add = add /\ FirstRequest(add, initial).initial = initial
<1>1. 0 \in 0..MaxNonce
  BY AdsAssumption
<1> QED BY <1>1 DEF FirstRequest, Requests

\* What a stream sends is a response, to the snapshot and the subscription it
\* was computed for.
LEMMA ResponseType ==
    ASSUME NEW n \in 1..MaxNonce, NEW c \in Configs, NEW w \in SUBSET (Names \cup {Star}),
           NEW previous, NEW q \in Requests
    PROVE  /\ Response(n, c, w, previous, q) \in Responses
           /\ Response(n, c, w, previous, q).nonce = n
           /\ Response(n, c, w, previous, q).snap = c
           /\ Response(n, c, w, previous, q).first = q.first
<1>1. Resources(c, w, previous, q.initial, q.add) \in SUBSET Names
  BY DEF Resources
<1>2. q.add \subseteq Names /\ q.del \subseteq Names /\ q.first \in BOOLEAN
  BY RequestFields
<1>3. Removed(c, w, previous, q.initial, q.add, q.del) \in SUBSET Names
  BY <1>2 DEF Removed
<1> QED BY <1>1, <1>2, <1>3 DEF Response, Responses

\* A subscription is made of names and the wildcard.
LEMMA SubscriptionType ==
    ASSUME NEW f \in BOOLEAN, NEW w \in SUBSET (Names \cup {Star}), NEW q \in Requests
    PROVE  Subscription(f, w, q.add, q.del) \in SUBSET (Names \cup {Star})
BY RequestFields DEF Subscription

\* A nonce that is issued is carried by nothing that is under way.
LEMMA FreshNonce ==
    ASSUME ~(1..MaxNonce \subseteq InUse)
    PROVE  /\ NewNonce \in 1..MaxNonce /\ NewNonce # 0 /\ NewNonce \in 0..MaxNonce
           /\ \A s \in Streams : \A i \in 1..Len(out[s]) : out[s][i].nonce # NewNonce
           /\ \A s \in Streams : \A i \in 1..Len(inb[s]) : inb[s][i].nonce # NewNonce
<1>1. \E n \in 1..MaxNonce : n \notin InUse
  OBVIOUS
<1>2. NewNonce \in 1..MaxNonce /\ NewNonce \notin InUse
  BY <1>1 DEF NewNonce
<1> DEFINE O == UNION {{out[s][i].nonce : i \in 1..Len(out[s])} : s \in Streams}
           I == UNION {{inb[s][i].nonce : i \in 1..Len(inb[s])} : s \in Streams}
<1>3. ASSUME NEW s \in Streams, NEW i \in 1..Len(out[s]) PROVE out[s][i].nonce \in O
  <2>1. out[s][i].nonce \in {out[s][j].nonce : j \in 1..Len(out[s])}
    OBVIOUS
  <2> QED BY <2>1, Zenon
<1>4. ASSUME NEW s \in Streams, NEW i \in 1..Len(inb[s]) PROVE inb[s][i].nonce \in I
  <2>1. inb[s][i].nonce \in {inb[s][j].nonce : j \in 1..Len(inb[s])}
    OBVIOUS
  <2> QED BY <2>1, Zenon
<1>5. InUse = {issued} \cup O \cup I
  BY DEF InUse
<1> HIDE DEF O, I
<1>6. NewNonce \notin O /\ NewNonce \notin I
  BY <1>2, <1>5
<1>7. NewNonce # 0 /\ NewNonce \in 0..MaxNonce
  BY <1>2, AdsAssumption
<1> QED BY <1>2, <1>3, <1>4, <1>6, <1>7

\* What a first response leaves out of the subscription is in its snapshot as
\* the client reported it.
LEMMA FirstResponseRepairs ==
    ASSUME NEW q \in Requests, NEW c \in Configs, NEW n, NEW w0,
           Subscribed, Reported(q), q.del = {}
    PROVE  Repairs(Response(n, c, Subscription(TRUE, w0, q.add, q.del), {}, q))
<1> DEFINE w == Subscription(TRUE, w0, q.add, q.del)
           r == Response(n, c, w, {}, q)
<1>1. r.sub = w /\ r.snap = c
  BY DEF Response
<1>2. r.resources = {m \in Names : /\ c[m] # Absent /\ Wanted(w, m)
                                   /\ Star \in q.add \/ m \in q.add \/ q.initial[m] # c[m]}
  BY DEF Response, Resources
<1>3. r.removed = {m \in Names : /\ Wanted(w, m) /\ c[m] = Absent
                                 /\ q.initial # Nothing /\ q.initial[m] # Absent}
                     \cup ((q.add \ {Star}) \ r.resources)
  BY DEF Response, Removed
<1>4. q.add \subseteq Names /\ Star \notin Names /\ q.initial \in [Names -> Values]
  BY RequestFields, AdsAssumption
<1>5. ASSUME NEW m \in Names, Wanted(w, m)
      PROVE  \/ m \in r.resources
             \/ m \in r.removed /\ c[m] = Absent
             \/ m \notin r.removed /\ want = {Star} /\ held[m] = c[m]
  <2>1. CASE q.add = {}
    <3>1. want = {Star} /\ held = q.initial
      BY <2>1 DEF Reported
    <3>2. q.initial = Nothing => q.initial[m] = Absent
      BY DEF Nothing
    <3> QED BY <1>2, <1>3, <1>5, <2>1, <3>1, <3>2
  <2>2. CASE q.add # {}
    <3>1. w = q.add
      BY <2>2 DEF Subscription
    <3>2. m \in q.add
      BY <1>4, <1>5, <3>1 DEF Wanted
    <3> QED BY <1>2, <1>3, <1>4, <1>5, <3>2
  <2> QED BY <2>1, <2>2
<1> HIDE DEF w, r
<1>6. Repairs(r)
  BY <1>1, <1>5 DEF Repairs
<1> QED BY <1>6 DEF w, r

-----------------------------------------------------------------------------
(* What a step leaves alone.                                               *)

SameStream(s) ==
    /\ s \in open' <=> s \in open
    /\ s \in registered' <=> s \in registered
    /\ sent'[s] = sent[s] /\ accepted'[s] = accepted[s]
    /\ out'[s] = out[s] /\ inb'[s] = inb[s]

\* A step that leaves a stream alone keeps its memory and its channels.
LEMMA StreamFrame ==
    ASSUME NEW s \in Streams, SameStream(s)
    PROVE  /\ Memory(s) /\ (s \notin open => woken'[s] = woken[s]) => Memory(s)'
           /\ Channels(s) => Channels(s)'
BY DEF SameStream, Memory, Channels, AtMostOne

\* Another stream of the node may issue a nonce, and the last one may end.
LEMMA AttributedFrame ==
    ASSUME NEW s \in Streams, SameStream(s), ChannelTypes, Attributed(s),
           taken'[s] = taken[s], s = current' => s = current,
           \/ issued' = issued
           \/ issued' = 0
           \/ /\ \A i \in 1..Len(out[s]) : out[s][i].nonce # issued'
              /\ \A i \in 1..Len(inb[s]) : inb[s][i].nonce # issued'
    PROVE  Attributed(s)'
<1>1. \A i \in 1..Len(out[s]) : out[s][i].nonce # 0
  <2>1. \A i \in 1..Len(out[s]) : out[s][i] \in Responses
    BY ElementOfSeq DEF ChannelTypes
  <2> QED BY <2>1, ResponseFields
<1> QED BY <1>1 DEF SameStream, Attributed

\* A step that leaves client and current stream alone keeps the first exchange.
LEMMA FirstExchangeFrame ==
    ASSUME NEW s \in Streams, FirstExchange(s), UNCHANGED <<want, held>>,
           s \in registered' <=> s \in registered, out'[s] = out[s], inb'[s] = inb[s]
    PROVE  FirstExchange(s)'
BY DEF FirstExchange, Reported, Repairs

-----------------------------------------------------------------------------
(* The invariant holds initially and is kept by every step.                *)

\* At first no stream runs and the client holds nothing.
LEMMA InitInv == Init => IInv
<1> SUFFICES ASSUME Init PROVE IInv
  OBVIOUS
<1>1. Unloaded \in Configs
  BY AdsAssumption DEF Unloaded
<1>2. ServerTypes
  BY <1>1, AdsAssumption DEF Init, ServerTypes
<1>3. ChannelTypes
  <2>1. <<>> \in Seq(Responses) /\ <<>> \in Seq(Requests)
    BY EmptySeq
  <2> QED BY <2>1 DEF Init, ChannelTypes
<1>4. ClientTypes
  <2>1. held \in [Names -> Values]
    BY NothingValues DEF Init
  <2>2. want \subseteq Names \cup {Star}
    BY AdsAssumption DEF Init
  <2> QED BY <2>1, <2>2 DEF Init, ClientTypes
<1>5. \A s \in Streams : Memory(s)
  BY DEF Init, Memory, AtMostOne
<1>6. \A s \in Streams : Channels(s)
  <2>1. Len(<<>>) = 0 /\ ChannelCap \in Nat
    BY AdsAssumption, EmptySeq
  <2> QED BY <2>1 DEF Init, Channels
<1>7. \A s \in Streams : Attributed(s)
  <2>1. Len(<<>>) = 0 /\ current = NoStream
    BY EmptySeq DEF Init
  <2> QED BY <2>1, AdsAssumption DEF Init, Attributed
<1>8. Subscribed
  BY AdsAssumption DEF Init, Subscribed, Nothing
<1> QED BY <1>2, <1>3, <1>4, <1>5, <1>6, <1>7, <1>8 DEF IInv, Init

\* A publication only wakes the streams that run.
LEMMA PublishInv ==
    ASSUME IInv, NEW c \in Configs, Publish(c)
    PROVE  IInv'
<1>1. /\ conf' = c /\ woken' = [s \in Streams |-> s \in open]
      /\ UNCHANGED <<open, registered, sub, snap, sent, accepted, out, inb, issued, client>>
  BY DEF Publish
<1>2. ServerTypes' /\ ChannelTypes' /\ ClientTypes'
  BY <1>1 DEF IInv, ServerTypes, ChannelTypes, ClientTypes, client
<1>3. ASSUME NEW s \in Streams PROVE Memory(s)' /\ Channels(s)' /\ Attributed(s)'
  <2>1. SameStream(s) /\ taken'[s] = taken[s] /\ (s = current' => s = current) /\ issued' = issued
    BY <1>1 DEF SameStream, client
  <2>2. s \notin open => ~woken[s] /\ ~woken'[s] /\ woken[s] \in BOOLEAN /\ woken'[s] \in BOOLEAN
    BY <1>1 DEF IInv, Memory, ServerTypes
  <2>3. Memory(s)'
    BY <1>1, <2>1, <2>2 DEF IInv, Memory, AtMostOne
  <2> QED BY <2>1, <2>3, StreamFrame, AttributedFrame DEF IInv
<1>4. Subscribed' /\ (issued' # 0 <=> registered' # {})
  BY <1>1 DEF IInv, Subscribed, client
<1>5. current' # NoStream => FirstExchange(current)'
  BY <1>1 DEF IInv, FirstExchange, Reported, Repairs, client
<1> QED BY <1>2, <1>3, <1>4, <1>5 DEF IInv

\* A lost connection leaves the stream as it is, without a client.
LEMMA DisconnectInv ==
    ASSUME IInv, Disconnect
    PROVE  IInv'
<1>1. /\ current' = NoStream /\ NoStream \notin Streams
      /\ UNCHANGED <<conf, stream, out, inb, issued, want, held, taken>>
  BY AdsAssumption DEF Disconnect
<1>2. ServerTypes' /\ ChannelTypes' /\ ClientTypes'
  BY <1>1 DEF IInv, ServerTypes, ChannelTypes, ClientTypes, stream
<1>3. ASSUME NEW s \in Streams PROVE Memory(s)' /\ Channels(s)' /\ Attributed(s)'
  <2>1. SameStream(s) /\ woken'[s] = woken[s] /\ taken'[s] = taken[s]
        /\ (s = current' => s = current) /\ issued' = issued
    BY <1>1 DEF SameStream, stream
  <2> QED BY <2>1, StreamFrame, AttributedFrame DEF IInv
<1>4. Subscribed' /\ (issued' # 0 <=> registered' # {})
  BY <1>1 DEF IInv, Subscribed, stream
<1> QED BY <1>1, <1>2, <1>3, <1>4 DEF IInv

\* The end of a stream takes its memory and its channels along.
LEMMA EndInv ==
    ASSUME IInv, NEW e \in Streams, End(e), UNCHANGED <<conf, want, held>>,
           current' = NoStream \/ (current' = current /\ current # e)
    PROVE  IInv'
<1>1. /\ Unloaded \in Configs /\ NoStream \notin Streams
      /\ <<>> \in Seq(Responses) /\ <<>> \in Seq(Requests) /\ Len(<<>>) = 0
      /\ ChannelCap \in Nat /\ MaxNonce \in Nat
  BY AdsAssumption, EmptySeq DEF Unloaded
<1>2. ServerTypes'
  BY <1>1 DEF End, IInv, ServerTypes
<1>3. ChannelTypes'
  BY <1>1 DEF End, IInv, ChannelTypes
<1>4. ClientTypes'
  BY DEF End, IInv, ClientTypes
<1>5. ASSUME NEW s \in Streams PROVE Memory(s)' /\ Channels(s)' /\ Attributed(s)'
  <2>1. CASE s = e
    <3>1. /\ s \notin open' /\ s \notin registered' /\ s # current'
          /\ sent'[s] = {} /\ accepted'[s] = {} /\ out'[s] = <<>> /\ inb'[s] = <<>> /\ ~woken'[s]
      BY <1>1, <2>1 DEF End, IInv, ServerTypes, ChannelTypes, ClientTypes
    <3> QED BY <1>1, <3>1 DEF Memory, Channels, Attributed, AtMostOne
  <2>2. CASE s # e
    <3>1. SameStream(s) /\ woken'[s] = woken[s] /\ taken'[s] = taken[s]
          /\ (s = current' => s = current) /\ (issued' = issued \/ issued' = 0)
      BY <1>1, <2>2 DEF SameStream, End, IInv, ServerTypes, ChannelTypes, ClientTypes
    <3> QED BY <3>1, StreamFrame, AttributedFrame DEF IInv
  <2> QED BY <2>1, <2>2
<1>6. issued' # 0 <=> registered' # {}
  BY DEF End, IInv
<1>7. Subscribed'
  BY DEF IInv, Subscribed
<1>8. ASSUME current' # NoStream PROVE FirstExchange(current)'
  <2>1. current' = current /\ current # e /\ current \in Streams
    BY <1>8 DEF IInv, ClientTypes, ServerTypes
  <2>2. /\ out'[current] = out[current] /\ inb'[current] = inb[current]
        /\ current \in registered' <=> current \in registered
    BY <2>1 DEF End, IInv, ChannelTypes
  <2>3. FirstExchange(current)
    BY <1>8, <2>1 DEF IInv
  <2> QED BY <2>1, <2>2, <2>3 DEF FirstExchange, Reported, Repairs
<1> QED BY <1>2, <1>3, <1>4, <1>5, <1>6, <1>7, <1>8 DEF IInv

\* The lifetime of the client's stream ends.
LEMMA ExpireInv ==
    ASSUME IInv, Expire
    PROVE  IInv'
<1>1. current \in Streams
  BY DEF Expire, IInv, ClientTypes, ServerTypes
<1> QED BY <1>1, EndInv DEF Expire

\* The server ends a stream without a client.
LEMMA NoticeInv ==
    ASSUME IInv, NEW s \in Streams, Notice(s)
    PROVE  IInv'
BY EndInv DEF Notice

\* A stream opens with the client's report of what it holds.
LEMMA OpenInv ==
    ASSUME IInv, NEW o \in Streams, Open(o)
    PROVE  IInv'
<1>1. /\ current = NoStream /\ current' = o /\ open' = open \cup {o}
      /\ snap' = [snap EXCEPT ![o] = conf]
      /\ inb' = [inb EXCEPT ![o] = <<FirstRequest(want \ {Star}, held)>>]
      /\ UNCHANGED <<conf, registered, sub, woken, sent, accepted, out, issued, want, held, taken>>
  BY DEF Open
<1>2. o \notin open
  <2>1. open # Streams /\ o = CHOOSE x \in Streams \ open : TRUE
    BY DEF Open
  <2>2. Streams \ open # {}
    BY <2>1 DEF IInv, ServerTypes
  <2> QED BY <2>1, <2>2
<1>3. o \notin registered /\ sent[o] = {} /\ accepted[o] = {} /\ out[o] = <<>>
  BY <1>2 DEF IInv, ServerTypes, Memory, Channels
<1> DEFINE q == FirstRequest(want \ {Star}, held)
<1>4. /\ q \in Requests /\ q.nonce = 0 /\ q.del = {}
      /\ q.add = want \ {Star} /\ q.initial = held
  <2>1. want \ {Star} \in SUBSET Names /\ held \in [Names -> Values]
    BY DEF IInv, ClientTypes
  <2> QED BY <2>1, FirstRequestType
<1>5. inb' = [inb EXCEPT ![o] = <<q>>]
  BY <1>1
<1> HIDE DEF q
<1>6. <<q>> \in Seq(Requests) /\ Len(<<q>>) = 1 /\ <<q>>[1] = q /\ <<q>> # <<>>
  BY <1>4
<1>7. inb' \in [Streams -> Seq(Requests)] /\ inb'[o] = <<q>>
  BY <1>5, <1>6 DEF IInv, ChannelTypes
<1>8. ServerTypes'
  BY <1>1 DEF IInv, ServerTypes
<1>9. ChannelTypes' /\ ClientTypes'
  BY <1>1, <1>7 DEF IInv, ChannelTypes, ClientTypes
<1>10. ASSUME NEW s \in Streams PROVE Memory(s)' /\ Channels(s)' /\ Attributed(s)'
  <2>1. CASE s = o
    <3>1. Memory(s)'
      BY <1>1, <1>3, <2>1 DEF IInv, Memory, AtMostOne
    <3>2. Channels(s)'
      <4>1. Len(out'[s]) <= ChannelCap + 1 /\ out'[s] = <<>> /\ Len(out'[s]) = 0
        BY <1>1, <1>3, <2>1, EmptySeq DEF IInv, Channels
      <4>2. s \in open' /\ s \notin registered' /\ inb'[s] = <<q>>
        BY <1>1, <1>3, <1>7, <2>1
      <4>3. Len(inb'[s]) = 1 /\ inb'[s] # <<>> /\ inb'[s][1].nonce = 0 /\ inb'[s][1].del = {}
        BY <1>4, <1>6, <4>2
      <4> QED BY <4>1, <4>2, <4>3 DEF Channels
    <3>3. Attributed(s)'
      <4>1. Len(out'[s]) = 0 /\ accepted'[s] = {}
        BY <1>1, <1>3, <2>1, EmptySeq
      <4>2. \A i \in 1..Len(inb'[s]) : inb'[s][i].nonce = 0
        BY <1>4, <1>6, <1>7, <2>1
      <4> QED BY <4>1, <4>2 DEF Attributed
    <3> QED BY <3>1, <3>2, <3>3
  <2>2. CASE s # o
    <3>1. SameStream(s) /\ woken'[s] = woken[s] /\ taken'[s] = taken[s]
          /\ (s = current' => s = current) /\ issued' = issued
      BY <1>1, <2>2 DEF SameStream, IInv, ChannelTypes
    <3> QED BY <3>1, StreamFrame, AttributedFrame DEF IInv
  <2> QED BY <2>1, <2>2
<1>11. Subscribed' /\ (issued' # 0 <=> registered' # {})
  BY <1>1 DEF IInv, Subscribed
<1>12. FirstExchange(current)'
  <2>1. Reported(q)
    BY <1>4 DEF IInv, Subscribed, Reported
  <2>2. Reported(inb[current][1])'
    BY <1>1, <1>6, <1>7, <2>1 DEF Reported
  <2> QED BY <1>1, <1>3, <2>2 DEF FirstExchange
<1> QED BY <1>8, <1>9, <1>10, <1>11, <1>12 DEF IInv

\* The client takes the oldest response of its stream off the channel and
\* answers it by its nonce.
LEMMA TakeResponse ==
    ASSUME IInv, current # NoStream, out[current] # <<>>, NEW ok \in BOOLEAN,
           out' = [out EXCEPT ![current] = Tail(@)],
           inb' = [inb EXCEPT ![current] = Append(@, Request(Head(out[current]).nonce, ok, {}, {}))],
           UNCHANGED <<conf, stream, issued, current, want>>,
           taken' \in [Streams -> SUBSET Configs],
           \A s \in Streams : taken[s] \subseteq taken'[s],
           ok => Head(out[current]).snap \in taken'[current]
    PROVE  /\ current \in Streams /\ Head(out[current]) \in Responses
           /\ ServerTypes' /\ ChannelTypes'
           /\ \A s \in Streams : Memory(s)' /\ Channels(s)' /\ Attributed(s)'
           /\ (issued' # 0 <=> registered' # {})
           /\ FirstExchange(current)'
<1> DEFINE r == Head(out[current])
           q == Request(r.nonce, ok, {}, {})
<1>1. current \in Streams /\ current \in open
  BY DEF IInv, ClientTypes, ServerTypes
<1>2. out[current] \in Seq(Responses) /\ inb[current] \in Seq(Requests)
  BY <1>1 DEF IInv, ChannelTypes
<1>3. /\ r \in Responses /\ Tail(out[current]) \in Seq(Responses)
      /\ Len(Tail(out[current])) = Len(out[current]) - 1
      /\ \A i \in 1..Len(Tail(out[current])) : Tail(out[current])[i] = out[current][i + 1]
  BY <1>2, HeadTailProperties
<1>4. Len(out[current]) \in Nat \ {0} /\ r = out[current][1] /\ 1 \in 1..Len(out[current])
  BY <1>2, EmptySeq
<1>5. q \in Requests /\ q.nonce = r.nonce /\ q.ok = ok /\ q.first = FALSE
  <2>1. r.nonce \in 0..MaxNonce /\ {} \in SUBSET Names
    BY <1>3, ResponseFields
  <2>2. ASSUME NEW m \in 0..MaxNonce
        PROVE  /\ Request(m, ok, {}, {}) \in Requests /\ Request(m, ok, {}, {}).nonce = m
               /\ Request(m, ok, {}, {}).ok = ok /\ Request(m, ok, {}, {}).first = FALSE
    BY <2>1, NothingValues DEF Request, Requests
  <2> QED BY <2>1, <2>2
<1>6. out'[current] = Tail(out[current]) /\ out' \in [Streams -> Seq(Responses)]
  BY <1>1, <1>3 DEF IInv, ChannelTypes
<1>7. inb'[current] = Append(inb[current], q)
  BY <1>1 DEF IInv, ChannelTypes
<1> HIDE DEF q
<1>8. /\ Append(inb[current], q) \in Seq(Requests)
      /\ Len(Append(inb[current], q)) = Len(inb[current]) + 1 /\ Len(inb[current]) \in Nat
      /\ Append(inb[current], q)[Len(inb[current]) + 1] = q
      /\ \A i \in 1..Len(inb[current]) : Append(inb[current], q)[i] = inb[current][i]
  BY <1>2, <1>5, AppendProperties, LenProperties
<1>9. inb' \in [Streams -> Seq(Requests)]
  BY <1>1, <1>8 DEF IInv, ChannelTypes, q
<1>10. current \in registered
  BY <1>1 DEF IInv, Channels
<1>11. \A i \in 1..Len(inb'[current]) :
          inb'[current][i] = q \/ (i \in 1..Len(inb[current]) /\ inb'[current][i] = inb[current][i])
  BY <1>7, <1>8
<1>12. \A i \in 1..Len(out'[current]) :
          i + 1 \in 1..Len(out[current]) /\ i + 1 > 1 /\ out'[current][i] = out[current][i + 1]
  BY <1>3, <1>4, <1>6
<1>13. ServerTypes' /\ ChannelTypes'
  BY <1>6, <1>9 DEF IInv, ServerTypes, ChannelTypes, stream
<1>14. ASSUME NEW s \in Streams PROVE Memory(s)' /\ Channels(s)' /\ Attributed(s)'
  <2>1. Memory(s)'
    BY DEF IInv, Memory, AtMostOne, stream
  <2>2. CASE s = current
    <3>1. Channels(s)'
      <4>1. Len(out'[s]) <= ChannelCap + 1
        BY <1>1, <1>3, <1>4, <1>6, <2>2, AdsAssumption DEF IInv, Channels
      <4>2. \A i \in 1..Len(inb'[s]) : ~inb'[s][i].first
        BY <1>1, <1>5, <1>10, <1>11, <2>2 DEF IInv, Channels
      <4>3. \A i \in 1..Len(out'[s]) : ~out'[s][i].first
        BY <1>1, <1>12, <2>2 DEF IInv, Channels
      <4>4. s \in open' /\ s \in registered'
        BY <1>1, <1>10, <2>2 DEF stream
      <4> QED BY <4>1, <4>2, <4>3, <4>4 DEF Channels
    <3>2. Attributed(s)'
      <4>1. \A i \in 1..Len(out'[s]) : out'[s][i].nonce = issued => sent[s] = {out'[s][i].snap}
        BY <1>12, <2>2 DEF IInv, Attributed
      <4>2. ASSUME ok, r.nonce = issued PROVE sent[s] \subseteq taken'[s]
        BY <1>4, <2>2, <4>2 DEF IInv, Attributed
      <4>3. ASSUME NEW i \in 1..Len(inb'[s]),
                   inb'[s][i].nonce = issued /\ issued # 0 /\ inb'[s][i].ok
            PROVE  sent[s] \subseteq taken'[s]
        BY <1>5, <1>11, <2>2, <4>2, <4>3 DEF IInv, Attributed
      <4>4. accepted[s] \subseteq taken'[s]
        BY <2>2 DEF IInv, Attributed
      <4> QED BY <4>1, <4>3, <4>4 DEF Attributed, stream
    <3> QED BY <2>1, <3>1, <3>2
  <2>3. CASE s # current
    <3>1. SameStream(s) /\ s # current' /\ issued' = issued
      BY <2>3 DEF SameStream, IInv, ChannelTypes, stream
    <3>2. Channels(s)'
      BY <3>1, StreamFrame DEF IInv
    <3>3. Attributed(s)'
      BY <3>1 DEF SameStream, IInv, Attributed
    <3> QED BY <2>1, <3>2, <3>3
  <2> QED BY <2>2, <2>3
<1>15. issued' # 0 <=> registered' # {}
  BY DEF IInv, stream
<1>16. FirstExchange(current)'
  <2>1. out'[current] # <<>> => 1 \in 1..Len(out'[current])
    BY <1>3, <1>6, EmptySeq
  <2>2. out'[current] # <<>> => ~out'[current][1].first
    BY <1>1, <1>12, <2>1 DEF IInv, Channels
  <2> QED BY <1>10, <2>2 DEF FirstExchange, stream
<1> QED BY <1>1, <1>3, <1>13, <1>14, <1>15, <1>16

\* The client applies a response: its snapshot is taken, its nonce is returned.
LEMMA AcceptInv ==
    ASSUME IInv, Accept
    PROVE  IInv'
<1> DEFINE r == Head(out[current])
<1>1. /\ current # NoStream /\ out[current] # <<>>
      /\ held' = Apply(r)
      /\ taken' = [taken EXCEPT ![current] = @ \cup {r.snap}]
      /\ inb' = [inb EXCEPT ![current] = Append(@, Request(r.nonce, TRUE, {}, {}))]
      /\ out' = [out EXCEPT ![current] = Tail(@)]
      /\ UNCHANGED <<conf, stream, issued, current, want>>
  BY DEF Accept
<1>2. current \in Streams /\ out[current] \in Seq(Responses)
  BY <1>1 DEF IInv, ClientTypes, ServerTypes, ChannelTypes
<1>3. r \in Responses
  BY <1>1, <1>2, HeadTailProperties
<1>4. r.snap \in Configs /\ r.snap \in [Names -> Values]
  BY <1>3, ResponseFields, ConfigValues
<1>5. /\ taken' \in [Streams -> SUBSET Configs]
      /\ \A s \in Streams : taken[s] \subseteq taken'[s]
      /\ r.snap \in taken'[current]
  BY <1>1, <1>2, <1>4 DEF IInv, ClientTypes
<1>6. /\ ServerTypes' /\ ChannelTypes'
      /\ \A s \in Streams : Memory(s)' /\ Channels(s)' /\ Attributed(s)'
      /\ (issued' # 0 <=> registered' # {})
      /\ FirstExchange(current)'
  BY <1>1, <1>5, TakeResponse
<1>7. held' \in [Names -> Values] /\ \A n \in Names : held'[n] # Absent => Wanted(want, n)
  <2>1. Absent \in Values
    BY DEF Values
  <2> QED BY <1>1, <1>4, <2>1 DEF IInv, ClientTypes, Apply
<1>8. ClientTypes'
  BY <1>1, <1>5, <1>7 DEF IInv, ClientTypes, stream
<1>9. Subscribed'
  BY <1>1, <1>7 DEF IInv, Subscribed, Wanted
<1> QED BY <1>6, <1>8, <1>9 DEF IInv

\* The client rejects a response: its nonce is returned, nothing is taken.
LEMMA NackInv ==
    ASSUME IInv, Nack
    PROVE  IInv'
<1>1. /\ current # NoStream /\ out[current] # <<>>
      /\ inb' = [inb EXCEPT ![current] = Append(@, Request(Head(out[current]).nonce, FALSE, {}, {}))]
      /\ out' = [out EXCEPT ![current] = Tail(@)]
      /\ UNCHANGED <<conf, stream, issued, client>>
  BY DEF Nack
<1>2. taken' \in [Streams -> SUBSET Configs] /\ \A s \in Streams : taken[s] \subseteq taken'[s]
  BY <1>1 DEF IInv, ClientTypes, client
<1>3. UNCHANGED <<conf, stream, issued, current, want>>
  BY <1>1 DEF client
<1>4. /\ ServerTypes' /\ ChannelTypes'
      /\ \A s \in Streams : Memory(s)' /\ Channels(s)' /\ Attributed(s)'
      /\ (issued' # 0 <=> registered' # {})
      /\ FirstExchange(current)'
  BY <1>1, <1>2, <1>3, TakeResponse
<1>5. ClientTypes' /\ Subscribed'
  BY <1>1 DEF IInv, ClientTypes, Subscribed, stream, client
<1> QED BY <1>4, <1>5 DEF IInv

\* A change of subscription is a request that names no response.
LEMMA ResubscribeInv ==
    ASSUME IInv, NEW n \in Names, Resubscribe(n)
    PROVE  IInv'
<1>1. /\ current # NoStream /\ Star \notin want /\ want # {n}
      /\ UNCHANGED <<conf, stream, out, issued, current, taken>>
  BY DEF Resubscribe
<1>2. current \in Streams /\ current \in open
  BY <1>1 DEF IInv, ClientTypes, ServerTypes
<1>3. PICK add \in SUBSET Names, del \in SUBSET Names :
        inb' = [inb EXCEPT ![current] = Append(@, Request(0, TRUE, add, del))]
  BY DEF Resubscribe
<1> DEFINE q == Request(0, TRUE, add, del)
<1>4. q \in Requests /\ q.nonce = 0 /\ q.first = FALSE
  <2>1. 0 \in 0..MaxNonce
    BY AdsAssumption
  <2> QED BY <2>1, RequestType
<1>5. inb' = [inb EXCEPT ![current] = Append(@, q)]
  BY <1>3
<1> HIDE DEF q
<1>6. inb[current] \in Seq(Requests)
  BY <1>2 DEF IInv, ChannelTypes
<1>7. /\ Append(inb[current], q) \in Seq(Requests)
      /\ Len(Append(inb[current], q)) = Len(inb[current]) + 1 /\ Len(inb[current]) \in Nat
      /\ Append(inb[current], q)[Len(inb[current]) + 1] = q
      /\ \A i \in 1..Len(inb[current]) : Append(inb[current], q)[i] = inb[current][i]
  BY <1>4, <1>6, AppendProperties, LenProperties
<1>8. inb'[current] = Append(inb[current], q) /\ inb' \in [Streams -> Seq(Requests)]
  BY <1>2, <1>5, <1>7 DEF IInv, ChannelTypes
<1>9. \A i \in 1..Len(inb'[current]) :
          inb'[current][i] = q \/ (i \in 1..Len(inb[current]) /\ inb'[current][i] = inb[current][i])
  BY <1>7, <1>8
<1>10. /\ inb[current] # <<>> => inb'[current] # <<>> /\ inb'[current][1] = inb[current][1]
  <2>1. inb[current] # <<>> => 1 \in 1..Len(inb[current])
    BY <1>6, EmptySeq
  <2>2. inb'[current] # <<>>
    <3>1. Len(inb'[current]) # 0 /\ Len(<<>>) = 0
      BY <1>7, <1>8, EmptySeq
    <3> QED BY <3>1
  <2> QED BY <1>7, <1>8, <2>1, <2>2
<1>11. /\ Star \notin want' /\ want' # {} /\ want' \subseteq Names \cup {Star}
       /\ held' \in [Names -> Values]
       /\ \A m \in Names : held'[m] # Absent => Wanted(want', m)
  <2>1. Star # n /\ Absent \in Values
    BY AdsAssumption DEF Values
  <2>2. want # {} /\ want \subseteq Names \cup {Star} /\ held \in [Names -> Values]
    BY <1>1 DEF IInv, Subscribed, ClientTypes
  <2>3. \A m \in Names : held[m] # Absent => m \in want
    BY <1>1 DEF IInv, Subscribed, Wanted
  <2>4. CASE n \in want
    <3>1. want' = want \ {n} /\ held' = [held EXCEPT ![n] = Absent]
      BY <2>4 DEF Resubscribe
    <3> QED BY <1>1, <2>1, <2>2, <2>3, <3>1 DEF Wanted
  <2>5. CASE n \notin want
    <3>1. want' = want \cup {n} /\ held' = held
      BY <2>5 DEF Resubscribe
    <3> QED BY <1>1, <2>1, <2>2, <2>3, <3>1 DEF Wanted
  <2> QED BY <2>4, <2>5
<1>12. ServerTypes' /\ ChannelTypes' /\ ClientTypes'
  BY <1>1, <1>8, <1>11 DEF IInv, ServerTypes, ChannelTypes, ClientTypes, stream
<1>13. ASSUME NEW s \in Streams PROVE Memory(s)' /\ Channels(s)' /\ Attributed(s)'
  <2>1. Memory(s)'
    BY <1>1 DEF IInv, Memory, AtMostOne, stream
  <2>2. CASE s = current
    <3>1. Channels(s)'
      <4>1. s \in open' \ registered' =>
               inb'[s] # <<>> /\ inb'[s][1].nonce = 0 /\ inb'[s][1].del = {}
        BY <1>1, <1>2, <1>10, <2>2 DEF IInv, Channels, stream
      <4>2. \A i \in 1..Len(inb'[s]) : i > 1 \/ s \in registered' => ~inb'[s][i].first
        BY <1>1, <1>2, <1>4, <1>9, <2>2 DEF IInv, Channels, stream
      <4> QED BY <1>1, <1>2, <2>2, <4>1, <4>2 DEF IInv, Channels, stream
    <3>2. Attributed(s)'
      <4>1. \A i \in 1..Len(inb'[s]) :
               inb'[s][i].nonce = issued /\ issued # 0 /\ inb'[s][i].ok => sent[s] \subseteq taken[s]
        BY <1>4, <1>9, <2>2 DEF IInv, Attributed
      <4> QED BY <1>1, <4>1 DEF IInv, Attributed, stream
    <3> QED BY <2>1, <3>1, <3>2
  <2>3. CASE s # current
    <3>1. SameStream(s) /\ s # current' /\ issued' = issued /\ taken'[s] = taken[s]
      BY <1>1, <1>5, <2>3 DEF SameStream, IInv, ChannelTypes, stream
    <3> QED BY <2>1, <3>1, StreamFrame, AttributedFrame DEF IInv
  <2> QED BY <2>2, <2>3
<1>14. Subscribed' /\ (issued' # 0 <=> registered' # {})
  BY <1>1, <1>11 DEF IInv, Subscribed, Wanted, stream
<1>15. FirstExchange(current)'
  <2>1. FirstExchange(current) /\ want # {Star} /\ want' # {Star}
    BY <1>1, <1>11 DEF IInv
  <2>2. current \notin registered => inb[current] # <<>>
    BY <1>2 DEF IInv, Channels
  <2>3. current' \notin registered' => Reported(inb[current][1])'
    BY <1>1, <1>10, <2>1, <2>2 DEF FirstExchange, Reported, stream
  <2>4. out'[current'] # <<>> => ~out'[current'][1].first \/ Repairs(out[current][1])'
    BY <1>1, <2>1 DEF FirstExchange, Repairs
  <2> QED BY <2>3, <2>4 DEF FirstExchange
<1> QED BY <1>12, <1>13, <1>14, <1>15 DEF IInv

-----------------------------------------------------------------------------
(* The stream's task.                                                      *)

\* What a response that is sent changes: it is the only thing that carries the
\* node's last nonce.
Issued(s, c, w, previous, q) ==
    /\ out' \in [Streams -> Seq(Responses)]
    /\ issued' \in 0..MaxNonce /\ issued' # 0
    /\ sent' = [sent EXCEPT ![s] = {c}] /\ sent'[s] = {c}
    /\ Len(out'[s]) <= ChannelCap + 1 /\ out'[s] # <<>>
    /\ \A i \in 1..Len(out'[s]) : i > 1 => ~out'[s][i].first
    /\ \A i \in 1..Len(out'[s]) : out'[s][i].nonce = issued' => out'[s][i].snap = c
    /\ \A t \in Streams : \A i \in 1..Len(out[t]) : out[t][i].nonce # issued'
    /\ \A t \in Streams : \A i \in 1..Len(inb[t]) : inb[t][i].nonce # issued'
    /\ \A t \in Streams \ {s} : out'[t] = out[t] /\ sent'[t] = sent[t]
    /\ \/ out[s] # <<>> /\ out'[s][1] = out[s][1]
       \/ out[s] = <<>> /\ out'[s][1] = Response(issued', c, w, previous, q)

\* What a send does: a new nonce, which no other message carries, names the
\* response at the end of the channel.
LEMMA SendFacts ==
    ASSUME IInv, NEW s \in Streams, s \in open, ~Blocked(s),
           NEW c \in Configs, NEW w \in SUBSET (Names \cup {Star}), NEW previous,
           NEW q \in Requests, q.first => out[s] = <<>>,
           Send(s, c, w, previous, q)
    PROVE  Issued(s, c, w, previous, q)
<1> DEFINE r == Response(NewNonce, c, w, previous, q)
<1>1. /\ issued' = NewNonce /\ sent' = [sent EXCEPT ![s] = {c}]
      /\ out' = [out EXCEPT ![s] = Append(@, r)]
      /\ ~(1..MaxNonce \subseteq InUse)
  BY DEF Send
<1>2. /\ NewNonce \in 1..MaxNonce /\ NewNonce # 0 /\ NewNonce \in 0..MaxNonce
      /\ \A t \in Streams : \A i \in 1..Len(out[t]) : out[t][i].nonce # NewNonce
      /\ \A t \in Streams : \A i \in 1..Len(inb[t]) : inb[t][i].nonce # NewNonce
  BY <1>1, FreshNonce
<1>3. r \in Responses /\ r.snap = c /\ r.first = q.first
  BY <1>2, ResponseType
<1>4. out[s] \in Seq(Responses)
  BY DEF IInv, ChannelTypes
<1> HIDE DEF r
<1>5. /\ Append(out[s], r) \in Seq(Responses)
      /\ Len(Append(out[s], r)) = Len(out[s]) + 1 /\ Len(out[s]) \in Nat
      /\ Append(out[s], r)[Len(out[s]) + 1] = r
      /\ \A i \in 1..Len(out[s]) : Append(out[s], r)[i] = out[s][i]
  BY <1>3, <1>4, AppendProperties, LenProperties
<1>6. out'[s] = Append(out[s], r) /\ out' \in [Streams -> Seq(Responses)]
  BY <1>1, <1>5 DEF IInv, ChannelTypes
<1>7. Len(out'[s]) <= ChannelCap + 1
  BY <1>5, <1>6, AdsAssumption DEF Blocked
<1>8. out'[s] # <<>>
  <2>1. Len(out'[s]) # 0 /\ Len(<<>>) = 0
    BY <1>5, <1>6, EmptySeq
  <2> QED BY <2>1
<1>9. ASSUME NEW i \in 1..Len(out'[s]), i > 1 PROVE ~out'[s][i].first
  <2>1. CASE i \in 1..Len(out[s])
    BY <1>5, <1>6, <1>9, <2>1 DEF IInv, Channels
  <2>2. CASE i = Len(out[s]) + 1
    <3>1. Len(out[s]) # 0
      BY <1>5, <1>9, <2>2
    <3>2. out[s] # <<>>
      BY <3>1, EmptySeq
    <3> QED BY <1>3, <1>5, <1>6, <2>2, <3>2
  <2> QED BY <1>5, <1>6, <2>1, <2>2
<1>10. ASSUME NEW i \in 1..Len(out'[s]), out'[s][i].nonce = issued' PROVE out'[s][i].snap = c
  <2>1. CASE i \in 1..Len(out[s])
    BY <1>1, <1>2, <1>5, <1>6, <1>10, <2>1
  <2>2. CASE i = Len(out[s]) + 1
    BY <1>3, <1>5, <1>6, <2>2
  <2> QED BY <1>5, <1>6, <2>1, <2>2
<1>11. \A t \in Streams \ {s} : out'[t] = out[t] /\ sent'[t] = sent[t]
  BY <1>1 DEF IInv, ServerTypes, ChannelTypes
<1>12. sent'[s] = {c}
  BY <1>1 DEF IInv, ServerTypes
<1>13. \/ out[s] # <<>> /\ out'[s][1] = out[s][1]
       \/ out[s] = <<>> /\ out'[s][1] = Response(issued', c, w, previous, q)
  <2>1. CASE out[s] # <<>>
    <3>1. 1 \in 1..Len(out[s])
      BY <1>4, <2>1, EmptySeq
    <3> QED BY <1>5, <1>6, <2>1, <3>1
  <2>2. CASE out[s] = <<>>
    <3>1. Len(out[s]) + 1 = 1
      BY <2>2, EmptySeq
    <3>2. out'[s][1] = r
      BY <1>5, <1>6, <3>1
    <3> QED BY <1>1, <2>2, <3>2 DEF r
  <2> QED BY <2>1, <2>2
<1> QED BY <1>1, <1>2, <1>6, <1>7, <1>8, <1>9, <1>10, <1>11, <1>12, <1>13 DEF Issued

\* A wake-up sends a difference, which is not a first response, or nothing.
LEMMA UpdateInv ==
    ASSUME IInv, NEW u \in Streams, Update(u)
    PROVE  IInv'
<1>1. /\ woken[u] /\ ~Blocked(u)
      /\ woken' = [woken EXCEPT ![u] = FALSE]
      /\ snap' = [snap EXCEPT ![u] = conf]
      /\ UNCHANGED <<conf, open, registered, sub, accepted, inb, client>>
  BY DEF Update
<1>2. u \in open
  BY <1>1 DEF IInv, Memory
<1>3. CASE UNCHANGED <<out, issued, sent>>
  <2>1. ServerTypes' /\ ChannelTypes' /\ ClientTypes'
    BY <1>1, <1>3 DEF IInv, ServerTypes, ChannelTypes, ClientTypes, client
  <2>2. ASSUME NEW s \in Streams PROVE Memory(s)' /\ Channels(s)' /\ Attributed(s)'
    <3>1. SameStream(s) /\ (s \notin open => woken'[s] = woken[s]) /\ taken'[s] = taken[s]
          /\ (s = current' => s = current) /\ issued' = issued
      BY <1>1, <1>2, <1>3 DEF SameStream, client, IInv, ServerTypes
    <3> QED BY <3>1, StreamFrame, AttributedFrame DEF IInv
  <2>3. Subscribed' /\ (issued' # 0 <=> registered' # {})
    BY <1>1, <1>3 DEF IInv, Subscribed, client
  <2>4. current' # NoStream => FirstExchange(current)'
    BY <1>1, <1>3 DEF IInv, FirstExchange, Reported, Repairs, client
  <2> QED BY <2>1, <2>2, <2>3, <2>4 DEF IInv
<1>4. CASE u \in registered /\ Send(u, conf, sub[u], accepted[u], NoRequest)
  <2>1. NoRequest \in Requests /\ NoRequest.first = FALSE
    <3>1. 0 \in 0..MaxNonce /\ {} \in SUBSET Names
      BY AdsAssumption
    <3> QED BY <3>1, RequestType DEF NoRequest
  <2>2. conf \in Configs /\ sub[u] \in SUBSET (Names \cup {Star})
    BY DEF IInv, ServerTypes
  <2>3. Issued(u, conf, sub[u], accepted[u], NoRequest)
    <3>1. NoRequest.first => out[u] = <<>>
      BY <2>1
    <3> QED BY <1>1, <1>2, <1>4, <2>1, <2>2, <3>1, SendFacts
  <2>4. ServerTypes' /\ ChannelTypes' /\ ClientTypes'
    BY <1>1, <2>2, <2>3 DEF Issued, IInv, ServerTypes, ChannelTypes, ClientTypes, client
  <2>5. ASSUME NEW s \in Streams PROVE Memory(s)' /\ Channels(s)' /\ Attributed(s)'
    <3>1. CASE s = u
      <4>1. Memory(s)'
        BY <1>1, <1>2, <1>4, <2>2, <2>3, <3>1 DEF Issued, IInv, Memory, AtMostOne
      <4>2. Channels(s)'
        BY <1>1, <1>2, <1>4, <2>3, <3>1 DEF Issued, IInv, Channels
      <4>3. Attributed(s)'
        BY <1>1, <2>3, <3>1 DEF Issued, IInv, Attributed, client
      <4> QED BY <4>1, <4>2, <4>3
    <3>2. CASE s # u
      <4>1. SameStream(s) /\ woken'[s] = woken[s] /\ taken'[s] = taken[s]
            /\ (s = current' => s = current)
        BY <1>1, <2>3, <3>2 DEF Issued, SameStream, client, IInv, ServerTypes
      <4>2. Attributed(s)'
        BY <2>3, <4>1, AttributedFrame DEF Issued, IInv
      <4> QED BY <4>1, <4>2, StreamFrame DEF IInv
    <3> QED BY <3>1, <3>2
  <2>6. Subscribed' /\ (issued' # 0 <=> registered' # {})
    BY <1>1, <1>4, <2>3 DEF Issued, IInv, Subscribed, client
  <2>7. ASSUME current' # NoStream PROVE FirstExchange(current)'
    <3>1. current' = current /\ current \in Streams /\ FirstExchange(current) /\ want' = want /\ held' = held
      BY <1>1, <2>7 DEF IInv, ClientTypes, ServerTypes, client
    <3>2. CASE current = u
      <4>1. Response(issued', conf, sub[u], accepted[u], NoRequest).first = FALSE
        BY <2>1 DEF Response
      <4>2. CASE out[u] # <<>> /\ out'[u][1] = out[u][1]
        BY <1>1, <1>4, <3>1, <3>2, <4>2 DEF FirstExchange, Repairs
      <4>3. CASE out[u] = <<>> /\ out'[u][1].first = FALSE
        BY <1>1, <1>4, <3>1, <3>2, <4>3 DEF FirstExchange
      <4> QED BY <2>3, <4>1, <4>2, <4>3 DEF Issued
    <3>3. CASE current # u
      <4>1. out'[current] = out[current] /\ inb'[current] = inb[current]
        BY <1>1, <2>3, <3>1, <3>3 DEF Issued
      <4> QED BY <1>1, <3>1, <4>1 DEF FirstExchange, Reported, Repairs
    <3> QED BY <3>2, <3>3
  <2> QED BY <2>4, <2>5, <2>6, <2>7 DEF IInv
<1> QED BY <1>3, <1>4 DEF Update

\* The request a stream's task takes.
LEMMA HeadRequest ==
    ASSUME IInv, NEW h \in Streams, inb[h] # <<>>
    PROVE  /\ Head(inb[h]) \in Requests /\ Head(inb[h]) = inb[h][1] /\ 1 \in 1..Len(inb[h])
           /\ Tail(inb[h]) \in Seq(Requests)
           /\ \A i \in 1..Len(Tail(inb[h])) :
                 i + 1 \in 1..Len(inb[h]) /\ i + 1 > 1 /\ Tail(inb[h])[i] = inb[h][i + 1]
<1>1. inb[h] \in Seq(Requests)
  BY DEF IInv, ChannelTypes
<1>2. Len(inb[h]) \in Nat \ {0}
  BY <1>1, EmptySeq
<1>3. /\ Head(inb[h]) \in Requests /\ Tail(inb[h]) \in Seq(Requests)
      /\ Len(Tail(inb[h])) = Len(inb[h]) - 1
      /\ \A i \in 1..Len(Tail(inb[h])) : Tail(inb[h])[i] = inb[h][i + 1]
  BY <1>1, HeadTailProperties
<1>4. Head(inb[h]) = inb[h][1] /\ 1 \in 1..Len(inb[h])
  BY <1>1, <1>2
<1>5. \A i \in 1..Len(Tail(inb[h])) : i + 1 \in 1..Len(inb[h]) /\ i + 1 > 1
  BY <1>2, <1>3
<1> QED BY <1>3, <1>4, <1>5

\* A request: an acknowledgement moves the baseline to what its client applied;
\* the first one is answered by a response that repairs its client.
LEMMA HandleInv ==
    ASSUME IInv, NEW h \in Streams, Handle(h)
    PROVE  IInv'
<1> DEFINE q == Head(inb[h])
           first == h \notin registered
           c == IF first /\ woken[h] THEN conf ELSE snap[h]
           previous == IF Acked(q) /\ sent[h] # {} THEN sent[h] ELSE accepted[h]
           w == Subscription(first, sub[h], q.add, q.del)
<1>1. /\ h \in open /\ inb[h] # <<>> /\ ~Blocked(h)
      /\ inb' = [inb EXCEPT ![h] = Tail(@)]
      /\ registered' = registered \cup {h}
      /\ snap' = [snap EXCEPT ![h] = c]
      /\ woken' = [woken EXCEPT ![h] = @ /\ ~first]
      /\ accepted' = [accepted EXCEPT ![h] = previous]
      /\ sub' = [sub EXCEPT ![h] = w]
      /\ UNCHANGED <<conf, open, client>>
  BY DEF Handle, Answer
<1>2. \/ Send(h, c, w, previous, q)
      \/ q.nonce # 0 /\ UNCHANGED <<out, issued, sent>>
  BY DEF Handle, Answer
<1>3. /\ q \in Requests /\ q = inb[h][1] /\ 1 \in 1..Len(inb[h])
      /\ Tail(inb[h]) \in Seq(Requests)
      /\ \A i \in 1..Len(Tail(inb[h])) :
            i + 1 \in 1..Len(inb[h]) /\ i + 1 > 1 /\ Tail(inb[h])[i] = inb[h][i + 1]
  BY <1>1, HeadRequest
<1>4. /\ conf \in Configs /\ snap[h] \in Configs /\ sub[h] \in SUBSET (Names \cup {Star})
      /\ sent[h] \in SUBSET Configs /\ accepted[h] \in SUBSET Configs
  BY DEF IInv, ServerTypes
<1>5. c \in Configs /\ previous \in SUBSET Configs /\ first \in BOOLEAN
  BY <1>4
<1>6. w \in SUBSET (Names \cup {Star})
  BY <1>3, <1>4, <1>5, SubscriptionType
<1>7. AtMostOne(previous)
  BY DEF IInv, Memory
<1>8. /\ first => /\ q.nonce = 0 /\ q.del = {} /\ previous = {} /\ out[h] = <<>>
                  /\ w = Subscription(TRUE, sub[h], q.add, q.del)
      /\ ~first => ~q.first
  <2> HIDE DEF q
  <2>1. ASSUME first
        PROVE  q.nonce = 0 /\ q.del = {} /\ out[h] = <<>> /\ accepted[h] = {}
    <3>1. inb[h][1].nonce = 0 /\ inb[h][1].del = {} /\ out[h] = <<>>
      BY <1>1, <2>1 DEF IInv, Channels
    <3>2. accepted[h] = {}
      BY <2>1 DEF IInv, Memory
    <3> QED BY <1>3, <3>1, <3>2
  <2>2. ASSUME first PROVE previous = {}
    <3>1. ~Acked(q)
      BY <2>1, <2>2 DEF Acked
    <3> QED BY <2>1, <2>2, <3>1
  <2>3. ASSUME first PROVE w = Subscription(TRUE, sub[h], q.add, q.del)
    BY <2>3 DEF Subscription
  <2>4. ASSUME ~first PROVE ~q.first
    <3>1. \A i \in 1..Len(inb[h]) : ~inb[h][i].first
      BY <2>4 DEF IInv, Channels
    <3> QED BY <1>3, <3>1
  <2> QED BY <2>1, <2>2, <2>3, <2>4
<1>9. h = current => previous \subseteq taken[h]
  BY <1>3 DEF IInv, Attributed, Acked
<1>10. inb'[h] = Tail(inb[h]) /\ inb' \in [Streams -> Seq(Requests)]
  BY <1>1, <1>3 DEF IInv, ChannelTypes
<1>11. \A i \in 1..Len(inb'[h]) : ~inb'[h][i].first
  BY <1>3, <1>10 DEF IInv, Channels
<1>12. accepted' \in [Streams -> SUBSET Configs] /\ accepted'[h] = previous
  BY <1>1, <1>5 DEF IInv, ServerTypes
<1>13. /\ snap' \in [Streams -> Configs] /\ sub' \in [Streams -> SUBSET (Names \cup {Star})]
       /\ woken' \in [Streams -> BOOLEAN] /\ registered' \subseteq open'
  BY <1>1, <1>5, <1>6 DEF IInv, ServerTypes
<1>14. ClientTypes' /\ Subscribed' /\ current' = current /\ taken' = taken
       /\ want' = want /\ held' = held
  BY <1>1 DEF IInv, ClientTypes, Subscribed, client
<1>15. \A s \in Streams \ {h} :
          /\ inb'[s] = inb[s] /\ accepted'[s] = accepted[s] /\ woken'[s] = woken[s]
          /\ s \in open' <=> s \in open
          /\ s \in registered' <=> s \in registered
  BY <1>1 DEF IInv, ServerTypes, ChannelTypes
<1>16. CASE Send(h, c, w, previous, q)
  <2>1. Issued(h, c, w, previous, q)
    <3>1. q.first => out[h] = <<>>
      BY <1>8
    <3> HIDE DEF q, c, w, previous, first
    <3> QED BY <1>1, <1>3, <1>5, <1>6, <1>16, <3>1, SendFacts
  <2> HIDE DEF q, c, w, previous, first
  <2>2. ServerTypes' /\ ChannelTypes'
    BY <1>1, <1>5, <1>10, <1>12, <1>13, <2>1 DEF IInv, ServerTypes, ChannelTypes, Issued
  <2>3. ASSUME NEW s \in Streams PROVE Memory(s)' /\ Channels(s)' /\ Attributed(s)'
    <3>1. CASE s = h
      <4>1. Memory(s)'
        BY <1>1, <1>5, <1>7, <1>12, <2>1, <3>1 DEF Memory, AtMostOne, Issued
      <4>2. Channels(s)'
        BY <1>1, <1>11, <2>1, <3>1 DEF Channels, Issued
      <4>3. Attributed(s)'
        <5>1. \A i \in 1..Len(out'[s]) : out'[s][i].nonce = issued' => sent'[s] = {out'[s][i].snap}
          BY <2>1, <3>1 DEF Issued
        <5>2. \A i \in 1..Len(inb'[s]) : inb'[s][i].nonce # issued'
          <6>1. \A i \in 1..Len(inb[h]) : inb[h][i].nonce # issued'
            BY <2>1 DEF Issued
          <6>2. \A i \in 1..Len(inb'[h]) : i + 1 \in 1..Len(inb[h]) /\ inb'[h][i] = inb[h][i + 1]
            BY <1>3, <1>10
          <6> QED BY <3>1, <6>1, <6>2
        <5>3. s = current' => accepted'[s] \subseteq taken'[s]
          BY <1>9, <1>12, <1>14, <3>1
        <5> QED BY <5>1, <5>2, <5>3 DEF Attributed
      <4> QED BY <4>1, <4>2, <4>3
    <3>2. CASE s # h
      <4>1. SameStream(s) /\ woken'[s] = woken[s] /\ taken'[s] = taken[s]
            /\ (s = current' => s = current)
        BY <1>14, <1>15, <2>1, <3>2 DEF SameStream, Issued
      <4>2. Attributed(s)'
        BY <2>1, <4>1, AttributedFrame DEF IInv, Issued
      <4> QED BY <4>1, <4>2, StreamFrame DEF IInv
    <3> QED BY <3>1, <3>2
  <2>4. issued' # 0 <=> registered' # {}
    BY <1>1, <2>1 DEF Issued
  <2>5. ASSUME current' # NoStream PROVE FirstExchange(current)'
    <3>1. current \in Streams /\ FirstExchange(current)
      BY <1>14, <2>5 DEF IInv, ClientTypes, ServerTypes
    <3>2. CASE current = h
      <4>1. CASE out[h] # <<>> /\ out'[h][1] = out[h][1]
        BY <1>1, <1>14, <3>1, <3>2, <4>1 DEF FirstExchange, Repairs
      <4>2. CASE out[h] = <<>> /\ out'[h][1] = Response(issued', c, w, previous, q)
        <5>1. CASE ~first
          <6>1. ~Response(issued', c, w, previous, q).first
            BY <1>8, <5>1 DEF Response
          <6> QED BY <1>1, <1>14, <3>2, <4>2, <6>1 DEF FirstExchange
        <5>2. CASE first
          <6>1. Reported(q) /\ Subscribed
            BY <1>3, <3>1, <3>2, <5>2 DEF FirstExchange, IInv, first
          <6>2. Repairs(Response(issued', c, w, previous, q))
            <7>1. ASSUME NEW n
                  PROVE  Repairs(Response(n, c, Subscription(TRUE, sub[h], q.add, q.del), {}, q))
              BY <1>3, <1>5, <1>8, <5>2, <6>1, FirstResponseRepairs
            <7> QED BY <1>8, <5>2, <7>1
          <6>3. Repairs(out[current][1])'
            BY <1>14, <3>2, <4>2, <6>2 DEF Repairs
          <6> QED BY <1>1, <1>14, <3>2, <6>3 DEF FirstExchange
        <5> QED BY <5>1, <5>2
      <4> QED BY <2>1, <4>1, <4>2 DEF Issued
    <3>3. CASE current # h
      <4>1. /\ out'[current] = out[current] /\ inb'[current] = inb[current]
            /\ current \in registered' <=> current \in registered
        BY <1>15, <2>1, <3>1, <3>3 DEF Issued
      <4> QED BY <1>14, <3>1, <4>1 DEF FirstExchange, Reported, Repairs
    <3> QED BY <3>2, <3>3
  <2> QED BY <1>14, <2>2, <2>3, <2>4, <2>5 DEF IInv
<1>17. CASE q.nonce # 0 /\ UNCHANGED <<out, issued, sent>>
  <2>1. h \in registered
    BY <1>8, <1>17
  <2>2. registered' = registered
    BY <1>1, <2>1
  <2> HIDE DEF q, c, w, previous, first
  <2>3. ServerTypes' /\ ChannelTypes'
    BY <1>1, <1>10, <1>12, <1>13, <1>17 DEF IInv, ServerTypes, ChannelTypes
  <2>4. ASSUME NEW s \in Streams PROVE Memory(s)' /\ Channels(s)' /\ Attributed(s)'
    <3>1. CASE s = h
      <4>1. Memory(s)'
        BY <1>1, <1>7, <1>12, <1>17, <2>1, <2>2, <3>1 DEF IInv, Memory, AtMostOne
      <4>2. Channels(s)'
        BY <1>1, <1>11, <1>17, <2>1, <2>2, <3>1 DEF IInv, Channels
      <4>3. Attributed(s)'
        <5>1. \A i \in 1..Len(inb'[s]) :
                 inb'[s][i].nonce = issued /\ issued # 0 /\ inb'[s][i].ok /\ s = current =>
                     sent[s] \subseteq taken[s]
          <6>1. \A i \in 1..Len(inb[h]) :
                   inb[h][i].nonce = issued /\ issued # 0 /\ inb[h][i].ok /\ h = current =>
                       sent[h] \subseteq taken[h]
            BY DEF IInv, Attributed
          <6>2. \A i \in 1..Len(inb'[h]) : i + 1 \in 1..Len(inb[h]) /\ inb'[h][i] = inb[h][i + 1]
            BY <1>3, <1>10
          <6> QED BY <3>1, <6>1, <6>2
        <5> QED BY <1>9, <1>12, <1>14, <1>17, <3>1, <5>1 DEF IInv, Attributed
      <4> QED BY <4>1, <4>2, <4>3
    <3>2. CASE s # h
      <4>1. SameStream(s) /\ woken'[s] = woken[s] /\ taken'[s] = taken[s]
            /\ (s = current' => s = current) /\ issued' = issued
        BY <1>14, <1>15, <1>17, <3>2 DEF SameStream
      <4> QED BY <4>1, StreamFrame, AttributedFrame DEF IInv
    <3> QED BY <3>1, <3>2
  <2>5. issued' # 0 <=> registered' # {}
    BY <1>17, <2>2 DEF IInv
  <2>6. ASSUME current' # NoStream PROVE FirstExchange(current)'
    <3>1. current \in Streams /\ FirstExchange(current)
      BY <1>14, <2>6 DEF IInv, ClientTypes, ServerTypes
    <3>2. current # h => inb'[current] = inb[current]
      BY <1>15, <3>1
    <3> QED BY <1>14, <1>17, <2>1, <2>2, <3>1, <3>2 DEF FirstExchange, Reported, Repairs
  <2> QED BY <1>14, <2>3, <2>4, <2>5, <2>6 DEF IInv
<1> QED BY <1>2, <1>16, <1>17

-----------------------------------------------------------------------------
(* The theorems.                                                           *)

\* A step that changes nothing.
LEMMA StutterInv ==
    ASSUME IInv, UNCHANGED vars
    PROVE  IInv'
<1>1. UNCHANGED <<conf, open, registered, sub, snap, woken, sent, accepted, out, inb, issued,
                  current, want, held, taken>>
  BY DEF vars, stream, client
<1>2. ServerTypes' /\ ChannelTypes' /\ ClientTypes'
  BY <1>1 DEF IInv, ServerTypes, ChannelTypes, ClientTypes
<1>3. ASSUME NEW s \in Streams PROVE Memory(s)' /\ Channels(s)' /\ Attributed(s)'
  <2>1. SameStream(s) /\ woken'[s] = woken[s] /\ taken'[s] = taken[s]
        /\ (s = current' => s = current) /\ issued' = issued
    BY <1>1 DEF SameStream
  <2> QED BY <2>1, StreamFrame, AttributedFrame DEF IInv
<1>4. Subscribed' /\ (issued' # 0 <=> registered' # {})
  BY <1>1 DEF IInv, Subscribed
<1>5. current' # NoStream => FirstExchange(current)'
  BY <1>1 DEF IInv, FirstExchange, Reported, Repairs
<1> QED BY <1>2, <1>3, <1>4, <1>5 DEF IInv

\* The inductive invariant: what the server remembers of its streams, what the
\* node's last nonce names, and what the first exchange of a stream has said.
THEOREM AdsInvariant == SafeSpec => []IInv
<1>1. ASSUME IInv, [Next]_vars PROVE IInv'
  <2>1. ASSUME NEW c \in Configs, Publish(c) PROVE IInv'
    BY <1>1, <2>1, PublishInv
  <2>2. ASSUME NEW s \in Streams, Handle(s) \/ Update(s) \/ Notice(s) \/ Open(s) PROVE IInv'
    BY <1>1, <2>2, HandleInv, UpdateInv, NoticeInv, OpenInv
  <2>3. CASE Expire \/ Disconnect \/ Accept \/ Nack
    BY <1>1, <2>3, ExpireInv, DisconnectInv, AcceptInv, NackInv
  <2>4. ASSUME NEW n \in Names, Resubscribe(n) PROVE IInv'
    BY <1>1, <2>4, ResubscribeInv
  <2>5. CASE UNCHANGED vars
    BY <1>1, <2>5, StutterInv
  <2> QED BY <1>1, <2>1, <2>2, <2>3, <2>4, <2>5 DEF Next
<1> QED BY <1>1, InitInv, PTL DEF SafeSpec

\* Types, bounded channels, at most one remembered snapshot per stream and
\* none of a stream that has ended.
THEOREM AdsTypeCorrect == SafeSpec => []TypeOK
<1>1. IInv => TypeOK
  <2> SUFFICES ASSUME IInv PROVE TypeOK
    OBVIOUS
  <2>1. \A S : AtMostOne(S) => Cardinality(S) <= 1
    <3>1. Cardinality({}) = 0 /\ \A c : Cardinality({c}) = 1
      BY FS_EmptySet, FS_Singleton
    <3> QED BY <3>1 DEF AtMostOne
  <2>2. ASSUME NEW s \in Streams
        PROVE  \A i \in 1..Len(inb[s]) : inb[s][i].nonce \in 0..MaxNonce
    <3>1. \A i \in 1..Len(inb[s]) : inb[s][i] \in Requests
      BY ElementOfSeq DEF IInv, ChannelTypes
    <3> QED BY <3>1, RequestFields
  <2>3. ASSUME NEW s \in Streams
        PROVE  /\ sub[s] \subseteq Names \cup {Star}
               /\ snap[s] \in Configs /\ woken[s] \in BOOLEAN
               /\ sent[s] \subseteq Configs /\ accepted[s] \subseteq Configs
    BY DEF IInv, ServerTypes
  <2>4. ASSUME NEW s \in Streams
        PROVE  /\ Cardinality(sent[s]) <= 1 /\ Cardinality(accepted[s]) <= 1
               /\ Len(out[s]) <= ChannelCap + 1
               /\ s \notin open => out[s] = <<>> /\ inb[s] = <<>> /\ ~woken[s]
               /\ s \in registered <=> sent[s] # {}
    BY <2>1 DEF IInv, ServerTypes, Memory, Channels
  <2> QED BY <2>2, <2>3, <2>4 DEF IInv, ServerTypes, ClientTypes, Subscribed, TypeOK
<1> QED BY <1>1, AdsInvariant, PTL

\* The baseline of the client's stream is a snapshot the client applied: no
\* acknowledgement of an older response, of another stream or of a rejected
\* response moves it; and the node's nonce lives as long as its streams.
THEOREM AcknowledgementsAreAttributed == SafeSpec => []AcksAreAttributed
<1>1. IInv => AcksAreAttributed
  BY DEF IInv, Attributed, AcksAreAttributed
<1> QED BY <1>1, AdsInvariant, PTL

\* The first response of a stream leaves the client with the snapshot it was
\* computed from, whatever earlier streams left behind.
THEOREM FirstResponseRepairsTheClient == SafeSpec => ReconnectRepairs
<1> DEFINE Repaired ==
      (Accept /\ Head(out[current]).first) =>
          LET r == Head(out[current]) IN
          \A n \in Names : Wanted(r.sub, n) /\ Wanted(want, n) => held'[n] = r.snap[n]
<1>1. ASSUME IInv, [Next]_vars PROVE [Repaired]_vars
  <2> DEFINE r == Head(out[current])
  <2> SUFFICES ASSUME Accept, r.first, NEW n \in Names, Wanted(r.sub, n), Wanted(want, n)
               PROVE  held'[n] = r.snap[n]
    OBVIOUS
  <2>1. current # NoStream /\ out[current] # <<>> /\ held' = Apply(r)
    BY DEF Accept
  <2>2. current \in Streams /\ out[current] \in Seq(Responses)
    BY <1>1, <2>1 DEF IInv, ClientTypes, ServerTypes, ChannelTypes
  <2>3. r = out[current][1]
    BY <2>1, <2>2, EmptySeq
  <2>4. Repairs(r)
    BY <1>1, <2>1, <2>3 DEF IInv, FirstExchange
  <2>5. held'[n] = IF n \in r.resources THEN r.snap[n]
                   ELSE IF n \in r.removed THEN Absent ELSE held[n]
    BY <2>1 DEF Apply
  <2> QED BY <2>4, <2>5 DEF Repairs
<1> QED BY <1>1, AdsInvariant, PTL DEF SafeSpec, ReconnectRepairs

=============================================================================
