--------------------------- MODULE SessionProofs ----------------------------
(***************************************************************************)
(* Proofs about a client's session with a node, for every set of commands  *)
(* and clients, every ACL and every setting of the rate limiter, and the   *)
(* proof that TopicFilter::matches decides what a filter means.            *)
(***************************************************************************)
EXTENDS Session, FiniteSetTheorems, NaturalsInduction, WellFoundedInduction, TLAPS

-----------------------------------------------------------------------------
(* RateLimiter.  A bucket is a summary of the history: it holds the least   *)
(* of the burst and, for each publish let through, what the window that     *)
(* starts there still has room for.                                         *)

\* What the window from the i-th publish to time t has room for.
Left(times, i, t) == Burst + (t - times[i]) * PerTick - (Len(times) - i + 1)

\* n tokens are what the windows at time t leave.
Exhausts(n, times, t) ==
    /\ n <= Burst
    /\ \A i \in 1 .. Len(times) : times[i] <= t /\ n <= Left(times, i, t)
    /\ n = Burst \/ \E i \in 1 .. Len(times) : n = Left(times, i, t)

BucketOK(p) ==
    /\ buckets[p] = [tokens |-> buckets[p].tokens, last |-> buckets[p].last]
    /\ buckets[p].tokens \in Nat /\ buckets[p].last \in Nat
    /\ buckets[p].last <= clock
    /\ Exhausts(buckets[p].tokens, granted[p], buckets[p].last)

RateInv ==
    /\ clock \in Nat
    /\ granted \in [Principals -> Seq(Nat)]
    /\ \A p \in Principals : IF IsNew(p) THEN granted[p] = <<>> ELSE BucketOK(p)

\* Time that passes adds to every window what it adds to the bucket.
LEMMA Later ==
    ASSUME NEW times \in Seq(Nat), NEW i \in 1 .. Len(times), NEW t \in Nat, NEW u \in Nat
    PROVE  /\ Left(times, i, t) \in Int
           /\ Left(times, i, u) = Left(times, i, t) + (u - t) * PerTick
<1> DEFINE g == times[i]
<1>1. g \in Nat /\ PerTick \in Nat /\ Burst \in Nat /\ Len(times) \in Nat
  BY RateLimiterAssumption
<1> HIDE DEF g
<1>2. (u - g) * PerTick = (t - g) * PerTick + (u - t) * PerTick
  <2>1. \A a, b, k \in Int : (a + b) * k = a * k + b * k
    OBVIOUS
  <2>2. t - g \in Int /\ u - t \in Int /\ PerTick \in Int /\ (t - g) + (u - t) = u - g
    BY <1>1
  <2>3. ((t - g) + (u - t)) * PerTick = (t - g) * PerTick + (u - t) * PerTick
    BY <2>1, <2>2, Zenon
  <2>4. QED
    BY <2>2, <2>3, Zenon
<1>3. (u - g) * PerTick \in Int /\ (t - g) * PerTick \in Int /\ (u - t) * PerTick \in Int
  <2>1. \A a, k \in Int : a * k \in Int
    OBVIOUS
  <2>2. u - g \in Int /\ t - g \in Int /\ u - t \in Int /\ PerTick \in Int
    BY <1>1
  <2>3. QED
    BY <2>1, <2>2, Zenon
<1> DEFINE a == (t - g) * PerTick
           b == (u - t) * PerTick
           c == (u - g) * PerTick
           m == Len(times) - i + 1
<1>4. Left(times, i, t) = Burst + a - m /\ Left(times, i, u) = Burst + c - m
  BY DEF Left, g
<1>5. a \in Int /\ b \in Int /\ c = a + b /\ m \in Int
  BY <1>1, <1>2, <1>3
<1> HIDE DEF a, b, c, m
<1>6. QED
  BY <1>1, <1>4, <1>5 DEF b

\* RateLimiter::allow refills a bucket by the time since it last did.
LEMMA RefillFacts ==
    ASSUME RateInv, NEW p \in Principals
    PROVE  Refilled(p) \in Nat /\ Exhausts(Refilled(p), granted[p], clock)
<1> DEFINE g == granted[p]
           n == BucketOf(p).tokens
           t == BucketOf(p).last
           flow == (clock - t) * PerTick
           r == Refilled(p)
<1>1. clock \in Nat /\ g \in Seq(Nat) /\ PerTick \in Nat /\ Burst \in Nat \ {0}
  BY RateLimiterAssumption DEF RateInv
<1>2. n \in Nat /\ t \in Nat /\ t <= clock /\ Exhausts(n, g, t)
  <2>1. CASE IsNew(p)
    <3>1. g = <<>> /\ n = Burst /\ t = clock
      BY <2>1 DEF RateInv, BucketOf
    <3>2. QED
      BY <1>1, <3>1 DEF Exhausts
  <2>2. CASE ~ IsNew(p)
    BY <2>2 DEF RateInv, BucketOf, BucketOK
  <2>3. QED
    BY <2>1, <2>2
<1>3. r = IF n + flow > Burst THEN Burst ELSE n + flow
  BY DEF Refilled
<1>4. flow \in Nat
  BY <1>1, <1>2
<1> HIDE DEF g, n, t, r, flow
<1>5. r \in Nat /\ r <= Burst /\ r <= n + flow /\ (r = Burst \/ r = n + flow)
  BY <1>1, <1>2, <1>3, <1>4
<1>6. ASSUME NEW i \in 1 .. Len(g)
      PROVE  /\ g[i] <= clock /\ Left(g, i, t) \in Int
             /\ n <= Left(g, i, t) /\ Left(g, i, clock) = Left(g, i, t) + flow
  <2>1. g[i] \in Nat /\ g[i] <= t /\ n <= Left(g, i, t)
    BY <1>1, <1>2 DEF Exhausts
  <2>2. Left(g, i, t) \in Int /\ Left(g, i, clock) = Left(g, i, t) + flow
    BY <1>1, <1>2, Later DEF flow
  <2>3. QED
    BY <1>1, <1>2, <2>1, <2>2
<1>7. \A i \in 1 .. Len(g) : g[i] <= clock /\ r <= Left(g, i, clock)
  BY <1>2, <1>4, <1>5, <1>6
<1>8. r = Burst \/ \E i \in 1 .. Len(g) : r = Left(g, i, clock)
  <2>1. CASE n = Burst
    BY <1>1, <1>2, <1>3, <1>4, <1>5, <2>1
  <2>2. ASSUME NEW i \in 1 .. Len(g), n = Left(g, i, t)
        PROVE  r = Burst \/ r = Left(g, i, clock)
    BY <1>5, <1>6, <2>2
  <2>3. QED
    BY <1>2, <2>1, <2>2 DEF Exhausts
<1>9. QED
  BY <1>5, <1>7, <1>8 DEF Exhausts, g, r

\* A publish is let through exactly when every window has room for it.
LEMMA RateInvExact == RateInv => RateExact
<1> SUFFICES ASSUME RateInv, NEW p \in Principals
             PROVE  Allows(p) <=> \A i \in DOMAIN granted[p] :
                        Len(granted[p]) - i + 2 <= Burst + (clock - granted[p][i]) * PerTick
  BY DEF RateExact
<1> DEFINE g == granted[p]
           r == Refilled(p)
<1>1. clock \in Nat /\ g \in Seq(Nat) /\ Burst \in Nat \ {0} /\ DOMAIN g = 1 .. Len(g)
      /\ Len(g) \in Nat
  BY RateLimiterAssumption DEF RateInv
<1>2. r \in Nat /\ Exhausts(r, g, clock)
  BY RefillFacts
<1>3. Allows(p) <=> r >= 1
  BY DEF Allows
<1> HIDE DEF g, r
<1>4. ASSUME NEW i \in 1 .. Len(g)
      PROVE  /\ Left(g, i, clock) \in Int
             /\ (Len(g) - i + 2 <= Burst + (clock - g[i]) * PerTick) <=> Left(g, i, clock) >= 1
  <2> DEFINE flow == (clock - g[i]) * PerTick
  <2>1. flow \in Int
    BY <1>1, RateLimiterAssumption
  <2>2. Left(g, i, clock) = Burst + flow - (Len(g) - i + 1)
    BY DEF Left
  <2> HIDE DEF flow
  <2>3. QED
    BY <1>1, <2>1, <2>2 DEF flow
<1>5. (r >= 1) <=> \A i \in 1 .. Len(g) : Left(g, i, clock) >= 1
  BY <1>1, <1>2, <1>4 DEF Exhausts
<1>6. QED
  BY <1>1, <1>3, <1>4, <1>5 DEF g

\* A publish let through leaves every window one token less, its own included.
LEMMA SpendFacts ==
    ASSUME NEW g \in Seq(Nat), NEW t \in Nat, NEW r \in Nat, r >= 1, Exhausts(r, g, t)
    PROVE  Exhausts(r - 1, Append(g, t), t)
<1> DEFINE n == Len(g)
           h == Append(g, t)
<1>1. n \in Nat /\ h \in Seq(Nat) /\ Len(h) = n + 1 /\ h[n + 1] = t
      /\ (\A i \in 1 .. n : h[i] = g[i])
      /\ Burst \in Nat /\ PerTick \in Nat
  BY RateLimiterAssumption
<1>2. n = Len(g)
  OBVIOUS
<1> HIDE DEF n, h
<1>3. ASSUME NEW i \in 1 .. n
      PROVE  /\ h[i] <= t /\ Left(g, i, t) \in Int /\ r <= Left(g, i, t)
             /\ Left(h, i, t) = Left(g, i, t) - 1
  <2> DEFINE flow == (t - g[i]) * PerTick
  <2>1. g[i] \in Nat /\ flow \in Int /\ h[i] = g[i] /\ g[i] <= t /\ r <= Left(g, i, t)
    <3>1. g[i] \in Nat /\ h[i] = g[i] /\ g[i] <= t /\ r <= Left(g, i, t)
      BY <1>1, <1>2 DEF Exhausts
    <3>2. \A a, k \in Int : a * k \in Int
      OBVIOUS
    <3>3. t - g[i] \in Int /\ PerTick \in Int
      BY <1>1, <3>1
    <3>4. QED
      BY <3>1, <3>2, <3>3
  <2>2. Left(g, i, t) = Burst + flow - (n - i + 1)
    BY <1>2 DEF Left
  <2>3. Left(h, i, t) = Burst + flow - ((n + 1) - i + 1)
    BY <1>1, <2>1 DEF Left
  <2> HIDE DEF flow
  <2>4. QED
    BY <1>1, <2>1, <2>2, <2>3
<1>4. Left(h, n + 1, t) = Burst - 1
  <2>1. (t - h[n + 1]) * PerTick = 0
    <3>1. t - h[n + 1] = 0 /\ 0 * PerTick = 0
      BY <1>1
    <3>2. QED
      BY <3>1
  <2>2. Left(h, n + 1, t) = Burst + (t - h[n + 1]) * PerTick - ((n + 1) - (n + 1) + 1)
    BY <1>1 DEF Left
  <2>3. QED
    BY <1>1, <2>1, <2>2
<1>5. \A i \in 1 .. n + 1 : i \in 1 .. n \/ i = n + 1
  BY <1>1
<1>6. r <= Burst /\ (r = Burst \/ \E i \in 1 .. n : r = Left(g, i, t))
  BY <1>2 DEF Exhausts
<1>7. \A i \in 1 .. n + 1 : h[i] <= t /\ r - 1 <= Left(h, i, t)
  BY <1>1, <1>3, <1>4, <1>5, <1>6
<1>8. r - 1 = Burst \/ \E i \in 1 .. n + 1 : r - 1 = Left(h, i, t)
  <2>1. CASE r = Burst
    <3>1. n + 1 \in 1 .. n + 1 /\ r - 1 = Left(h, n + 1, t)
      BY <1>1, <1>4, <2>1
    <3>2. QED
      BY <3>1
  <2>2. ASSUME NEW i \in 1 .. n, r = Left(g, i, t)
        PROVE  \E j \in 1 .. n + 1 : r - 1 = Left(h, j, t)
    <3>1. i \in 1 .. n + 1 /\ r - 1 = Left(h, i, t)
      BY <1>1, <1>3, <2>2
    <3>2. QED
      BY <3>1
  <2>3. QED
    BY <1>6, <2>1, <2>2
<1>9. r - 1 <= Burst
  BY <1>1, <1>6
<1>10. QED
  BY <1>1, <1>7, <1>8, <1>9 DEF Exhausts, h

\* What a step does to the limiter.
RateNext == Tick \/ \E p : Allow(p)

\* RateLimiter::allow and the passing of time keep every bucket a summary of
\* its history; a bucket that is dropped takes its history with it.
LEMMA RateStep == RateInv /\ [RateNext]_rateVars => RateInv'
<1> SUFFICES ASSUME RateInv, [RateNext]_rateVars PROVE RateInv'
  OBVIOUS
<1>1. clock \in Nat /\ granted \in [Principals -> Seq(Nat)]
      /\ \A p \in Principals : IF IsNew(p) THEN granted[p] = <<>> ELSE BucketOK(p)
  BY DEF RateInv
<1>2. CASE UNCHANGED rateVars
  BY <1>1, <1>2 DEF rateVars, RateInv, IsNew, BucketOK
<1>3. CASE Tick
  <2>1. clock' = clock + 1 /\ buckets' = buckets /\ granted' = granted
    BY <1>3 DEF Tick
  <2>2. ASSUME NEW p \in Principals, ~ IsNew(p) PROVE BucketOK(p)'
    <3>1. BucketOK(p)
      BY <1>1, <2>2
    <3>2. buckets[p].last <= clock'
      BY <1>1, <2>1, <3>1 DEF BucketOK
    <3>3. QED
      BY <2>1, <3>1, <3>2 DEF BucketOK
  <2>3. QED
    BY <1>1, <2>1, <2>2 DEF RateInv, IsNew
<1>4. ASSUME NEW p, Allow(p) PROVE RateInv'
  <2> DEFINE bucket == [tokens |-> IF Allows(p) THEN Refilled(p) - 1 ELSE Refilled(p),
                        last |-> clock]
             line == IF IsNew(p) THEN Append(order, p) ELSE order
             gone == IF Len(line) > PrincipalCap THEN {Head(line)} ELSE {}
  <2>1. /\ buckets' = [q \in (DOMAIN buckets \cup {p}) \ gone |->
                          IF q = p THEN bucket ELSE buckets[q]]
        /\ granted' = [q \in Principals |->
               IF q \in gone THEN <<>>
               ELSE IF q = p /\ Allows(p) THEN Append(granted[q], clock) ELSE granted[q]]
        /\ clock' = clock
    BY <1>4 DEF Allow
  <2>2. bucket = [tokens |-> bucket.tokens, last |-> bucket.last] /\ bucket.last = clock
        /\ bucket.tokens = IF Allows(p) THEN Refilled(p) - 1 ELSE Refilled(p)
    OBVIOUS
  <2> HIDE DEF gone, bucket
  <2>3. clock' \in Nat /\ granted' \in [Principals -> Seq(Nat)]
    BY <1>1, <2>1
  <2>4. ASSUME NEW q \in Principals, q \in gone
        PROVE  IsNew(q)' /\ granted'[q] = <<>>
    BY <2>1, <2>4 DEF IsNew
  <2>5. ASSUME NEW q \in Principals, q \notin gone, q # p
        PROVE  IF IsNew(q)' THEN granted'[q] = <<>> ELSE BucketOK(q)'
    <3>1. IsNew(q)' <=> IsNew(q)
      BY <2>1, <2>5 DEF IsNew
    <3>2. granted'[q] = granted[q] /\ (~ IsNew(q) => buckets'[q] = buckets[q])
      BY <2>1, <2>5 DEF IsNew
    <3>3. QED
      BY <1>1, <2>1, <3>1, <3>2 DEF BucketOK
  <2>6. ASSUME p \in Principals, p \notin gone
        PROVE  ~ IsNew(p)' /\ BucketOK(p)'
    <3>1. ~ IsNew(p)' /\ buckets'[p] = bucket
      BY <2>1, <2>6 DEF IsNew
    <3>2. granted'[p] = IF Allows(p) THEN Append(granted[p], clock) ELSE granted[p]
      BY <2>1, <2>6
    <3>3. granted[p] \in Seq(Nat) /\ Refilled(p) \in Nat /\ Exhausts(Refilled(p), granted[p], clock)
      BY <1>1, <2>6, RefillFacts
    <3>4. bucket.tokens \in Nat /\ Exhausts(bucket.tokens, granted'[p], clock)
      <4>1. CASE Allows(p)
        <5>1. Refilled(p) >= 1 /\ bucket.tokens = Refilled(p) - 1
              /\ granted'[p] = Append(granted[p], clock)
          BY <2>2, <3>2, <4>1 DEF Allows
        <5>2. Exhausts(Refilled(p) - 1, Append(granted[p], clock), clock)
          BY <1>1, <3>3, <5>1, SpendFacts
        <5>3. QED
          BY <3>3, <5>1, <5>2
      <4>2. CASE ~ Allows(p)
        BY <2>2, <3>2, <3>3, <4>2
      <4>3. QED
        BY <4>1, <4>2
    <3>5. /\ buckets'[p] = [tokens |-> buckets'[p].tokens, last |-> buckets'[p].last]
          /\ buckets'[p].tokens \in Nat /\ buckets'[p].last \in Nat /\ buckets'[p].last <= clock'
          /\ Exhausts(buckets'[p].tokens, granted'[p], buckets'[p].last)
      <4>1. /\ bucket = [tokens |-> bucket.tokens, last |-> bucket.last]
            /\ bucket.tokens \in Nat /\ bucket.last \in Nat /\ bucket.last <= clock'
            /\ Exhausts(bucket.tokens, granted'[p], bucket.last)
        <5>1. bucket.last \in Nat /\ bucket.last <= clock'
          BY <1>1, <2>1, <2>2
        <5>2. QED
          BY <2>2, <3>4, <5>1, Zenon
      <4>2. QED
        BY <3>1, <4>1, Zenon
    <3>6. QED
      BY <3>1, <3>5 DEF BucketOK
  <2>7. QED
    BY <2>3, <2>4, <2>5, <2>6 DEF RateInv
<1>5. QED
  BY <1>2, <1>3, <1>4 DEF RateNext

-----------------------------------------------------------------------------
(* What is on its way between the clients and the node.                     *)

Id == (Clients \X Nat) \cup {Nothing}

Names == Topic \cup {ReplyTopic(c) : c \in Clients}

Kinds == {"Subscribe", "Publish", "Ack", "Error", "status", "topics", "none"}

\* Clients send topics and filters that parse, and a Publish always has an id
\* of its own.
Parses(kind, name) ==
    /\ kind = "Publish" => ValidTopic(name)
    /\ kind = "Subscribe" => ValidFilter(name)

Proper(e) ==
    /\ Parses(e.kind, e.topic)
    /\ e.kind = "Publish" => /\ e.id \in Clients \X Nat
                             /\ e.replyTo = <<>> \/ ValidTopic(e.replyTo)

Frames ==
    {e \in [id : Id, kind : Kinds, topic : Names, ref : Id, replyTo : Names] : Proper(e)}

Messages == {e \in Frames : e.kind = "Publish"}

Points == {"start", "acks", "backlog", "live", "reply", "query", "done", "failed", "gone"}

ClientState == [pc : Points, pending : SUBSET Id, backlog : Seq(Messages), printed : Seq(Id)]

\* Queues by filter, each with messages its filter takes.
Queues(b) ==
    /\ b = [f \in DOMAIN b |-> b[f]]
    /\ IsFiniteSet(DOMAIN b) /\ \A f \in DOMAIN b : f \in Names /\ ValidFilter(f)
    /\ \A f \in DOMAIN b : b[f] \in Seq(Messages)
    /\ \A f \in DOMAIN b : \A i \in 1 .. Len(b[f]) : Takes(f, b[f][i].topic)

ClientsOK ==
    /\ scenario \in Scenarios
    /\ client \in [Clients -> ClientState]
    /\ up \in [Clients -> Seq(Frames)]
    /\ down \in [Clients -> Seq(Frames)]

\* Commands that subscribe.
Subscriber(c) == Command(c).kind \in {"subscribe", "respond", "request"}

\* What a command had to do to get where it is.
ArgsOK ==
    \A c \in Clients : /\ At(c, "acks") => ValidArguments(c) /\ Subscriber(c)
                       /\ At(c, "query") => ~Subscriber(c)
                       /\ At(c, "reply") => Command(c).kind = "request"

\* An Ack on its way is for something its client printed.
AcksOK(c) ==
    \A i \in 1 .. Len(up[c]) : up[c][i].kind = "Ack" => up[c][i].ref \in ToSet(client[c].printed)

\* The forwarders of a connection are for filters its ACL lets it subscribe to.
Authorised(c) == \A f \in DOMAIN forwarders[c] : FilterAclPermits(c, f)

\* So are those that are only spawned, each of them for a filter of its own.
SpawnOK(c) ==
    /\ IsFiniteSet(spawned[c]) /\ spawned[c] \cap DOMAIN forwarders[c] = {}
    /\ \A f \in spawned[c] : f \in Names /\ ValidFilter(f) /\ FilterAclPermits(c, f)

NodeOK ==
    /\ reply \in [Clients -> Frames]
    /\ retired \in [Clients -> SUBSET Id]
    /\ Queues(channels)
    /\ forwarders = [c \in Clients |-> forwarders[c]]
    /\ spawned = [c \in Clients |-> spawned[c]]
    /\ \A c \in Clients : Queues(forwarders[c]) /\ Authorised(c) /\ SpawnOK(c)

SessionInv ==
    /\ ClientsOK /\ ArgsOK /\ NodeOK
    /\ \A c \in Clients : AcksOK(c) /\ retired[c] \subseteq ToSet(client[c].printed)

\* The private topic of a request is a topic like any other.
LEMMA ReplyTopicFacts ==
    ASSUME NEW c \in Clients
    PROVE  ReplyTopic(c) \in Names /\ ValidTopic(ReplyTopic(c)) /\ ValidFilter(ReplyTopic(c))
<1> DEFINE t == ReplyTopic(c)
<1>1. DOMAIN t = {1, 2} /\ t[1] = "reply" /\ t[2] = c /\ t # <<>>
  BY DEF ReplyTopic
<1>2. c # SingleLevelWildcard /\ c # MultiLevelWildcard
  BY SessionAssumption
<1>3. "reply" # SingleLevelWildcard /\ "reply" # MultiLevelWildcard
  BY DEF SingleLevelWildcard, MultiLevelWildcard
<1>4. t \in Names
  BY DEF Names
<1> HIDE DEF t
<1>5. \A i \in DOMAIN t : t[i] # SingleLevelWildcard /\ t[i] # MultiLevelWildcard
  BY <1>1, <1>2, <1>3
<1>6. ValidTopic(t) /\ ValidFilter(t)
  BY <1>1, <1>5 DEF ValidTopic, ValidFilter, IsLiteral
<1> QED BY <1>4, <1>6 DEF t

\* An envelope a client makes.
LEMMA EnvelopeFacts ==
    ASSUME NEW c \in Clients, NEW n \in Nat, NEW kind \in Kinds, NEW topic \in Names,
           Parses(kind, topic)
    PROVE  /\ Envelope(c, n, kind, topic) \in Frames /\ Envelope(c, n, kind, topic).kind = kind
           /\ Envelope(c, n, kind, topic).topic = topic
           /\ Envelope(c, n, kind, topic).id = <<c, n>> /\ Envelope(c, n, kind, topic).ref = Nothing
<1> DEFINE e == Envelope(c, n, kind, topic)
<1>1. <<c, n>> \in Clients \X Nat /\ <<>> \in Names
  BY DEF Names, Topic
<1>2. /\ e \in [id : Id, kind : Kinds, topic : Names, ref : Id, replyTo : Names]
      /\ e.id = <<c, n>> /\ e.kind = kind /\ e.topic = topic /\ e.replyTo = <<>> /\ e.ref = Nothing
  BY <1>1 DEF Envelope, Id
<1> HIDE DEF e
<1>3. Proper(e)
  BY <1>1, <1>2 DEF Proper
<1>4. e \in Frames
  BY <1>2, <1>3 DEF Frames
<1>5. QED
  BY <1>2, <1>4 DEF e

\* An Ack, an Error or an answer to a query.
LEMMA AnswerFacts ==
    ASSUME NEW kind \in Kinds, kind # "Publish", kind # "Subscribe", NEW ref \in Id
    PROVE  /\ Answer(kind, ref) \in Frames
           /\ Answer(kind, ref).kind = kind /\ Answer(kind, ref).ref = ref
<1> DEFINE e == Answer(kind, ref)
<1>1. <<>> \in Names /\ Nothing \in Id
  BY DEF Names, Topic, Id
<1>2. /\ e \in [id : Id, kind : Kinds, topic : Names, ref : Id, replyTo : Names]
      /\ e.kind = kind /\ e.ref = ref
  BY <1>1 DEF Answer, NoReply
<1> HIDE DEF e
<1>3. e \in Frames
  BY <1>2 DEF Frames, Proper, Parses
<1>4. QED
  BY <1>2, <1>3 DEF e

\* No answer.
LEMMA NoReplyFacts == NoReply \in Frames /\ NoReply.kind = "none"
<1>1. <<>> \in Names /\ Nothing \in Id /\ "none" \in Kinds
  BY DEF Names, Topic, Id, Kinds
<1>2. QED
  BY <1>1 DEF NoReply, Frames, Proper, Parses

\* The arguments of a command have their types.
LEMMA CommandFacts ==
    ASSUME ClientsOK, NEW c \in Clients
    PROVE  Command(c) \in Arguments
  BY SessionAssumption DEF ClientsOK, Command

\* The set of a sequence's elements grows with it.
LEMMA ToSetFacts ==
    ASSUME NEW S, NEW q \in Seq(S), NEW x \in S
    PROVE  /\ ToSet(q) = {q[i] : i \in 1 .. Len(q)}
           /\ ToSet(Append(q, x)) = ToSet(q) \cup {x}
<1> DEFINE n == Len(q)
           r == Append(q, x)
<1>1. /\ n \in Nat /\ DOMAIN q = 1 .. n /\ r \in Seq(S) /\ DOMAIN r = 1 .. n + 1
      /\ r[n + 1] = x /\ \A i \in 1 .. n : r[i] = q[i]
  OBVIOUS
<1>2. n = Len(q)
  OBVIOUS
<1> HIDE DEF n, r
<1>3. /\ \A i \in 1 .. n + 1 : i \in 1 .. n \/ i = n + 1
      /\ \A i \in 1 .. n : i \in 1 .. n + 1
      /\ n + 1 \in 1 .. n + 1
  BY <1>1
<1>4. ToSet(q) = {q[i] : i \in 1 .. n} /\ ToSet(r) = {r[i] : i \in 1 .. n + 1}
  BY <1>1 DEF ToSet
<1>5. ToSet(r) = ToSet(q) \cup {x}
  BY <1>1, <1>3, <1>4
<1>6. QED
  BY <1>2, <1>4, <1>5 DEF r

-----------------------------------------------------------------------------
(* A step of a client.                                                      *)

\* A client that prints more, sends something, and acknowledges at most what
\* it printed.
ClientMoves(c, k, out) ==
    /\ k \in ClientState /\ out \in Seq(Frames)
    /\ client' = [client EXCEPT ![c] = k]
    /\ up' = [up EXCEPT ![c] = up[c] \o out] \/ (up' = up /\ out = <<>>)
    /\ ToSet(client[c].printed) \subseteq ToSet(k.printed)
    /\ \A i \in 1 .. Len(out) : out[i].kind = "Ack" => out[i].ref \in ToSet(k.printed)
    /\ down' \in [Clients -> Seq(Frames)]
    /\ UNCHANGED <<scenario, nodeVars>>

\* The ACLs are settings of the node: a session does not change them.
LEMMA SameAcl ==
    ASSUME UNCHANGED scenario, NEW c \in Clients, NEW f
    PROVE  FilterAclPermits(c, f)' = FilterAclPermits(c, f)
  BY DEF FilterAclPermits, AclPermits, AclOf, IsPeer, Command, Identity, Merged

\* Nor does it change the arguments of a command.
LEMMA SameArgs ==
    ASSUME UNCHANGED scenario, NEW c \in Clients
    PROVE  /\ Command(c)' = Command(c) /\ ValidArguments(c)' = ValidArguments(c)
           /\ Subscriber(c)' = Subscriber(c)
  BY DEF ValidArguments, Subscriber, Command

\* A command gets to a point only by what the point stands for.
LEMMA ArgsStep ==
    ASSUME ClientsOK, ArgsOK, NEW c \in Clients, ClientStep(c) \/ StartFails(c) \/ Interrupt(c)
    PROVE  ArgsOK'
<1> DEFINE Leads(pc) == \/ pc \in {client[c].pc, "failed", "done", "gone", "backlog", "live"}
                        \/ pc = "acks" /\ ValidArguments(c) /\ Subscriber(c)
                        \/ pc = "query" /\ ~Subscriber(c)
                        \/ pc = "reply" /\ Command(c).kind = "request"
<1>1. client \in [Clients -> ClientState] /\ client[c] \in ClientState
  BY DEF ClientsOK
<1>2. scenario' = scenario
  BY DEF ClientStep, Invalid, Completions, StartPublish, StartSubscribe, StartQuery, AwaitAcks,
         PrintBacklog, PrintLive, AwaitReply, TimesOut, AwaitAnswer, StartFails, Interrupt
<1>3. \A d \in Clients : d # c => client'[d] = client[d]
  BY <1>1 DEF ClientStep, Invalid, Completions, StartPublish, StartSubscribe, StartQuery, AwaitAcks,
         PrintBacklog, PrintLive, AwaitReply, TimesOut, AwaitAnswer, StartFails, Interrupt, AllAcked,
         Goto
<1>4. Leads(client'[c].pc)
  <2>1. CASE Invalid(c) \/ StartFails(c) \/ Completions(c) \/ TimesOut(c) \/ Interrupt(c)
             \/ StartPublish(c)
    <3>1. \E pc \in {"failed", "done", "gone"} : client' = [client EXCEPT ![c].pc = pc]
      BY <2>1 DEF Invalid, StartFails, Completions, TimesOut, Interrupt, StartPublish, Goto
    <3>2. QED
      BY <1>1, <3>1 DEF ClientState
  <2>2. CASE StartSubscribe(c)
    BY <1>1, <2>2 DEF StartSubscribe, Connectable, Subscriber, ClientState
  <2>3. CASE StartQuery(c)
    BY <1>1, <2>3 DEF StartQuery, Goto, Subscriber, ClientState
  <2>4. CASE AwaitAcks(c)
    BY <1>1, <2>4 DEF AwaitAcks, AllAcked, Goto, ClientState
  <2>5. CASE PrintBacklog(c) \/ PrintLive(c)
    BY <1>1, <2>5 DEF PrintBacklog, PrintLive, Goto, ClientState
  <2>6. CASE AwaitReply(c) \/ AwaitAnswer(c)
    BY <1>1, <2>6 DEF AwaitReply, AwaitAnswer, ClientState
  <2>7. QED
    BY <2>1, <2>2, <2>3, <2>4, <2>5, <2>6 DEF ClientStep
<1>5. ASSUME NEW d \in Clients
      PROVE  /\ client'[d].pc = "acks" => ValidArguments(d) /\ Subscriber(d)
             /\ client'[d].pc = "query" => ~Subscriber(d)
             /\ client'[d].pc = "reply" => Command(d).kind = "request"
  BY <1>3, <1>4 DEF ArgsOK, At
<1>6. QED
  BY <1>2, <1>5, SameArgs DEF ArgsOK, At

\* What follows what was sent before.
LEMMA ConcatFacts ==
    ASSUME NEW S, NEW p \in Seq(S), NEW q \in Seq(S)
    PROVE  /\ p \o q \in Seq(S)
           /\ \A i \in 1 .. Len(p \o q) :
                 \/ i \in 1 .. Len(p) /\ (p \o q)[i] = p[i]
                 \/ \E j \in 1 .. Len(q) : (p \o q)[i] = q[j]
<1>1. /\ p \o q \in Seq(S) /\ Len(p \o q) = Len(p) + Len(q)
      /\ Len(p) \in Nat /\ Len(q) \in Nat
      /\ \A i \in 1 .. Len(p) : (p \o q)[i] = p[i]
      /\ \A i \in 1 .. Len(q) : (p \o q)[Len(p) + i] = q[i]
  OBVIOUS
<1>2. ASSUME NEW i \in 1 .. Len(p) + Len(q), i \notin 1 .. Len(p)
      PROVE  \E j \in 1 .. Len(q) : (p \o q)[i] = q[j]
  <2>1. i - Len(p) \in 1 .. Len(q) /\ Len(p) + (i - Len(p)) = i
    BY <1>1, <1>2
  <2>2. (p \o q)[i] = q[i - Len(p)]
    BY <1>1, <2>1
  <2>3. QED
    BY <2>1, <2>2
<1>3. QED
  BY <1>1, <1>2

\* Every step of a client keeps the session in order.
LEMMA ClientMovesInv ==
    ASSUME SessionInv, NEW c \in Clients, NEW k, NEW out, ClientMoves(c, k, out), ArgsOK'
    PROVE  SessionInv'
<1>1. /\ ClientsOK /\ NodeOK
      /\ \A d \in Clients : AcksOK(d) /\ retired[d] \subseteq ToSet(client[d].printed)
  BY DEF SessionInv
<1>2. /\ client \in [Clients -> ClientState] /\ up \in [Clients -> Seq(Frames)]
      /\ scenario \in Scenarios
  BY <1>1 DEF ClientsOK
<1>3. /\ k \in ClientState /\ out \in Seq(Frames)
      /\ client' = [client EXCEPT ![c] = k]
      /\ up' = [up EXCEPT ![c] = up[c] \o out] \/ (up' = up /\ out = <<>>)
      /\ ToSet(client[c].printed) \subseteq ToSet(k.printed)
      /\ \A i \in 1 .. Len(out) : out[i].kind = "Ack" => out[i].ref \in ToSet(k.printed)
      /\ down' \in [Clients -> Seq(Frames)] /\ scenario' = scenario
  BY DEF ClientMoves
<1>4. /\ reply' = reply /\ retired' = retired /\ channels' = channels /\ forwarders' = forwarders
      /\ spawned' = spawned
  BY DEF ClientMoves, nodeVars
<1>5. up[c] \in Seq(Frames) /\ up[c] \o out \in Seq(Frames)
  BY <1>2, <1>3
<1>6. ClientsOK'
  BY <1>2, <1>3, <1>5 DEF ClientsOK
<1>7. NodeOK'
  BY <1>1, <1>3, <1>4, SameAcl DEF NodeOK, Queues, Authorised, SpawnOK
<1>8. \A d \in Clients : ToSet(client[d].printed) \subseteq ToSet(client'[d].printed)
  BY <1>2, <1>3
<1>9. \A d \in Clients : retired'[d] \subseteq ToSet(client'[d].printed)
  BY <1>1, <1>4, <1>8
<1>10. ASSUME NEW d \in Clients, NEW i \in 1 .. Len(up'[d]), up'[d][i].kind = "Ack"
       PROVE  up'[d][i].ref \in ToSet(client'[d].printed)
  <2>1. CASE up'[d] = up[d]
    BY <1>1, <1>8, <1>10, <2>1 DEF AcksOK
  <2>2. CASE d = c /\ up'[c] = up[c] \o out
    <3>1. client'[c].printed = k.printed
      BY <1>2, <1>3
    <3>2. \/ i \in 1 .. Len(up[c]) /\ up'[c][i] = up[c][i]
          \/ \E j \in 1 .. Len(out) : up'[c][i] = out[j]
      BY <1>3, <1>5, <1>10, <2>2, ConcatFacts
    <3>3. QED
      BY <1>1, <1>3, <1>8, <1>10, <2>2, <3>1, <3>2 DEF AcksOK
  <2>3. QED
    BY <1>2, <1>3, <2>1, <2>2
<1>11. QED
  BY <1>6, <1>7, <1>9, <1>10 DEF SessionInv, AcksOK

\* A client's record, field by field.
LEMMA StateFacts ==
    ASSUME ClientsOK, NEW c \in Clients
    PROVE  /\ client[c] \in ClientState
           /\ client[c].pending \in SUBSET Id
           /\ client[c].backlog \in Seq(Messages) /\ client[c].printed \in Seq(Id)
  BY DEF ClientsOK, ClientState

\* A client that goes on to another point without printing.
LEMMA GotoMoves ==
    ASSUME ClientsOK, NEW c \in Clients, NEW pc \in Points, Goto(c, pc), NEW out \in Seq(Frames),
           (up' = [up EXCEPT ![c] = up[c] \o out]) \/ (up' = up /\ out = <<>>),
           \A i \in 1 .. Len(out) : out[i].kind # "Ack",
           down' \in [Clients -> Seq(Frames)], UNCHANGED <<scenario, nodeVars>>
    PROVE  \E k, o : ClientMoves(c, k, o)
<1> DEFINE k == [client[c] EXCEPT !.pc = pc]
<1>1. client[c] \in ClientState
  BY StateFacts
<1>2. k \in ClientState /\ k.printed = client[c].printed
  BY <1>1 DEF ClientState
<1>3. client' = [client EXCEPT ![c] = k]
  BY DEF Goto
<1> HIDE DEF k
<1>4. ClientMoves(c, k, out)
  BY <1>2, <1>3 DEF ClientMoves
<1>5. QED
  BY <1>4

\* A client that prints nothing and sends nothing.
LEMMA QuietMoves ==
    ASSUME NEW c \in Clients, NEW k \in ClientState, client' = [client EXCEPT ![c] = k], up' = up,
           k.printed = client[c].printed, down' \in [Clients -> Seq(Frames)],
           UNCHANGED <<scenario, nodeVars>>
    PROVE  \E l, o : ClientMoves(c, l, o)
<1>1. PICK out \in Seq(Frames) : out = <<>> /\ \A i \in 1 .. Len(out) : FALSE
  <2>1. <<>> \in Seq(Frames) /\ \A i \in 1 .. Len(<<>>) : FALSE
    OBVIOUS
  <2>2. QED
    BY <2>1
<1>2. ClientMoves(c, k, out)
  BY <1>1 DEF ClientMoves
<1>3. QED
  BY <1>2

\* One envelope as a sequence.
LEMMA OneFacts ==
    ASSUME NEW S, NEW x \in S
    PROVE  <<x>> \in Seq(S) /\ Len(<<x>>) = 1 /\ \A i \in 1 .. Len(<<x>>) : <<x>>[i] = x
  OBVIOUS

\* The Subscribes of subscribe_all.
LEMMA SubscribesFacts ==
    ASSUME ClientsOK, NEW c \in Clients, ValidArguments(c), Subscriber(c)
    PROVE  /\ Subscribes(c) \in Seq(Frames)
           /\ \A i \in 1 .. Len(Subscribes(c)) :
                 /\ Subscribes(c)[i].kind = "Subscribe"
                 /\ Command(c).kind = "request" => Subscribes(c)[i].topic = ReplyTopic(c)
           /\ {e.id : e \in ToSet(Subscribes(c))} \in SUBSET Id
<1> DEFINE filters == IF Command(c).kind = "request" THEN <<ReplyTopic(c)>> ELSE Command(c).filters
           n == Len(filters)
           s == [i \in 1 .. n |-> Envelope(c, i, "Subscribe", filters[i])]
<1>1. ReplyTopic(c) \in Names
  BY DEF Names
<1>2. Command(c).filters \in Seq(Topic) /\ Seq(Topic) \subseteq Seq(Names)
  <2>1. Command(c).filters \in Seq(Topic)
    BY CommandFacts DEF Arguments
  <2>2. \A q \in Seq(Topic) : q \in Seq(Names)
    BY DEF Names
  <2>3. QED
    BY <2>1, <2>2
<1>3. filters \in Seq(Names)
  BY <1>1, <1>2
<1>4. Subscribes(c) = [i \in DOMAIN filters |-> Envelope(c, i, "Subscribe", filters[i])]
  BY DEF Subscribes
<1>a. \A i \in DOMAIN filters : /\ ValidFilter(filters[i])
                                /\ Command(c).kind = "request" => filters[i] = ReplyTopic(c)
  <2>1. CASE Command(c).kind = "request"
    <3>1. filters = <<ReplyTopic(c)>>
      BY <2>1
    <3>2. \A i \in DOMAIN filters : filters[i] = ReplyTopic(c)
      BY <3>1
    <3>3. QED
      BY <3>2, ReplyTopicFacts
  <2>2. CASE Command(c).kind # "request"
    <3>1. Command(c).kind \in {"subscribe", "respond"}
      BY <2>2 DEF Subscriber
    <3>2. \A i \in DOMAIN Command(c).filters : ValidFilter(Command(c).filters[i])
      BY <3>1 DEF ValidArguments
    <3>3. QED
      BY <2>2, <3>2
  <2>3. QED
    BY <2>1, <2>2
<1> HIDE DEF filters
<1>5. n \in Nat /\ DOMAIN filters = 1 .. n /\ \A i \in 1 .. n : filters[i] \in Names
  BY <1>3
<1> HIDE DEF n
<1>6. \A i \in 1 .. n : /\ s[i] \in Frames /\ s[i].kind = "Subscribe"
                        /\ Command(c).kind = "request" => s[i].topic = ReplyTopic(c)
  <2> SUFFICES ASSUME NEW i \in 1 .. n
               PROVE  /\ s[i] \in Frames /\ s[i].kind = "Subscribe"
                      /\ Command(c).kind = "request" => s[i].topic = ReplyTopic(c)
    OBVIOUS
  <2>1. /\ i \in Nat /\ "Subscribe" \in Kinds /\ filters[i] \in Names
        /\ Parses("Subscribe", filters[i]) /\ s[i] = Envelope(c, i, "Subscribe", filters[i])
    BY <1>5, <1>a DEF Kinds, Parses
  <2>2. /\ Envelope(c, i, "Subscribe", filters[i]) \in Frames
        /\ Envelope(c, i, "Subscribe", filters[i]).kind = "Subscribe"
        /\ Envelope(c, i, "Subscribe", filters[i]).topic = filters[i]
    BY <2>1, EnvelopeFacts
  <2>3. QED
    BY <1>5, <1>a, <2>1, <2>2
<1>7. s \in [1 .. n -> Frames] /\ DOMAIN s = 1 .. n
  BY <1>6
<1>8. Subscribes(c) = s
  BY <1>4, <1>5
<1> HIDE DEF s
<1>9. s \in Seq(Frames) /\ Len(s) = n
  BY <1>5, <1>7
<1>10. \A e \in ToSet(s) : e.id \in Id
  BY <1>6, <1>7 DEF ToSet, Frames
<1>11. QED
  BY <1>6, <1>8, <1>9, <1>10

\* Arguments, connection, and the start of every command.
LEMMA StartMoves ==
    ASSUME ClientsOK, NEW c \in Clients,
           \/ Invalid(c) \/ StartFails(c) \/ Completions(c) \/ TimesOut(c) \/ Interrupt(c)
           \/ StartPublish(c) \/ StartSubscribe(c) \/ StartQuery(c)
    PROVE  \E k, out : ClientMoves(c, k, out)
<1>1. /\ down \in [Clients -> Seq(Frames)] /\ Command(c) \in Arguments
      /\ <<>> \in Seq(Frames) /\ <<>> \in Names
  BY CommandFacts DEF ClientsOK, Names, Topic
<1>2. CASE Invalid(c) \/ StartFails(c) \/ Completions(c) \/ TimesOut(c) \/ Interrupt(c)
  <2>1. PICK pc \in Points : Goto(c, pc)
    <3>1. Goto(c, "failed") \/ Goto(c, "done") \/ Goto(c, "gone")
      BY <1>2 DEF Invalid, StartFails, Completions, TimesOut, Interrupt
    <3>2. "failed" \in Points /\ "done" \in Points /\ "gone" \in Points
      BY DEF Points
    <3>3. QED
      BY <3>1, <3>2, Zenon
  <2>2. up' = up /\ down' = down /\ UNCHANGED <<scenario, nodeVars>>
    BY <1>2 DEF Invalid, StartFails, Completions, TimesOut, Interrupt
  <2>3. down' \in [Clients -> Seq(Frames)] /\ \A i \in 1 .. Len(<<>>) : <<>>[i].kind # "Ack"
    BY <1>1, <2>2
  <2>4. QED
    BY <1>1, <2>1, <2>2, <2>3, GotoMoves
<1>3. CASE StartPublish(c)
  <2> DEFINE e == Envelope(c, 1, "Publish", Command(c).topic)
  <2>1. e \in Frames /\ e.kind = "Publish"
    <3>1. Command(c).topic \in Names /\ 1 \in Nat /\ "Publish" \in Kinds
      BY <1>1 DEF Arguments, Names, Kinds
    <3>2. Parses("Publish", Command(c).topic)
      BY <1>3 DEF StartPublish, Connectable, ValidArguments, Parses
    <3>3. QED
      BY <3>1, <3>2, EnvelopeFacts
  <2>2. /\ Goto(c, "done") /\ up' = [up EXCEPT ![c] = up[c] \o <<e>>]
        /\ down' = down /\ UNCHANGED <<scenario, nodeVars>>
    BY <1>3 DEF StartPublish, Send
  <2> HIDE DEF e
  <2>3. <<e>> \in Seq(Frames) /\ \A i \in 1 .. Len(<<e>>) : <<e>>[i].kind # "Ack"
    BY <2>1, OneFacts
  <2>4. down' \in [Clients -> Seq(Frames)] /\ "done" \in Points
    BY <1>1, <2>2 DEF Points
  <2>5. QED
    BY <2>2, <2>3, <2>4, GotoMoves, Zenon
<1>4. CASE StartQuery(c)
  <2> DEFINE e == Envelope(c, 1, Command(c).kind, <<>>)
  <2>1. Command(c).kind \in {"status", "topics"}
    BY <1>4 DEF StartQuery
  <2>2. e \in Frames /\ e.kind # "Ack"
    <3>1. Command(c).kind \in Kinds /\ 1 \in Nat /\ Parses(Command(c).kind, <<>>)
      BY <2>1 DEF Kinds, Parses
    <3>2. e \in Frames /\ e.kind = Command(c).kind
      BY <1>1, <3>1, EnvelopeFacts
    <3>3. QED
      BY <2>1, <3>2
  <2>3. /\ Goto(c, "query") /\ up' = [up EXCEPT ![c] = up[c] \o <<e>>]
        /\ down' = down /\ UNCHANGED <<scenario, nodeVars>>
    BY <1>4 DEF StartQuery, Send
  <2> HIDE DEF e
  <2>4. <<e>> \in Seq(Frames) /\ \A i \in 1 .. Len(<<e>>) : <<e>>[i].kind # "Ack"
    BY <2>2, OneFacts
  <2>5. down' \in [Clients -> Seq(Frames)] /\ "query" \in Points
    BY <1>1, <2>3 DEF Points
  <2>6. QED
    BY <2>3, <2>4, <2>5, GotoMoves, Zenon
<1>5. CASE StartSubscribe(c)
  <2> DEFINE out == Subscribes(c)
             ids == {e.id : e \in ToSet(Subscribes(c))}
             k == [client[c] EXCEPT !.pc = "acks", !.pending = ids]
  <2>1. /\ out \in Seq(Frames) /\ ids \in SUBSET Id
        /\ \A i \in 1 .. Len(out) : out[i].kind = "Subscribe"
    BY <1>5, SubscribesFacts DEF StartSubscribe, Connectable, Subscriber
  <2>2. /\ client' = [client EXCEPT ![c].pc = "acks", ![c].pending = ids]
        /\ up' = [up EXCEPT ![c] = up[c] \o out]
        /\ down' = down /\ UNCHANGED <<scenario, nodeVars>>
    BY <1>5 DEF StartSubscribe, Send
  <2> HIDE DEF out, ids
  <2>3. client' = [client EXCEPT ![c] = k]
    BY <2>2
  <2>4. k \in ClientState /\ k.printed = client[c].printed
    <3>1. client[c] \in ClientState
      BY StateFacts
    <3>2. QED
      BY <2>1, <3>1 DEF ClientState, Points
  <2> HIDE DEF k
  <2>5. ClientMoves(c, k, out)
    BY <1>1, <2>1, <2>2, <2>3, <2>4 DEF ClientMoves
  <2>6. QED
    BY <2>5
<1>6. QED
  BY <1>2, <1>3, <1>4, <1>5

\* The next frame a client reads.
LEMMA RecvFacts ==
    ASSUME ClientsOK, NEW c \in Clients, Recv(c)
    PROVE  Received(c) \in Frames /\ down' \in [Clients -> Seq(Frames)]
<1>1. down \in [Clients -> Seq(Frames)] /\ down[c] \in Seq(Frames) /\ down[c] # <<>>
  BY DEF ClientsOK, Recv
<1>2. Head(down[c]) \in Frames /\ Tail(down[c]) \in Seq(Frames)
  BY <1>1
<1>3. down' = [down EXCEPT ![c] = Tail(down[c])]
  BY DEF Recv
<1>4. QED
  BY <1>1, <1>2, <1>3 DEF Received

\* The request itself.
LEMMA RequestFacts ==
    ASSUME ClientsOK, NEW c \in Clients, ValidArguments(c), Command(c).kind = "request"
    PROVE  /\ RequestPublish(c) \in Frames /\ RequestPublish(c).kind = "Publish"
           /\ RequestPublish(c).id = RequestId(c) /\ RequestPublish(c).ref = Nothing
<1>1. Command(c).topic \in Names /\ 2 \in Nat /\ "Publish" \in Kinds /\ ReplyTopic(c) \in Names
  BY CommandFacts DEF Arguments, Names, Kinds
<1>2. Parses("Publish", Command(c).topic)
  BY DEF ValidArguments, Parses
<1> DEFINE e == Envelope(c, 2, "Publish", Command(c).topic)
<1>3. /\ e \in Frames /\ e.kind = "Publish" /\ e.topic = Command(c).topic
      /\ e.id = <<c, 2>> /\ e.ref = Nothing
  BY <1>1, <1>2, EnvelopeFacts
<1>4. RequestPublish(c) = [e EXCEPT !.replyTo = ReplyTopic(c)]
  BY DEF RequestPublish
<1> HIDE DEF e
<1>5. QED
  BY <1>1, <1>2, <1>3, <1>4, ReplyTopicFacts DEF Frames, Proper, RequestId

\* subscribe_all, while it waits for its Acks.
LEMMA AwaitMoves ==
    ASSUME ClientsOK, ArgsOK, NEW c \in Clients, AwaitAcks(c)
    PROVE  \E k, out : ClientMoves(c, k, out)
<1> DEFINE e == Received(c)
<1>1. e \in Frames /\ down' \in [Clients -> Seq(Frames)] /\ <<>> \in Seq(Frames)
      /\ UNCHANGED <<scenario, nodeVars>>
  BY RecvFacts DEF AwaitAcks
<1>2. /\ client[c] \in ClientState /\ client \in [Clients -> ClientState]
      /\ client[c].pending \in SUBSET Id
      /\ client[c].backlog \in Seq(Messages) /\ <<>> \in Seq(Messages)
  BY StateFacts DEF ClientsOK
<1>3. \/ AllAcked(c)
      \/ Goto(c, "failed") /\ up' = up
      \/ /\ client' = [client EXCEPT ![c].pending = @ \ {e.ref}, ![c].backlog = Buffered(c)]
         /\ up' = up
  BY DEF AwaitAcks
<1> HIDE DEF e
<1>4. CASE AllAcked(c) /\ Command(c).kind = "request"
  <2> DEFINE k == [client[c] EXCEPT !.pc = "reply", !.pending = {}, !.backlog = <<>>]
             out == <<RequestPublish(c)>>
  <2>1. /\ up' = [up EXCEPT ![c] = up[c] \o out]
        /\ client' = [client EXCEPT ![c].pc = "reply", ![c].pending = {}, ![c].backlog = <<>>]
    BY <1>4 DEF AllAcked, Send
  <2>2. out \in Seq(Frames) /\ \A i \in 1 .. Len(out) : out[i].kind # "Ack"
    <3>1. ValidArguments(c)
      BY DEF ArgsOK, AwaitAcks
    <3>2. QED
      BY <1>4, <3>1, RequestFacts, OneFacts
  <2>3. client' = [client EXCEPT ![c] = k]
    BY <2>1
  <2>4. k \in ClientState /\ k.printed = client[c].printed
    BY <1>2 DEF ClientState, Points
  <2> HIDE DEF k, out
  <2>5. ClientMoves(c, k, out)
    BY <1>1, <2>1, <2>2, <2>3, <2>4 DEF ClientMoves
  <2>6. QED
    BY <2>5
<1>5. CASE AllAcked(c) /\ Command(c).kind # "request"
  <2> DEFINE k == [client[c] EXCEPT !.pc = "backlog", !.pending = {}]
  <2>1. up' = up /\ client' = [client EXCEPT ![c].pc = "backlog", ![c].pending = {}]
    BY <1>5 DEF AllAcked
  <2>2. client' = [client EXCEPT ![c] = k]
    BY <2>1
  <2>3. k \in ClientState /\ k.printed = client[c].printed
    BY <1>2 DEF ClientState, Points
  <2> HIDE DEF k
  <2>4. QED
    BY <1>1, <2>1, <2>2, <2>3, QuietMoves
<1>6. CASE Goto(c, "failed") /\ up' = up
  <2>1. "failed" \in Points /\ \A i \in 1 .. Len(<<>>) : <<>>[i].kind # "Ack"
    BY DEF Points
  <2>2. QED
    BY <1>1, <1>6, <2>1, GotoMoves
<1>7. CASE /\ client' = [client EXCEPT ![c].pending = @ \ {e.ref}, ![c].backlog = Buffered(c)]
           /\ up' = up
  <2> DEFINE b == Buffered(c)
             k == [client[c] EXCEPT !.pending = client[c].pending \ {e.ref}, !.backlog = b]
  <2>1. b \in Seq(Messages)
    <3>1. CASE e.kind = "Publish"
      <4>1. e \in Messages /\ b = Append(client[c].backlog, e)
        BY <1>1, <3>1 DEF Messages, Buffered, e
      <4>2. QED
        BY <1>2, <4>1
    <3>2. CASE e.kind # "Publish"
      BY <1>2, <3>2 DEF Buffered, e
    <3>3. QED
      BY <3>1, <3>2
  <2>2. client' = [client EXCEPT ![c] = k]
    BY <1>2, <1>7
  <2> HIDE DEF b
  <2>3. k \in ClientState /\ k.printed = client[c].printed
    BY <1>2, <2>1 DEF ClientState
  <2> HIDE DEF k
  <2>4. QED
    BY <1>1, <1>7, <2>2, <2>3, QuietMoves
<1>8. QED
  BY <1>3, <1>4, <1>5, <1>6, <1>7

\* What a client sends for a message it has just printed.
LEMMA AnswersFacts ==
    ASSUME ClientsOK, NEW c \in Clients, NEW e \in Messages
    PROVE  /\ Ack(c, e) \o Respond(c, e) \in Seq(Frames)
           /\ \A i \in 1 .. Len(Ack(c, e) \o Respond(c, e)) :
                 (Ack(c, e) \o Respond(c, e))[i].kind = "Ack"
                 => (Ack(c, e) \o Respond(c, e))[i].ref = e.id
<1> DEFINE a == Ack(c, e)
           b == Respond(c, e)
           f == Answer("Ack", e.id)
           g == Envelope(c, 10 + e.id[2], "Publish", e.replyTo)
           h == [g EXCEPT !.ref = e.id]
<1>1. e.id \in Clients \X Nat /\ e.id \in Id /\ e.replyTo \in Names
      /\ (e.replyTo = <<>> \/ ValidTopic(e.replyTo))
  BY DEF Messages, Frames, Proper, Id
<1>2. f \in Frames /\ f.kind = "Ack" /\ f.ref = e.id
  <2>1. "Ack" \in Kinds /\ "Ack" # "Publish"
    BY DEF Kinds
  <2> HIDE DEF a, b, g, h
  <2>2. QED
    BY <1>1, <2>1, AnswerFacts
<1>3. e.replyTo # <<>> => g \in Frames /\ g.kind = "Publish" /\ g.id = <<c, 10 + e.id[2]>>
                          /\ g.topic = e.replyTo
  <2> SUFFICES ASSUME e.replyTo # <<>>
               PROVE  /\ g \in Frames /\ g.kind = "Publish" /\ g.id = <<c, 10 + e.id[2]>>
                      /\ g.topic = e.replyTo
    OBVIOUS
  <2>1. /\ 10 + e.id[2] \in Nat /\ "Publish" \in Kinds /\ e.replyTo \in Names
        /\ Parses("Publish", e.replyTo)
    BY <1>1 DEF Kinds, Parses
  <2>2. QED
    BY <2>1, EnvelopeFacts
<1>4. a = IF Command(c).ack THEN <<f>> ELSE <<>>
  BY DEF Ack
<1>5. b = IF Command(c).kind = "respond" /\ e.replyTo # <<>> THEN <<h>> ELSE <<>>
  BY DEF Respond
<1> HIDE DEF f, g, a, b
<1>6. e.replyTo # <<>> => h \in Frames /\ h.kind = "Publish"
  BY <1>1, <1>3 DEF Frames, Proper
<1> HIDE DEF h
<1>7. a \in Seq(Frames) /\ \A i \in 1 .. Len(a) : a[i].ref = e.id
  BY <1>2, <1>4, OneFacts
<1>8. b \in Seq(Frames) /\ \A i \in 1 .. Len(b) : b[i].kind = "Publish"
  BY <1>5, <1>6, OneFacts
<1>9. /\ a \o b \in Seq(Frames)
      /\ \A i \in 1 .. Len(a \o b) : (a \o b)[i].kind = "Ack" => (a \o b)[i].ref = e.id
  <2>1. /\ a \o b \in Seq(Frames)
        /\ \A i \in 1 .. Len(a \o b) :
              \/ i \in 1 .. Len(a) /\ (a \o b)[i] = a[i]
              \/ \E j \in 1 .. Len(b) : (a \o b)[i] = b[j]
    <3>1. a \in Seq(Frames) /\ b \in Seq(Frames)
      BY <1>7, <1>8
    <3>2. QED
      BY <3>1, ConcatFacts
  <2> DEFINE q == a \o b
  <2>2. /\ q \in Seq(Frames)
        /\ \A i \in 1 .. Len(q) : (i \in 1 .. Len(a) /\ q[i] = a[i])
                                  \/ \E j \in 1 .. Len(b) : q[i] = b[j]
    BY <2>1
  <2> HIDE DEF q
  <2>3. \A i \in 1 .. Len(q) : q[i].kind = "Ack" => q[i].ref = e.id
    BY <1>7, <1>8, <2>2
  <2>4. QED
    BY <2>2, <2>3 DEF q
<1>10. QED
  BY <1>9 DEF a, b

\* print_and_maybe_ack: what is printed is acknowledged after it is printed.
LEMMA PrintMoves ==
    ASSUME ClientsOK, NEW c \in Clients, NEW e \in Messages, NEW b \in Seq(Messages),
           client' = [client EXCEPT ![c].backlog = b, ![c].printed = Append(@, e.id)],
           Send(c, Ack(c, e) \o Respond(c, e)),
           down' \in [Clients -> Seq(Frames)], UNCHANGED <<scenario, nodeVars>>
    PROVE  \E k, out : ClientMoves(c, k, out)
<1> DEFINE q == client[c].printed
           k == [client[c] EXCEPT !.backlog = b, !.printed = Append(q, e.id)]
           out == Ack(c, e) \o Respond(c, e)
<1>1. client[c] \in ClientState /\ q \in Seq(Id) /\ client \in [Clients -> ClientState]
  BY StateFacts DEF ClientsOK
<1>2. e.id \in Id
  BY DEF Messages, Frames
<1>3. Append(q, e.id) \in Seq(Id) /\ ToSet(Append(q, e.id)) = ToSet(q) \cup {e.id}
  BY <1>1, <1>2, ToSetFacts
<1>4. client' = [client EXCEPT ![c] = k]
  BY <1>1
<1>5. k \in ClientState /\ k.printed = Append(q, e.id)
  BY <1>1, <1>3 DEF ClientState
<1>6. up' = [up EXCEPT ![c] = up[c] \o out]
  BY DEF Send
<1>7. out \in Seq(Frames) /\ \A i \in 1 .. Len(out) : out[i].kind = "Ack" => out[i].ref = e.id
  BY AnswersFacts
<1> HIDE DEF k, out, q
<1>8. ToSet(client[c].printed) \subseteq ToSet(k.printed) /\ e.id \in ToSet(k.printed)
  BY <1>3, <1>5 DEF q
<1>9. ClientMoves(c, k, out)
  BY <1>4, <1>5, <1>6, <1>7, <1>8 DEF ClientMoves
<1>10. QED
  BY <1>9

\* Every step of a client.
LEMMA ClientStepMoves ==
    ASSUME ClientsOK, ArgsOK, NEW c \in Clients, ClientStep(c) \/ StartFails(c) \/ Interrupt(c)
    PROVE  \E k, out : ClientMoves(c, k, out)
<1>1. /\ client[c] \in ClientState /\ client \in [Clients -> ClientState]
      /\ client[c].backlog \in Seq(Messages) /\ client[c].printed \in Seq(Id)
      /\ down \in [Clients -> Seq(Frames)]
  BY StateFacts DEF ClientsOK
<1>2. CASE PrintBacklog(c)
  <2> DEFINE rest == client[c].backlog
  <2>1. down' \in [Clients -> Seq(Frames)] /\ UNCHANGED <<scenario, nodeVars>>
    BY <1>1, <1>2 DEF PrintBacklog
  <2>2. CASE rest = <<>>
    <3>1. Goto(c, "live") /\ up' = up
      BY <1>2, <2>2 DEF PrintBacklog
    <3>2. "live" \in Points /\ <<>> \in Seq(Frames) /\ \A i \in 1 .. Len(<<>>) : <<>>[i].kind # "Ack"
      BY DEF Points
    <3>3. QED
      BY <2>1, <3>1, <3>2, GotoMoves
  <2>3. CASE rest # <<>>
    <3> DEFINE e == Head(rest)
               b == Tail(rest)
    <3>1. e \in Messages /\ b \in Seq(Messages)
      BY <1>1, <2>3
    <3>2. /\ client' = [client EXCEPT ![c].backlog = b, ![c].printed = Append(@, e.id)]
          /\ Send(c, Ack(c, e) \o Respond(c, e))
      BY <1>2, <2>3 DEF PrintBacklog
    <3> HIDE DEF e, b
    <3>3. QED
      BY <2>1, <3>1, <3>2, PrintMoves
  <2>4. QED
    BY <2>2, <2>3
<1>3. CASE PrintLive(c)
  <2> DEFINE e == Received(c)
  <2>1. e \in Frames /\ down' \in [Clients -> Seq(Frames)] /\ UNCHANGED <<scenario, nodeVars>>
    BY <1>3, RecvFacts DEF PrintLive
  <2>2. CASE e.kind = "Publish"
    <3>1. /\ client' = [client EXCEPT ![c].printed = Append(@, e.id)]
          /\ Send(c, Ack(c, e) \o Respond(c, e))
      BY <1>3, <2>2 DEF PrintLive
    <3> DEFINE b == client[c].backlog
    <3>2. client' = [client EXCEPT ![c].backlog = b, ![c].printed = Append(@, e.id)]
      BY <1>1, <3>1 DEF ClientState
    <3>3. e \in Messages /\ b \in Seq(Messages)
      BY <1>1, <2>1, <2>2 DEF Messages
    <3> HIDE DEF e, b
    <3>4. QED
      BY <2>1, <3>1, <3>2, <3>3, PrintMoves
  <2>3. CASE e.kind # "Publish"
    <3>1. client' = client /\ up' = up
      BY <1>3, <2>3 DEF PrintLive
    <3>2. client' = [client EXCEPT ![c] = client[c]]
      BY <1>1, <3>1
    <3>3. QED
      BY <1>1, <2>1, <3>1, <3>2, QuietMoves
  <2>4. QED
    BY <2>2, <2>3
<1>4. CASE AwaitReply(c) \/ AwaitAnswer(c)
  <2>1. Received(c) \in Frames /\ down' \in [Clients -> Seq(Frames)]
        /\ UNCHANGED <<scenario, nodeVars>> /\ up' = up
    BY <1>4, RecvFacts DEF AwaitReply, AwaitAnswer
  <2> DEFINE id == Received(c).id
  <2>2. \/ client' = client
        \/ client' = [client EXCEPT ![c].pc = "done"]
        \/ client' = [client EXCEPT ![c].pc = "done", ![c].printed = Append(@, id)]
    BY <1>4 DEF AwaitReply, AwaitAnswer
  <2>3. id \in Id
    BY <2>1 DEF Frames
  <2> HIDE DEF id
  <2>4. CASE client' = client
    <3>1. client' = [client EXCEPT ![c] = client[c]]
      BY <1>1, <2>4
    <3>2. QED
      BY <1>1, <2>1, <3>1, QuietMoves
  <2>5. CASE client' = [client EXCEPT ![c].pc = "done"]
    <3>1. Goto(c, "done") /\ "done" \in Points /\ <<>> \in Seq(Frames)
          /\ \A i \in 1 .. Len(<<>>) : <<>>[i].kind # "Ack"
      BY <2>5 DEF Goto, Points
    <3>2. QED
      BY <2>1, <3>1, GotoMoves
  <2>6. CASE client' = [client EXCEPT ![c].pc = "done", ![c].printed = Append(@, id)]
    <3> DEFINE q == client[c].printed
               k == [client[c] EXCEPT !.pc = "done", !.printed = Append(q, id)]
    <3>1. Append(q, id) \in Seq(Id) /\ ToSet(Append(q, id)) = ToSet(q) \cup {id}
      BY <1>1, <2>3, ToSetFacts
    <3>2. client' = [client EXCEPT ![c] = k]
      BY <1>1, <2>6
    <3>3. k \in ClientState /\ k.printed = Append(q, id)
      BY <1>1, <3>1 DEF ClientState, Points
    <3> HIDE DEF k
    <3>4. PICK out \in Seq(Frames) : out = <<>> /\ \A i \in 1 .. Len(out) : FALSE
      <4>1. <<>> \in Seq(Frames) /\ \A i \in 1 .. Len(<<>>) : FALSE
        OBVIOUS
      <4>2. QED
        BY <4>1
    <3>5. ClientMoves(c, k, out)
      BY <2>1, <3>1, <3>2, <3>3, <3>4 DEF ClientMoves
    <3>6. QED
      BY <3>5
  <2>7. QED
    BY <2>2, <2>4, <2>5, <2>6
<1>5. QED
  BY <1>2, <1>3, <1>4, StartMoves, AwaitMoves DEF ClientStep

-----------------------------------------------------------------------------
(* A step of the node.                                                      *)

\* The node adds nothing to what the clients sent.
Consumes ==
    /\ up' \in [Clients -> Seq(Frames)]
    /\ \A d \in Clients : \A i \in 1 .. Len(up'[d]) :
          \E j \in 1 .. Len(up[d]) : up'[d][i] = up[d][j]

\* The frame the read loop takes.
LEMMA NodeReadsFacts ==
    ASSUME ClientsOK, NEW c \in Clients, NEW kind, NodeReads(c, kind)
    PROVE  /\ Frame(c) \in Frames /\ Frame(c).kind = kind /\ Consumes
           /\ 1 \in 1 .. Len(up[c]) /\ Frame(c) = up[c][1]
<1>1. /\ up \in [Clients -> Seq(Frames)] /\ up[c] \in Seq(Frames) /\ up[c] # <<>>
      /\ Frame(c).kind = kind /\ up' = [up EXCEPT ![c] = Tail(up[c])]
  BY DEF ClientsOK, NodeReads
<1> DEFINE q == up[c]
           r == Tail(up[c])
           n == Len(q)
<1>2. /\ n \in Nat /\ n >= 1 /\ Head(q) = q[1] /\ q[1] \in Frames
      /\ r \in Seq(Frames) /\ Len(r) = n - 1 /\ \A i \in 1 .. n - 1 : r[i] = q[i + 1]
  BY <1>1
<1>3. n = Len(up[c]) /\ up' = [up EXCEPT ![c] = r] /\ q = up[c]
  BY <1>1
<1> HIDE DEF q, r, n
<1>4. \A i \in 1 .. n - 1 : i + 1 \in 1 .. n
  BY <1>2
<1>5. \A i \in 1 .. Len(r) : \E j \in 1 .. Len(up[c]) : r[i] = up[c][j]
  BY <1>2, <1>3, <1>4
<1>6. ASSUME NEW d \in Clients, NEW i \in 1 .. Len(up'[d])
      PROVE  \E j \in 1 .. Len(up[d]) : up'[d][i] = up[d][j]
  <2>1. CASE d = c
    <3>1. up'[d] = r
      BY <1>1, <1>3, <2>1
    <3>2. QED
      BY <1>5, <2>1, <3>1
  <2>2. CASE d # c
    <3>1. up'[d] = up[d]
      BY <1>1, <1>3, <2>2
    <3>2. QED
      BY <3>1
  <2>3. QED
    BY <2>1, <2>2
<1>7. up' \in [Clients -> Seq(Frames)]
  BY <1>1, <1>2, <1>3
<1>8. 1 \in 1 .. Len(up[c]) /\ Frame(c) = up[c][1] /\ Frame(c) \in Frames
  BY <1>2, <1>3 DEF Frame
<1>9. QED
  BY <1>1, <1>6, <1>7, <1>8 DEF Consumes

\* What a step of the node has to keep.
LEMMA NodeKeeps ==
    ASSUME SessionInv, UNCHANGED <<scenario, client>>, Consumes \/ up' = up, NodeOK',
           down' \in [Clients -> Seq(Frames)],
           \A d \in Clients : retired'[d] \subseteq ToSet(client[d].printed)
    PROVE  SessionInv'
<1>1. ClientsOK /\ \A d \in Clients : AcksOK(d)
  BY DEF SessionInv
<1>2. ClientsOK'
  BY <1>1 DEF ClientsOK, Consumes
<1>3. ASSUME NEW d \in Clients, NEW i \in 1 .. Len(up'[d]), up'[d][i].kind = "Ack"
      PROVE  up'[d][i].ref \in ToSet(client[d].printed)
  <2>1. PICK j \in 1 .. Len(up[d]) : up'[d][i] = up[d][j]
    BY <1>3 DEF Consumes
  <2>2. QED
    BY <1>1, <1>3, <2>1 DEF AcksOK
<1>4. \A d \in Clients : AcksOK(d)'
  BY <1>3 DEF AcksOK
<1>5. ArgsOK'
  BY SameArgs DEF SessionInv, ArgsOK, At
<1>6. QED
  BY <1>2, <1>4, <1>5 DEF SessionInv

\* A topic is a filter that covers itself.
LEMMA TopicIsFilter == ASSUME NEW t, ValidTopic(t) PROVE ValidFilter(t)
BY DEF ValidTopic, ValidFilter, IsLiteral

\* A queue of messages that its filter takes, one longer.
LEMMA QueueAppend ==
    ASSUME NEW f, NEW q \in Seq(Messages), NEW e \in Messages, Takes(f, e.topic),
           \A i \in 1 .. Len(q) : Takes(f, q[i].topic)
    PROVE  /\ Append(q, e) \in Seq(Messages)
           /\ \A i \in 1 .. Len(Append(q, e)) : Takes(f, Append(q, e)[i].topic)
<1> DEFINE n == Len(q)
           r == Append(q, e)
<1>1. /\ n \in Nat /\ r \in Seq(Messages) /\ Len(r) = n + 1 /\ r[n + 1] = e
      /\ \A i \in 1 .. n : r[i] = q[i]
  OBVIOUS
<1>2. n = Len(q)
  OBVIOUS
<1> HIDE DEF n, r
<1>3. \A i \in 1 .. n + 1 : i \in 1 .. n \/ i = n + 1
  BY <1>1
<1>4. \A i \in 1 .. Len(r) : Takes(f, r[i].topic)
  BY <1>1, <1>2, <1>3
<1>5. QED
  BY <1>1, <1>4 DEF r

\* A replay buffer holds messages its filter takes.
LEMMA BufferFacts ==
    ASSUME Queues(channels), NEW f
    PROVE  Buffer(f) \in Seq(Messages) /\ \A i \in 1 .. Len(Buffer(f)) : Takes(f, Buffer(f)[i].topic)
  BY DEF Queues, Buffer

\* Broker::publish puts a message where a filter takes it.
LEMMA PublishQueues ==
    ASSUME NodeOK, NEW e \in Messages, Publish(e)
    PROVE  /\ Queues(channels') /\ forwarders' = [c \in Clients |-> forwarders'[c]]
           /\ \A c \in Clients : Queues(forwarders'[c]) /\ DOMAIN forwarders'[c] = DOMAIN forwarders[c]
<1> DEFINE After(f, q) == IF Takes(f, e.topic) THEN Append(q, e) ELSE q
<1>1. Queues(channels) /\ \A c \in Clients : Queues(forwarders[c])
  BY DEF NodeOK
<1>2. channels' = [f \in DOMAIN channels \cup {e.topic} |-> After(f, Buffer(f))]
  BY DEF Publish
<1>3. forwarders' = [c \in Clients |-> [f \in DOMAIN forwarders[c] |-> After(f, forwarders[c][f])]]
  BY DEF Publish
<1>4. ASSUME NEW f, NEW q \in Seq(Messages), \A i \in 1 .. Len(q) : Takes(f, q[i].topic)
      PROVE  After(f, q) \in Seq(Messages) /\ \A i \in 1 .. Len(After(f, q)) : Takes(f, After(f, q)[i].topic)
  BY <1>4, QueueAppend
<1>5. \A f : Buffer(f) \in Seq(Messages) /\ \A i \in 1 .. Len(Buffer(f)) : Takes(f, Buffer(f)[i].topic)
  BY <1>1, BufferFacts
<1> HIDE DEF After
<1>6. Queues(channels')
  <2> DEFINE b == channels'
  <2>1. b = [f \in DOMAIN channels \cup {e.topic} |-> After(f, Buffer(f))]
    BY <1>2
  <2>2. \A f \in DOMAIN b : b[f] \in Seq(Messages) /\ \A i \in 1 .. Len(b[f]) : Takes(f, b[f][i].topic)
    BY <1>4, <1>5, <2>1
  <2>3. b = [f \in DOMAIN b |-> b[f]] /\ DOMAIN b = DOMAIN channels \cup {e.topic}
    BY <2>1
  <2>4. e.topic \in Names /\ ValidFilter(e.topic)
    BY TopicIsFilter DEF Messages, Frames, Proper, Parses
  <2>5. IsFiniteSet(DOMAIN b) /\ \A f \in DOMAIN b : f \in Names /\ ValidFilter(f)
    BY <1>1, <2>3, <2>4, FS_AddElement DEF Queues
  <2>6. QED
    BY <2>2, <2>3, <2>5 DEF Queues
<1>7. ASSUME NEW c \in Clients
      PROVE  Queues(forwarders'[c]) /\ DOMAIN forwarders'[c] = DOMAIN forwarders[c]
  <2> DEFINE b == forwarders'[c]
  <2>1. b = [f \in DOMAIN forwarders[c] |-> After(f, forwarders[c][f])]
    BY <1>3
  <2>2. \A f \in DOMAIN forwarders[c] : /\ forwarders[c][f] \in Seq(Messages)
                                        /\ \A i \in 1 .. Len(forwarders[c][f]) :
                                              Takes(f, forwarders[c][f][i].topic)
    BY <1>1 DEF Queues
  <2> HIDE DEF b
  <2>3. \A f \in DOMAIN b : b[f] \in Seq(Messages) /\ \A i \in 1 .. Len(b[f]) : Takes(f, b[f][i].topic)
    BY <1>4, <2>1, <2>2
  <2>4. b = [f \in DOMAIN b |-> b[f]]
    BY <2>1
  <2>5. IsFiniteSet(DOMAIN b) /\ \A f \in DOMAIN b : f \in Names /\ ValidFilter(f)
    BY <1>1, <2>1 DEF Queues
  <2>6. QED
    BY <2>1, <2>3, <2>4, <2>5 DEF Queues, b
<1>8. QED
  BY <1>3, <1>6, <1>7

\* What the node keeps about its connections, and its answers.
LEMMA NodeFacts ==
    ASSUME SessionInv
    PROVE  /\ ClientsOK /\ NodeOK /\ down \in [Clients -> Seq(Frames)]
           /\ \A d \in Clients : retired[d] \subseteq ToSet(client[d].printed)
           /\ \A c \in Clients, e \in Frames : [reply EXCEPT ![c] = e] \in [Clients -> Frames]
  BY DEF SessionInv, ClientsOK, NodeOK

\* A step that leaves the subscriptions alone.
LEMMA SameQueues ==
    ASSUME NodeOK, UNCHANGED <<scenario, channels, spawned, forwarders>>,
           reply' \in [Clients -> Frames], retired' \in [Clients -> SUBSET Id]
    PROVE  NodeOK'
  BY SameAcl DEF NodeOK, Queues, Authorised, SpawnOK

\* What is spawned and not started, when no forwarder starts.
LEMMA SameSpawn ==
    ASSUME NodeOK, UNCHANGED <<scenario, spawned>>,
           \A d \in Clients : DOMAIN forwarders'[d] = DOMAIN forwarders[d]
    PROVE  /\ spawned' = [d \in Clients |-> spawned'[d]]
           /\ \A d \in Clients : SpawnOK(d)'
<1>1. spawned = [d \in Clients |-> spawned[d]] /\ \A d \in Clients : SpawnOK(d)
  BY DEF NodeOK
<1>2. ASSUME NEW d \in Clients PROVE SpawnOK(d)'
  <2>1. \A f : FilterAclPermits(d, f)' = FilterAclPermits(d, f)
    BY SameAcl
  <2>2. QED
    BY <1>1, <2>1 DEF SpawnOK
<1>3. QED
  BY <1>1, <1>2

\* handle_subscribe spawns a forwarder only where the ACL permits it.
LEMMA SubscribeKeeps ==
    ASSUME SessionInv, NEW c \in Clients, HandleSubscribe(c)
    PROVE  SessionInv'
<1> DEFINE filter == Frame(c).topic
           new == spawned[c] \cup {filter}
<1>1. /\ ClientsOK /\ NodeOK /\ down \in [Clients -> Seq(Frames)]
      /\ \A d \in Clients : retired[d] \subseteq ToSet(client[d].printed)
      /\ \A e \in Frames : [reply EXCEPT ![c] = e] \in [Clients -> Frames]
  BY NodeFacts
<1>2. Frame(c) \in Frames /\ Frame(c).kind = "Subscribe" /\ Consumes
  BY <1>1, NodeReadsFacts DEF HandleSubscribe
<1>3. UNCHANGED <<scenario, client, down, retired, forwarders, channels>>
  BY DEF HandleSubscribe
<1>4. Answer("Error", Frame(c).id) \in Frames /\ Answer("Ack", Frame(c).id) \in Frames
  <2>1. Frame(c).id \in Id
    BY <1>2 DEF Frames
  <2>2. "Error" \in Kinds /\ "Ack" \in Kinds /\ "Error" # "Publish" /\ "Ack" # "Publish"
    BY DEF Kinds
  <2>3. QED
    BY <2>1, <2>2, AnswerFacts, Zenon
<1>5. reply' \in [Clients -> Frames]
  <2>1. Replies(c, Answer("Error", Frame(c).id)) \/ Replies(c, Answer("Ack", Frame(c).id))
    BY DEF HandleSubscribe
  <2>2. QED
    BY <1>1, <1>4, <2>1 DEF Replies
<1>6. \/ spawned' = spawned
      \/ /\ FilterAclPermits(c, filter) /\ filter \notin DOMAIN forwarders[c]
         /\ spawned' = [spawned EXCEPT ![c] = new]
  BY DEF HandleSubscribe
<1>7. retired' \in [Clients -> SUBSET Id]
  BY <1>1, <1>3 DEF NodeOK
<1>8. CASE spawned' = spawned
  BY <1>1, <1>2, <1>3, <1>5, <1>7, <1>8, SameQueues, NodeKeeps
<1>9. CASE /\ FilterAclPermits(c, filter) /\ filter \notin DOMAIN forwarders[c]
           /\ spawned' = [spawned EXCEPT ![c] = new]
  <2>1. /\ Queues(channels) /\ forwarders = [d \in Clients |-> forwarders[d]]
        /\ spawned = [d \in Clients |-> spawned[d]]
        /\ \A d \in Clients : Queues(forwarders[d]) /\ Authorised(d) /\ SpawnOK(d)
    BY <1>1 DEF NodeOK
  <2>2. filter \in Names /\ ValidFilter(filter)
    BY <1>2 DEF Frames, Proper, Parses
  <2> HIDE DEF filter
  <2>3. /\ spawned' = [d \in Clients |-> spawned'[d]]
        /\ \A d \in Clients : spawned'[d] = IF d = c THEN new ELSE spawned[d]
    BY <1>9, <2>1
  <2>4. IsFiniteSet(new)
    BY <2>1, FS_AddElement DEF SpawnOK
  <2>5. ASSUME NEW d \in Clients PROVE SpawnOK(d)'
    <3>1. \A f : FilterAclPermits(d, f)' = FilterAclPermits(d, f)
      BY <1>3, SameAcl
    <3>2. CASE d = c
      BY <1>3, <1>9, <2>1, <2>2, <2>3, <2>4, <3>1, <3>2 DEF SpawnOK
    <3>3. CASE d # c
      BY <1>3, <2>1, <2>3, <3>1, <3>3 DEF SpawnOK
    <3>4. QED
      BY <3>2, <3>3
  <2>6. NodeOK'
    BY <1>3, <1>5, <1>7, <2>1, <2>3, <2>5, SameAcl DEF NodeOK, Queues, Authorised
  <2>7. QED
    BY <1>1, <1>2, <1>3, <2>6, NodeKeeps
<1>10. QED
  BY <1>6, <1>8, <1>9

\* A forwarder that starts has what the channel of its filter holds.
LEMMA StartKeeps ==
    ASSUME SessionInv, NEW c \in Clients, NEW filter \in spawned[c], StartForwarder(c, filter)
    PROVE  SessionInv'
<1> DEFINE b == [f \in DOMAIN forwarders[c] \cup {filter} |->
                   IF f = filter THEN Buffer(filter) ELSE forwarders[c][f]]
           ch == [f \in DOMAIN channels \cup {filter} |-> Buffer(f)]
           rest == spawned[c] \ {filter}
<1>1. /\ ClientsOK /\ NodeOK /\ down \in [Clients -> Seq(Frames)]
      /\ \A d \in Clients : retired[d] \subseteq ToSet(client[d].printed)
  BY NodeFacts
<1>2. /\ reply \in [Clients -> Frames] /\ retired \in [Clients -> SUBSET Id]
      /\ Queues(channels) /\ forwarders = [d \in Clients |-> forwarders[d]]
      /\ spawned = [d \in Clients |-> spawned[d]]
      /\ \A d \in Clients : Queues(forwarders[d]) /\ Authorised(d) /\ SpawnOK(d)
  BY <1>1 DEF NodeOK
<1>3. /\ UNCHANGED <<scenario, client, up, down, reply, retired>>
      /\ channels' = ch /\ forwarders' = [forwarders EXCEPT ![c] = b]
      /\ spawned' = [spawned EXCEPT ![c] = rest]
  BY DEF StartForwarder
<1>4. filter \in Names /\ ValidFilter(filter) /\ FilterAclPermits(c, filter)
  BY <1>2 DEF SpawnOK
<1>5. \A f : /\ Buffer(f) \in Seq(Messages)
             /\ \A i \in 1 .. Len(Buffer(f)) : Takes(f, Buffer(f)[i].topic)
  BY <1>2, BufferFacts
<1>6. Queues(ch)
  <2>1. \A f \in DOMAIN ch : ch[f] \in Seq(Messages) /\ \A i \in 1 .. Len(ch[f]) : Takes(f, ch[f][i].topic)
    BY <1>5
  <2>2. ch = [f \in DOMAIN ch |-> ch[f]] /\ DOMAIN ch = DOMAIN channels \cup {filter}
    OBVIOUS
  <2> HIDE DEF ch
  <2>3. IsFiniteSet(DOMAIN ch) /\ \A f \in DOMAIN ch : f \in Names /\ ValidFilter(f)
    <3>1. /\ IsFiniteSet(DOMAIN channels)
          /\ \A f \in DOMAIN channels : f \in Names /\ ValidFilter(f)
      BY <1>2 DEF Queues
    <3>2. QED
      BY <1>4, <2>2, <3>1, FS_AddElement
  <2>4. QED
    BY <2>1, <2>2, <2>3 DEF Queues
<1>7. Queues(b) /\ DOMAIN b = DOMAIN forwarders[c] \cup {filter}
  <2>1. \A f \in DOMAIN forwarders[c] :
           /\ forwarders[c][f] \in Seq(Messages)
           /\ \A i \in 1 .. Len(forwarders[c][f]) : Takes(f, forwarders[c][f][i].topic)
    BY <1>2 DEF Queues
  <2>2. \A f \in DOMAIN b : b[f] \in Seq(Messages) /\ \A i \in 1 .. Len(b[f]) : Takes(f, b[f][i].topic)
    BY <1>5, <2>1
  <2>3. b = [f \in DOMAIN b |-> b[f]] /\ DOMAIN b = DOMAIN forwarders[c] \cup {filter}
    OBVIOUS
  <2> HIDE DEF b
  <2>4. IsFiniteSet(DOMAIN b) /\ \A f \in DOMAIN b : f \in Names /\ ValidFilter(f)
    <3>1. /\ IsFiniteSet(DOMAIN forwarders[c])
          /\ \A f \in DOMAIN forwarders[c] : f \in Names /\ ValidFilter(f)
      BY <1>2 DEF Queues
    <3>2. QED
      BY <1>4, <2>3, <3>1, FS_AddElement
  <2>5. QED
    BY <2>2, <2>3, <2>4 DEF Queues
<1> HIDE DEF b, ch
<1>8. /\ forwarders' = [d \in Clients |-> forwarders'[d]]
      /\ spawned' = [d \in Clients |-> spawned'[d]]
      /\ \A d \in Clients : /\ forwarders'[d] = IF d = c THEN b ELSE forwarders[d]
                            /\ spawned'[d] = IF d = c THEN rest ELSE spawned[d]
  BY <1>2, <1>3
<1>9. ASSUME NEW d \in Clients PROVE Queues(forwarders'[d]) /\ Authorised(d)' /\ SpawnOK(d)'
  <2>1. Queues(forwarders'[d])
    BY <1>2, <1>7, <1>8
  <2>2. \A f : FilterAclPermits(d, f)' = FilterAclPermits(d, f)
    BY <1>3, SameAcl
  <2>3. Authorised(d)'
    BY <1>2, <1>4, <1>7, <1>8, <2>2 DEF Authorised
  <2>4. SpawnOK(d)'
    <3>1. CASE d = c
      <4>1. IsFiniteSet(rest)
        BY <1>2, FS_Subset DEF SpawnOK
      <4>2. QED
        BY <1>2, <1>7, <1>8, <2>2, <3>1, <4>1 DEF SpawnOK
    <3>2. CASE d # c
      BY <1>2, <1>8, <2>2, <3>2 DEF SpawnOK
    <3>3. QED
      BY <3>1, <3>2
  <2>5. QED
    BY <2>1, <2>3, <2>4
<1>10. NodeOK'
  <2>1. Queues(channels')
    BY <1>3, <1>6
  <2>2. QED
    BY <1>2, <1>3, <1>8, <1>9, <2>1 DEF NodeOK, Queues
<1>11. QED
  BY <1>1, <1>3, <1>10, NodeKeeps

\* handle_publish: a refusal changes no queue, a publish fills them.
LEMMA PublishKeeps ==
    ASSUME SessionInv, NEW c \in Clients, HandlePublish(c)
    PROVE  SessionInv'
<1>1. /\ ClientsOK /\ NodeOK /\ down \in [Clients -> Seq(Frames)]
      /\ \A d \in Clients : retired[d] \subseteq ToSet(client[d].printed)
      /\ \A e \in Frames : [reply EXCEPT ![c] = e] \in [Clients -> Frames]
  BY NodeFacts
<1>2. Frame(c) \in Frames /\ Frame(c).kind = "Publish" /\ Consumes
  BY <1>1, NodeReadsFacts DEF HandlePublish
<1>3. UNCHANGED <<scenario, client, down, retired, spawned>>
  BY DEF HandlePublish
<1>4. Answer("Error", Frame(c).id) \in Frames
  <2>1. Frame(c).id \in Id /\ "Error" \in Kinds /\ "Error" # "Publish"
    BY <1>2 DEF Frames, Kinds
  <2>2. QED
    BY <2>1, AnswerFacts, Zenon
<1>5. retired' \in [Clients -> SUBSET Id]
  BY <1>1, <1>3 DEF NodeOK
<1>6. \/ Replies(c, Answer("Error", Frame(c).id)) /\ UNCHANGED <<forwarders, channels>>
      \/ Publish(Frame(c)) /\ reply' = reply
  BY DEF HandlePublish
<1>7. CASE Replies(c, Answer("Error", Frame(c).id)) /\ UNCHANGED <<forwarders, channels>>
  <2>1. reply' \in [Clients -> Frames]
    BY <1>1, <1>4, <1>7 DEF Replies
  <2>2. QED
    BY <1>1, <1>2, <1>3, <1>5, <1>7, <2>1, SameQueues, NodeKeeps
<1>8. CASE Publish(Frame(c)) /\ reply' = reply
  <2>1. Frame(c) \in Messages
    BY <1>2 DEF Messages
  <2>2. /\ Queues(channels') /\ forwarders' = [d \in Clients |-> forwarders'[d]]
        /\ \A d \in Clients : Queues(forwarders'[d]) /\ DOMAIN forwarders'[d] = DOMAIN forwarders[d]
    BY <1>1, <1>8, <2>1, PublishQueues
  <2>3. \A d \in Clients : Authorised(d)'
    BY <1>1, <1>3, <2>2, SameAcl DEF Authorised, NodeOK
  <2>s. spawned' = [d \in Clients |-> spawned'[d]] /\ \A d \in Clients : SpawnOK(d)'
    BY <1>1, <1>3, <2>2, SameSpawn
  <2>4. NodeOK'
    BY <1>1, <1>5, <1>8, <2>2, <2>3, <2>s DEF NodeOK, Queues
  <2>5. QED
    BY <1>1, <1>2, <1>3, <2>4, NodeKeeps
<1>9. QED
  BY <1>6, <1>7, <1>8

\* handle_ack retires what the client printed.
LEMMA AckKeeps ==
    ASSUME SessionInv, NEW c \in Clients, HandleAck(c)
    PROVE  SessionInv'
<1>1. /\ ClientsOK /\ NodeOK /\ down \in [Clients -> Seq(Frames)] /\ AcksOK(c)
      /\ \A d \in Clients : retired[d] \subseteq ToSet(client[d].printed)
  BY NodeFacts DEF SessionInv
<1>2. /\ Frame(c) \in Frames /\ Frame(c).kind = "Ack" /\ Consumes
      /\ 1 \in 1 .. Len(up[c]) /\ Frame(c) = up[c][1]
  BY <1>1, NodeReadsFacts DEF HandleAck
<1>3. UNCHANGED <<scenario, client, down, reply, spawned, forwarders, channels>>
      /\ retired' = [retired EXCEPT ![c] = retired[c] \cup {Frame(c).ref}]
  BY DEF HandleAck
<1>4. Frame(c).ref \in ToSet(client[c].printed) /\ Frame(c).ref \in Id
  BY <1>1, <1>2 DEF AcksOK, Frames
<1>5. retired \in [Clients -> SUBSET Id] /\ reply \in [Clients -> Frames]
  BY <1>1 DEF NodeOK
<1>6. retired' \in [Clients -> SUBSET Id]
  BY <1>3, <1>4, <1>5
<1>7. \A d \in Clients : retired'[d] \subseteq ToSet(client[d].printed)
  BY <1>1, <1>3, <1>4, <1>5
<1>8. NodeOK'
  BY <1>1, <1>3, <1>5, <1>6, SameQueues
<1>9. QED
  BY <1>1, <1>2, <1>3, <1>7, <1>8, NodeKeeps

\* handle_status, handle_topics, and the queueing of an answer.
LEMMA ReplyKeeps ==
    ASSUME SessionInv, NEW c \in Clients, HandleQuery(c) \/ SendReply(c)
    PROVE  SessionInv'
<1>1. /\ ClientsOK /\ NodeOK /\ down \in [Clients -> Seq(Frames)]
      /\ \A d \in Clients : retired[d] \subseteq ToSet(client[d].printed)
      /\ \A e \in Frames : [reply EXCEPT ![c] = e] \in [Clients -> Frames]
      /\ reply \in [Clients -> Frames] /\ retired \in [Clients -> SUBSET Id]
  BY NodeFacts DEF NodeOK
<1>2. UNCHANGED <<scenario, client, spawned, forwarders, channels, retired>>
  BY DEF HandleQuery, SendReply
<1>3. CASE HandleQuery(c)
  <2>1. PICK kind \in {"status", "topics"} :
             NodeReads(c, kind) /\ Replies(c, Answer(kind, Frame(c).id))
    BY <1>3 DEF HandleQuery
  <2>2. Frame(c) \in Frames /\ Consumes
    BY <1>1, <2>1, NodeReadsFacts
  <2>3. kind \in Kinds /\ kind # "Publish" /\ Frame(c).id \in Id
    BY <2>2 DEF Kinds, Frames
  <2>4. Answer(kind, Frame(c).id) \in Frames
    BY <2>3, AnswerFacts
  <2>5. reply' \in [Clients -> Frames] /\ down' = down
    BY <1>1, <1>3, <2>1, <2>4 DEF Replies, HandleQuery
  <2>6. QED
    BY <1>1, <1>2, <2>2, <2>5, SameQueues, NodeKeeps
<1>4. CASE SendReply(c)
  <2>1. /\ down' = [down EXCEPT ![c] = Append(down[c], reply[c])]
        /\ reply' = [reply EXCEPT ![c] = NoReply] /\ up' = up
    BY <1>4 DEF SendReply, Replies
  <2>2. NoReply \in Frames BY NoReplyFacts
  <2>3. Append(down[c], reply[c]) \in Seq(Frames)
    BY <1>1
  <2>4. reply' \in [Clients -> Frames] /\ down' \in [Clients -> Seq(Frames)]
    BY <1>1, <2>1, <2>2, <2>3
  <2>5. QED
    BY <1>1, <1>2, <2>1, <2>4, SameQueues, NodeKeeps
<1>5. QED
  BY <1>3, <1>4

\* A forwarder hands on the first of its messages.
LEMMA ForwardKeeps ==
    ASSUME SessionInv, NEW c \in Clients, NEW f \in DOMAIN forwarders[c], Forward(c, f)
    PROVE  SessionInv'
<1> DEFINE q == forwarders[c][f]
           b == [forwarders[c] EXCEPT ![f] = Tail(q)]
<1>1. /\ ClientsOK /\ NodeOK /\ down \in [Clients -> Seq(Frames)]
      /\ \A d \in Clients : retired[d] \subseteq ToSet(client[d].printed)
      /\ reply \in [Clients -> Frames] /\ retired \in [Clients -> SUBSET Id]
      /\ Queues(channels) /\ forwarders = [d \in Clients |-> forwarders[d]]
      /\ \A d \in Clients : Queues(forwarders[d]) /\ Authorised(d)
  BY NodeFacts DEF NodeOK
<1>2. /\ UNCHANGED <<scenario, client, up, reply, spawned, channels, retired>> /\ q # <<>>
      /\ down' = [down EXCEPT ![c] = Append(down[c], Head(q))]
      /\ forwarders' = [forwarders EXCEPT ![c] = b]
  BY DEF Forward
<1>3. /\ q \in Seq(Messages) /\ \A i \in 1 .. Len(q) : Takes(f, q[i].topic)
      /\ \A g \in DOMAIN forwarders[c] :
            /\ forwarders[c][g] \in Seq(Messages)
            /\ \A i \in 1 .. Len(forwarders[c][g]) : Takes(g, forwarders[c][g][i].topic)
      /\ forwarders[c] = [g \in DOMAIN forwarders[c] |-> forwarders[c][g]]
  BY <1>1 DEF Queues
<1>4. /\ Head(q) \in Frames /\ Tail(q) \in Seq(Messages)
      /\ \A i \in 1 .. Len(Tail(q)) : Takes(f, Tail(q)[i].topic)
  <2> DEFINE n == Len(q)
             r == Tail(q)
  <2>1. /\ n \in Nat /\ n >= 1 /\ Head(q) \in Messages /\ r \in Seq(Messages) /\ Len(r) = n - 1
        /\ \A i \in 1 .. n - 1 : r[i] = q[i + 1]
    BY <1>2, <1>3
  <2>2. n = Len(q)
    OBVIOUS
  <2> HIDE DEF n, r, q
  <2>3. \A i \in 1 .. n - 1 : i + 1 \in 1 .. n
    BY <2>1
  <2>4. \A i \in 1 .. Len(r) : Takes(f, r[i].topic)
    BY <1>3, <2>1, <2>2, <2>3
  <2>5. QED
    BY <2>1, <2>4 DEF Messages, r
<1>5. /\ DOMAIN b = DOMAIN forwarders[c] /\ b = [g \in DOMAIN b |-> b[g]]
      /\ \A g \in DOMAIN b : b[g] = IF g = f THEN Tail(q) ELSE forwarders[c][g]
  BY <1>3
<1> HIDE DEF q, b
<1>6. Queues(b)
  <2>1. IsFiniteSet(DOMAIN b) /\ \A g \in DOMAIN b : g \in Names /\ ValidFilter(g)
    BY <1>1, <1>5 DEF Queues
  <2>2. QED
    BY <1>3, <1>4, <1>5, <2>1 DEF Queues
<1>7. down' \in [Clients -> Seq(Frames)]
  BY <1>1, <1>2, <1>4
<1>8. forwarders' = [d \in Clients |-> forwarders'[d]]
      /\ \A d \in Clients : forwarders'[d] = IF d = c THEN b ELSE forwarders[d]
  BY <1>1, <1>2
<1>9. \A d \in Clients : Queues(forwarders'[d]) /\ DOMAIN forwarders'[d] = DOMAIN forwarders[d]
  BY <1>1, <1>5, <1>6, <1>8
<1>10. \A d \in Clients : Authorised(d)'
  BY <1>1, <1>2, <1>9, SameAcl DEF Authorised
<1>11. NodeOK'
  <2>1. Queues(channels)'
    BY <1>1, <1>2 DEF Queues
  <2>2. ASSUME NEW d \in Clients PROVE Queues(forwarders[d])'
    BY <1>9 DEF Queues
  <2>3. spawned' = [d \in Clients |-> spawned'[d]] /\ \A d \in Clients : SpawnOK(d)'
    BY <1>1, <1>2, <1>9, SameSpawn
  <2>4. QED
    BY <1>1, <1>2, <1>8, <1>10, <2>1, <2>2, <2>3 DEF NodeOK
<1>12. QED
  BY <1>1, <1>2, <1>7, <1>11, NodeKeeps

\* A connection without forwarders.
LEMMA NoQueues == Queues(<<>>) /\ DOMAIN <<>> = {}
<1>1. DOMAIN <<>> = {} /\ <<>> = [f \in {} |-> <<>>[f]] /\ IsFiniteSet({})
  BY FS_EmptySet
<1>2. QED
  BY <1>1 DEF Queues

\* shut_down drops what the connection still had.
LEMMA EndKeeps ==
    ASSUME SessionInv, NEW c \in Clients, ConnectionEnds(c)
    PROVE  SessionInv'
<1>1. /\ ClientsOK /\ NodeOK /\ down \in [Clients -> Seq(Frames)]
      /\ up \in [Clients -> Seq(Frames)]
      /\ \A d \in Clients : retired[d] \subseteq ToSet(client[d].printed)
      /\ reply \in [Clients -> Frames] /\ retired \in [Clients -> SUBSET Id]
      /\ Queues(channels) /\ forwarders = [d \in Clients |-> forwarders[d]]
      /\ spawned = [d \in Clients |-> spawned[d]]
      /\ \A d \in Clients : Queues(forwarders[d]) /\ Authorised(d) /\ SpawnOK(d)
  BY NodeFacts DEF NodeOK, ClientsOK
<1>2. /\ UNCHANGED <<scenario, client, channels, retired>>
      /\ up' = [up EXCEPT ![c] = <<>>] /\ down' = [down EXCEPT ![c] = <<>>]
      /\ reply' = [reply EXCEPT ![c] = NoReply] /\ forwarders' = [forwarders EXCEPT ![c] = <<>>]
      /\ spawned' = [spawned EXCEPT ![c] = {}]
  BY DEF ConnectionEnds, Replies
<1>3. NoReply \in Frames BY NoReplyFacts
<1>4. reply' \in [Clients -> Frames] /\ down' \in [Clients -> Seq(Frames)]
  BY <1>1, <1>2, <1>3
<1>5. Consumes
  <2>1. up' \in [Clients -> Seq(Frames)]
        /\ \A d \in Clients : up'[d] = IF d = c THEN <<>> ELSE up[d]
    BY <1>1, <1>2
  <2>2. \A i \in 1 .. Len(<<>>) : FALSE
    OBVIOUS
  <2>3. QED
    BY <2>1, <2>2 DEF Consumes
<1>6. Queues(<<>>) /\ DOMAIN <<>> = {}
  BY NoQueues
<1>7. forwarders' = [d \in Clients |-> forwarders'[d]]
      /\ \A d \in Clients : forwarders'[d] = IF d = c THEN <<>> ELSE forwarders[d]
  BY <1>1, <1>2
<1>8. \A d \in Clients : Queues(forwarders'[d]) /\ DOMAIN forwarders'[d] \subseteq DOMAIN forwarders[d]
  BY <1>1, <1>6, <1>7
<1>9. \A d \in Clients : Authorised(d)'
  BY <1>1, <1>2, <1>8, SameAcl DEF Authorised
<1>s. spawned' = [d \in Clients |-> spawned'[d]] /\ \A d \in Clients : SpawnOK(d)'
  <2>1. /\ spawned' = [d \in Clients |-> spawned'[d]]
        /\ \A d \in Clients : spawned'[d] = IF d = c THEN {} ELSE spawned[d]
    BY <1>1, <1>2
  <2>2. ASSUME NEW d \in Clients PROVE SpawnOK(d)'
    <3>1. \A f : FilterAclPermits(d, f)' = FilterAclPermits(d, f)
      BY <1>2, SameAcl
    <3>2. CASE d = c
      BY <2>1, <3>2, FS_EmptySet DEF SpawnOK
    <3>3. CASE d # c
      BY <1>1, <1>7, <2>1, <3>1, <3>3 DEF SpawnOK
    <3>4. QED
      BY <3>2, <3>3
  <2>3. QED
    BY <2>1, <2>2
<1>10. NodeOK'
  BY <1>1, <1>2, <1>4, <1>7, <1>8, <1>9, <1>s DEF NodeOK, Queues
<1>11. QED
  BY <1>1, <1>2, <1>4, <1>5, <1>10, NodeKeeps

-----------------------------------------------------------------------------
(* Every step of a session.                                                 *)

\* Nothing was sent and nobody subscribed when a node has just started.
LEMMA SessionInitInv == SessionInit => SessionInv
<1> SUFFICES ASSUME SessionInit PROVE SessionInv
  OBVIOUS
<1>1. NewClient \in ClientState /\ NewClient.printed = <<>>
  BY DEF NewClient, ClientState, Points
<1>2. NoReply \in Frames BY NoReplyFacts
<1>3. Queues(<<>>) /\ DOMAIN <<>> = {}
  BY NoQueues
<1>4. ClientsOK
  BY <1>1 DEF SessionInit, ClientsOK
<1>5. NodeOK
  BY <1>2, <1>3, FS_EmptySet DEF SessionInit, NodeOK, Authorised, SpawnOK
<1>6. \A c \in Clients : AcksOK(c) /\ retired[c] \subseteq ToSet(client[c].printed)
  BY DEF SessionInit, AcksOK
<1>7. ArgsOK
  BY DEF SessionInit, ArgsOK, At, NewClient
<1>8. QED
  BY <1>4, <1>5, <1>6, <1>7 DEF SessionInv

\* Every step of a client, of the node and of the clock keeps the session in order.
LEMMA SessionStep == SessionInv /\ [SessionNext]_sessionVars => SessionInv'
<1> SUFFICES ASSUME SessionInv, [SessionNext]_sessionVars PROVE SessionInv'
  OBVIOUS
<1>1. ClientsOK /\ ArgsOK /\ NodeOK
      /\ \A d \in Clients : AcksOK(d) /\ retired[d] \subseteq ToSet(client[d].printed)
  BY DEF SessionInv
<1>2. ASSUME NEW c \in Clients, ClientStep(c) \/ StartFails(c) \/ Interrupt(c) PROVE SessionInv'
  <2>1. PICK k, out : ClientMoves(c, k, out)
    BY <1>1, <1>2, ClientStepMoves
  <2>2. ArgsOK'
    BY <1>1, <1>2, ArgsStep
  <2>3. QED
    BY <2>1, <2>2, ClientMovesInv
<1>3. ASSUME NEW c \in Clients, NodeStep(c) PROVE SessionInv'
  BY <1>3, SubscribeKeeps, StartKeeps, PublishKeeps, AckKeeps, ReplyKeeps, ForwardKeeps, EndKeeps DEF NodeStep
<1>4. CASE Time \/ UNCHANGED sessionVars
  <2>1. UNCHANGED <<scenario, client, up, down, reply, spawned, forwarders, channels, retired>>
    BY <1>4 DEF Time, sessionVars
  <2>2. down' \in [Clients -> Seq(Frames)] /\ reply' \in [Clients -> Frames]
        /\ retired' \in [Clients -> SUBSET Id]
    BY <1>1, <2>1 DEF ClientsOK, NodeOK
  <2>3. NodeOK'
    BY <1>1, <2>1, <2>2, SameQueues
  <2>4. QED
    BY <1>1, <2>1, <2>2, <2>3, NodeKeeps
<1>5. QED
  BY <1>2, <1>3, <1>4 DEF SessionNext

\* Only handle_publish and the passing of time touch the limiter.
LEMMA SessionIsRateStep == [SessionNext]_sessionVars => [RateNext]_rateVars
<1> SUFFICES ASSUME [SessionNext]_sessionVars PROVE [RateNext]_rateVars
  OBVIOUS
<1>1. ASSUME NEW c \in Clients, ClientStep(c) \/ StartFails(c) \/ Interrupt(c)
      PROVE  UNCHANGED rateVars
  BY <1>1 DEF ClientStep, Invalid, Completions, StartPublish, StartSubscribe, StartQuery, AwaitAcks,
              PrintBacklog, PrintLive, AwaitReply, TimesOut, AwaitAnswer, StartFails, Interrupt,
              nodeVars, rateVars
<1>2. ASSUME NEW c \in Clients, NodeStep(c), ~ HandlePublish(c)
      PROVE  UNCHANGED rateVars
  BY <1>2 DEF NodeStep, HandleSubscribe, StartForwarder, HandleAck, HandleQuery, SendReply,
              ConnectionEnds, Forward
<1>3. ASSUME NEW c \in Clients, HandlePublish(c)
      PROVE  Allow(Identity(c)) \/ UNCHANGED rateVars
  BY <1>3 DEF HandlePublish
<1>4. CASE Time
  BY <1>4 DEF Time, RateNext
<1>5. CASE UNCHANGED sessionVars
  BY <1>5 DEF sessionVars, rateVars
<1>6. QED
  BY <1>1, <1>2, <1>3, <1>4, <1>5 DEF SessionNext, RateNext

(***************************************************************************)
(* No wildcard reaches around an ACL: whatever waits in a forwarder of a   *)
(* connection is on a topic its principal may subscribe to, for any ACL,   *)
(* any filters and any topics (handle_subscribe, filter_acl_permits,       *)
(* Broker::publish).                                                       *)
(***************************************************************************)
THEOREM AclHolds == SessionSpec => []OnlyPermitted
<1>1. SessionInv => OnlyPermitted
  <2> SUFFICES ASSUME SessionInv, NEW c \in Clients, NEW f \in DOMAIN forwarders[c],
                      NEW i \in DOMAIN forwarders[c][f], AclOf(c) # NoAcl
               PROVE  <<Identity(c), "sub", forwarders[c][f][i].topic>> \in AclOf(c)
    BY DEF OnlyPermitted
  <2>1. /\ FilterAclPermits(c, f)
        /\ forwarders[c][f] \in Seq(Messages)
        /\ \A j \in 1 .. Len(forwarders[c][f]) : Takes(f, forwarders[c][f][j].topic)
    BY DEF SessionInv, NodeOK, Authorised, Queues
  <2>2. IsLiteral(f) /\ <<Identity(c), "sub", f>> \in AclOf(c)
    BY <2>1 DEF FilterAclPermits, AclPermits
  <2>3. forwarders[c][f][i].topic = f
    <3>1. i \in 1 .. Len(forwarders[c][f])
      BY <2>1
    <3>2. QED
      BY <2>1, <2>2, <3>1 DEF Takes
  <2>4. QED
    BY <2>2, <2>3
<1>2. QED
  BY <1>1, SessionInitInv, SessionStep, PTL DEF SessionSpec

(***************************************************************************)
(* The node never takes a delivery for acknowledged that its client has    *)
(* not printed, however clients are interrupted and whatever overtakes     *)
(* what (print_and_maybe_ack, handle_ack).                                 *)
(***************************************************************************)
THEOREM AcksFollowPrints == SessionSpec => []AckedWasPrinted
<1>1. SessionInv => AckedWasPrinted
  BY DEF SessionInv, AckedWasPrinted
<1>2. QED
  BY <1>1, SessionInitInv, SessionStep, PTL DEF SessionSpec

(***************************************************************************)
(* The limiter lets a publish through exactly when every window of time    *)
(* stays within the burst and the rate, for every rate, burst and number   *)
(* of principals, over any number of connections (RateLimiter::allow).     *)
(***************************************************************************)
THEOREM RateLimitIsExact == SessionSpec => []RateExact
<1>1. SessionInit => RateInv
  BY DEF SessionInit, RateInit, RateInv, IsNew
<1>2. QED
  BY <1>1, RateInvExact, RateStep, SessionIsRateStep, PTL DEF SessionSpec
-----------------------------------------------------------------------------
(* TopicFilters.  The loop of matches against what a filter means.          *)

\* What TopicFilter::matches finds out from the i-th turn of its loop on.
Rest(f, t, i) ==
    IF i = Len(f) + 1 THEN Len(t) = Len(f)
    ELSE /\ f[Len(f)] = MultiLevelWildcard \/ Len(t) = Len(f)
         /\ \A j \in i .. Len(f) :
               f[j] # MultiLevelWildcard => j <= Len(t) /\ f[j] \in {SingleLevelWildcard, t[j]}

\* One turn of the loop, given what the later turns find.
Turn(f, t, later, i) ==
    IF i > Len(f) THEN i = Len(t) + 1
    ELSE \/ f[i] = MultiLevelWildcard
         \/ i <= Len(t) /\ f[i] \in {SingleLevelWildcard, t[i]} /\ later

\* Matches is its loop from the first turn on.
LEMMA Unfold ==
    ASSUME NEW f, NEW t
    PROVE  Matches(f, t) = (CHOOSE g : g = [i \in 1 .. Len(f) + 1 |-> Turn(f, t, g[i + 1], i)])[1]
BY DEF Matches, Turn

\* What Rest says of a turn follows from what it says of the next.
LEMMA RestIsTurn ==
    ASSUME NEW S, NEW f \in Seq(S), NEW t \in Seq(S), ValidFilter(f), NEW i \in 1 .. Len(f) + 1
    PROVE  Rest(f, t, i) <=> Turn(f, t, Rest(f, t, i + 1), i)
<1> DEFINE n == Len(f)
           m == Len(t)
<1>1. n \in Nat /\ n > 0 /\ m \in Nat /\ \A j \in 1 .. n : f[j] = MultiLevelWildcard => j = n
  BY DEF ValidFilter
<1> HIDE DEF n, m
<1>a. n = Len(f) /\ m = Len(t) /\ i \in 1 .. n + 1
  BY DEF n, m
<1>2. CASE i = n + 1
  BY <1>1, <1>2, <1>a DEF Rest, Turn
<1>3. CASE i \in 1 .. n /\ f[i] = MultiLevelWildcard
  <2>1. i = n
    BY <1>1, <1>3
  <2>2. i # n + 1 /\ i <= n /\ \A j \in i .. n : j = n
    BY <1>1, <2>1
  <2> QED BY <1>1, <1>3, <1>a, <2>1, <2>2 DEF Rest, Turn
<1>4. CASE i \in 1 .. n /\ f[i] # MultiLevelWildcard
  <2>0. i # n + 1 /\ i <= n /\ ~ (i > n)
    BY <1>1, <1>4
  <2> DEFINE Fits(j) == j <= m /\ f[j] \in {SingleLevelWildcard, t[j]}
  <2>1. CASE i = n
    <3>1. i + 1 = n + 1 /\ \A j \in i .. n : j = n
      BY <1>1, <2>1
    <3>2. n \in i .. n
      BY <1>1, <2>1
    <3>3. Rest(f, t, i) <=> m = n /\ Fits(n)
      BY <1>4, <1>a, <2>0, <2>1, <3>1, <3>2 DEF Rest
    <3>4. Rest(f, t, i + 1) <=> m = n
      BY <1>a, <3>1 DEF Rest
    <3> QED BY <1>4, <1>a, <2>0, <2>1, <3>3, <3>4 DEF Turn
  <2>2. CASE i # n
    <3>1. i + 1 # n + 1 /\ i \in i .. n /\ \A j \in i .. n : j = i \/ j \in i + 1 .. n
      BY <1>1, <1>4, <2>2
    <3>2. \A j \in i + 1 .. n : j \in i .. n
      BY <1>1, <1>4
    <3>3. (\A j \in i .. n : f[j] # MultiLevelWildcard => Fits(j))
          <=> Fits(i) /\ \A j \in i + 1 .. n : f[j] # MultiLevelWildcard => Fits(j)
      BY <1>4, <3>1, <3>2
    <3>4. Rest(f, t, i) <=> /\ f[n] = MultiLevelWildcard \/ m = n
                            /\ \A j \in i .. n : f[j] # MultiLevelWildcard => Fits(j)
      BY <1>a, <2>0 DEF Rest
    <3>5. Rest(f, t, i + 1) <=> /\ f[n] = MultiLevelWildcard \/ m = n
                                /\ \A j \in i + 1 .. n : f[j] # MultiLevelWildcard => Fits(j)
      BY <1>a, <3>1 DEF Rest
    <3>6. Turn(f, t, Rest(f, t, i + 1), i) <=> Fits(i) /\ Rest(f, t, i + 1)
      BY <1>a, <1>4, <2>0 DEF Turn
    <3> QED BY <3>3, <3>4, <3>5, <3>6
  <2> QED BY <2>1, <2>2
<1> QED BY <1>1, <1>2, <1>3, <1>4, <1>a


\* A set of numbers that is not empty has a least one.
LEMMA LeastCounterexample ==
    ASSUME NEW T \in SUBSET Nat, T # {}
    PROVE  \E x \in T : \A y \in T : x <= y
<1> DEFINE Less == {ss \in Nat \X Nat : ss[1] < ss[2]}
<1>1. IsWellFoundedOn(Less, Nat)
  BY NatLessThanWellFounded, Zenon DEF OpToRel
<1>2. PICK x \in T : \A y \in T : ~ (<<y, x>> \in Less)
  BY <1>1, WFMin
<1>3. ASSUME NEW y \in T PROVE x <= y
  <2>1. <<y, x>> \notin Less /\ x \in Nat /\ y \in Nat
    BY <1>2
  <2>2. QED
    BY <2>1
<1>4. QED
  BY <1>3

\* The loop is what Rest says, turn by turn from the last.
LEMMA LoopIsRest ==
    ASSUME NEW S, NEW f \in Seq(S), NEW t \in Seq(S), ValidFilter(f),
           NEW g, g = [i \in 1 .. Len(f) + 1 |-> Turn(f, t, g[i + 1], i)]
    PROVE  \A i \in 1 .. Len(f) + 1 : g[i] = Rest(f, t, i)
<1> DEFINE n == Len(f)
           T == {k \in 0 .. n : g[n + 1 - k] # Rest(f, t, n + 1 - k)}
<1>1. n \in Nat /\ n = Len(f)
  OBVIOUS
<1>2. \A i \in 1 .. n + 1 : g[i] = Turn(f, t, g[i + 1], i)
  OBVIOUS
<1>3. \A i \in 1 .. n + 1 : Rest(f, t, i) <=> Turn(f, t, Rest(f, t, i + 1), i)
  BY RestIsTurn
<1>4. \A i : Rest(f, t, i) \in BOOLEAN
  BY DEF Rest
<1>5. \A i, later : Turn(f, t, later, i) \in BOOLEAN
  BY DEF Turn
<1> HIDE DEF n
<1>6. T = {}
  <2> SUFFICES ASSUME T # {} PROVE FALSE
    OBVIOUS
  <2>1. T \in SUBSET Nat
    BY <1>1
  <2>2. PICK k \in T : \A y \in T : k <= y
    BY <2>1, LeastCounterexample
  <2> DEFINE i == n + 1 - k
  <2>3. k \in 0 .. n /\ i \in 1 .. n + 1 /\ g[i] # Rest(f, t, i)
    BY <1>1
  <2>4. CASE k = 0
    <3>1. i > Len(f)
      BY <1>1, <2>4
    <3> HIDE DEF i
    <3>2. Turn(f, t, g[i + 1], i) = Turn(f, t, Rest(f, t, i + 1), i)
      BY <3>1 DEF Turn
    <3> QED BY <1>2, <1>3, <1>4, <1>5, <2>3, <3>2
  <2>5. CASE k # 0
    <3>1. k - 1 \in 0 .. n /\ k - 1 \notin T /\ n + 1 - (k - 1) = i + 1
      <4>1. k \in Nat /\ ~ (k <= k - 1) /\ k - 1 \in 0 .. n /\ n + 1 - (k - 1) = i + 1
        BY <1>1, <2>3, <2>5
      <4>2. k - 1 \notin T
        BY <2>2, <4>1
      <4> QED BY <4>1, <4>2
    <3>2. g[i + 1] = Rest(f, t, i + 1)
      BY <3>1
    <3> HIDE DEF i
    <3> QED BY <1>2, <1>3, <1>4, <1>5, <2>3, <3>2
  <2> QED BY <2>4, <2>5
<1>7. \A i \in 1 .. n + 1 : n + 1 - i \in 0 .. n /\ n + 1 - (n + 1 - i) = i
  BY <1>1
<1> QED BY <1>1, <1>6, <1>7

(***************************************************************************)
(* TopicFilter::matches, for every valid filter and every topic: its loop  *)
(* over the segments returns true exactly when the fixed part of the       *)
(* filter agrees with the topic segment by segment and only a "#" leaves   *)
(* the rest of the topic open.                                             *)
(***************************************************************************)
THEOREM MatchesIsCovers ==
    ASSUME NEW S, NEW f \in Seq(S), NEW t \in Seq(S), ValidFilter(f)
    PROVE  Matches(f, t) <=> Covers(f, t)
<1> DEFINE n == Len(f)
           m == Len(t)
           Loop(g) == g = [i \in 1 .. Len(f) + 1 |-> Turn(f, t, g[i + 1], i)]
           w == [i \in 1 .. Len(f) + 1 |-> Rest(f, t, i)]
<1>1. n \in Nat /\ n > 0 /\ m \in Nat /\ n = Len(f) /\ m = Len(t)
      /\ \A j \in 1 .. n : f[j] = MultiLevelWildcard => j = n
  BY DEF ValidFilter
<1>2. Loop(w)
  <2>1. ASSUME NEW i \in 1 .. Len(f) + 1 PROVE w[i] = Turn(f, t, w[i + 1], i)
    <3>1. w[i] = Rest(f, t, i) /\ Rest(f, t, i) \in BOOLEAN
      BY DEF Rest
    <3>2. CASE i = n + 1
      <4>1. i > Len(f)
        BY <1>1, <3>2
      <4>2. Turn(f, t, w[i + 1], i) = Turn(f, t, Rest(f, t, i + 1), i)
        BY <4>1 DEF Turn
      <4>3. Rest(f, t, i) <=> Turn(f, t, Rest(f, t, i + 1), i)
        BY RestIsTurn
      <4>4. Turn(f, t, w[i + 1], i) \in BOOLEAN
        BY DEF Turn
      <4> QED BY <3>1, <4>2, <4>3, <4>4
    <3>3. CASE i # n + 1
      <4>1. i + 1 \in 1 .. Len(f) + 1
        BY <1>1, <3>3
      <4>2. w[i + 1] = Rest(f, t, i + 1)
        BY <4>1
      <4>3. Rest(f, t, i) <=> Turn(f, t, Rest(f, t, i + 1), i)
        BY RestIsTurn
      <4>4. Turn(f, t, w[i + 1], i) \in BOOLEAN
        BY DEF Turn
      <4> QED BY <3>1, <4>2, <4>3, <4>4
    <3> QED BY <3>2, <3>3
  <2>2. w = [i \in 1 .. Len(f) + 1 |-> w[i]]
    OBVIOUS
  <2> HIDE DEF w
  <2> QED BY <2>1, <2>2
<1> DEFINE g == CHOOSE h : Loop(h)
<1>3. Loop(g)
  <2> HIDE DEF Loop, w
  <2> QED BY <1>2
<1>4. Matches(f, t) = g[1]
  BY Unfold
<1> HIDE DEF g
<1>5. g[1] = Rest(f, t, 1)
  <2>1. 1 \in 1 .. Len(f) + 1
    BY <1>1
  <2> QED BY <1>3, <2>1, LoopIsRest
<1> HIDE DEF n, m
<1>6. Rest(f, t, 1) <=> /\ f[n] = MultiLevelWildcard \/ m = n
                        /\ \A j \in 1 .. n : f[j] # MultiLevelWildcard
                              => j <= m /\ f[j] \in {SingleLevelWildcard, t[j]}
  <2>1. 1 # n + 1
    BY <1>1
  <2> QED BY <1>1, <2>1 DEF Rest
<1>7. CASE f[n] = MultiLevelWildcard
  <2>1. \A j \in 1 .. n : f[j] # MultiLevelWildcard <=> j \in 1 .. n - 1
    BY <1>1, <1>7
  <2>2. Rest(f, t, 1) <=> \A j \in 1 .. n - 1 : j <= m /\ f[j] \in {SingleLevelWildcard, t[j]}
    <3>1. \A j \in 1 .. n - 1 : j \in 1 .. n
      BY <1>1
    <3> QED BY <1>6, <1>7, <2>1, <3>1
  <2>3. Covers(f, t) <=> /\ m >= n - 1
                         /\ \A j \in 1 .. n - 1 : f[j] \in {SingleLevelWildcard, t[j]}
    BY <1>1, <1>7 DEF Covers
  <2>4. (\A j \in 1 .. n - 1 : j <= m) <=> m >= n - 1
    <3>1. CASE n = 1
      BY <1>1, <3>1
    <3>2. CASE n # 1
      <4>1. n - 1 \in 1 .. n - 1
        BY <1>1, <3>2
      <4> QED BY <1>1, <4>1
    <3> QED BY <3>1, <3>2
  <2> QED BY <1>4, <1>5, <2>2, <2>3, <2>4
<1>8. CASE f[n] # MultiLevelWildcard
  <2>1. \A j \in 1 .. n : f[j] # MultiLevelWildcard
    BY <1>1, <1>8
  <2>2. Covers(f, t) <=> /\ m = n
                         /\ \A j \in 1 .. n : f[j] \in {SingleLevelWildcard, t[j]}
    BY <1>1, <1>8 DEF Covers
  <2>3. Rest(f, t, 1) <=> m = n /\ \A j \in 1 .. n : j <= m /\ f[j] \in {SingleLevelWildcard, t[j]}
    BY <1>6, <1>8, <2>1
  <2>4. m = n => \A j \in 1 .. n : j <= m
    BY <1>1
  <2> QED BY <1>4, <1>5, <2>2, <2>3, <2>4
<1> QED BY <1>7, <1>8

-----------------------------------------------------------------------------
(* Who is told what.                                                        *)

\* The elements of a sequence that grew or lost its head.
LEMMA TailFacts ==
    ASSUME NEW S, NEW q \in Seq(S), q # <<>>
    PROVE  /\ Head(q) \in S /\ Tail(q) \in Seq(S)
           /\ ToSet(q) = {Head(q)} \cup ToSet(Tail(q))
<1> DEFINE n == Len(q)
           r == Tail(q)
<1>1. /\ n \in Nat /\ n >= 1 /\ DOMAIN q = 1 .. n /\ Head(q) = q[1] /\ q[1] \in S
      /\ r \in Seq(S) /\ DOMAIN r = 1 .. n - 1 /\ \A i \in 1 .. n - 1 : r[i] = q[i + 1]
  OBVIOUS
<1> HIDE DEF n, r
<1>2. /\ \A i \in 1 .. n : i = 1 \/ (i - 1 \in 1 .. n - 1 /\ (i - 1) + 1 = i)
      /\ \A i \in 1 .. n - 1 : i + 1 \in 1 .. n
      /\ 1 \in 1 .. n
  BY <1>1
<1>3. ToSet(q) = {q[i] : i \in 1 .. n} /\ ToSet(r) = {r[i] : i \in 1 .. n - 1}
  BY <1>1 DEF ToSet
<1>4. ASSUME NEW i \in 1 .. n PROVE q[i] \in {q[1]} \cup ToSet(r)
  <2>1. CASE i = 1
    BY <2>1
  <2>2. CASE i - 1 \in 1 .. n - 1 /\ (i - 1) + 1 = i
    <3>1. r[i - 1] = q[i]
      BY <1>1, <2>2
    <3>2. QED
      BY <1>3, <2>2, <3>1
  <2>3. QED
    BY <1>2, <2>1, <2>2
<1>5. {q[1]} \cup ToSet(r) \subseteq ToSet(q)
  BY <1>1, <1>2, <1>3
<1>6. ToSet(q) = {q[1]} \cup ToSet(r)
  BY <1>3, <1>4, <1>5
<1>7. QED
  BY <1>1, <1>6 DEF r

LEMMA ConcatSet ==
    ASSUME NEW S, NEW p \in Seq(S), NEW q \in Seq(S)
    PROVE  p \o q \in Seq(S) /\ ToSet(p \o q) = ToSet(p) \cup ToSet(q)
<1> DEFINE m == Len(p)
           n == Len(q)
           r == p \o q
<1>1. /\ m \in Nat /\ n \in Nat /\ DOMAIN p = 1 .. m /\ DOMAIN q = 1 .. n
      /\ r \in Seq(S) /\ DOMAIN r = 1 .. m + n
      /\ \A i \in 1 .. m : r[i] = p[i]
      /\ \A i \in 1 .. n : r[m + i] = q[i]
  OBVIOUS
<1> HIDE DEF m, n, r
<1>2. /\ \A i \in 1 .. m + n : i \in 1 .. m \/ (i - m \in 1 .. n /\ m + (i - m) = i)
      /\ \A i \in 1 .. m : i \in 1 .. m + n
      /\ \A i \in 1 .. n : m + i \in 1 .. m + n
  BY <1>1
<1>3. /\ ToSet(p) = {p[i] : i \in 1 .. m} /\ ToSet(q) = {q[i] : i \in 1 .. n}
      /\ ToSet(r) = {r[i] : i \in 1 .. m + n}
  BY <1>1 DEF ToSet
<1>4. ASSUME NEW i \in 1 .. m + n PROVE r[i] \in ToSet(p) \cup ToSet(q)
  <2>1. CASE i \in 1 .. m
    BY <1>1, <1>3, <2>1
  <2>2. CASE i - m \in 1 .. n /\ m + (i - m) = i
    <3>1. r[i] = q[i - m]
      BY <1>1, <2>2
    <3>2. QED
      BY <1>3, <2>2, <3>1
  <2>3. QED
    BY <1>2, <2>1, <2>2
<1>5. ToSet(p) \cup ToSet(q) \subseteq ToSet(r)
  BY <1>1, <1>2, <1>3
<1>6. ToSet(r) = ToSet(p) \cup ToSet(q)
  BY <1>3, <1>4, <1>5
<1>7. QED
  BY <1>1, <1>6 DEF r

LEMMA SmallSets ==
    /\ ToSet(<<>>) = {}
    /\ \A x : ToSet(<<x>>) = {x}
    /\ \A S : \A q \in Seq(S) : ToSet(q) \subseteq S /\ q \o <<>> = q /\ <<>> \o q = q
<1>1. ToSet(<<>>) = {}
  BY DEF ToSet
<1>2. ASSUME NEW x PROVE ToSet(<<x>>) = {x}
  <2>1. DOMAIN <<x>> = {1} /\ <<x>>[1] = x
    OBVIOUS
  <2>2. QED
    BY <2>1 DEF ToSet
<1>3. ASSUME NEW S, NEW q \in Seq(S) PROVE ToSet(q) \subseteq S /\ q \o <<>> = q /\ <<>> \o q = q
  <2>1. ToSet(q) \subseteq S
    BY DEF ToSet
  <2>2. q \o <<>> = q /\ <<>> \o q = q
    OBVIOUS
  <2>3. QED
    BY <2>1, <2>2
<1>4. QED
  BY <1>1, <1>2, <1>3

\* A request that has not been published yet, and a message that does not
\* depend on such a request.
Early(c) == Command(c).kind = "request" /\ client[c].pc \in {"start", "acks"}

Fresh(e) ==
    e.kind = "Publish" => \A c \in Clients : Early(c) => e.id # RequestId(c) /\ e.ref # RequestId(c)

\* What waits in queues by filter.
Of(b) == UNION {ToSet(b[f]) : f \in DOMAIN b}

\* No reply is anywhere before its request is.
FreshOK ==
    /\ \A c \in Clients :
          \A e \in ToSet(up[c]) \cup ToSet(down[c]) \cup ToSet(client[c].backlog) \cup Of(forwarders[c]) :
              Fresh(e)
    /\ \A e \in Of(channels) : Fresh(e)

\* Filters a connection has a forwarder for, started or not.
Subscribed(c) == DOMAIN forwarders[c] \cup spawned[c]

\* An answer is no message, nothing is delivered to a command that does not
\* subscribe, and a request that has an Ack has its reply topic's forwarder.
RolesOK(c) ==
    /\ reply[c].kind # "Publish"
    /\ ~Subscriber(c) => /\ \A e \in ToSet(up[c]) : e.kind # "Subscribe"
                         /\ \A e \in ToSet(down[c]) : e.kind # "Publish"
                         /\ Subscribed(c) = {}
    /\ Command(c).kind = "request" /\ ~Gone(c) =>
          /\ \A e \in ToSet(up[c]) : e.kind = "Subscribe" => e.topic = ReplyTopic(c)
          /\ \/ At(c, "reply") \/ reply[c].kind = "Ack"
             \/ \E e \in ToSet(down[c]) : e.kind = "Ack"
             => ReplyTopic(c) \in Subscribed(c)

\* A reply on its topic is also on its way to the request, or will be when the
\* forwarder starts.
RepliesOK(c) ==
    At(c, "reply") /\ ReplyTopic(c) \in DOMAIN channels =>
        \A e \in ToSet(channels[ReplyTopic(c)]) :
            e.ref = RequestId(c) /\ ReplyTopic(c) \notin spawned[c] =>
                e \in ToSet(down[c]) \cup ToSet(forwarders[c][ReplyTopic(c)])

FlowInv == SessionInv /\ FreshOK /\ \A c \in Clients : RolesOK(c) /\ RepliesOK(c)

\* What a client sends on its way to the point pc.
Sent(c, pc, e) ==
    \/ e.kind \notin {"Publish", "Subscribe"}
    \/ /\ e.kind = "Subscribe" /\ Subscriber(c)
       /\ Command(c).kind = "request" => e.topic = ReplyTopic(c)
    \/ /\ e.kind = "Publish" /\ e.ref = Nothing
       /\ e.id[2] = 1 \/ (e.id = RequestId(c) /\ pc = "reply")
    \/ /\ e.kind = "Publish" /\ e.id[2] # 2
       /\ \E m \in ToSet(down[c]) \cup ToSet(client[c].backlog) : m.kind = "Publish" /\ e.ref = m.id

\* A step of a client as the other parties see it.
Flows(c, out) ==
    /\ UNCHANGED <<scenario, reply, spawned, forwarders, channels, due>>
    /\ out \in Seq(Frames) /\ up' = [up EXCEPT ![c] = up[c] \o out]
    /\ \A e \in ToSet(out) : Sent(c, client'[c].pc, e)
    /\ \A d \in Clients : d # c => client'[d] = client[d] /\ down'[d] = down[d]
    /\ ToSet(down'[c]) \subseteq ToSet(down[c])
    /\ ToSet(client'[c].backlog) \subseteq ToSet(client[c].backlog) \cup ToSet(down[c])
    /\ ~Gone(c)
    /\ client'[c].pc \in {"start", "acks"} => client[c].pc \in {"start", "acks"}
    /\ client'[c].pc = "reply" =>
          IF client[c].pc = "reply"
          THEN \A e \in ToSet(down[c]) :
                   e.kind = "Publish" /\ e.ref = RequestId(c) => e \in ToSet(down'[c])
          ELSE client[c].pc = "acks" /\ \E e \in ToSet(down[c]) : e.kind = "Ack"

LEMMA FlowFrom ==
    ASSUME ClientsOK, NEW c \in Clients, NEW k, NEW out \in Seq(Frames), ~Gone(c),
           client' = [client EXCEPT ![c] = k], UNCHANGED <<scenario, nodeVars>>,
           up' = [up EXCEPT ![c] = up[c] \o out] \/ (up' = up /\ out = <<>>),
           \A e \in ToSet(out) : Sent(c, k.pc, e),
           \/ down' = down
           \/ /\ Recv(c)
              /\ k.pc = "reply" /\ client[c].pc = "reply" =>
                    ~(Received(c).kind = "Publish" /\ Received(c).ref = RequestId(c)),
           ToSet(k.backlog) \subseteq ToSet(client[c].backlog) \cup ToSet(down[c]),
           k.pc \in {"start", "acks"} => client[c].pc \in {"start", "acks"},
           k.pc = "reply" =>
              \/ client[c].pc = "reply"
              \/ client[c].pc = "acks" /\ \E e \in ToSet(down[c]) : e.kind = "Ack"
    PROVE  Flows(c, out)
<1>1. /\ client \in [Clients -> ClientState] /\ up \in [Clients -> Seq(Frames)]
      /\ down \in [Clients -> Seq(Frames)]
  BY DEF ClientsOK
<1>2. client'[c] = k /\ \A d \in Clients : d # c => client'[d] = client[d]
  BY <1>1
<1>3. up' = [up EXCEPT ![c] = up[c] \o out]
  <2>1. up[c] \in Seq(Frames)
    BY <1>1
  <2>2. up[c] \o <<>> = up[c]
    BY <2>1, SmallSets
  <2>3. QED
    BY <1>1, <2>2
<1>4. /\ ToSet(down'[c]) \subseteq ToSet(down[c])
      /\ \A d \in Clients : d # c => down'[d] = down[d]
      /\ k.pc = "reply" /\ client[c].pc = "reply" =>
            \A e \in ToSet(down[c]) :
                e.kind = "Publish" /\ e.ref = RequestId(c) => e \in ToSet(down'[c])
  <2>1. CASE down' = down
    BY <2>1
  <2>2. CASE /\ Recv(c)
             /\ k.pc = "reply" /\ client[c].pc = "reply" =>
                   ~(Received(c).kind = "Publish" /\ Received(c).ref = RequestId(c))
    <3>1. /\ down[c] \in Seq(Frames) /\ down[c] # <<>> /\ down' = [down EXCEPT ![c] = Tail(down[c])]
          /\ Received(c) = Head(down[c])
      BY <1>1, <2>2 DEF Recv, Received
    <3>2. down'[c] = Tail(down[c]) /\ \A d \in Clients : d # c => down'[d] = down[d]
      BY <1>1, <3>1
    <3>3. ToSet(down[c]) = {Received(c)} \cup ToSet(down'[c])
      BY <3>1, <3>2, TailFacts
    <3>4. QED
      BY <2>2, <3>2, <3>3
  <2>3. QED
    BY <2>1, <2>2
<1>5. UNCHANGED <<scenario, reply, spawned, forwarders, channels, due>>
  BY DEF nodeVars
<1>6. QED
  BY <1>2, <1>3, <1>4, <1>5 DEF Flows

\* A client that goes to another point and sends at most one envelope.
LEMMA GotoFlows ==
    ASSUME ClientsOK, NEW c \in Clients, NEW pc \in Points, Goto(c, pc), ~Gone(c),
           UNCHANGED <<scenario, nodeVars>>, pc \notin {"start", "acks", "reply"},
           NEW out \in Seq(Frames),
           up' = [up EXCEPT ![c] = up[c] \o out] \/ (up' = up /\ out = <<>>),
           \A e \in ToSet(out) : Sent(c, pc, e), down' = down \/ Recv(c)
    PROVE  \E o : Flows(c, o)
<1> DEFINE k == [client[c] EXCEPT !.pc = pc]
<1>1. client[c] \in ClientState
  BY StateFacts
<1>2. k.pc = pc /\ k.backlog = client[c].backlog
  BY <1>1 DEF ClientState
<1>3. client' = [client EXCEPT ![c] = k]
  BY DEF Goto
<1> HIDE DEF k
<1>4. \A e \in ToSet(out) : Sent(c, k.pc, e)
  BY <1>2
<1>5. /\ ToSet(k.backlog) \subseteq ToSet(client[c].backlog) \cup ToSet(down[c])
      /\ k.pc \notin {"start", "acks", "reply"}
  BY <1>2
<1>6. Flows(c, out)
  BY <1>3, <1>4, <1>5, FlowFrom
<1>7. QED
  BY <1>6

\* The start of a command, and the ends that do not depend on an answer.
LEMMA StartFlows ==
    ASSUME ClientsOK, NEW c \in Clients,
           \/ Invalid(c) \/ StartFails(c) \/ Completions(c) \/ TimesOut(c) \/ Interrupt(c)
           \/ StartPublish(c) \/ StartSubscribe(c) \/ StartQuery(c)
    PROVE  \E o : Flows(c, o)
<1>1. /\ Command(c) \in Arguments /\ <<>> \in Seq(Frames) /\ <<>> \in Names /\ ToSet(<<>>) = {}
      /\ down' = down /\ UNCHANGED <<scenario, nodeVars>>
  BY CommandFacts, SmallSets DEF Names, Topic, Invalid, StartFails, Completions, TimesOut, Interrupt,
     StartPublish, StartSubscribe, StartQuery
<1>2. ~Gone(c)
  BY DEF Gone, Invalid, StartFails, Completions, TimesOut, Interrupt, StartPublish, StartSubscribe,
         StartQuery, Connectable, At
<1>3. CASE Invalid(c) \/ StartFails(c) \/ Completions(c) \/ TimesOut(c) \/ Interrupt(c)
  <2>1. PICK pc \in {"failed", "done", "gone"} : Goto(c, pc)
    <3>1. Goto(c, "failed") \/ Goto(c, "done") \/ Goto(c, "gone")
      BY <1>3 DEF Invalid, StartFails, Completions, TimesOut, Interrupt
    <3>2. QED
      BY <3>1, Zenon
  <2>2. up' = up
    BY <1>3 DEF Invalid, StartFails, Completions, TimesOut, Interrupt
  <2>3. pc \in Points /\ pc \notin {"start", "acks", "reply"}
    BY DEF Points
  <2>4. QED
    BY <1>1, <1>2, <2>1, <2>2, <2>3, GotoFlows
<1>4. CASE StartPublish(c)
  <2> DEFINE e == Envelope(c, 1, "Publish", Command(c).topic)
  <2>1. e \in Frames /\ e.kind = "Publish" /\ e.id = <<c, 1>> /\ e.ref = Nothing
    <3>1. Command(c).topic \in Names /\ 1 \in Nat /\ "Publish" \in Kinds
      BY <1>1 DEF Arguments, Names, Kinds
    <3>2. Parses("Publish", Command(c).topic)
      BY <1>4 DEF StartPublish, Connectable, ValidArguments, Parses
    <3>3. QED
      BY <3>1, <3>2, EnvelopeFacts
  <2>2. Goto(c, "done") /\ up' = [up EXCEPT ![c] = up[c] \o <<e>>]
    BY <1>4 DEF StartPublish, Send
  <2> HIDE DEF e
  <2>3. Sent(c, "done", e)
    BY <2>1 DEF Sent
  <2>4. <<e>> \in Seq(Frames) /\ ToSet(<<e>>) = {e}
    BY <2>1, OneFacts, SmallSets
  <2>5. \A x \in ToSet(<<e>>) : Sent(c, "done", x)
    BY <2>3, <2>4
  <2>6. "done" \in Points /\ "done" \notin {"start", "acks", "reply"}
    BY DEF Points
  <2>7. QED
    BY <1>1, <1>2, <2>2, <2>4, <2>5, <2>6, GotoFlows
<1>5. CASE StartQuery(c)
  <2> DEFINE e == Envelope(c, 1, Command(c).kind, <<>>)
  <2>1. Command(c).kind \in {"status", "topics"}
    BY <1>5 DEF StartQuery
  <2>2. e \in Frames /\ e.kind \notin {"Publish", "Subscribe"}
    <3>1. Command(c).kind \in Kinds /\ 1 \in Nat /\ Parses(Command(c).kind, <<>>)
      BY <2>1 DEF Kinds, Parses
    <3>2. e \in Frames /\ e.kind = Command(c).kind
      BY <1>1, <3>1, EnvelopeFacts
    <3>3. QED
      BY <2>1, <3>2
  <2>3. Goto(c, "query") /\ up' = [up EXCEPT ![c] = up[c] \o <<e>>]
    BY <1>5 DEF StartQuery, Send
  <2> HIDE DEF e
  <2>4. Sent(c, "query", e)
    BY <2>2 DEF Sent
  <2>5. <<e>> \in Seq(Frames) /\ ToSet(<<e>>) = {e}
    BY <2>2, OneFacts, SmallSets
  <2>6. \A x \in ToSet(<<e>>) : Sent(c, "query", x)
    BY <2>4, <2>5
  <2>7. "query" \in Points /\ "query" \notin {"start", "acks", "reply"}
    BY DEF Points
  <2>8. QED
    BY <1>1, <1>2, <2>3, <2>5, <2>6, <2>7, GotoFlows
<1>6. CASE StartSubscribe(c)
  <2> DEFINE out == Subscribes(c)
             ids == {e.id : e \in ToSet(Subscribes(c))}
             k == [client[c] EXCEPT !.pc = "acks", !.pending = ids]
  <2>1. ValidArguments(c) /\ Subscriber(c) /\ client[c].pc = "start"
    BY <1>6 DEF StartSubscribe, Connectable, Subscriber, At
  <2>2. /\ out \in Seq(Frames)
        /\ \A i \in 1 .. Len(out) : /\ out[i].kind = "Subscribe"
                                    /\ Command(c).kind = "request" => out[i].topic = ReplyTopic(c)
    BY <2>1, SubscribesFacts
  <2>3. /\ client' = [client EXCEPT ![c].pc = "acks", ![c].pending = ids]
        /\ up' = [up EXCEPT ![c] = up[c] \o out]
    BY <1>6 DEF StartSubscribe, Send
  <2> HIDE DEF out, ids
  <2>4. client' = [client EXCEPT ![c] = k]
    BY <2>3
  <2>5. k.pc = "acks" /\ k.backlog = client[c].backlog
    <3>1. client[c] \in ClientState
      BY StateFacts
    <3>2. QED
      BY <3>1 DEF ClientState
  <2> HIDE DEF k
  <2>6. ASSUME NEW e \in ToSet(out) PROVE Sent(c, k.pc, e)
    <3>1. PICK i \in DOMAIN out : e = out[i]
      BY DEF ToSet
    <3>2. i \in 1 .. Len(out)
      BY <2>2
    <3>3. QED
      BY <2>1, <2>2, <3>1, <3>2 DEF Sent
  <2>7. /\ ToSet(k.backlog) \subseteq ToSet(client[c].backlog) \cup ToSet(down[c])
        /\ k.pc = "acks" /\ client[c].pc \in {"start", "acks"}
    BY <2>1, <2>5
  <2>8. Flows(c, out)
    BY <1>1, <1>2, <2>2, <2>3, <2>4, <2>6, <2>7, FlowFrom
  <2>9. QED
    BY <2>8
<1>7. QED
  BY <1>3, <1>4, <1>5, <1>6

\* A client that changes its state and sends nothing.
LEMMA QuietFlows ==
    ASSUME ClientsOK, NEW c \in Clients, NEW k, ~Gone(c),
           client' = [client EXCEPT ![c] = k], UNCHANGED <<scenario, nodeVars>>, up' = up,
           \/ down' = down
           \/ /\ Recv(c)
              /\ k.pc = "reply" /\ client[c].pc = "reply" =>
                    ~(Received(c).kind = "Publish" /\ Received(c).ref = RequestId(c)),
           ToSet(k.backlog) \subseteq ToSet(client[c].backlog) \cup ToSet(down[c]),
           k.pc \in {"start", "acks"} => client[c].pc \in {"start", "acks"},
           k.pc = "reply" => client[c].pc = "reply"
    PROVE  \E o : Flows(c, o)
<1>1. PICK out \in Seq(Frames) : out = <<>> /\ \A e \in ToSet(out) : FALSE
  <2>1. <<>> \in Seq(Frames) /\ \A e \in ToSet(<<>>) : FALSE
    BY SmallSets
  <2>2. QED
    BY <2>1
<1>2. \A e \in ToSet(out) : Sent(c, k.pc, e)
  BY <1>1
<1>3. Flows(c, out)
  BY <1>1, <1>2, FlowFrom
<1>4. QED
  BY <1>3

\* The next frame is one of those on their way.
LEMMA ReceivedFacts ==
    ASSUME ClientsOK, NEW c \in Clients, Recv(c)
    PROVE  /\ Received(c) \in Frames /\ Received(c) \in ToSet(down[c])
           /\ down[c] \in Seq(Frames) /\ down[c] # <<>> /\ Received(c) = Head(down[c])
           /\ down' = [down EXCEPT ![c] = Tail(down[c])] /\ down'[c] = Tail(down[c])
<1>1. /\ down \in [Clients -> Seq(Frames)] /\ down[c] \in Seq(Frames) /\ down[c] # <<>>
      /\ down' = [down EXCEPT ![c] = Tail(down[c])] /\ Received(c) = Head(down[c])
  BY DEF ClientsOK, Recv, Received
<1>2. Received(c) \in Frames /\ ToSet(down[c]) = {Received(c)} \cup ToSet(Tail(down[c]))
  BY <1>1, TailFacts
<1>3. QED
  BY <1>1, <1>2

\* subscribe_all, while it waits for its Acks.
LEMMA AwaitFlows ==
    ASSUME ClientsOK, ArgsOK, NEW c \in Clients, AwaitAcks(c)
    PROVE  \E o : Flows(c, o)
<1> DEFINE e == Received(c)
<1>1. /\ Recv(c) /\ e \in Frames /\ e \in ToSet(down[c]) /\ UNCHANGED <<scenario, nodeVars>>
      /\ client[c].pc = "acks" /\ ~Gone(c) /\ ValidArguments(c)
  BY ReceivedFacts DEF AwaitAcks, At, Gone, ArgsOK
<1>2. /\ client[c] \in ClientState /\ client \in [Clients -> ClientState]
      /\ client[c].backlog \in Seq(Messages) /\ <<>> \in Seq(Messages)
  BY StateFacts DEF ClientsOK
<1>3. \/ AllAcked(c) /\ e.kind = "Ack"
      \/ Goto(c, "failed") /\ up' = up
      \/ /\ client' = [client EXCEPT ![c].pending = @ \ {e.ref}, ![c].backlog = Buffered(c)]
         /\ up' = up
  BY DEF AwaitAcks
<1> HIDE DEF e
<1>4. CASE AllAcked(c) /\ e.kind = "Ack" /\ Command(c).kind = "request"
  <2> DEFINE k == [client[c] EXCEPT !.pc = "reply", !.pending = {}, !.backlog = <<>>]
             r == RequestPublish(c)
  <2>1. /\ up' = [up EXCEPT ![c] = up[c] \o <<r>>]
        /\ client' = [client EXCEPT ![c].pc = "reply", ![c].pending = {}, ![c].backlog = <<>>]
    BY <1>4 DEF AllAcked, Send
  <2>2. r \in Frames /\ r.kind = "Publish" /\ r.id = RequestId(c) /\ r.ref = Nothing
    BY <1>1, <1>4, RequestFacts
  <2>3. client' = [client EXCEPT ![c] = k]
    BY <2>1
  <2>4. k.pc = "reply" /\ k.backlog = <<>>
    BY <1>2 DEF ClientState
  <2> HIDE DEF k, r
  <2>5. <<r>> \in Seq(Frames) /\ ToSet(<<r>>) = {r}
    BY <2>2, OneFacts, SmallSets
  <2>6. Sent(c, k.pc, r)
    BY <2>2, <2>4 DEF Sent
  <2>7. \A x \in ToSet(<<r>>) : Sent(c, k.pc, x)
    BY <2>5, <2>6
  <2>8. /\ ToSet(k.backlog) \subseteq ToSet(client[c].backlog) \cup ToSet(down[c])
        /\ k.pc = "reply" /\ client[c].pc = "acks" /\ \E x \in ToSet(down[c]) : x.kind = "Ack"
    BY <1>1, <1>4, <2>4, SmallSets
  <2>9. Flows(c, <<r>>)
    BY <1>1, <2>1, <2>3, <2>5, <2>7, <2>8, FlowFrom
  <2>10. QED
    BY <2>9
<1>5. CASE AllAcked(c) /\ Command(c).kind # "request"
  <2> DEFINE k == [client[c] EXCEPT !.pc = "backlog", !.pending = {}]
  <2>1. up' = up /\ client' = [client EXCEPT ![c].pc = "backlog", ![c].pending = {}]
    BY <1>5 DEF AllAcked
  <2>2. client' = [client EXCEPT ![c] = k]
    BY <2>1
  <2>3. k.pc = "backlog" /\ k.backlog = client[c].backlog
    BY <1>2 DEF ClientState
  <2> HIDE DEF k
  <2>4. /\ ToSet(k.backlog) \subseteq ToSet(client[c].backlog) \cup ToSet(down[c])
        /\ k.pc \notin {"start", "acks", "reply"}
    BY <2>3
  <2>5. QED
    BY <1>1, <2>1, <2>2, <2>4, QuietFlows
<1>6. CASE Goto(c, "failed") /\ up' = up
  <2>1. /\ "failed" \in Points /\ "failed" \notin {"start", "acks", "reply"}
        /\ <<>> \in Seq(Frames) /\ \A x \in ToSet(<<>>) : Sent(c, "failed", x)
    BY SmallSets DEF Points
  <2>2. QED
    BY <1>1, <1>6, <2>1, GotoFlows
<1>7. CASE /\ client' = [client EXCEPT ![c].pending = @ \ {e.ref}, ![c].backlog = Buffered(c)]
           /\ up' = up
  <2> DEFINE b == Buffered(c)
             k == [client[c] EXCEPT !.pending = client[c].pending \ {e.ref}, !.backlog = b]
  <2>1. ToSet(b) \subseteq ToSet(client[c].backlog) \cup {e}
    <3>1. CASE e.kind = "Publish"
      <4>1. e \in Messages /\ b = Append(client[c].backlog, e)
        BY <1>1, <3>1 DEF Messages, Buffered, e
      <4>2. QED
        BY <1>2, <4>1, ToSetFacts
    <3>2. CASE e.kind # "Publish"
      BY <1>2, <3>2 DEF Buffered, e
    <3>3. QED
      BY <3>1, <3>2
  <2>2. client' = [client EXCEPT ![c] = k]
    BY <1>2, <1>7
  <2> HIDE DEF b
  <2>3. k.pc = "acks" /\ k.backlog = b
    BY <1>1, <1>2 DEF ClientState
  <2> HIDE DEF k
  <2>4. /\ ToSet(k.backlog) \subseteq ToSet(client[c].backlog) \cup ToSet(down[c])
        /\ k.pc = "acks"
    BY <1>1, <2>1, <2>3
  <2>5. QED
    BY <1>1, <1>7, <2>2, <2>4, QuietFlows
<1>8. QED
  BY <1>3, <1>4, <1>5, <1>6, <1>7

\* What is sent for a message is an Ack of it, or a reply to it.
LEMMA AnswersSent ==
    ASSUME ClientsOK, NEW c \in Clients, NEW pc, NEW e \in Messages,
           e \in ToSet(down[c]) \cup ToSet(client[c].backlog)
    PROVE  /\ Ack(c, e) \o Respond(c, e) \in Seq(Frames)
           /\ \A x \in ToSet(Ack(c, e) \o Respond(c, e)) : Sent(c, pc, x)
<1> DEFINE a == Ack(c, e)
           b == Respond(c, e)
           f == Answer("Ack", e.id)
           g == Envelope(c, 10 + e.id[2], "Publish", e.replyTo)
           h == [g EXCEPT !.ref = e.id]
<1>1. /\ e.id \in Clients \X Nat /\ e.id \in Id /\ e.replyTo \in Names /\ e.kind = "Publish"
      /\ (e.replyTo = <<>> \/ ValidTopic(e.replyTo))
  BY DEF Messages, Frames, Proper, Id
<1>2. f \in Frames /\ f.kind = "Ack"
  <2>1. "Ack" \in Kinds /\ "Ack" # "Publish"
    BY DEF Kinds
  <2> HIDE DEF a, b, g, h
  <2>2. QED
    BY <1>1, <2>1, AnswerFacts
<1>3. e.replyTo # <<>> => /\ g \in Frames /\ g.kind = "Publish" /\ g.id = <<c, 10 + e.id[2]>>
                          /\ g.topic = e.replyTo
  <2> SUFFICES ASSUME e.replyTo # <<>>
               PROVE  /\ g \in Frames /\ g.kind = "Publish" /\ g.id = <<c, 10 + e.id[2]>>
                      /\ g.topic = e.replyTo
    OBVIOUS
  <2>1. /\ 10 + e.id[2] \in Nat /\ "Publish" \in Kinds /\ e.replyTo \in Names
        /\ Parses("Publish", e.replyTo)
    BY <1>1 DEF Kinds, Parses
  <2>2. QED
    BY <2>1, EnvelopeFacts
<1>4. a = IF Command(c).ack THEN <<f>> ELSE <<>>
  BY DEF Ack
<1>5. b = IF Command(c).kind = "respond" /\ e.replyTo # <<>> THEN <<h>> ELSE <<>>
  BY DEF Respond
<1> HIDE DEF f, g, a, b
<1>6. e.replyTo # <<>> => /\ h \in Frames /\ h.kind = "Publish" /\ h.ref = e.id
                          /\ h.id = <<c, 10 + e.id[2]>>
  BY <1>1, <1>3 DEF Frames, Proper
<1> HIDE DEF h
<1>7. a \in Seq(Frames) /\ \A x \in ToSet(a) : x = f
  BY <1>2, <1>4, OneFacts, SmallSets
<1>8. b \in Seq(Frames) /\ \A x \in ToSet(b) : x = h /\ e.replyTo # <<>>
  BY <1>5, <1>6, OneFacts, SmallSets
<1>9. Sent(c, pc, f)
  BY <1>2 DEF Sent
<1>10. e.replyTo # <<>> => Sent(c, pc, h)
  <2>1. 10 + e.id[2] # 2 /\ <<c, 10 + e.id[2]>>[2] = 10 + e.id[2]
    BY <1>1
  <2>2. QED
    BY <1>1, <1>6, <2>1 DEF Sent
<1>11. a \o b \in Seq(Frames) /\ ToSet(a \o b) = ToSet(a) \cup ToSet(b)
  BY <1>7, <1>8, ConcatSet
<1>12. QED
  BY <1>7, <1>8, <1>9, <1>10, <1>11 DEF a, b

\* print_and_maybe_ack answers what was on its way or buffered.
LEMMA PrintFlows ==
    ASSUME ClientsOK, NEW c \in Clients, NEW e \in Messages, NEW b \in Seq(Messages),
           e \in ToSet(down[c]) \cup ToSet(client[c].backlog),
           ToSet(b) \subseteq ToSet(client[c].backlog), client[c].pc \in {"backlog", "live"},
           client' = [client EXCEPT ![c].backlog = b, ![c].printed = Append(@, e.id)],
           Send(c, Ack(c, e) \o Respond(c, e)), down' = down \/ Recv(c),
           UNCHANGED <<scenario, nodeVars>>
    PROVE  \E o : Flows(c, o)
<1> DEFINE q == client[c].printed
           k == [client[c] EXCEPT !.backlog = b, !.printed = Append(q, e.id)]
           out == Ack(c, e) \o Respond(c, e)
<1>1. client[c] \in ClientState /\ client \in [Clients -> ClientState]
  BY StateFacts DEF ClientsOK
<1>2. client' = [client EXCEPT ![c] = k]
  BY <1>1
<1>3. k.pc = client[c].pc /\ k.backlog = b
  BY <1>1 DEF ClientState
<1>4. up' = [up EXCEPT ![c] = up[c] \o out]
  BY DEF Send
<1> HIDE DEF k
<1>5. out \in Seq(Frames) /\ \A x \in ToSet(out) : Sent(c, k.pc, x)
  BY AnswersSent
<1> HIDE DEF out
<1>6. /\ ToSet(k.backlog) \subseteq ToSet(client[c].backlog) \cup ToSet(down[c])
      /\ k.pc \notin {"start", "acks", "reply"} /\ ~Gone(c)
  BY <1>3 DEF Gone
<1>7. Flows(c, out)
  BY <1>2, <1>4, <1>5, <1>6, FlowFrom
<1>8. QED
  BY <1>7

\* Every step of a client.
LEMMA ClientFlows ==
    ASSUME ClientsOK, ArgsOK, NEW c \in Clients, ClientStep(c) \/ StartFails(c) \/ Interrupt(c)
    PROVE  \E o : Flows(c, o)
<1>1. /\ client[c] \in ClientState /\ client \in [Clients -> ClientState]
      /\ client[c].backlog \in Seq(Messages)
  BY StateFacts DEF ClientsOK
<1>2. CASE PrintBacklog(c)
  <2> DEFINE rest == client[c].backlog
  <2>1. down' = down /\ UNCHANGED <<scenario, nodeVars>> /\ client[c].pc = "backlog" /\ ~Gone(c)
    BY <1>2 DEF PrintBacklog, At, Gone
  <2>2. CASE rest = <<>>
    <3>1. Goto(c, "live") /\ up' = up
      BY <1>2, <2>2 DEF PrintBacklog
    <3>2. /\ "live" \in Points /\ "live" \notin {"start", "acks", "reply"}
          /\ <<>> \in Seq(Frames) /\ \A x \in ToSet(<<>>) : Sent(c, "live", x)
      BY SmallSets DEF Points
    <3>3. QED
      BY <2>1, <3>1, <3>2, GotoFlows
  <2>3. CASE rest # <<>>
    <3> DEFINE e == Head(rest)
               b == Tail(rest)
    <3>1. e \in Messages /\ b \in Seq(Messages) /\ ToSet(rest) = {e} \cup ToSet(b)
      BY <1>1, <2>3, TailFacts
    <3>2. /\ client' = [client EXCEPT ![c].backlog = b, ![c].printed = Append(@, e.id)]
          /\ Send(c, Ack(c, e) \o Respond(c, e))
      BY <1>2, <2>3 DEF PrintBacklog
    <3> HIDE DEF e, b
    <3>3. e \in ToSet(client[c].backlog) /\ ToSet(b) \subseteq ToSet(client[c].backlog)
      BY <3>1
    <3>4. QED
      BY <2>1, <3>1, <3>2, <3>3, PrintFlows
  <2>4. QED
    BY <2>2, <2>3
<1>3. CASE PrintLive(c)
  <2> DEFINE e == Received(c)
  <2>1. /\ Recv(c) /\ e \in Frames /\ e \in ToSet(down[c]) /\ UNCHANGED <<scenario, nodeVars>>
        /\ client[c].pc = "live" /\ ~Gone(c)
    BY <1>3, ReceivedFacts DEF PrintLive, At, Gone
  <2>2. CASE e.kind = "Publish"
    <3>1. /\ client' = [client EXCEPT ![c].printed = Append(@, e.id)]
          /\ Send(c, Ack(c, e) \o Respond(c, e))
      BY <1>3, <2>2 DEF PrintLive
    <3> DEFINE b == client[c].backlog
    <3>2. client' = [client EXCEPT ![c].backlog = b, ![c].printed = Append(@, e.id)]
      BY <1>1, <3>1 DEF ClientState
    <3>3. e \in Messages /\ b \in Seq(Messages) /\ ToSet(b) \subseteq ToSet(client[c].backlog)
      BY <1>1, <2>1, <2>2 DEF Messages
    <3> HIDE DEF e, b
    <3>4. QED
      BY <2>1, <3>1, <3>2, <3>3, PrintFlows
  <2>3. CASE e.kind # "Publish"
    <3>1. client' = client /\ up' = up
      BY <1>3, <2>3 DEF PrintLive
    <3>2. client' = [client EXCEPT ![c] = client[c]]
      BY <1>1, <3>1
    <3>3. QED
      BY <2>1, <3>1, <3>2, QuietFlows
  <2>4. QED
    BY <2>2, <2>3
<1>4. CASE AwaitReply(c) \/ AwaitAnswer(c)
  <2> DEFINE e == Received(c)
  <2>1. /\ Recv(c) /\ e \in Frames /\ UNCHANGED <<scenario, nodeVars>> /\ up' = up
        /\ client[c].pc \in {"reply", "query"} /\ ~Gone(c)
    BY <1>4, ReceivedFacts DEF AwaitReply, AwaitAnswer, At, Gone
  <2>2. \/ /\ client' = client
           /\ client[c].pc = "reply" => ~(e.kind = "Publish" /\ e.ref = RequestId(c))
        \/ client' = [client EXCEPT ![c].pc = "done"]
        \/ client' = [client EXCEPT ![c].pc = "done", ![c].printed = Append(@, e.id)]
    BY <1>4 DEF AwaitReply, AwaitAnswer, At
  <2>3. CASE /\ client' = client
             /\ client[c].pc = "reply" => ~(e.kind = "Publish" /\ e.ref = RequestId(c))
    <3>1. client' = [client EXCEPT ![c] = client[c]]
      BY <1>1, <2>3
    <3>2. QED
      BY <2>1, <2>3, <3>1, QuietFlows
  <2>4. CASE \/ client' = [client EXCEPT ![c].pc = "done"]
             \/ client' = [client EXCEPT ![c].pc = "done", ![c].printed = Append(@, e.id)]
    <3> DEFINE k == client'[c]
    <3>1. client' = [client EXCEPT ![c] = k] /\ k.pc = "done" /\ k.backlog = client[c].backlog
      BY <1>1, <2>4 DEF ClientState
    <3> HIDE DEF k
    <3>2. /\ ToSet(k.backlog) \subseteq ToSet(client[c].backlog) \cup ToSet(down[c])
          /\ k.pc \notin {"start", "acks", "reply"}
      BY <3>1
    <3>3. QED
      BY <2>1, <3>1, <3>2, QuietFlows
  <2>5. QED
    BY <2>2, <2>3, <2>4
<1>5. QED
  BY <1>2, <1>3, <1>4, StartFlows, AwaitFlows DEF ClientStep

\* A request that was published stays so.
LEMMA FreshStays ==
    ASSUME UNCHANGED scenario,
           \A d \in Clients : client'[d].pc \in {"start", "acks"} => client[d].pc \in {"start", "acks"}
    PROVE  \A e : Fresh(e) => Fresh(e)'
<1>1. \A d \in Clients : Early(d)' => Early(d)
  BY SameArgs DEF Early
<1>2. QED
  BY <1>1 DEF Fresh, RequestId

\* What a client sends depends on no request that is still to be published.
LEMMA SentIsFresh ==
    ASSUME FreshOK, NEW c \in Clients, NEW out, Flows(c, out), NEW e \in ToSet(out)
    PROVE  Fresh(e)'
<1>1. Sent(c, client'[c].pc, e) /\ UNCHANGED scenario
      /\ \A d \in Clients : client'[d].pc \in {"start", "acks"} => client[d].pc \in {"start", "acks"}
  BY DEF Flows
<1>2. \A d \in Clients : Early(d)' => Early(d) /\ client'[d].pc # "reply"
  BY <1>1, SameArgs DEF Early
<1>3. \A d \in Clients : RequestId(d) = <<d, 2>> /\ RequestId(d) # Nothing /\ RequestId(d)[2] = 2
  BY SessionAssumption DEF RequestId
<1>4. \A d \in Clients : RequestId(d) = RequestId(c) => d = c
  BY DEF RequestId
<1>5. SUFFICES ASSUME e.kind = "Publish", NEW d \in Clients, Early(d)'
               PROVE  e.id # RequestId(d) /\ e.ref # RequestId(d)
  BY DEF Fresh, RequestId
<1>6. CASE e.ref = Nothing /\ (e.id[2] = 1 \/ (e.id = RequestId(c) /\ client'[c].pc = "reply"))
  BY <1>2, <1>3, <1>4, <1>5, <1>6
<1>7. CASE /\ e.id[2] # 2
           /\ \E m \in ToSet(down[c]) \cup ToSet(client[c].backlog) : m.kind = "Publish" /\ e.ref = m.id
  <2>1. PICK m \in ToSet(down[c]) \cup ToSet(client[c].backlog) : m.kind = "Publish" /\ e.ref = m.id
    BY <1>7
  <2>2. Fresh(m)
    BY <2>1 DEF FreshOK
  <2>3. QED
    BY <1>2, <1>3, <1>5, <1>7, <2>1, <2>2 DEF Fresh
<1>8. QED
  BY <1>1, <1>5, <1>6, <1>7 DEF Sent

\* A step of a client keeps what is on its way in order.
LEMMA FlowKeeps ==
    ASSUME FlowInv, SessionInv', NEW c \in Clients, NEW out, Flows(c, out)
    PROVE  FlowInv'
<1>1. /\ up \in [Clients -> Seq(Frames)] /\ FreshOK /\ ClientsOK
      /\ \A d \in Clients : RolesOK(d) /\ RepliesOK(d)
  BY DEF FlowInv, SessionInv, ClientsOK
<1>2. /\ UNCHANGED <<scenario, reply, spawned, forwarders, channels>>
      /\ out \in Seq(Frames) /\ up' = [up EXCEPT ![c] = up[c] \o out]
      /\ \A e \in ToSet(out) : Sent(c, client'[c].pc, e)
      /\ \A d \in Clients : d # c => client'[d] = client[d] /\ down'[d] = down[d]
      /\ ToSet(down'[c]) \subseteq ToSet(down[c])
      /\ ToSet(client'[c].backlog) \subseteq ToSet(client[c].backlog) \cup ToSet(down[c])
      /\ ~Gone(c)
      /\ \A d \in Clients : client'[d].pc \in {"start", "acks"} => client[d].pc \in {"start", "acks"}
  BY DEF Flows
<1>3. /\ \A d \in Clients : d # c => up'[d] = up[d]
      /\ ToSet(up'[c]) = ToSet(up[c]) \cup ToSet(out)
  <2>1. up[c] \in Seq(Frames) /\ up'[c] = up[c] \o out
    BY <1>1, <1>2
  <2>2. QED
    BY <1>1, <1>2, <2>1, ConcatSet
<1>4. FreshOK'
  <2>1. ASSUME NEW e \in ToSet(out) PROVE Fresh(e)'
    BY <1>1, <2>1, SentIsFresh
  <2>2. \A e : Fresh(e) => Fresh(e)'
    BY <1>2, FreshStays
  <2>3. ASSUME NEW d \in Clients,
               NEW e \in ToSet(up'[d]) \cup ToSet(down'[d]) \cup ToSet(client'[d].backlog) \cup Of(forwarders[d])
        PROVE  Fresh(e)'
    <3>1. \/ e \in ToSet(out)
          \/ e \in ToSet(up[d]) \cup ToSet(down[d]) \cup ToSet(client[d].backlog) \cup Of(forwarders[d])
      BY <1>2, <1>3
    <3>2. QED
      BY <1>1, <2>1, <2>2, <3>1 DEF FreshOK
  <2>4. ASSUME NEW e \in Of(channels) PROVE Fresh(e)'
    BY <1>1, <2>2 DEF FreshOK
  <2>5. QED
    BY <1>2, <2>3, <2>4 DEF FreshOK, Of
<1>5. ASSUME NEW d \in Clients PROVE RolesOK(d)'
  <2>1. /\ Command(d)' = Command(d) /\ Subscriber(d)' = Subscriber(d)
    BY <1>2, SameArgs
  <2>2. CASE d # c
    <3>1. /\ up'[d] = up[d] /\ client'[d] = client[d] /\ down'[d] = down[d]
          /\ reply'[d] = reply[d] /\ Subscribed(d)' = Subscribed(d)
      BY <1>2, <1>3, <2>2 DEF Subscribed
    <3>2. RolesOK(d)
      BY <1>1
    <3>3. QED
      BY <2>1, <3>1, <3>2 DEF RolesOK, Gone, At, ReplyTopic
  <2>3. CASE d = c
    <3>1. RolesOK(c)
      BY <1>1
    <3>a. reply[c].kind # "Publish"
      BY <3>1 DEF RolesOK
    <3>2. ~Subscriber(c) => /\ \A e \in ToSet(up'[c]) : e.kind # "Subscribe"
                            /\ \A e \in ToSet(down'[c]) : e.kind # "Publish"
                            /\ Subscribed(c) = {}
      BY <1>2, <1>3, <3>1 DEF RolesOK, Sent
    <3>3. ASSUME Command(c).kind = "request"
          PROVE  /\ \A e \in ToSet(up'[c]) : e.kind = "Subscribe" => e.topic = ReplyTopic(c)
                 /\ \/ client'[c].pc = "reply" \/ reply[c].kind = "Ack"
                    \/ \E e \in ToSet(down'[c]) : e.kind = "Ack"
                    => ReplyTopic(c) \in Subscribed(c)
      <4>1. \A e \in ToSet(up'[c]) : e.kind = "Subscribe" => e.topic = ReplyTopic(c)
        BY <1>2, <1>3, <3>1, <3>3 DEF RolesOK, Sent
      <4>2. client'[c].pc = "reply" => At(c, "reply") \/ \E e \in ToSet(down[c]) : e.kind = "Ack"
        BY DEF Flows, At
      <4>3. QED
        BY <1>2, <3>1, <3>3, <4>1, <4>2 DEF RolesOK
    <3>4. QED
      BY <1>2, <2>1, <2>3, <3>a, <3>2, <3>3 DEF RolesOK, Subscribed, At, ReplyTopic
  <2>4. QED
    BY <2>2, <2>3
<1>6. ASSUME NEW d \in Clients PROVE RepliesOK(d)'
  <2>1. CASE d # c
    <3>1. /\ client'[d] = client[d] /\ down'[d] = down[d]
          /\ channels' = channels /\ forwarders'[d] = forwarders[d]
          /\ spawned'[d] = spawned[d]
      BY <1>2, <2>1
    <3>2. RepliesOK(d)
      BY <1>1
    <3>3. QED
      BY <3>1, <3>2 DEF RepliesOK, At, ReplyTopic, RequestId
  <2>2. CASE d = c
    <3>1. SUFFICES ASSUME client'[c].pc = "reply", ReplyTopic(c) \in DOMAIN channels,
                          NEW e \in ToSet(channels[ReplyTopic(c)]), e.ref = RequestId(c),
                          ReplyTopic(c) \notin spawned[c]
                   PROVE  e \in ToSet(down'[c]) \cup ToSet(forwarders[c][ReplyTopic(c)])
      BY <1>2, <2>2 DEF RepliesOK, At, ReplyTopic, RequestId
    <3>2. e.kind = "Publish" /\ e \in Of(channels)
      <4>1. channels[ReplyTopic(c)] \in Seq(Messages)
        BY <3>1 DEF FlowInv, SessionInv, NodeOK, Queues
      <4>2. e \in Messages
        BY <3>1, <4>1, SmallSets
      <4>3. QED
        BY <3>1, <4>2 DEF Messages, Of
    <3>3. CASE client[c].pc = "reply"
      <4>1. e \in ToSet(down[c]) \cup ToSet(forwarders[c][ReplyTopic(c)])
        BY <1>1, <3>1, <3>3 DEF RepliesOK, At
      <4>2. QED
        BY <3>1, <3>2, <3>3, <4>1 DEF Flows
    <3>4. CASE client[c].pc # "reply"
      <4>1. client[c].pc = "acks"
        BY <3>1, <3>4 DEF Flows
      <4>2. Command(c)'.kind = "request"
        BY <3>1 DEF SessionInv, ArgsOK, At
      <4>3. Early(c)
        BY <1>2, <4>1, <4>2, SameArgs DEF Early
      <4>4. Fresh(e)
        BY <1>1, <3>2 DEF FreshOK
      <4>5. QED
        BY <3>1, <3>2, <4>3, <4>4 DEF Fresh
    <3>5. QED
      BY <3>3, <3>4
  <2>3. QED
    BY <2>1, <2>2
<1>7. QED
  BY <1>4, <1>5, <1>6 DEF FlowInv

\* What the node reads is gone from the queue, and nothing else is.
LEMMA ReadSets ==
    ASSUME ClientsOK, NEW c \in Clients, NEW kind, NodeReads(c, kind)
    PROVE  /\ Frame(c) \in Frames /\ Frame(c).kind = kind /\ Frame(c) \in ToSet(up[c])
           /\ \A d \in Clients : ToSet(up'[d]) \subseteq ToSet(up[d])
<1>1. /\ up \in [Clients -> Seq(Frames)] /\ up[c] \in Seq(Frames) /\ up[c] # <<>>
      /\ Frame(c) = Head(up[c]) /\ Frame(c).kind = kind /\ up' = [up EXCEPT ![c] = Tail(up[c])]
  BY DEF ClientsOK, NodeReads, Frame
<1>2. Frame(c) \in Frames /\ ToSet(up[c]) = {Frame(c)} \cup ToSet(Tail(up[c]))
  BY <1>1, TailFacts
<1>3. \A d \in Clients : up'[d] = IF d = c THEN Tail(up[c]) ELSE up[d]
  BY <1>1
<1>4. QED
  BY <1>1, <1>2, <1>3

\* A step of the node that hands on only what depends on no early request.
LEMMA NodeFresh ==
    ASSUME FreshOK, UNCHANGED <<scenario, client>>,
           \A d \in Clients : ToSet(up'[d]) \subseteq ToSet(up[d]),
           \A d \in Clients : \A e \in ToSet(down'[d]) \cup Of(forwarders'[d]) : Fresh(e),
           \A e \in Of(channels') : Fresh(e)
    PROVE  FreshOK'
<1>1. \A e : Fresh(e) => Fresh(e)'
  BY FreshStays
<1>2. ASSUME NEW d \in Clients,
             NEW e \in ToSet(up'[d]) \cup ToSet(down'[d]) \cup ToSet(client'[d].backlog) \cup Of(forwarders'[d])
      PROVE  Fresh(e)'
  <2>1. Fresh(e)
    <3>1. CASE e \in ToSet(up[d]) \cup ToSet(client[d].backlog)
      BY <3>1 DEF FreshOK
    <3>2. CASE e \in ToSet(down'[d]) \cup Of(forwarders'[d])
      BY <3>2
    <3>3. QED
      BY <1>2, <3>1, <3>2
  <2>2. QED
    BY <1>1, <2>1
<1>3. \A e \in Of(channels') : Fresh(e)'
  BY <1>1
<1>4. QED
  BY <1>2, <1>3 DEF FreshOK, Of

\* A step of the node that spawns no forwarder.
LEMMA NodeRoles ==
    ASSUME UNCHANGED <<scenario, client>>, NEW d \in Clients, RolesOK(d),
           ToSet(up'[d]) \subseteq ToSet(up[d]),
           \A e \in ToSet(down'[d]) : \/ e \in ToSet(down[d]) \/ e = reply[d]
                                      \/ e.kind = "Publish" /\ Subscriber(d),
           reply'[d] = reply[d] \/ reply'[d].kind \notin {"Publish", "Ack"},
           Subscribed(d)' = Subscribed(d) \/ (Gone(d) /\ Subscribed(d)' = {})
    PROVE  RolesOK(d)'
<1>1. Command(d)' = Command(d) /\ Subscriber(d)' = Subscriber(d)
  BY SameArgs
<1>2. reply[d].kind # "Publish" /\ reply'[d].kind # "Publish"
  BY DEF RolesOK
<1>3. ~Subscriber(d) => /\ \A e \in ToSet(up'[d]) : e.kind # "Subscribe"
                        /\ \A e \in ToSet(down'[d]) : e.kind # "Publish"
                        /\ Subscribed(d)' = {}
  BY <1>2 DEF RolesOK
<1>4. ASSUME Command(d).kind = "request", ~Gone(d)
      PROVE  /\ \A e \in ToSet(up'[d]) : e.kind = "Subscribe" => e.topic = ReplyTopic(d)
             /\ \/ client[d].pc = "reply" \/ reply'[d].kind = "Ack"
                \/ \E e \in ToSet(down'[d]) : e.kind = "Ack"
                => ReplyTopic(d) \in Subscribed(d)'
  <2>1. /\ \A e \in ToSet(up[d]) : e.kind = "Subscribe" => e.topic = ReplyTopic(d)
        /\ \/ client[d].pc = "reply" \/ reply[d].kind = "Ack"
           \/ \E e \in ToSet(down[d]) : e.kind = "Ack"
           => ReplyTopic(d) \in Subscribed(d)
    BY <1>4 DEF RolesOK, At
  <2>2. (\E e \in ToSet(down'[d]) : e.kind = "Ack") =>
            reply[d].kind = "Ack" \/ \E e \in ToSet(down[d]) : e.kind = "Ack"
    OBVIOUS
  <2>3. reply'[d].kind = "Ack" => reply[d].kind = "Ack"
    OBVIOUS
  <2>4. QED
    BY <1>4, <2>1, <2>2, <2>3
<1>5. QED
  BY <1>1, <1>2, <1>3, <1>4 DEF RolesOK, At, Gone, ReplyTopic

\* A step of the node that publishes nothing.
LEMMA NodeReplies ==
    ASSUME UNCHANGED <<client, channels>>, NEW d \in Clients, RepliesOK(d),
           spawned'[d] = spawned[d] \/ client[d].pc # "reply",
           client[d].pc = "reply" /\ ReplyTopic(d) \notin spawned[d] =>
              ToSet(down[d]) \cup ToSet(forwarders[d][ReplyTopic(d)])
              \subseteq ToSet(down'[d]) \cup ToSet(forwarders'[d][ReplyTopic(d)])
    PROVE  RepliesOK(d)'
<1>1. SUFFICES ASSUME client[d].pc = "reply", ReplyTopic(d) \in DOMAIN channels,
                      NEW e \in ToSet(channels[ReplyTopic(d)]), e.ref = RequestId(d),
                      ReplyTopic(d) \notin spawned[d]
               PROVE  e \in ToSet(down'[d]) \cup ToSet(forwarders'[d][ReplyTopic(d)])
  BY DEF RepliesOK, At, ReplyTopic, RequestId
<1>2. e \in ToSet(down[d]) \cup ToSet(forwarders[d][ReplyTopic(d)])
  BY <1>1 DEF RepliesOK, At
<1>3. QED
  BY <1>1, <1>2

\* What FlowInv says of the state before a step.
LEMMA FlowFacts ==
    ASSUME FlowInv
    PROVE  /\ SessionInv /\ ClientsOK /\ ArgsOK /\ NodeOK /\ FreshOK
           /\ up \in [Clients -> Seq(Frames)] /\ down \in [Clients -> Seq(Frames)]
           /\ reply \in [Clients -> Frames] /\ forwarders = [c \in Clients |-> forwarders[c]]
           /\ \A d \in Clients : RolesOK(d) /\ RepliesOK(d) /\ Fresh(reply[d])
           /\ \A d \in Clients : \A e \in ToSet(up[d]) \cup ToSet(down[d]) \cup Of(forwarders[d]) : Fresh(e)
           /\ \A e \in Of(channels) : Fresh(e)
<1>1. /\ SessionInv /\ ClientsOK /\ ArgsOK /\ NodeOK /\ FreshOK
      /\ up \in [Clients -> Seq(Frames)] /\ down \in [Clients -> Seq(Frames)]
      /\ reply \in [Clients -> Frames] /\ forwarders = [c \in Clients |-> forwarders[c]]
      /\ \A d \in Clients : RolesOK(d) /\ RepliesOK(d)
  BY DEF FlowInv, SessionInv, ClientsOK, NodeOK
<1>2. \A d \in Clients : Fresh(reply[d])
  BY <1>1 DEF RolesOK, Fresh
<1>3. /\ \A d \in Clients : \A e \in ToSet(up[d]) \cup ToSet(down[d]) \cup Of(forwarders[d]) : Fresh(e)
      /\ \A e \in Of(channels) : Fresh(e)
  BY <1>1 DEF FreshOK
<1>4. QED
  BY <1>1, <1>2, <1>3

\* A step of the node that at most answers.
LEMMA AnswerFlows ==
    ASSUME FlowInv, SessionInv', UNCHANGED <<scenario, client, channels, spawned, forwarders>>,
           \A d \in Clients : ToSet(up'[d]) \subseteq ToSet(up[d]),
           \A d \in Clients : /\ ToSet(down[d]) \subseteq ToSet(down'[d])
                              /\ ToSet(down'[d]) \subseteq ToSet(down[d]) \cup {reply[d]},
           \A d \in Clients : reply'[d] = reply[d] \/ reply'[d].kind \notin {"Publish", "Ack"}
    PROVE  FlowInv'
<1>1. /\ FreshOK /\ \A d \in Clients : RolesOK(d) /\ RepliesOK(d) /\ Fresh(reply[d])
      /\ \A d \in Clients : \A e \in ToSet(up[d]) \cup ToSet(down[d]) \cup Of(forwarders[d]) : Fresh(e)
      /\ \A e \in Of(channels) : Fresh(e)
  BY FlowFacts
<1>2. \A d \in Clients : \A e \in ToSet(down'[d]) \cup Of(forwarders'[d]) : Fresh(e)
  BY <1>1
<1>3. \A e \in Of(channels') : Fresh(e)
  BY <1>1
<1>4. FreshOK'
  BY <1>1, <1>2, <1>3, NodeFresh
<1>5. ASSUME NEW d \in Clients PROVE RolesOK(d)' /\ RepliesOK(d)'
  <2>1. RolesOK(d)'
    BY <1>1, NodeRoles DEF Subscribed
  <2>2. RepliesOK(d)'
    BY <1>1, NodeReplies
  <2>3. QED
    BY <2>1, <2>2
<1>6. QED
  BY <1>4, <1>5 DEF FlowInv

\* handle_ack, handle_status, handle_topics, and the queueing of an answer.
LEMMA ReplyFlows ==
    ASSUME FlowInv, SessionInv', NEW c \in Clients, HandleAck(c) \/ HandleQuery(c) \/ SendReply(c)
    PROVE  FlowInv'
<1>1. /\ ClientsOK /\ up \in [Clients -> Seq(Frames)] /\ down \in [Clients -> Seq(Frames)]
      /\ reply \in [Clients -> Frames]
  BY FlowFacts
<1>2. UNCHANGED <<scenario, client, channels, spawned, forwarders>>
  BY DEF HandleAck, HandleQuery, SendReply
<1>3. CASE HandleAck(c)
  <2>1. \A d \in Clients : ToSet(up'[d]) \subseteq ToSet(up[d])
    BY <1>1, <1>3, ReadSets DEF HandleAck
  <2>2. down' = down /\ reply' = reply
    BY <1>3 DEF HandleAck
  <2>3. QED
    BY <1>2, <2>1, <2>2, AnswerFlows
<1>4. CASE HandleQuery(c)
  <2>1. PICK kind \in {"status", "topics"} : NodeReads(c, kind) /\ Replies(c, Answer(kind, Frame(c).id))
    BY <1>4 DEF HandleQuery
  <2>2. Frame(c) \in Frames /\ \A d \in Clients : ToSet(up'[d]) \subseteq ToSet(up[d])
    BY <1>1, <2>1, ReadSets
  <2>3. Answer(kind, Frame(c).id).kind = kind
    <3>1. kind \in Kinds /\ kind # "Publish" /\ Frame(c).id \in Id
      BY <2>2 DEF Kinds, Frames
    <3>2. QED
      BY <3>1, AnswerFacts
  <2>4. \A d \in Clients : reply'[d] = reply[d] \/ reply'[d].kind \notin {"Publish", "Ack"}
    BY <1>1, <2>1, <2>3 DEF Replies
  <2>5. down' = down
    BY <1>4 DEF HandleQuery
  <2>6. QED
    BY <1>2, <2>2, <2>4, <2>5, AnswerFlows
<1>5. CASE SendReply(c)
  <2>1. /\ down' = [down EXCEPT ![c] = Append(down[c], reply[c])]
        /\ reply' = [reply EXCEPT ![c] = NoReply] /\ up' = up
    BY <1>5 DEF SendReply, Replies
  <2>2. down[c] \in Seq(Frames) /\ reply[c] \in Frames
    BY <1>1
  <2>3. ToSet(Append(down[c], reply[c])) = ToSet(down[c]) \cup {reply[c]}
    BY <2>2, ToSetFacts
  <2>4. \A d \in Clients : /\ ToSet(down[d]) \subseteq ToSet(down'[d])
                           /\ ToSet(down'[d]) \subseteq ToSet(down[d]) \cup {reply[d]}
    BY <1>1, <2>1, <2>3
  <2>5. \A d \in Clients : reply'[d] = reply[d] \/ reply'[d].kind \notin {"Publish", "Ack"}
    BY <1>1, <2>1, NoReplyFacts
  <2>6. QED
    BY <1>2, <2>1, <2>4, <2>5, AnswerFlows
<1>6. QED
  BY <1>3, <1>4, <1>5

\* A forwarder moves a message from its queue to the connection.
LEMMA ForwardFlows ==
    ASSUME FlowInv, SessionInv', NEW c \in Clients, NEW f \in DOMAIN forwarders[c], Forward(c, f)
    PROVE  FlowInv'
<1> DEFINE q == forwarders[c][f]
           b == [forwarders[c] EXCEPT ![f] = Tail(q)]
<1>1. /\ NodeOK /\ FreshOK /\ down \in [Clients -> Seq(Frames)]
      /\ forwarders = [d \in Clients |-> forwarders[d]]
      /\ \A d \in Clients : RolesOK(d) /\ RepliesOK(d)
      /\ \A d \in Clients : \A e \in ToSet(up[d]) \cup ToSet(down[d]) \cup Of(forwarders[d]) : Fresh(e)
      /\ \A e \in Of(channels) : Fresh(e)
  BY FlowFacts
<1>2. /\ UNCHANGED <<scenario, client, up, reply, spawned, channels>> /\ q # <<>>
      /\ down' = [down EXCEPT ![c] = Append(down[c], Head(q))]
      /\ forwarders' = [forwarders EXCEPT ![c] = b]
  BY DEF Forward
<1>3. q \in Seq(Messages) /\ forwarders[c] = [g \in DOMAIN forwarders[c] |-> forwarders[c][g]]
  BY <1>1 DEF NodeOK, Queues
<1>4. /\ Head(q) \in Messages /\ Head(q) \in Frames /\ Head(q).kind = "Publish"
      /\ ToSet(q) = {Head(q)} \cup ToSet(Tail(q))
  BY <1>2, <1>3, TailFacts DEF Messages
<1>5. /\ DOMAIN b = DOMAIN forwarders[c]
      /\ \A g \in DOMAIN b : b[g] = IF g = f THEN Tail(q) ELSE forwarders[c][g]
  BY <1>3
<1>6. /\ q = forwarders[c][f] /\ Head(q) \in Of(forwarders[c])
  BY <1>4 DEF Of
<1> HIDE DEF q, b
<1>7. \A d \in Clients : /\ forwarders'[d] = IF d = c THEN b ELSE forwarders[d]
                         /\ d # c => down'[d] = down[d]
  BY <1>1, <1>2
<1>8. ToSet(down'[c]) = ToSet(down[c]) \cup {Head(q)}
  BY <1>1, <1>2, <1>4, ToSetFacts
<1>9. Of(b) \subseteq Of(forwarders[c])
  <2>1. ASSUME NEW e \in Of(b) PROVE e \in Of(forwarders[c])
    <3>1. PICK g \in DOMAIN b : e \in ToSet(b[g])
      BY DEF Of
    <3>2. e \in ToSet(forwarders[c][g])
      BY <1>4, <1>5, <1>6, <3>1
    <3>3. QED
      BY <1>5, <3>1, <3>2 DEF Of
  <2>2. QED
    BY <2>1
<1>10. \A d \in Clients : \A e \in ToSet(down'[d]) \cup Of(forwarders'[d]) : Fresh(e)
  BY <1>1, <1>6, <1>7, <1>8, <1>9
<1>11. FreshOK'
  BY <1>1, <1>2, <1>10, NodeFresh
<1>12. Subscriber(c)
  BY <1>1 DEF RolesOK, Subscribed
<1>13. ASSUME NEW d \in Clients PROVE RolesOK(d)'
  <2>1. Subscribed(d)' = Subscribed(d)
    BY <1>2, <1>5, <1>7 DEF Subscribed
  <2>2. \A e \in ToSet(down'[d]) : \/ e \in ToSet(down[d]) \/ e = reply[d]
                                   \/ e.kind = "Publish" /\ Subscriber(d)
    BY <1>4, <1>7, <1>8, <1>12
  <2>3. QED
    BY <1>1, <1>2, <2>1, <2>2, NodeRoles
<1>14. ASSUME NEW d \in Clients PROVE RepliesOK(d)'
  <2> DEFINE t == ReplyTopic(d)
  <2>1. client[d].pc = "reply" /\ t \notin spawned[d] => t \in DOMAIN forwarders[d]
    <3>1. client[d].pc = "reply" => Command(d).kind = "request" /\ ~Gone(d)
      BY FlowFacts DEF ArgsOK, At, Gone
    <3>2. QED
      BY <1>1, <3>1 DEF RolesOK, Subscribed, At
  <2>2. client[d].pc = "reply" /\ t \notin spawned[d] =>
           ToSet(down[d]) \cup ToSet(forwarders[d][t]) \subseteq ToSet(down'[d]) \cup ToSet(forwarders'[d][t])
    <3>1. CASE d # c
      BY <1>7, <3>1
    <3>2. CASE d = c
      BY <1>4, <1>5, <1>6, <1>7, <1>8, <2>1, <3>2
    <3>3. QED
      BY <3>1, <3>2
  <2>3. QED
    BY <1>1, <1>2, <2>2, NodeReplies
<1>15. QED
  BY <1>11, <1>13, <1>14 DEF FlowInv

\* shut_down: the command is over.
LEMMA EndFlows ==
    ASSUME FlowInv, SessionInv', NEW c \in Clients, ConnectionEnds(c)
    PROVE  FlowInv'
<1>1. /\ NodeOK /\ FreshOK /\ down \in [Clients -> Seq(Frames)] /\ up \in [Clients -> Seq(Frames)]
      /\ forwarders = [d \in Clients |-> forwarders[d]] /\ reply \in [Clients -> Frames]
      /\ spawned = [d \in Clients |-> spawned[d]]
      /\ \A d \in Clients : RolesOK(d) /\ RepliesOK(d)
      /\ \A d \in Clients : \A e \in ToSet(up[d]) \cup ToSet(down[d]) \cup Of(forwarders[d]) : Fresh(e)
      /\ \A e \in Of(channels) : Fresh(e)
  BY FlowFacts DEF NodeOK
<1>2. /\ UNCHANGED <<scenario, client, channels>> /\ Gone(c)
      /\ up' = [up EXCEPT ![c] = <<>>] /\ down' = [down EXCEPT ![c] = <<>>]
      /\ reply' = [reply EXCEPT ![c] = NoReply] /\ forwarders' = [forwarders EXCEPT ![c] = <<>>]
      /\ spawned' = [spawned EXCEPT ![c] = {}]
  BY DEF ConnectionEnds, Replies
<1>3. DOMAIN <<>> = {} /\ ToSet(<<>>) = {} /\ Of(<<>>) = {}
  BY NoQueues, SmallSets DEF Of
<1>4. /\ up'[c] = <<>> /\ down'[c] = <<>> /\ forwarders'[c] = <<>> /\ reply'[c] = NoReply
      /\ spawned'[c] = {}
      /\ \A d \in Clients : d # c => /\ up'[d] = up[d] /\ down'[d] = down[d] /\ reply'[d] = reply[d]
                                     /\ forwarders'[d] = forwarders[d] /\ spawned'[d] = spawned[d]
  BY <1>1, <1>2
<1>5. \A d \in Clients : \A e \in ToSet(down'[d]) \cup Of(forwarders'[d]) : Fresh(e)
  BY <1>1, <1>3, <1>4
<1>6. \A d \in Clients : ToSet(up'[d]) \subseteq ToSet(up[d])
  BY <1>3, <1>4
<1>7. FreshOK'
  BY <1>1, <1>2, <1>5, <1>6, NodeFresh
<1>8. ASSUME NEW d \in Clients PROVE RolesOK(d)'
  <2>1. /\ \A e \in ToSet(down'[d]) : e \in ToSet(down[d])
        /\ reply'[d] = reply[d] \/ reply'[d].kind \notin {"Publish", "Ack"}
        /\ Subscribed(d)' = Subscribed(d) \/ (Gone(d) /\ Subscribed(d)' = {})
    BY <1>2, <1>3, <1>4, NoReplyFacts DEF Subscribed
  <2>2. QED
    BY <1>1, <1>2, <1>6, <2>1, NodeRoles
<1>9. ASSUME NEW d \in Clients PROVE RepliesOK(d)'
  <2>1. client[d].pc = "reply" => d # c
    BY <1>2 DEF Gone
  <2>2. QED
    BY <1>1, <1>2, <1>4, <2>1, NodeReplies
<1>10. QED
  BY <1>7, <1>8, <1>9 DEF FlowInv

\* handle_publish: every forwarder of a topic gets what its channel gets.
LEMMA PublishFlows ==
    ASSUME FlowInv, SessionInv', NEW c \in Clients, HandlePublish(c)
    PROVE  FlowInv'
<1> DEFINE m == Frame(c)
<1>1. /\ ClientsOK /\ ArgsOK /\ NodeOK /\ FreshOK /\ reply \in [Clients -> Frames]
      /\ \A d \in Clients : RolesOK(d) /\ RepliesOK(d)
      /\ \A d \in Clients : \A e \in ToSet(up[d]) \cup ToSet(down[d]) \cup Of(forwarders[d]) : Fresh(e)
      /\ \A e \in Of(channels) : Fresh(e)
  BY FlowFacts
<1>2. /\ m \in Frames /\ m.kind = "Publish" /\ m \in ToSet(up[c])
      /\ \A d \in Clients : ToSet(up'[d]) \subseteq ToSet(up[d])
  BY <1>1, ReadSets DEF HandlePublish
<1>3. UNCHANGED <<scenario, client, down, spawned>>
  BY DEF HandlePublish
<1>4. \/ Replies(c, Answer("Error", m.id)) /\ UNCHANGED <<forwarders, channels>>
      \/ Publish(m) /\ reply' = reply
  BY DEF HandlePublish
<1>5. CASE Replies(c, Answer("Error", m.id)) /\ UNCHANGED <<forwarders, channels>>
  <2>1. Answer("Error", m.id).kind = "Error"
    <3>1. m.id \in Id /\ "Error" \in Kinds /\ "Error" # "Publish"
      BY <1>2 DEF Frames, Kinds
    <3>2. QED
      BY <3>1, AnswerFacts, Zenon
  <2>2. \A d \in Clients : reply'[d] = reply[d] \/ reply'[d].kind \notin {"Publish", "Ack"}
    BY <1>1, <1>5, <2>1 DEF Replies
  <2>3. QED
    BY <1>2, <1>3, <1>5, <2>2, AnswerFlows
<1>6. CASE Publish(m) /\ reply' = reply
  <2> DEFINE After(f, q) == IF Takes(f, m.topic) THEN Append(q, m) ELSE q
  <2>1. m \in Messages /\ Fresh(m)
    BY <1>1, <1>2 DEF Messages
  <2>2. channels' = [f \in DOMAIN channels \cup {m.topic} |-> After(f, Buffer(f))]
    BY <1>6 DEF Publish
  <2>3. forwarders' = [d \in Clients |-> [f \in DOMAIN forwarders[d] |-> After(f, forwarders[d][f])]]
    BY <1>6 DEF Publish
  <2>4. \A f, q : q \in Seq(Messages) =>
            ToSet(After(f, q)) = ToSet(q) \cup IF Takes(f, m.topic) THEN {m} ELSE {}
    BY <2>1, ToSetFacts
  <2>5. /\ \A f : Buffer(f) \in Seq(Messages)
        /\ \A d \in Clients : \A f \in DOMAIN forwarders[d] : forwarders[d][f] \in Seq(Messages)
    BY <1>1 DEF NodeOK, Queues, Buffer
  <2>6. \A f : ToSet(Buffer(f)) = IF f \in DOMAIN channels THEN ToSet(channels[f]) ELSE {}
    BY SmallSets DEF Buffer
  <2> HIDE DEF After
  <2>7. ASSUME NEW e \in Of(channels') PROVE Fresh(e)
    <3>1. PICK f \in DOMAIN channels' : e \in ToSet(channels'[f])
      BY DEF Of
    <3>2. e = m \/ (f \in DOMAIN channels /\ e \in ToSet(channels[f]))
      BY <2>2, <2>4, <2>5, <2>6, <3>1
    <3>3. QED
      BY <1>1, <2>1, <3>2 DEF Of
  <2>8. ASSUME NEW d \in Clients
        PROVE  /\ DOMAIN forwarders'[d] = DOMAIN forwarders[d]
               /\ \A f \in DOMAIN forwarders[d] :
                     ToSet(forwarders'[d][f]) = ToSet(forwarders[d][f])
                                                \cup IF Takes(f, m.topic) THEN {m} ELSE {}
    BY <2>3, <2>4, <2>5
  <2>9. ASSUME NEW d \in Clients, NEW e \in Of(forwarders'[d]) PROVE Fresh(e)
    <3>1. PICK f \in DOMAIN forwarders'[d] : e \in ToSet(forwarders'[d][f])
      BY DEF Of
    <3>2. f \in DOMAIN forwarders[d] /\ (e = m \/ e \in ToSet(forwarders[d][f]))
      BY <2>8, <3>1
    <3>3. QED
      BY <1>1, <2>1, <3>2 DEF Of
  <2>10. FreshOK'
    BY <1>1, <1>2, <1>3, <2>7, <2>9, NodeFresh
  <2>11. ASSUME NEW d \in Clients PROVE RolesOK(d)'
    BY <1>1, <1>2, <1>3, <1>6, <2>8, NodeRoles DEF Subscribed
  <2>12. ASSUME NEW d \in Clients PROVE RepliesOK(d)'
    <3> DEFINE t == ReplyTopic(d)
    <3>1. SUFFICES ASSUME client[d].pc = "reply", t \in DOMAIN channels', NEW e \in ToSet(channels'[t]),
                          e.ref = RequestId(d), t \notin spawned[d]
                   PROVE  e \in ToSet(down[d]) \cup ToSet(forwarders'[d][t])
      BY <1>3 DEF RepliesOK, At, ReplyTopic, RequestId
    <3>2. t \in DOMAIN forwarders[d]
      <4>1. Command(d).kind = "request" /\ ~Gone(d)
        BY <1>1, <3>1 DEF ArgsOK, At, Gone
      <4>2. QED
        BY <1>1, <3>1, <4>1 DEF RolesOK, Subscribed, At
    <3>3. \/ t \in DOMAIN channels /\ e \in ToSet(channels[t])
          \/ e = m /\ Takes(t, m.topic)
      BY <2>2, <2>4, <2>5, <2>6, <3>1
    <3>4. CASE t \in DOMAIN channels /\ e \in ToSet(channels[t])
      <4>1. e \in ToSet(down[d]) \cup ToSet(forwarders[d][t])
        BY <1>1, <3>1, <3>4 DEF RepliesOK, At
      <4>2. QED
        BY <2>8, <3>2, <4>1
    <3>5. CASE e = m /\ Takes(t, m.topic)
      BY <2>8, <3>2, <3>5
    <3>6. QED
      BY <3>3, <3>4, <3>5
  <2>13. QED
    BY <2>10, <2>11, <2>12 DEF FlowInv
<1>7. QED
  BY <1>4, <1>5, <1>6

\* handle_subscribe: the Ack comes after the forwarder is spawned.
LEMMA SubscribeFlows ==
    ASSUME FlowInv, SessionInv', NEW c \in Clients, HandleSubscribe(c)
    PROVE  FlowInv'
<1> DEFINE m == Frame(c)
           filter == m.topic
<1>1. /\ ClientsOK /\ ArgsOK /\ NodeOK /\ FreshOK /\ reply \in [Clients -> Frames]
      /\ spawned = [d \in Clients |-> spawned[d]]
      /\ \A d \in Clients : RolesOK(d) /\ RepliesOK(d)
      /\ \A d \in Clients : \A e \in ToSet(up[d]) \cup ToSet(down[d]) \cup Of(forwarders[d]) : Fresh(e)
      /\ \A e \in Of(channels) : Fresh(e)
  BY FlowFacts DEF NodeOK
<1>2. /\ m \in Frames /\ m.kind = "Subscribe" /\ m \in ToSet(up[c])
      /\ \A d \in Clients : ToSet(up'[d]) \subseteq ToSet(up[d])
  BY <1>1, ReadSets DEF HandleSubscribe
<1>3. UNCHANGED <<scenario, client, down, forwarders, channels>>
  BY DEF HandleSubscribe
<1>4. Answer("Error", m.id).kind = "Error" /\ Answer("Ack", m.id).kind = "Ack"
  <2>1. m.id \in Id /\ "Error" \in Kinds /\ "Error" # "Publish" /\ "Ack" \in Kinds /\ "Ack" # "Publish"
    BY <1>2 DEF Frames, Kinds
  <2>2. QED
    BY <2>1, AnswerFacts, Zenon
<1>5. \/ Replies(c, Answer("Error", m.id)) /\ spawned' = spawned
      \/ /\ Replies(c, Answer("Ack", m.id))
         /\ \/ spawned' = spawned /\ (filter \in Subscribed(c) \/ JoinsGroup(c))
            \/ spawned' = [spawned EXCEPT ![c] = spawned[c] \cup {filter}]
  BY DEF HandleSubscribe, Subscribed
<1>6. CASE Replies(c, Answer("Error", m.id)) /\ spawned' = spawned
  <2>1. \A d \in Clients : reply'[d] = reply[d] \/ reply'[d].kind \notin {"Publish", "Ack"}
    BY <1>1, <1>4, <1>6 DEF Replies
  <2>2. QED
    BY <1>2, <1>3, <1>6, <2>1, AnswerFlows
<1>7. CASE /\ Replies(c, Answer("Ack", m.id))
           /\ \/ spawned' = spawned /\ (filter \in Subscribed(c) \/ JoinsGroup(c))
              \/ spawned' = [spawned EXCEPT ![c] = spawned[c] \cup {filter}]
  <2>1. /\ \A d \in Clients : d # c => spawned'[d] = spawned[d] /\ reply'[d] = reply[d]
        /\ spawned[c] \subseteq spawned'[c]
        /\ filter \in DOMAIN forwarders[c] \cup spawned'[c] \/ JoinsGroup(c)
        /\ reply'[c].kind = "Ack"
    BY <1>1, <1>4, <1>7 DEF Replies, Subscribed
  <2>2. FreshOK'
    BY <1>1, <1>2, <1>3, NodeFresh
  <2>3. ASSUME NEW d \in Clients, d # c PROVE RolesOK(d)'
    <3>1. Subscribed(d)' = Subscribed(d)
      BY <1>3, <2>1, <2>3 DEF Subscribed
    <3>2. QED
      BY <1>1, <1>2, <1>3, <2>1, <2>3, <3>1, NodeRoles
  <2>4. RolesOK(c)'
    <3>1. /\ Command(c)' = Command(c) /\ Subscriber(c)' = Subscriber(c)
      BY <1>3, SameArgs
    <3>2. RolesOK(c)
      BY <1>1
    <3>3. Subscriber(c)
      BY <1>2, <3>2 DEF RolesOK
    <3>4. Command(c).kind = "request" /\ ~Gone(c) =>
             /\ filter = ReplyTopic(c) /\ ~JoinsGroup(c)
             /\ \A e \in ToSet(up'[c]) : e.kind = "Subscribe" => e.topic = ReplyTopic(c)
      BY <1>2, <3>2 DEF RolesOK, JoinsGroup
    <3>5. filter \in Subscribed(c)' \/ JoinsGroup(c)
      BY <1>3, <2>1 DEF Subscribed
    <3> HIDE DEF filter
    <3>6. reply'[c].kind # "Publish"
      BY <2>1
    <3>7. QED
      BY <1>3, <3>1, <3>3, <3>4, <3>5, <3>6 DEF RolesOK, Gone, ReplyTopic
  <2>5. ASSUME NEW d \in Clients PROVE RepliesOK(d)'
    <3>1. RepliesOK(d) /\ spawned[d] \subseteq spawned'[d]
      BY <1>1, <2>1
    <3>2. QED
      BY <1>3, <3>1 DEF RepliesOK, At, ReplyTopic, RequestId
  <2>6. QED
    BY <2>2, <2>3, <2>4, <2>5 DEF FlowInv
<1>8. QED
  BY <1>5, <1>6, <1>7

\* A forwarder that starts has what its channel holds.
LEMMA ForwarderFlows ==
    ASSUME FlowInv, SessionInv', NEW c \in Clients, NEW filter \in spawned[c],
           StartForwarder(c, filter)
    PROVE  FlowInv'
<1> DEFINE buffer == Buffer(filter)
           b == [f \in DOMAIN forwarders[c] \cup {filter} |->
                   IF f = filter THEN buffer ELSE forwarders[c][f]]
           ch == [f \in DOMAIN channels \cup {filter} |-> Buffer(f)]
<1>1. /\ ClientsOK /\ ArgsOK /\ NodeOK /\ FreshOK /\ SpawnOK(c)
      /\ forwarders = [d \in Clients |-> forwarders[d]]
      /\ spawned = [d \in Clients |-> spawned[d]]
      /\ \A d \in Clients : RolesOK(d) /\ RepliesOK(d)
      /\ \A d \in Clients : \A e \in ToSet(up[d]) \cup ToSet(down[d]) \cup Of(forwarders[d]) : Fresh(e)
      /\ \A e \in Of(channels) : Fresh(e)
  BY FlowFacts DEF NodeOK
<1>2. /\ UNCHANGED <<scenario, client, up, down, reply>>
      /\ channels' = ch /\ forwarders' = [forwarders EXCEPT ![c] = b]
      /\ spawned' = [spawned EXCEPT ![c] = spawned[c] \ {filter}]
  BY DEF StartForwarder
<1>3. \A f : ToSet(Buffer(f)) = IF f \in DOMAIN channels THEN ToSet(channels[f]) ELSE {}
  BY SmallSets DEF Buffer
<1>4. /\ DOMAIN b = DOMAIN forwarders[c] \cup {filter} /\ DOMAIN ch = DOMAIN channels \cup {filter}
      /\ \A f \in DOMAIN b : b[f] = IF f = filter THEN buffer ELSE forwarders[c][f]
      /\ \A f \in DOMAIN ch : ch[f] = Buffer(f)
  OBVIOUS
<1>5. buffer = Buffer(filter)
  OBVIOUS
<1> HIDE DEF buffer, b, ch
<1>6. \A f \in DOMAIN ch : \A e \in ToSet(ch[f]) : f \in DOMAIN channels /\ e \in ToSet(channels[f])
  BY <1>3, <1>4
<1>7. /\ \A d \in Clients : d # c => forwarders'[d] = forwarders[d] /\ spawned'[d] = spawned[d]
      /\ forwarders'[c] = b /\ spawned'[c] = spawned[c] \ {filter}
      /\ filter \notin DOMAIN forwarders[c]
  BY <1>1, <1>2 DEF SpawnOK
<1>8. ASSUME NEW e \in Of(channels') PROVE Fresh(e)
  <2>1. PICK f \in DOMAIN ch : e \in ToSet(ch[f])
    BY <1>2 DEF Of
  <2>2. QED
    BY <1>1, <1>6, <2>1 DEF Of
<1>9. ASSUME NEW e \in Of(b) PROVE Fresh(e)
  <2>1. PICK f \in DOMAIN b : e \in ToSet(b[f])
    BY DEF Of
  <2>2. \/ f \in DOMAIN forwarders[c] /\ e \in ToSet(forwarders[c][f])
        \/ filter \in DOMAIN channels /\ e \in ToSet(channels[filter])
    BY <1>3, <1>4, <1>5, <2>1
  <2>3. QED
    BY <1>1, <2>2 DEF Of
<1>10. \A d \in Clients : \A e \in ToSet(down'[d]) \cup Of(forwarders'[d]) : Fresh(e)
  BY <1>1, <1>2, <1>7, <1>9
<1>11. FreshOK'
  BY <1>1, <1>2, <1>8, <1>10, NodeFresh
<1>12. ASSUME NEW d \in Clients PROVE RolesOK(d)'
  <2>1. Subscribed(d)' = Subscribed(d)
    BY <1>4, <1>7 DEF Subscribed
  <2>2. QED
    BY <1>1, <1>2, <2>1, NodeRoles
<1>13. ASSUME NEW d \in Clients PROVE RepliesOK(d)'
  <2> DEFINE t == ReplyTopic(d)
  <2>1. SUFFICES ASSUME client[d].pc = "reply", t \in DOMAIN ch, NEW e \in ToSet(ch[t]),
                        e.ref = RequestId(d), t \notin spawned'[d]
                 PROVE  e \in ToSet(down[d]) \cup ToSet(forwarders'[d][t])
    BY <1>2 DEF RepliesOK, At, ReplyTopic, RequestId
  <2>2. CASE d = c /\ t = filter
    BY <1>4, <1>5, <1>7, <2>1, <2>2
  <2>3. CASE ~(d = c /\ t = filter)
    <3>1. t \notin spawned[d]
      BY <1>7, <2>1, <2>3
    <3>2. t \in DOMAIN forwarders[d]
      <4>1. Command(d).kind = "request" /\ ~Gone(d)
        BY <1>1, <2>1 DEF ArgsOK, At, Gone
      <4>2. QED
        BY <1>1, <2>1, <3>1, <4>1 DEF RolesOK, Subscribed, At
    <3>3. e \in ToSet(down[d]) \cup ToSet(forwarders[d][t])
      <4>1. t \in DOMAIN channels /\ e \in ToSet(channels[t])
        BY <1>6, <2>1
      <4>2. QED
        BY <1>1, <2>1, <3>1, <4>1 DEF RepliesOK, At
    <3>4. forwarders'[d][t] = forwarders[d][t]
      BY <1>4, <1>7, <2>3, <3>2
    <3>5. QED
      BY <3>3, <3>4
  <2>4. QED
    BY <2>2, <2>3
<1>14. QED
  BY <1>11, <1>12, <1>13 DEF FlowInv

\* Nothing is on its way at first.
LEMMA FlowInit == SessionInit => FlowInv
<1> SUFFICES ASSUME SessionInit PROVE FlowInv
  OBVIOUS
<1>1. SessionInv
  BY SessionInitInv
<1>2. ToSet(<<>>) = {} /\ DOMAIN <<>> = {} /\ Of(<<>>) = {}
  BY SmallSets, NoQueues DEF Of
<1>3. channels = <<>> /\ \A c \in Clients : /\ client[c].pc = "start" /\ client[c].backlog = <<>>
                                            /\ up[c] = <<>> /\ down[c] = <<>> /\ forwarders[c] = <<>>
                                            /\ reply[c] = NoReply /\ spawned[c] = {}
  BY DEF SessionInit, NewClient
<1>4. FreshOK
  BY <1>2, <1>3 DEF FreshOK
<1>5. ASSUME NEW c \in Clients PROVE RolesOK(c) /\ RepliesOK(c)
  BY <1>2, <1>3, NoReplyFacts DEF RolesOK, RepliesOK, Subscribed, At
<1>6. QED
  BY <1>1, <1>4, <1>5 DEF FlowInv

\* Every step keeps what is on its way in order.
LEMMA FlowStep == FlowInv /\ [SessionNext]_sessionVars => FlowInv'
<1> SUFFICES ASSUME FlowInv, [SessionNext]_sessionVars PROVE FlowInv'
  OBVIOUS
<1>1. SessionInv /\ SessionInv' /\ ClientsOK /\ ArgsOK
  BY FlowFacts, SessionStep
<1>2. ASSUME NEW c \in Clients, ClientStep(c) \/ StartFails(c) \/ Interrupt(c) PROVE FlowInv'
  <2>1. PICK o : Flows(c, o)
    BY <1>1, <1>2, ClientFlows
  <2>2. QED
    BY <1>1, <2>1, FlowKeeps
<1>3. ASSUME NEW c \in Clients, NodeStep(c) PROVE FlowInv'
  BY <1>1, <1>3, SubscribeFlows, ForwarderFlows, PublishFlows, ReplyFlows, ForwardFlows, EndFlows DEF NodeStep
<1>4. CASE Time \/ UNCHANGED sessionVars
  <2>1. UNCHANGED <<scenario, client, up, down, reply, spawned, forwarders, channels>>
    BY <1>4 DEF Time, sessionVars
  <2>2. QED
    BY <1>1, <2>1, AnswerFlows
<1>5. QED
  BY <1>2, <1>3, <1>4 DEF SessionNext

(***************************************************************************)
(* No reply is missed, however fast the responder is: whatever the node    *)
(* accepted on the reply topic of a request that still waits is on its way *)
(* to it, or in the buffer the forwarder of the topic starts with, because *)
(* the request is published only after the Ack of its Subscribe and the    *)
(* forwarder is spawned before the Ack (request, subscribe_all,            *)
(* handle_subscribe, spawn_forwarder, Broker::publish).                    *)
(***************************************************************************)
THEOREM RepliesArrive == SessionSpec => []NoReplyMissed
<1>1. FlowInv => NoReplyMissed
  <2> SUFFICES ASSUME FlowInv, NEW c \in Clients, At(c, "reply"), ReplyTopic(c) \in DOMAIN channels,
                      NEW e \in ToSet(channels[ReplyTopic(c)]), e.ref = RequestId(c),
                      ReplyTopic(c) \notin spawned[c]
               PROVE  \/ e \in ToSet(down[c])
                      \/ \E f \in DOMAIN forwarders[c] : e \in ToSet(forwarders[c][f])
    BY DEF NoReplyMissed
  <2>1. e \in ToSet(down[c]) \cup ToSet(forwarders[c][ReplyTopic(c)])
    BY FlowFacts DEF RepliesOK
  <2>2. ReplyTopic(c) \in DOMAIN forwarders[c]
    <3>1. Command(c).kind = "request" /\ ~Gone(c)
      BY FlowFacts DEF ArgsOK, At, Gone
    <3>2. QED
      BY <3>1, FlowFacts DEF RolesOK, Subscribed
  <2>3. QED
    BY <2>1, <2>2
<1>2. QED
  BY <1>1, FlowInit, FlowStep, PTL DEF SessionSpec

-----------------------------------------------------------------------------
(* Counting deliveries.                                                     *)

\* The image of a finite set, and its size if nothing coincides.
LEMMA ImageFacts ==
    ASSUME NEW A, IsFiniteSet(A), NEW g, g = [x \in A |-> g[x]]
    PROVE  /\ IsFiniteSet({g[x] : x \in A})
           /\ (\A x, y \in A : g[x] = g[y] => x = y) => Cardinality({g[x] : x \in A}) = Cardinality(A)
<1> DEFINE T == {g[x] : x \in A}
<1>1. g \in [A -> T] /\ DOMAIN g = A
  OBVIOUS
<1>2. g \in Surjection(A, T)
  BY <1>1 DEF Surjection
<1>3. (\A x, y \in A : g[x] = g[y] => x = y) => g \in Injection(A, T)
  BY <1>1 DEF Injection, IsInjective
<1> HIDE DEF T
<1>4. IsFiniteSet(T) /\ (Cardinality(T) = Cardinality(A) <=> g \in Injection(A, T))
  BY <1>2, FS_Surjection
<1>5. QED
  BY <1>3, <1>4 DEF T

\* Where a sequence has an element of T.
Where(q, T) == {i \in DOMAIN q : q[i] \in T}
Many(q, T) == Cardinality(Where(q, T))

LEMMA WhereFacts ==
    ASSUME NEW S, NEW q \in Seq(S), NEW T
    PROVE  IsFiniteSet(Where(q, T)) /\ Many(q, T) \in Nat /\ Where(q, T) \subseteq 1 .. Len(q)
<1>1. Len(q) \in Nat /\ DOMAIN q = 1 .. Len(q)
  OBVIOUS
<1>2. Where(q, T) \in SUBSET (1 .. Len(q)) /\ IsFiniteSet(1 .. Len(q))
  BY <1>1, FS_Interval DEF Where
<1>3. IsFiniteSet(Where(q, T))
  BY <1>2, FS_Subset
<1>4. QED
  BY <1>2, <1>3, FS_CardinalityType DEF Many

\* The disjoint parts of a finite set add up.
LEMMA Parts ==
    ASSUME NEW A, NEW B, IsFiniteSet(A), IsFiniteSet(B), A \cap B = {}
    PROVE  /\ IsFiniteSet(A \cup B) /\ Cardinality(A \cup B) = Cardinality(A) + Cardinality(B)
           /\ Cardinality(A) \in Nat /\ Cardinality(B) \in Nat
<1>1. Cardinality(A) \in Nat /\ Cardinality(B) \in Nat /\ Cardinality({}) = 0
  BY FS_CardinalityType, FS_EmptySet
<1>2. IsFiniteSet(A \cup B) /\ Cardinality(A \cup B) = Cardinality(A) + Cardinality(B) - Cardinality(A \cap B)
  BY FS_Union
<1>3. Cardinality(A \cap B) = 0
  BY <1>1
<1> DEFINE a == Cardinality(A)
           b == Cardinality(B)
           u == Cardinality(A \cup B)
<1>4. a \in Nat /\ b \in Nat /\ u = a + b - Cardinality(A \cap B)
  BY <1>1, <1>2
<1> HIDE DEF a, b, u
<1>5. u = a + b
  BY <1>3, <1>4
<1>6. QED
  BY <1>2, <1>4, <1>5 DEF a, b, u

LEMMA ManyConcat ==
    ASSUME NEW S, NEW p \in Seq(S), NEW q \in Seq(S), NEW T
    PROVE  Many(p \o q, T) = Many(p, T) + Many(q, T)
<1> DEFINE m == Len(p)
           n == Len(q)
           r == p \o q
           A == Where(p, T)
           B == Where(q, T)
           g == [i \in B |-> m + i]
           C == {g[i] : i \in B}
<1>1. /\ m \in Nat /\ n \in Nat /\ DOMAIN p = 1 .. m /\ DOMAIN q = 1 .. n
      /\ DOMAIN r = 1 .. m + n
      /\ \A i \in 1 .. m : r[i] = p[i]
      /\ \A i \in 1 .. n : r[m + i] = q[i]
  OBVIOUS
<1>2. /\ IsFiniteSet(A) /\ IsFiniteSet(B) /\ A \subseteq 1 .. m /\ B \subseteq 1 .. n
  BY WhereFacts
<1>3. /\ A = {i \in 1 .. m : p[i] \in T} /\ B = {i \in 1 .. n : q[i] \in T}
      /\ Where(r, T) = {i \in 1 .. m + n : r[i] \in T}
  BY <1>1 DEF Where
<1> HIDE DEF m, n, r, A, B
<1>4. \A i \in B : i \in 1 .. n /\ i \in Nat /\ g[i] = m + i
  BY <1>1, <1>2
<1>5. IsFiniteSet(C) /\ Cardinality(C) = Cardinality(B)
  <2>1. g = [i \in B |-> g[i]]
    OBVIOUS
  <2>2. \A i, j \in B : g[i] = g[j] => i = j
    BY <1>1, <1>4
  <2> HIDE DEF g
  <2>3. QED
    BY <1>2, <2>1, <2>2, ImageFacts
<1>6. /\ \A i \in 1 .. m + n : i \in 1 .. m \/ (i - m \in 1 .. n /\ m + (i - m) = i)
      /\ \A i \in 1 .. m : i \in 1 .. m + n
      /\ \A i \in 1 .. n : m + i \in 1 .. m + n /\ m + i \notin 1 .. m
  BY <1>1
<1>7. ASSUME NEW i \in Where(r, T) PROVE i \in A \cup C
  <2>1. i \in 1 .. m + n /\ r[i] \in T
    BY <1>3
  <2>2. CASE i \in 1 .. m
    BY <1>1, <1>3, <2>1, <2>2
  <2>3. CASE i - m \in 1 .. n /\ m + (i - m) = i
    <3>1. q[i - m] = r[i]
      BY <1>1, <2>3
    <3>2. i - m \in B
      BY <1>3, <2>1, <2>3, <3>1
    <3>3. g[i - m] = i
      BY <2>3, <3>2
    <3> HIDE DEF g
    <3>4. QED
      BY <3>2, <3>3
  <2>4. QED
    BY <1>6, <2>1, <2>2, <2>3
<1>8. ASSUME NEW i \in A PROVE i \in Where(r, T)
  BY <1>1, <1>3, <1>6
<1>9. ASSUME NEW i \in B PROVE g[i] \in Where(r, T) /\ g[i] \notin 1 .. m
  BY <1>1, <1>3, <1>4, <1>6
<1> HIDE DEF g
<1>10. Where(r, T) = A \cup C /\ A \cap C = {}
  BY <1>2, <1>7, <1>8, <1>9
<1>11. Cardinality(Where(r, T)) = Cardinality(A) + Cardinality(B)
  BY <1>2, <1>5, <1>10, Parts
<1>12. QED
  BY <1>11 DEF Many, A, B, r

LEMMA ManyOne ==
    ASSUME NEW x, NEW T
    PROVE  Many(<<x>>, T) = IF x \in T THEN 1 ELSE 0
<1>1. DOMAIN <<x>> = {1} /\ <<x>>[1] = x
  OBVIOUS
<1>2. Where(<<x>>, T) = IF x \in T THEN {1} ELSE {}
  BY <1>1 DEF Where
<1>3. Cardinality({1}) = 1 /\ Cardinality({}) = 0
  BY FS_Singleton, FS_EmptySet
<1>4. QED
  BY <1>2, <1>3 DEF Many

\* One more, and one less.
LEMMA ManyEnds ==
    ASSUME NEW S, NEW q \in Seq(S), NEW T
    PROVE  /\ \A x \in S : Many(Append(q, x), T) = Many(q, T) + (IF x \in T THEN 1 ELSE 0)
           /\ q # <<>> => Many(q, T) = Many(Tail(q), T) + (IF Head(q) \in T THEN 1 ELSE 0)
           /\ Many(q, T) \in Nat /\ Many(<<>>, T) = 0
<1>1. ASSUME NEW x \in S PROVE Many(Append(q, x), T) = Many(q, T) + (IF x \in T THEN 1 ELSE 0)
  <2>1. <<x>> \in Seq(S) /\ Append(q, x) = q \o <<x>>
    OBVIOUS
  <2>2. Many(q \o <<x>>, T) = Many(q, T) + Many(<<x>>, T)
    BY <2>1, ManyConcat
  <2>3. QED
    BY <2>1, <2>2, ManyOne
<1>2. ASSUME q # <<>> PROVE Many(q, T) = Many(Tail(q), T) + (IF Head(q) \in T THEN 1 ELSE 0)
  <2> DEFINE h == Head(q)
             r == Tail(q)
  <2>1. <<h>> \in Seq(S) /\ r \in Seq(S) /\ q = <<h>> \o r
    BY <1>2
  <2> HIDE DEF h, r
  <2>2. Many(<<h>> \o r, T) = Many(<<h>>, T) + Many(r, T)
    BY <2>1, ManyConcat
  <2>3. Many(r, T) \in Nat
    BY <2>1, WhereFacts
  <2>4. Many(<<h>>, T) = IF h \in T THEN 1 ELSE 0
    BY ManyOne
  <2>5. Many(q, T) = Many(r, T) + (IF h \in T THEN 1 ELSE 0)
    BY <2>1, <2>2, <2>3, <2>4
  <2>6. QED
    BY <2>5 DEF h, r
<1>3. Many(<<>>, T) = 0
  <2>1. Where(<<>>, T) = {}
    BY DEF Where
  <2>2. QED
    BY <2>1, FS_EmptySet DEF Many
<1>4. QED
  BY <1>1, <1>2, <1>3, WhereFacts

LEMMA WhereAppend ==
    ASSUME NEW S, NEW q \in Seq(S), NEW x \in S, NEW T
    PROVE  /\ Where(Append(q, x), T) = Where(q, T) \cup (IF x \in T THEN {Len(q) + 1} ELSE {})
           /\ Len(q) + 1 \notin Where(q, T)
<1> DEFINE n == Len(q)
           r == Append(q, x)
<1>1. /\ n \in Nat /\ DOMAIN q = 1 .. n /\ DOMAIN r = 1 .. n + 1
      /\ r[n + 1] = x /\ \A i \in 1 .. n : r[i] = q[i]
  OBVIOUS
<1>2. n = Len(q)
  OBVIOUS
<1> HIDE DEF n, r
<1>3. /\ \A i \in 1 .. n + 1 : i \in 1 .. n \/ i = n + 1
      /\ \A i \in 1 .. n : i \in 1 .. n + 1
      /\ n + 1 \in 1 .. n + 1 /\ n + 1 \notin 1 .. n
  BY <1>1
<1>4. Where(r, T) = {i \in 1 .. n + 1 : r[i] \in T} /\ Where(q, T) = {i \in 1 .. n : q[i] \in T}
  BY <1>1 DEF Where
<1>5. Where(r, T) = Where(q, T) \cup (IF x \in T THEN {n + 1} ELSE {})
  BY <1>1, <1>3, <1>4
<1>6. n + 1 \notin Where(q, T)
  BY <1>3, <1>4
<1>7. QED
  BY <1>2, <1>5, <1>6 DEF r

\* The deliveries of a message.
Delivery(id) == {e \in Frames : e.kind = "Publish" /\ e.id = id}

\* Every count of NothingLost is one of those above.
LEMMA CopiesFacts ==
    ASSUME NEW q \in Seq(Frames), NEW id
    PROVE  Copies(q, id) = Many(q, Delivery(id)) /\ Copies(q, id) \in Nat
<1>1. \A i \in DOMAIN q : q[i] \in Frames
  OBVIOUS
<1>2. {i \in DOMAIN q : q[i].kind = "Publish" /\ q[i].id = id} = Where(q, Delivery(id))
  BY <1>1 DEF Where, Delivery
<1>3. QED
  BY <1>2, WhereFacts DEF Copies, Many

LEMMA MessagesFacts ==
    ASSUME NEW q \in Seq(Messages), NEW id
    PROVE  /\ q \in Seq(Frames) /\ {i \in DOMAIN q : q[i].id = id} = Where(q, Delivery(id))
<1>1. \A i \in DOMAIN q : q[i] \in Messages
  OBVIOUS
<1>2. \A e \in Messages : e \in Frames /\ e.kind = "Publish"
  BY DEF Messages
<1>3. {i \in DOMAIN q : q[i].id = id} = Where(q, Delivery(id))
  BY <1>1, <1>2 DEF Where, Delivery
<1>4. q \in Seq(Frames)
  <2>1. Messages \subseteq Frames
    BY <1>2
  <2> HIDE DEF Messages, Frames
  <2>2. QED
    BY <2>1
<1>5. QED
  BY <1>3, <1>4

LEMMA CountFacts ==
    ASSUME NEW q \in Seq(Id), NEW x
    PROVE  Count(q, x) = Many(q, {x}) /\ Count(q, x) \in Nat
<1>1. {i \in DOMAIN q : q[i] = x} = Where(q, {x})
  BY DEF Where
<1>2. QED
  BY <1>1, WhereFacts DEF Count, Many

\* The ids of the messages of a buffer.
LEMMA IdsFacts ==
    ASSUME NEW q \in Seq(Messages), NEW id
    PROVE  /\ [i \in DOMAIN q |-> q[i].id] \in Seq(Id)
           /\ Many([i \in DOMAIN q |-> q[i].id], {id}) = Many(q, Delivery(id))
<1> DEFINE s == [i \in DOMAIN q |-> q[i].id]
<1>1. Len(q) \in Nat /\ DOMAIN q = 1 .. Len(q) /\ \A i \in 1 .. Len(q) : q[i] \in Messages
  OBVIOUS
<1>2. \A i \in 1 .. Len(q) : q[i].id \in Id
  BY <1>1 DEF Messages, Frames
<1>3. s \in [1 .. Len(q) -> Id] /\ DOMAIN s = DOMAIN q
  BY <1>1, <1>2
<1>4. s \in Seq(Id)
  BY <1>1, <1>3
<1>5. Where(s, {id}) = {i \in DOMAIN q : q[i].id = id}
  BY <1>3 DEF Where
<1> HIDE DEF s
<1>6. Where(s, {id}) = Where(q, Delivery(id))
  BY <1>5, MessagesFacts
<1>7. QED
  BY <1>4, <1>6 DEF Many, s

\* How many numbers there are up to n.
LEMMA UpTo ==
    ASSUME NEW n \in Nat
    PROVE  Cardinality(1 .. n) = n /\ Cardinality({}) = 0
<1>1. Cardinality(1 .. n) = IF 1 > n THEN 0 ELSE n - 1 + 1
  BY FS_Interval
<1>2. QED
  BY <1>1, FS_EmptySet

\* The places where a message waits in the queues of the filters F.
Slots(b, F, id) == UNION {{f} \X Where(b[f], Delivery(id)) : f \in F}

LEMMA SlotsFacts ==
    ASSUME NEW b, Queues(b), NEW F \in SUBSET DOMAIN b, NEW id
    PROVE  /\ IsFiniteSet(Slots(b, F, id)) /\ IsFiniteSet(F)
           /\ \A s : s \in Slots(b, F, id) <=> \E f \in F : \E i \in Where(b[f], Delivery(id)) : s = <<f, i>>
<1>1. IsFiniteSet(DOMAIN b) /\ \A f \in DOMAIN b : b[f] \in Seq(Messages)
  BY DEF Queues
<1>2. IsFiniteSet(F)
  BY <1>1, FS_Subset
<1>3. ASSUME NEW f \in F PROVE IsFiniteSet({f} \X Where(b[f], Delivery(id)))
  <2>1. b[f] \in Seq(Messages)
    BY <1>1
  <2>2. IsFiniteSet(Where(b[f], Delivery(id))) /\ IsFiniteSet({f})
    BY <2>1, WhereFacts, FS_Singleton
  <2>3. QED
    BY <2>2, FS_Product
<1> DEFINE g == [f \in F |-> {f} \X Where(b[f], Delivery(id))]
           R == {g[f] : f \in F}
<1>4. Slots(b, F, id) = UNION R
  BY DEF Slots
<1>5. g = [f \in F |-> g[f]] /\ \A f \in F : IsFiniteSet(g[f])
  BY <1>3
<1> HIDE DEF g
<1>6. IsFiniteSet(R)
  BY <1>2, <1>5, ImageFacts
<1>7. IsFiniteSet(UNION R)
  <2>1. \A A \in R : IsFiniteSet(A)
    BY <1>5
  <2> HIDE DEF R
  <2>2. QED
    BY <1>6, <2>1, FS_UNION
<1>8. \A s : s \in Slots(b, F, id) <=> \E f \in F : \E i \in Where(b[f], Delivery(id)) : s = <<f, i>>
  BY DEF Slots
<1>9. QED
  BY <1>2, <1>4, <1>7, <1>8

LEMMA WaitingIsSlots ==
    ASSUME NEW b, Queues(b), NEW id
    PROVE  Waiting(b, id) = Cardinality(Slots(b, DOMAIN b, id)) /\ Waiting(b, id) \in Nat
<1>1. ASSUME NEW f \in DOMAIN b PROVE {i \in DOMAIN b[f] : b[f][i].id = id} = Where(b[f], Delivery(id))
  <2>1. b[f] \in Seq(Messages)
    BY DEF Queues
  <2>2. QED
    BY <2>1, MessagesFacts
<1>2. {{f} \X {i \in DOMAIN b[f] : b[f][i].id = id} : f \in DOMAIN b}
      = {{f} \X Where(b[f], Delivery(id)) : f \in DOMAIN b}
  BY <1>1
<1>3. Waiting(b, id) = Cardinality(Slots(b, DOMAIN b, id))
  BY <1>2 DEF Waiting, Slots
<1>4. IsFiniteSet(Slots(b, DOMAIN b, id))
  BY SlotsFacts
<1>5. QED
  BY <1>3, <1>4, FS_CardinalityType

\* What waits for one filter, and for the others.
LEMMA WaitingSplit ==
    ASSUME NEW b, Queues(b), NEW f \in DOMAIN b, NEW id
    PROVE  /\ Waiting(b, id) = Cardinality(Slots(b, DOMAIN b \ {f}, id)) + Many(b[f], Delivery(id))
           /\ Cardinality(Slots(b, DOMAIN b \ {f}, id)) \in Nat /\ Many(b[f], Delivery(id)) \in Nat
<1> DEFINE W == Where(b[f], Delivery(id))
           A == Slots(b, DOMAIN b \ {f}, id)
           B == {f} \X W
<1>1. b[f] \in Seq(Messages)
  BY DEF Queues
<1>2. IsFiniteSet(W) /\ Cardinality(W) \in Nat /\ Many(b[f], Delivery(id)) = Cardinality(W)
  BY <1>1, WhereFacts DEF Many
<1>3. IsFiniteSet(B) /\ Cardinality(B) = Cardinality(W)
  <2>1. IsFiniteSet({f}) /\ Cardinality({f}) = 1
    BY FS_Singleton
  <2> HIDE DEF W
  <2>2. IsFiniteSet(B) /\ Cardinality(B) = Cardinality({f}) * Cardinality(W)
    BY <1>2, <2>1, FS_Product
  <2> HIDE DEF B
  <2>3. QED
    BY <1>2, <2>1, <2>2
<1>4. /\ IsFiniteSet(A)
      /\ \A s : s \in A <=> \E g \in DOMAIN b \ {f} : \E i \in Where(b[g], Delivery(id)) : s = <<g, i>>
  <2> DEFINE F == DOMAIN b \ {f}
  <2>1. F \in SUBSET DOMAIN b
    OBVIOUS
  <2> HIDE DEF F
  <2>2. /\ IsFiniteSet(Slots(b, F, id))
        /\ \A s : s \in Slots(b, F, id) <=> \E g \in F : \E i \in Where(b[g], Delivery(id)) : s = <<g, i>>
    BY <2>1, SlotsFacts
  <2>3. QED
    BY <2>2 DEF F
<1>5. \A s : s \in Slots(b, DOMAIN b, id) <=> \E g \in DOMAIN b : \E i \in Where(b[g], Delivery(id)) : s = <<g, i>>
  BY SlotsFacts
<1>6. \A s : s \in B <=> \E i \in W : s = <<f, i>>
  OBVIOUS
<1>7. W = Where(b[f], Delivery(id))
  OBVIOUS
<1> HIDE DEF A, B, W
<1>8. Slots(b, DOMAIN b, id) = A \cup B
  BY <1>4, <1>5, <1>6, <1>7
<1>9. A \cap B = {}
  BY <1>4, <1>6
<1>10. Cardinality(A \cup B) = Cardinality(A) + Cardinality(B) /\ Cardinality(A) \in Nat
  BY <1>3, <1>4, <1>9, Parts
<1>11. QED
  BY <1>2, <1>3, <1>8, <1>10, WaitingIsSlots DEF A

LEMMA SlotsSame ==
    ASSUME NEW b, NEW d, NEW F, \A f \in F : d[f] = b[f], NEW id
    PROVE  Slots(d, F, id) = Slots(b, F, id)
<1>1. {{f} \X Where(d[f], Delivery(id)) : f \in F} = {{f} \X Where(b[f], Delivery(id)) : f \in F}
  OBVIOUS
<1>2. QED
  BY <1>1 DEF Slots

\* Broker::publish puts a message once into each queue whose filter takes it.
LEMMA WaitingPublish ==
    ASSUME NEW b, Queues(b), NEW d, Queues(d), NEW e \in Messages, NEW id,
           DOMAIN d = DOMAIN b,
           \A f \in DOMAIN b : d[f] = IF Takes(f, e.topic) THEN Append(b[f], e) ELSE b[f]
    PROVE  /\ Waiting(d, id) = Waiting(b, id) + (IF e.id = id
                                THEN Cardinality({f \in DOMAIN b : Takes(f, e.topic)}) ELSE 0)
           /\ Cardinality({f \in DOMAIN b : Takes(f, e.topic)}) \in Nat
<1> DEFINE K == {f \in DOMAIN b : Takes(f, e.topic)}
           D == Delivery(id)
           A == Slots(b, DOMAIN b, id)
           B == Slots(d, DOMAIN b, id)
           g == [f \in K |-> <<f, Len(b[f]) + 1>>]
           C == {g[f] : f \in K}
<1>1. /\ \A f \in DOMAIN b : b[f] \in Seq(Messages) /\ IsFiniteSet(DOMAIN b)
  BY DEF Queues
<1>2. IsFiniteSet(K) /\ Cardinality(K) \in Nat
  <2>1. K \in SUBSET DOMAIN b /\ IsFiniteSet(DOMAIN b)
    BY DEF Queues
  <2>2. IsFiniteSet(K)
    BY <2>1, FS_Subset
  <2>3. QED
    BY <2>2, FS_CardinalityType
<1>3. /\ IsFiniteSet(A) /\ Waiting(b, id) = Cardinality(A) /\ Waiting(b, id) \in Nat
      /\ \A s : s \in A <=> \E f \in DOMAIN b : \E i \in Where(b[f], D) : s = <<f, i>>
  BY SlotsFacts, WaitingIsSlots
<1>4. /\ Waiting(d, id) = Cardinality(B)
      /\ \A s : s \in B <=> \E f \in DOMAIN b : \E i \in Where(d[f], D) : s = <<f, i>>
  <2>1. /\ Waiting(d, id) = Cardinality(Slots(d, DOMAIN d, id))
        /\ \A s : s \in Slots(d, DOMAIN d, id) <=>
                     \E f \in DOMAIN d : \E i \in Where(d[f], Delivery(id)) : s = <<f, i>>
    BY SlotsFacts, WaitingIsSlots
  <2>2. QED
    BY <2>1
<1>5. e \in D <=> e.id = id
  BY DEF Messages, Delivery
<1>6. \A f \in DOMAIN b :
         /\ f \notin K => d[f] = b[f]
         /\ f \in K => /\ Where(d[f], D) = Where(b[f], D) \cup (IF e \in D THEN {Len(b[f]) + 1} ELSE {})
                       /\ Len(b[f]) + 1 \notin Where(b[f], D)
  <2> SUFFICES ASSUME NEW f \in DOMAIN b
               PROVE  /\ f \notin K => d[f] = b[f]
                      /\ f \in K =>
                            /\ Where(d[f], D) = Where(b[f], D) \cup (IF e \in D THEN {Len(b[f]) + 1} ELSE {})
                            /\ Len(b[f]) + 1 \notin Where(b[f], D)
    OBVIOUS
  <2>1. b[f] \in Seq(Messages)
    BY <1>1
  <2>2. /\ Where(Append(b[f], e), D) = Where(b[f], D) \cup (IF e \in D THEN {Len(b[f]) + 1} ELSE {})
        /\ Len(b[f]) + 1 \notin Where(b[f], D)
    BY <2>1, WhereAppend
  <2>3. /\ f \notin K => d[f] = b[f]
        /\ f \in K => d[f] = Append(b[f], e)
    OBVIOUS
  <2>4. QED
    BY <2>2, <2>3
<1>7. /\ g = [f \in K |-> g[f]] /\ \A f \in K : g[f] = <<f, Len(b[f]) + 1>> /\ f \in DOMAIN b
      /\ \A f, h \in K : g[f] = g[h] => f = h
  OBVIOUS
<1> HIDE DEF K, D, A, B, g
<1>8. IsFiniteSet(C) /\ Cardinality(C) = Cardinality(K)
  <2>1. g = [f \in K |-> g[f]] /\ \A f, h \in K : g[f] = g[h] => f = h
    BY <1>7
  <2>2. QED
    BY <1>2, <2>1, ImageFacts
<1>9. CASE e.id = id
  <2>1. \A f \in K : Where(d[f], D) = Where(b[f], D) \cup {Len(b[f]) + 1}
    BY <1>5, <1>6, <1>7, <1>9
  <2>2. ASSUME NEW s, s \in B PROVE s \in A \cup C
    <3>1. PICK f \in DOMAIN b : \E i \in Where(d[f], D) : s = <<f, i>>
      BY <1>4, <2>2
    <3>2. PICK i \in Where(d[f], D) : s = <<f, i>>
      BY <3>1
    <3>3. CASE i \in Where(b[f], D)
      BY <1>3, <3>2, <3>3
    <3>4. CASE f \in K /\ i = Len(b[f]) + 1
      BY <1>7, <3>2, <3>4
    <3>5. QED
      BY <1>6, <2>1, <3>2, <3>3, <3>4
  <2>3. ASSUME NEW s, s \in A PROVE s \in B
    <3>1. PICK f \in DOMAIN b : \E i \in Where(b[f], D) : s = <<f, i>>
      BY <1>3, <2>3
    <3>2. Where(b[f], D) \subseteq Where(d[f], D)
      BY <1>6
    <3>3. QED
      BY <1>4, <3>1, <3>2
  <2>4. ASSUME NEW f \in K PROVE g[f] \in B /\ g[f] \notin A
    <3>1. g[f] = <<f, Len(b[f]) + 1>> /\ f \in DOMAIN b
      BY <1>7
    <3>2. Len(b[f]) + 1 \in Where(d[f], D) /\ Len(b[f]) + 1 \notin Where(b[f], D)
      BY <1>6, <2>1, <3>1
    <3>3. g[f] \in B
      BY <1>4, <3>1, <3>2
    <3>4. g[f] \notin A
      BY <1>3, <3>1, <3>2
    <3>5. QED
      BY <3>3, <3>4
  <2>5. B = A \cup C /\ A \cap C = {}
    BY <2>2, <2>3, <2>4
  <2>6. Cardinality(B) = Cardinality(A) + Cardinality(K)
    BY <1>3, <1>8, <2>5, Parts
  <2>7. QED
    BY <1>2, <1>3, <1>4, <1>9, <2>6 DEF K
<1>10. CASE e.id # id
  <2>1. \A f \in DOMAIN b : Where(d[f], D) = Where(b[f], D)
    BY <1>5, <1>6, <1>10
  <2>2. B = A
    BY <1>3, <1>4, <2>1
  <2>3. QED
    BY <1>2, <1>3, <1>4, <1>10, <2>2 DEF K
<1>11. QED
  BY <1>9, <1>10

\* What a forwarder takes is what its filter covers.
LEMMA TakesIsCovers ==
    ASSUME NEW f \in Names, ValidFilter(f), NEW t \in Names, ValidTopic(t)
    PROVE  Takes(f, t) <=> Covers(f, t)
<1> DEFINE S == STRING \cup Clients \cup {"reply"}
<1>1. \A x \in Names : x \in Seq(S)
  <2>1. \A x \in Seq(STRING) : x \in Seq(S)
    OBVIOUS
  <2>2. ASSUME NEW c \in Clients PROVE <<"reply", c>> \in Seq(S)
    <3>1. "reply" \in S /\ c \in S
      OBVIOUS
    <3> HIDE DEF S
    <3>2. QED
      BY <3>1
  <2> HIDE DEF S
  <2>3. QED
    BY <2>1, <2>2 DEF Names, Topic, ReplyTopic
<1> HIDE DEF S
<1>2. f \in Seq(S) /\ t \in Seq(S)
  BY <1>1
<1>3. Matches(f, t) <=> Covers(f, t)
  BY <1>2, MatchesIsCovers
<1>4. CASE ~IsLiteral(f)
  <2>1. f # t
    BY <1>4 DEF ValidTopic
  <2>2. QED
    BY <1>3, <1>4, <2>1 DEF Takes
<1>5. CASE IsLiteral(f)
  <2> DEFINE n == Len(f)
  <2>1. /\ n \in Nat /\ n > 0 /\ DOMAIN f = 1 .. n /\ Len(t) \in Nat /\ DOMAIN t = 1 .. Len(t)
    BY <1>2 DEF ValidFilter
  <2>2. \A i \in 1 .. n : f[i] # SingleLevelWildcard /\ f[i] # MultiLevelWildcard
    BY <1>5, <2>1 DEF IsLiteral
  <2>3. f[Len(f)] # MultiLevelWildcard
    BY <2>1, <2>2
  <2>4. Covers(f, t) <=> Len(t) = n /\ \A i \in 1 .. n : f[i] = t[i]
    BY <2>1, <2>2, <2>3 DEF Covers
  <2>5. (Len(t) = n /\ \A i \in 1 .. n : f[i] = t[i]) <=> f = t
    <3>1. ASSUME Len(t) = n, \A i \in 1 .. n : f[i] = t[i] PROVE f = t
      <4>1. f = [i \in 1 .. n |-> f[i]] /\ t = [i \in 1 .. n |-> t[i]]
        BY <1>2, <2>1, <3>1
      <4>2. QED
        BY <3>1, <4>1
    <3>2. QED
      BY <3>1
  <2>6. QED
    BY <1>5, <2>4, <2>5 DEF Takes
<1>6. QED
  BY <1>4, <1>5

\* Clients whose deliveries are accounted for, and what each of them has.
Counted(c) == ~Gone(c) /\ ~At(c, "reply")

Held(k, q, id) == Count(k.printed, id) + Copies(k.backlog, id) + Copies(q, id)

Balanced(c) ==
    \A id : Count(due[c], id) = Held(client[c], down[c], id) + Waiting(ToSend(c), id)

CountInv ==
    /\ FlowInv /\ due \in [Clients -> Seq(Id)]
    /\ \A c \in Clients : Counted(c) => Balanced(c)

\* A client that prints, buffers or reads loses nothing.
Keeps ==
    \A d \in Clients : Counted(d)' =>
        Counted(d) /\ \A id : Held(client'[d], down'[d], id) = Held(client[d], down[d], id)

\* What a connection's forwarders will send, from the forwarders that have a
\* receiver, the ones that are spawned and the replay buffers.
Replay(ch, f) == IF f \in DOMAIN ch THEN ch[f] ELSE <<>>
Sends(fw, sp, ch) ==
    [f \in DOMAIN fw \cup {f \in sp : IsLiteral(f)} |-> IF f \in DOMAIN fw THEN fw[f] ELSE Replay(ch, f)]

\* The same after a step.
Then(c) == Sends(forwarders'[c], spawned'[c], channels')

LEMMA SendsQueues ==
    ASSUME NEW fw, Queues(fw), NEW sp, IsFiniteSet(sp), \A f \in sp : f \in Names /\ ValidFilter(f),
           NEW ch, Queues(ch)
    PROVE  Queues(Sends(fw, sp, ch))
<1> DEFINE b == Sends(fw, sp, ch)
           L == {f \in sp : IsLiteral(f)}
<1>1. b = [f \in DOMAIN fw \cup L |-> IF f \in DOMAIN fw THEN fw[f] ELSE Replay(ch, f)]
  BY DEF Sends
<1>2. L \in SUBSET sp /\ \A f \in L : f \in Names /\ ValidFilter(f)
  OBVIOUS
<1> HIDE DEF b, L
<1>3. IsFiniteSet(L) /\ IsFiniteSet(DOMAIN fw)
  BY <1>2, FS_Subset DEF Queues
<1>4. IsFiniteSet(DOMAIN fw \cup L)
  BY <1>3, FS_Union
<1>5. \A f : Replay(ch, f) \in Seq(Messages) /\ \A i \in 1 .. Len(Replay(ch, f)) : Takes(f, Replay(ch, f)[i].topic)
  BY DEF Queues, Replay
<1>6. \A f \in DOMAIN fw : /\ f \in Names /\ ValidFilter(f) /\ fw[f] \in Seq(Messages)
                           /\ \A i \in 1 .. Len(fw[f]) : Takes(f, fw[f][i].topic)
  BY DEF Queues
<1>7. DOMAIN b = DOMAIN fw \cup L /\ b = [f \in DOMAIN b |-> b[f]]
  BY <1>1
<1>8. \A f \in DOMAIN b : b[f] = IF f \in DOMAIN fw THEN fw[f] ELSE Replay(ch, f)
  BY <1>1
<1>9. ASSUME NEW f \in DOMAIN b
      PROVE  b[f] \in Seq(Messages) /\ \A i \in 1 .. Len(b[f]) : Takes(f, b[f][i].topic)
  <2>1. CASE f \in DOMAIN fw
    BY <1>6, <1>8, <2>1
  <2>2. CASE f \notin DOMAIN fw
    BY <1>5, <1>8, <2>2
  <2>3. QED
    BY <2>1, <2>2
<1>10. QED
  BY <1>2, <1>4, <1>6, <1>7, <1>9 DEF Queues, b

LEMMA ToSendFacts ==
    ASSUME NodeOK, NEW c \in Clients
    PROVE  /\ Queues(ToSend(c)) /\ DOMAIN ToSend(c) = Owed(c)
           /\ ToSend(c) = Sends(forwarders[c], spawned[c], channels)
           /\ \A f \in Owed(c) : ToSend(c)[f] = IF f \in DOMAIN forwarders[c] THEN forwarders[c][f]
                                                ELSE Buffer(f)
           /\ \A f : Buffer(f) = Replay(channels, f)
<1>1. ToSend(c) = Sends(forwarders[c], spawned[c], channels)
  BY DEF ToSend, Sends, Owed, Buffer, Replay
<1>2. Queues(Sends(forwarders[c], spawned[c], channels))
  BY SendsQueues DEF NodeOK, SpawnOK
<1>3. QED
  BY <1>1, <1>2 DEF ToSend, Buffer, Replay

LEMMA ThenFacts ==
    ASSUME FlowInv', NEW c \in Clients
    PROVE  /\ Queues(Then(c)) /\ DOMAIN Then(c) = DOMAIN forwarders'[c] \cup {f \in spawned'[c] : IsLiteral(f)}
           /\ \A f \in DOMAIN Then(c) : Then(c)[f] = IF f \in DOMAIN forwarders'[c] THEN forwarders'[c][f]
                                                     ELSE Replay(channels', f)
<1>1. Queues(forwarders[c])' /\ Queues(channels)' /\ SpawnOK(c)'
  BY DEF FlowInv, SessionInv, NodeOK
<1>2. /\ Queues(forwarders'[c]) /\ Queues(channels')
      /\ IsFiniteSet(spawned'[c]) /\ \A f \in spawned'[c] : f \in Names /\ ValidFilter(f)
  BY <1>1 DEF Queues, SpawnOK
<1>3. Queues(Then(c))
  BY <1>2, SendsQueues DEF Then
<1>4. QED
  BY <1>3 DEF Then, Sends

LEMMA SameSends ==
    ASSUME NEW c \in Clients, forwarders'[c] = forwarders[c], spawned'[c] = spawned[c],
           \A f : Replay(channels', f) = Replay(channels, f)
    PROVE  Then(c) = ToSend(c)
<1>1. Then(c) = [f \in DOMAIN forwarders[c] \cup {f \in spawned[c] : IsLiteral(f)} |->
                    IF f \in DOMAIN forwarders[c] THEN forwarders[c][f] ELSE Replay(channels', f)]
  BY DEF Then, Sends
<1>2. ToSend(c) = [f \in DOMAIN forwarders[c] \cup {f \in spawned[c] : IsLiteral(f)} |->
                    IF f \in DOMAIN forwarders[c] THEN forwarders[c][f] ELSE Replay(channels, f)]
  BY DEF ToSend, Owed, Buffer, Replay
<1>3. QED
  BY <1>1, <1>2

LEMMA BalancedNext ==
    ASSUME NEW d \in Clients,
           \A id : Count(due'[d], id) = Held(client'[d], down'[d], id) + Waiting(Then(d), id)
    PROVE  Balanced(d)'
<1>1. ASSUME NEW id
      PROVE  (Count(due[d], id) = Held(client[d], down[d], id) + Waiting(ToSend(d), id))'
  <2>1. Count(due[d], id)' = Count(due'[d], id)
    BY DEF Count
  <2>2. Held(client[d], down[d], id)' = Held(client'[d], down'[d], id)
    BY DEF Held, Count, Copies
  <2>3. Waiting(ToSend(d), id)' = Waiting(Then(d), id)
    BY DEF Waiting, ToSend, Owed, Buffer, Then, Sends, Replay
  <2>4. QED
    BY <2>1, <2>2, <2>3
<1>2. QED
  BY <1>1 DEF Balanced

LEMMA HeldFacts ==
    ASSUME NEW k, k.printed \in Seq(Id), k.backlog \in Seq(Messages), NEW q \in Seq(Frames), NEW id
    PROVE  /\ Held(k, q, id) = Many(k.printed, {id}) + Many(k.backlog, Delivery(id)) + Many(q, Delivery(id))
           /\ Many(k.printed, {id}) \in Nat /\ Many(k.backlog, Delivery(id)) \in Nat
           /\ Many(q, Delivery(id)) \in Nat
<1>1. Count(k.printed, id) = Many(k.printed, {id}) /\ Count(k.printed, id) \in Nat
  BY CountFacts
<1>2. k.backlog \in Seq(Frames)
  BY MessagesFacts
<1>3. Copies(k.backlog, id) = Many(k.backlog, Delivery(id)) /\ Copies(k.backlog, id) \in Nat
  BY <1>2, CopiesFacts
<1>4. Copies(q, id) = Many(q, Delivery(id)) /\ Copies(q, id) \in Nat
  BY CopiesFacts
<1>5. QED
  BY <1>1, <1>3, <1>4 DEF Held

LEMMA KeepsFrom ==
    ASSUME ClientsOK, NEW c \in Clients, NEW k, client' = [client EXCEPT ![c] = k],
           \A d \in Clients : d # c => down'[d] = down[d],
           \/ k.pc \in {"done", "failed", "gone", "reply"}
           \/ Counted(c) /\ \A id : Held(k, down'[c], id) = Held(client[c], down[c], id)
    PROVE  Keeps
<1>1. client \in [Clients -> ClientState]
  BY DEF ClientsOK
<1>2. client'[c] = k /\ \A d \in Clients : d # c => client'[d] = client[d]
  BY <1>1
<1>3. ASSUME NEW d \in Clients, Counted(d)'
      PROVE  Counted(d) /\ \A id : Held(client'[d], down'[d], id) = Held(client[d], down[d], id)
  <2>1. CASE d # c
    BY <1>2, <1>3, <2>1 DEF Counted, Gone, At
  <2>2. CASE d = c
    <3>1. k.pc \notin {"done", "failed", "gone", "reply"}
      BY <1>2, <1>3, <2>2 DEF Counted, Gone, At
    <3>2. QED
      BY <1>2, <2>2, <3>1
  <2>3. QED
    BY <2>1, <2>2
<1>4. QED
  BY <1>3 DEF Keeps

\* One frame fewer on its way.
LEMMA RecvMany ==
    ASSUME ClientsOK, NEW c \in Clients, Recv(c)
    PROVE  /\ down[c] \in Seq(Frames) /\ down'[c] \in Seq(Frames) /\ Received(c) \in Frames
           /\ \A d \in Clients : d # c => down'[d] = down[d]
           /\ \A T : /\ Many(down[c], T) = Many(down'[c], T) + (IF Received(c) \in T THEN 1 ELSE 0)
                     /\ Many(down'[c], T) \in Nat
<1>1. /\ Received(c) \in Frames /\ down[c] \in Seq(Frames) /\ down[c] # <<>> /\ Received(c) = Head(down[c])
      /\ down' = [down EXCEPT ![c] = Tail(down[c])] /\ down'[c] = Tail(down[c])
  BY ReceivedFacts
<1>2. \A d \in Clients : d # c => down'[d] = down[d]
  BY <1>1 DEF ClientsOK
<1>3. down'[c] \in Seq(Frames)
  BY <1>1
<1>4. ASSUME NEW T PROVE /\ Many(down[c], T) = Many(down'[c], T) + (IF Received(c) \in T THEN 1 ELSE 0)
                         /\ Many(down'[c], T) \in Nat
  <2>1. Many(down[c], T) = Many(Tail(down[c]), T) + (IF Head(down[c]) \in T THEN 1 ELSE 0)
    BY <1>1, ManyEnds
  <2>2. Many(down'[c], T) \in Nat
    BY <1>3, WhereFacts
  <2>3. QED
    BY <1>1, <2>1, <2>2
<1>5. QED
  BY <1>1, <1>2, <1>3, <1>4

\* A client that neither prints nor buffers, and reads no message.
LEMMA KeepsQuiet ==
    ASSUME ClientsOK, NEW c \in Clients, NEW k, client' = [client EXCEPT ![c] = k],
           k.printed = client[c].printed, k.backlog = client[c].backlog,
           down' = down \/ (Recv(c) /\ Received(c).kind # "Publish"), Counted(c)
    PROVE  Keeps
<1>1. k.printed \in Seq(Id) /\ k.backlog \in Seq(Messages)
  BY StateFacts
<1>2. \A d \in Clients : d # c => down'[d] = down[d]
  <2>1. Recv(c) => \A d \in Clients : d # c => down'[d] = down[d]
    BY RecvMany
  <2>2. QED
    BY <2>1
<1>3. ASSUME NEW id PROVE Copies(down'[c], id) = Copies(down[c], id)
  <2>1. CASE down' = down
    BY <2>1
  <2>2. CASE Recv(c) /\ Received(c).kind # "Publish"
    <3>1. /\ down[c] \in Seq(Frames) /\ down'[c] \in Seq(Frames)
          /\ Many(down[c], Delivery(id)) = Many(down'[c], Delivery(id))
                                           + (IF Received(c) \in Delivery(id) THEN 1 ELSE 0)
          /\ Many(down'[c], Delivery(id)) \in Nat
      BY <2>2, RecvMany
    <3>2. Received(c) \notin Delivery(id)
      BY <2>2 DEF Delivery
    <3>3. Many(down[c], Delivery(id)) = Many(down'[c], Delivery(id))
      BY <3>1, <3>2
    <3>4. QED
      BY <3>1, <3>3, CopiesFacts
  <2>3. QED
    BY <2>1, <2>2
<1>4. \A id : Held(k, down'[c], id) = Held(client[c], down[c], id)
  BY <1>3 DEF Held
<1>5. QED
  BY <1>2, <1>4, KeepsFrom

\* subscribe_all keeps what is delivered while it waits.
LEMMA KeepsAwait ==
    ASSUME ClientsOK, NEW c \in Clients, AwaitAcks(c)
    PROVE  Keeps
<1> DEFINE e == Received(c)
<1>1. /\ Recv(c) /\ e \in Frames /\ client[c].pc = "acks" /\ Counted(c)
  BY ReceivedFacts DEF AwaitAcks, At, Gone, Counted
<1>2. /\ client[c] \in ClientState /\ client \in [Clients -> ClientState]
      /\ client[c].backlog \in Seq(Messages) /\ client[c].printed \in Seq(Id)
  BY StateFacts DEF ClientsOK
<1>3. \/ AllAcked(c) /\ e.kind = "Ack"
      \/ Goto(c, "failed")
      \/ client' = [client EXCEPT ![c].pending = @ \ {e.ref}, ![c].backlog = Buffered(c)]
  BY DEF AwaitAcks
<1>a. \A d \in Clients : d # c => down'[d] = down[d]
  BY <1>1, RecvMany
<1>4. CASE \/ Goto(c, "failed")
           \/ client' = [client EXCEPT ![c].pc = "reply", ![c].pending = {}, ![c].backlog = <<>>]
  <2> DEFINE k == client'[c]
  <2>1. client' = [client EXCEPT ![c] = k] /\ k.pc \in {"failed", "reply"}
    BY <1>2, <1>4 DEF Goto, ClientState
  <2> HIDE DEF k
  <2>2. QED
    BY <1>a, <2>1, KeepsFrom
<1>5. CASE client' = [client EXCEPT ![c].pc = "backlog", ![c].pending = {}] /\ e.kind = "Ack"
  <2> DEFINE k == [client[c] EXCEPT !.pc = "backlog", !.pending = {}]
  <2>1. /\ client' = [client EXCEPT ![c] = k] /\ k.printed = client[c].printed
        /\ k.backlog = client[c].backlog
    BY <1>2, <1>5 DEF ClientState
  <2> HIDE DEF k
  <2>2. QED
    BY <1>1, <1>5, <2>1, KeepsQuiet
<1>6. CASE client' = [client EXCEPT ![c].pending = @ \ {e.ref}, ![c].backlog = Buffered(c)]
  <2> DEFINE b == Buffered(c)
             k == [client[c] EXCEPT !.pending = client[c].pending \ {e.ref}, !.backlog = b]
  <2>1. client' = [client EXCEPT ![c] = k]
    BY <1>2, <1>6
  <2>2. b = IF e.kind = "Publish" THEN Append(client[c].backlog, e) ELSE client[c].backlog
    BY DEF Buffered
  <2> HIDE DEF b
  <2>3. k.printed = client[c].printed /\ k.backlog = b
    BY <1>2 DEF ClientState
  <2> HIDE DEF k, e
  <2>4. CASE e.kind # "Publish"
    BY <1>1, <2>1, <2>2, <2>3, <2>4, KeepsQuiet DEF e
  <2>5. CASE e.kind = "Publish"
    <3>1. e \in Messages /\ b = Append(client[c].backlog, e) /\ b \in Seq(Messages)
      <4>1. e \in Messages /\ b = Append(client[c].backlog, e)
        BY <1>1, <2>2, <2>5 DEF Messages
      <4>2. QED
        BY <1>2, <4>1
    <3>2. ASSUME NEW id PROVE Held(k, down'[c], id) = Held(client[c], down[c], id)
      <4> DEFINE x == IF e \in Delivery(id) THEN 1 ELSE 0
      <4>1. /\ down[c] \in Seq(Frames) /\ down'[c] \in Seq(Frames)
            /\ Many(down[c], Delivery(id)) = Many(down'[c], Delivery(id)) + x
        BY <1>1, RecvMany DEF e
      <4>2. Many(b, Delivery(id)) = Many(client[c].backlog, Delivery(id)) + x
        BY <1>2, <3>1, ManyEnds
      <4>3. x \in Nat
        OBVIOUS
      <4> HIDE DEF x
      <4>4. /\ Held(k, down'[c], id) = Many(client[c].printed, {id}) + Many(b, Delivery(id))
                                       + Many(down'[c], Delivery(id))
            /\ Many(down'[c], Delivery(id)) \in Nat
        <5>1. k.printed \in Seq(Id) /\ k.backlog \in Seq(Messages) /\ k.printed = client[c].printed /\ k.backlog = b
          BY <1>2, <2>3, <3>1
        <5>2. /\ Held(k, down'[c], id) = Many(k.printed, {id}) + Many(k.backlog, Delivery(id))
                                         + Many(down'[c], Delivery(id))
              /\ Many(down'[c], Delivery(id)) \in Nat
          BY <4>1, <5>1, HeldFacts
        <5>3. QED
          BY <5>1, <5>2
      <4>5. /\ Held(client[c], down[c], id) = Many(client[c].printed, {id})
                      + Many(client[c].backlog, Delivery(id)) + Many(down[c], Delivery(id))
            /\ Many(client[c].printed, {id}) \in Nat /\ Many(client[c].backlog, Delivery(id)) \in Nat
        BY <1>2, <4>1, HeldFacts
      <4>6. QED
        BY <4>1, <4>2, <4>3, <4>4, <4>5
    <3>3. QED
      BY <1>1, <1>a, <2>1, <3>2, KeepsFrom
  <2>6. QED
    BY <2>4, <2>5
<1>7. QED
  BY <1>3, <1>4, <1>5, <1>6 DEF AllAcked

\* print_and_maybe_ack: what leaves the backlog or the connection is printed.
LEMMA KeepsPrint ==
    ASSUME ClientsOK, NEW c \in Clients, PrintBacklog(c) \/ PrintLive(c)
    PROVE  Keeps
<1>1. /\ client[c] \in ClientState /\ client \in [Clients -> ClientState]
      /\ client[c].backlog \in Seq(Messages) /\ client[c].printed \in Seq(Id)
      /\ down \in [Clients -> Seq(Frames)] /\ Counted(c)
  BY StateFacts DEF ClientsOK, PrintBacklog, PrintLive, At, Gone, Counted
<1> DEFINE p == client[c].printed
           rest == client[c].backlog
<1>2. CASE PrintBacklog(c) /\ rest = <<>>
  <2> DEFINE k == [client[c] EXCEPT !.pc = "live"]
  <2>1. down' = down /\ client' = [client EXCEPT ![c].pc = "live"]
    BY <1>2 DEF PrintBacklog, Goto
  <2>2. /\ client' = [client EXCEPT ![c] = k] /\ k.printed = client[c].printed
        /\ k.backlog = client[c].backlog
    BY <1>1, <2>1 DEF ClientState
  <2> HIDE DEF k
  <2>3. QED
    BY <1>1, <2>1, <2>2, KeepsQuiet
<1>3. CASE PrintBacklog(c) /\ rest # <<>>
  <2> DEFINE e == Head(rest)
             b == Tail(rest)
             k == [client[c] EXCEPT !.backlog = b, !.printed = Append(p, e.id)]
  <2>1. e \in Messages /\ b \in Seq(Messages)
    BY <1>1, <1>3, TailFacts
  <2>2. down' = down /\ client' = [client EXCEPT ![c] = k]
    BY <1>1, <1>3 DEF PrintBacklog
  <2>3. k.printed = Append(p, e.id) /\ k.backlog = b
    BY <1>1 DEF ClientState
  <2>4. e.id \in Id
    BY <2>1 DEF Messages, Frames
  <2>5. Append(p, e.id) \in Seq(Id)
    BY <1>1, <2>4
  <2>6. ASSUME NEW id PROVE Held(k, down[c], id) = Held(client[c], down[c], id)
    <3> DEFINE x == IF e.id = id THEN 1 ELSE 0
    <3>1. Many(Append(p, e.id), {id}) = Many(p, {id}) + x
      BY <1>1, <2>4, ManyEnds
    <3>2. Many(rest, Delivery(id)) = Many(b, Delivery(id)) + x
      <4>1. e \in Delivery(id) <=> e.id = id
        BY <2>1 DEF Messages, Delivery
      <4>2. Many(rest, Delivery(id)) = Many(b, Delivery(id)) + (IF e \in Delivery(id) THEN 1 ELSE 0)
        BY <1>1, <1>3, ManyEnds
      <4>3. QED
        BY <4>1, <4>2
    <3>3. x \in Nat /\ down[c] \in Seq(Frames)
      BY <1>1
    <3> HIDE DEF x, k, e, b
    <3>4. /\ Held(k, down[c], id) = Many(Append(p, e.id), {id}) + Many(b, Delivery(id))
                                     + Many(down[c], Delivery(id))
          /\ Many(b, Delivery(id)) \in Nat
      BY <2>1, <2>3, <2>5, <3>3, HeldFacts
    <3>5. /\ Held(client[c], down[c], id) = Many(p, {id}) + Many(rest, Delivery(id))
                                            + Many(down[c], Delivery(id))
          /\ Many(p, {id}) \in Nat /\ Many(down[c], Delivery(id)) \in Nat
      BY <1>1, <3>3, HeldFacts
    <3>6. QED
      BY <3>1, <3>2, <3>3, <3>4, <3>5
  <2> HIDE DEF k
  <2>7. QED
    BY <1>1, <2>2, <2>6, KeepsFrom
<1>4. CASE PrintLive(c) /\ Received(c).kind = "Publish"
  <2> DEFINE e == Received(c)
             k == [client[c] EXCEPT !.printed = Append(p, e.id)]
  <2>1. /\ Recv(c) /\ e \in Frames /\ e.kind = "Publish" /\ \A d \in Clients : d # c => down'[d] = down[d]
        /\ down[c] \in Seq(Frames) /\ down'[c] \in Seq(Frames)
    BY <1>4, RecvMany DEF PrintLive
  <2>2. client' = [client EXCEPT ![c] = k]
    BY <1>1, <1>4 DEF PrintLive
  <2>3. k.printed = Append(p, e.id) /\ k.backlog = rest
    BY <1>1 DEF ClientState
  <2>4. e.id \in Id
    BY <2>1 DEF Frames
  <2>5. Append(p, e.id) \in Seq(Id)
    BY <1>1, <2>4
  <2>6. ASSUME NEW id PROVE Held(k, down'[c], id) = Held(client[c], down[c], id)
    <3> DEFINE x == IF e.id = id THEN 1 ELSE 0
    <3>1. Many(Append(p, e.id), {id}) = Many(p, {id}) + x
      BY <1>1, <2>4, ManyEnds
    <3>2. Many(down[c], Delivery(id)) = Many(down'[c], Delivery(id)) + x
      <4>1. e \in Delivery(id) <=> e.id = id
        BY <2>1 DEF Delivery
      <4>2. Many(down[c], Delivery(id)) = Many(down'[c], Delivery(id)) + (IF e \in Delivery(id) THEN 1 ELSE 0)
        BY <2>1, RecvMany
      <4>3. QED
        BY <4>1, <4>2
    <3>3. x \in Nat
      OBVIOUS
    <3> HIDE DEF x, k, e
    <3>4. /\ Held(k, down'[c], id) = Many(Append(p, e.id), {id}) + Many(rest, Delivery(id))
                                     + Many(down'[c], Delivery(id))
          /\ Many(down'[c], Delivery(id)) \in Nat
      <4>1. k.printed \in Seq(Id) /\ k.backlog \in Seq(Messages) /\ down'[c] \in Seq(Frames)
        BY <1>1, <2>1, <2>3, <2>5
      <4>2. /\ Held(k, down'[c], id) = Many(k.printed, {id}) + Many(k.backlog, Delivery(id))
                                       + Many(down'[c], Delivery(id))
            /\ Many(down'[c], Delivery(id)) \in Nat
        BY <4>1, HeldFacts
      <4>3. QED
        BY <2>3, <4>2
    <3>5. /\ Held(client[c], down[c], id) = Many(p, {id}) + Many(rest, Delivery(id))
                                            + Many(down[c], Delivery(id))
          /\ Many(p, {id}) \in Nat /\ Many(rest, Delivery(id)) \in Nat
      BY <1>1, <2>1, HeldFacts
    <3>6. QED
      BY <3>1, <3>2, <3>3, <3>4, <3>5
  <2> HIDE DEF k
  <2>7. QED
    BY <1>1, <2>1, <2>2, <2>6, KeepsFrom
<1>5. CASE PrintLive(c) /\ Received(c).kind # "Publish"
  <2>1. Recv(c) /\ client' = client
    BY <1>5 DEF PrintLive
  <2>2. client' = [client EXCEPT ![c] = client[c]]
    BY <1>1, <2>1
  <2>3. QED
    BY <1>1, <1>5, <2>1, <2>2, KeepsQuiet
<1>6. QED
  BY <1>2, <1>3, <1>4, <1>5

\* Every step of a client.
LEMMA ClientKeeps ==
    ASSUME FlowInv, NEW c \in Clients, ClientStep(c) \/ StartFails(c) \/ Interrupt(c)
    PROVE  Keeps
<1>1. ClientsOK /\ ArgsOK /\ RolesOK(c)
  BY FlowFacts
<1>2. client[c] \in ClientState /\ client \in [Clients -> ClientState]
  BY <1>1, StateFacts DEF ClientsOK
<1>3. CASE Invalid(c) \/ StartFails(c) \/ Completions(c) \/ TimesOut(c) \/ Interrupt(c) \/ StartPublish(c)
  <2> DEFINE k == client'[c]
  <2>1. \E pc \in {"failed", "done", "gone"} : client' = [client EXCEPT ![c].pc = pc]
    BY <1>3 DEF Invalid, StartFails, Completions, TimesOut, Interrupt, StartPublish, Goto
  <2>2. down' = down
    BY <1>3 DEF Invalid, StartFails, Completions, TimesOut, Interrupt, StartPublish
  <2>3. client' = [client EXCEPT ![c] = k] /\ k.pc \in {"failed", "done", "gone"}
    BY <1>2, <2>1 DEF ClientState
  <2> HIDE DEF k
  <2>4. QED
    BY <1>1, <2>2, <2>3, KeepsFrom
<1>4. CASE StartSubscribe(c) \/ StartQuery(c)
  <2> DEFINE k == client'[c]
  <2>1. down' = down /\ Counted(c)
    BY <1>4 DEF StartSubscribe, StartQuery, Connectable, At, Counted, Gone
  <2>2. /\ client' = [client EXCEPT ![c] = k] /\ k.printed = client[c].printed
        /\ k.backlog = client[c].backlog
    BY <1>2, <1>4 DEF ClientState, StartSubscribe, StartQuery, Goto
  <2> HIDE DEF k
  <2>3. QED
    BY <1>1, <2>1, <2>2, KeepsQuiet
<1>5. CASE AwaitReply(c)
  <2> DEFINE k == client'[c]
  <2>1. Recv(c) /\ client[c].pc = "reply"
    BY <1>5 DEF AwaitReply, At
  <2>2. client' = [client EXCEPT ![c] = k] /\ k.pc \in {"reply", "done"}
    BY <1>2, <1>5, <2>1 DEF ClientState, AwaitReply
  <2>3. \A d \in Clients : d # c => down'[d] = down[d]
    BY <1>1, <2>1, RecvMany
  <2> HIDE DEF k
  <2>4. QED
    BY <1>1, <2>2, <2>3, KeepsFrom
<1>6. CASE AwaitAnswer(c)
  <2> DEFINE k == client'[c]
  <2>1. Recv(c) /\ client[c].pc = "query" /\ Counted(c)
    BY <1>6 DEF AwaitAnswer, At, Counted, Gone
  <2>2. Received(c).kind # "Publish"
    <3>1. Received(c) \in ToSet(down[c])
      BY <1>1, <2>1, ReceivedFacts
    <3>2. ~Subscriber(c)
      BY <1>1, <2>1 DEF ArgsOK, At
    <3>3. QED
      BY <1>1, <3>1, <3>2 DEF RolesOK
  <2>3. /\ client' = [client EXCEPT ![c] = k] /\ k.printed = client[c].printed
        /\ k.backlog = client[c].backlog
    BY <1>2, <1>6 DEF ClientState, AwaitAnswer
  <2> HIDE DEF k
  <2>4. QED
    BY <1>1, <2>1, <2>2, <2>3, KeepsQuiet
<1>7. QED
  BY <1>1, <1>3, <1>4, <1>5, <1>6, KeepsAwait, KeepsPrint DEF ClientStep

LEMMA ClientCounts ==
    ASSUME CountInv, FlowInv', NEW c \in Clients, ClientStep(c) \/ StartFails(c) \/ Interrupt(c)
    PROVE  CountInv'
<1>1. FlowInv /\ due \in [Clients -> Seq(Id)] /\ \A d \in Clients : Counted(d) => Balanced(d)
  BY DEF CountInv
<1>2. Keeps
  BY <1>1, ClientKeeps
<1>3. due' = due /\ \A d \in Clients : Then(d) = ToSend(d)
  <2>1. ClientsOK /\ ArgsOK
    BY <1>1, FlowFacts
  <2>2. PICK o : Flows(c, o)
    BY <2>1, ClientFlows
  <2>3. UNCHANGED <<due, spawned, forwarders, channels>>
    BY <2>2 DEF Flows
  <2>4. QED
    BY <2>3, SameSends
<1>4. ASSUME NEW d \in Clients, Counted(d)' PROVE Balanced(d)'
  <2>1. Counted(d) /\ \A id : Held(client'[d], down'[d], id) = Held(client[d], down[d], id)
    BY <1>2, <1>4 DEF Keeps
  <2>2. Balanced(d)
    BY <1>1, <2>1
  <2>3. \A id : Count(due'[d], id) = Held(client'[d], down'[d], id) + Waiting(Then(d), id)
    BY <1>3, <2>1, <2>2 DEF Balanced
  <2>4. QED
    BY <2>3, BalancedNext
<1>5. QED
  BY <1>1, <1>3, <1>4 DEF CountInv

\* What the node keeps in balance.
LEMMA NodeCounts ==
    ASSUME CountInv, FlowInv', UNCHANGED client, due' \in [Clients -> Seq(Id)],
           \A d \in Clients : Counted(d) => \A id :
              Count(due'[d], id) = Held(client[d], down'[d], id) + Waiting(Then(d), id)
    PROVE  CountInv'
<1>1. ASSUME NEW d \in Clients, Counted(d)' PROVE Balanced(d)'
  <2>1. Counted(d)
    BY <1>1 DEF Counted, Gone, At
  <2>2. \A id : Count(due'[d], id) = Held(client'[d], down'[d], id) + Waiting(Then(d), id)
    BY <2>1
  <2>3. QED
    BY <2>2, BalancedNext
<1>2. QED
  BY <1>1 DEF CountInv

\* A step of the node that at most answers.
LEMMA AnswerCounts ==
    ASSUME CountInv, FlowInv', UNCHANGED <<client, due>>, \A d \in Clients : Then(d) = ToSend(d),
           \A d \in Clients : \A id : Copies(down'[d], id) = Copies(down[d], id)
    PROVE  CountInv'
<1>1. due' \in [Clients -> Seq(Id)]
  BY DEF CountInv
<1>2. ASSUME NEW d \in Clients, Counted(d), NEW id
      PROVE  Count(due'[d], id) = Held(client[d], down'[d], id) + Waiting(Then(d), id)
  BY <1>2 DEF CountInv, Balanced, Held
<1>3. QED
  BY <1>1, <1>2, NodeCounts

LEMMA ReplyCounts ==
    ASSUME CountInv, FlowInv', NEW c \in Clients,
           \/ HandleAck(c) \/ HandleQuery(c) \/ SendReply(c)
    PROVE  CountInv'
<1>1. FlowInv
  BY DEF CountInv
<1>2. down \in [Clients -> Seq(Frames)] /\ reply \in [Clients -> Frames] /\ RolesOK(c)
  BY <1>1, FlowFacts
<1>3. UNCHANGED <<client, due>> /\ \A d \in Clients : Then(d) = ToSend(d)
  <2>1. UNCHANGED <<client, due, spawned, forwarders, channels>>
    BY DEF HandleAck, HandleQuery, SendReply
  <2>2. QED
    BY <2>1, SameSends
<1>4. CASE HandleAck(c) \/ HandleQuery(c)
  <2>1. down' = down
    BY <1>4 DEF HandleAck, HandleQuery
  <2>2. QED
    BY <1>3, <2>1, AnswerCounts
<1>5. CASE SendReply(c)
  <2>1. down' = [down EXCEPT ![c] = Append(down[c], reply[c])]
    BY <1>5 DEF SendReply
  <2>2. /\ down[c] \in Seq(Frames) /\ reply[c] \in Frames /\ Append(down[c], reply[c]) \in Seq(Frames)
    BY <1>2
  <2>3. ASSUME NEW id PROVE Copies(Append(down[c], reply[c]), id) = Copies(down[c], id)
    <3>1. reply[c] \notin Delivery(id)
      BY <1>2 DEF RolesOK, Delivery
    <3>2. /\ Many(Append(down[c], reply[c]), Delivery(id)) = Many(down[c], Delivery(id)) + 0
          /\ Many(down[c], Delivery(id)) \in Nat
      BY <2>2, <3>1, ManyEnds
    <3>3. Many(Append(down[c], reply[c]), Delivery(id)) = Many(down[c], Delivery(id))
      BY <3>2
    <3>4. /\ Copies(Append(down[c], reply[c]), id) = Many(Append(down[c], reply[c]), Delivery(id))
          /\ Copies(down[c], id) = Many(down[c], Delivery(id))
      BY <2>2, CopiesFacts
    <3>5. QED
      BY <3>3, <3>4
  <2>4. \A d \in Clients : down'[d] = IF d = c THEN Append(down[c], reply[c]) ELSE down[d]
    BY <1>2, <2>1
  <2>5. \A d \in Clients : \A id : Copies(down'[d], id) = Copies(down[d], id)
    BY <2>3, <2>4
  <2>6. QED
    BY <1>3, <2>5, AnswerCounts
<1>6. QED
  BY <1>4, <1>5

\* A forwarder moves one delivery.
LEMMA ForwardCounts ==
    ASSUME CountInv, FlowInv', NEW c \in Clients, NEW f \in DOMAIN forwarders[c], Forward(c, f)
    PROVE  CountInv'
<1> DEFINE q == forwarders[c][f]
           a == ToSend(c)
           b == Then(c)
           e == Head(q)
<1>1. FlowInv /\ due \in [Clients -> Seq(Id)] /\ \A d \in Clients : Counted(d) => Balanced(d)
  BY DEF CountInv
<1>2. /\ ClientsOK /\ NodeOK /\ down \in [Clients -> Seq(Frames)]
      /\ forwarders = [d \in Clients |-> forwarders[d]] /\ Queues(forwarders[c])
  BY <1>1, FlowFacts DEF NodeOK
<1>3. /\ UNCHANGED <<client, due, spawned, channels>> /\ q # <<>>
      /\ down' = [down EXCEPT ![c] = Append(down[c], e)]
      /\ forwarders' = [forwarders EXCEPT ![c] = [forwarders[c] EXCEPT ![f] = Tail(q)]]
  BY DEF Forward
<1>4. q \in Seq(Messages) /\ forwarders[c] = [g \in DOMAIN forwarders[c] |-> forwarders[c][g]]
  BY <1>2 DEF Queues
<1>5. e \in Messages /\ e \in Frames /\ e.kind = "Publish" /\ Tail(q) \in Seq(Messages)
  BY <1>3, <1>4, TailFacts DEF Messages
<1>6. /\ DOMAIN b = DOMAIN a /\ f \in DOMAIN a /\ a[f] = q /\ b[f] = Tail(q)
      /\ \A g \in DOMAIN a \ {f} : b[g] = a[g]
  <2> HIDE DEF q
  <2>1. /\ DOMAIN forwarders'[c] = DOMAIN forwarders[c] /\ forwarders'[c][f] = Tail(q)
        /\ \A g \in DOMAIN forwarders[c] : g # f => forwarders'[c][g] = forwarders[c][g]
    BY <1>2, <1>3, <1>4
  <2>2. DOMAIN a = Owed(c) /\ \A g \in Owed(c) : a[g] = IF g \in DOMAIN forwarders[c]
                                                         THEN forwarders[c][g] ELSE Buffer(g)
    BY <1>2, ToSendFacts
  <2>3. /\ DOMAIN b = DOMAIN forwarders'[c] \cup {g \in spawned'[c] : IsLiteral(g)}
        /\ \A g \in DOMAIN b : b[g] = IF g \in DOMAIN forwarders'[c] THEN forwarders'[c][g]
                                      ELSE Replay(channels', g)
    BY ThenFacts
  <2>4. \A g : Replay(channels', g) = Buffer(g)
    BY <1>3 DEF Replay, Buffer
  <2> HIDE DEF a, b
  <2>5. DOMAIN b = DOMAIN a /\ f \in DOMAIN a
    BY <1>3, <2>1, <2>2, <2>3 DEF Owed
  <2>6. QED
    BY <2>1, <2>2, <2>3, <2>4, <2>5 DEF q
<1>7. ToSend(c) = a /\ Then(c) = b
  OBVIOUS
<1>9. Queues(a) /\ Queues(b)
  BY <1>2, ToSendFacts, ThenFacts
<1> HIDE DEF q, a, b, e
<1>8. /\ down'[c] = Append(down[c], e) /\ down[c] \in Seq(Frames)
      /\ \A d \in Clients : d # c => Then(d) = ToSend(d) /\ down'[d] = down[d]
  <2>1. /\ down'[c] = Append(down[c], e) /\ down[c] \in Seq(Frames)
        /\ \A d \in Clients : d # c => forwarders'[d] = forwarders[d] /\ down'[d] = down[d]
    BY <1>2, <1>3
  <2>2. spawned' = spawned /\ \A g : Replay(channels', g) = Replay(channels, g)
    BY <1>3
  <2>3. QED
    BY <2>1, <2>2, SameSends
<1>10. ASSUME NEW id
       PROVE  Held(client[c], down'[c], id) + Waiting(b, id)
              = Held(client[c], down[c], id) + Waiting(a, id)
  <2> DEFINE x == IF e \in Delivery(id) THEN 1 ELSE 0
             T == Delivery(id)
             o == Cardinality(Slots(a, DOMAIN a \ {f}, id))
  <2>1. Waiting(a, id) = o + Many(q, T) /\ o \in Nat /\ Many(q, T) \in Nat
    BY <1>6, <1>9, WaitingSplit
  <2>2. Waiting(b, id) = o + Many(Tail(q), T) /\ Many(Tail(q), T) \in Nat
    <3>1. Slots(b, DOMAIN a \ {f}, id) = Slots(a, DOMAIN a \ {f}, id)
      BY <1>6, SlotsSame
    <3>2. f \in DOMAIN b
      BY <1>6
    <3>3. /\ Waiting(b, id) = Cardinality(Slots(b, DOMAIN b \ {f}, id)) + Many(b[f], Delivery(id))
          /\ Many(b[f], Delivery(id)) \in Nat
      BY <1>9, <3>2, WaitingSplit
    <3>4. QED
      BY <1>6, <3>1, <3>3
  <2>3. Many(q, T) = Many(Tail(q), T) + x
    BY <1>3, <1>4, ManyEnds DEF e
  <2>4. Many(down'[c], T) = Many(down[c], T) + x /\ Many(down[c], T) \in Nat
    BY <1>5, <1>8, ManyEnds
  <2>5. down'[c] \in Seq(Frames)
    BY <1>5, <1>8
  <2>6. client[c].printed \in Seq(Id) /\ client[c].backlog \in Seq(Messages)
    BY <1>2, StateFacts
  <2> DEFINE u == Many(client[c].printed, {id})
             v == Many(client[c].backlog, Delivery(id))
  <2>7. Held(client[c], down'[c], id) = u + v + Many(down'[c], T) /\ u \in Nat /\ v \in Nat
    BY <2>5, <2>6, HeldFacts
  <2>8. Held(client[c], down[c], id) = u + v + Many(down[c], T)
    BY <1>8, <2>6, HeldFacts
  <2>9. x \in Nat
    OBVIOUS
  <2> HIDE DEF x, T, o, u, v
  <2>10. QED
    BY <2>1, <2>2, <2>3, <2>4, <2>7, <2>8, <2>9
<1>11. ASSUME NEW d \in Clients, Counted(d), NEW id
       PROVE  Count(due'[d], id) = Held(client[d], down'[d], id) + Waiting(Then(d), id)
  <2>1. Count(due[d], id) = Held(client[d], down[d], id) + Waiting(ToSend(d), id)
    BY <1>1, <1>11 DEF Balanced
  <2>2. CASE d = c
    BY <1>3, <1>7, <1>8, <1>10, <2>1, <2>2
  <2>3. CASE d # c
    BY <1>3, <1>8, <2>1, <2>3
  <2>4. QED
    BY <2>2, <2>3
<1>12. QED
  BY <1>1, <1>3, <1>11, NodeCounts

LEMMA EndCounts ==
    ASSUME CountInv, FlowInv', NEW c \in Clients, ConnectionEnds(c)
    PROVE  CountInv'
<1>1. FlowInv /\ due \in [Clients -> Seq(Id)] /\ \A d \in Clients : Counted(d) => Balanced(d)
  BY DEF CountInv
<1>2. /\ down \in [Clients -> Seq(Frames)] /\ forwarders = [d \in Clients |-> forwarders[d]]
      /\ spawned = [d \in Clients |-> spawned[d]]
  BY <1>1, FlowFacts DEF NodeOK
<1>3. /\ UNCHANGED <<client, due, channels>> /\ ~Counted(c)
      /\ down' = [down EXCEPT ![c] = <<>>] /\ forwarders' = [forwarders EXCEPT ![c] = <<>>]
      /\ spawned' = [spawned EXCEPT ![c] = {}]
  BY DEF ConnectionEnds, Counted
<1>4. \A d \in Clients : d # c => Then(d) = ToSend(d) /\ down'[d] = down[d]
  <2>1. \A d \in Clients : d # c => /\ forwarders'[d] = forwarders[d] /\ spawned'[d] = spawned[d]
                                    /\ down'[d] = down[d]
    BY <1>2, <1>3
  <2>2. \A g : Replay(channels', g) = Replay(channels, g)
    BY <1>3
  <2>3. QED
    BY <2>1, <2>2, SameSends
<1>5. ASSUME NEW d \in Clients, Counted(d), NEW id
      PROVE  Count(due'[d], id) = Held(client[d], down'[d], id) + Waiting(Then(d), id)
  BY <1>1, <1>3, <1>4, <1>5 DEF Balanced
<1>6. QED
  BY <1>1, <1>3, <1>5, NodeCounts

\* Broker::publish owes a message once for every subscription that covers it.
LEMMA PublishCounts ==
    ASSUME CountInv, FlowInv', NEW c \in Clients, HandlePublish(c)
    PROVE  CountInv'
<1> DEFINE e == Frame(c)
<1>1. FlowInv /\ due \in [Clients -> Seq(Id)] /\ \A d \in Clients : Counted(d) => Balanced(d)
  BY DEF CountInv
<1>2. /\ ClientsOK /\ NodeOK /\ down \in [Clients -> Seq(Frames)]
      /\ \A d \in Clients : Queues(ToSend(d))
  BY <1>1, FlowFacts, ToSendFacts
<1>3. e \in Frames /\ e.kind = "Publish"
  BY <1>2, ReadSets DEF HandlePublish
<1>4. UNCHANGED <<client, down, spawned>>
  BY DEF HandlePublish
<1>5. CASE UNCHANGED <<forwarders, channels, due>>
  <2>1. \A d \in Clients : Then(d) = ToSend(d)
    BY <1>4, <1>5, SameSends
  <2>2. QED
    BY <1>4, <1>5, <2>1, AnswerCounts
<1>6. CASE Publish(e)
  <2>1. e \in Messages /\ e.id \in Id /\ e.topic \in Names /\ ValidTopic(e.topic)
    BY <1>3 DEF Messages, Frames, Proper, Parses
  <2> DEFINE N(d) == Cardinality({f \in Owed(d) : Covers(f, e.topic)})
  <2>2. /\ forwarders' = [d \in Clients |-> [f \in DOMAIN forwarders[d] |->
              IF Takes(f, e.topic) THEN Append(forwarders[d][f], e) ELSE forwarders[d][f]]]
        /\ channels' = [f \in DOMAIN channels \cup {e.topic} |->
              IF Takes(f, e.topic) THEN Append(Buffer(f), e) ELSE Buffer(f)]
        /\ due' = [d \in Clients |-> due[d] \o [i \in 1 .. N(d) |-> e.id]]
    BY <1>6 DEF Publish
  <2> HIDE DEF e
  <2>3. ASSUME NEW d \in Clients, NEW id
        PROVE  /\ Waiting(Then(d), id) = Waiting(ToSend(d), id)
                                         + (IF e.id = id THEN N(d) ELSE 0)
               /\ N(d) \in Nat
    <3> DEFINE b == ToSend(d)
    <3>1. Queues(b) /\ DOMAIN b = Owed(d)
      BY <1>2, ToSendFacts
    <3>2. {f \in DOMAIN b : Covers(f, e.topic)} = {f \in DOMAIN b : Takes(f, e.topic)}
      <4>1. ASSUME NEW f \in DOMAIN b PROVE Takes(f, e.topic) <=> Covers(f, e.topic)
        <5>1. f \in Names /\ ValidFilter(f)
          BY <3>1 DEF Queues
        <5>2. QED
          BY <2>1, <5>1, TakesIsCovers
      <4>2. QED
        BY <4>1
    <3>3. Queues(Then(d))
      BY ThenFacts
    <3>4. /\ DOMAIN Then(d) = DOMAIN b
          /\ \A f \in DOMAIN b : Then(d)[f] = IF Takes(f, e.topic) THEN Append(b[f], e) ELSE b[f]
      <4>1. \A f \in Owed(d) : b[f] = IF f \in DOMAIN forwarders[d] THEN forwarders[d][f] ELSE Buffer(f)
        BY <1>2, ToSendFacts
      <4>2. /\ DOMAIN Then(d) = DOMAIN forwarders'[d] \cup {f \in spawned'[d] : IsLiteral(f)}
            /\ \A f \in DOMAIN Then(d) : Then(d)[f] = IF f \in DOMAIN forwarders'[d]
                                           THEN forwarders'[d][f] ELSE Replay(channels', f)
        BY ThenFacts
      <4>3. /\ DOMAIN forwarders'[d] = DOMAIN forwarders[d]
            /\ \A f \in DOMAIN forwarders[d] : forwarders'[d][f] =
                  IF Takes(f, e.topic) THEN Append(forwarders[d][f], e) ELSE forwarders[d][f]
        BY <2>2
      <4>4. ASSUME NEW f, IsLiteral(f)
            PROVE  Replay(channels', f) = IF Takes(f, e.topic) THEN Append(Buffer(f), e) ELSE Buffer(f)
        <5>1. CASE f \in DOMAIN channels'
          BY <2>2, <5>1 DEF Replay
        <5>2. CASE f \notin DOMAIN channels'
          <6>1. f \notin DOMAIN channels /\ f # e.topic
            BY <2>2, <5>2
          <6>2. ~Takes(f, e.topic)
            BY <4>4, <6>1 DEF Takes
          <6>3. QED
            BY <5>2, <6>1, <6>2 DEF Replay, Buffer
        <5>3. QED
          BY <5>1, <5>2
      <4>5. DOMAIN Then(d) = Owed(d) /\ \A f \in Owed(d) : f \in DOMAIN forwarders[d] \/ IsLiteral(f)
        BY <1>4, <4>2, <4>3 DEF Owed
      <4> HIDE DEF b
      <4>6. ASSUME NEW f \in Owed(d)
            PROVE  Then(d)[f] = IF Takes(f, e.topic) THEN Append(b[f], e) ELSE b[f]
        <5>1. CASE f \in DOMAIN forwarders[d]
          BY <4>1, <4>2, <4>3, <4>5, <5>1
        <5>2. CASE f \notin DOMAIN forwarders[d]
          BY <4>1, <4>2, <4>3, <4>4, <4>5, <5>2
        <5>3. QED
          BY <5>1, <5>2
      <4>7. QED
        BY <3>1, <4>5, <4>6
    <3> DEFINE z == Then(d)
    <3>7. /\ Queues(b) /\ Queues(z) /\ DOMAIN z = DOMAIN b
          /\ \A f \in DOMAIN b : z[f] = IF Takes(f, e.topic) THEN Append(b[f], e) ELSE b[f]
      BY <3>1, <3>3, <3>4
    <3> HIDE DEF b, z
    <3>5. /\ Waiting(z, id) = Waiting(b, id) + (IF e.id = id
                                THEN Cardinality({f \in DOMAIN b : Takes(f, e.topic)}) ELSE 0)
          /\ Cardinality({f \in DOMAIN b : Takes(f, e.topic)}) \in Nat
      <4>1. e \in Messages
        BY <2>1
      <4>2. Queues(b) /\ Queues(z)
        BY <3>7
      <4>3. DOMAIN z = DOMAIN b
        BY <3>7
      <4>4. \A f \in DOMAIN b : z[f] = IF Takes(f, e.topic) THEN Append(b[f], e) ELSE b[f]
        BY <3>7
      <4>5. QED
        BY <4>1, <4>2, <4>3, <4>4, WaitingPublish, ZenonT(120)
    <3>6. QED
      BY <3>1, <3>2, <3>5 DEF b, z
  <2>4. ASSUME NEW d \in Clients
        PROVE  /\ due'[d] \in Seq(Id)
               /\ \A id : Many(due'[d], {id}) = Many(due[d], {id}) + (IF e.id = id THEN N(d) ELSE 0)
    <3> DEFINE s == [i \in 1 .. N(d) |-> e.id]
    <3>1. N(d) \in Nat
      BY <2>3
    <3>2. due[d] \in Seq(Id) /\ due'[d] = due[d] \o s
      BY <1>1, <2>2
    <3> HIDE DEF N
    <3>3. s \in Seq(Id) /\ \A id : Many(s, {id}) = IF e.id = id THEN N(d) ELSE 0
      <4>1. PICK n \in Nat : n = N(d)
        BY <3>1
      <4>2. PICK x \in Id : x = e.id
        BY <2>1
      <4>3. s = [i \in 1 .. n |-> x]
        BY <4>1, <4>2
      <4>4. \A t : t = [i \in 1 .. n |-> x] =>
                    t \in Seq(Id) /\ DOMAIN t = 1 .. n /\ \A i \in 1 .. n : t[i] = x
        OBVIOUS
      <4> HIDE DEF s
      <4>5. s \in Seq(Id) /\ DOMAIN s = 1 .. n /\ \A i \in 1 .. n : s[i] = x
        BY <4>3, <4>4, Zenon
      <4>6. ASSUME NEW id PROVE Many(s, {id}) = IF x = id THEN n ELSE 0
        <5>1. Where(s, {id}) = IF x = id THEN 1 .. n ELSE {}
          BY <4>5 DEF Where
        <5>2. Cardinality(1 .. n) = n /\ Cardinality({}) = 0
          BY <4>1, UpTo
        <5>3. QED
          BY <5>1, <5>2 DEF Many
      <4>7. QED
        BY <4>1, <4>2, <4>5, <4>6
    <3> HIDE DEF s
    <3>4. due[d] \o s \in Seq(Id)
      BY <3>2, <3>3
    <3>5. \A id : Many(due[d] \o s, {id}) = Many(due[d], {id}) + Many(s, {id})
      BY <3>2, <3>3, ManyConcat
    <3>6. QED
      BY <3>2, <3>3, <3>4, <3>5
  <2>5. due' \in [Clients -> Seq(Id)]
    BY <2>2, <2>4
  <2> HIDE DEF N
  <2>6. ASSUME NEW d \in Clients, Counted(d), NEW id
        PROVE  Count(due'[d], id) = Held(client[d], down'[d], id) + Waiting(Then(d), id)
    <3> DEFINE x == IF e.id = id THEN N(d) ELSE 0
               h == Held(client[d], down[d], id)
               w == Waiting(ToSend(d), id)
    <3>1. Count(due[d], id) = h + w
      BY <1>1, <2>6 DEF Balanced
    <3>2. Count(due[d], id) = Many(due[d], {id}) /\ Count(due'[d], id) = Many(due'[d], {id})
      BY <1>1, <2>4, CountFacts
    <3>3. Many(due'[d], {id}) = Many(due[d], {id}) + x
      BY <2>4
    <3>4. Waiting(Then(d), id) = w + x /\ x \in Nat
      BY <2>3
    <3>5. w \in Nat
      BY <1>2, WaitingIsSlots
    <3>6. h \in Nat
      <4>1. /\ client[d].printed \in Seq(Id) /\ client[d].backlog \in Seq(Messages)
            /\ down[d] \in Seq(Frames)
        BY <1>2, StateFacts
      <4>2. /\ Held(client[d], down[d], id) = Many(client[d].printed, {id})
                 + Many(client[d].backlog, Delivery(id)) + Many(down[d], Delivery(id))
            /\ Many(client[d].printed, {id}) \in Nat /\ Many(client[d].backlog, Delivery(id)) \in Nat
            /\ Many(down[d], Delivery(id)) \in Nat
        BY <4>1, HeldFacts
      <4>3. QED
        BY <4>2
    <3>7. down'[d] = down[d]
      BY <1>4
    <3> HIDE DEF x, h, w
    <3>8. Many(due'[d], {id}) = h + (w + x)
      BY <3>1, <3>2, <3>3, <3>4, <3>5, <3>6
    <3>9. QED
      BY <3>2, <3>4, <3>7, <3>8 DEF h
  <2>7. QED
    BY <1>4, <2>5, <2>6, NodeCounts
<1>7. QED
  BY <1>5, <1>6 DEF HandlePublish

\* A subscription that is owed what is published from now on is due what its
\* channel's buffer replays.
LEMMA MoreIsDue ==
    ASSUME CountInv, FlowInv', NEW c \in Clients, NEW filter, UNCHANGED <<client, down>>,
           filter \notin DOMAIN ToSend(c), DOMAIN Then(c) = DOMAIN ToSend(c) \cup {filter},
           Then(c)[filter] = Buffer(filter), \A f \in DOMAIN ToSend(c) : Then(c)[f] = ToSend(c)[f],
           \A d \in Clients : d # c => Then(d) = ToSend(d),
           due' = [due EXCEPT ![c] = due[c] \o [i \in DOMAIN Buffer(filter) |-> Buffer(filter)[i].id]]
    PROVE  CountInv'
<1> DEFINE buffer == Buffer(filter)
           a == ToSend(c)
           b == Then(c)
           ids == [i \in DOMAIN buffer |-> buffer[i].id]
<1>1. FlowInv /\ due \in [Clients -> Seq(Id)] /\ \A d \in Clients : Counted(d) => Balanced(d)
  BY DEF CountInv
<1>2. /\ ClientsOK /\ NodeOK /\ down \in [Clients -> Seq(Frames)] /\ Queues(channels) /\ Queues(a)
  BY <1>1, FlowFacts, ToSendFacts DEF NodeOK
<1>3. UNCHANGED <<client, down>> /\ Queues(b)
  BY ThenFacts
<1>4. buffer \in Seq(Messages)
  BY <1>2, BufferFacts
<1>5. /\ ToSend(c) = a /\ Then(c) = b /\ filter \notin DOMAIN a /\ DOMAIN b = DOMAIN a \cup {filter}
      /\ b[filter] = buffer /\ \A f \in DOMAIN a : b[f] = a[f]
      /\ due' = [due EXCEPT ![c] = due[c] \o ids]
  OBVIOUS
<1> HIDE DEF buffer, a, b
<1>6. ids \in Seq(Id) /\ \A id : Many(ids, {id}) = Many(buffer, Delivery(id))
  BY <1>4, IdsFacts
<1> HIDE DEF ids
<1>7. /\ due'[c] = due[c] \o ids /\ due[c] \in Seq(Id)
      /\ \A d \in Clients : d # c => due'[d] = due[d]
  BY <1>1, <1>5
<1>8. due[c] \o ids \in Seq(Id)
  BY <1>6, <1>7
<1>9. due' \in [Clients -> Seq(Id)]
  BY <1>1, <1>5, <1>8
<1>10. ASSUME NEW id PROVE Waiting(b, id) = Waiting(a, id) + Many(buffer, Delivery(id))
  <2>1. DOMAIN b \ {filter} = DOMAIN a /\ filter \in DOMAIN b
    BY <1>5
  <2>2. Slots(b, DOMAIN a, id) = Slots(a, DOMAIN a, id)
    BY <1>5, SlotsSame
  <2>3. Waiting(b, id) = Cardinality(Slots(b, DOMAIN b \ {filter}, id)) + Many(b[filter], Delivery(id))
    BY <1>3, <2>1, WaitingSplit
  <2>4. Waiting(a, id) = Cardinality(Slots(a, DOMAIN a, id))
    BY <1>2, WaitingIsSlots
  <2>5. QED
    BY <1>5, <2>1, <2>2, <2>3, <2>4
<1>11. ASSUME NEW d \in Clients, Counted(d), NEW id
       PROVE  Count(due'[d], id) = Held(client[d], down'[d], id) + Waiting(Then(d), id)
  <2>1. Count(due[d], id) = Held(client[d], down[d], id) + Waiting(ToSend(d), id)
    BY <1>1, <1>11 DEF Balanced
  <2>2. CASE d # c
    BY <1>3, <1>7, <2>1, <2>2
  <2>3. CASE d = c
    <3> DEFINE x == Many(buffer, Delivery(id))
               h == Held(client[c], down[c], id)
               w == Waiting(a, id)
    <3>1. Many(due[c], {id}) = h + w
      BY <1>5, <1>7, <2>1, <2>3, CountFacts
    <3>2. Count(due'[c], id) = Many(due[c], {id}) + x
      <4>1. Many(due[c] \o ids, {id}) = Many(due[c], {id}) + Many(ids, {id})
        BY <1>6, <1>7, ManyConcat
      <4>2. Count(due[c] \o ids, id) = Many(due[c] \o ids, {id})
        BY <1>8, CountFacts
      <4>3. QED
        BY <1>6, <1>7, <4>1, <4>2
    <3>3. Waiting(Then(c), id) = w + x
      BY <1>5, <1>10
    <3>4. w \in Nat /\ x \in Nat
      BY <1>2, <1>4, WaitingIsSlots, WhereFacts
    <3>5. h \in Nat
      <4>1. /\ client[c].printed \in Seq(Id) /\ client[c].backlog \in Seq(Messages)
            /\ down[c] \in Seq(Frames)
        BY <1>2, StateFacts
      <4>2. /\ Held(client[c], down[c], id) = Many(client[c].printed, {id})
                 + Many(client[c].backlog, Delivery(id)) + Many(down[c], Delivery(id))
            /\ Many(client[c].printed, {id}) \in Nat /\ Many(client[c].backlog, Delivery(id)) \in Nat
            /\ Many(down[c], Delivery(id)) \in Nat
        BY <4>1, HeldFacts
      <4>3. QED
        BY <4>2
    <3>6. down'[c] = down[c]
      BY <1>3
    <3> HIDE DEF x, h, w
    <3>7. Count(due'[c], id) = h + (w + x)
      BY <3>1, <3>2, <3>4, <3>5
    <3>8. QED
      BY <2>3, <3>3, <3>6, <3>7 DEF h
  <2>4. QED
    BY <2>2, <2>3
<1>12. QED
  BY <1>3, <1>9, <1>11, NodeCounts

\* handle_subscribe owes what the buffer of a literal topic holds, and
\* nothing yet to a wildcard.
LEMMA SubscribeCounts ==
    ASSUME CountInv, FlowInv', NEW c \in Clients, HandleSubscribe(c)
    PROVE  CountInv'
<1> DEFINE filter == Frame(c).topic
<1>1. FlowInv /\ due \in [Clients -> Seq(Id)]
  BY DEF CountInv
<1>2. /\ NodeOK /\ forwarders = [d \in Clients |-> forwarders[d]]
      /\ spawned = [d \in Clients |-> spawned[d]]
  BY <1>1, FlowFacts DEF NodeOK
<1>3. UNCHANGED <<client, down, forwarders, channels>>
  BY DEF HandleSubscribe
<1>4. \/ UNCHANGED <<spawned, due>>
      \/ /\ filter \notin DOMAIN forwarders[c] \cup spawned[c]
         /\ spawned' = [spawned EXCEPT ![c] = spawned[c] \cup {filter}]
         /\ due' = [due EXCEPT ![c] = due[c] \o DueAtOnce(filter)]
  BY DEF HandleSubscribe
<1>5. CASE UNCHANGED <<spawned, due>>
  <2>1. \A d \in Clients : Then(d) = ToSend(d)
    BY <1>3, <1>5, SameSends
  <2>2. QED
    BY <1>3, <1>5, <2>1, AnswerCounts
<1>6. CASE /\ filter \notin DOMAIN forwarders[c] \cup spawned[c]
           /\ spawned' = [spawned EXCEPT ![c] = spawned[c] \cup {filter}]
           /\ due' = [due EXCEPT ![c] = due[c] \o DueAtOnce(filter)]
  <2> HIDE DEF filter
  <2>1. /\ spawned'[c] = spawned[c] \cup {filter}
        /\ \A d \in Clients : d # c => spawned'[d] = spawned[d]
    BY <1>2, <1>6
  <2>2. \A d \in Clients : d # c => Then(d) = ToSend(d)
    BY <1>3, <2>1, SameSends
  <2>3. \A f : Replay(channels', f) = Buffer(f)
    BY <1>3 DEF Replay, Buffer
  <2>4. DOMAIN ToSend(c) = Owed(c) /\ \A f \in Owed(c) : ToSend(c)[f] =
           IF f \in DOMAIN forwarders[c] THEN forwarders[c][f] ELSE Buffer(f)
    BY <1>2, ToSendFacts
  <2>5. DOMAIN Then(c) = DOMAIN forwarders[c] \cup {f \in spawned[c] \cup {filter} : IsLiteral(f)}
    BY <1>3, <2>1, ThenFacts
  <2>6. \A f \in DOMAIN Then(c) : Then(c)[f] =
           IF f \in DOMAIN forwarders[c] THEN forwarders[c][f] ELSE Buffer(f)
    BY <1>3, <2>3, ThenFacts
  <2>7. CASE IsLiteral(filter)
    <3>1. filter \notin DOMAIN ToSend(c) /\ DOMAIN Then(c) = DOMAIN ToSend(c) \cup {filter}
      BY <1>6, <2>4, <2>5, <2>7 DEF Owed
    <3>2. Then(c)[filter] = Buffer(filter) /\ \A f \in DOMAIN ToSend(c) : Then(c)[f] = ToSend(c)[f]
      BY <1>6, <2>4, <2>6, <3>1
    <3>3. due' = [due EXCEPT ![c] = due[c] \o [i \in DOMAIN Buffer(filter) |-> Buffer(filter)[i].id]]
      BY <1>6, <2>7 DEF DueAtOnce
    <3>4. QED
      BY <1>3, <2>2, <3>1, <3>2, <3>3, MoreIsDue
  <2>8. CASE ~IsLiteral(filter)
    <3>1. DOMAIN Then(c) = DOMAIN ToSend(c)
      BY <2>4, <2>5, <2>8 DEF Owed
    <3>2. \A f \in DOMAIN ToSend(c) : Then(c)[f] = ToSend(c)[f]
      BY <2>4, <2>6, <3>1
    <3>3. Then(c) = ToSend(c)
      BY <3>1, <3>2 DEF Then, Sends, ToSend
    <3>4. due' = due
      <4>1. due[c] \o <<>> = due[c]
        BY <1>1
      <4>2. DueAtOnce(filter) = <<>>
        BY <2>8 DEF DueAtOnce
      <4>3. QED
        BY <1>1, <1>6, <4>1, <4>2
    <3>5. QED
      BY <1>3, <2>2, <3>3, <3>4, AnswerCounts
  <2>9. QED
    BY <2>7, <2>8
<1>7. QED
  BY <1>4, <1>5, <1>6

\* A forwarder that starts finds what it was owed, and a wildcard's is due
\* what it starts with.
LEMMA ForwarderCounts ==
    ASSUME CountInv, FlowInv', NEW c \in Clients, NEW filter \in spawned[c], StartForwarder(c, filter)
    PROVE  CountInv'
<1>1. FlowInv /\ due \in [Clients -> Seq(Id)]
  BY DEF CountInv
<1>2. /\ NodeOK /\ forwarders = [d \in Clients |-> forwarders[d]]
      /\ spawned = [d \in Clients |-> spawned[d]] /\ filter \notin DOMAIN forwarders[c]
  BY <1>1, FlowFacts DEF NodeOK, SpawnOK
<1> DEFINE b == [g \in DOMAIN forwarders[c] \cup {filter} |->
                   IF g = filter THEN Buffer(filter) ELSE forwarders[c][g]]
<1>3. /\ UNCHANGED <<client, down>> /\ forwarders' = [forwarders EXCEPT ![c] = b]
      /\ spawned' = [spawned EXCEPT ![c] = spawned[c] \ {filter}]
      /\ channels' = [g \in DOMAIN channels \cup {filter} |-> Buffer(g)]
      /\ due' = IF IsLiteral(filter) THEN due ELSE
                [due EXCEPT ![c] = due[c] \o [i \in DOMAIN Buffer(filter) |-> Buffer(filter)[i].id]]
  BY DEF StartForwarder
<1>4. /\ DOMAIN b = DOMAIN forwarders[c] \cup {filter} /\ b[filter] = Buffer(filter)
      /\ \A g \in DOMAIN forwarders[c] : b[g] = forwarders[c][g]
  BY <1>2
<1> HIDE DEF b
<1>5. /\ forwarders'[c] = b /\ spawned'[c] = spawned[c] \ {filter}
      /\ \A d \in Clients : d # c => forwarders'[d] = forwarders[d] /\ spawned'[d] = spawned[d]
  BY <1>2, <1>3
<1>6. \A f : Replay(channels', f) = Buffer(f) /\ Replay(channels, f) = Buffer(f)
  BY <1>3 DEF Replay, Buffer
<1>7. \A d \in Clients : d # c => Then(d) = ToSend(d)
  BY <1>5, <1>6, SameSends
<1>8. DOMAIN ToSend(c) = Owed(c) /\ \A f \in Owed(c) : ToSend(c)[f] =
         IF f \in DOMAIN forwarders[c] THEN forwarders[c][f] ELSE Buffer(f)
  BY <1>2, ToSendFacts
<1>9. /\ DOMAIN Then(c) = DOMAIN b \cup {f \in spawned[c] \ {filter} : IsLiteral(f)}
      /\ \A f \in DOMAIN Then(c) : Then(c)[f] = IF f \in DOMAIN b THEN b[f] ELSE Buffer(f)
  BY <1>5, <1>6, ThenFacts
<1>10. DOMAIN Then(c) = Owed(c) \cup {filter}
  BY <1>4, <1>9 DEF Owed
<1>11. ASSUME NEW f \in Owed(c) PROVE Then(c)[f] = ToSend(c)[f]
  <2>1. CASE f \in DOMAIN forwarders[c]
    BY <1>4, <1>8, <1>9, <1>10, <2>1
  <2>2. CASE f \notin DOMAIN forwarders[c]
    BY <1>4, <1>8, <1>9, <1>10, <2>2
  <2>3. QED
    BY <2>1, <2>2
<1>12. CASE IsLiteral(filter)
  <2>1. DOMAIN Then(c) = DOMAIN ToSend(c)
    BY <1>8, <1>10, <1>12 DEF Owed
  <2>2. \A f \in DOMAIN ToSend(c) : Then(c)[f] = ToSend(c)[f]
    BY <1>8, <1>11
  <2>3. Then(c) = ToSend(c)
    BY <2>1, <2>2 DEF Then, Sends, ToSend
  <2>4. QED
    BY <1>3, <1>7, <1>12, <2>3, AnswerCounts
<1>13. CASE ~IsLiteral(filter)
  <2>1. filter \notin DOMAIN ToSend(c) /\ DOMAIN Then(c) = DOMAIN ToSend(c) \cup {filter}
    BY <1>2, <1>8, <1>10, <1>13 DEF Owed
  <2>2. Then(c)[filter] = Buffer(filter) /\ \A f \in DOMAIN ToSend(c) : Then(c)[f] = ToSend(c)[f]
    BY <1>4, <1>8, <1>9, <1>10, <1>11
  <2>3. due' = [due EXCEPT ![c] = due[c] \o [i \in DOMAIN Buffer(filter) |-> Buffer(filter)[i].id]]
    BY <1>3, <1>13
  <2>4. QED
    BY <1>3, <1>7, <2>1, <2>2, <2>3, MoreIsDue
<1>14. QED
  BY <1>12, <1>13

\* Nothing is due at first.
LEMMA CountInit == SessionInit => CountInv
<1> SUFFICES ASSUME SessionInit PROVE CountInv
  OBVIOUS
<1>1. FlowInv
  BY FlowInit
<1>2. /\ due = [c \in Clients |-> <<>>] /\ due \in [Clients -> Seq(Id)]
      /\ \A c \in Clients : /\ client[c].printed = <<>> /\ client[c].backlog = <<>>
                            /\ down[c] = <<>> /\ forwarders[c] = <<>> /\ spawned[c] = {}
  BY DEF SessionInit, NewClient
<1>3. \A id : Count(<<>>, id) = 0 /\ Copies(<<>>, id) = 0
  BY FS_EmptySet DEF Count, Copies
<1>5. ASSUME NEW c \in Clients PROVE Balanced(c)
  <2>1. DOMAIN ToSend(c) = {}
    BY <1>2, NoQueues DEF ToSend, Owed
  <2>2. ASSUME NEW id PROVE Waiting(ToSend(c), id) = 0
    <3>1. UNION {{f} \X {i \in DOMAIN ToSend(c)[f] : ToSend(c)[f][i].id = id} : f \in DOMAIN ToSend(c)} = {}
      BY <2>1
    <3>2. QED
      BY <3>1, FS_EmptySet DEF Waiting
  <2>3. QED
    BY <1>2, <1>3, <2>2 DEF Balanced, Held
<1>6. QED
  BY <1>1, <1>2, <1>5 DEF CountInv

\* Every step keeps the deliveries in balance.
LEMMA CountStep == CountInv /\ [SessionNext]_sessionVars => CountInv'
<1> SUFFICES ASSUME CountInv, [SessionNext]_sessionVars PROVE CountInv'
  OBVIOUS
<1>1. FlowInv /\ FlowInv'
  BY FlowStep DEF CountInv
<1>2. ASSUME NEW c \in Clients, ClientStep(c) \/ StartFails(c) \/ Interrupt(c) PROVE CountInv'
  BY <1>1, <1>2, ClientCounts
<1>3. ASSUME NEW c \in Clients, NodeStep(c) PROVE CountInv'
  BY <1>1, <1>3, SubscribeCounts, ForwarderCounts, PublishCounts, ReplyCounts, ForwardCounts, EndCounts
     DEF NodeStep
<1>4. CASE Time \/ UNCHANGED sessionVars
  <2>1. UNCHANGED <<client, down, spawned, forwarders, channels, due>>
    BY <1>4 DEF Time, sessionVars
  <2>2. \A d \in Clients : Then(d) = ToSend(d)
    BY <2>1, SameSends
  <2>3. QED
    BY <1>1, <2>1, <2>2, AnswerCounts
<1>5. QED
  BY <1>2, <1>3, <1>4 DEF SessionNext

(***************************************************************************)
(* Every message is where the meaning of the filters puts it, once per     *)
(* subscription that covers its topic: printed, buffered by subscribe_all  *)
(* while it waits for its Acks, on its way, waiting in a forwarder or in   *)
(* the buffer it will replay, for any filters and any order of             *)
(* subscribing, publishing and starting the tasks.  A literal filter is    *)
(* owed from its Ack on; a wildcard only from when its task has a receiver *)
(* (handle_subscribe, spawn_forwarder, Broker::subscribe and publish,      *)
(* TopicFilter::matches, subscribe_all, print_and_maybe_ack).              *)
(***************************************************************************)
THEOREM NothingIsLost == SessionSpec => []NothingLost
<1>1. CountInv => NothingLost
  BY DEF CountInv, Counted, Balanced, Held, NothingLost
<1>2. QED
  BY <1>1, CountInit, CountStep, PTL DEF SessionSpec
=============================================================================
