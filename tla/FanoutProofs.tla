---------------------------- MODULE FanoutProofs -----------------------------
(***************************************************************************)
(* Proofs about the broker, for every capacity and for any numbers of      *)
(* publishers, forwarders, topics and ids.  In order:                      *)
(*                                                                         *)
(*  - the dedup window (SeenIds).  Whatever publishes, subscribes and      *)
(*    forwarders do, the window only changes by a call of record, so that  *)
(*    Fanout implements SeenIds and inherits what is proved of it;         *)
(*  - delivery.  BrokerOK is what channels, maps and tasks look like;      *)
(*    FanoutInv adds that an accepted id is sent on at most one exact      *)
(*    channel and once, and that what a forwarder handed out, holds and    *)
(*    will receive (its stream) is a part of what its channel was sent, in *)
(*    the same order, and the end of it where no loss was reported;        *)
(*  - the two topic maps: their queues hold their keys, each once;         *)
(*  - the current value: what a topic retains has reached every forwarder  *)
(*    that matches it, or a publish on its way will deliver it.            *)
(***************************************************************************)
EXTENDS Fanout, FiniteSetTheorems, FunctionTheorems, NaturalsInduction, TLAPS

-----------------------------------------------------------------------------
(* SeenIds.  DedupWindow is not inductive by itself: what keeps it true is  *)
(* that the queue is exactly the last ids accepted, so that an id the set   *)
(* does not hold was accepted long ago or never.                            *)

\* The queue is the tail of the history, all of it until the window is full.
QueueIsTail ==
    LET n == Len(accepted)
        m == Len(seen.order)
    IN  /\ m <= n
        /\ m < SeenCapacity => m = n
        /\ \A k \in 1 .. m : seen.order[k] = accepted[n - m + k]

SeenInv == SeenTypeOK /\ SeenAgree /\ QueueIsTail /\ DedupWindow

\* Before the first call nothing was seen and nothing accepted (SeenIds::new).
LEMMA SeenInitInv == SeenInit => SeenInv
  BY SeenCapacityAssumption
     DEF SeenInit, SeenInv, SeenTypeOK, SeenAgree, QueueIsTail, DedupWindow, SeenNew

\* One successful call of record preserves the invariant.
LEMMA AcceptInv ==
    ASSUME NEW id \in Ids, SeenInv, Accept(id)
    PROVE  SeenInv'
<1> DEFINE n == Len(accepted)
           m == Len(seen.order)
           order == Append(seen.order, id)
<1>0. /\ seen.order \in Seq(Ids) /\ seen.set \in SUBSET Ids
      /\ accepted \in Seq(Ids)
      /\ n \in Nat /\ m \in Nat /\ SeenCapacity \in Nat \ {0}
      /\ m <= SeenCapacity
      /\ seen = [order |-> seen.order, set |-> seen.set]
  BY SeenCapacityAssumption DEF SeenInv, SeenTypeOK
<1>1. /\ id \notin seen.set
      /\ accepted' = Append(accepted, id)
      /\ accepted' \in Seq(Ids)
      /\ Len(accepted') = n + 1
      /\ accepted'[n + 1] = id
      /\ \A i \in 1 .. n : accepted'[i] = accepted[i]
  BY <1>0 DEF Accept, IsNew
<1>2. /\ order \in Seq(Ids) /\ Len(order) = m + 1 /\ order[m + 1] = id
      /\ \A i \in 1 .. m : order[i] = seen.order[i]
  BY <1>0
<1>20. n = Len(accepted) /\ m = Len(seen.order) /\ order = Append(seen.order, id)
  OBVIOUS
<1>3. \A i, j \in 1 .. m : seen.order[i] = seen.order[j] => i = j
  BY DEF SeenInv, SeenAgree
<1>4. seen.set = {seen.order[i] : i \in 1 .. m}
  BY DEF SeenInv, SeenAgree
<1>5. /\ m <= n
      /\ m < SeenCapacity => m = n
      /\ \A k \in 1 .. m : seen.order[k] = accepted[n - m + k]
  BY DEF SeenInv, QueueIsTail
<1> HIDE DEF n, m, order
<1>9. \A i, j \in 1 .. m + 1 : order[i] = order[j] => i = j
  <2>1. \A i \in 1 .. m : order[i] # id
    BY <1>1, <1>2, <1>4
  <2>2. \A i \in 1 .. m + 1 : i \in 1 .. m \/ i = m + 1
    BY <1>0
  <2> QED BY <1>2, <1>3, <2>1, <2>2
<1>6. DedupWindow'
  <2> SUFFICES ASSUME NEW i \in 1 .. n + 1, NEW j \in 1 .. n + 1,
                      i < j, accepted'[i] = accepted'[j]
               PROVE  j - i > SeenCapacity
    BY <1>0, <1>1 DEF DedupWindow
  <2>0. \A p, q \in 1 .. n : p < q /\ accepted[p] = accepted[q] => q - p > SeenCapacity
    BY <1>20 DEF SeenInv, DedupWindow
  <2>1. CASE j <= n
    BY <2>0, <2>1, <1>0, <1>1
  <2>2. CASE j = n + 1
    <3>1. accepted[i] = id /\ i \in 1 .. n
      BY <2>2, <1>0, <1>1
    <3>2. i <= n - m
      <4> SUFFICES ASSUME i > n - m PROVE FALSE
        BY <1>0
      <4>1. i - (n - m) \in 1 .. m /\ n - m + (i - (n - m)) = i
        BY <3>1, <1>0, <1>5
      <4>2. seen.order[i - (n - m)] = id
        BY <4>1, <3>1, <1>5
      <4> QED BY <4>1, <4>2, <1>1, <1>4
    <3> QED BY <2>2, <3>1, <3>2, <1>0, <1>5
  <2> QED BY <2>1, <2>2, <1>0
<1>7. CASE Len(order) > SeenCapacity
  <2> DEFINE rest == Tail(order)
             first == Head(order)
  <2>1. seen' = [order |-> rest, set |-> (seen.set \cup {id}) \ {first}]
    BY <1>7, <1>1, <1>20 DEF Accept, Recorded, IsNew
  <2>2. /\ rest \in Seq(Ids) /\ Len(rest) = m
        /\ \A k \in 1 .. m : rest[k] = order[k + 1]
        /\ first = order[1] /\ first = seen.order[1]
        /\ m = SeenCapacity
    BY <1>0, <1>2, <1>7
  <2> HIDE DEF rest, first
  <2>3. seen'.order = rest
        /\ seen'.set = (seen.set \cup {id}) \ {first}
    BY <2>1
  <2>4. SeenTypeOK'
    BY <2>1, <2>2, <1>0, <1>1, <1>2 DEF SeenTypeOK
  <2>5. SeenAgree'
    <3>1. \A i, j \in 1 .. m + 1 : order[i] = order[j] => i = j
      BY <1>9
    <3>2. \A i, j \in 1 .. m : rest[i] = rest[j] => i = j
      <4> SUFFICES ASSUME NEW i \in 1 .. m, NEW j \in 1 .. m, rest[i] = rest[j]
                   PROVE  i = j
        OBVIOUS
      <4>1. order[i + 1] = order[j + 1]
        BY <2>2
      <4>2. i + 1 \in 1 .. m + 1 /\ j + 1 \in 1 .. m + 1
        BY <1>0
      <4>3. i + 1 = j + 1
        BY <4>1, <4>2, <3>1
      <4> QED BY <4>3, <1>0
    <3>3. (seen.set \cup {id}) \ {first} = {rest[i] : i \in 1 .. m}
      <4>1. ASSUME NEW x \in (seen.set \cup {id}) \ {first}
            PROVE  \E i \in 1 .. m : x = rest[i]
        <5>1. PICK k \in 1 .. m + 1 : x = order[k]
          BY <1>0, <1>2, <1>4
        <5>2. k # 1
          BY <5>1, <2>2
        <5>3. k - 1 \in 1 .. m /\ rest[k - 1] = order[k]
          BY <5>2, <2>2, <1>0
        <5> QED BY <5>1, <5>3
      <4>2. ASSUME NEW i \in 1 .. m
            PROVE  rest[i] \in (seen.set \cup {id}) \ {first}
        <5>1. rest[i] = order[i + 1] /\ i + 1 \in 1 .. m + 1
          BY <2>2, <1>0
        <5>2. order[i + 1] \in seen.set \cup {id}
          <6>1. CASE i + 1 = m + 1
            BY <6>1, <1>2
          <6>2. CASE i + 1 \in 1 .. m
            BY <6>2, <1>2, <1>4
          <6> QED BY <6>1, <6>2, <5>1, <1>0
        <5>3. order[i + 1] # order[1]
          BY <3>1, <5>1, <1>0
        <5> QED BY <5>1, <5>2, <5>3, <2>2
      <4> QED BY <4>1, <4>2
    <3>4. Len(seen'.order) = m
      BY <2>2, <2>3
    <3>5. \A i, j \in 1 .. Len(seen'.order) :
             seen'.order[i] = seen'.order[j] => i = j
      BY <2>3, <3>2, <3>4
    <3>6. seen'.set = {seen'.order[i] : i \in 1 .. Len(seen'.order)}
      BY <2>3, <3>3, <3>4, Zenon
    <3> QED BY <3>5, <3>6, Zenon DEF SeenAgree
  <2>6. QueueIsTail'
    <3>1. \A k \in 1 .. m : rest[k] = accepted'[(n + 1) - m + k]
      <4> SUFFICES ASSUME NEW k \in 1 .. m
                   PROVE  rest[k] = accepted'[(n + 1) - m + k]
        OBVIOUS
      <4>1. CASE k = m
        BY <4>1, <2>2, <1>0, <1>1, <1>2
      <4>2. CASE k < m
        <5>1. /\ k + 1 \in 1 .. m
              /\ order[k + 1] = accepted[n - m + (k + 1)]
          BY <4>2, <1>0, <1>2, <1>5
        <5>2. n - m + (k + 1) = (n + 1) - m + k /\ (n + 1) - m + k \in 1 .. n
          <6>1. n \in Nat /\ m \in Nat /\ m <= n
            BY <1>0, <1>5
          <6> QED BY <4>2, <6>1
        <5> QED BY <5>1, <5>2, <2>2, <1>1
      <4> QED BY <4>1, <4>2, <1>0
    <3>2. seen'.order = rest /\ Len(seen'.order) = m /\ Len(accepted') = n + 1
      BY <2>2, <2>3, <1>1
    <3>3. m <= n + 1 /\ ~(m < SeenCapacity)
      BY <2>2, <1>0, <1>5
    <3>4. \A k \in 1 .. Len(seen'.order) :
             seen'.order[k] = accepted'[Len(accepted') - Len(seen'.order) + k]
      <4> SUFFICES ASSUME NEW k \in 1 .. m
                   PROVE  rest[k] = accepted'[(n + 1) - m + k]
        BY <3>2
      <4> QED BY <3>1
    <3> QED BY <3>2, <3>3, <3>4, Zenon DEF QueueIsTail
  <2> QED BY <2>4, <2>5, <2>6, <1>6 DEF SeenInv
<1>8. CASE ~(Len(order) > SeenCapacity)
  <2>1. seen' = [order |-> order, set |-> seen.set \cup {id}]
    BY <1>8, <1>1, <1>20 DEF Accept, Recorded, IsNew
  <2>2. seen'.order = order /\ seen'.set = seen.set \cup {id}
    BY <2>1
  <2>3. m < SeenCapacity /\ m = n
    BY <1>8, <1>0, <1>2, <1>5
  <2>4. SeenTypeOK'
    BY <2>1, <2>3, <1>0, <1>1, <1>2 DEF SeenTypeOK
  <2>5. SeenAgree'
    <3>1. \A i, j \in 1 .. m + 1 : order[i] = order[j] => i = j
      BY <1>9
    <3>2. seen.set \cup {id} = {order[i] : i \in 1 .. m + 1}
      <4>1. 1 .. m \subseteq 1 .. m + 1 /\ m + 1 \in 1 .. m + 1
        BY <1>0
      <4>2. \A i \in 1 .. m + 1 : i \in 1 .. m \/ i = m + 1
        BY <1>0
      <4>3. ASSUME NEW x \in seen.set \cup {id}
            PROVE  x \in {order[i] : i \in 1 .. m + 1}
        BY <4>1, <1>2, <1>4, Zenon
      <4>4. ASSUME NEW i \in 1 .. m + 1
            PROVE  order[i] \in seen.set \cup {id}
        BY <4>2, <1>2, <1>4, Zenon
      <4> QED BY <4>3, <4>4, Zenon
    <3> QED BY <2>2, <3>1, <3>2, <1>2 DEF SeenAgree
  <2>6. QueueIsTail'
    <3>1. \A k \in 1 .. m + 1 : order[k] = accepted'[k]
      BY <2>3, <1>0, <1>1, <1>2, <1>5
    <3>2. \A k \in 1 .. m + 1 : (n + 1) - (m + 1) + k = k
      BY <2>3, <1>0
    <3> QED BY <3>1, <3>2, <2>2, <2>3, <1>0, <1>1, <1>2 DEF QueueIsTail
  <2> QED BY <2>4, <2>5, <2>6, <1>6 DEF SeenInv
<1> QED BY <1>7, <1>8

\* A repeat changes nothing, so every step preserves the invariant.
LEMMA SeenStepInv == SeenInv /\ [SeenNext]_seenVars => SeenInv'
<1> SUFFICES ASSUME SeenInv, [SeenNext]_seenVars PROVE SeenInv'
  OBVIOUS
<1>1. CASE UNCHANGED seenVars
  BY <1>1 DEF seenVars, SeenInv, SeenTypeOK, SeenAgree, QueueIsTail, DedupWindow
<1>2. ASSUME NEW id \in Ids, Accept(id) PROVE SeenInv'
  BY <1>2, AcceptInv
<1>3. ASSUME NEW id \in Ids, Repeat(id) PROVE SeenInv'
  BY <1>1, <1>3 DEF Repeat
<1> QED BY <1>1, <1>2, <1>3 DEF SeenNext

\* The queue and the set of SeenIds::record have their types and stay within
\* the window, in every behaviour of the structure.
THEOREM SeenTypes == SeenSpec => []SeenTypeOK
<1>1. SeenInv => SeenTypeOK
  BY DEF SeenInv
<1> QED BY <1>1, SeenInitInv, SeenStepInv, PTL DEF SeenSpec

\* The queue and the set never disagree (SeenIds::record).
THEOREM SeenConsistent == SeenSpec => []SeenAgree
<1>1. SeenInv => SeenAgree
  BY DEF SeenInv
<1> QED BY <1>1, SeenInitInv, SeenStepInv, PTL DEF SeenSpec

\* Loop prevention for every window: an id that Broker::publish lets through
\* twice was separated by at least SeenCapacity other publishes.
THEOREM LoopPrevention == SeenSpec => []DedupWindow
<1>1. SeenInv => DedupWindow
  BY DEF SeenInv
<1> QED BY <1>1, SeenInitInv, SeenStepInv, PTL DEF SeenSpec

-----------------------------------------------------------------------------
(* Fanout implements SeenIds.                                               *)

\* Of all steps only the beginning of a publish touches the window.
LEMMA FanoutStepIsSeenStep == [FanoutNext]_fanoutVars => [SeenNext]_seenVars
<1> SUFFICES ASSUME [FanoutNext]_fanoutVars PROVE [SeenNext]_seenVars
  OBVIOUS
<1>1. ASSUME NEW p \in Publishers, NEW id \in Ids, PublishBegin(p, id)
      PROVE  SeenNext
  BY <1>1 DEF PublishBegin, SeenNext
<1>2. ASSUME NEW p \in Publishers, PublishStep(p)
      PROVE  UNCHANGED seenVars
  BY <1>2 DEF PublishStep, PublishFetch, PublishExact, PublishLock, PublishPattern, PublishDone
<1>3. ASSUME NEW s \in Subscribers, ForwarderStep(s) \/ End(s) \/ ClientReads(s)
      PROVE  UNCHANGED seenVars
  BY <1>3 DEF ForwarderStep, SubscribeExact, SubscribePattern, ScanLock, ScanTopic, ScanDone,
              Forward, Receive, End, ClientReads
<1>4. CASE UNCHANGED fanoutVars
  BY <1>4 DEF fanoutVars, seenVars
<1> QED BY <1>1, <1>2, <1>3, <1>4 DEF FanoutNext

\* The broker implements its dedup window.
THEOREM FanoutImplementsSeenIds == FanoutSpec => SeenSpec
<1>1. FanoutInit => SeenInit
  BY DEF FanoutInit
<1> QED BY <1>1, FanoutStepIsSeenStep, PTL DEF FanoutSpec, SeenSpec

\* Loop prevention in the broker: Broker::publish lets an id through a second
\* time only after more than SeenCapacity publishes, whatever else goes on.
THEOREM FanoutLoopPrevention == FanoutSpec => []DedupWindow
  BY FanoutImplementsSeenIds, LoopPrevention, PTL

\* Queue and set of the window agree, whatever else the broker does.
THEOREM FanoutWindowConsistent == FanoutSpec => []SeenAgree
  BY FanoutImplementsSeenIds, SeenConsistent, PTL
-----------------------------------------------------------------------------
(* Facts about sequences.                                                   *)

Elements(q) == {q[i] : i \in 1 .. Len(q)}

Distinct(q) == \A i, j \in 1 .. Len(q) : i < j => q[i] # q[j]

\* What all and sent have in common is in the same order in both.
SameOrder(all, sent) ==
    \A i, j \in 1 .. Len(all) : \A m, n \in 1 .. Len(sent) :
        i < j /\ sent[m] = all[i] /\ sent[n] = all[j] => m < n

\* all is the end of sent, from position a on.
TailFrom(all, sent, a) ==
    /\ a + Len(all) = Len(sent)
    /\ \A k \in 1 .. Len(all) : all[k] = sent[a + k]

IsTailOf(all, sent) == \E a \in Nat : TailFrom(all, sent, a)

\* The order of the natural numbers, as a relation.
Less == {ss \in Nat \X Nat : ss[1] < ss[2]}

\* A set of numbers that is not empty has a least one, which the model's Min is.
LEMMA MinExists ==
    ASSUME NEW T \in SUBSET Nat, T # {}
    PROVE  Min(T) \in T /\ \A y \in T : Min(T) <= y
<1>1. IsWellFoundedOn(Less, Nat)
  BY NatLessThanWellFounded, Zenon DEF OpToRel, Less
<1>2. PICK x \in T : \A y \in T : ~ (<<y, x>> \in Less)
  BY <1>1, WFMin
<1>3. ASSUME NEW y \in T PROVE x <= y
  <2>1. <<y, x>> \notin Less /\ x \in Nat /\ y \in Nat
    BY <1>2
  <2>2. (y < x) => <<y, x>> \in Less
    BY <2>1 DEF Less
  <2>3. QED
    BY <2>1, <2>2
<1>4. QED
  BY <1>3 DEF Min

\* What Append does.
LEMMA AppendFacts ==
    ASSUME NEW S, NEW q \in Seq(S), NEW x \in S
    PROVE  /\ Append(q, x) \in Seq(S) /\ Len(q) \in Nat /\ Len(Append(q, x)) = Len(q) + 1
           /\ Append(q, x)[Len(q) + 1] = x
           /\ \A i \in 1 .. Len(q) : Append(q, x)[i] = q[i]
  OBVIOUS

\* The elements of a sequence one longer.
LEMMA AppendElements ==
    ASSUME NEW S, NEW q \in Seq(S), NEW x \in S
    PROVE  /\ Append(q, x) \in Seq(S) /\ Elements(Append(q, x)) = Elements(q) \cup {x}
           /\ Distinct(q) /\ x \notin Elements(q) => Distinct(Append(q, x))
<1> DEFINE n == Len(q)
           r == Append(q, x)
<1>1. /\ r \in Seq(S) /\ n \in Nat /\ Len(r) = n + 1 /\ r[n + 1] = x
      /\ \A i \in 1 .. n : r[i] = q[i]
  BY AppendFacts
<1>2. n \in Nat
  BY <1>1
<1> HIDE DEF n, r
<1>3. /\ \A i \in 1 .. n + 1 : i \in 1 .. n \/ i = n + 1
      /\ \A i \in 1 .. n : i \in 1 .. n + 1
      /\ n + 1 \in 1 .. n + 1
  BY <1>2
<1>4. Elements(r) = Elements(q) \cup {x}
  <2>1. Elements(r) \subseteq Elements(q) \cup {x}
    BY <1>1, <1>3 DEF Elements, n
  <2>2. Elements(q) \subseteq Elements(r)
    BY <1>1, <1>3 DEF Elements, n
  <2>3. x \in Elements(r)
    BY <1>1, <1>3 DEF Elements
  <2>4. QED
    BY <2>1, <2>2, <2>3
<1>5. ASSUME Distinct(q), x \notin Elements(q) PROVE Distinct(r)
  <2> SUFFICES ASSUME NEW i \in 1 .. n + 1, NEW j \in 1 .. n + 1, i < j PROVE r[i] # r[j]
    BY <1>1 DEF Distinct
  <2>1. i \in 1 .. n
    BY <1>2
  <2>2. CASE j \in 1 .. n
    BY <1>1, <1>5, <2>1, <2>2 DEF Distinct, n
  <2>3. CASE j = n + 1
    <3>1. r[i] \in Elements(q)
      BY <1>1, <2>1 DEF Elements, n
    <3>2. QED
      BY <1>1, <1>5, <2>3, <3>1
  <2>4. QED
    BY <1>3, <2>2, <2>3
<1>6. QED
  BY <1>1, <1>4, <1>5 DEF r

\* Appending to both keeps them in order, if the element is new to both.
LEMMA AppendOrder ==
    ASSUME NEW S, NEW all \in Seq(S), NEW sent \in Seq(S), NEW x \in S,
           Distinct(all), SameOrder(all, sent), x \notin Elements(all), x \notin Elements(sent)
    PROVE  /\ Distinct(Append(all, x)) /\ SameOrder(Append(all, x), Append(sent, x))
           /\ SameOrder(all, Append(sent, x)) /\ SameOrder(Append(all, x), sent)
<1> DEFINE p == Len(all)
           l == Append(all, x)
<1>1. /\ p \in Nat /\ l \in Seq(S) /\ l = Append(all, x) /\ Len(all) = p /\ Len(l) = p + 1 /\ l[p + 1] = x
      /\ \A i \in 1 .. p : l[i] = all[i]
  BY AppendFacts
<1> DEFINE q == Len(sent)
           r == Append(sent, x)
<1>2. /\ q \in Nat /\ r \in Seq(S) /\ r = Append(sent, x) /\ Len(sent) = q /\ Len(r) = q + 1 /\ r[q + 1] = x
      /\ \A i \in 1 .. q : r[i] = sent[i]
  BY AppendFacts
<1>t. p \in Nat /\ q \in Nat
  BY <1>1, <1>2
<1> HIDE DEF p, l, q, r
<1> USE <1>t
<1>3. (\A i \in 1 .. p : all[i] # x) /\ (\A i \in 1 .. q : sent[i] # x)
  BY <1>1, <1>2 DEF Elements
<1>4. Distinct(l)
  BY <1>1, AppendElements
<1>5. \A i, j \in 1 .. p : \A m, n \in 1 .. q : i < j /\ sent[m] = all[i] /\ sent[n] = all[j] => m < n
  BY <1>1, <1>2 DEF SameOrder
<1>a. \A i \in 1 .. p + 1 : i \in 1 .. p \/ i = p + 1
  OBVIOUS
<1>b. \A i \in 1 .. q + 1 : i \in 1 .. q \/ i = q + 1
  OBVIOUS
<1>6. \A i, j \in 1 .. p + 1 : \A m, n \in 1 .. q + 1 : i < j /\ r[m] = l[i] /\ r[n] = l[j] => m < n
  <2> SUFFICES ASSUME NEW i \in 1 .. p + 1, NEW j \in 1 .. p + 1,
                      NEW m \in 1 .. q + 1, NEW n \in 1 .. q + 1,
                      i < j, r[m] = l[i], r[n] = l[j]
               PROVE  m < n
    OBVIOUS
  <2>1. i \in 1 .. p
    OBVIOUS
  <2>2. m \in 1 .. q /\ sent[m] = all[i]
    BY <2>1, <1>b, <1>1, <1>2, <1>3
  <2>3. CASE n = q + 1
    BY <2>2, <2>3
  <2>4. CASE n \in 1 .. q
    <3>1. j \in 1 .. p /\ sent[n] = all[j]
      BY <1>1, <1>2, <1>3, <2>4, <1>a
    <3>2. QED
      BY <2>1, <2>2, <2>4, <3>1, <1>5
  <2>5. QED
    BY <2>3, <2>4, <1>b
<1>7. \A i, j \in 1 .. p : \A m, n \in 1 .. q + 1 : i < j /\ r[m] = all[i] /\ r[n] = all[j] => m < n
  <2>1. \A i \in 1 .. p, m \in 1 .. q + 1 : r[m] = all[i] => m \in 1 .. q /\ sent[m] = all[i]
    BY <1>b, <1>2, <1>3
  <2>2. QED
    BY <2>1, <1>5
<1>8. \A i, j \in 1 .. p + 1 : \A m, n \in 1 .. q : i < j /\ sent[m] = l[i] /\ sent[n] = l[j] => m < n
  <2>1. \A i \in 1 .. p + 1, m \in 1 .. q : sent[m] = l[i] => i \in 1 .. p /\ l[i] = all[i]
    BY <1>a, <1>1, <1>3
  <2>2. QED
    BY <2>1, <1>5
<1>9. QED
  BY <1>1, <1>2, <1>4, <1>6, <1>7, <1>8 DEF SameOrder

\* The end of a sequence stays its end when both grow by the same element.
LEMMA AppendTail ==
    ASSUME NEW S, NEW all \in Seq(S), NEW sent \in Seq(S), NEW x \in S, IsTailOf(all, sent)
    PROVE  IsTailOf(Append(all, x), Append(sent, x))
<1>1. PICK a \in Nat : TailFrom(all, sent, a)
  BY DEF IsTailOf
<1> DEFINE n == Len(all)
           l == Append(all, x)
<1>2. /\ n \in Nat /\ l \in Seq(S) /\ l = Append(all, x) /\ Len(all) = n /\ Len(l) = n + 1 /\ l[n + 1] = x
      /\ \A i \in 1 .. n : l[i] = all[i]
  BY AppendFacts
<1> DEFINE m == Len(sent)
           r == Append(sent, x)
<1>3. /\ m \in Nat /\ r \in Seq(S) /\ r = Append(sent, x) /\ Len(sent) = m /\ Len(r) = m + 1 /\ r[m + 1] = x
      /\ \A i \in 1 .. m : r[i] = sent[i]
  BY AppendFacts
<1>t. n \in Nat /\ m \in Nat
  BY <1>2, <1>3
<1> HIDE DEF n, l, m, r
<1> USE <1>t
<1>4. a + n = m /\ \A k \in 1 .. n : all[k] = sent[a + k]
  BY <1>1, <1>2, <1>3 DEF TailFrom
<1>5. \A k \in 1 .. n : a + k \in 1 .. m
  BY <1>4
<1>6. ASSUME NEW k \in 1 .. n + 1 PROVE l[k] = r[a + k]
  <2>1. CASE k = n + 1
    <3>1. a + k = m + 1
      BY <2>1, <1>4
    <3> QED BY <3>1, <2>1, <1>2, <1>3
  <2>2. CASE k \in 1 .. n
    BY <2>2, <1>2, <1>3, <1>4, <1>5
  <2> QED BY <2>1, <2>2
<1>d. a + (n + 1) = m + 1
  BY <1>2, <1>3, <1>4
<1>7. TailFrom(l, r, a)
  BY <1>d, <1>2, <1>3, <1>6 DEF TailFrom
<1>8. QED
  BY <1>2, <1>3, <1>7 DEF IsTailOf

\* The elements of a concatenation.
LEMMA ConcatElements ==
    ASSUME NEW S, NEW p \in Seq(S), NEW q \in Seq(S)
    PROVE  /\ p \o q \in Seq(S) /\ Len(p \o q) = Len(p) + Len(q)
           /\ Len(p) \in Nat /\ Len(q) \in Nat
           /\ \A i \in 1 .. Len(p) : (p \o q)[i] = p[i]
           /\ \A i \in 1 .. Len(q) : (p \o q)[Len(p) + i] = q[i]
           /\ Elements(p \o q) = Elements(p) \cup Elements(q)
<1>1. /\ p \o q \in Seq(S) /\ Len(p \o q) = Len(p) + Len(q)
      /\ Len(p) \in Nat /\ Len(q) \in Nat
      /\ \A i \in 1 .. Len(p) : (p \o q)[i] = p[i]
      /\ \A i \in 1 .. Len(q) : (p \o q)[Len(p) + i] = q[i]
  OBVIOUS
<1>2. PICK r \in Seq(S) : r = p \o q
  BY <1>1
<1>3. Elements(r) \subseteq Elements(p) \cup Elements(q)
  <2> SUFFICES ASSUME NEW i \in 1 .. Len(r)
               PROVE  r[i] \in Elements(p) \cup Elements(q)
    BY DEF Elements
  <2>1. CASE i \in 1 .. Len(p)
    BY <1>1, <1>2, <2>1 DEF Elements
  <2>2. CASE i \notin 1 .. Len(p)
    <3>1. PICK k \in 1 .. Len(q) : i = Len(p) + k
      <4>1. i - Len(p) \in 1 .. Len(q) /\ i = Len(p) + (i - Len(p))
        BY <1>1, <1>2, <2>2
      <4>2. QED
        BY <4>1
    <3>2. r[i] = q[k]
      BY <1>1, <1>2, <3>1
    <3>3. QED
      BY <3>2 DEF Elements
  <2>3. QED
    BY <2>1, <2>2
<1>4. Elements(p) \subseteq Elements(r)
  BY <1>1, <1>2 DEF Elements
<1>5. Elements(q) \subseteq Elements(r)
  <2> SUFFICES ASSUME NEW k \in 1 .. Len(q)
               PROVE  q[k] \in Elements(r)
    BY DEF Elements
  <2>1. Len(p) + k \in 1 .. Len(r) /\ r[Len(p) + k] = q[k]
    BY <1>1, <1>2
  <2>2. QED
    BY <2>1 DEF Elements
<1>6. Elements(p \o q) = Elements(p) \cup Elements(q)
  BY <1>2, <1>3, <1>4, <1>5
<1>7. QED
  BY <1>1, <1>6

\* The model writes the elements of a sequence as its range.
LEMMA RangeElements ==
    ASSUME NEW S, NEW q \in Seq(S)
    PROVE  Range(q) = Elements(q)
  BY DEF Range, Elements

\* Two sequences with the same elements at the same places are the same.
LEMMA SeqEqual ==
    ASSUME NEW S, NEW p \in Seq(S), NEW q \in Seq(S), Len(p) = Len(q),
           \A i \in 1 .. Len(p) : p[i] = q[i]
    PROVE  p = q
  OBVIOUS

\* Moving the head of the middle part to the end of the first one.
LEMMA MoveHead ==
    ASSUME NEW S, NEW o \in Seq(S), NEW b \in Seq(S), NEW u \in Seq(S), b # <<>>
    PROVE  Append(o, Head(b)) \o Tail(b) \o u = o \o b \o u
<1>1. /\ Append(o, Head(b)) \in Seq(S) /\ Tail(b) \in Seq(S)
      /\ Append(o, Head(b)) \o Tail(b) \in Seq(S) /\ o \o b \in Seq(S)
  OBVIOUS
<1>2. Append(o, Head(b)) \o Tail(b) = o \o b
  <2>1. Len(Append(o, Head(b)) \o Tail(b)) = Len(o \o b)
    OBVIOUS
  <2>2. \A i \in 1 .. Len(o \o b) : (Append(o, Head(b)) \o Tail(b))[i] = (o \o b)[i]
    OBVIOUS
  <2>3. QED
    BY <1>1, <2>1, <2>2, SeqEqual
<1>3. QED
  BY <1>2

\* Taking the head of the rest in hand.
LEMMA MoveRest ==
    ASSUME NEW S, NEW o \in Seq(S), NEW u \in Seq(S), u # <<>>
    PROVE  o \o <<Head(u)>> \o Tail(u) = o \o <<>> \o u
<1>1. /\ o \o <<Head(u)>> \in Seq(S) /\ Tail(u) \in Seq(S) /\ o \o <<>> = o
  OBVIOUS
<1>2. o \o <<Head(u)>> \o Tail(u) \in Seq(S) /\ o \o u \in Seq(S)
  BY <1>1
<1>3. Len(o \o <<Head(u)>> \o Tail(u)) = Len(o \o u)
  OBVIOUS
<1>4. \A i \in 1 .. Len(o \o u) : (o \o <<Head(u)>> \o Tail(u))[i] = (o \o u)[i]
  OBVIOUS
<1>5. QED
  BY <1>1, <1>2, <1>3, <1>4, SeqEqual

\* What is unread grows at its end.
LEMMA AppendRest ==
    ASSUME NEW S, NEW q \in Seq(S), NEW u \in Seq(S), NEW x \in S
    PROVE  q \o Append(u, x) = Append(q \o u, x)
<1>1. /\ Append(u, x) \in Seq(S) /\ q \o u \in Seq(S)
      /\ q \o Append(u, x) \in Seq(S) /\ Append(q \o u, x) \in Seq(S)
  OBVIOUS
<1>2. Len(q \o Append(u, x)) = Len(Append(q \o u, x))
  OBVIOUS
<1>3. \A i \in 1 .. Len(q \o Append(u, x)) : (q \o Append(u, x))[i] = Append(q \o u, x)[i]
  OBVIOUS
<1>4. QED
  BY <1>1, <1>2, <1>3, SeqEqual

\* A message sent while a receiver is behind joins the end of what it has to read.
LEMMA UnreadAppend ==
    ASSUME NEW S, NEW sent \in Seq(S), NEW x \in S, NEW k \in 0 .. Len(sent)
    PROVE  SubSeq(Append(sent, x), k + 1, Len(Append(sent, x)))
           = Append(SubSeq(sent, k + 1, Len(sent)), x)
<1> DEFINE u == SubSeq(sent, k + 1, Len(sent))
           v == SubSeq(Append(sent, x), k + 1, Len(Append(sent, x)))
           n == Len(sent)
<1>1. n \in Nat /\ Len(Append(sent, x)) = n + 1 /\ Append(sent, x) \in Seq(S)
  OBVIOUS
<1>2. u \in Seq(S) /\ Len(u) = n - k /\ \A i \in 1 .. n - k : u[i] = sent[k + i]
  BY <1>1
<1>3. /\ v \in Seq(S) /\ Len(v) = n - k + 1
      /\ \A i \in 1 .. n - k + 1 : v[i] = Append(sent, x)[k + i]
  BY <1>1
<1>4. Append(sent, x)[n + 1] = x /\ \A i \in 1 .. n : Append(sent, x)[i] = sent[i]
  BY <1>1
<1>5. Append(u, x) \in Seq(S) /\ Len(Append(u, x)) = n - k + 1
      /\ Append(u, x)[n - k + 1] = x /\ \A i \in 1 .. n - k : Append(u, x)[i] = u[i]
  <2> HIDE DEF u, n
  <2>1. /\ Append(u, x) \in Seq(S) /\ Len(Append(u, x)) = Len(u) + 1
        /\ Append(u, x)[Len(u) + 1] = x /\ \A i \in 1 .. Len(u) : Append(u, x)[i] = u[i]
    BY <1>2, AppendFacts
  <2> QED BY <1>1, <1>2, <2>1
<1>6. k \in 0 .. n
  OBVIOUS
<1> HIDE DEF u, v, n
<1>7. ASSUME NEW i \in 1 .. n - k + 1 PROVE v[i] = Append(u, x)[i]
  <2>1. CASE i = n - k + 1
    <3>1. k + i = n + 1
      BY <1>1, <1>6, <2>1
    <3>2. QED
      BY <1>3, <1>4, <1>5, <2>1, <3>1
  <2>2. CASE i \in 1 .. n - k
    <3>1. k + i \in 1 .. n
      BY <1>1, <1>6, <2>2
    <3>2. QED
      BY <1>2, <1>3, <1>4, <1>5, <2>2, <3>1
  <2>3. \A d \in Nat : \A j \in 1 .. d + 1 : j = d + 1 \/ j \in 1 .. d
    OBVIOUS
  <2>4. n - k \in Nat
    BY <1>1, <1>6
  <2>5. QED
    BY <2>1, <2>2, <2>3, <2>4
<1>8. Len(v) = Len(Append(u, x))
  BY <1>1, <1>3, <1>5, <1>6
<1>9. v = Append(u, x)
  BY <1>3, <1>5, <1>7, <1>8, SeqEqual
<1>10. QED
  BY <1>9 DEF u, v

\* Reading the next message.
LEMMA UnreadTail ==
    ASSUME NEW S, NEW sent \in Seq(S), NEW k \in 0 .. Len(sent),
           SubSeq(sent, k + 1, Len(sent)) # <<>>
    PROVE  /\ k < Len(sent)
           /\ SubSeq(sent, (k + 1) + 1, Len(sent)) = Tail(SubSeq(sent, k + 1, Len(sent)))
           /\ SubSeq(sent, k + 1, Len(sent)) \in Seq(S)
<1> DEFINE u == SubSeq(sent, k + 1, Len(sent))
           n == Len(sent)
<1>1. n \in Nat /\ k \in 0 .. n
  OBVIOUS
<1>2. u \in Seq(S) /\ Len(u) = n - k /\ \A i \in 1 .. n - k : u[i] = sent[k + i]
  BY <1>1
<1>3. k < n
  BY <1>1, <1>2
<1> DEFINE v == SubSeq(sent, (k + 1) + 1, n)
<1>4. v \in Seq(S) /\ Len(v) = n - k - 1 /\ \A i \in 1 .. n - k - 1 : v[i] = sent[k + 1 + i]
  BY <1>1, <1>3
<1>5. Tail(u) \in Seq(S) /\ Len(Tail(u)) = n - k - 1 /\ \A i \in 1 .. n - k - 1 : Tail(u)[i] = u[i + 1]
  <2> HIDE DEF u
  <2> QED BY <1>1, <1>2, <1>3
<1> HIDE DEF u, v, n
<1>6. ASSUME NEW i \in 1 .. n - k - 1 PROVE v[i] = Tail(u)[i]
  <2>1. i + 1 \in 1 .. n - k /\ k + (i + 1) = k + 1 + i
    BY <1>1, <1>3
  <2>2. v[i] = sent[k + 1 + i] /\ Tail(u)[i] = u[i + 1]
    BY <1>4, <1>5
  <2>3. u[i + 1] = sent[k + (i + 1)]
    BY <1>2, <2>1
  <2>4. QED
    BY <2>1, <2>2, <2>3
<1>7. v = Tail(u)
  BY <1>4, <1>5, <1>6, SeqEqual
<1>8. QED
  BY <1>2, <1>3, <1>7 DEF u, v, n

-----------------------------------------------------------------------------
(* TopicChannel: the replay buffer is the end of what was sent.             *)

Channel == [buffer : Seq(Ids), retained : Ids \cup {None}, sent : Seq(Ids)]

ChannelOK(c) ==
    /\ IsTailOf(c.buffer, c.sent)
    /\ c.retained # None => c.retained \in Elements(c.sent) /\ RetainOf[c.retained] = "set"

\* A channel starts empty (TopicChannel::new).
LEMMA NewChannelOK == NewChannel \in Channel /\ ChannelOK(NewChannel) /\ NewChannel.sent = <<>>
<1>1. NewChannel \in Channel /\ NewChannel.sent = <<>> /\ NewChannel.buffer = <<>>
      /\ NewChannel.retained = None
  BY DEF NewChannel, Channel
<1>2. TailFrom(<<>>, <<>>, 0)
  BY DEF TailFrom
<1>3. QED
  BY <1>1, <1>2 DEF ChannelOK, IsTailOf

\* TopicChannel::publish
LEMMA ChannelPublishOK ==
    ASSUME NEW c \in Channel, ChannelOK(c), NEW id \in Ids, NEW retain,
           retain = "set" => RetainOf[id] = "set"
    PROVE  /\ ChannelPublish(c, id, retain) \in Channel
           /\ ChannelOK(ChannelPublish(c, id, retain))
           /\ ChannelPublish(c, id, retain).sent = Append(c.sent, id)
<1> DEFINE d == ChannelPublish(c, id, retain)
           b == Append(c.buffer, id)
<1>0. /\ c.buffer \in Seq(Ids) /\ c.sent \in Seq(Ids) /\ c.retained \in Ids \cup {None}
      /\ b \in Seq(Ids) /\ b # <<>> /\ Tail(b) \in Seq(Ids) /\ Append(c.sent, id) \in Seq(Ids)
  BY DEF Channel
<1>1. /\ d.sent = Append(c.sent, id) /\ d.buffer \in {b, Tail(b)}
      /\ d.retained \in {id, None, c.retained}
      /\ d.retained = id /\ d.retained # c.retained => retain = "set"
      /\ d \in Channel
  <2>1. d = [buffer |-> d.buffer, retained |-> d.retained, sent |-> d.sent]
    BY DEF ChannelPublish
  <2>2. d.sent = Append(c.sent, id) /\ d.buffer \in {b, Tail(b)}
    BY DEF ChannelPublish
  <2>3. d.retained = CASE retain = "set"   -> id
                       [] retain = "clear" -> None
                       [] OTHER            -> c.retained
    BY DEF ChannelPublish
  <2>4. /\ d.retained \in {id, None, c.retained}
        /\ d.retained = id /\ d.retained # c.retained => retain = "set" \/ id = None
    <3> HIDE DEF d
    <3>1. CASE retain = "set"
      BY <2>3, <3>1
    <3>2. CASE retain = "clear"
      BY <2>3, <3>2
    <3>3. CASE retain # "set" /\ retain # "clear"
      BY <2>3, <3>3
    <3>4. QED
      BY <3>1, <3>2, <3>3
  <2>5. id # None
    BY FanoutAssumption DEF None
  <2> HIDE DEF d
  <2>6. QED
    BY <1>0, <2>1, <2>2, <2>4, <2>5 DEF Channel
<1> HIDE DEF d
<1>2. IsTailOf(b, d.sent)
  BY <1>0, <1>1, AppendTail DEF ChannelOK
<1>3. IsTailOf(Tail(b), d.sent)
  <2>1. PICK a \in Nat : TailFrom(b, d.sent, a)
    BY <1>2 DEF IsTailOf
  <2>2. /\ Len(b) \in Nat \ {0} /\ Len(Tail(b)) = Len(b) - 1
        /\ \A i \in 1 .. Len(b) - 1 : Tail(b)[i] = b[i + 1]
    BY <1>0
  <2> HIDE DEF b
  <2>3. a + 1 + (Len(b) - 1) = Len(d.sent)
    BY <2>1, <2>2 DEF TailFrom
  <2>4. ASSUME NEW i \in 1 .. Len(b) - 1 PROVE Tail(b)[i] = d.sent[a + 1 + i]
    <3>1. i + 1 \in 1 .. Len(b) /\ a + (i + 1) = a + 1 + i
      BY <2>2
    <3>2. b[i + 1] = d.sent[a + (i + 1)]
      BY <2>1, <3>1 DEF TailFrom
    <3>3. QED
      BY <2>2, <3>1, <3>2
  <2>5. TailFrom(Tail(b), d.sent, a + 1)
    BY <2>2, <2>3, <2>4 DEF TailFrom
  <2>6. QED
    BY <2>5 DEF IsTailOf
<1>4. d.retained # None => d.retained \in Elements(d.sent) /\ RetainOf[d.retained] = "set"
  <2>1. Elements(c.sent) \subseteq Elements(d.sent) /\ id \in Elements(d.sent)
    <3>1. /\ Len(c.sent) \in Nat /\ Len(d.sent) = Len(c.sent) + 1
          /\ d.sent[Len(c.sent) + 1] = id
          /\ \A i \in 1 .. Len(c.sent) : d.sent[i] = c.sent[i]
      BY <1>0, <1>1, AppendFacts
    <3>2. Len(c.sent) + 1 \in 1 .. Len(d.sent)
          /\ \A i \in 1 .. Len(c.sent) : i \in 1 .. Len(d.sent)
      BY <3>1
    <3>3. QED
      BY <3>1, <3>2 DEF Elements
  <2>2. QED
    BY <1>1, <2>1 DEF ChannelOK
<1>5. QED
  BY <1>1, <1>2, <1>3, <1>4 DEF ChannelOK, d

\* A position in a sequence whose elements are all different.
LEMMA DistinctAt ==
    ASSUME NEW S, NEW q \in Seq(S), Distinct(q), NEW i \in 1 .. Len(q), NEW j \in 1 .. Len(q),
           q[i] = q[j]
    PROVE  i = j
<1>1. Len(q) \in Nat
  OBVIOUS
<1>2. ~ (i < j) /\ ~ (j < i)
  BY DEF Distinct
<1>3. QED
  BY <1>1, <1>2

\* q is a part of sent, in the same order.
PartOf(q, sent) == Distinct(q) /\ SameOrder(q, sent) /\ Elements(q) \subseteq Elements(sent)

\* The end of a sequence is a part of it.
LEMMA TailIsPart ==
    ASSUME NEW S, NEW q \in Seq(S), NEW sent \in Seq(S), Distinct(sent), IsTailOf(q, sent)
    PROVE  PartOf(q, sent)
<1>1. PICK a \in Nat : TailFrom(q, sent, a)
  BY DEF IsTailOf
<1> DEFINE n == Len(q)
           m == Len(sent)
<1>2. n \in Nat /\ m \in Nat /\ a + n = m /\ \A k \in 1 .. n : q[k] = sent[a + k]
  BY <1>1 DEF TailFrom
<1>3. \A k \in 1 .. n : a + k \in 1 .. m
  BY <1>2
<1>4. \A k \in 1 .. n, j \in 1 .. m : sent[j] = q[k] => j = a + k
  BY <1>2, <1>3, DistinctAt
<1>5. Distinct(q)
  <2> SUFFICES ASSUME NEW i \in 1 .. n, NEW j \in 1 .. n, i < j PROVE q[i] # q[j]
    BY DEF Distinct
  <2>1. a + i # a + j /\ a + i \in 1 .. m
    BY <1>2, <1>3
  <2>2. QED
    BY <1>2, <1>4, <2>1
<1>6. SameOrder(q, sent)
  <2> SUFFICES ASSUME NEW i \in 1 .. n, NEW j \in 1 .. n, NEW k \in 1 .. m, NEW l \in 1 .. m,
                      i < j, sent[k] = q[i], sent[l] = q[j]
               PROVE  k < l
    BY DEF SameOrder
  <2>1. k = a + i /\ l = a + j
    BY <1>4
  <2> HIDE DEF n, m
  <2>2. QED
    BY <1>2, <2>1
<1>7. Elements(q) \subseteq Elements(sent)
  BY <1>2, <1>3 DEF Elements
<1>8. QED
  BY <1>5, <1>6, <1>7 DEF PartOf

\* TopicChannel::subscribe hands out a part of what was sent, in order; a
\* retained message that left the buffer comes first, and was sent first.
LEMMA BacklogIsPart ==
    ASSUME NEW c \in Channel, ChannelOK(c), Distinct(c.sent)
    PROVE  /\ ChannelBacklog(c) \in Seq(Ids) /\ PartOf(ChannelBacklog(c), c.sent)
           /\ c.retained = None => ChannelBacklog(c) = c.buffer
<1>0. c.buffer \in Seq(Ids) /\ c.sent \in Seq(Ids) /\ c.retained \in Ids \cup {None}
  BY DEF Channel
<1>1. Range(c.buffer) = Elements(c.buffer)
  BY <1>0 DEF Range, Elements
<1>2. PartOf(c.buffer, c.sent)
  BY <1>0, TailIsPart DEF ChannelOK
<1>3. CASE c.retained = None \/ c.retained \in Elements(c.buffer)
  BY <1>0, <1>1, <1>2, <1>3 DEF ChannelBacklog
<1>4. CASE c.retained # None /\ c.retained \notin Elements(c.buffer)
  <2> DEFINE b == c.buffer
             q == <<c.retained>> \o b
             n == Len(b)
             m == Len(c.sent)
  <2>1. ChannelBacklog(c) = q
    BY <1>1, <1>4 DEF ChannelBacklog
  <2>2. /\ n \in Nat /\ q \in Seq(Ids) /\ Len(q) = n + 1 /\ q[1] = c.retained
        /\ \A i \in 1 .. n : q[i + 1] = b[i]
    BY <1>0, <1>4
  <2>3. PICK a \in Nat : TailFrom(b, c.sent, a)
    BY DEF ChannelOK, IsTailOf
  <2>4. m \in Nat /\ a + n = m /\ \A k \in 1 .. n : b[k] = c.sent[a + k] /\ a + k \in 1 .. m
    BY <1>0, <2>2, <2>3 DEF TailFrom
  <2>5. PICK r \in 1 .. m : c.sent[r] = c.retained
    BY <1>4 DEF ChannelOK, Elements
  <2>6. r <= a
    <3>1. SUFFICES ASSUME r > a PROVE FALSE
      BY <2>4
    <3>2. r - a \in 1 .. n /\ a + (r - a) = r
      BY <2>2, <2>4, <3>1
    <3>3. b[r - a] = c.retained
      BY <2>4, <2>5, <3>2
    <3>4. QED
      BY <1>4, <3>2, <3>3 DEF Elements
  <2>7. \A i \in 1 .. n + 1 : i = 1 \/ \E k \in 1 .. n : i = k + 1
    <3> SUFFICES ASSUME NEW i \in 1 .. n + 1, i # 1 PROVE \E k \in 1 .. n : i = k + 1
      OBVIOUS
    <3>1. i - 1 \in 1 .. n /\ i = (i - 1) + 1
      BY <2>2
    <3>2. QED
      BY <3>1
  <2> DEFINE at(i) == IF i = 1 THEN r ELSE a + i - 1
  <2>8. ASSUME NEW i \in 1 .. n + 1 PROVE at(i) \in 1 .. m /\ q[i] = c.sent[at(i)]
    <3>1. CASE i = 1
      BY <2>2, <2>5, <3>1
    <3>2. CASE i # 1
      <4>1. PICK k \in 1 .. n : i = k + 1
        BY <2>7, <3>2
      <4>2. q[i] = b[k] /\ at(i) = a + k
        <5>1. at(i) = a + i - 1
          BY <3>2
        <5> HIDE DEF q, b, n, m, at
        <5>2. QED
          BY <2>2, <4>1, <5>1
      <4>3. QED
        BY <2>4, <4>2
    <3>3. QED
      BY <3>1, <3>2
  <2>9. ASSUME NEW i \in 1 .. n + 1, NEW j \in 1 .. n + 1, i < j PROVE at(i) < at(j)
    <3>1. r \in Nat /\ j # 1
      BY <2>2, <2>4, <2>9
    <3> HIDE DEF n, m
    <3>2. QED
      BY <2>2, <2>4, <2>6, <2>9, <3>1
  <2>10. ASSUME NEW i \in 1 .. n + 1, NEW k \in 1 .. m, c.sent[k] = q[i]
         PROVE  k = at(i)
    <3>1. at(i) \in 1 .. Len(c.sent) /\ c.sent[k] = c.sent[at(i)]
      BY <2>8, <2>10
    <3> HIDE DEF at
    <3>2. QED
      BY <1>0, <3>1, DistinctAt
  <2> HIDE DEF at, q, b, n
  <2>11. Distinct(q)
    <3> SUFFICES ASSUME NEW i \in 1 .. n + 1, NEW j \in 1 .. n + 1, i < j PROVE q[i] # q[j]
      BY <2>2 DEF Distinct
    <3>1. at(i) < at(j) /\ at(i) \in 1 .. m /\ at(j) \in 1 .. m
      BY <2>8, <2>9
    <3>2. at(i) # at(j)
      BY <3>1
    <3>3. QED
      BY <2>8, <2>10, <3>2
  <2>12. SameOrder(q, c.sent)
    <3> SUFFICES ASSUME NEW i \in 1 .. n + 1, NEW j \in 1 .. n + 1,
                        NEW k \in 1 .. m, NEW l \in 1 .. m,
                        i < j, c.sent[k] = q[i], c.sent[l] = q[j]
                 PROVE  k < l
      BY <2>2 DEF SameOrder
    <3>1. k = at(i) /\ l = at(j)
      BY <2>10
    <3>2. QED
      BY <2>9, <3>1
  <2>13. Elements(q) \subseteq Elements(c.sent)
    <3> SUFFICES ASSUME NEW i \in 1 .. n + 1 PROVE q[i] \in Elements(c.sent)
      BY <2>2 DEF Elements
    <3>1. QED
      BY <2>8 DEF Elements
  <2>14. QED
    BY <1>4, <2>1, <2>2, <2>11, <2>12, <2>13 DEF PartOf
<1>5. QED
  BY <1>3, <1>4

\* spawn_forwarder skips the backlog up to last_delivered.
LEMMA RecoveredFacts ==
    ASSUME NEW b \in Seq(Ids), NEW last \in Ids \cup {None}
    PROVE  /\ Recovered(b, last) \in Seq(Ids)
           /\ last = None => Recovered(b, last) = b
           /\ last # None /\ last \notin Elements(b) => Recovered(b, last) = <<>>
           /\ last # None /\ last \in Elements(b) =>
                 \E k \in 1 .. Len(b) :
                    /\ b[k] = last /\ Len(Recovered(b, last)) = Len(b) - k
                    /\ \A i \in 1 .. Len(b) - k : Recovered(b, last)[i] = b[k + i]
<1> DEFINE positions == {i \in 1 .. Len(b) : b[i] = last}
<1>1. Len(b) \in Nat
  OBVIOUS
<1>2. CASE last = None
  BY <1>2 DEF Recovered
<1>3. CASE last # None /\ last \notin Elements(b)
  <2>1. positions = {}
    BY <1>3 DEF Elements
  <2>2. QED
    BY <1>3, <2>1 DEF Recovered
<1>4. CASE last # None /\ last \in Elements(b)
  <2>1. positions \in SUBSET Nat /\ positions # {}
    BY <1>1, <1>4 DEF Elements
  <2>2. Min(positions) \in positions
    BY <2>1, MinExists
  <2>3. PICK k \in 1 .. Len(b) : k = Min(positions) /\ b[k] = last
    BY <2>2
  <2>5. Recovered(b, last) = SubSeq(b, k + 1, Len(b))
    BY <1>4, <2>1, <2>3 DEF Recovered
  <2> DEFINE r == SubSeq(b, k + 1, Len(b))
  <2>6. r \in Seq(Ids) /\ Len(r) = Len(b) - k /\ \A i \in 1 .. Len(b) - k : r[i] = b[k + i]
    BY <1>1
  <2> HIDE DEF r
  <2>7. Recovered(b, last) = r
    BY <2>5 DEF r
  <2>8. QED
    BY <1>4, <2>3, <2>6, <2>7
<1>5. QED
  BY <1>2, <1>3, <1>4

\* What a forwarder delivered, followed by what it recovers of a fresh backlog
\* after it, is in order and holds nothing twice.
LEMMA ResumeInOrder ==
    ASSUME NEW o \in Seq(Ids), NEW b \in Seq(Ids), NEW sent \in Seq(Ids), NEW last \in Ids \cup {None},
           Distinct(o), SameOrder(o, sent), PartOf(b, sent), Distinct(sent),
           last = IF o = <<>> THEN None ELSE o[Len(o)]
    PROVE  LET all == o \o Recovered(b, last)
           IN  all \in Seq(Ids) /\ Distinct(all) /\ SameOrder(all, sent)
<1> DEFINE r == Recovered(b, last)
           all == o \o r
           p == Len(o)
           m == Len(sent)
<1>0. Distinct(b) /\ SameOrder(b, sent) /\ Elements(b) \subseteq Elements(sent) /\ r \in Seq(Ids)
  BY RecoveredFacts DEF PartOf
<1>1. None \notin Ids
  BY FanoutAssumption DEF None
<1>2. CASE o = <<>>
  <2>1. all = b
    <3>1. r = b
      BY <1>0, <1>2, RecoveredFacts
    <3> HIDE DEF r
    <3>2. QED
      BY <1>2, <3>1
  <2>2. QED
    BY <1>0, <2>1
<1>3. CASE r = <<>>
  <2>1. all = o
    BY <1>3
  <2>2. QED
    BY <2>1
<1>4. CASE o # <<>> /\ r # <<>>
  <2>0. p \in Nat /\ p \in 1 .. p /\ last = o[p] /\ last # None /\ last \in Elements(o) /\ m \in Nat
    BY <1>1, <1>4 DEF Elements
  <2>1. PICK k \in 1 .. Len(b) :
            /\ b[k] = last /\ Len(r) = Len(b) - k
            /\ \A i \in 1 .. Len(b) - k : r[i] = b[k + i]
    BY <1>0, <1>4, <2>0, RecoveredFacts
  <2> DEFINE n == Len(b) - k
  <2>2. n \in Nat /\ Len(r) = n /\ Len(b) \in Nat
    BY <2>1
  <2> HIDE DEF r
  <2>3. /\ all \in Seq(Ids) /\ Len(all) = p + n
        /\ \A i \in 1 .. p : all[i] = o[i]
        /\ \A i \in 1 .. n : all[p + i] = r[i]
    <3>1. /\ all \in Seq(Ids) /\ Len(all) = Len(o) + Len(r)
          /\ \A i \in 1 .. Len(o) : all[i] = o[i]
          /\ \A i \in 1 .. Len(r) : all[Len(o) + i] = r[i]
      BY <1>0, ConcatElements
    <3>2. QED
      BY <2>2, <3>1
  <2>4. PICK h \in 1 .. m : sent[h] = last
    BY <1>0, <2>1 DEF Elements
  <2>5. ASSUME NEW i \in 1 .. p, NEW j \in 1 .. m, sent[j] = o[i]
        PROVE  j <= h
    <3>1. CASE i = p
      <4>1. j = h
        BY <2>0, <2>4, <2>5, <3>1, DistinctAt
      <4>2. QED
        BY <2>0, <4>1
    <3>2. CASE i # p
      <4>1. i < p
        BY <2>0, <3>2
      <4>2. j < h
        BY <2>0, <2>4, <2>5, <4>1 DEF SameOrder
      <4>3. QED
        BY <2>0, <4>2
    <3>3. QED
      BY <3>1, <3>2
  <2>6. ASSUME NEW i \in 1 .. n
        PROVE  /\ k + i \in 1 .. Len(b) /\ r[i] = b[k + i]
               /\ \A j \in 1 .. m : sent[j] = r[i] => h < j
    <3>1. k + i \in 1 .. Len(b) /\ k < k + i /\ r[i] = b[k + i]
      BY <2>1, <2>2
    <3>2. ASSUME NEW j \in 1 .. m, sent[j] = b[k + i] PROVE h < j
      BY <1>0, <2>1, <2>4, <3>1, <3>2 DEF SameOrder
    <3>3. QED
      BY <3>1, <3>2
  <2>7. ASSUME NEW i \in 1 .. n PROVE \E j \in 1 .. m : sent[j] = r[i]
    <3>1. b[k + i] \in Elements(b)
      BY <2>6 DEF Elements
    <3>2. QED
      BY <1>0, <2>6, <3>1 DEF Elements
  <2>8. \A i \in 1 .. p + n : i \in 1 .. p \/ \E j \in 1 .. n : i = p + j
    <3> SUFFICES ASSUME NEW i \in 1 .. p + n, i \notin 1 .. p PROVE \E j \in 1 .. n : i = p + j
      OBVIOUS
    <3>1. i - p \in 1 .. n /\ i = p + (i - p)
      BY <2>0, <2>2
    <3>2. QED
      BY <3>1
  <2> HIDE DEF all, p, m, n
  <2>9. Distinct(all)
    <3> SUFFICES ASSUME NEW i \in 1 .. p + n, NEW j \in 1 .. p + n, i < j PROVE all[i] # all[j]
      BY <2>3 DEF Distinct
    <3>1. CASE i \in 1 .. p /\ j \in 1 .. p
      BY <2>3, <3>1 DEF Distinct, p
    <3>2. ASSUME NEW x \in 1 .. n, j = p + x, i \in 1 .. p PROVE all[i] # all[j]
      <4>1. PICK y \in 1 .. m : sent[y] = r[x]
        BY <2>7
      <4>2. h < y
        BY <2>6, <4>1
      <4>3. ~ (y <= h)
        BY <2>0, <4>2
      <4>4. o[i] # r[x]
        BY <2>5, <3>2, <4>1, <4>3
      <4>5. QED
        BY <2>3, <3>2, <4>4
    <3>3. ASSUME NEW x \in 1 .. n, j = p + x, NEW w \in 1 .. n, i = p + w PROVE all[i] # all[j]
      <4>1. k + w < k + x /\ k + w \in 1 .. Len(b) /\ k + x \in 1 .. Len(b)
        <5>1. p \in Nat /\ k \in Nat /\ Len(b) \in Nat /\ n = Len(b) - k
          BY <2>0, <2>2 DEF n
        <5>2. QED
          BY <3>3, <5>1
      <4>2. b[k + w] # b[k + x]
        BY <1>0, <4>1 DEF Distinct
      <4>3. QED
        BY <2>3, <2>6, <3>3, <4>2
    <3>4. i \in 1 .. p \/ j \notin 1 .. p
      BY <2>0, <2>2
    <3>5. QED
      BY <2>8, <3>1, <3>2, <3>3, <3>4
  <2>10. SameOrder(all, sent)
    <3> SUFFICES ASSUME NEW i \in 1 .. p + n, NEW j \in 1 .. p + n,
                        NEW y \in 1 .. m, NEW z \in 1 .. m,
                        i < j, sent[y] = all[i], sent[z] = all[j]
                 PROVE  y < z
      BY <2>3 DEF SameOrder, m
    <3>1. CASE i \in 1 .. p /\ j \in 1 .. p
      BY <2>3, <3>1 DEF SameOrder, p, m
    <3>2. ASSUME NEW x \in 1 .. n, j = p + x, i \in 1 .. p PROVE y < z
      <4>1. y <= h /\ h < z
        BY <2>3, <2>5, <2>6, <3>2
      <4>2. QED
        BY <2>0, <4>1
    <3>3. ASSUME NEW x \in 1 .. n, j = p + x, NEW w \in 1 .. n, i = p + w PROVE y < z
      <4>1. k + w < k + x /\ k + w \in 1 .. Len(b) /\ k + x \in 1 .. Len(b)
        <5>1. p \in Nat /\ k \in Nat /\ Len(b) \in Nat /\ n = Len(b) - k
          BY <2>0, <2>2 DEF n
        <5>2. QED
          BY <3>3, <5>1
      <4>2. sent[y] = b[k + w] /\ sent[z] = b[k + x]
        BY <2>3, <2>6, <3>3
      <4>3. QED
        BY <1>0, <4>1, <4>2 DEF SameOrder, m
    <3>4. i \in 1 .. p \/ j \notin 1 .. p
      BY <2>0, <2>2
    <3>5. QED
      BY <2>8, <3>1, <3>2, <3>3, <3>4
  <2>11. QED
    BY <2>3, <2>9, <2>10 DEF all, r
<1>5. QED
  BY <1>2, <1>3, <1>4

\* A forwarder that missed nothing and finds its last message in the buffer
\* resumes without a gap.
LEMMA ResumeIsTail ==
    ASSUME NEW o \in Seq(Ids), NEW u \in Seq(Ids), NEW b \in Seq(Ids), NEW sent \in Seq(Ids),
           Distinct(sent), IsTailOf(o \o u, sent), IsTailOf(b, sent),
           o # <<>>, NEW last \in Ids, last = o[Len(o)], last \in Elements(b)
    PROVE  IsTailOf(o \o Recovered(b, last), sent)
<1> DEFINE p == Len(o)
           r == Recovered(b, last)
           m == Len(sent)
<1>1. Distinct(b)
  BY TailIsPart DEF PartOf
<1>2. last # None /\ p \in Nat /\ p \in 1 .. p /\ last = o[p] /\ m \in Nat
  BY FanoutAssumption DEF None
<1>3. PICK k \in 1 .. Len(b) :
          /\ r \in Seq(Ids) /\ b[k] = last /\ Len(r) = Len(b) - k
          /\ \A i \in 1 .. Len(b) - k : r[i] = b[k + i]
  <2>1. last \in Ids \cup {None} /\ last # None
    BY <1>2
  <2>2. QED
    BY <2>1, RecoveredFacts
<1>4. PICK a \in Nat : TailFrom(o \o u, sent, a)
  BY DEF IsTailOf
<1>5. PICK d \in Nat : TailFrom(b, sent, d)
  BY DEF IsTailOf
<1>6. /\ Len(b) \in Nat /\ d + Len(b) = m
      /\ \A i \in 1 .. Len(b) : b[i] = sent[d + i] /\ d + i \in 1 .. m
  <2>1. Len(b) \in Nat /\ d + Len(b) = m /\ \A i \in 1 .. Len(b) : b[i] = sent[d + i]
    BY <1>5 DEF TailFrom
  <2>2. \A i \in 1 .. Len(b) : d + i \in 1 .. m
    BY <1>2, <2>1
  <2>3. QED
    BY <2>1, <2>2
<1>7. /\ \A i \in 1 .. p : o[i] = sent[a + i] /\ a + i \in 1 .. m
  <2>1. /\ Len(o \o u) = p + Len(u) /\ Len(u) \in Nat
        /\ \A i \in 1 .. p : (o \o u)[i] = o[i]
    BY ConcatElements
  <2>2. a + (p + Len(u)) = m
    BY <1>4, <2>1 DEF TailFrom
  <2>3. ASSUME NEW i \in 1 .. p PROVE o[i] = sent[a + i] /\ a + i \in 1 .. m
    <3>1. i \in 1 .. p + Len(u) /\ a + i \in 1 .. m
      BY <1>2, <2>1, <2>2
    <3>2. (o \o u)[i] = sent[a + i]
      BY <1>4, <2>1, <3>1 DEF TailFrom
    <3>3. QED
      BY <2>1, <3>1, <3>2
  <2>4. QED
    BY <2>3
<1>8. d + k = a + p
  <2>1. sent[d + k] = sent[a + p] /\ d + k \in 1 .. m /\ a + p \in 1 .. m
    BY <1>2, <1>3, <1>6, <1>7
  <2>2. QED
    BY <2>1, DistinctAt
<1> DEFINE n == Len(b) - k
           all == o \o r
<1>9. n \in Nat /\ Len(r) = n /\ a + (p + n) = m
  <2>1. Len(r) = n
    BY <1>3
  <2>2. PICK l \in Nat : l = Len(b) /\ k \in 1 .. l /\ d + l = m
    BY <1>6
  <2>3. n = l - k
    BY <2>2
  <2>4. p \in Nat /\ m \in Nat /\ k \in Nat /\ k <= l /\ d + k = a + p /\ d + l = m
    BY <1>2, <1>8, <2>2
  <2> HIDE DEF p, m, r, n
  <2>5. l - k \in Nat /\ a + (p + (l - k)) = m
    BY <2>4
  <2>6. QED
    BY <2>1, <2>3, <2>5
<1>10. /\ Len(all) = p + n
       /\ \A i \in 1 .. p : all[i] = o[i]
       /\ \A i \in 1 .. n : all[p + i] = r[i]
  <2>1. /\ Len(all) = Len(o) + Len(r)
        /\ \A i \in 1 .. Len(o) : all[i] = o[i]
        /\ \A i \in 1 .. Len(r) : all[Len(o) + i] = r[i]
    <3>1. r \in Seq(Ids)
      BY <1>3
    <3> HIDE DEF r
    <3>2. QED
      BY <3>1, ConcatElements
  <2> HIDE DEF all, r
  <2>2. QED
    BY <1>9, <2>1
<1> HIDE DEF r, all, p, m
<1>11. ASSUME NEW i \in 1 .. p + n PROVE all[i] = sent[a + i]
  <2>1. CASE i \in 1 .. p
    BY <1>7, <1>10, <2>1
  <2>2. CASE i \notin 1 .. p
    <3>1. i - p \in 1 .. n /\ p + (i - p) = i
      BY <1>2, <1>9, <2>2
    <3>2. all[i] = r[i - p]
      BY <1>10, <3>1
    <3>3. k + (i - p) \in 1 .. Len(b) /\ d + (k + (i - p)) = a + i
      BY <1>2, <1>3, <1>6, <1>8, <1>9, <3>1
    <3>4. r[i - p] = b[k + (i - p)]
      BY <1>3, <3>1
    <3>5. b[k + (i - p)] = sent[d + (k + (i - p))]
      BY <1>6, <3>3
    <3>6. QED
      BY <3>2, <3>3, <3>4, <3>5
  <2>3. QED
    BY <2>1, <2>2
<1>12. TailFrom(all, sent, a)
  BY <1>9, <1>10, <1>11 DEF TailFrom, m
<1>13. QED
  BY <1>12 DEF IsTailOf, all, r

-----------------------------------------------------------------------------
(* TopicMap::get_or_insert                                                  *)

\* The map of a TopicMap takes keys of K to channels that exist.
MapShape(m, K) ==
    /\ m = [map |-> m.map, order |-> m.order]
    /\ DOMAIN m.map \subseteq K
    /\ m.map \in [DOMAIN m.map -> 1 .. Len(chan)]

\* At most one key is evicted.
LEMMA EvictMap ==
    ASSUME NEW n, NEW live
    PROVE  LET after == EvictOverCapacity(n, live)
           IN  \/ after = n
               \/ /\ after = [map |-> after.map, order |-> after.order]
                  /\ \E y : after.map = Restrict(n.map, DOMAIN n.map \ {y})
<1> DEFINE dead == {i \in 1 .. Len(n.order) : n.map[n.order[i]] \notin live}
           pruned == [map   |-> Restrict(n.map, DOMAIN n.map \ {n.order[Min(dead)]}),
                      order |-> RemoveAt(n.order, Min(dead))]
<1>1. EvictOverCapacity(n, live) \in {n, pruned}
  BY DEF EvictOverCapacity
<1>2. /\ pruned = [map |-> pruned.map, order |-> pruned.order]
      /\ pruned.map = Restrict(n.map, DOMAIN n.map \ {n.order[Min(dead)]})
  OBVIOUS
<1> HIDE DEF pruned
<1>3. \E y : pruned.map = Restrict(n.map, DOMAIN n.map \ {y})
  BY <1>2
<1>4. QED
  BY <1>1, <1>2, <1>3

\* A known key leaves the map as it is; a new one adds its channel, and one
\* key, possibly this very one, may be evicted.
LEMMA GetOrInsertMap ==
    ASSUME NEW K, NEW m, MapShape(m, K), NEW k \in K, NEW c, NEW live
    PROVE  LET after == GetOrInsert(m, k, c, live)
           IN  /\ after = [map |-> after.map, order |-> after.order]
               /\ k \in DOMAIN m.map => after.map = m.map
               /\ k \notin DOMAIN m.map =>
                     \E D \in SUBSET (DOMAIN m.map \cup {k}) :
                        after.map = [x \in D |-> IF x = k THEN c ELSE m.map[x]]
<1> DEFINE after == GetOrInsert(m, k, c, live)
<1>1. CASE k \in DOMAIN m.map
  <2>1. after = [m EXCEPT !.order = Touch(m.order, k)]
    BY <1>1 DEF GetOrInsert
  <2>2. QED
    BY <1>1, <2>1 DEF MapShape
<1>2. CASE k \notin DOMAIN m.map
  <2> DEFINE f == [x \in DOMAIN m.map \cup {k} |-> IF x = k THEN c ELSE m.map[x]]
             n == [map |-> f, order |-> Append(m.order, k)]
  <2>1. after = EvictOverCapacity(n, live)
    BY <1>2 DEF GetOrInsert
  <2>2. n = [map |-> n.map, order |-> n.order] /\ n.map = f
    OBVIOUS
  <2> HIDE DEF n, after
  <2>3. CASE after = n
    <3>1. \E D \in SUBSET (DOMAIN m.map \cup {k}) :
              f = [x \in D |-> IF x = k THEN c ELSE m.map[x]]
      OBVIOUS
    <3> HIDE DEF f
    <3>2. QED
      BY <1>2, <2>2, <2>3, <3>1 DEF after
  <2>4. ASSUME after = [map |-> after.map, order |-> after.order],
               NEW y, after.map = Restrict(n.map, DOMAIN n.map \ {y})
        PROVE  \E D \in SUBSET (DOMAIN m.map \cup {k}) :
                  after.map = [x \in D |-> IF x = k THEN c ELSE m.map[x]]
    <3>1. after.map = [x \in (DOMAIN m.map \cup {k}) \ {y} |-> f[x]]
      BY <2>2, <2>4 DEF Restrict
    <3>2. after.map = [x \in (DOMAIN m.map \cup {k}) \ {y} |-> IF x = k THEN c ELSE m.map[x]]
      BY <3>1
    <3>3. QED
      BY <3>2
  <2>5. \/ after = n
        \/ /\ after = [map |-> after.map, order |-> after.order]
           /\ \E y : after.map = Restrict(n.map, DOMAIN n.map \ {y})
    BY <2>1, EvictMap
  <2>6. CASE after # n
    <3>1. /\ after = [map |-> after.map, order |-> after.order]
          /\ \E D \in SUBSET (DOMAIN m.map \cup {k}) :
                  after.map = [x \in D |-> IF x = k THEN c ELSE m.map[x]]
      BY <2>4, <2>5, <2>6
    <3>2. QED
      BY <1>2, <3>1 DEF after
  <2>7. QED
    BY <2>3, <2>6
<1>3. QED
  BY <1>1, <1>2

-----------------------------------------------------------------------------
(* The state of the broker and its tasks.                                   *)

PubTask == [pc : {"idle", "fetch", "exact", "lock", "patterns"}, id : Ids \cup {None},
            chan : Nat, todo : SUBSET Patterns]

SubTask == [pc : {"new", "run", "ended"}, chan : Nat, pos : Nat, scan : SUBSET Topics,
            backlog : Seq(Ids), last : Ids \cup {None}, out : Seq(Ids),
            lost : BOOLEAN, lagged : BOOLEAN]

SubFields == {"pc", "chan", "pos", "scan", "backlog", "last", "out", "lost", "lagged"}

Sent(c) == chan[c].sent

ChannelsOK == chan \in Seq(Channel) /\ \A c \in 1 .. Len(chan) : ChannelOK(chan[c])

MapsShaped == MapShape(topics, Topics) /\ MapShape(patterns, Patterns)

\* A connection task inside Broker::publish.
PublisherOK(p) ==
    /\ pub[p].pc # "idle" => pub[p].id \in Ids
    /\ pub[p].pc = "exact" => pub[p].chan \in 1 .. Len(chan)
    /\ pub[p].pc # "patterns" => pub[p].todo = {}
    /\ pub[p].todo \subseteq DOMAIN patterns.map

PublishersOK ==
    /\ pub \in [Publishers -> PubTask]
    /\ \A p \in Publishers : PublisherOK(p)

\* last_delivered is the last envelope that was handed to the connection.
LastDelivered(r) == r.last = IF r.out = <<>> THEN None ELSE r.out[Len(r.out)]

\* A forwarder of an exact topic.
ExactOK(s) ==
    /\ sub[s] \in SubTask
    /\ LastDelivered(sub[s])
    /\ sub[s].pc = "new" => sub[s].out = <<>>
    /\ sub[s].pc = "run" => sub[s].pos \in 0 .. Len(Sent(sub[s].chan))

\* Of a wildcard forwarder only what the others depend on is kept here.
SubscriberOK(s) ==
    /\ DOMAIN sub[s] = SubFields
    /\ sub[s].pc \in {"lock", "scan", "run"} => sub[s].chan \in 1 .. Len(chan)
    /\ Exact(s) => ExactOK(s)

SubscribersOK ==
    /\ sub = [s \in Subscribers |-> sub[s]]
    /\ \A s \in Subscribers : SubscriberOK(s)

BrokerOK == ChannelsOK /\ MapsShaped /\ PublishersOK /\ SubscribersOK

\* A new broker has no channels and its tasks have not started.
LEMMA BrokerInit == FanoutInit => BrokerOK
<1> SUFFICES ASSUME FanoutInit PROVE BrokerOK
  OBVIOUS
<1>1. ChannelsOK
  BY DEF FanoutInit, ChannelsOK
<1>2. MapsShaped
  BY DEF FanoutInit, MapsShaped, MapShape, EmptyMap
<1>3. PublishersOK
  BY DEF FanoutInit, PublishersOK, PublisherOK, PubTask, None
<1>4. SubscribersOK
  <2> DEFINE r == [pc |-> "new", chan |-> None, pos |-> 0, scan |-> {}, backlog |-> <<>>,
                   last |-> None, out |-> <<>>, lost |-> FALSE, lagged |-> FALSE]
  <2>1. sub = [s \in Subscribers |-> r]
    BY DEF FanoutInit
  <2>2. r \in SubTask /\ r.pc = "new" /\ r.out = <<>> /\ DOMAIN r = SubFields /\ LastDelivered(r)
    BY DEF SubTask, SubFields, None, LastDelivered
  <2> HIDE DEF r
  <2>3. QED
    BY <2>1, <2>2 DEF SubscribersOK, SubscriberOK, ExactOK
<1>5. QED
  BY <1>1, <1>2, <1>3, <1>4 DEF BrokerOK

-----------------------------------------------------------------------------
(* One step of the broker.                                                  *)

\* What a step can do to the channels: nothing, open one, or send on one.
Opens == chan' = Append(chan, NewChannel)

SendsOn(c, id) ==
    \E retain : /\ retain = "set" => RetainOf[id] = "set"
                /\ chan' = [chan EXCEPT ![c] = ChannelPublish(chan[c], id, retain)]

ChannelStep ==
    \/ chan' = chan
    \/ Opens
    \/ \E c \in 1 .. Len(chan), id \in Ids : SendsOn(c, id)

\* The parts of a channel.
LEMMA ChannelFacts ==
    ASSUME ChannelsOK, NEW c \in 1 .. Len(chan)
    PROVE  /\ chan[c] \in Channel /\ ChannelOK(chan[c])
           /\ chan[c].sent \in Seq(Ids) /\ Len(chan[c].sent) \in Nat
           /\ chan[c].buffer \in Seq(Ids) /\ chan[c].retained \in Ids \cup {None}
<1>1. chan[c] \in Channel /\ ChannelOK(chan[c])
  BY DEF ChannelsOK
<1>2. QED
  BY <1>1 DEF Channel

\* A channel that is opened takes the next number and is empty.
LEMMA OpensFacts ==
    ASSUME ChannelsOK, Opens
    PROVE  /\ ChannelsOK' /\ Len(chan) \in Nat /\ Len(chan') = Len(chan) + 1
           /\ \A c \in 1 .. Len(chan) : chan'[c] = chan[c]
           /\ chan'[Len(chan) + 1].sent = <<>>
<1>1. /\ chan' \in Seq(Channel) /\ Len(chan) \in Nat /\ Len(chan') = Len(chan) + 1
      /\ chan'[Len(chan) + 1] = NewChannel
      /\ \A c \in 1 .. Len(chan) : chan'[c] = chan[c]
  BY NewChannelOK DEF ChannelsOK, Opens
<1>2. ASSUME NEW c \in 1 .. Len(chan') PROVE ChannelOK(chan'[c])
  <2>1. c \in 1 .. Len(chan) \/ c = Len(chan) + 1
    BY <1>1
  <2>2. QED
    BY <1>1, <2>1, NewChannelOK DEF ChannelsOK
<1>3. QED
  BY <1>1, <1>2, NewChannelOK DEF ChannelsOK

\* Sending on a channel appends to it and leaves the others alone.
LEMMA SendsOnFacts ==
    ASSUME ChannelsOK, NEW c \in 1 .. Len(chan), NEW id \in Ids, SendsOn(c, id)
    PROVE  /\ ChannelsOK' /\ Len(chan) \in Nat /\ Len(chan') = Len(chan)
           /\ \A d \in 1 .. Len(chan) \ {c} : chan'[d] = chan[d]
           /\ chan'[c].sent = Append(chan[c].sent, id)
<1>1. PICK retain : /\ retain = "set" => RetainOf[id] = "set"
                    /\ chan' = [chan EXCEPT ![c] = ChannelPublish(chan[c], id, retain)]
  BY DEF SendsOn
<1>2. chan[c] \in Channel /\ ChannelOK(chan[c]) /\ chan \in Seq(Channel) /\ Len(chan) \in Nat
  BY DEF ChannelsOK
<1>3. PICK d : d = ChannelPublish(chan[c], id, retain)
  OBVIOUS
<1>4. d \in Channel /\ ChannelOK(d) /\ d.sent = Append(chan[c].sent, id)
  BY <1>1, <1>2, <1>3, ChannelPublishOK
<1>5. /\ chan' \in Seq(Channel) /\ Len(chan') = Len(chan) /\ chan'[c] = d
      /\ \A e \in 1 .. Len(chan) \ {c} : chan'[e] = chan[e]
  BY <1>1, <1>2, <1>3, <1>4
<1>6. \A e \in 1 .. Len(chan') : ChannelOK(chan'[e])
  BY <1>4, <1>5 DEF ChannelsOK
<1>7. QED
  BY <1>2, <1>4, <1>5, <1>6 DEF ChannelsOK

\* Channels are never closed and what was sent on them only grows.
LEMMA ChannelsGrow ==
    ASSUME ChannelsOK, ChannelStep
    PROVE  /\ ChannelsOK' /\ Len(chan) \in Nat /\ Len(chan') \in Nat /\ Len(chan) <= Len(chan')
           /\ \A c \in 1 .. Len(chan) :
                 /\ Len(Sent(c)) \in Nat /\ Len(chan'[c].sent) \in Nat
                 /\ Len(Sent(c)) <= Len(chan'[c].sent)
<1>1. chan \in Seq(Channel) /\ Len(chan) \in Nat
      /\ \A c \in 1 .. Len(chan) : chan[c].sent \in Seq(Ids) /\ Len(chan[c].sent) \in Nat
  BY ChannelFacts DEF ChannelsOK
<1>2. CASE chan' = chan
  BY <1>1, <1>2 DEF ChannelsOK, Sent
<1>3. CASE Opens
  BY <1>1, <1>3, OpensFacts DEF Sent
<1>4. ASSUME NEW c \in 1 .. Len(chan), NEW id \in Ids, SendsOn(c, id)
      PROVE  /\ ChannelsOK' /\ Len(chan) <= Len(chan') /\ Len(chan') \in Nat
             /\ \A d \in 1 .. Len(chan) :
                   Len(chan'[d].sent) \in Nat /\ Len(Sent(d)) <= Len(chan'[d].sent)
  <2>1. /\ ChannelsOK' /\ Len(chan') = Len(chan)
        /\ \A d \in 1 .. Len(chan) \ {c} : chan'[d] = chan[d]
        /\ chan'[c].sent = Append(chan[c].sent, id)
    BY <1>4, SendsOnFacts
  <2>2. Len(chan'[c].sent) = Len(chan[c].sent) + 1
    BY <1>1, <2>1
  <2>3. QED
    BY <1>1, <2>1, <2>2 DEF Sent
<1>5. QED
  BY <1>1, <1>2, <1>3, <1>4 DEF ChannelStep, Sent

\* A task that does not move is not disturbed by what happens to the channels.
LEMMA KeepSubscriber ==
    ASSUME BrokerOK, ChannelStep, NEW s \in Subscribers, sub'[s] = sub[s]
    PROVE  SubscriberOK(s)'
<1>1. SubscriberOK(s)
  BY DEF BrokerOK, SubscribersOK
<1>2. /\ Len(chan) \in Nat /\ Len(chan') \in Nat /\ Len(chan) <= Len(chan')
      /\ \A c \in 1 .. Len(chan) :
            /\ Len(Sent(c)) \in Nat /\ Len(chan'[c].sent) \in Nat
            /\ Len(Sent(c)) <= Len(chan'[c].sent)
  BY ChannelsGrow DEF BrokerOK
<1>3. sub'[s].pc \in {"lock", "scan", "run"} => sub'[s].chan \in 1 .. Len(chan')
  BY <1>1, <1>2 DEF SubscriberOK
<1>4. ASSUME Exact(s) PROVE ExactOK(s)'
  <2>1. ExactOK(s) /\ sub[s] \in SubTask /\ sub[s].pos \in Nat
    BY <1>1, <1>4 DEF SubscriberOK, ExactOK, SubTask
  <2>2. ASSUME sub[s].pc = "run" PROVE sub[s].pos \in 0 .. Len(chan'[sub[s].chan].sent)
    <3>1. sub[s].chan \in 1 .. Len(chan) /\ sub[s].pos \in 0 .. Len(Sent(sub[s].chan))
      BY <1>1, <2>1, <2>2 DEF SubscriberOK, ExactOK
    <3>2. QED
      BY <1>2, <2>1, <3>1
  <2>3. QED
    BY <2>1, <2>2 DEF ExactOK, Sent
<1>5. QED
  BY <1>1, <1>3, <1>4 DEF SubscriberOK, Exact

\* A publisher that does not move is as it was, whatever channels are opened.
LEMMA KeepPublisher ==
    ASSUME BrokerOK, ChannelStep, NEW p \in Publishers, pub'[p] = pub[p],
           pub[p].todo \subseteq DOMAIN patterns'.map
    PROVE  PublisherOK(p)'
<1>1. PublisherOK(p)
  BY DEF BrokerOK, PublishersOK
<1>2. Len(chan) \in Nat /\ Len(chan') \in Nat /\ Len(chan) <= Len(chan')
  BY ChannelsGrow DEF BrokerOK
<1>3. pub[p].pc = "exact" => pub[p].chan \in 1 .. Len(chan')
  BY <1>1, <1>2 DEF PublisherOK
<1>4. QED
  BY <1>1, <1>3 DEF PublisherOK

\* TopicMap::get_or_insert keeps a map a map to channels that exist, and
\* answers a channel that exists.
LEMMA GetOrInsertShape ==
    ASSUME ChannelsOK, NEW K, NEW m, MapShape(m, K), NEW k \in K, NEW live,
           chan' = WithChannelFor(m, k)
    PROVE  LET after == GetOrInsert(m, k, Len(chan) + 1, live)
           IN  /\ ChannelStep
               /\ k \in DOMAIN m.map => chan' = chan
               /\ k \notin DOMAIN m.map => Opens
               /\ ChannelFor(m, k, Len(chan) + 1) \in 1 .. Len(chan')
               /\ after = [map |-> after.map, order |-> after.order]
               /\ DOMAIN after.map \subseteq K
               /\ after.map \in [DOMAIN after.map -> 1 .. Len(chan')]
<1> DEFINE n == Len(chan)
           after == GetOrInsert(m, k, n + 1, live)
<1>1. /\ k \in DOMAIN m.map => chan' = chan
      /\ k \notin DOMAIN m.map => Opens
  BY DEF WithChannelFor, Opens
<1>2. ChannelStep
  BY <1>1 DEF ChannelStep
<1>3. n \in Nat /\ Len(chan') \in Nat /\ n <= Len(chan')
  BY <1>2, ChannelsGrow
<1>4. Opens => Len(chan') = n + 1
  BY OpensFacts
<1>5. DOMAIN m.map \subseteq K /\ m.map \in [DOMAIN m.map -> 1 .. n]
  BY DEF MapShape
<1>6. /\ after = [map |-> after.map, order |-> after.order]
      /\ k \in DOMAIN m.map => after.map = m.map
      /\ k \notin DOMAIN m.map =>
            \E D \in SUBSET (DOMAIN m.map \cup {k}) :
               after.map = [x \in D |-> IF x = k THEN n + 1 ELSE m.map[x]]
  BY GetOrInsertMap
<1> HIDE DEF n, after
<1>7. ChannelFor(m, k, n + 1) \in 1 .. Len(chan')
  BY <1>1, <1>3, <1>4, <1>5 DEF ChannelFor
<1>8. CASE k \in DOMAIN m.map
  <2>1. after.map = m.map /\ 1 .. n \subseteq 1 .. Len(chan')
    BY <1>3, <1>6, <1>8
  <2>2. DOMAIN after.map \subseteq K /\ after.map \in [DOMAIN after.map -> 1 .. Len(chan')]
    BY <1>5, <2>1
  <2>3. QED
    BY <1>1, <1>2, <1>6, <1>7, <1>8, <2>2 DEF n, after
<1>9. CASE k \notin DOMAIN m.map
  <2>1. PICK D \in SUBSET (DOMAIN m.map \cup {k}) :
               after.map = [x \in D |-> IF x = k THEN n + 1 ELSE m.map[x]]
    BY <1>6, <1>9
  <2>2. \A x \in D : after.map[x] \in 1 .. Len(chan')
    BY <1>1, <1>3, <1>4, <1>5, <1>9, <2>1
  <2>3. DOMAIN after.map \subseteq K /\ after.map \in [DOMAIN after.map -> 1 .. Len(chan')]
    BY <1>5, <2>1, <2>2
  <2>4. QED
    BY <1>1, <1>2, <1>6, <1>7, <1>9, <2>3 DEF n, after
<1>10. QED
  BY <1>8, <1>9

\* A step of a publisher that leaves the patterns and the forwarders alone.
LEMMA PublisherMoves ==
    ASSUME BrokerOK, ChannelStep, UNCHANGED <<patterns, sub>>, MapShape(topics, Topics)',
           NEW p \in Publishers, NEW r \in PubTask, pub' = [pub EXCEPT ![p] = r],
           r.pc # "idle" => r.id \in Ids,
           r.pc = "exact" => r.chan \in 1 .. Len(chan'),
           r.pc # "patterns" => r.todo = {},
           r.todo \subseteq DOMAIN patterns.map
    PROVE  BrokerOK'
<1>1. ChannelsOK' /\ Len(chan) \in Nat /\ Len(chan') \in Nat /\ Len(chan) <= Len(chan')
  BY ChannelsGrow DEF BrokerOK
<1>2. MapsShaped'
  <2>1. 1 .. Len(chan) \subseteq 1 .. Len(chan')
    BY <1>1
  <2>2. QED
    BY <2>1 DEF BrokerOK, MapsShaped, MapShape
<1>3. /\ pub' \in [Publishers -> PubTask] /\ pub'[p] = r
      /\ \A q \in Publishers : q # p => pub'[q] = pub[q]
  BY DEF BrokerOK, PublishersOK
<1>4. PublisherOK(p)'
  BY <1>3 DEF PublisherOK
<1>5. ASSUME NEW q \in Publishers, q # p PROVE PublisherOK(q)'
  <2>1. pub[q].todo \subseteq DOMAIN patterns'.map
    BY DEF BrokerOK, PublishersOK, PublisherOK
  <2>2. QED
    BY <1>3, <1>5, <2>1, KeepPublisher
<1>6. PublishersOK'
  BY <1>3, <1>4, <1>5 DEF PublishersOK
<1>7. SubscribersOK'
  BY KeepSubscriber DEF SubscribersOK, BrokerOK
<1>8. QED
  BY <1>1, <1>2, <1>6, <1>7 DEF BrokerOK

\* A step of a forwarder: the publishers are left alone, and a pattern that a
\* publish is still going to send on is not evicted.
LEMMA ForwarderMoves ==
    ASSUME BrokerOK, ChannelStep, UNCHANGED pub, MapsShaped',
           \A p \in Publishers : pub[p].todo \subseteq DOMAIN patterns'.map,
           NEW s \in Subscribers, NEW r, sub' = [sub EXCEPT ![s] = r],
           DOMAIN r = SubFields,
           r.pc \in {"lock", "scan", "run"} => r.chan \in 1 .. Len(chan'),
           Exact(s) => /\ r \in SubTask /\ LastDelivered(r)
                       /\ r.pc = "new" => r.out = <<>>
                       /\ r.pc = "run" => r.pos \in 0 .. Len(chan'[r.chan].sent)
    PROVE  BrokerOK'
<1>1. /\ sub' = [t \in Subscribers |-> sub'[t]] /\ sub'[s] = r
      /\ \A t \in Subscribers : t # s => sub'[t] = sub[t]
  BY DEF BrokerOK, SubscribersOK
<1>2. SubscriberOK(s)'
  BY <1>1 DEF SubscriberOK, ExactOK, Exact, Sent
<1>3. SubscribersOK'
  BY <1>1, <1>2, KeepSubscriber DEF SubscribersOK
<1>4. ChannelsOK'
  BY ChannelsGrow DEF BrokerOK
<1>5. PublishersOK'
  BY KeepPublisher DEF BrokerOK, PublishersOK
<1>6. QED
  BY <1>3, <1>4, <1>5 DEF BrokerOK

\* The same for a step that touches nothing else.
LEMMA ForwarderAlone ==
    ASSUME BrokerOK, UNCHANGED <<topics, patterns, chan, pub>>,
           NEW s \in Subscribers, NEW r, sub' = [sub EXCEPT ![s] = r],
           DOMAIN r = SubFields,
           r.pc \in {"lock", "scan", "run"} => r.chan \in 1 .. Len(chan),
           Exact(s) => /\ r \in SubTask /\ LastDelivered(r)
                       /\ r.pc = "new" => r.out = <<>>
                       /\ r.pc = "run" => r.pos \in 0 .. Len(chan[r.chan].sent)
    PROVE  BrokerOK'
<1>1. ChannelStep /\ MapsShaped'
  BY DEF ChannelStep, BrokerOK, MapsShaped, MapShape
<1>2. \A p \in Publishers : pub[p].todo \subseteq DOMAIN patterns'.map
  BY DEF BrokerOK, PublishersOK, PublisherOK
<1>3. QED
  BY <1>1, <1>2, ForwarderMoves

\* What the steps of Broker::publish do to the channels.
LEMMA PublishSends ==
    ASSUME BrokerOK, NEW p \in Publishers
    PROVE  /\ PublishExact(p) => /\ pub[p].chan \in 1 .. Len(chan) /\ pub[p].id \in Ids
                                 /\ SendsOn(pub[p].chan, pub[p].id)
           /\ \A f \in Patterns : PublishPattern(p, f) =>
                 /\ f \in DOMAIN patterns.map
                 /\ patterns.map[f] \in 1 .. Len(chan) /\ pub[p].id \in Ids
                 /\ SendsOn(patterns.map[f], pub[p].id)
<1>1. PublisherOK(p) /\ MapShape(patterns, Patterns)
  BY DEF BrokerOK, PublishersOK, MapsShaped
<1>2. ASSUME PublishExact(p)
      PROVE  /\ pub[p].chan \in 1 .. Len(chan) /\ pub[p].id \in Ids
             /\ SendsOn(pub[p].chan, pub[p].id)
  <2>1. pub[p].chan \in 1 .. Len(chan) /\ pub[p].id \in Ids
    BY <1>1, <1>2 DEF PublishExact, PublisherOK
  <2>2. PICK retain : retain = RetainOf[pub[p].id]
    OBVIOUS
  <2>3. chan' = [chan EXCEPT ![pub[p].chan] = ChannelPublish(chan[pub[p].chan], pub[p].id, retain)]
    BY <1>2, <2>2 DEF PublishExact
  <2>4. QED
    BY <2>1, <2>2, <2>3 DEF SendsOn
<1>3. ASSUME NEW f \in Patterns, PublishPattern(p, f)
      PROVE  /\ f \in DOMAIN patterns.map
             /\ patterns.map[f] \in 1 .. Len(chan) /\ pub[p].id \in Ids
             /\ SendsOn(patterns.map[f], pub[p].id)
  <2>1. f \in DOMAIN patterns.map /\ pub[p].id \in Ids
    BY <1>1, <1>3 DEF PublishPattern, PublisherOK
  <2>2. patterns.map[f] \in 1 .. Len(chan)
    BY <1>1, <2>1 DEF MapShape
  <2>3. PICK c \in 1 .. Len(chan), retain \in {"no"} : c = patterns.map[f]
    BY <2>2
  <2>4. chan' = [chan EXCEPT ![c] = ChannelPublish(chan[c], pub[p].id, retain)]
    BY <1>3, <2>3 DEF PublishPattern
  <2>5. retain = "set" => RetainOf[pub[p].id] = "set"
    BY <2>3
  <2>6. SendsOn(c, pub[p].id)
    BY <2>4, <2>5 DEF SendsOn
  <2>7. QED
    BY <2>1, <2>2, <2>3, <2>6
<1>4. QED
  BY <1>2, <1>3

\* Broker::publish keeps the broker in shape.
LEMMA BrokerPublish ==
    ASSUME BrokerOK, NEW p \in Publishers,
           (\E id \in Ids : PublishBegin(p, id)) \/ PublishStep(p)
    PROVE  BrokerOK'
<1>1. /\ pub[p] \in PubTask /\ PublisherOK(p) /\ ChannelsOK
      /\ MapShape(topics, Topics) /\ MapShape(patterns, Patterns) /\ pub \in [Publishers -> PubTask]
  BY DEF BrokerOK, PublishersOK, MapsShaped
<1>2. ASSUME NEW id \in Ids, PublishBegin(p, id) PROVE BrokerOK'
  <2>1. ChannelStep /\ UNCHANGED <<topics, patterns, chan, sub>> /\ MapShape(topics, Topics)'
    BY <1>1, <1>2 DEF PublishBegin, ChannelStep, MapShape
  <2>2. CASE UNCHANGED pub
    BY <2>1, <2>2 DEF BrokerOK, ChannelsOK, MapsShaped, MapShape, PublishersOK, PublisherOK,
                      SubscribersOK, SubscriberOK, ExactOK, Sent, Exact
  <2>3. CASE pub' = [pub EXCEPT ![p].pc = "fetch", ![p].id = id]
    <3> DEFINE r == [pub[p] EXCEPT !.pc = "fetch", !.id = id]
    <3>1. /\ r \in PubTask /\ r.pc = "fetch" /\ r.id = id /\ r.todo = {}
          /\ pub' = [pub EXCEPT ![p] = r]
      BY <1>1, <1>2, <2>3 DEF PubTask, PublisherOK, PublishBegin
    <3> HIDE DEF r
    <3>2. QED
      BY <2>1, <3>1, PublisherMoves
  <2>4. QED
    BY <1>2, <2>2, <2>3 DEF PublishBegin
<1>3. CASE PublishFetch(p)
  <2> DEFINE t == TopicOf[pub[p].id]
             c == ChannelFor(topics, t, Len(chan) + 1)
             r == [pub[p] EXCEPT !.pc = "exact", !.chan = c]
  <2>1. pub[p].pc = "fetch" /\ pub[p].id \in Ids /\ t \in Topics
    BY <1>1, <1>3, FanoutAssumption DEF PublishFetch, PublisherOK
  <2>2. chan' = WithChannelFor(topics, t) /\ topics' = GetOrInsert(topics, t, Len(chan) + 1, Live)
        /\ UNCHANGED <<patterns, sub>>
    BY <1>3 DEF PublishFetch
  <2>3. ChannelStep /\ c \in 1 .. Len(chan')
    BY <1>1, <2>1, <2>2, GetOrInsertShape
  <2>4. /\ topics' = [map |-> topics'.map, order |-> topics'.order]
        /\ DOMAIN topics'.map \subseteq Topics
        /\ topics'.map \in [DOMAIN topics'.map -> 1 .. Len(chan')]
    BY <1>1, <2>1, <2>2, GetOrInsertShape
  <2>5. MapShape(topics, Topics)'
    BY <2>4 DEF MapShape
  <2>6. Len(chan') \in Nat
    BY <1>1, <2>3, ChannelsGrow
  <2>7. pub' = [pub EXCEPT ![p].pc = "exact", ![p].chan = c] /\ c \in Nat /\ pub[p].todo = {}
    BY <1>1, <1>3, <2>1, <2>3, <2>6 DEF PublisherOK, PublishFetch
  <2> HIDE DEF c, t
  <2>8. /\ r \in PubTask /\ r.pc = "exact" /\ r.id \in Ids /\ r.chan = c /\ r.todo = {}
        /\ pub' = [pub EXCEPT ![p] = r]
    BY <1>1, <2>1, <2>7 DEF PubTask
  <2> HIDE DEF r
  <2>9. QED
    BY <2>2, <2>3, <2>5, <2>8, PublisherMoves
<1>4. CASE PublishExact(p)
  <2>1. ChannelStep
    BY <1>4, PublishSends DEF ChannelStep
  <2>2. Len(chan) \in Nat /\ Len(chan') \in Nat /\ Len(chan) <= Len(chan')
    BY <1>1, <2>1, ChannelsGrow
  <2>3. MapShape(topics, Topics)' /\ UNCHANGED <<patterns, sub>>
    <3>1. 1 .. Len(chan) \subseteq 1 .. Len(chan')
      BY <2>2
    <3>2. QED
      BY <1>1, <1>4, <3>1 DEF PublishExact, MapShape
  <2> DEFINE r == [pub[p] EXCEPT !.pc = "lock", !.chan = None]
  <2>4. /\ r \in PubTask /\ r.pc = "lock" /\ r.id \in Ids /\ r.todo = {}
        /\ pub' = [pub EXCEPT ![p] = r]
    BY <1>1, <1>4 DEF PubTask, PublisherOK, PublishExact, None
  <2> HIDE DEF r
  <2>5. QED
    BY <2>1, <2>3, <2>4, PublisherMoves
<1>5. CASE PublishLock(p)
  <2>1. ChannelStep /\ UNCHANGED <<patterns, sub>> /\ MapShape(topics, Topics)'
    BY <1>1, <1>5 DEF PublishLock, ChannelStep, MapShape
  <2> DEFINE todo == {f \in DOMAIN patterns.map : TopicOf[pub[p].id] \in Matches[f]}
             r == [pub[p] EXCEPT !.pc = "patterns", !.todo = todo]
  <2>2. todo \subseteq DOMAIN patterns.map /\ todo \subseteq Patterns
    BY <1>1 DEF MapShape
  <2>3. pub' = [pub EXCEPT ![p].pc = "patterns", ![p].todo = todo] /\ pub[p].id \in Ids
    BY <1>1, <1>5 DEF PublishLock, PublisherOK
  <2> HIDE DEF todo
  <2>4. /\ r \in PubTask /\ r.pc = "patterns" /\ r.id \in Ids /\ r.todo = todo
        /\ pub' = [pub EXCEPT ![p] = r]
    BY <1>1, <2>2, <2>3 DEF PubTask
  <2> HIDE DEF r
  <2>5. QED
    BY <2>1, <2>2, <2>4, PublisherMoves
<1>6. ASSUME NEW f \in Patterns, PublishPattern(p, f) PROVE BrokerOK'
  <2>1. ChannelStep
    BY <1>6, PublishSends DEF ChannelStep
  <2>2. Len(chan) \in Nat /\ Len(chan') \in Nat /\ Len(chan) <= Len(chan')
    BY <1>1, <2>1, ChannelsGrow
  <2>3. MapShape(topics, Topics)' /\ UNCHANGED <<patterns, sub>>
    <3>1. 1 .. Len(chan) \subseteq 1 .. Len(chan')
      BY <2>2
    <3>2. QED
      BY <1>1, <1>6, <3>1 DEF PublishPattern, MapShape
  <2> DEFINE r == [pub[p] EXCEPT !.todo = @ \ {f}]
  <2>4. /\ r \in PubTask /\ r.pc = "patterns" /\ r.id \in Ids /\ r.todo \subseteq DOMAIN patterns.map
        /\ pub' = [pub EXCEPT ![p] = r]
    BY <1>1, <1>6 DEF PubTask, PublisherOK, PublishPattern
  <2> HIDE DEF r
  <2>5. QED
    BY <2>1, <2>3, <2>4, PublisherMoves
<1>7. CASE PublishDone(p)
  <2>1. ChannelStep /\ UNCHANGED <<patterns, sub>> /\ MapShape(topics, Topics)'
    BY <1>1, <1>7 DEF PublishDone, ChannelStep, MapShape
  <2> DEFINE r == [pub[p] EXCEPT !.pc = "idle", !.id = None]
  <2>2. r \in PubTask /\ r.pc = "idle" /\ r.todo = {} /\ pub' = [pub EXCEPT ![p] = r]
    BY <1>1, <1>7 DEF PubTask, PublishDone, None
  <2> HIDE DEF r
  <2>3. QED
    BY <2>1, <2>2, PublisherMoves
<1>8. QED
  BY <1>2, <1>3, <1>4, <1>5, <1>6, <1>7 DEF PublishStep

\* A backlog consists of message ids.
LEMMA BacklogSeq ==
    ASSUME NEW c \in Channel
    PROVE  ChannelBacklog(c) \in Seq(Ids)
<1>1. c.buffer \in Seq(Ids) /\ c.retained \in Ids \cup {None}
  BY DEF Channel
<1>2. c.retained # None => <<c.retained>> \o c.buffer \in Seq(Ids)
  BY <1>1
<1>3. QED
  BY <1>1, <1>2 DEF ChannelBacklog

\* What Broker::subscribe does for a literal filter: the forwarder's record r
\* afterwards, its channel c and the backlog b it was handed.
Resubscribed(s, r, b, c) ==
    /\ FilterOf[s] \in Topics /\ Exact(s) /\ sub[s].pc \in {"new", "run"}
    /\ sub' = [sub EXCEPT ![s] = r]
    /\ chan' = WithChannelFor(topics, FilterOf[s])
    /\ topics' = GetOrInsert(topics, FilterOf[s], Len(chan) + 1, Live)
    /\ UNCHANGED <<patterns, pub, seenVars>>
    /\ c \in 1 .. Len(chan') /\ c = ChannelFor(topics, FilterOf[s], Len(chan) + 1)
    /\ b = ChannelBacklog(chan'[c])
    /\ r = [x \in SubFields |-> r[x]]
    /\ r.pc = "run" /\ r.chan = c /\ r.pos = Len(chan'[c].sent)
    /\ r.scan = sub[s].scan /\ r.backlog = Recovered(b, sub[s].last)
    /\ r.last = sub[s].last /\ r.out = sub[s].out
    /\ r.lost = (sub[s].lost \/ GapOutranBuffer(b, sub[s].last))
    /\ r.lagged = (sub[s].lagged \/ Lagged(s))

\* What Broker::subscribe does for a forwarder of an exact topic, field by field.
LEMMA SubscribeExactFacts ==
    ASSUME BrokerOK, NEW s \in Subscribers, SubscribeExact(s)
    PROVE  \E r, b, c : Resubscribed(s, r, b, c)
<1> DEFINE t == FilterOf[s]
           c == ChannelFor(topics, t, Len(chan) + 1)
           b == ChannelBacklog(chan'[c])
<1>1. ChannelsOK /\ MapShape(topics, Topics) /\ DOMAIN sub[s] = SubFields
      /\ sub = [x \in Subscribers |-> sub[x]]
  BY DEF BrokerOK, MapsShaped, SubscribersOK, SubscriberOK
<1>2. /\ t \in Topics /\ chan' = WithChannelFor(topics, t)
      /\ topics' = GetOrInsert(topics, t, Len(chan) + 1, Live)
      /\ UNCHANGED <<patterns, pub, seenVars>>
      /\ Subscribing(s)
  BY DEF SubscribeExact
<1>3. Exact(s) /\ sub[s].pc \in {"new", "run"}
  BY <1>2 DEF Exact, Subscribing, Lagged
<1>4. c \in 1 .. Len(chan')
  BY <1>1, <1>2, GetOrInsertShape
<1>5. sub' = [sub EXCEPT ![s].pc = "run", ![s].chan = c, ![s].pos = Len(chan'[c].sent),
                         ![s].backlog = Recovered(b, sub[s].last),
                         ![s].lost = @ \/ GapOutranBuffer(b, sub[s].last),
                         ![s].lagged = @ \/ Lagged(s)]
  BY <1>2, Zenon DEF SubscribeExact, Subscribed
<1> HIDE DEF c, b, t
<1>6. PICK back, lost, lagged, pos :
          /\ back = Recovered(b, sub[s].last)
          /\ lost = (sub[s].lost \/ GapOutranBuffer(b, sub[s].last))
          /\ lagged = (sub[s].lagged \/ Lagged(s))
          /\ pos = Len(chan'[c].sent)
  OBVIOUS
<1>7. sub' = [sub EXCEPT ![s].pc = "run", ![s].chan = c, ![s].pos = pos,
                         ![s].backlog = back, ![s].lost = lost, ![s].lagged = lagged]
  BY <1>5, <1>6, Zenon
<1>8. PICK r : r = [sub[s] EXCEPT !.pc = "run", !.chan = c, !.pos = pos, !.backlog = back,
                                  !.lost = lost, !.lagged = lagged]
  OBVIOUS
<1>9. sub' = [sub EXCEPT ![s] = r]
  BY <1>1, <1>7, <1>8
<1>s. sub[s] = [x \in SubFields |-> sub[s][x]]
  BY <1>3 DEF BrokerOK, SubscribersOK, SubscriberOK, ExactOK, SubTask, SubFields
<1>t. r = [x \in SubFields |-> r[x]]
  BY <1>s, <1>8
<1>10. /\ DOMAIN r = SubFields /\ r.pc = "run" /\ r.chan = c /\ r.pos = pos /\ r.scan = sub[s].scan
       /\ r.backlog = back /\ r.last = sub[s].last /\ r.out = sub[s].out
       /\ r.lost = lost /\ r.lagged = lagged
  BY <1>1, <1>8 DEF SubFields
<1>11. Resubscribed(s, r, b, c)
  BY <1>2, <1>3, <1>4, <1>6, <1>9, <1>10, <1>t DEF b, c, t, Resubscribed
<1>12. QED
  BY <1>11

\* What sending one envelope of the backlog does.
LEMMA ForwardFacts ==
    ASSUME BrokerOK, NEW s \in Subscribers, Exact(s), Forward(s)
    PROVE  \E r \in SubTask :
              /\ sub' = [sub EXCEPT ![s] = r] /\ DOMAIN r = SubFields
              /\ sub[s].pc = "run" /\ r.pc = "run" /\ sub[s].backlog # <<>>
              /\ r.chan = sub[s].chan /\ r.pos = sub[s].pos /\ r.lost = sub[s].lost
              /\ r.out = Append(sub[s].out, Head(sub[s].backlog))
              /\ r.backlog = Tail(sub[s].backlog)
              /\ LastDelivered(r)
<1>1. sub[s] \in SubTask /\ DOMAIN sub[s] = SubFields /\ sub = [x \in Subscribers |-> sub[x]]
  BY DEF BrokerOK, SubscribersOK, SubscriberOK, ExactOK
<1>2. /\ sub[s].pc = "run" /\ sub[s].backlog # <<>>
      /\ sub' = [sub EXCEPT ![s].backlog = Tail(@), ![s].last = Head(sub[s].backlog),
                            ![s].out = Append(@, Head(sub[s].backlog))]
  BY DEF Forward
<1>3. PICK b \in Seq(Ids), o \in Seq(Ids) : b = sub[s].backlog /\ o = sub[s].out
  BY <1>1 DEF SubTask
<1>4. PICK id \in Ids, c \in Seq(Ids), q \in Seq(Ids) :
          id = Head(b) /\ c = Tail(b) /\ q = Append(o, id) /\ q # <<>> /\ q[Len(q)] = id
  <2>1. Head(b) \in Ids /\ Tail(b) \in Seq(Ids)
    BY <1>2, <1>3
  <2>2. PICK id \in Ids : id = Head(b)
    BY <2>1
  <2>3. Append(o, id) \in Seq(Ids) /\ Append(o, id) # <<>> /\ Append(o, id)[Len(Append(o, id))] = id
    OBVIOUS
  <2>4. QED
    BY <2>1, <2>2, <2>3
<1>5. PICK r : r = [sub[s] EXCEPT !.backlog = c, !.last = id, !.out = q]
  OBVIOUS
<1>6. sub' = [sub EXCEPT ![s] = r]
  BY <1>1, <1>2, <1>3, <1>4, <1>5
<1>7. /\ r \in SubTask /\ DOMAIN r = SubFields /\ r.backlog = c /\ r.last = id /\ r.out = q
      /\ r.pc = sub[s].pc /\ r.chan = sub[s].chan /\ r.pos = sub[s].pos /\ r.lost = sub[s].lost
  BY <1>1, <1>5 DEF SubTask, SubFields
<1>8. LastDelivered(r)
  BY <1>4, <1>7 DEF LastDelivered
<1>9. QED
  BY <1>2, <1>3, <1>4, <1>6, <1>7, <1>8

\* What a message received on the channel does.
LEMMA ReceiveFacts ==
    ASSUME BrokerOK, NEW s \in Subscribers, Exact(s), Receive(s)
    PROVE  \E r \in SubTask :
              /\ sub' = [sub EXCEPT ![s] = r] /\ DOMAIN r = SubFields
              /\ sub[s].pc = "run" /\ r.pc = "run" /\ sub[s].backlog = <<>>
              /\ Unread(s) # <<>> /\ Unread(s) \in Seq(Ids)
              /\ r.chan = sub[s].chan /\ r.pos = sub[s].pos + 1 /\ r.lost = sub[s].lost
              /\ r.pos \in 0 .. Len(Sent(r.chan))
              /\ r.out = sub[s].out /\ r.backlog = <<Head(Unread(s))>>
              /\ SubSeq(Sent(r.chan), r.pos + 1, Len(Sent(r.chan))) = Tail(Unread(s))
              /\ LastDelivered(r)
<1>1. sub[s] \in SubTask /\ DOMAIN sub[s] = SubFields /\ sub = [x \in Subscribers |-> sub[x]]
  BY DEF BrokerOK, SubscribersOK, SubscriberOK, ExactOK
<1>2. /\ sub[s].pc = "run" /\ sub[s].backlog = <<>> /\ Unread(s) # <<>>
      /\ sub' = [sub EXCEPT ![s].pos = @ + 1, ![s].backlog = <<Head(Unread(s))>>]
  BY DEF Receive
<1>3. PICK c \in 1 .. Len(chan) : c = sub[s].chan
  BY <1>2 DEF BrokerOK, SubscribersOK, SubscriberOK
<1>4. PICK sent \in Seq(Ids) : sent = chan[c].sent
  BY ChannelFacts DEF BrokerOK
<1>5. PICK k \in 0 .. Len(sent) : k = sub[s].pos
  BY <1>2, <1>3, <1>4 DEF BrokerOK, SubscribersOK, SubscriberOK, ExactOK, Sent
<1>6. Unread(s) = SubSeq(sent, k + 1, Len(sent))
  BY <1>3, <1>4, <1>5 DEF Unread
<1>7. /\ k < Len(sent) /\ SubSeq(sent, (k + 1) + 1, Len(sent)) = Tail(Unread(s))
      /\ Unread(s) \in Seq(Ids) /\ Len(sent) \in Nat
  <2>1. SubSeq(sent, k + 1, Len(sent)) # <<>>
    BY <1>2, <1>6
  <2>2. /\ k < Len(sent)
        /\ SubSeq(sent, (k + 1) + 1, Len(sent)) = Tail(SubSeq(sent, k + 1, Len(sent)))
        /\ SubSeq(sent, k + 1, Len(sent)) \in Seq(Ids)
    BY <2>1, UnreadTail
  <2>3. Len(sent) \in Nat
    OBVIOUS
  <2>4. QED
    BY <1>6, <2>2, <2>3
<1>8. LastDelivered(sub[s])
  BY DEF BrokerOK, SubscribersOK, SubscriberOK, ExactOK
<1>9. PICK id \in Ids : id = Head(Unread(s))
  BY <1>2, <1>7
<1>10. PICK b \in Seq(Ids) : b = <<id>>
  <2>1. <<id>> \in Seq(Ids)
    OBVIOUS
  <2>2. QED
    BY <2>1
<1>11. PICK l \in Nat : l = k + 1 /\ l \in 0 .. Len(sent)
  BY <1>7
<1>12. PICK r : r = [sub[s] EXCEPT !.pos = l, !.backlog = b]
  OBVIOUS
<1>13. sub' = [sub EXCEPT ![s] = r]
  BY <1>1, <1>2, <1>5, <1>9, <1>10, <1>11, <1>12
<1>14. /\ r \in SubTask /\ DOMAIN r = SubFields /\ r.pos = l /\ r.backlog = b
       /\ r.pc = sub[s].pc /\ r.chan = sub[s].chan /\ r.last = sub[s].last
       /\ r.out = sub[s].out /\ r.lost = sub[s].lost
  BY <1>1, <1>12 DEF SubTask, SubFields
<1>15. LastDelivered(r)
  BY <1>8, <1>14 DEF LastDelivered
<1>16. Sent(r.chan) = sent
  BY <1>3, <1>4, <1>14 DEF Sent
<1>17. QED
  BY <1>2, <1>5, <1>7, <1>8, <1>9, <1>10, <1>11, <1>13, <1>14, <1>15, <1>16

\* What Broker::subscribe does first for a wildcard.  A pattern is evicted only
\* while no publish walks the patterns.
LEMMA SubscribePatternFacts ==
    ASSUME BrokerOK, NEW s \in Subscribers, SubscribePattern(s)
    PROVE  /\ ~ Exact(s) /\ MapShape(patterns, Patterns)' /\ ChannelStep
           /\ chan' = chan \/ Opens
           /\ \A p \in Publishers : pub[p].todo \subseteq DOMAIN patterns'.map
           /\ \E r : \E c \in 1 .. Len(chan') :
                 /\ sub' = [sub EXCEPT ![s] = r]
                 /\ DOMAIN r = SubFields /\ r.pc = "lock" /\ r.chan = c
           /\ UNCHANGED <<topics, pub, seenVars>>
           /\ patterns' = GetOrInsert(patterns, FilterOf[s], Len(chan) + 1, Live)
<1> DEFINE f == FilterOf[s]
           c == ChannelFor(patterns, f, Len(chan) + 1)
<1>1. ChannelsOK /\ MapShape(patterns, Patterns) /\ DOMAIN sub[s] = SubFields
      /\ sub = [x \in Subscribers |-> sub[x]]
  BY DEF BrokerOK, MapsShaped, SubscribersOK, SubscriberOK
<1>2. /\ f \in Patterns /\ chan' = WithChannelFor(patterns, f)
      /\ patterns' = GetOrInsert(patterns, f, Len(chan) + 1, Live)
      /\ UNCHANGED <<topics, pub, seenVars>> /\ ~ PatternsReadLocked
  BY DEF SubscribePattern
<1>3. ~ Exact(s)
  BY <1>2, FanoutAssumption DEF Exact
<1>4. /\ c \in 1 .. Len(chan') /\ ChannelStep
      /\ chan' = chan \/ Opens
  BY <1>1, <1>2, GetOrInsertShape
<1>5. /\ patterns' = [map |-> patterns'.map, order |-> patterns'.order]
      /\ DOMAIN patterns'.map \subseteq Patterns
      /\ patterns'.map \in [DOMAIN patterns'.map -> 1 .. Len(chan')]
  BY <1>1, <1>2, GetOrInsertShape
<1>6. MapShape(patterns, Patterns)'
  BY <1>5 DEF MapShape
<1>7. \A p \in Publishers : pub[p].todo \subseteq DOMAIN patterns'.map
  BY <1>2 DEF PatternsReadLocked, BrokerOK, PublishersOK, PublisherOK
<1>8. sub' = [sub EXCEPT ![s].pc = "lock", ![s].chan = c,
                         ![s].pos = Len(chan'[c].sent),
                         ![s].backlog = ChannelBacklog(chan'[c]),
                         ![s].lagged = @ \/ Lagged(s)]
  BY <1>2, Zenon DEF SubscribePattern
<1> HIDE DEF f, c
<1>9. PICK pos, back, lagged : /\ pos = Len(chan'[c].sent) /\ back = ChannelBacklog(chan'[c])
                               /\ lagged = (sub[s].lagged \/ Lagged(s))
  OBVIOUS
<1>10. sub' = [sub EXCEPT ![s].pc = "lock", ![s].chan = c, ![s].pos = pos,
                          ![s].backlog = back, ![s].lagged = lagged]
  BY <1>8, <1>9, Zenon
<1>11. PICK r : r = [sub[s] EXCEPT !.pc = "lock", !.chan = c, !.pos = pos, !.backlog = back,
                                   !.lagged = lagged]
  OBVIOUS
<1>12. sub' = [sub EXCEPT ![s] = r]
  BY <1>1, <1>10, <1>11
<1>13. DOMAIN r = SubFields /\ r.pc = "lock" /\ r.chan = c
  BY <1>1, <1>11 DEF SubFields
<1>14. QED
  BY <1>2, <1>3, <1>4, <1>6, <1>7, <1>12, <1>13 DEF f, c

\* The scan and the forwarding of a wildcard subscription keep its channel.
LEMMA WildcardFacts ==
    ASSUME BrokerOK, NEW s \in Subscribers,
           \/ ScanLock(s) \/ (\E t \in Topics : ScanTopic(s, t)) \/ ScanDone(s)
           \/ ~ Exact(s) /\ (Forward(s) \/ Receive(s))
    PROVE  /\ ~ Exact(s) /\ UNCHANGED <<topics, patterns, chan, pub, seenVars>>
           /\ \E r : /\ sub' = [sub EXCEPT ![s] = r] /\ DOMAIN r = SubFields
                     /\ r.chan = sub[s].chan /\ r.chan \in 1 .. Len(chan)
<1>1. /\ DOMAIN sub[s] = SubFields /\ sub = [x \in Subscribers |-> sub[x]]
      /\ Exact(s) => sub[s].pc \in {"new", "run", "ended"}
  BY DEF BrokerOK, SubscribersOK, SubscriberOK, ExactOK, SubTask
<1>2. UNCHANGED <<topics, patterns, chan, pub, seenVars>>
  BY DEF ScanLock, ScanTopic, ScanDone, Forward, Receive
<1>3. sub[s].pc \in {"lock", "scan", "run"} /\ ~ Exact(s)
  BY <1>1 DEF ScanLock, ScanTopic, ScanDone, Forward, Receive
<1>4. sub[s].chan \in 1 .. Len(chan)
  BY <1>3 DEF BrokerOK, SubscribersOK, SubscriberOK
<1>5. CASE ScanLock(s)
  <2> DEFINE scan == DOMAIN topics.map \cap Matches[FilterOf[s]]
  <2>1. sub' = [sub EXCEPT ![s].pc = "scan", ![s].scan = scan]
    BY <1>5, Zenon DEF ScanLock
  <2> HIDE DEF scan
  <2>2. PICK r : r = [sub[s] EXCEPT !.pc = "scan", !.scan = scan]
    OBVIOUS
  <2>3. sub' = [sub EXCEPT ![s] = r] /\ DOMAIN r = SubFields /\ r.chan = sub[s].chan
    BY <1>1, <2>1, <2>2 DEF SubFields
  <2>4. QED
    BY <1>2, <1>3, <1>4, <2>3
<1>6. ASSUME NEW t \in Topics, ScanTopic(s, t)
      PROVE  \E r : /\ sub' = [sub EXCEPT ![s] = r] /\ DOMAIN r = SubFields
                    /\ r.chan = sub[s].chan
  <2> DEFINE m == chan[topics.map[t]].retained
             scan == sub[s].scan \ {t}
             back == IF m # None /\ m \notin Range(sub[s].backlog)
                     THEN Append(sub[s].backlog, m) ELSE sub[s].backlog
  <2>1. sub' = [sub EXCEPT ![s].scan = scan, ![s].backlog = back]
    BY <1>6, Zenon DEF ScanTopic
  <2> HIDE DEF scan, back
  <2>2. PICK r : r = [sub[s] EXCEPT !.scan = scan, !.backlog = back]
    OBVIOUS
  <2>3. sub' = [sub EXCEPT ![s] = r] /\ DOMAIN r = SubFields /\ r.chan = sub[s].chan
    BY <1>1, <2>1, <2>2 DEF SubFields
  <2>4. QED
    BY <2>3
<1>7. CASE ScanDone(s)
  <2> DEFINE b == SortedById(sub[s].backlog)
             back == Recovered(b, sub[s].last)
             lost == sub[s].lost \/ GapOutranBuffer(b, sub[s].last)
             lagged == sub[s].lagged \/ Lagged(s)
  <2>1. sub' = [sub EXCEPT ![s].pc = "run", ![s].chan = sub[s].chan, ![s].pos = sub[s].pos,
                           ![s].backlog = back, ![s].lost = lost, ![s].lagged = lagged]
    BY <1>7, Zenon DEF ScanDone, Subscribed
  <2> HIDE DEF back, lost, lagged
  <2>2. PICK r : r = [sub[s] EXCEPT !.pc = "run", !.chan = sub[s].chan, !.pos = sub[s].pos,
                                    !.backlog = back, !.lost = lost, !.lagged = lagged]
    OBVIOUS
  <2>3. sub' = [sub EXCEPT ![s] = r] /\ DOMAIN r = SubFields /\ r.chan = sub[s].chan
    BY <1>1, <2>1, <2>2 DEF SubFields
  <2>4. QED
    BY <1>2, <1>3, <1>4, <2>3
<1>8. CASE Forward(s)
  <2> DEFINE last == Head(sub[s].backlog)
             back == Tail(sub[s].backlog)
             out == Append(sub[s].out, last)
  <2>1. sub' = [sub EXCEPT ![s].backlog = back, ![s].last = last, ![s].out = out]
    BY <1>8, Zenon DEF Forward
  <2> HIDE DEF back, last, out
  <2>2. PICK r : r = [sub[s] EXCEPT !.backlog = back, !.last = last, !.out = out]
    OBVIOUS
  <2>3. sub' = [sub EXCEPT ![s] = r] /\ DOMAIN r = SubFields /\ r.chan = sub[s].chan
    BY <1>1, <2>1, <2>2 DEF SubFields
  <2>4. QED
    BY <1>2, <1>3, <1>4, <2>3
<1>9. CASE Receive(s)
  <2> DEFINE pos == sub[s].pos + 1
             back == <<Head(Unread(s))>>
  <2>1. sub' = [sub EXCEPT ![s].pos = pos, ![s].backlog = back]
    BY <1>9, Zenon DEF Receive
  <2> HIDE DEF pos, back
  <2>2. PICK r : r = [sub[s] EXCEPT !.pos = pos, !.backlog = back]
    OBVIOUS
  <2>3. sub' = [sub EXCEPT ![s] = r] /\ DOMAIN r = SubFields /\ r.chan = sub[s].chan
    BY <1>1, <2>1, <2>2 DEF SubFields
  <2>4. QED
    BY <1>2, <1>3, <1>4, <2>3
<1>10. QED
  BY <1>2, <1>3, <1>4, <1>5, <1>6, <1>7, <1>8, <1>9

\* Ending a forwarder clears what it held.
LEMMA EndFacts ==
    ASSUME BrokerOK, NEW s \in Subscribers, End(s)
    PROVE  /\ UNCHANGED <<topics, patterns, chan, pub, seenVars>>
           /\ \E r : /\ sub' = [sub EXCEPT ![s] = r] /\ DOMAIN r = SubFields /\ r.pc = "ended"
                     /\ Exact(s) => r \in SubTask /\ LastDelivered(r)
<1>1. /\ DOMAIN sub[s] = SubFields /\ sub = [x \in Subscribers |-> sub[x]]
      /\ Exact(s) => sub[s] \in SubTask /\ LastDelivered(sub[s])
  BY DEF BrokerOK, SubscribersOK, SubscriberOK, ExactOK
<1>2. PICK r : r = [sub[s] EXCEPT !.pc = "ended", !.chan = None, !.pos = 0, !.scan = {},
                                  !.backlog = <<>>]
  OBVIOUS
<1>3. /\ sub' = [sub EXCEPT ![s].pc = "ended", ![s].chan = None, ![s].pos = 0, ![s].scan = {},
                            ![s].backlog = <<>>]
      /\ UNCHANGED <<topics, patterns, chan, pub, seenVars>>
  BY DEF End
<1>4. sub' = [sub EXCEPT ![s] = r]
  BY <1>1, <1>2, <1>3
<1>5. /\ DOMAIN r = SubFields /\ r.pc = "ended" /\ r.last = sub[s].last /\ r.out = sub[s].out
  BY <1>1, <1>2 DEF SubFields
<1>6. ASSUME Exact(s) PROVE r \in SubTask /\ LastDelivered(r)
  <2>1. r \in SubTask
    <3>1. None \in Nat /\ sub[s] \in SubTask
      BY <1>1, <1>6 DEF None
    <3>2. r = [pc |-> "ended", chan |-> None, pos |-> 0, scan |-> {}, backlog |-> <<>>,
               last |-> sub[s].last, out |-> sub[s].out, lost |-> sub[s].lost,
               lagged |-> sub[s].lagged]
      BY <1>2, <3>1 DEF SubTask
    <3>3. QED
      BY <3>1, <3>2 DEF SubTask
  <2>2. QED
    BY <1>1, <1>5, <1>6, <2>1 DEF LastDelivered
<1>7. QED
  BY <1>3, <1>4, <1>5, <1>6

\* Broker::subscribe and the forwarder keep the broker in shape.
LEMMA BrokerForward ==
    ASSUME BrokerOK, NEW s \in Subscribers, ForwarderStep(s) \/ End(s)
    PROVE  BrokerOK'
<1>1. /\ SubscriberOK(s) /\ ChannelsOK /\ MapShape(topics, Topics) /\ MapShape(patterns, Patterns)
      /\ \A p \in Publishers : pub[p].todo \subseteq DOMAIN patterns.map
  BY DEF BrokerOK, SubscribersOK, MapsShaped, PublishersOK, PublisherOK
<1>2. CASE SubscribeExact(s)
  <2>0. PICK r, b, c : Resubscribed(s, r, b, c)
    BY <1>2, SubscribeExactFacts
  <2>1. /\ FilterOf[s] \in Topics /\ Exact(s) /\ sub' = [sub EXCEPT ![s] = r]
        /\ chan' = WithChannelFor(topics, FilterOf[s])
        /\ topics' = GetOrInsert(topics, FilterOf[s], Len(chan) + 1, Live)
        /\ UNCHANGED <<patterns, pub, seenVars>>
    BY <2>0 DEF Resubscribed
  <2>2. ChannelStep
    BY <1>1, <2>1, GetOrInsertShape
  <2>3. /\ topics' = [map |-> topics'.map, order |-> topics'.order]
        /\ DOMAIN topics'.map \subseteq Topics
        /\ topics'.map \in [DOMAIN topics'.map -> 1 .. Len(chan')]
    BY <1>1, <2>1, GetOrInsertShape
  <2>4. MapsShaped'
    <3>1. 1 .. Len(chan) \subseteq 1 .. Len(chan')
      BY <1>1, <2>2, ChannelsGrow
    <3>2. UNCHANGED patterns
      BY <2>1
    <3>3. QED
      BY <1>1, <2>3, <3>1, <3>2 DEF MapsShaped, MapShape
  <2>5. ChannelsOK' /\ Len(chan') \in Nat
    BY <1>1, <2>2, ChannelsGrow
  <2>6. c \in 1 .. Len(chan') /\ b = ChannelBacklog(chan'[c])
    BY <2>0 DEF Resubscribed
  <2>7. chan'[c] \in Channel /\ Len(chan'[c].sent) \in Nat
    <3>1. chan'[c] \in Channel
      BY <2>5, <2>6 DEF ChannelsOK
    <3>2. QED
      BY <3>1 DEF Channel
  <2>8. b \in Seq(Ids)
    BY <2>6, <2>7, BacklogSeq
  <2>9. sub[s] \in SubTask /\ LastDelivered(sub[s])
    BY <1>1, <2>1 DEF SubscriberOK, ExactOK
  <2>10. sub[s].last \in Ids \cup {None} /\ sub[s].lost \in BOOLEAN /\ sub[s].lagged \in BOOLEAN
         /\ sub[s].out \in Seq(Ids) /\ sub[s].scan \in SUBSET Topics
    BY <2>9 DEF SubTask
  <2>11. Recovered(b, sub[s].last) \in Seq(Ids)
    BY <2>8, <2>10, RecoveredFacts
  <2>12. r.lost \in BOOLEAN /\ r.lagged \in BOOLEAN
    <3>1. r.lost = (sub[s].lost \/ GapOutranBuffer(b, sub[s].last))
          /\ r.lagged = (sub[s].lagged \/ Lagged(s))
      BY <2>0 DEF Resubscribed
    <3>2. QED
      BY <2>10, <3>1, Zenon
  <2>13. /\ r.pc = "run" /\ r.chan = c /\ r.pos = Len(chan'[c].sent)
         /\ r.scan \in SUBSET Topics /\ r.backlog \in Seq(Ids) /\ r.last \in Ids \cup {None}
         /\ r.out \in Seq(Ids) /\ r.last = sub[s].last /\ r.out = sub[s].out
         /\ r = [x \in SubFields |-> r[x]] /\ DOMAIN r = SubFields
    BY <2>0, <2>10, <2>11 DEF Resubscribed
  <2>14. r = [pc |-> r.pc, chan |-> r.chan, pos |-> r.pos, scan |-> r.scan, backlog |-> r.backlog,
              last |-> r.last, out |-> r.out, lost |-> r.lost, lagged |-> r.lagged]
    BY <2>13 DEF SubFields
  <2>15. r \in SubTask
    <3>1. r.chan \in Nat /\ r.pos \in Nat
      BY <2>5, <2>6, <2>7, <2>13
    <3>2. /\ r.pc \in {"new", "run", "ended"}
          /\ r.scan \in SUBSET Topics /\ r.backlog \in Seq(Ids) /\ r.last \in Ids \cup {None}
          /\ r.out \in Seq(Ids)
      BY <2>13
    <3>3. QED
      BY <2>12, <2>14, <3>1, <3>2 DEF SubTask
  <2>16. LastDelivered(r)
    BY <2>9, <2>13 DEF LastDelivered
  <2>17. UNCHANGED pub /\ \A p \in Publishers : pub[p].todo \subseteq DOMAIN patterns'.map
    BY <1>1, <2>1
  <2>18. r.pos \in 0 .. Len(chan'[r.chan].sent)
    BY <2>7, <2>13
  <2>19. QED
    <3>1. r.chan \in 1 .. Len(chan') /\ r.pc # "new" /\ DOMAIN r = SubFields
      BY <2>6, <2>13
    <3>2. sub' = [sub EXCEPT ![s] = r]
      BY <2>1
    <3>3. QED
      BY <2>2, <2>4, <2>15, <2>16, <2>17, <2>18, <3>1, <3>2, ForwarderMoves
<1>3. CASE SubscribePattern(s)
  <2>1. /\ ~ Exact(s) /\ MapShape(patterns, Patterns)' /\ ChannelStep
        /\ \A p \in Publishers : pub[p].todo \subseteq DOMAIN patterns'.map
        /\ UNCHANGED <<topics, pub>>
    BY <1>3, SubscribePatternFacts
  <2>2. PICK r : \E c \in 1 .. Len(chan') :
                    /\ sub' = [sub EXCEPT ![s] = r]
                    /\ DOMAIN r = SubFields /\ r.pc = "lock" /\ r.chan = c
    BY <1>3, SubscribePatternFacts
  <2>3. MapsShaped'
    <3>1. 1 .. Len(chan) \subseteq 1 .. Len(chan')
      BY <1>1, <2>1, ChannelsGrow
    <3>2. QED
      BY <1>1, <2>1, <3>1 DEF MapsShaped, MapShape
  <2>4. QED
    BY <2>1, <2>2, <2>3, ForwarderMoves
<1>4. CASE \/ ScanLock(s) \/ (\E t \in Topics : ScanTopic(s, t)) \/ ScanDone(s)
           \/ ~ Exact(s) /\ (Forward(s) \/ Receive(s))
  <2>1. ~ Exact(s) /\ UNCHANGED <<topics, patterns, chan, pub, seenVars>>
    BY <1>4, WildcardFacts
  <2>2. PICK r : /\ sub' = [sub EXCEPT ![s] = r] /\ DOMAIN r = SubFields
                 /\ r.chan = sub[s].chan /\ r.chan \in 1 .. Len(chan)
    BY <1>4, WildcardFacts
  <2>3. QED
    BY <2>1, <2>2, ForwarderAlone
<1>5. CASE Exact(s) /\ Forward(s)
  <2>1. PICK r \in SubTask :
              /\ sub' = [sub EXCEPT ![s] = r] /\ DOMAIN r = SubFields
              /\ sub[s].pc = "run" /\ r.pc = "run"
              /\ r.chan = sub[s].chan /\ r.pos = sub[s].pos
              /\ LastDelivered(r)
    BY <1>5, ForwardFacts
  <2>2. r.chan \in 1 .. Len(chan) /\ r.pos \in 0 .. Len(chan[r.chan].sent)
    BY <1>1, <1>5, <2>1 DEF SubscriberOK, ExactOK, Sent
  <2>3. UNCHANGED <<topics, patterns, chan, pub>>
    BY <1>5 DEF Forward
  <2>4. QED
    BY <2>1, <2>2, <2>3, ForwarderAlone
<1>6. CASE Exact(s) /\ Receive(s)
  <2>1. PICK r \in SubTask :
              /\ sub' = [sub EXCEPT ![s] = r] /\ DOMAIN r = SubFields
              /\ sub[s].pc = "run" /\ r.pc = "run"
              /\ r.chan = sub[s].chan /\ r.pos \in 0 .. Len(Sent(r.chan))
              /\ LastDelivered(r)
    BY <1>6, ReceiveFacts
  <2>2. r.chan \in 1 .. Len(chan) /\ r.pos \in 0 .. Len(chan[r.chan].sent)
    BY <1>1, <1>6, <2>1 DEF SubscriberOK, ExactOK, Sent
  <2>3. UNCHANGED <<topics, patterns, chan, pub>>
    BY <1>6 DEF Receive
  <2>4. QED
    BY <2>1, <2>2, <2>3, ForwarderAlone
<1>7. CASE End(s)
  <2>1. UNCHANGED <<topics, patterns, chan, pub, seenVars>>
    BY <1>7, EndFacts
  <2>2. PICK r : /\ sub' = [sub EXCEPT ![s] = r] /\ DOMAIN r = SubFields /\ r.pc = "ended"
                 /\ Exact(s) => r \in SubTask /\ LastDelivered(r)
    BY <1>7, EndFacts
  <2>3. QED
    BY <2>1, <2>2, ForwarderAlone
<1>8. QED
  BY <1>2, <1>3, <1>4, <1>5, <1>6, <1>7 DEF ForwarderStep

\* The broker stays in shape.
LEMMA BrokerStep == BrokerOK /\ [FanoutNext]_fanoutVars => BrokerOK'
<1>1. ASSUME BrokerOK, UNCHANGED <<topics, patterns, chan, pub, sub>> PROVE BrokerOK'
  BY <1>1 DEF BrokerOK, ChannelsOK, MapsShaped, MapShape, PublishersOK, PublisherOK,
              SubscribersOK, SubscriberOK, ExactOK, Sent, Exact
<1>2. UNCHANGED fanoutVars => UNCHANGED <<topics, patterns, chan, pub, sub>>
  BY DEF fanoutVars
<1>3. \A s \in Subscribers : ClientReads(s) => UNCHANGED <<topics, patterns, chan, pub, sub>>
  BY DEF ClientReads
<1>4. QED
  BY <1>1, <1>2, <1>3, BrokerPublish, BrokerForward DEF FanoutNext

-----------------------------------------------------------------------------
(* Order and gaps.                                                          *)

\* The forwarders of exact topics that are delivering.
ExactRunning == {s \in Subscribers : Exact(s) /\ sub[s].pc = "run"}

\* The publishes that have not yet sent on the channel of their own topic.
Early == {p \in Publishers : pub[p].pc \in {"fetch", "exact"}}

\* The channels through which an exact topic can still be reached.
TopicChans == {topics.map[t] : t \in DOMAIN topics.map}
              \cup {sub[s].chan : s \in ExactRunning}
              \cup {pub[p].chan : p \in {q \in Publishers : pub[q].pc = "exact"}}

PatternChans == {patterns.map[f] : f \in DOMAIN patterns.map}

\* The channel a forwarder listens on, and the one it would be given now.
Known(s) == {sub[s].chan} \cup {topics.map[t] : t \in DOMAIN topics.map \cap {FilterOf[s]}}

\* No message was sent twice, on the same channel or on two of them.
SentOnce ==
    /\ \A c \in TopicChans : Distinct(Sent(c)) /\ Elements(Sent(c)) \subseteq Elements(accepted)
    /\ \A c, d \in TopicChans : c # d => Elements(Sent(c)) \cap Elements(Sent(d)) = {}

\* What a forwarder sent, sends and will receive: in order on every channel it
\* can come to listen on, and without a gap as long as it has reported no loss.
StreamOK(s) ==
    /\ Elements(Stream(s)) \subseteq Elements(accepted)
    /\ Distinct(Stream(s))
    /\ \A c \in Known(s) : SameOrder(Stream(s), Sent(c))
    /\ ~ sub[s].lost => Elements(Stream(s)) \subseteq Elements(Sent(sub[s].chan))
    /\ ~ sub[s].lost /\ NeverRetained(sub[s].chan) => IsTailOf(Stream(s), Sent(sub[s].chan))

\* A message on its way to its topic's channel is nowhere yet.
UnsentOK(p) ==
    /\ pub[p].id \in Elements(accepted)
    /\ \A c \in TopicChans : pub[p].id \notin Elements(Sent(c))
    /\ \A s \in ExactRunning : pub[p].id \notin Elements(Stream(s))
    /\ \A q \in Early : q # p => pub[q].id # pub[p].id

DeliveryOK ==
    EachIdOnce => /\ SentOnce
                  /\ \A s \in ExactRunning : StreamOK(s)
                  /\ \A p \in Early : UnsentOK(p)

FanoutInv ==
    /\ BrokerOK
    /\ accepted \in Seq(Ids)
    /\ TopicChans \cap PatternChans = {}
    /\ DeliveryOK

\* All those channels exist.
LEMMA ChansExist ==
    ASSUME BrokerOK
    PROVE  /\ TopicChans \subseteq 1 .. Len(chan) /\ PatternChans \subseteq 1 .. Len(chan)
           /\ \A s \in ExactRunning : Known(s) \subseteq TopicChans
<1>1. \A t \in DOMAIN topics.map : topics.map[t] \in 1 .. Len(chan)
  BY DEF BrokerOK, MapsShaped, MapShape
<1>2. \A f \in DOMAIN patterns.map : patterns.map[f] \in 1 .. Len(chan)
  BY DEF BrokerOK, MapsShaped, MapShape
<1>3. \A s \in ExactRunning : sub[s].chan \in 1 .. Len(chan)
  BY DEF BrokerOK, SubscribersOK, SubscriberOK, ExactRunning
<1>4. \A p \in Publishers : pub[p].pc = "exact" => pub[p].chan \in 1 .. Len(chan)
  BY DEF BrokerOK, PublishersOK, PublisherOK
<1>5. \A s \in ExactRunning : Known(s) \subseteq TopicChans
  BY DEF Known, TopicChans
<1>6. QED
  BY <1>1, <1>2, <1>3, <1>4, <1>5 DEF TopicChans, PatternChans

\* The parts of a stream are sequences of ids.
LEMMA StreamSeq ==
    ASSUME BrokerOK, NEW s \in ExactRunning
    PROVE  /\ s \in Subscribers /\ Exact(s) /\ sub[s] \in SubTask /\ sub[s].pc = "run"
           /\ sub[s].chan \in 1 .. Len(chan) /\ Sent(sub[s].chan) \in Seq(Ids)
           /\ sub[s].pos \in 0 .. Len(Sent(sub[s].chan))
           /\ sub[s].out \in Seq(Ids) /\ sub[s].backlog \in Seq(Ids) /\ Unread(s) \in Seq(Ids)
           /\ sub[s].last \in Ids \cup {None} /\ LastDelivered(sub[s])
           /\ Unread(s) = SubSeq(Sent(sub[s].chan), sub[s].pos + 1, Len(Sent(sub[s].chan)))
           /\ sub[s].out \o sub[s].backlog \in Seq(Ids) /\ Stream(s) \in Seq(Ids)
<1>1. /\ s \in Subscribers /\ Exact(s) /\ sub[s].pc = "run" /\ sub[s] \in SubTask
      /\ sub[s].chan \in 1 .. Len(chan) /\ sub[s].pos \in 0 .. Len(Sent(sub[s].chan))
      /\ LastDelivered(sub[s])
  BY DEF ExactRunning, BrokerOK, SubscribersOK, SubscriberOK, ExactOK
<1>2. Sent(sub[s].chan) \in Seq(Ids)
  BY <1>1, ChannelFacts DEF BrokerOK, Sent
<1>3. /\ sub[s].out \in Seq(Ids) /\ sub[s].backlog \in Seq(Ids) /\ sub[s].last \in Ids \cup {None}
  BY <1>1 DEF SubTask
<1>4. Unread(s) = SubSeq(Sent(sub[s].chan), sub[s].pos + 1, Len(Sent(sub[s].chan)))
  BY DEF Unread, Sent
<1>5. PICK q \in Seq(Ids), k \in Nat : q = Sent(sub[s].chan) /\ k = sub[s].pos /\ k <= Len(q)
  BY <1>1, <1>2
<1>6. SubSeq(q, k + 1, Len(q)) \in Seq(Ids)
  OBVIOUS
<1>7. Unread(s) \in Seq(Ids)
  BY <1>4, <1>5, <1>6
<1>8. sub[s].out \o sub[s].backlog \in Seq(Ids)
  BY <1>3
<1>9. Stream(s) \in Seq(Ids)
  BY <1>7, <1>8 DEF Stream
<1>10. QED
  BY <1>1, <1>2, <1>3, <1>4, <1>7, <1>8, <1>9

\* The empty sequence.
LEMMA EmptyFacts ==
    /\ Distinct(<<>>) /\ Elements(<<>>) = {} /\ \A q : SameOrder(q, <<>>)
  BY DEF Distinct, Elements, SameOrder

\* A step that sends nothing to an exact topic and starts no publish: what there
\* is stays in order and channels opened are empty, so only the forwarders that
\* subscribe in this step need a look.
LEMMA JoinStep ==
    ASSUME BrokerOK, DeliveryOK, UNCHANGED accepted, NEW Blank, NEW Joined,
           \A c \in Blank : chan'[c].sent = <<>>,
           \A c \in TopicChans : chan'[c].sent = chan[c].sent,
           TopicChans' \subseteq TopicChans \cup Blank,
           ExactRunning' \subseteq ExactRunning \cup Joined,
           \A s \in ExactRunning' \ Joined :
              /\ Stream(s)' = Stream(s)
              /\ sub'[s].chan = sub[s].chan /\ sub'[s].lost = sub[s].lost
              /\ Known(s)' \subseteq Known(s) \cup Blank,
           \A s \in ExactRunning' \cap Joined : EachIdOnce =>
              /\ StreamOK(s)'
              /\ \A p \in Early : pub[p].id \notin Elements(Stream(s)'),
           Early' \subseteq Early,
           \A p \in Early' : pub'[p].id = pub[p].id
    PROVE  DeliveryOK'
<1> SUFFICES ASSUME EachIdOnce'
             PROVE  /\ SentOnce'
                    /\ \A s \in ExactRunning' : StreamOK(s)'
                    /\ \A p \in Early' : UnsentOK(p)'
  BY DEF DeliveryOK
<1>1. /\ SentOnce /\ accepted' = accepted
      /\ \A s \in ExactRunning : StreamOK(s)
      /\ \A p \in Early : UnsentOK(p)
  BY DEF DeliveryOK, EachIdOnce
<1>2. \A c \in TopicChans' : \/ chan'[c].sent = <<>>
                             \/ c \in TopicChans /\ chan'[c].sent = Sent(c)
  BY DEF Sent
<1>3. SentOnce'
  <2>1. \A c \in TopicChans' : Distinct(chan'[c].sent) /\ Elements(chan'[c].sent) \subseteq Elements(accepted)
    BY <1>1, <1>2, EmptyFacts DEF SentOnce
  <2>2. \A c, d \in TopicChans' : c # d => Elements(chan'[c].sent) \cap Elements(chan'[d].sent) = {}
    BY <1>1, <1>2, EmptyFacts DEF SentOnce
  <2>3. QED
    BY <1>1, <2>1, <2>2 DEF SentOnce, Sent
<1>e. EachIdOnce
  BY DEF EachIdOnce
<1>4. ASSUME NEW s \in ExactRunning' \ Joined PROVE StreamOK(s)'
  <2>1. /\ Stream(s)' = Stream(s) /\ sub'[s].chan = sub[s].chan /\ sub'[s].lost = sub[s].lost
        /\ s \in ExactRunning /\ StreamOK(s)
    BY <1>1, <1>4
  <2>2. Known(s) \subseteq TopicChans /\ sub[s].chan \in Known(s)
    BY <2>1, ChansExist DEF Known
  <2>3. Sent(sub[s].chan) = chan'[sub[s].chan].sent
    BY <2>2 DEF Sent
  <2>4. \A c \in Known(s)' : SameOrder(Stream(s), chan'[c].sent)
    <3>1. \A c \in Known(s) : SameOrder(Stream(s), chan'[c].sent)
      BY <2>1, <2>2 DEF StreamOK, Sent
    <3>2. \A c \in Blank : SameOrder(Stream(s), chan'[c].sent)
      BY EmptyFacts
    <3>3. Known(s)' \subseteq Known(s) \cup Blank
      BY <1>4
    <3>4. QED
      BY <3>1, <3>2, <3>3
  <2>5. NeverRetained(sub[s].chan)' => NeverRetained(sub[s].chan)
    BY <2>1, <2>3 DEF NeverRetained, Sent
  <2>6. /\ Elements(Stream(s)) \subseteq Elements(accepted) /\ Distinct(Stream(s))
        /\ ~ sub[s].lost => Elements(Stream(s)) \subseteq Elements(Sent(sub[s].chan))
        /\ ~ sub[s].lost /\ NeverRetained(sub[s].chan) => IsTailOf(Stream(s), Sent(sub[s].chan))
    BY <2>1 DEF StreamOK
  <2> DEFINE q == Stream(s)
             z == Sent(sub[s].chan)
  <2>7. Sent(sub[s].chan)' = z
    BY <2>1, <2>3 DEF Sent
  <2>8. QED
    BY <1>1, <2>1, <2>4, <2>5, <2>6, <2>7 DEF StreamOK, Sent
<1>5. ASSUME NEW p \in Early' PROVE UnsentOK(p)'
  <2>1. p \in Early /\ pub'[p].id = pub[p].id /\ UnsentOK(p)
    BY <1>1, <1>5
  <2>2. \A c \in TopicChans' : pub[p].id \notin Elements(chan'[c].sent)
    BY <1>2, <2>1, EmptyFacts DEF UnsentOK
  <2>3. \A s \in ExactRunning' : pub[p].id \notin Elements(Stream(s)')
    <3>1. \A s \in ExactRunning' \ Joined : pub[p].id \notin Elements(Stream(s)')
      BY <2>1 DEF UnsentOK
    <3>2. \A s \in ExactRunning' \cap Joined : pub[p].id \notin Elements(Stream(s)')
      BY <1>e, <2>1
    <3>3. QED
      BY <3>1, <3>2
  <2>4. \A q \in Early' : q # p => pub'[q].id # pub'[p].id
    BY <2>1 DEF UnsentOK
  <2>5. QED
    BY <1>1, <2>1, <2>2, <2>3, <2>4 DEF UnsentOK, Sent
<1>6. \A s \in ExactRunning' \cap Joined : StreamOK(s)'
  BY <1>e
<1>7. QED
  BY <1>3, <1>4, <1>5, <1>6

\* The same for a step in which no forwarder of an exact topic subscribes.
LEMMA QuietStep ==
    ASSUME BrokerOK, DeliveryOK, UNCHANGED accepted, NEW Blank,
           \A c \in Blank : chan'[c].sent = <<>>,
           \A c \in TopicChans : chan'[c].sent = chan[c].sent,
           TopicChans' \subseteq TopicChans \cup Blank,
           ExactRunning' \subseteq ExactRunning,
           \A s \in ExactRunning' : /\ Stream(s)' = Stream(s)
                                    /\ sub'[s].chan = sub[s].chan /\ sub'[s].lost = sub[s].lost
                                    /\ Known(s)' \subseteq Known(s) \cup Blank,
           Early' \subseteq Early,
           \A p \in Early' : pub'[p].id = pub[p].id
    PROVE  DeliveryOK'
<1> DEFINE Joined == {}
<1>1. /\ ExactRunning' \subseteq ExactRunning \cup Joined
      /\ \A s \in ExactRunning' \ Joined :
            /\ Stream(s)' = Stream(s)
            /\ sub'[s].chan = sub[s].chan /\ sub'[s].lost = sub[s].lost
            /\ Known(s)' \subseteq Known(s) \cup Blank
  OBVIOUS
<1>2. \A s \in ExactRunning' \cap Joined : EachIdOnce =>
         /\ StreamOK(s)'
         /\ \A p \in Early : pub[p].id \notin Elements(Stream(s)')
  OBVIOUS
<1> HIDE DEF Joined
<1>3. QED
  BY <1>1, <1>2, JoinStep

\* A map only gains the channel it was given for a key it did not have.
LEMMA GetOrInsertChans ==
    ASSUME NEW K, NEW m, MapShape(m, K), NEW k \in K, NEW c, NEW live
    PROVE  LET after == GetOrInsert(m, k, c, live)
           IN  \A x \in DOMAIN after.map :
                  \/ x \in DOMAIN m.map /\ after.map[x] = m.map[x]
                  \/ k \notin DOMAIN m.map /\ x = k /\ after.map[x] = c
<1> DEFINE after == GetOrInsert(m, k, c, live)
<1>1. /\ k \in DOMAIN m.map => after.map = m.map
      /\ k \notin DOMAIN m.map =>
            \E D \in SUBSET (DOMAIN m.map \cup {k}) :
               after.map = [x \in D |-> IF x = k THEN c ELSE m.map[x]]
  BY GetOrInsertMap
<1> HIDE DEF after
<1>2. CASE k \in DOMAIN m.map
  BY <1>1, <1>2 DEF after
<1>3. CASE k \notin DOMAIN m.map
  <2>1. PICK D \in SUBSET (DOMAIN m.map \cup {k}) :
               after.map = [x \in D |-> IF x = k THEN c ELSE m.map[x]]
    BY <1>1, <1>3
  <2>2. QED
    BY <1>3, <2>1 DEF after
<1>4. QED
  BY <1>2, <1>3

\* The channel get_or_insert opens, if it opens one.
Opened == {c \in {Len(chan) + 1} : Opens}

\* A channel just opened was sent nothing, and the others are as they were.
LEMMA OpenedFacts ==
    ASSUME BrokerOK, chan' = chan \/ Opens
    PROVE  /\ \A c \in Opened : chan'[c].sent = <<>> /\ c \notin 1 .. Len(chan)
           /\ \A c \in 1 .. Len(chan) : chan'[c] = chan[c]
<1>1. ChannelsOK
  BY DEF BrokerOK
<1>2. CASE Opens
  BY <1>1, <1>2, OpensFacts DEF Opened
<1>3. CASE chan' = chan /\ ~ Opens
  BY <1>3 DEF Opened
<1>4. QED
  BY <1>2, <1>3

\* A forwarder that does not move on a channel nothing is sent on.
LEMMA SameStream ==
    ASSUME NEW s, sub'[s] = sub[s], chan'[sub[s].chan].sent = chan[sub[s].chan].sent
    PROVE  Stream(s)' = Stream(s)
  BY DEF Stream, Unread

\* PublishFetch: the channel is looked up or opened.
LEMMA DeliveryFetch ==
    ASSUME FanoutInv, NEW p \in Publishers, PublishFetch(p)
    PROVE  DeliveryOK' /\ TopicChans' \cap PatternChans' = {}
<1> DEFINE t == TopicOf[pub[p].id]
           fresh == Len(chan) + 1
<1>1. BrokerOK /\ DeliveryOK /\ PublisherOK(p) /\ ChannelsOK /\ MapShape(topics, Topics)
      /\ pub \in [Publishers -> PubTask]
  BY DEF FanoutInv, BrokerOK, PublishersOK, MapsShaped
<1>2. pub[p].pc = "fetch" /\ t \in Topics
  BY <1>1, FanoutAssumption DEF PublishFetch, PublisherOK
<1>3. /\ topics' = GetOrInsert(topics, t, fresh, Live) /\ chan' = WithChannelFor(topics, t)
      /\ pub' = [pub EXCEPT ![p].pc = "exact", ![p].chan = ChannelFor(topics, t, fresh)]
      /\ UNCHANGED <<patterns, sub>> /\ UNCHANGED accepted
  BY DEF PublishFetch, seenVars
<1>4. /\ t \in DOMAIN topics.map => chan' = chan
      /\ t \notin DOMAIN topics.map => Opens
  BY <1>1, <1>2, <1>3, GetOrInsertShape
<1>5. /\ \A c \in Opened : chan'[c].sent = <<>> /\ c \notin 1 .. Len(chan)
      /\ \A c \in 1 .. Len(chan) : chan'[c] = chan[c]
  BY <1>1, <1>4, OpenedFacts
<1>6. \A x \in DOMAIN topics'.map :
          \/ x \in DOMAIN topics.map /\ topics'.map[x] = topics.map[x]
          \/ topics'.map[x] \in Opened
  BY <1>1, <1>2, <1>3, <1>4, GetOrInsertChans DEF Opened
<1>7. /\ \A q \in Publishers : q # p => pub'[q] = pub[q]
      /\ pub'[p].pc = "exact" /\ pub'[p].id = pub[p].id
      /\ pub'[p].chan \in Opened \cup {topics.map[x] : x \in DOMAIN topics.map}
  <2>1. pub[p] \in PubTask
    BY <1>1
  <2>2. ChannelFor(topics, t, fresh) \in Opened \cup {topics.map[x] : x \in DOMAIN topics.map}
    BY <1>4 DEF ChannelFor, Opened
  <2> HIDE DEF t, fresh
  <2>3. /\ \A q \in Publishers : q # p => pub'[q] = pub[q]
        /\ pub'[p].pc = "exact" /\ pub'[p].id = pub[p].id
        /\ pub'[p].chan = ChannelFor(topics, t, fresh)
    BY <1>1, <1>3, <2>1 DEF PubTask
  <2>4. QED
    BY <2>2, <2>3
<1> HIDE DEF t, fresh
<1>8. TopicChans \subseteq 1 .. Len(chan) /\ PatternChans \subseteq 1 .. Len(chan)
  BY <1>1, ChansExist
<1>9. ExactRunning' = ExactRunning /\ PatternChans' = PatternChans
  BY <1>3 DEF ExactRunning, Exact, PatternChans
<1>10. TopicChans' \subseteq TopicChans \cup Opened
  <2>1. \A x \in DOMAIN topics'.map : topics'.map[x] \in TopicChans \cup Opened
    BY <1>6 DEF TopicChans
  <2>2. \A s \in ExactRunning' : sub'[s].chan \in TopicChans
    BY <1>3, <1>9 DEF TopicChans
  <2>3. \A q \in Publishers : pub'[q].pc = "exact" => pub'[q].chan \in TopicChans \cup Opened
    BY <1>7 DEF TopicChans
  <2>4. QED
    BY <2>1, <2>2, <2>3 DEF TopicChans
<1>11. Early' = Early /\ \A q \in Early' : pub'[q].id = pub[q].id
  BY <1>2, <1>7 DEF Early
<1>12. ASSUME NEW s \in ExactRunning' PROVE /\ Stream(s)' = Stream(s)
                                            /\ sub'[s] = sub[s]
                                            /\ Known(s)' \subseteq Known(s) \cup Opened
  <2>1. s \in ExactRunning /\ sub'[s] = sub[s] /\ sub[s].chan \in 1 .. Len(chan)
    BY <1>1, <1>3, <1>9, <1>12, StreamSeq
  <2>2. Stream(s)' = Stream(s)
    BY <1>5, <2>1, SameStream
  <2>3. QED
    BY <1>6, <2>1, <2>2 DEF Known
<1>13. DeliveryOK'
  BY <1>1, <1>3, <1>5, <1>8, <1>9, <1>10, <1>11, <1>12, QuietStep
<1>14. QED
  BY <1>5, <1>8, <1>9, <1>10, <1>13 DEF FanoutInv

\* The walk over the patterns sends on no exact topic's channel.
LEMMA DeliveryPatterns ==
    ASSUME FanoutInv, NEW p \in Publishers,
           PublishLock(p) \/ (\E f \in Patterns : PublishPattern(p, f)) \/ PublishDone(p)
    PROVE  DeliveryOK' /\ TopicChans' \cap PatternChans' = {}
<1>1. BrokerOK /\ DeliveryOK /\ ChannelsOK /\ pub \in [Publishers -> PubTask] /\ pub[p] \in PubTask
  BY DEF FanoutInv, BrokerOK, PublishersOK
<1>2. UNCHANGED <<topics, patterns, sub>> /\ UNCHANGED accepted
  BY DEF PublishLock, PublishPattern, PublishDone, seenVars
<1>3. /\ \A q \in Publishers : q # p => pub'[q] = pub[q]
      /\ pub[p].pc \notin {"fetch", "exact"} /\ pub'[p].pc \notin {"fetch", "exact"}
  <2>1. CASE PublishLock(p)
    <3> DEFINE todo == {f \in DOMAIN patterns.map : TopicOf[pub[p].id] \in Matches[f]}
    <3>1. pub' = [pub EXCEPT ![p].pc = "patterns", ![p].todo = todo] /\ pub[p].pc = "lock"
      BY <2>1 DEF PublishLock
    <3> HIDE DEF todo
    <3>2. QED
      BY <1>1, <3>1 DEF PubTask
  <2>2. CASE \E f \in Patterns : PublishPattern(p, f)
    <3>1. PICK f \in Patterns : pub' = [pub EXCEPT ![p].todo = @ \ {f}] /\ pub[p].pc = "patterns"
      BY <2>2 DEF PublishPattern
    <3>2. QED
      BY <1>1, <3>1 DEF PubTask
  <2>3. CASE PublishDone(p)
    <3>1. pub' = [pub EXCEPT ![p].pc = "idle", ![p].id = None] /\ pub[p].pc = "patterns"
      BY <2>3 DEF PublishDone
    <3>2. QED
      BY <1>1, <3>1 DEF PubTask
  <2>4. QED
    BY <2>1, <2>2, <2>3
<1>4. ExactRunning' = ExactRunning /\ PatternChans' = PatternChans
  BY <1>2 DEF ExactRunning, Exact, PatternChans
<1>5. Early' = Early /\ \A q \in Early' : pub'[q] = pub[q]
  BY <1>3 DEF Early
<1>6. TopicChans' = TopicChans
  <2>1. \A q \in Publishers : /\ pub'[q].pc = "exact" <=> pub[q].pc = "exact"
                              /\ pub[q].pc = "exact" => pub'[q].chan = pub[q].chan
    BY <1>3
  <2>2. {pub'[q].chan : q \in {x \in Publishers : pub'[x].pc = "exact"}}
        = {pub[q].chan : q \in {x \in Publishers : pub[x].pc = "exact"}}
    BY <2>1
  <2>3. {sub'[s].chan : s \in ExactRunning'} = {sub[s].chan : s \in ExactRunning}
    BY <1>2, <1>4
  <2>4. {topics'.map[t] : t \in DOMAIN topics'.map} = {topics.map[t] : t \in DOMAIN topics.map}
    BY <1>2
  <2>5. QED
    BY <2>2, <2>3, <2>4 DEF TopicChans
<1>7. \A c \in TopicChans : chan'[c].sent = chan[c].sent
  <2>1. TopicChans \subseteq 1 .. Len(chan) /\ TopicChans \cap PatternChans = {}
    BY <1>1, ChansExist DEF FanoutInv
  <2>2. ASSUME NEW f \in Patterns, PublishPattern(p, f)
        PROVE  \A c \in TopicChans : chan'[c].sent = chan[c].sent
    <3>1. /\ f \in DOMAIN patterns.map /\ patterns.map[f] \in 1 .. Len(chan)
          /\ pub[p].id \in Ids /\ SendsOn(patterns.map[f], pub[p].id)
      BY <1>1, <2>2, PublishSends
    <3>2. \A d \in 1 .. Len(chan) \ {patterns.map[f]} : chan'[d] = chan[d]
      BY <1>1, <3>1, SendsOnFacts
    <3>3. patterns.map[f] \in PatternChans
      BY <3>1 DEF PatternChans
    <3>4. QED
      BY <2>1, <3>2, <3>3
  <2>3. CASE PublishLock(p) \/ PublishDone(p)
    BY <2>3 DEF PublishLock, PublishDone
  <2>4. QED
    BY <2>2, <2>3
<1>8. ASSUME NEW s \in ExactRunning' PROVE /\ Stream(s)' = Stream(s) /\ sub'[s] = sub[s]
                                           /\ Known(s)' \subseteq Known(s)
  <2>1. s \in ExactRunning /\ sub'[s] = sub[s] /\ sub[s].chan \in TopicChans
    BY <1>2, <1>4, <1>8 DEF TopicChans
  <2>2. Stream(s)' = Stream(s)
    BY <1>7, <2>1, SameStream
  <2>3. QED
    BY <1>2, <2>1, <2>2 DEF Known
<1>9. DeliveryOK'
  <2> DEFINE Blank == {}
  <2>1. \A c \in Blank : chan'[c].sent = <<>>
    OBVIOUS
  <2>2. \A s \in ExactRunning' : Known(s)' \subseteq Known(s) \cup Blank
    BY <1>8
  <2>3. TopicChans' \subseteq TopicChans \cup Blank
    BY <1>6
  <2> HIDE DEF Blank
  <2>4. QED
    BY <1>1, <1>2, <1>4, <1>5, <1>7, <1>8, <2>1, <2>2, <2>3, QuietStep
<1>10. QED
  BY <1>4, <1>6, <1>9 DEF FanoutInv

\* A wildcard subscribes: nothing an exact topic has is touched.
LEMMA DeliverySubscribePattern ==
    ASSUME FanoutInv, NEW s \in Subscribers, SubscribePattern(s)
    PROVE  DeliveryOK' /\ TopicChans' \cap PatternChans' = {}
<1>1. BrokerOK /\ DeliveryOK /\ MapShape(patterns, Patterns) /\ sub = [x \in Subscribers |-> sub[x]]
  BY DEF FanoutInv, BrokerOK, MapsShaped, SubscribersOK
<1>2. /\ ~ Exact(s) /\ UNCHANGED <<topics, pub>> /\ UNCHANGED accepted
      /\ chan' = chan \/ Opens
      /\ patterns' = GetOrInsert(patterns, FilterOf[s], Len(chan) + 1, Live)
  BY <1>1, SubscribePatternFacts DEF seenVars
<1>3. FilterOf[s] \in Patterns /\ (FilterOf[s] \notin DOMAIN patterns.map => Opens)
  BY DEF SubscribePattern, WithChannelFor, Opens
<1>4. \A x \in Subscribers : x # s => sub'[x] = sub[x]
  <2>1. PICK r : sub' = [sub EXCEPT ![s] = r]
    BY <1>1, SubscribePatternFacts
  <2>2. QED
    BY <1>1, <2>1
<1>5. ExactRunning' = ExactRunning /\ \A x \in ExactRunning' : sub'[x] = sub[x] /\ x \in Subscribers
  BY <1>2, <1>4 DEF ExactRunning, Exact
<1>6. Early' = Early /\ TopicChans' = TopicChans /\ \A q \in Early' : pub'[q].id = pub[q].id
  BY <1>2, <1>5 DEF Early, TopicChans
<1>7. /\ \A c \in Opened : chan'[c].sent = <<>> /\ c \notin 1 .. Len(chan)
      /\ \A c \in 1 .. Len(chan) : chan'[c] = chan[c]
  BY <1>1, <1>2, OpenedFacts
<1>8. PatternChans' \subseteq PatternChans \cup Opened
  <2>1. \A x \in DOMAIN patterns'.map :
           \/ x \in DOMAIN patterns.map /\ patterns'.map[x] = patterns.map[x]
           \/ FilterOf[s] \notin DOMAIN patterns.map /\ patterns'.map[x] = Len(chan) + 1
    BY <1>1, <1>2, <1>3, GetOrInsertChans
  <2>2. QED
    BY <1>3, <2>1 DEF PatternChans, Opened
<1>9. TopicChans \subseteq 1 .. Len(chan) /\ \A x \in ExactRunning : Known(x) \subseteq TopicChans
  BY <1>1, ChansExist
<1>10. ASSUME NEW x \in ExactRunning' PROVE Stream(x)' = Stream(x) /\ Known(x)' \subseteq Known(x)
  <2>1. x \in ExactRunning /\ sub'[x] = sub[x] /\ sub[x].chan \in 1 .. Len(chan)
    BY <1>5, <1>9 DEF Known
  <2>2. Stream(x)' = Stream(x)
    BY <1>7, <2>1, SameStream
  <2>3. QED
    BY <1>2, <2>1, <2>2 DEF Known
<1>11. DeliveryOK'
  <2>1. \A c \in TopicChans : chan'[c].sent = chan[c].sent
    BY <1>7, <1>9
  <2>2. /\ \A x \in ExactRunning' : Known(x)' \subseteq Known(x) \cup Opened
        /\ TopicChans' \subseteq TopicChans \cup Opened
    BY <1>6, <1>10
  <2>3. \A c \in Opened : chan'[c].sent = <<>>
    BY <1>7
  <2>4. QED
    BY <1>1, <1>2, <1>5, <1>6, <1>10, <2>1, <2>2, <2>3, QuietStep
<1>12. QED
  BY <1>6, <1>7, <1>8, <1>9, <1>11 DEF FanoutInv

\* The steps of a forwarder that only change its own record.
LEMMA DeliveryAlone ==
    ASSUME FanoutInv, NEW s \in Subscribers, UNCHANGED <<topics, patterns, chan, pub, accepted>>,
           NEW r, sub' = [sub EXCEPT ![s] = r],
           s \in ExactRunning' => /\ s \in ExactRunning /\ Stream(s)' = Stream(s)
                                  /\ r.chan = sub[s].chan /\ r.lost = sub[s].lost
    PROVE  DeliveryOK' /\ TopicChans' \cap PatternChans' = {}
<1>1. BrokerOK /\ DeliveryOK /\ sub = [x \in Subscribers |-> sub[x]]
  BY DEF FanoutInv, BrokerOK, SubscribersOK
<1>2. sub'[s] = r /\ \A x \in Subscribers : x # s => sub'[x] = sub[x]
  BY <1>1
<1>3. ASSUME NEW x \in ExactRunning'
      PROVE  /\ x \in ExactRunning /\ Stream(x)' = Stream(x)
             /\ sub'[x].chan = sub[x].chan /\ sub'[x].lost = sub[x].lost
  <2>1. x \in Subscribers
    BY <1>3 DEF ExactRunning
  <2>2. CASE x = s
    BY <1>2, <1>3, <2>2
  <2>3. CASE x # s
    <3>1. sub'[x] = sub[x] /\ x \in ExactRunning
      BY <1>2, <1>3, <2>1, <2>3 DEF ExactRunning, Exact
    <3>2. QED
      BY <3>1, SameStream
  <2>4. QED
    BY <2>2, <2>3
<1>4. ExactRunning' \subseteq ExactRunning
  BY <1>3
<1>5. TopicChans' \subseteq TopicChans /\ PatternChans' = PatternChans /\ Early' = Early
  <2>1. {sub'[x].chan : x \in ExactRunning'} \subseteq {sub[x].chan : x \in ExactRunning}
    BY <1>3
  <2>2. /\ {topics'.map[t] : t \in DOMAIN topics'.map} = {topics.map[t] : t \in DOMAIN topics.map}
        /\ {pub'[p].chan : p \in {q \in Publishers : pub'[q].pc = "exact"}}
           = {pub[p].chan : p \in {q \in Publishers : pub[q].pc = "exact"}}
    OBVIOUS
  <2>3. TopicChans' \subseteq TopicChans
    BY <2>1, <2>2 DEF TopicChans
  <2>4. QED
    BY <2>3 DEF PatternChans, Early
<1>6. \A x \in ExactRunning' : Known(x)' = Known(x)
  BY <1>3 DEF Known
<1>7. DeliveryOK'
  <2> DEFINE Blank == {}
  <2>1. \A c \in Blank : chan'[c].sent = <<>>
    OBVIOUS
  <2>2. /\ \A x \in ExactRunning' : Known(x)' \subseteq Known(x) \cup Blank
        /\ TopicChans' \subseteq TopicChans \cup Blank
    BY <1>5, <1>6
  <2>3. \A c \in TopicChans : chan'[c].sent = chan[c].sent
    OBVIOUS
  <2>4. \A p \in Early' : pub'[p].id = pub[p].id
    OBVIOUS
  <2> HIDE DEF Blank
  <2>5. QED
    BY <1>1, <1>3, <1>4, <1>5, <2>1, <2>2, <2>3, <2>4, QuietStep
<1>8. QED
  BY <1>5, <1>7 DEF FanoutInv

\* Forwarding and receiving move a message along the stream, and ending a
\* forwarder ends its stream.
LEMMA DeliveryForward ==
    ASSUME FanoutInv, NEW s \in Subscribers,
           \/ ScanLock(s) \/ (\E t \in Topics : ScanTopic(s, t)) \/ ScanDone(s)
           \/ Forward(s) \/ Receive(s) \/ End(s)
    PROVE  DeliveryOK' /\ TopicChans' \cap PatternChans' = {}
<1>1. BrokerOK /\ sub = [x \in Subscribers |-> sub[x]]
  BY DEF FanoutInv, BrokerOK, SubscribersOK
<1>2. CASE \/ ScanLock(s) \/ (\E t \in Topics : ScanTopic(s, t)) \/ ScanDone(s)
           \/ ~ Exact(s) /\ (Forward(s) \/ Receive(s))
  <2>1. ~ Exact(s) /\ UNCHANGED <<topics, patterns, chan, pub>> /\ UNCHANGED accepted
    BY <1>1, <1>2, WildcardFacts DEF seenVars
  <2>2. PICK r : sub' = [sub EXCEPT ![s] = r]
    BY <1>1, <1>2, WildcardFacts
  <2>3. s \notin ExactRunning'
    BY <2>1 DEF ExactRunning, Exact
  <2>4. QED
    BY <2>1, <2>2, <2>3, DeliveryAlone
<1>3. CASE Exact(s) /\ Forward(s)
  <2>1. PICK r \in SubTask :
              /\ sub' = [sub EXCEPT ![s] = r]
              /\ sub[s].pc = "run" /\ r.pc = "run" /\ sub[s].backlog # <<>>
              /\ r.chan = sub[s].chan /\ r.pos = sub[s].pos /\ r.lost = sub[s].lost
              /\ r.out = Append(sub[s].out, Head(sub[s].backlog))
              /\ r.backlog = Tail(sub[s].backlog)
    BY <1>1, <1>3, ForwardFacts
  <2>2. s \in ExactRunning /\ sub'[s] = r
    BY <1>1, <1>3, <2>1 DEF ExactRunning
  <2>3. sub[s].out \in Seq(Ids) /\ sub[s].backlog \in Seq(Ids) /\ Unread(s) \in Seq(Ids)
    BY <1>1, <2>2, StreamSeq
  <2>4. UNCHANGED <<topics, patterns, chan, pub>> /\ UNCHANGED accepted
    BY <1>3 DEF Forward, seenVars
  <2>5. Unread(s)' = Unread(s)
    BY <2>1, <2>2, <2>4 DEF Unread
  <2>6. Stream(s)' = Append(sub[s].out, Head(sub[s].backlog)) \o Tail(sub[s].backlog) \o Unread(s)
    BY <2>1, <2>2, <2>5 DEF Stream
  <2>7. Stream(s) = sub[s].out \o sub[s].backlog \o Unread(s)
    BY DEF Stream
  <2>8. Stream(s)' = Stream(s)
    <3>1. sub[s].backlog # <<>>
      BY <2>1
    <3>2. Append(sub[s].out, Head(sub[s].backlog)) \o Tail(sub[s].backlog) \o Unread(s)
          = sub[s].out \o sub[s].backlog \o Unread(s)
      <4>1. \A o, b, u \in Seq(Ids) : b # <<>> => Append(o, Head(b)) \o Tail(b) \o u = o \o b \o u
        BY MoveHead
      <4>2. QED
        BY <2>3, <3>1, <4>1, Zenon
    <3>3. QED
      BY <2>6, <2>7, <3>2, Zenon
  <2>9. QED
    BY <2>1, <2>2, <2>4, <2>8, DeliveryAlone
<1>4. CASE Exact(s) /\ Receive(s)
  <2>1. PICK r \in SubTask :
              /\ sub' = [sub EXCEPT ![s] = r]
              /\ sub[s].pc = "run" /\ r.pc = "run" /\ sub[s].backlog = <<>>
              /\ Unread(s) # <<>> /\ Unread(s) \in Seq(Ids)
              /\ r.chan = sub[s].chan /\ r.pos = sub[s].pos + 1 /\ r.lost = sub[s].lost
              /\ r.out = sub[s].out /\ r.backlog = <<Head(Unread(s))>>
              /\ SubSeq(Sent(r.chan), r.pos + 1, Len(Sent(r.chan))) = Tail(Unread(s))
    BY <1>1, <1>4, ReceiveFacts
  <2>2. s \in ExactRunning /\ sub'[s] = r
    BY <1>1, <1>4, <2>1 DEF ExactRunning
  <2>3. sub[s].out \in Seq(Ids)
    BY <1>1, <2>2, StreamSeq
  <2>4. UNCHANGED <<topics, patterns, chan, pub>> /\ UNCHANGED accepted
    BY <1>4 DEF Receive, seenVars
  <2>5. Unread(s)' = Tail(Unread(s))
    BY <2>1, <2>2, <2>4 DEF Unread, Sent
  <2>6. Stream(s)' = sub[s].out \o <<Head(Unread(s))>> \o Tail(Unread(s))
    BY <2>1, <2>2, <2>5 DEF Stream
  <2>7. Stream(s) = sub[s].out \o <<>> \o Unread(s)
    BY <2>1 DEF Stream
  <2>8. Stream(s)' = Stream(s)
    BY <2>1, <2>3, <2>6, <2>7, MoveRest
  <2>9. QED
    BY <2>1, <2>2, <2>4, <2>8, DeliveryAlone
<1>5. CASE End(s)
  <2>1. UNCHANGED <<topics, patterns, chan, pub>> /\ UNCHANGED accepted
    BY <1>1, <1>5, EndFacts DEF seenVars
  <2>2. PICK r : sub' = [sub EXCEPT ![s] = r] /\ r.pc = "ended"
    BY <1>1, <1>5, EndFacts
  <2>3. s \notin ExactRunning'
    BY <1>1, <2>2 DEF ExactRunning
  <2>4. QED
    BY <2>1, <2>2, <2>3, DeliveryAlone
<1>6. QED
  BY <1>2, <1>3, <1>4, <1>5

\* Accepting an id: while no id was accepted twice, the new one is nowhere.
LEMMA AcceptFacts ==
    ASSUME NEW id \in Ids, accepted \in Seq(Ids), accepted' = Append(accepted, id)
    PROVE  /\ accepted' \in Seq(Ids) /\ id \in Elements(accepted')
           /\ Elements(accepted) \subseteq Elements(accepted')
           /\ EachIdOnce' => EachIdOnce /\ id \notin Elements(accepted)
<1> DEFINE n == Len(accepted)
<1>1. /\ n \in Nat /\ accepted' \in Seq(Ids) /\ Len(accepted') = n + 1 /\ accepted'[n + 1] = id
      /\ \A i \in 1 .. n : accepted'[i] = accepted[i]
      /\ DOMAIN accepted = 1 .. n /\ DOMAIN accepted' = 1 .. n + 1
  OBVIOUS
<1>2. \A i \in 1 .. n : i \in 1 .. n + 1 /\ i # n + 1
  BY <1>1
<1>3. n + 1 \in 1 .. n + 1
  BY <1>1
<1> HIDE DEF n
<1>4. id \in Elements(accepted')
  BY <1>1, <1>3 DEF Elements
<1>5. Elements(accepted) \subseteq Elements(accepted')
  BY <1>1, <1>2 DEF Elements, n
<1>6. ASSUME EachIdOnce' PROVE EachIdOnce /\ id \notin Elements(accepted)
  <2>1. \A i, j \in 1 .. n + 1 : accepted'[i] = accepted'[j] => i = j
    BY <1>1, <1>6 DEF EachIdOnce, IsInjective
  <2>2. EachIdOnce
    BY <1>1, <1>2, <2>1 DEF EachIdOnce, IsInjective
  <2>3. \A i \in 1 .. n : accepted[i] # id
    BY <1>1, <1>2, <1>3, <2>1
  <2>4. QED
    BY <2>2, <2>3 DEF Elements, n
<1>7. QED
  BY <1>1, <1>4, <1>5, <1>6

\* A step that changes nothing.
LEMMA DeliveryStutter ==
    ASSUME DeliveryOK, TopicChans \cap PatternChans = {},
           UNCHANGED <<topics, patterns, chan, pub, sub, accepted>>
    PROVE  DeliveryOK' /\ TopicChans' \cap PatternChans' = {}
<1>1. /\ ExactRunning' = ExactRunning /\ Early' = Early /\ EachIdOnce' = EachIdOnce
      /\ TopicChans' = TopicChans /\ PatternChans' = PatternChans
  BY DEF ExactRunning, Exact, Early, EachIdOnce, TopicChans, PatternChans
<1>2. \A s : Stream(s)' = Stream(s) /\ Known(s)' = Known(s)
  BY DEF Stream, Unread, Known
<1>3. SentOnce' = SentOnce
  BY <1>1 DEF SentOnce, Sent
<1>4. \A s : StreamOK(s)' = StreamOK(s)
  BY <1>2 DEF StreamOK, Sent, NeverRetained
<1>5. \A p : UnsentOK(p)' = UnsentOK(p)
  BY <1>1, <1>2 DEF UnsentOK, Sent
<1>6. QED
  BY <1>1, <1>3, <1>4, <1>5 DEF DeliveryOK

\* A publish begins.
LEMMA DeliveryBegin ==
    ASSUME FanoutInv, NEW p \in Publishers, NEW id \in Ids, PublishBegin(p, id)
    PROVE  accepted' \in Seq(Ids) /\ DeliveryOK' /\ TopicChans' \cap PatternChans' = {}
<1>1. /\ BrokerOK /\ DeliveryOK /\ pub \in [Publishers -> PubTask] /\ pub[p] \in PubTask
      /\ accepted \in Seq(Ids) /\ TopicChans \cap PatternChans = {}
  BY DEF FanoutInv, BrokerOK, PublishersOK
<1>2. pub[p].pc = "idle" /\ UNCHANGED <<topics, patterns, chan, sub>>
  BY DEF PublishBegin
<1>3. ExactRunning' = ExactRunning /\ PatternChans' = PatternChans
      /\ \A s \in ExactRunning' : Stream(s)' = Stream(s)
  BY <1>2 DEF ExactRunning, Exact, PatternChans, Stream, Unread
<1>4. CASE UNCHANGED <<pub, accepted>>
  BY <1>1, <1>2, <1>4, DeliveryStutter
<1>5. CASE accepted' = Append(accepted, id) /\ pub' = [pub EXCEPT ![p].pc = "fetch", ![p].id = id]
  <2>1. /\ accepted' \in Seq(Ids) /\ id \in Elements(accepted')
        /\ Elements(accepted) \subseteq Elements(accepted')
        /\ EachIdOnce' => EachIdOnce /\ id \notin Elements(accepted)
    BY <1>1, <1>5, AcceptFacts
  <2>2. pub'[p].pc = "fetch" /\ pub'[p].id = id /\ \A q \in Publishers : q # p => pub'[q] = pub[q]
    BY <1>1, <1>5 DEF PubTask
  <2>3. Early' = Early \cup {p} /\ p \notin Early
    BY <1>2, <2>2 DEF Early
  <2>4. TopicChans' = TopicChans
    <3>1. {q \in Publishers : pub'[q].pc = "exact"} = {q \in Publishers : pub[q].pc = "exact"}
      BY <1>2, <2>2
    <3>2. {pub'[q].chan : q \in {x \in Publishers : pub'[x].pc = "exact"}}
          = {pub[q].chan : q \in {x \in Publishers : pub[x].pc = "exact"}}
      BY <1>2, <2>2, <3>1
    <3>3. {sub'[s].chan : s \in ExactRunning'} = {sub[s].chan : s \in ExactRunning}
      BY <1>2, <1>3
    <3>4. {topics'.map[t] : t \in DOMAIN topics'.map} = {topics.map[t] : t \in DOMAIN topics.map}
      BY <1>2
    <3>5. QED
      BY <3>2, <3>3, <3>4 DEF TopicChans
  <2>5. ASSUME EachIdOnce'
        PROVE  /\ SentOnce'
               /\ \A s \in ExactRunning' : StreamOK(s)'
               /\ \A q \in Early' : UnsentOK(q)'
    <3>1. /\ SentOnce /\ id \notin Elements(accepted)
          /\ \A s \in ExactRunning : StreamOK(s)
          /\ \A q \in Early : UnsentOK(q)
      BY <1>1, <2>1, <2>5 DEF DeliveryOK
    <3>2. SentOnce'
      BY <1>2, <2>1, <2>4, <3>1 DEF SentOnce, Sent
    <3>3. ASSUME NEW s \in ExactRunning' PROVE StreamOK(s)'
      <4>1. StreamOK(s) /\ Stream(s)' = Stream(s) /\ Known(s)' = Known(s)
        BY <1>2, <1>3, <3>1, <3>3 DEF Known
      <4>2. QED
        BY <1>2, <2>1, <4>1 DEF StreamOK, Sent, NeverRetained
    <3>4. UnsentOK(p)'
      <4>1. \A c \in TopicChans' : id \notin Elements(chan'[c].sent)
        BY <1>2, <2>4, <3>1 DEF SentOnce, Sent
      <4>2. \A s \in ExactRunning' : id \notin Elements(Stream(s)')
        BY <1>3, <3>1 DEF StreamOK
      <4>3. \A q \in Early' : q # p => pub'[q].id # id
        <5>1. \A q \in Early : pub[q].id # id /\ q \in Publishers
          BY <3>1 DEF UnsentOK, Early
        <5>2. QED
          BY <2>2, <2>3, <5>1
      <4>4. QED
        BY <2>1, <2>2, <4>1, <4>2, <4>3 DEF UnsentOK, Sent
    <3>5. ASSUME NEW q \in Early PROVE UnsentOK(q)'
      <4>1. pub'[q] = pub[q] /\ UnsentOK(q) /\ q # p /\ pub[q].id # id
        BY <2>2, <2>3, <3>1, <3>5 DEF Early, UnsentOK
      <4>2. \A x \in Early' : x # q => pub'[x].id # pub'[q].id
        <5>1. \A x \in Early : pub'[x] = pub[x]
          BY <2>2, <2>3 DEF Early
        <5>2. QED
          BY <2>2, <2>3, <4>1, <5>1 DEF UnsentOK
      <4>3. \A c \in TopicChans' : pub'[q].id \notin Elements(chan'[c].sent)
        BY <1>2, <2>4, <4>1 DEF UnsentOK, Sent
      <4>4. \A s \in ExactRunning' : pub'[q].id \notin Elements(Stream(s)')
        BY <1>3, <4>1 DEF UnsentOK
      <4>5. QED
        BY <2>1, <4>1, <4>2, <4>3, <4>4 DEF UnsentOK, Sent
    <3>6. QED
      BY <2>3, <3>2, <3>3, <3>4, <3>5
  <2>6. DeliveryOK'
    BY <2>5 DEF DeliveryOK
  <2>7. QED
    BY <1>1, <1>3, <2>1, <2>4, <2>6
<1>6. QED
  BY <1>4, <1>5 DEF PublishBegin, Accept, Repeat, seenVars

\* exact_channel.publish: the message becomes the last one of its channel and of
\* every stream that listens on it.
LEMMA DeliveryExact ==
    ASSUME FanoutInv, NEW p \in Publishers, PublishExact(p)
    PROVE  DeliveryOK' /\ TopicChans' \cap PatternChans' = {}
<1>1. /\ BrokerOK /\ DeliveryOK /\ ChannelsOK /\ pub \in [Publishers -> PubTask]
      /\ pub[p] \in PubTask /\ TopicChans \cap PatternChans = {}
  BY DEF FanoutInv, BrokerOK, PublishersOK
<1>2. PICK x \in Ids, c \in 1 .. Len(chan) : x = pub[p].id /\ c = pub[p].chan /\ SendsOn(c, x)
  BY <1>1, PublishSends
<1>3. /\ UNCHANGED <<topics, patterns, sub>> /\ UNCHANGED accepted /\ pub[p].pc = "exact"
      /\ pub' = [pub EXCEPT ![p].pc = "lock", ![p].chan = None]
  BY DEF PublishExact, seenVars
<1>4. pub'[p].pc = "lock" /\ \A q \in Publishers : q # p => pub'[q] = pub[q]
  BY <1>1, <1>3 DEF PubTask
<1>5. /\ \A d \in 1 .. Len(chan) \ {c} : chan'[d] = chan[d]
      /\ chan'[c].sent = Append(Sent(c), x)
  BY <1>1, <1>2, SendsOnFacts DEF Sent
<1>6. p \in Early /\ Early' = Early \ {p} /\ c \in TopicChans /\ Early \subseteq Publishers
  BY <1>2, <1>3, <1>4 DEF Early, TopicChans
<1>7. ExactRunning' = ExactRunning /\ PatternChans' = PatternChans
      /\ \A s : Known(s)' = Known(s)
  BY <1>3 DEF ExactRunning, Exact, PatternChans, Known
<1>8. TopicChans' \subseteq TopicChans
  <2>1. \A q \in Publishers : pub'[q].pc = "exact" => pub[q].pc = "exact" /\ pub'[q].chan = pub[q].chan
    BY <1>4
  <2>2. {pub'[q].chan : q \in {y \in Publishers : pub'[y].pc = "exact"}}
        \subseteq {pub[q].chan : q \in {y \in Publishers : pub[y].pc = "exact"}}
    BY <2>1
  <2>3. {sub'[s].chan : s \in ExactRunning'} = {sub[s].chan : s \in ExactRunning}
    BY <1>3, <1>7
  <2>4. {topics'.map[t] : t \in DOMAIN topics'.map} = {topics.map[t] : t \in DOMAIN topics.map}
    BY <1>3
  <2>5. QED
    BY <2>2, <2>3, <2>4 DEF TopicChans
<1>9. TopicChans \subseteq 1 .. Len(chan) /\ \A s \in ExactRunning : Known(s) \subseteq TopicChans
  BY <1>1, ChansExist
<1>10. \A d \in TopicChans : Sent(d) \in Seq(Ids)
  BY <1>1, <1>9, ChannelFacts DEF Sent
<1>11. ASSUME EachIdOnce'
       PROVE  /\ SentOnce'
              /\ \A s \in ExactRunning' : StreamOK(s)'
              /\ \A q \in Early' : UnsentOK(q)'
  <2>1. /\ SentOnce /\ UnsentOK(p)
        /\ \A s \in ExactRunning : StreamOK(s)
        /\ \A q \in Early : UnsentOK(q)
    BY <1>1, <1>3, <1>6, <1>11 DEF DeliveryOK, EachIdOnce
  <2>2. /\ x \in Elements(accepted)
        /\ \A d \in TopicChans : x \notin Elements(Sent(d))
        /\ \A s \in ExactRunning : x \notin Elements(Stream(s))
        /\ \A q \in Early : q # p => pub[q].id # x
    BY <1>2, <2>1 DEF UnsentOK
  <2>3. /\ Elements(chan'[c].sent) = Elements(Sent(c)) \cup {x} /\ Distinct(chan'[c].sent)
        /\ Append(Sent(c), x) \in Seq(Ids)
    BY <1>5, <1>6, <1>10, <2>1, <2>2, AppendElements DEF SentOnce
  <2>4. \A d \in TopicChans : d # c => chan'[d].sent = Sent(d)
    BY <1>5, <1>9 DEF Sent
  <2>5. SentOnce'
    <3>1. \A d \in TopicChans : Distinct(chan'[d].sent) /\ Elements(chan'[d].sent) \subseteq Elements(accepted)
      BY <1>6, <2>1, <2>2, <2>3, <2>4 DEF SentOnce
    <3>2. \A d, e \in TopicChans : d # e => Elements(chan'[d].sent) \cap Elements(chan'[e].sent) = {}
      <4> SUFFICES ASSUME NEW d \in TopicChans, NEW e \in TopicChans, d # e,
                          NEW y, y \in Elements(chan'[d].sent), y \in Elements(chan'[e].sent)
                   PROVE  FALSE
        BY Zenon
      <4>1. Elements(Sent(d)) \cap Elements(Sent(e)) = {}
        BY <2>1 DEF SentOnce
      <4>2. CASE d = c
        BY <2>2, <2>3, <2>4, <4>1, <4>2
      <4>3. CASE e = c
        BY <2>2, <2>3, <2>4, <4>1, <4>3
      <4>4. CASE d # c /\ e # c
        BY <2>4, <4>1, <4>4
      <4>5. QED
        BY <4>2, <4>3, <4>4
    <3>3. QED
      BY <1>3, <1>8, <3>1, <3>2 DEF SentOnce, Sent
  <2>6. ASSUME NEW s \in ExactRunning', sub[s].chan = c
        PROVE  StreamOK(s)' /\ Elements(Stream(s)') = Elements(Stream(s)) \cup {x}
    <3>1. s \in ExactRunning /\ StreamOK(s) /\ c \in Known(s) /\ Known(s) \subseteq TopicChans
      BY <1>7, <1>9, <2>1, <2>6 DEF Known
    <3>2. /\ sub[s].out \o sub[s].backlog \in Seq(Ids) /\ Unread(s) \in Seq(Ids)
          /\ sub[s].pos \in 0 .. Len(Sent(c)) /\ Stream(s) \in Seq(Ids)
          /\ Unread(s) = SubSeq(Sent(c), sub[s].pos + 1, Len(Sent(c)))
      BY <1>1, <2>6, <3>1, StreamSeq
    <3>3. Unread(s)' = SubSeq(Append(Sent(c), x), sub[s].pos + 1, Len(Append(Sent(c), x)))
      BY <1>3, <1>5, <2>6 DEF Unread
    <3>4. Unread(s)' = Append(Unread(s), x)
      <4>1. \A sent \in Seq(Ids) : \A k \in 0 .. Len(sent) :
               SubSeq(Append(sent, x), k + 1, Len(Append(sent, x))) = Append(SubSeq(sent, k + 1, Len(sent)), x)
        BY UnreadAppend
      <4>2. SubSeq(Append(Sent(c), x), sub[s].pos + 1, Len(Append(Sent(c), x)))
            = Append(SubSeq(Sent(c), sub[s].pos + 1, Len(Sent(c))), x)
        BY <1>6, <1>10, <3>2, <4>1, Zenon
      <4>3. QED
        BY <3>2, <3>3, <4>2, Zenon
    <3>5. Stream(s)' = Append(Stream(s), x)
      <4>1. Stream(s)' = (sub[s].out \o sub[s].backlog) \o Append(Unread(s), x)
        BY <1>3, <3>4 DEF Stream
      <4>2. Stream(s) = (sub[s].out \o sub[s].backlog) \o Unread(s)
        BY DEF Stream
      <4>3. \A q, u \in Seq(Ids) : q \o Append(u, x) = Append(q \o u, x)
        BY AppendRest
      <4>4. QED
        BY <3>2, <4>1, <4>2, <4>3, Zenon
    <3>6. PICK all \in Seq(Ids) : all = Stream(s)
      BY <3>2
    <3>7. x \notin Elements(all) /\ Distinct(all) /\ (\A d \in Known(s) : SameOrder(all, Sent(d)))
      BY <2>2, <3>1, <3>6 DEF StreamOK
    <3>8. Elements(Append(all, x)) = Elements(all) \cup {x} /\ Distinct(Append(all, x))
      BY <3>7, AppendElements
    <3>9. \A d \in Known(s) : SameOrder(Append(all, x), chan'[d].sent)
      <4>1. \A d \in Known(s) : /\ SameOrder(Append(all, x), Append(Sent(d), x))
                                /\ SameOrder(Append(all, x), Sent(d))
        <5> SUFFICES ASSUME NEW d \in Known(s)
                     PROVE  /\ SameOrder(Append(all, x), Append(Sent(d), x))
                            /\ SameOrder(Append(all, x), Sent(d))
          OBVIOUS
        <5>1. PICK sent \in Seq(Ids) : sent = Sent(d)
          BY <1>10, <3>1
        <5>2. x \notin Elements(sent) /\ SameOrder(all, sent)
          BY <2>2, <3>1, <3>7, <5>1
        <5>3. SameOrder(Append(all, x), Append(sent, x)) /\ SameOrder(Append(all, x), sent)
          BY <3>7, <5>2, AppendOrder
        <5>4. QED
          BY <5>1, <5>3
      <4>2. QED
        BY <1>5, <2>4, <3>1, <4>1
    <3>10. ~ sub[s].lost => Elements(all) \cup {x} \subseteq Elements(chan'[c].sent)
      BY <2>3, <2>6, <3>1, <3>6 DEF StreamOK
    <3>11. ASSUME ~ sub[s].lost, NeverRetained(c)'
           PROVE  IsTailOf(Append(all, x), chan'[c].sent)
      <4>1. NeverRetained(c)
        <5>1. Sent(c) \in Seq(Ids) /\ chan'[c].sent \in Seq(Ids) /\ Elements(Sent(c)) \subseteq Elements(chan'[c].sent)
          BY <1>5, <1>6, <1>10, <2>3
        <5>2. Range(Sent(c)) \subseteq Range(chan'[c].sent)
          BY <5>1, RangeElements
        <5>3. QED
          BY <3>11, <5>2 DEF NeverRetained, Sent
      <4>2. IsTailOf(all, Sent(c))
        BY <2>6, <3>1, <3>6, <3>11, <4>1 DEF StreamOK
      <4>3. QED
        BY <1>5, <1>6, <1>10, <4>2, AppendTail
    <3>12. sub' = sub /\ Sent(c)' = chan'[c].sent
      BY <1>3 DEF Sent
    <3>13. Elements(all) \cup {x} \subseteq Elements(accepted)
      BY <2>2, <3>1, <3>6 DEF StreamOK
    <3>14. StreamOK(s)'
      <4>1. Stream(s)' = Append(all, x)
        BY <3>5, <3>6
      <4>2. Known(s)' = Known(s) /\ accepted' = accepted
        BY <1>3, <1>7
      <4>3. \A d \in Known(s)' : SameOrder(Stream(s)', Sent(d)')
        BY <3>9, <4>1, <4>2 DEF Sent
      <4>4. sub'[s].chan = c /\ sub'[s].lost = sub[s].lost
        BY <2>6, <3>12
      <4>5. QED
        BY <3>8, <3>10, <3>11, <3>12, <3>13, <4>1, <4>2, <4>3, <4>4 DEF StreamOK
    <3>15. QED
      BY <3>5, <3>6, <3>8, <3>14
  <2>7. ASSUME NEW s \in ExactRunning', sub[s].chan # c
        PROVE  StreamOK(s)' /\ Stream(s)' = Stream(s)
    <3>1. s \in ExactRunning /\ StreamOK(s) /\ sub[s].chan \in Known(s) /\ Known(s) \subseteq TopicChans
      BY <1>7, <1>9, <2>1, <2>7 DEF Known
    <3>2. Sent(sub[s].chan)' = Sent(sub[s].chan) /\ chan'[sub[s].chan].sent = chan[sub[s].chan].sent
      BY <1>3, <2>4, <2>7, <3>1 DEF Sent
    <3>3. Stream(s)' = Stream(s) /\ Stream(s) \in Seq(Ids)
      BY <1>1, <1>3, <3>1, <3>2, SameStream, StreamSeq
    <3>4. \A d \in Known(s) : SameOrder(Stream(s), chan'[d].sent)
      <4> SUFFICES ASSUME NEW d \in Known(s) PROVE SameOrder(Stream(s), chan'[d].sent)
        OBVIOUS
      <4>1. PICK sent \in Seq(Ids), all \in Seq(Ids) : sent = Sent(d) /\ all = Stream(s)
        BY <1>10, <3>1, <3>3
      <4>2. /\ x \notin Elements(sent) /\ x \notin Elements(all) /\ Distinct(all)
            /\ SameOrder(all, sent)
        BY <2>2, <3>1, <4>1 DEF StreamOK
      <4>3. SameOrder(all, Append(sent, x))
        BY <4>2, AppendOrder
      <4>4. chan'[d].sent = sent \/ chan'[d].sent = Append(sent, x)
        BY <1>5, <2>4, <3>1, <4>1
      <4>5. QED
        BY <4>1, <4>2, <4>3, <4>4
    <3>5. NeverRetained(sub[s].chan)' = NeverRetained(sub[s].chan)
      BY <1>3, <3>2 DEF NeverRetained
    <3>6. StreamOK(s)'
      <4>1. Known(s)' = Known(s) /\ accepted' = accepted /\ sub' = sub
        BY <1>3, <1>7
      <4>2. \A d \in Known(s)' : SameOrder(Stream(s)', Sent(d)')
        BY <3>3, <3>4, <4>1 DEF Sent
      <4>3. /\ Elements(Stream(s)) \subseteq Elements(accepted) /\ Distinct(Stream(s))
            /\ ~ sub[s].lost => Elements(Stream(s)) \subseteq Elements(Sent(sub[s].chan))
            /\ ~ sub[s].lost /\ NeverRetained(sub[s].chan) => IsTailOf(Stream(s), Sent(sub[s].chan))
        BY <3>1 DEF StreamOK
      <4>4. QED
        BY <3>2, <3>3, <3>5, <4>1, <4>2, <4>3 DEF StreamOK
    <3>7. QED
      BY <3>3, <3>6
  <2>8. ASSUME NEW q \in Early' PROVE UnsentOK(q)'
    <3>1. q \in Early /\ q # p /\ pub'[q] = pub[q] /\ UnsentOK(q) /\ pub[q].id # x
      BY <1>4, <1>6, <2>1, <2>2, <2>8
    <3>2. \A d \in TopicChans' : pub[q].id \notin Elements(chan'[d].sent)
      BY <1>8, <2>3, <2>4, <3>1 DEF UnsentOK
    <3>3. \A s \in ExactRunning' : pub[q].id \notin Elements(Stream(s)')
      <4> SUFFICES ASSUME NEW s \in ExactRunning' PROVE pub[q].id \notin Elements(Stream(s)')
        OBVIOUS
      <4>1. pub[q].id \notin Elements(Stream(s))
        BY <1>7, <3>1 DEF UnsentOK
      <4>2. CASE sub[s].chan = c
        BY <2>6, <3>1, <4>1, <4>2
      <4>3. CASE sub[s].chan # c
        BY <2>7, <4>1, <4>3
      <4>4. QED
        BY <4>2, <4>3
    <3>4. \A y \in Early' : y # q => pub'[y].id # pub'[q].id
      <4>1. \A y \in Early' : pub'[y] = pub[y] /\ y \in Early
        BY <1>4, <1>6
      <4>2. QED
        BY <3>1, <4>1 DEF UnsentOK
    <3>5. pub[q].id \in Elements(accepted)
      BY <3>1 DEF UnsentOK
    <3>6. QED
      BY <1>3, <3>1, <3>2, <3>3, <3>4, <3>5 DEF UnsentOK, Sent
  <2>9. QED
    BY <2>5, <2>6, <2>7, <2>8
<1>12. DeliveryOK'
  BY <1>11 DEF DeliveryOK
<1>13. QED
  BY <1>1, <1>7, <1>8, <1>12

\* The beginning of a sequence in order is in order.
LEMMA PrefixFacts ==
    ASSUME NEW S, NEW o \in Seq(S), NEW v \in Seq(S)
    PROVE  /\ Elements(o) \subseteq Elements(o \o v)
           /\ Distinct(o \o v) => Distinct(o)
           /\ \A sent : SameOrder(o \o v, sent) => SameOrder(o, sent)
<1>1. /\ Len(o) \in Nat /\ Len(v) \in Nat /\ Len(o \o v) = Len(o) + Len(v)
      /\ \A i \in 1 .. Len(o) : (o \o v)[i] = o[i]
      /\ Elements(o \o v) = Elements(o) \cup Elements(v)
  BY ConcatElements
<1>2. \A i \in 1 .. Len(o) : i \in 1 .. Len(o \o v)
  BY <1>1
<1> DEFINE q == o \o v
<1> HIDE DEF q
<1>3. Distinct(q) => Distinct(o)
  BY <1>1, <1>2 DEF Distinct, q
<1>4. \A sent : SameOrder(q, sent) => SameOrder(o, sent)
  BY <1>1, <1>2 DEF SameOrder, q
<1>5. QED
  BY <1>1, <1>3, <1>4 DEF q

\* What is recovered comes from the backlog.
LEMMA RecoveredElements ==
    ASSUME NEW b \in Seq(Ids), NEW last \in Ids \cup {None}
    PROVE  Elements(Recovered(b, last)) \subseteq Elements(b)
<1> DEFINE q == Recovered(b, last)
<1>1. /\ q \in Seq(Ids)
      /\ last = None => q = b
      /\ last # None /\ last \notin Elements(b) => q = <<>>
      /\ last # None /\ last \in Elements(b) =>
            \E k \in 1 .. Len(b) : /\ Len(q) = Len(b) - k
                                   /\ \A i \in 1 .. Len(b) - k : q[i] = b[k + i]
  BY RecoveredFacts
<1> HIDE DEF q
<1>2. CASE last = None \/ last \notin Elements(b)
  BY <1>1, <1>2, EmptyFacts DEF q
<1>3. CASE last # None /\ last \in Elements(b)
  <2>1. PICK k \in 1 .. Len(b) : /\ Len(q) = Len(b) - k
                                 /\ \A i \in 1 .. Len(b) - k : q[i] = b[k + i]
    BY <1>1, <1>3
  <2>2. Len(b) \in Nat
    OBVIOUS
  <2>3. \A i \in 1 .. Len(b) - k : k + i \in 1 .. Len(b)
    BY <2>2
  <2>4. QED
    BY <2>1, <2>3 DEF Elements, q
<1>4. QED
  BY <1>2, <1>3

\* What spawn_forwarder goes on with after Broker::subscribe: the stream stays in
\* order on the channel it was given, which is the one it had unless a loss is
\* reported, and then it has no gap.
LEMMA ResumeStream ==
    ASSUME FanoutInv, EachIdOnce, UNCHANGED accepted, NEW s \in Subscribers, NEW r, NEW b, NEW c,
           SubscribeExact(s), Resubscribed(s, r, b, c)
    PROVE  /\ StreamOK(s)'
           /\ \A p \in Early : pub[p].id \notin Elements(Stream(s)')
<1>1. /\ BrokerOK /\ ChannelsOK /\ MapShape(topics, Topics) /\ sub = [x \in Subscribers |-> sub[x]]
      /\ SentOnce /\ \A x \in ExactRunning : StreamOK(x)
      /\ \A p \in Early : UnsentOK(p)
  BY DEF FanoutInv, DeliveryOK, BrokerOK, MapsShaped, SubscribersOK
<1>2. /\ FilterOf[s] \in Topics /\ Exact(s) /\ sub' = [sub EXCEPT ![s] = r]
      /\ chan' = WithChannelFor(topics, FilterOf[s])
      /\ topics' = GetOrInsert(topics, FilterOf[s], Len(chan) + 1, Live)
      /\ c \in 1 .. Len(chan') /\ c = ChannelFor(topics, FilterOf[s], Len(chan) + 1)
      /\ b = ChannelBacklog(chan'[c])
      /\ r.chan = c /\ r.pos = Len(chan'[c].sent)
      /\ r.backlog = Recovered(b, sub[s].last) /\ r.out = sub[s].out
      /\ r.lost = (sub[s].lost \/ GapOutranBuffer(b, sub[s].last))
  BY DEF Resubscribed
<1>3. sub'[s] = r
  BY <1>1, <1>2
<1>4. /\ FilterOf[s] \in DOMAIN topics.map => chan' = chan /\ c = topics.map[FilterOf[s]]
      /\ FilterOf[s] \notin DOMAIN topics.map => Opens /\ c = Len(chan) + 1
      /\ ChannelStep
  <2>1. /\ FilterOf[s] \in DOMAIN topics.map => chan' = chan
        /\ FilterOf[s] \notin DOMAIN topics.map => Opens
        /\ ChannelStep
    BY <1>1, <1>2, GetOrInsertShape
  <2>2. QED
    BY <1>2, <2>1 DEF ChannelFor
<1>5. ChannelsOK' /\ chan'[c] \in Channel /\ ChannelOK(chan'[c])
  BY <1>1, <1>2, <1>4, ChannelsGrow DEF ChannelsOK
<1>6. PICK sent \in Seq(Ids) : sent = chan'[c].sent
  BY <1>5 DEF Channel
<1>7. \/ sent = <<>>
      \/ /\ c \in TopicChans /\ sent = Sent(c)
         /\ s \in ExactRunning => c \in Known(s)
  <2>1. CASE FilterOf[s] \in DOMAIN topics.map
    BY <1>4, <1>6, <2>1 DEF TopicChans, Sent, Known
  <2>2. CASE FilterOf[s] \notin DOMAIN topics.map
    BY <1>1, <1>4, <1>6, <2>2, OpensFacts
  <2>3. QED
    BY <2>1, <2>2
<1>8. Distinct(sent) /\ Elements(sent) \subseteq Elements(accepted)
  BY <1>1, <1>7, EmptyFacts DEF SentOnce
<1>9. ExactOK(s) /\ sub[s] \in SubTask
  BY <1>1, <1>2 DEF BrokerOK, SubscribersOK, SubscriberOK, ExactOK
<1>10. PICK o \in Seq(Ids), last \in Ids \cup {None} :
          o = sub[s].out /\ last = sub[s].last /\ last = IF o = <<>> THEN None ELSE o[Len(o)]
  BY <1>9 DEF ExactOK, SubTask, LastDelivered
<1>11. o # <<>> => s \in ExactRunning /\ sub[s].backlog = <<>>
  BY <1>2, <1>9, <1>10 DEF SubscribeExact, Subscribing, Lagged, ExactOK, ExactRunning
<1>12. o # <<>> => /\ Unread(s) \in Seq(Ids) /\ Stream(s) = o \o Unread(s)
  <2> HAVE o # <<>>
  <2>1. Unread(s) \in Seq(Ids)
    BY <1>1, <1>11, StreamSeq
  <2>2. Stream(s) = o \o <<>> \o Unread(s)
    BY <1>10, <1>11 DEF Stream
  <2>3. o \o <<>> = o
    OBVIOUS
  <2>4. QED
    BY <2>1, <2>2, <2>3
<1>13. /\ Distinct(o) /\ SameOrder(o, sent) /\ Elements(o) \subseteq Elements(accepted)
       /\ \A p \in Early : pub[p].id \notin Elements(o)
  <2>1. CASE o = <<>>
    <3>1. SameOrder(o, sent)
      BY <2>1 DEF SameOrder
    <3>2. QED
      BY <2>1, <3>1, EmptyFacts
  <2>2. CASE o # <<>>
    <3>1. StreamOK(s) /\ s \in ExactRunning /\ Stream(s) = o \o Unread(s) /\ Unread(s) \in Seq(Ids)
      BY <1>1, <1>11, <1>12, <2>2
    <3>2. /\ Elements(o) \subseteq Elements(Stream(s))
          /\ Distinct(Stream(s)) => Distinct(o)
          /\ \A z : SameOrder(Stream(s), z) => SameOrder(o, z)
      BY <3>1, PrefixFacts
    <3>3. SameOrder(o, sent)
      <4>1. CASE sent = <<>>
        BY <4>1, EmptyFacts
      <4>2. CASE sent = Sent(c) /\ c \in Known(s)
        BY <3>1, <3>2, <4>2 DEF StreamOK
      <4>3. QED
        BY <1>7, <3>1, <4>1, <4>2
    <3>4. QED
      BY <1>1, <3>1, <3>2, <3>3 DEF StreamOK, UnsentOK
  <2>3. QED
    BY <2>1, <2>2
<1>14. b \in Seq(Ids) /\ PartOf(b, sent) /\ (chan'[c].retained = None => b = chan'[c].buffer)
  BY <1>2, <1>5, <1>6, <1>8, BacklogIsPart
<1>15. PICK back \in Seq(Ids) : back = Recovered(b, last)
  BY <1>14, RecoveredFacts
<1>16. PICK all \in Seq(Ids) : all = o \o back
  <2>1. o \o back \in Seq(Ids)
    OBVIOUS
  <2>2. QED
    BY <2>1
<1>17. Distinct(all) /\ SameOrder(all, sent)
  BY <1>8, <1>10, <1>13, <1>14, <1>15, <1>16, ResumeInOrder
<1>18. Elements(all) = Elements(o) \cup Elements(back) /\ Elements(back) \subseteq Elements(sent)
  <2>1. Elements(all) = Elements(o) \cup Elements(back)
    BY <1>16, ConcatElements
  <2>2. Elements(back) \subseteq Elements(b)
    BY <1>14, <1>15, RecoveredElements
  <2>3. QED
    BY <1>14, <2>1, <2>2 DEF PartOf
<1>19. Stream(s)' = all
  <2>1. Unread(s)' = SubSeq(sent, Len(sent) + 1, Len(sent))
    BY <1>2, <1>3, <1>6 DEF Unread
  <2>2. SubSeq(sent, Len(sent) + 1, Len(sent)) = <<>>
    OBVIOUS
  <2>3. Stream(s)' = o \o back \o <<>>
    BY <1>2, <1>3, <1>10, <1>15, <2>1, <2>2 DEF Stream
  <2>4. all \o <<>> = all
    OBVIOUS
  <2>5. QED
    BY <1>16, <2>3, <2>4
<1>20. \A d \in Known(s)' : d = c
  <2>1. \A x \in DOMAIN topics'.map :
           \/ x \in DOMAIN topics.map /\ topics'.map[x] = topics.map[x]
           \/ FilterOf[s] \notin DOMAIN topics.map /\ x = FilterOf[s] /\ topics'.map[x] = Len(chan) + 1
    BY <1>1, <1>2, GetOrInsertChans
  <2>2. \A x \in DOMAIN topics'.map : x = FilterOf[s] => topics'.map[x] = c
    BY <1>4, <2>1
  <2>3. QED
    BY <1>2, <1>3, <2>2 DEF Known
<1>21. ~ r.lost => ~ sub[s].lost /\ (last = None \/ last \in Elements(b))
  <2>1. Range(b) = Elements(b)
    BY <1>14, RangeElements
  <2>2. ~ r.lost => ~ sub[s].lost /\ ~ GapOutranBuffer(b, last)
    BY <1>2, <1>10, Zenon
  <2>3. QED
    BY <2>1, <2>2, <1>10 DEF GapOutranBuffer
<1>22. None \notin Ids
  BY FanoutAssumption DEF None
<1>23. last = None => o = <<>>
  BY <1>10, <1>22
<1>24. ASSUME ~ r.lost, last # None
       PROVE  c = sub[s].chan /\ s \in ExactRunning /\ sent = Sent(c) /\ o # <<>>
  <2>1. o # <<>> /\ s \in ExactRunning /\ last = o[Len(o)] /\ last \in Ids
    BY <1>10, <1>11, <1>24
  <2>2. last \in Elements(o)
    <3>1. Len(o) \in 1 .. Len(o)
      BY <2>1
    <3>2. QED
      BY <2>1, <3>1 DEF Elements
  <2>3. last \in Elements(Sent(sub[s].chan))
    <3>1. Elements(o) \subseteq Elements(Stream(s))
      BY <1>12, <2>1, PrefixFacts
    <3>2. QED
      BY <1>1, <1>21, <1>24, <2>1, <2>2, <3>1 DEF StreamOK
  <2>4. last \in Elements(sent)
    BY <1>14, <1>21, <1>24 DEF PartOf
  <2>5. sent # <<>>
    BY <2>4, EmptyFacts
  <2>6. c \in TopicChans /\ sent = Sent(c) /\ sub[s].chan \in TopicChans
    BY <1>7, <2>1, <2>5 DEF TopicChans
  <2>7. c = sub[s].chan
    BY <1>1, <2>3, <2>4, <2>6 DEF SentOnce
  <2>8. QED
    BY <2>1, <2>6, <2>7
<1>25. ASSUME ~ r.lost PROVE Elements(all) \subseteq Elements(sent)
  <2>1. CASE last = None
    BY <1>18, <1>23, <2>1, EmptyFacts
  <2>2. CASE last # None
    <3>1. Elements(o) \subseteq Elements(Stream(s)) /\ StreamOK(s)
      BY <1>1, <1>12, <1>24, <1>25, <2>2, PrefixFacts
    <3>2. Elements(o) \subseteq Elements(sent)
      BY <1>21, <1>24, <1>25, <2>2, <3>1 DEF StreamOK
    <3>3. QED
      BY <1>18, <3>2
  <2>3. QED
    BY <2>1, <2>2
<1>26. ASSUME ~ r.lost, NeverRetained(c)' PROVE IsTailOf(all, sent)
  <2>1. Range(sent) = Elements(sent)
    BY RangeElements
  <2>2. chan'[c].retained = None
    BY <1>5, <1>6, <1>26, <2>1 DEF NeverRetained, ChannelOK
  <2>3. b = chan'[c].buffer /\ IsTailOf(b, sent)
    BY <1>5, <1>6, <1>14, <2>2 DEF ChannelOK
  <2>4. CASE last = None
    <3>1. o = <<>> /\ back = b
      BY <1>14, <1>15, <1>23, <2>4, RecoveredFacts
    <3>2. all = b
      BY <1>14, <1>16, <3>1
    <3>3. QED
      BY <2>3, <3>2
  <2>5. CASE last # None
    <3>1. c = sub[s].chan /\ s \in ExactRunning /\ sent = Sent(c) /\ o # <<>>
      BY <1>24, <1>26, <2>5
    <3>2. NeverRetained(c)
      BY <1>6, <1>26, <3>1 DEF NeverRetained, Sent
    <3>3. ~ sub[s].lost /\ last \in Elements(b)
      BY <1>21, <1>26, <2>5
    <3>4. IsTailOf(Stream(s), sent)
      BY <1>1, <3>1, <3>2, <3>3 DEF StreamOK
    <3>5. PICK u \in Seq(Ids) : Stream(s) = o \o u
      BY <1>12, <3>1
    <3>6. IsTailOf(o \o u, sent) /\ last \in Ids /\ last = o[Len(o)]
      BY <1>10, <2>5, <3>1, <3>4, <3>5
    <3>7. IsTailOf(o \o Recovered(b, last), sent)
      BY <1>8, <1>14, <2>3, <3>1, <3>3, <3>6, ResumeIsTail
    <3>8. QED
      BY <1>15, <1>16, <3>7
  <2>6. QED
    BY <2>4, <2>5
<1>27. StreamOK(s)'
  <2>1. Sent(c)' = sent /\ sub'[s].chan = c /\ sub'[s].lost = r.lost
    BY <1>2, <1>3, <1>6 DEF Sent
  <2>2. Elements(all) \subseteq Elements(accepted')
    BY <1>8, <1>13, <1>18
  <2>3. \A d \in Known(s)' : SameOrder(all, Sent(d)')
    BY <1>17, <1>20, <2>1 DEF Sent
  <2>4. QED
    BY <1>17, <1>19, <1>25, <1>26, <2>1, <2>2, <2>3 DEF StreamOK
<1>28. ASSUME NEW p \in Early PROVE pub[p].id \notin Elements(all)
  <2>1. UnsentOK(p)
    BY <1>1
  <2>2. pub[p].id \notin Elements(sent)
    BY <1>7, <2>1, EmptyFacts DEF UnsentOK
  <2>3. QED
    BY <1>13, <1>18, <2>2
<1>29. QED
  BY <1>19, <1>27, <1>28

\* A forwarder of an exact topic subscribes, at its start or after a lag.
LEMMA DeliverySubscribe ==
    ASSUME FanoutInv, NEW s \in Subscribers, SubscribeExact(s)
    PROVE  DeliveryOK' /\ TopicChans' \cap PatternChans' = {}
<1>1. /\ BrokerOK /\ DeliveryOK /\ ChannelsOK /\ MapShape(topics, Topics)
      /\ sub = [x \in Subscribers |-> sub[x]] /\ TopicChans \cap PatternChans = {}
  BY DEF FanoutInv, BrokerOK, MapsShaped, SubscribersOK
<1>2. PICK r, b, c : Resubscribed(s, r, b, c)
  BY <1>1, SubscribeExactFacts
<1>3. /\ FilterOf[s] \in Topics /\ sub' = [sub EXCEPT ![s] = r]
      /\ chan' = WithChannelFor(topics, FilterOf[s])
      /\ topics' = GetOrInsert(topics, FilterOf[s], Len(chan) + 1, Live)
      /\ c = ChannelFor(topics, FilterOf[s], Len(chan) + 1)
      /\ r.chan = c /\ UNCHANGED <<patterns, pub>> /\ UNCHANGED accepted
  BY <1>2 DEF Resubscribed, seenVars
<1>4. /\ FilterOf[s] \in DOMAIN topics.map => chan' = chan
      /\ FilterOf[s] \notin DOMAIN topics.map => Opens
  BY <1>1, <1>3, GetOrInsertShape
<1>5. /\ \A d \in Opened : chan'[d].sent = <<>> /\ d \notin 1 .. Len(chan)
      /\ \A d \in 1 .. Len(chan) : chan'[d] = chan[d]
  BY <1>1, <1>4, OpenedFacts
<1>6. \A x \in DOMAIN topics'.map :
          \/ x \in DOMAIN topics.map /\ topics'.map[x] = topics.map[x]
          \/ topics'.map[x] \in Opened
  BY <1>1, <1>3, <1>4, GetOrInsertChans DEF Opened
<1>7. c \in TopicChans \cup Opened
  BY <1>3, <1>4 DEF ChannelFor, TopicChans, Opened
<1>8. sub'[s] = r /\ \A x \in Subscribers : x # s => sub'[x] = sub[x]
  BY <1>1, <1>3
<1>9. \A x \in ExactRunning' \ {s} : x \in ExactRunning /\ sub'[x] = sub[x]
  BY <1>8 DEF ExactRunning, Exact
<1>10. TopicChans \subseteq 1 .. Len(chan) /\ PatternChans \subseteq 1 .. Len(chan)
  BY <1>1, ChansExist
<1>11. TopicChans' \subseteq TopicChans \cup Opened
  <2>1. \A x \in DOMAIN topics'.map : topics'.map[x] \in TopicChans \cup Opened
    BY <1>6 DEF TopicChans
  <2>2. \A x \in ExactRunning' : sub'[x].chan \in TopicChans \cup Opened
    <3>1. \A x \in ExactRunning' \ {s} : sub'[x].chan \in TopicChans
      BY <1>9 DEF TopicChans
    <3>2. QED
      BY <1>3, <1>7, <1>8, <3>1
  <2>3. \A q \in Publishers : pub'[q].pc = "exact" => pub'[q].chan \in TopicChans
    BY <1>3 DEF TopicChans
  <2>4. QED
    BY <2>1, <2>2, <2>3 DEF TopicChans
<1>12. PatternChans' = PatternChans /\ Early' = Early
  BY <1>3 DEF PatternChans, Early
<1>13. ASSUME NEW x \in ExactRunning' \ {s}
       PROVE  /\ Stream(x)' = Stream(x) /\ sub'[x] = sub[x]
              /\ Known(x)' \subseteq Known(x) \cup Opened
  <2>1. x \in ExactRunning /\ sub'[x] = sub[x] /\ sub[x].chan \in 1 .. Len(chan)
    BY <1>1, <1>9, <1>13, StreamSeq
  <2>2. Stream(x)' = Stream(x)
    BY <1>5, <2>1, SameStream
  <2>3. QED
    BY <1>6, <2>1, <2>2 DEF Known
<1>14. EachIdOnce => /\ StreamOK(s)'
                     /\ \A p \in Early : pub[p].id \notin Elements(Stream(s)')
  BY <1>2, <1>3, ResumeStream
<1>15. DeliveryOK'
  <2> DEFINE Joined == {s}
  <2>1. /\ ExactRunning' \subseteq ExactRunning \cup Joined
        /\ \A x \in ExactRunning' \ Joined :
              /\ Stream(x)' = Stream(x)
              /\ sub'[x].chan = sub[x].chan /\ sub'[x].lost = sub[x].lost
              /\ Known(x)' \subseteq Known(x) \cup Opened
    BY <1>9, <1>13
  <2>2. \A x \in ExactRunning' \cap Joined : EachIdOnce =>
           /\ StreamOK(x)'
           /\ \A p \in Early : pub[p].id \notin Elements(Stream(x)')
    BY <1>14
  <2>3. \A d \in TopicChans : chan'[d].sent = chan[d].sent
    BY <1>5, <1>10
  <2>4. \A d \in Opened : chan'[d].sent = <<>>
    BY <1>5
  <2>5. \A p \in Early' : pub'[p].id = pub[p].id
    BY <1>3
  <2> HIDE DEF Joined
  <2>6. QED
    BY <1>1, <1>3, <1>11, <1>12, <2>1, <2>2, <2>3, <2>4, <2>5, JoinStep
<1>16. QED
  BY <1>1, <1>5, <1>10, <1>11, <1>12, <1>15

\* The invariant of the broker.
LEMMA FanoutInvStep == FanoutInv /\ [FanoutNext]_fanoutVars => FanoutInv'
<1> SUFFICES ASSUME FanoutInv, [FanoutNext]_fanoutVars PROVE FanoutInv'
  OBVIOUS
<1>1. BrokerOK'
  BY BrokerStep DEF FanoutInv
<1>2. ASSUME NEW p \in Publishers, NEW id \in Ids, PublishBegin(p, id)
      PROVE  accepted' \in Seq(Ids) /\ DeliveryOK' /\ TopicChans' \cap PatternChans' = {}
  BY <1>2, DeliveryBegin
<1>3. ASSUME NEW p \in Publishers, PublishStep(p)
      PROVE  accepted' \in Seq(Ids) /\ DeliveryOK' /\ TopicChans' \cap PatternChans' = {}
  <2>1. accepted' = accepted
    BY <1>3 DEF PublishStep, PublishFetch, PublishExact, PublishLock, PublishPattern, PublishDone,
                seenVars
  <2>2. DeliveryOK' /\ TopicChans' \cap PatternChans' = {}
    BY <1>3, DeliveryFetch, DeliveryExact, DeliveryPatterns DEF PublishStep
  <2>3. QED
    BY <2>1, <2>2 DEF FanoutInv
<1>4. ASSUME NEW s \in Subscribers, ForwarderStep(s) \/ End(s)
      PROVE  accepted' \in Seq(Ids) /\ DeliveryOK' /\ TopicChans' \cap PatternChans' = {}
  <2>1. accepted' = accepted
    BY <1>4 DEF ForwarderStep, SubscribeExact, SubscribePattern, ScanLock, ScanTopic, ScanDone,
                Forward, Receive, End, seenVars
  <2>2. DeliveryOK' /\ TopicChans' \cap PatternChans' = {}
    BY <1>4, DeliverySubscribe, DeliverySubscribePattern, DeliveryForward DEF ForwarderStep
  <2>3. QED
    BY <2>1, <2>2 DEF FanoutInv
<1>5. CASE UNCHANGED fanoutVars \/ \E s \in Subscribers : ClientReads(s)
  <2>1. UNCHANGED <<topics, patterns, chan, pub, sub, accepted>>
    BY <1>5 DEF fanoutVars, ClientReads, seenVars
  <2>2. DeliveryOK /\ TopicChans \cap PatternChans = {} /\ accepted \in Seq(Ids)
    BY DEF FanoutInv
  <2>3. DeliveryOK' /\ TopicChans' \cap PatternChans' = {} /\ accepted' \in Seq(Ids)
    BY <2>1, <2>2, DeliveryStutter
  <2>4. QED
    BY <1>1, <2>3 DEF FanoutInv
<1>6. QED
  BY <1>1, <1>2, <1>3, <1>4, <1>5 DEF FanoutNext, FanoutInv

\* Before the first publish nothing was sent and nobody has a stream.
LEMMA FanoutInvInit == FanoutInit => FanoutInv
<1> SUFFICES ASSUME FanoutInit PROVE FanoutInv
  OBVIOUS
<1>1. BrokerOK
  BY BrokerInit
<1>2. ExactRunning = {} /\ Early = {}
  BY DEF FanoutInit, ExactRunning, Early
<1>3. TopicChans = {} /\ accepted = <<>>
  BY <1>2 DEF FanoutInit, TopicChans, EmptyMap, SeenInit
<1>4. DeliveryOK
  BY <1>2, <1>3 DEF DeliveryOK, SentOnce
<1>5. QED
  BY <1>1, <1>3, <1>4 DEF FanoutInv

\* The position of a message on a channel.
LEMMA SentAtFacts ==
    ASSUME ChannelsOK, NEW c \in 1 .. Len(chan), NEW id
    PROVE  \/ SentAt(c, id) = 0 /\ id \notin Elements(Sent(c))
           \/ SentAt(c, id) \in 1 .. Len(Sent(c)) /\ Sent(c)[SentAt(c, id)] = id
<1> DEFINE I == {i \in 1 .. Len(Sent(c)) : Sent(c)[i] = id}
<1>1. SentAt(c, id) = IF I # {} THEN Min(I) ELSE 0
  BY DEF SentAt, SelectInSeq, Sent
<1>2. Len(Sent(c)) \in Nat
  BY ChannelFacts DEF Sent
<1>3. CASE I = {}
  BY <1>1, <1>3 DEF Elements
<1>4. CASE I # {}
  <2>1. I \in SUBSET Nat
    BY <1>2
  <2>2. Min(I) \in I
    BY <1>4, <2>1, MinExists
  <2>3. QED
    BY <1>1, <1>4, <2>2
<1>5. QED
  BY <1>3, <1>4

\* The invariant says that streams are in order.
LEMMA InvInOrder == FanoutInv => ExactInOrderOnce
<1> SUFFICES ASSUME FanoutInv, EachIdOnce, NEW s \in Subscribers, Running(s), Exact(s),
                    NEW i \in 1 .. Len(Stream(s)), NEW j \in 1 .. Len(Stream(s)), i < j
             PROVE  /\ Stream(s)[i] # Stream(s)[j]
                    /\ SentAt(sub[s].chan, Stream(s)[j]) # 0
                       => SentAt(sub[s].chan, Stream(s)[i]) < SentAt(sub[s].chan, Stream(s)[j])
  BY DEF ExactInOrderOnce
<1>1. s \in ExactRunning /\ StreamOK(s) /\ BrokerOK /\ ChannelsOK
  BY DEF ExactRunning, Running, FanoutInv, DeliveryOK, BrokerOK
<1>2. PICK c \in 1 .. Len(chan) : c = sub[s].chan
  BY <1>1, StreamSeq
<1>3. Distinct(Stream(s)) /\ SameOrder(Stream(s), Sent(c))
  BY <1>1, <1>2 DEF StreamOK, Known
<1>4. Stream(s)[i] # Stream(s)[j]
  BY <1>3 DEF Distinct
<1> DEFINE m == SentAt(c, Stream(s)[i])
           n == SentAt(c, Stream(s)[j])
<1>5. Len(Sent(c)) \in Nat
  BY <1>1, ChannelFacts DEF Sent
<1>6. ASSUME n # 0 PROVE m < n
  <2>1. n \in 1 .. Len(Sent(c)) /\ Sent(c)[n] = Stream(s)[j]
    BY <1>1, <1>6, SentAtFacts
  <2>2. m = 0 \/ (m \in 1 .. Len(Sent(c)) /\ Sent(c)[m] = Stream(s)[i])
    BY <1>1, SentAtFacts
  <2> HIDE DEF m, n
  <2>3. CASE m = 0
    BY <1>5, <2>1, <2>3
  <2>4. CASE m \in 1 .. Len(Sent(c)) /\ Sent(c)[m] = Stream(s)[i]
    BY <1>3, <2>1, <2>4 DEF SameOrder
  <2>5. QED
    BY <2>2, <2>3, <2>4
<1>7. QED
  BY <1>2, <1>4, <1>6

\* The end of a sequence is a suffix of it.
LEMMA TailIsSuffix ==
    ASSUME NEW S, NEW q \in Seq(S), NEW sent \in Seq(S), IsTailOf(q, sent)
    PROVE  IsSuffix(q, sent)
<1>1. PICK a \in Nat : TailFrom(q, sent, a)
  BY DEF IsTailOf
<1> DEFINE n == Len(q)
           m == Len(sent)
           u == Reverse(q)
           v == Reverse(sent)
<1>2. n \in Nat /\ m \in Nat /\ a + n = m /\ \A k \in 1 .. n : q[k] = sent[a + k]
  BY <1>1 DEF TailFrom
<1>3. u \in Seq(S) /\ Len(u) = n /\ \A k \in 1 .. n : u[k] = q[(n - k) + 1]
  <2>1. \A k \in 1 .. n : (n - k) + 1 \in 1 .. n
    BY <1>2
  <2>2. u = [k \in 1 .. n |-> q[(n - k) + 1]] /\ \A k \in 1 .. n : q[(n - k) + 1] \in S
    BY <2>1 DEF Reverse
  <2> HIDE DEF u
  <2>3. QED
    BY <1>2, <2>2
<1>4. v \in Seq(S) /\ Len(v) = m /\ \A k \in 1 .. m : v[k] = sent[(m - k) + 1]
  <2>1. \A k \in 1 .. m : (m - k) + 1 \in 1 .. m
    BY <1>2
  <2>2. v = [k \in 1 .. m |-> sent[(m - k) + 1]] /\ \A k \in 1 .. m : sent[(m - k) + 1] \in S
    BY <2>1 DEF Reverse
  <2> HIDE DEF v
  <2>3. QED
    BY <1>2, <2>2
<1> HIDE DEF u, v, n, m
<1>5. \A k \in 1 .. n : u[k] = v[k]
  <2> SUFFICES ASSUME NEW k \in 1 .. n PROVE u[k] = v[k]
    OBVIOUS
  <2>1. (n - k) + 1 \in 1 .. n /\ a + ((n - k) + 1) = (m - k) + 1 /\ k \in 1 .. m
    BY <1>2
  <2>2. u[k] = q[(n - k) + 1] /\ v[k] = sent[(m - k) + 1]
    BY <1>3, <1>4, <2>1
  <2>3. q[(n - k) + 1] = sent[a + ((n - k) + 1)]
    BY <1>2, <2>1
  <2>4. QED
    BY <2>1, <2>2, <2>3
<1>6. n <= m
  BY <1>2
<1>7. SubSeq(u, 1, n) = SubSeq(v, 1, n)
  <2>1. SubSeq(u, 1, n) \in Seq(S) /\ Len(SubSeq(u, 1, n)) = n
        /\ \A k \in 1 .. n : SubSeq(u, 1, n)[k] = u[k]
    BY <1>2, <1>3
  <2>2. SubSeq(v, 1, n) \in Seq(S) /\ Len(SubSeq(v, 1, n)) = n
        /\ \A k \in 1 .. n : SubSeq(v, 1, n)[k] = v[k]
    BY <1>2, <1>4, <1>6
  <2>3. \A k \in 1 .. n : SubSeq(u, 1, n)[k] = SubSeq(v, 1, n)[k]
    BY <1>5, <2>1, <2>2
  <2>4. QED
    BY <2>1, <2>2, <2>3, SeqEqual
<1>8. QED
  BY <1>3, <1>4, <1>6, <1>7 DEF IsSuffix, IsPrefix, u, v

\* The invariant says that a loss is reported.
LEMMA InvNoGap == FanoutInv => NoSilentGap
<1> SUFFICES ASSUME FanoutInv, EachIdOnce, NEW s \in Subscribers, Running(s), Exact(s),
                    ~ sub[s].lost, NeverRetained(sub[s].chan)
             PROVE  Gapless(s)
  BY DEF NoSilentGap
<1>1. s \in ExactRunning /\ StreamOK(s) /\ BrokerOK
  BY DEF ExactRunning, Running, FanoutInv, DeliveryOK
<1>2. IsTailOf(Stream(s), Sent(sub[s].chan))
  BY <1>1 DEF StreamOK
<1>3. IsSuffix(Stream(s), Sent(sub[s].chan))
  BY <1>1, <1>2, StreamSeq, TailIsSuffix
<1>4. QED
  BY <1>3 DEF Gapless, Sent

(***************************************************************************)
(* A forwarder of an exact topic hands its connection nothing twice and    *)
(* nothing out of the order it was published in, for any numbers of        *)
(* publishers, forwarders and topics and any capacities                    *)
(* (Broker::subscribe, spawn_forwarder).                                   *)
(***************************************************************************)
THEOREM DeliveredInOrder == FanoutSpec => []ExactInOrderOnce
  BY FanoutInvInit, FanoutInvStep, InvInOrder, PTL DEF FanoutSpec

(***************************************************************************)
(* A forwarder of an exact topic that never retained a message either      *)
(* recovers a lag in full or reports the loss (spawn_forwarder's Lagged    *)
(* branch).                                                                *)
(***************************************************************************)
THEOREM LagIsReported == FanoutSpec => []NoSilentGap
  BY FanoutInvInit, FanoutInvStep, InvNoGap, PTL DEF FanoutSpec

-----------------------------------------------------------------------------
(* TopicMap: the queue of a map holds its keys.                             *)

\* Removing one entry of a queue whose entries are all different.
LEMMA RemoveAtFacts ==
    ASSUME NEW S, NEW q \in Seq(S), Distinct(q), NEW i \in 1 .. Len(q)
    PROVE  /\ RemoveAt(q, i) \in Seq(S) /\ Len(RemoveAt(q, i)) = Len(q) - 1
           /\ Distinct(RemoveAt(q, i)) /\ Elements(RemoveAt(q, i)) = Elements(q) \ {q[i]}
<1> DEFINE n == Len(q)
           u == SubSeq(q, 1, i - 1)
           v == SubSeq(q, i + 1, n)
           r == u \o v
<1>1. n \in Nat /\ i \in 1 .. n
  OBVIOUS
<1>2. u \in Seq(S) /\ Len(u) = i - 1 /\ \A k \in 1 .. i - 1 : u[k] = q[k]
  BY <1>1
<1>3. v \in Seq(S) /\ Len(v) = n - i /\ \A k \in 1 .. n - i : v[k] = q[i + k]
  BY <1>1
<1> HIDE DEF u, v, n
<1>4. RemoveAt(q, i) = r
  BY DEF RemoveAt, u, v, n
<1>5. /\ r \in Seq(S) /\ Len(r) = n - 1 /\ Elements(r) = Elements(u) \cup Elements(v)
      /\ \A k \in 1 .. i - 1 : r[k] = u[k]
      /\ \A k \in 1 .. n - i : r[(i - 1) + k] = v[k]
  <2>1. /\ r \in Seq(S) /\ Len(r) = Len(u) + Len(v) /\ Elements(r) = Elements(u) \cup Elements(v)
        /\ \A k \in 1 .. Len(u) : r[k] = u[k]
        /\ \A k \in 1 .. Len(v) : r[Len(u) + k] = v[k]
    <3>1. u \in Seq(S) /\ v \in Seq(S)
      BY <1>2, <1>3
    <3>2. QED
      BY <3>1, ConcatElements
  <2> HIDE DEF r
  <2>2. (i - 1) + (n - i) = n - 1
    BY <1>1
  <2>3. QED
    BY <1>2, <1>3, <2>1, <2>2
<1> HIDE DEF r
<1>6. \A k \in 1 .. n - 1 : r[k] = IF k < i THEN q[k] ELSE q[k + 1]
  <2> SUFFICES ASSUME NEW k \in 1 .. n - 1 PROVE r[k] = IF k < i THEN q[k] ELSE q[k + 1]
    OBVIOUS
  <2>1. CASE k < i
    <3>1. k \in 1 .. i - 1
      BY <1>1, <2>1
    <3>2. QED
      BY <1>2, <1>5, <2>1, <3>1
  <2>2. CASE ~ (k < i)
    <3>1. PICK l \in 1 .. n - i : k = (i - 1) + l
      <4>1. k - (i - 1) \in 1 .. n - i /\ k = (i - 1) + (k - (i - 1))
        BY <1>1, <2>2
      <4>2. QED
        BY <4>1
    <3>2. r[k] = q[i + l]
      BY <1>3, <1>5, <3>1
    <3>3. i + l = k + 1
      BY <1>1, <3>1
    <3>4. QED
      BY <2>2, <3>2, <3>3
  <2>3. QED
    BY <2>1, <2>2
<1>7. Distinct(r)
  <2> SUFFICES ASSUME NEW k \in 1 .. n - 1, NEW l \in 1 .. n - 1, k < l PROVE r[k] # r[l]
    BY <1>5 DEF Distinct
  <2> DEFINE a == IF k < i THEN k ELSE k + 1
             d == IF l < i THEN l ELSE l + 1
  <2>1. a \in 1 .. n /\ d \in 1 .. n /\ a < d
    BY <1>1
  <2>2. r[k] = q[a] /\ r[l] = q[d]
    BY <1>6
  <2> HIDE DEF a, d
  <2>3. q[a] # q[d]
    BY <2>1 DEF Distinct, n
  <2>4. QED
    BY <2>2, <2>3
<1>8. Elements(r) = Elements(q) \ {q[i]}
  <2>1. \A k \in 1 .. n : k # i => q[k] # q[i]
    BY DistinctAt DEF n
  <2>2. ASSUME NEW x \in Elements(r) PROVE x \in Elements(q) \ {q[i]}
    <3>1. PICK k \in 1 .. n - 1 : x = r[k]
      BY <1>5, <2>2 DEF Elements
    <3>2. PICK a \in 1 .. n : x = q[a] /\ a # i
      <4>1. CASE k < i
        <5>1. k \in 1 .. n /\ k # i /\ x = q[k]
          BY <1>1, <1>6, <3>1, <4>1
        <5>2. QED
          BY <5>1
      <4>2. CASE ~ (k < i)
        <5>1. k + 1 \in 1 .. n /\ k + 1 # i /\ x = q[k + 1]
          BY <1>1, <1>6, <3>1, <4>2
        <5>2. QED
          BY <5>1
      <4>3. QED
        BY <4>1, <4>2
    <3>3. QED
      BY <2>1, <3>2 DEF Elements, n
  <2>3. ASSUME NEW x \in Elements(q), x # q[i] PROVE x \in Elements(r)
    <3>1. PICK k \in 1 .. n : x = q[k]
      BY <2>3 DEF Elements, n
    <3>2. k # i
      BY <2>3, <3>1
    <3>3. CASE k < i
      <4>1. k \in 1 .. n - 1 /\ r[k] = q[k]
        BY <1>1, <1>6, <3>3
      <4>2. QED
        BY <1>5, <3>1, <4>1 DEF Elements
    <3>4. CASE i < k
      <4>1. PICK l \in 1 .. n - 1 : k = l + 1 /\ ~ (l < i)
        <5>1. k - 1 \in 1 .. n - 1 /\ k = (k - 1) + 1 /\ ~ (k - 1 < i)
          BY <1>1, <3>4
        <5>2. QED
          BY <5>1
      <4>2. r[l] = q[k]
        BY <1>6, <4>1
      <4>3. QED
        BY <1>5, <3>1, <4>2 DEF Elements
    <3>5. QED
      BY <1>1, <3>2, <3>3, <3>4
  <2>4. QED
    BY <2>2, <2>3
<1>9. QED
  BY <1>4, <1>5, <1>7, <1>8 DEF n

\* The queue of a map holds its keys, each once.
MapQueued(m, K) ==
    /\ m.order \in Seq(K)
    /\ Distinct(m.order)
    /\ DOMAIN m.map = Elements(m.order)

\* A queue of the map's keys makes a consistent map.
LEMMA QueuedIsConsistent ==
    ASSUME NEW K, NEW m, MapQueued(m, K)
    PROVE  MapConsistent(m)
<1>1. \A i, j \in 1 .. Len(m.order) : m.order[i] = m.order[j] => i = j
  BY DistinctAt DEF MapQueued
<1>2. QED
  BY <1>1 DEF MapConsistent, MapQueued, Elements

\* TopicMap::touch moves a key it finds and changes nothing else.
LEMMA TouchFacts ==
    ASSUME NEW K, NEW q \in Seq(K), Distinct(q), NEW k \in Elements(q)
    PROVE  /\ Touch(q, k) \in Seq(K) /\ Len(Touch(q, k)) = Len(q)
           /\ Distinct(Touch(q, k)) /\ Elements(Touch(q, k)) = Elements(q)
<1> DEFINE positions == {i \in 1 .. Len(q) : q[i] = k}
           p == Min(positions)
           r == RemoveAt(q, p)
<1>1. positions \in SUBSET Nat /\ positions # {} /\ k \in K
  BY DEF Elements
<1>2. p \in positions
  BY <1>1, MinExists
<1>3. p \in 1 .. Len(q) /\ q[p] = k
  BY <1>2
<1>4. Touch(q, k) = Append(r, k)
  BY <1>1 DEF Touch
<1> HIDE DEF p
<1>5. r \in Seq(K) /\ Len(r) = Len(q) - 1 /\ Distinct(r) /\ Elements(r) = Elements(q) \ {k}
  BY <1>3, RemoveAtFacts
<1> HIDE DEF r
<1>6. /\ Append(r, k) \in Seq(K) /\ Elements(Append(r, k)) = Elements(r) \cup {k}
      /\ Distinct(Append(r, k)) /\ Len(Append(r, k)) = Len(r) + 1
  BY <1>1, <1>5, AppendElements
<1>7. Len(q) \in Nat
  OBVIOUS
<1>8. QED
  BY <1>4, <1>5, <1>6, <1>7

\* TopicMap::evict_over_capacity takes the same key out of map and queue.
LEMMA EvictFacts ==
    ASSUME NEW K, NEW n, MapQueued(n, K), NEW live
    PROVE  MapQueued(EvictOverCapacity(n, live), K)
<1> DEFINE dead == {i \in 1 .. Len(n.order) : n.map[n.order[i]] \notin live}
           q == n.order
           p == Min(dead)
           pruned == [map   |-> Restrict(n.map, DOMAIN n.map \ {q[p]}),
                      order |-> RemoveAt(q, p)]
<1>1. q \in Seq(K) /\ Distinct(q) /\ DOMAIN n.map = Elements(q) /\ Len(q) \in Nat
  BY DEF MapQueued
<1>2. CASE EvictOverCapacity(n, live) = n
  BY <1>2
<1>3. CASE EvictOverCapacity(n, live) # n
  <2>1. dead \in SUBSET Nat /\ dead # {}
    BY <1>1, <1>3 DEF EvictOverCapacity
  <2>2. p \in dead
    BY <2>1, MinExists
  <2>3. p \in 1 .. Len(q)
    BY <2>2
  <2>4. EvictOverCapacity(n, live) = pruned
    BY <1>3 DEF EvictOverCapacity
  <2> HIDE DEF p
  <2>5. /\ RemoveAt(q, p) \in Seq(K)
        /\ Distinct(RemoveAt(q, p)) /\ Elements(RemoveAt(q, p)) = Elements(q) \ {q[p]}
    BY <1>1, <2>3, RemoveAtFacts
  <2>6. pruned.order = RemoveAt(q, p) /\ DOMAIN pruned.map = Elements(q) \ {q[p]}
    BY <1>1 DEF Restrict
  <2> HIDE DEF pruned
  <2>7. QED
    BY <2>4, <2>5, <2>6 DEF MapQueued
<1>4. QED
  BY <1>2, <1>3

\* TopicMap::get_or_insert keeps the queue of a map, whatever it evicts.
LEMMA GetOrInsertFacts ==
    ASSUME NEW K, NEW m, m = [map |-> m.map, order |-> m.order], MapQueued(m, K),
           NEW k \in K, NEW live, NEW c
    PROVE  MapQueued(GetOrInsert(m, k, c, live), K)
<1> DEFINE after == GetOrInsert(m, k, c, live)
           q == m.order
<1>1. q \in Seq(K) /\ Distinct(q) /\ DOMAIN m.map = Elements(q) /\ Len(q) \in Nat
  BY DEF MapQueued
<1>2. CASE k \in DOMAIN m.map
  <2>1. after = [m EXCEPT !.order = Touch(q, k)]
    BY <1>2 DEF GetOrInsert
  <2>2. after.map = m.map /\ after.order = Touch(q, k)
    BY <2>1
  <2>3. /\ Touch(q, k) \in Seq(K)
        /\ Distinct(Touch(q, k)) /\ Elements(Touch(q, k)) = Elements(q)
    BY <1>1, <1>2, TouchFacts
  <2> HIDE DEF after
  <2>4. QED
    BY <1>1, <2>2, <2>3 DEF MapQueued, after
<1>3. CASE k \notin DOMAIN m.map
  <2> DEFINE f == [x \in DOMAIN m.map \cup {k} |-> IF x = k THEN c ELSE m.map[x]]
             n == [map |-> f, order |-> Append(q, k)]
  <2>1. after = EvictOverCapacity(n, live)
    BY <1>3 DEF GetOrInsert
  <2>2. n.map = f /\ n.order = Append(q, k) /\ DOMAIN f = Elements(q) \cup {k}
    BY <1>1
  <2>3. /\ Append(q, k) \in Seq(K) /\ Elements(Append(q, k)) = Elements(q) \cup {k}
        /\ Distinct(Append(q, k))
    BY <1>1, <1>3, AppendElements
  <2> HIDE DEF n, f, after
  <2>4. MapQueued(n, K)
    BY <2>2, <2>3 DEF MapQueued
  <2>5. QED
    BY <2>1, <2>4, EvictFacts DEF after
<1>4. QED
  BY <1>2, <1>3

-----------------------------------------------------------------------------
(* The maps of the broker.                                                  *)

\* What is inductive: the keys of a map are those of its queue.
MapsInv == BrokerOK /\ MapQueued(topics, Topics) /\ MapQueued(patterns, Patterns)

\* A look-up in a map, which adds key k on the next channel if it is missing.
LookUp(m, k) == GetOrInsert(m, k, Len(chan) + 1, Live)

\* Only a look-up changes a map: Broker::publish and Broker::subscribe look a
\* topic up, Broker::subscribe a wildcard.
LEMMA MapSteps ==
    ASSUME BrokerOK, [FanoutNext]_fanoutVars
    PROVE  /\ topics' = topics \/ \E k \in Topics : topics' = LookUp(topics, k)
           /\ patterns' = patterns \/ \E k \in Patterns : patterns' = LookUp(patterns, k)
<1>1. ASSUME NEW p \in Publishers, PublishFetch(p)
      PROVE  patterns' = patterns /\ \E k \in Topics : topics' = LookUp(topics, k)
  <2>1. TopicOf[pub[p].id] \in Topics
    BY <1>1, FanoutAssumption DEF PublishFetch, BrokerOK, PublishersOK, PublisherOK
  <2>2. topics' = LookUp(topics, TopicOf[pub[p].id]) /\ patterns' = patterns
    BY <1>1 DEF PublishFetch, LookUp
  <2>3. QED
    BY <2>1, <2>2
<1>2. ASSUME NEW s \in Subscribers, SubscribeExact(s)
      PROVE  patterns' = patterns /\ \E k \in Topics : topics' = LookUp(topics, k)
  <2>1. FilterOf[s] \in Topics /\ topics' = LookUp(topics, FilterOf[s]) /\ patterns' = patterns
    BY <1>2 DEF SubscribeExact, LookUp
  <2>2. QED
    BY <2>1
<1>3. ASSUME NEW s \in Subscribers, SubscribePattern(s)
      PROVE  topics' = topics /\ \E k \in Patterns : patterns' = LookUp(patterns, k)
  <2>1. FilterOf[s] \in Patterns /\ patterns' = LookUp(patterns, FilterOf[s]) /\ topics' = topics
    BY <1>3 DEF SubscribePattern, LookUp
  <2>2. QED
    BY <2>1
<1>4. ASSUME NEW p \in Publishers,
             \/ \E id \in Ids : PublishBegin(p, id)
             \/ PublishExact(p) \/ PublishLock(p) \/ PublishDone(p)
             \/ \E f \in Patterns : PublishPattern(p, f)
      PROVE  topics' = topics /\ patterns' = patterns
  BY <1>4 DEF PublishBegin, PublishExact, PublishLock, PublishDone, PublishPattern
<1>5. ASSUME NEW s \in Subscribers,
             \/ ScanLock(s) \/ ScanDone(s) \/ Forward(s) \/ Receive(s) \/ End(s)
             \/ ClientReads(s) \/ \E t \in Topics : ScanTopic(s, t)
      PROVE  topics' = topics /\ patterns' = patterns
  BY <1>5 DEF ScanLock, ScanDone, Forward, Receive, End, ClientReads, ScanTopic
<1>6. CASE UNCHANGED fanoutVars
  BY <1>6 DEF fanoutVars
<1>7. QED
  BY <1>1, <1>2, <1>3, <1>4, <1>5, <1>6 DEF FanoutNext, PublishStep, ForwarderStep

\* Every step keeps both maps as they must be.
LEMMA MapsInvStep == MapsInv /\ [FanoutNext]_fanoutVars => MapsInv'
<1> SUFFICES ASSUME MapsInv, [FanoutNext]_fanoutVars PROVE MapsInv'
  OBVIOUS
<1>1. BrokerOK /\ BrokerOK'
  BY BrokerStep DEF MapsInv
<1>2. ASSUME NEW K, NEW m, MapShape(m, K), MapQueued(m, K), NEW k \in K
      PROVE  MapQueued(LookUp(m, k), K)
  BY <1>2, GetOrInsertFacts DEF MapShape, LookUp
<1>3. MapShape(topics, Topics) /\ MapShape(patterns, Patterns)
  BY <1>1 DEF BrokerOK, MapsShaped
<1>4. MapQueued(topics, Topics)'
  <2>1. CASE topics' = topics
    BY <2>1 DEF MapsInv, MapQueued
  <2>2. ASSUME NEW k \in Topics, topics' = LookUp(topics, k) PROVE MapQueued(topics, Topics)'
    <3>1. MapQueued(LookUp(topics, k), Topics)
      BY <1>2, <1>3 DEF MapsInv
    <3> DEFINE after == LookUp(topics, k)
    <3>2. topics' = after /\ MapQueued(after, Topics)
      BY <2>2, <3>1
    <3> HIDE DEF after
    <3>3. QED
      BY <3>2 DEF MapQueued
  <2>3. QED
    BY <1>1, <2>1, <2>2, MapSteps
<1>5. MapQueued(patterns, Patterns)'
  <2>1. CASE patterns' = patterns
    BY <2>1 DEF MapsInv, MapQueued
  <2>2. ASSUME NEW k \in Patterns, patterns' = LookUp(patterns, k) PROVE MapQueued(patterns, Patterns)'
    <3>1. MapQueued(LookUp(patterns, k), Patterns)
      BY <1>2, <1>3 DEF MapsInv
    <3> DEFINE after == LookUp(patterns, k)
    <3>2. patterns' = after /\ MapQueued(after, Patterns)
      BY <2>2, <3>1
    <3> HIDE DEF after
    <3>3. QED
      BY <3>2 DEF MapQueued
  <2>3. QED
    BY <1>1, <2>1, <2>2, MapSteps
<1>6. QED
  BY <1>1, <1>4, <1>5 DEF MapsInv

(***************************************************************************)
(* Both topic maps keep the queue of their keys, each once, whatever is    *)
(* looked up, inserted and evicted, for any capacity, topics and           *)
(* subscribers (TopicMap::get_or_insert, touch, evict_over_capacity).      *)
(***************************************************************************)
THEOREM MapsStayConsistent == FanoutSpec => []MapsConsistent
<1>1. FanoutInit => MapsInv
  <2> SUFFICES ASSUME FanoutInit PROVE MapsInv
    OBVIOUS
  <2>1. topics = EmptyMap /\ patterns = EmptyMap
    BY DEF FanoutInit
  <2>2. ASSUME NEW K PROVE MapQueued(EmptyMap, K)
    BY DEF MapQueued, EmptyMap, Distinct, Elements
  <2>3. QED
    BY <2>1, <2>2, BrokerInit DEF MapsInv
<1>2. MapsInv => MapsConsistent
  BY QueuedIsConsistent DEF MapsInv, MapsConsistent
<1>3. QED
  BY <1>1, <1>2, MapsInvStep, PTL DEF FanoutSpec

-----------------------------------------------------------------------------
(* The current value of a topic.  The invariant follows a retained message  *)
(* from the channel of its topic to every forwarder that matches the topic: *)
(* one that has scanned the topic holds the message or will receive it, or  *)
(* the publish that stored it has yet to walk the patterns.                 *)

\* What a forwarder has sent, is sending, and will receive.
Held(s) ==
    Elements(sub[s].out) \cup Elements(sub[s].backlog)
    \cup {Sent(sub[s].chan)[i] : i \in sub[s].pos + 1 .. Len(Sent(sub[s].chan))}

\* One of the publishes will still send id on the channel of this forwarder's pattern.
OnItsWay(publishes, s, id) ==
    \E p \in Publishers :
        /\ publishes[p].id = id
        /\ publishes[p].pc = "lock" \/ FilterOf[s] \in publishes[p].todo

\* A topic's channel is its own: no other topic has it, and what it retains and
\* what is about to be sent on it was published on that topic.
OwnChannels ==
    /\ \A t, u \in DOMAIN topics.map : topics.map[t] = topics.map[u] => t = u
    /\ \A t \in DOMAIN topics.map : chan[topics.map[t]].retained # None =>
          TopicOf[chan[topics.map[t]].retained] = t
    /\ \A p \in Publishers, t \in DOMAIN topics.map :
          pub[p].pc = "exact" /\ pub[p].chan = topics.map[t] => TopicOf[pub[p].id] = t

\* A forwarder, of a wildcard too: a subscribe that follows no lag finds nothing
\* delivered, and the topics it has left to scan are still there.
TaskOK(s) ==
    /\ sub[s].out \in Seq(Ids) /\ sub[s].backlog \in Seq(Ids) /\ sub[s].last \in Ids \cup {None}
    /\ sub[s].pc \in {"lock", "scan", "run"} => sub[s].pos \in 0 .. Len(Sent(sub[s].chan))
    /\ sub[s].pc = "new" => sub[s].last = None
    /\ sub[s].pc \in {"lock", "scan"} /\ ~ sub[s].lagged => sub[s].last = None
    /\ sub[s].pc = "scan" => sub[s].scan \subseteq DOMAIN topics.map

ExactShows(s) ==
    Exact(s) /\ sub[s].pc = "run" /\ ~ sub[s].lagged /\ chan[sub[s].chan].retained # None
    => chan[sub[s].chan].retained \in Held(s)

\* The matching topics a wildcard forwarder is done with.
Scanned(s) ==
    {t \in DOMAIN topics.map \cap Matches[FilterOf[s]] : sub[s].pc = "scan" => t \notin sub[s].scan}

\* The retained message of t is held, or on its way.
Shows(s, t) ==
    chan[topics.map[t]].retained # None =>
        \/ chan[topics.map[t]].retained \in Held(s)
        \/ OnItsWay(pub, s, chan[topics.map[t]].retained)

WildcardShows(s) ==
    ~ Exact(s) /\ sub[s].pc \in {"scan", "run"} /\ ~ sub[s].lagged /\ Registered(s)
    => \A t \in Scanned(s) : Shows(s, t)

ForwarderShows(s) == TaskOK(s) /\ ExactShows(s) /\ WildcardShows(s)

CurrentInv == BrokerOK /\ OwnChannels /\ \A s \in Subscribers : ForwarderShows(s)

\* Sorting keeps the elements of a sequence of numbers: no two entries have the
\* same number of entries before them, so every place is taken.
LEMMA SortedNumbers ==
    ASSUME NEW b \in Seq(Nat)
    PROVE  SortedById(b) \in Seq(Nat) /\ Elements(SortedById(b)) = Elements(b)
<1> DEFINE n == Len(b)
           D == 1 .. n
           rank(i) == Cardinality(Before(b, i))
           f == [i \in D |-> rank(i)]
           pick == [k \in D |-> CHOOSE i \in D : rank(i) = k - 1]
           a == [k \in D |-> b[CHOOSE i \in D : rank(i) = k - 1]]
<1>1. n \in Nat /\ DOMAIN b = D /\ \A i \in D : b[i] \in Nat
  OBVIOUS
<1>2. IsFiniteSet(D) /\ Cardinality(D) = n
  <2>1. IsFiniteSet(1 .. n) /\ Cardinality(1 .. n) = IF 1 > n THEN 0 ELSE n - 1 + 1
    <3>1. 1 \in Int /\ n \in Int
      BY <1>1
    <3>2. QED
      BY <3>1, FS_Interval
  <2>2. QED
    BY <1>1, <2>1
<1>3. \A i \in D : /\ Before(b, i) \in SUBSET (D \ {i})
                   /\ \A j \in D : j \in Before(b, i) <=> (b[j] < b[i] \/ (b[j] = b[i] /\ j < i))
  <2> SUFFICES ASSUME NEW i \in D
               PROVE  /\ Before(b, i) \in SUBSET (D \ {i})
                      /\ \A j \in D : j \in Before(b, i) <=> (b[j] < b[i] \/ (b[j] = b[i] /\ j < i))
    OBVIOUS
  <2>1. Before(b, i) = {j \in D : b[j] < b[i] \/ (b[j] = b[i] /\ j < i)}
    BY <1>1 DEF Before
  <2>2. ~ (b[i] < b[i]) /\ ~ (i < i)
    BY <1>1
  <2>3. QED
    BY <2>1, <2>2
<1>4. ASSUME NEW i \in D
      PROVE  IsFiniteSet(Before(b, i)) /\ rank(i) \in Nat /\ rank(i) < n
  <2>1. IsFiniteSet(D \ {i}) /\ Cardinality(D \ {i}) = n - 1
    BY <1>2, FS_RemoveElement
  <2>2. Before(b, i) \in SUBSET (D \ {i})
    BY <1>3
  <2>3. IsFiniteSet(Before(b, i)) /\ Cardinality(Before(b, i)) <= n - 1
    BY <2>1, <2>2, FS_Subset
  <2>4. Cardinality(Before(b, i)) \in Nat
    BY <2>3, FS_CardinalityType
  <2>5. QED
    BY <1>1, <2>3, <2>4
<1>5. ASSUME NEW i \in D, NEW j \in D, i \in Before(b, j) PROVE rank(i) < rank(j)
  <2>1. Before(b, i) \cup {i} \in SUBSET Before(b, j) /\ i \notin Before(b, i)
    <3>1. \A k \in D : k \in Nat /\ b[k] \in Nat
      BY <1>1
    <3>2. \A k \in D : k \in Before(b, i) => k \in Before(b, j)
      <4>1. ASSUME NEW k \in D, k \in Before(b, i) PROVE k \in Before(b, j)
        <5>1. /\ b[k] < b[i] \/ (b[k] = b[i] /\ k < i)
              /\ b[i] < b[j] \/ (b[i] = b[j] /\ i < j)
          BY <1>3, <1>5, <4>1
        <5>2. b[k] < b[j] \/ (b[k] = b[j] /\ k < j)
          BY <3>1, <5>1
        <5>3. QED
          BY <1>3, <5>2
      <4>2. QED
        BY <4>1
    <3>3. Before(b, i) \in SUBSET D /\ i \notin Before(b, i)
      BY <1>3
    <3>4. QED
      BY <1>5, <3>2, <3>3
  <2>2. /\ IsFiniteSet(Before(b, i)) /\ IsFiniteSet(Before(b, j))
        /\ rank(i) \in Nat /\ rank(j) \in Nat
    BY <1>4
  <2>3. Cardinality(Before(b, i) \cup {i}) = rank(i) + 1
    BY <2>1, <2>2, FS_AddElement
  <2>4. Cardinality(Before(b, i) \cup {i}) <= rank(j)
    BY <2>1, <2>2, FS_Subset
  <2>5. QED
    BY <2>2, <2>3, <2>4
<1>6. ASSUME NEW i \in D, NEW j \in D, rank(i) = rank(j) PROVE i = j
  <2>1. rank(i) \in Nat
    BY <1>4
  <2>2. i \notin Before(b, j) /\ j \notin Before(b, i)
    <3> HIDE DEF rank
    <3>1. QED
      BY <1>5, <1>6, <2>1
  <2>3. i \in Nat /\ j \in Nat /\ b[i] \in Nat /\ b[j] \in Nat
    BY <1>1
  <2>4. ~ (b[i] < b[j] \/ (b[i] = b[j] /\ i < j)) /\ ~ (b[j] < b[i] \/ (b[j] = b[i] /\ j < i))
    BY <1>3, <2>2
  <2>5. QED
    BY <2>3, <2>4
<1> HIDE DEF rank
<1>7. \A i \in D : rank(i) \in 0 .. n - 1
  BY <1>1, <1>4
<1>8. f \in Injection(D, 0 .. n - 1)
  <2>1. f \in [D -> 0 .. n - 1]
    BY <1>7
  <2>2. \A i, j \in D : f[i] = f[j] => i = j
    <3>1. \A i \in D : f[i] = rank(i)
      OBVIOUS
    <3>2. QED
      BY <1>6, <3>1
  <2>3. QED
    BY <2>1, <2>2 DEF Injection, IsInjective
<1>9. IsFiniteSet(0 .. n - 1) /\ Cardinality(0 .. n - 1) = n
  <2>1. /\ IsFiniteSet(0 .. n - 1)
        /\ Cardinality(0 .. n - 1) = IF 0 > n - 1 THEN 0 ELSE (n - 1) - 0 + 1
    <3>1. 0 \in Int /\ n - 1 \in Int
      BY <1>1
    <3>2. QED
      BY <3>1, FS_Interval
  <2>2. QED
    BY <1>1, <2>1
<1>10. f \in Surjection(D, 0 .. n - 1)
  BY <1>2, <1>8, <1>9, FS_Injection
<1>11. ASSUME NEW k \in D PROVE pick[k] \in D /\ rank(pick[k]) = k - 1
  <2>1. k - 1 \in 0 .. n - 1
    BY <1>1
  <2>2. \E i \in D : rank(i) = k - 1
    BY <1>10, <2>1 DEF Surjection
  <2>3. QED
    BY <2>2
<1>12. a = SortedById(b)
  BY <1>1 DEF SortedById, rank
<1>13. a = [k \in D |-> b[pick[k]]]
  OBVIOUS
<1> HIDE DEF a, pick
<1>14. a \in [D -> Nat]
  BY <1>1, <1>11, <1>13
<1>15. a \in Seq(Nat) /\ Len(a) = n
  BY <1>1, <1>14
<1>16. Elements(a) \subseteq Elements(b)
  BY <1>11, <1>13, <1>15 DEF Elements
<1>17. ASSUME NEW i \in D PROVE \E k \in D : a[k] = b[i]
  <2>1. rank(i) + 1 \in D /\ (rank(i) + 1) - 1 = rank(i)
    BY <1>1, <1>7
  <2>2. pick[rank(i) + 1] \in D /\ rank(pick[rank(i) + 1]) = rank(i)
    BY <1>11, <2>1
  <2>3. pick[rank(i) + 1] = i
    BY <1>6, <2>2
  <2>4. QED
    BY <1>13, <2>1, <2>3
<1>18. Elements(b) \subseteq Elements(a)
  BY <1>15, <1>17 DEF Elements
<1>19. QED
  BY <1>12, <1>15, <1>16, <1>18

\* The sort of a backlog keeps its entries.
LEMMA SortedFacts ==
    ASSUME NEW b \in Seq(Ids)
    PROVE  SortedById(b) \in Seq(Ids) /\ Elements(SortedById(b)) = Elements(b)
<1> DEFINE a == SortedById(b)
<1>1. b \in Seq(Nat) /\ Elements(b) \subseteq Ids
  <2>1. Len(b) \in Nat /\ b = [i \in 1 .. Len(b) |-> b[i]] /\ \A i \in 1 .. Len(b) : b[i] \in Ids
    OBVIOUS
  <2>2. \A x \in Ids : x \in Nat
    BY FanoutAssumption
  <2>3. b \in [1 .. Len(b) -> Nat]
    BY <2>1, <2>2, Zenon
  <2>4. b \in Seq(Nat)
    BY <2>1, <2>3
  <2>5. QED
    BY <2>1, <2>4 DEF Elements
<1>2. a \in Seq(Nat) /\ Elements(a) = Elements(b)
  BY <1>1, SortedNumbers
<1> HIDE DEF a
<1>3. Len(a) \in Nat /\ a = [i \in 1 .. Len(a) |-> a[i]] /\ \A i \in 1 .. Len(a) : a[i] \in Ids
  <2>1. Len(a) \in Nat /\ a = [i \in 1 .. Len(a) |-> a[i]]
    BY <1>2
  <2>2. \A i \in 1 .. Len(a) : a[i] \in Elements(a)
    BY DEF Elements
  <2>3. QED
    BY <1>1, <1>2, <2>1, <2>2
<1>4. a \in [1 .. Len(a) -> Ids]
  BY <1>3, Zenon
<1>5. a \in Seq(Ids)
  BY <1>3, <1>4
<1>6. QED
  BY <1>2, <1>5 DEF a

\* What was sent stays where it is.
LEMMA SentKept ==
    ASSUME ChannelsOK, ChannelStep, NEW c \in 1 .. Len(chan)
    PROVE  /\ Len(Sent(c)) \in Nat /\ Len(chan'[c].sent) \in Nat
           /\ Len(Sent(c)) <= Len(chan'[c].sent) /\ c \in 1 .. Len(chan')
           /\ \A i \in 1 .. Len(Sent(c)) : chan'[c].sent[i] = Sent(c)[i]
<1>1. /\ Len(chan) \in Nat /\ Len(chan') \in Nat /\ Len(chan) <= Len(chan')
      /\ Len(Sent(c)) \in Nat /\ Len(chan'[c].sent) \in Nat
      /\ Len(Sent(c)) <= Len(chan'[c].sent)
  BY ChannelsGrow
<1>2. c \in 1 .. Len(chan')
  BY <1>1
<1>3. ASSUME chan'[c] = chan[c] PROVE \A i \in 1 .. Len(Sent(c)) : chan'[c].sent[i] = Sent(c)[i]
  BY <1>3 DEF Sent
<1>4. ASSUME NEW id \in Ids, SendsOn(c, id)
      PROVE  \A i \in 1 .. Len(Sent(c)) : chan'[c].sent[i] = Sent(c)[i]
  <2>1. chan'[c].sent = Append(Sent(c), id) /\ Sent(c) \in Seq(Ids)
    BY <1>4, SendsOnFacts, ChannelFacts DEF Sent
  <2>2. \A i \in 1 .. Len(Sent(c)) : Append(Sent(c), id)[i] = Sent(c)[i]
    BY <2>1, AppendFacts
  <2>3. QED
    BY <2>1, <2>2
<1>5. ASSUME NEW d \in 1 .. Len(chan), NEW id \in Ids, SendsOn(d, id), d # c
      PROVE  chan'[c] = chan[c]
  BY <1>5, SendsOnFacts
<1>6. Opens => chan'[c] = chan[c]
  BY OpensFacts
<1>7. QED
  BY <1>1, <1>2, <1>3, <1>4, <1>5, <1>6 DEF ChannelStep

\* A forwarder that does not move holds what it held.
LEMMA HeldKept ==
    ASSUME BrokerOK, ChannelStep, NEW s \in Subscribers, TaskOK(s), sub'[s] = sub[s],
           sub[s].pc \in {"lock", "scan", "run"}
    PROVE  /\ Held(s) \subseteq Held(s)' /\ sub[s].chan \in 1 .. Len(chan)
           /\ sub[s].pos \in 0 .. Len(chan'[sub[s].chan].sent)
<1>1. PICK c \in 1 .. Len(chan) : c = sub[s].chan
  BY DEF BrokerOK, SubscribersOK, SubscriberOK
<1>2. /\ Len(Sent(c)) \in Nat /\ Len(chan'[c].sent) \in Nat /\ Len(Sent(c)) <= Len(chan'[c].sent)
      /\ \A i \in 1 .. Len(Sent(c)) : chan'[c].sent[i] = Sent(c)[i]
  BY SentKept DEF BrokerOK
<1>3. PICK k \in 0 .. Len(Sent(c)) : k = sub[s].pos
  BY <1>1 DEF TaskOK
<1>4. ASSUME NEW i \in k + 1 .. Len(Sent(c))
      PROVE  i \in k + 1 .. Len(chan'[c].sent) /\ chan'[c].sent[i] = Sent(c)[i]
  BY <1>2
<1>5. {Sent(c)[i] : i \in k + 1 .. Len(Sent(c))}
      \subseteq {chan'[c].sent[i] : i \in k + 1 .. Len(chan'[c].sent)}
  BY <1>4
<1>6. Held(s) = Elements(sub[s].out) \cup Elements(sub[s].backlog)
                \cup {Sent(c)[i] : i \in k + 1 .. Len(Sent(c))}
  BY <1>1, <1>3 DEF Held
<1>7. Held(s)' = Elements(sub[s].out) \cup Elements(sub[s].backlog)
                \cup {chan'[c].sent[i] : i \in k + 1 .. Len(chan'[c].sent)}
  BY <1>1, <1>3 DEF Held, Sent, Elements
<1>8. k \in 0 .. Len(chan'[c].sent)
  BY <1>2
<1>9. QED
  BY <1>1, <1>3, <1>5, <1>6, <1>7, <1>8

\* A map after get_or_insert(k) or after nothing: at most k is new, and its channel
\* is the one just opened.
MapGrows(m, n, k) ==
    \A x \in DOMAIN n.map :
        \/ x \in DOMAIN m.map /\ n.map[x] = m.map[x]
        \/ x = k /\ n.map[x] = Len(chan) + 1 /\ Opens

LEMMA LookUpGrows ==
    ASSUME NEW K, NEW m, MapShape(m, K), NEW k \in K, chan' = WithChannelFor(m, k), NEW live
    PROVE  /\ MapGrows(m, GetOrInsert(m, k, Len(chan) + 1, live), k)
           /\ chan' = chan \/ Opens
           /\ \/ ChannelFor(m, k, Len(chan) + 1) = Len(chan) + 1 /\ Opens
              \/ k \in DOMAIN m.map /\ ChannelFor(m, k, Len(chan) + 1) = m.map[k]
<1>1. k \notin DOMAIN m.map => Opens
  BY DEF WithChannelFor, Opens
<1>2. QED
  BY <1>1, GetOrInsertChans DEF MapGrows, WithChannelFor, ChannelFor

\* A channel just opened retains nothing.
LEMMA OpenedRetains ==
    ASSUME ChannelsOK, Opens
    PROVE  chan'[Len(chan) + 1].retained = None
<1>1. chan \in Seq(Channel) /\ NewChannel \in Channel
  BY NewChannelOK DEF ChannelsOK
<1>2. chan'[Len(chan) + 1] = NewChannel
  BY <1>1, AppendFacts DEF Opens
<1>3. QED
  BY <1>2 DEF NewChannel

\* What a topic retains after a step that sends nothing, it retained before.
LEMMA RetainedBefore ==
    ASSUME BrokerOK, chan' = chan \/ Opens, NEW k, MapGrows(topics, topics', k),
           NEW t \in DOMAIN topics'.map, chan'[topics'.map[t]].retained # None
    PROVE  /\ t \in DOMAIN topics.map /\ topics'.map[t] = topics.map[t]
           /\ chan'[topics'.map[t]].retained = chan[topics.map[t]].retained
<1>1. t \in DOMAIN topics.map /\ topics'.map[t] = topics.map[t]
  BY OpenedRetains DEF BrokerOK, MapGrows
<1>2. topics.map[t] \in 1 .. Len(chan)
  BY <1>1 DEF BrokerOK, MapsShaped, MapShape
<1>3. chan'[topics.map[t]] = chan[topics.map[t]]
  BY <1>2, OpenedFacts
<1>4. QED
  BY <1>1, <1>3

\* Channels stay their topics' own when nothing is sent.
LEMMA OwnQuiet ==
    ASSUME BrokerOK, OwnChannels, chan' = chan \/ Opens, NEW k, MapGrows(topics, topics', k),
           \A p \in Publishers : pub'[p].pc = "exact" =>
              \/ pub'[p] = pub[p]
              \/ /\ TopicOf[pub'[p].id] = k
                 /\ \/ pub'[p].chan = Len(chan) + 1
                    \/ k \in DOMAIN topics.map /\ pub'[p].chan = topics.map[k]
    PROVE  OwnChannels'
<1>1. /\ Len(chan) \in Nat /\ \A t \in DOMAIN topics.map : topics.map[t] \in 1 .. Len(chan)
      /\ \A p \in Publishers : pub[p].pc = "exact" => pub[p].chan \in 1 .. Len(chan)
  BY DEF BrokerOK, ChannelsOK, MapsShaped, MapShape, PublishersOK, PublisherOK
<1>2. Len(chan) + 1 \notin 1 .. Len(chan)
  BY <1>1
<1>3. \A t, u \in DOMAIN topics'.map : topics'.map[t] = topics'.map[u] => t = u
  BY <1>1, <1>2 DEF OwnChannels, MapGrows
<1>4. \A t \in DOMAIN topics'.map : chan'[topics'.map[t]].retained # None =>
          TopicOf[chan'[topics'.map[t]].retained] = t
  BY RetainedBefore DEF OwnChannels
<1>5. ASSUME NEW p \in Publishers, NEW t \in DOMAIN topics'.map,
             pub'[p].pc = "exact", pub'[p].chan = topics'.map[t]
      PROVE  TopicOf[pub'[p].id] = t
  <2>1. CASE pub'[p] = pub[p]
    BY <1>1, <1>2, <1>5, <2>1 DEF OwnChannels, MapGrows
  <2>2. CASE pub'[p] # pub[p]
    BY <1>1, <1>2, <1>5, <2>2 DEF OwnChannels, MapGrows
  <2>3. QED
    BY <2>1, <2>2
<1>6. QED
  BY <1>3, <1>4, <1>5 DEF OwnChannels

\* A wildcard forwarder whose channel is the registered one had it registered before.
LEMMA RegisteredBefore ==
    ASSUME BrokerOK, NEW s \in Subscribers, ~ Exact(s), sub[s].pc \in {"lock", "scan", "run"},
           sub'[s].chan = sub[s].chan, NEW k, MapGrows(patterns, patterns', k), Registered(s)'
    PROVE  Registered(s)
<1>1. sub[s].chan \in 1 .. Len(chan) /\ Len(chan) \in Nat
  BY DEF BrokerOK, SubscribersOK, SubscriberOK, ChannelsOK
<1>2. sub[s].chan # Len(chan) + 1
  BY <1>1
<1>3. FilterOf[s] \in DOMAIN patterns'.map /\ patterns'.map[FilterOf[s]] = sub[s].chan
  BY DEF Registered, Exact
<1>4. FilterOf[s] \in DOMAIN patterns.map /\ patterns.map[FilterOf[s]] = sub[s].chan
  BY <1>2, <1>3 DEF MapGrows
<1>5. QED
  BY <1>4 DEF Registered

\* A forwarder that does not move, in a step that sends nothing.
LEMMA QuietShows ==
    ASSUME CurrentInv, chan' = chan \/ Opens, NEW s \in Subscribers, sub'[s] = sub[s],
           NEW k, MapGrows(topics, topics', k), NEW f, MapGrows(patterns, patterns', f),
           sub[s].pc = "scan" => topics' = topics,
           \A t \in Scanned(s) : LET r == chan[topics.map[t]].retained
                                 IN  ~ Exact(s) /\ Registered(s) /\ r # None /\ OnItsWay(pub, s, r)
                                     => OnItsWay(pub', s, r)
    PROVE  ForwarderShows(s)'
<1>1. BrokerOK /\ TaskOK(s) /\ ExactShows(s) /\ WildcardShows(s) /\ ChannelStep
  BY DEF CurrentInv, ForwarderShows, ChannelStep
<1>2. ASSUME sub[s].pc \in {"lock", "scan", "run"}
      PROVE  /\ Held(s) \subseteq Held(s)' /\ sub[s].chan \in 1 .. Len(chan)
             /\ sub[s].pos \in 0 .. Len(chan'[sub[s].chan].sent)
             /\ chan'[sub[s].chan] = chan[sub[s].chan]
  BY <1>1, <1>2, HeldKept, OpenedFacts
<1>3. TaskOK(s)'
  BY <1>1, <1>2 DEF TaskOK, Sent
<1>4. ExactShows(s)'
  BY <1>1, <1>2 DEF ExactShows, Exact
<1>5. WildcardShows(s)'
  <2> SUFFICES ASSUME ~ Exact(s), sub[s].pc \in {"scan", "run"}, ~ sub[s].lagged, Registered(s)',
                      NEW t \in Scanned(s)', chan'[topics'.map[t]].retained # None
               PROVE  Shows(s, t)'
    BY DEF WildcardShows, Exact, Shows
  <2>1. Registered(s)
    BY <1>1, RegisteredBefore
  <2>2. /\ t \in DOMAIN topics'.map /\ t \in Matches[FilterOf[s]]
        /\ sub[s].pc = "scan" => t \notin sub[s].scan
    BY DEF Scanned
  <2>3. /\ t \in DOMAIN topics.map
        /\ chan'[topics'.map[t]].retained = chan[topics.map[t]].retained
    BY <1>1, <2>2, RetainedBefore
  <2>4. t \in Scanned(s)
    BY <2>2, <2>3 DEF Scanned
  <2>5. chan[topics.map[t]].retained \in Held(s) \/ OnItsWay(pub, s, chan[topics.map[t]].retained)
    BY <1>1, <2>1, <2>3, <2>4 DEF WildcardShows, Shows
  <2>6. \/ chan[topics.map[t]].retained \in Held(s)'
        \/ OnItsWay(pub', s, chan[topics.map[t]].retained)
    BY <1>2, <2>1, <2>3, <2>4, <2>5
  <2>7. QED
    BY <2>3, <2>6 DEF Shows
<1>6. QED
  BY <1>3, <1>4, <1>5 DEF ForwarderShows

\* What a channel retains after a message was sent on it.
LEMMA SentRetains ==
    ASSUME ChannelsOK, NEW c \in 1 .. Len(chan), NEW id \in Ids, NEW retain,
           chan' = [chan EXCEPT ![c] = ChannelPublish(chan[c], id, retain)]
    PROVE  /\ retain = "no" => chan'[c].retained = chan[c].retained
           /\ chan'[c].retained \in {chan[c].retained, None, id}
<1>1. chan'[c] = ChannelPublish(chan[c], id, retain)
  BY DEF ChannelsOK
<1>2. QED
  BY <1>1 DEF ChannelPublish

\* A forwarder while a message is sent: its own channel brings it the message, and
\* of what other channels retain it must be on its way.
LEMMA SendShows ==
    ASSUME CurrentInv, NEW c \in 1 .. Len(chan), NEW id \in Ids, SendsOn(c, id),
           UNCHANGED <<topics, patterns, sub>>, NEW s \in Subscribers,
           chan'[c].retained \in {chan[c].retained, None, id},
           ~ Exact(s) /\ chan'[c].retained # chan[c].retained => OnItsWay(pub', s, id),
           \A r \in Ids : ~ Exact(s) /\ Registered(s) /\ OnItsWay(pub, s, r)
              => OnItsWay(pub', s, r) \/ (r = id /\ c = sub[s].chan)
    PROVE  ForwarderShows(s)'
<1>1. BrokerOK /\ ChannelsOK /\ TaskOK(s) /\ ExactShows(s) /\ WildcardShows(s) /\ ChannelStep
  BY DEF CurrentInv, ForwarderShows, ChannelStep, BrokerOK
<1>2. ASSUME sub[s].pc \in {"lock", "scan", "run"}
      PROVE  /\ Held(s) \subseteq Held(s)' /\ sub[s].chan \in 1 .. Len(chan)
             /\ sub[s].pos \in 0 .. Len(chan'[sub[s].chan].sent)
  BY <1>1, <1>2, HeldKept
<1>3. /\ \A d \in 1 .. Len(chan) \ {c} : chan'[d] = chan[d]
      /\ chan'[c].sent = Append(Sent(c), id)
  BY <1>1, SendsOnFacts DEF Sent
<1>4. ASSUME sub[s].pc \in {"lock", "scan", "run"}, sub[s].chan = c PROVE id \in Held(s)'
  <2>1. Sent(c) \in Seq(Ids) /\ Len(Sent(c)) \in Nat
    BY <1>1, ChannelFacts DEF Sent
  <2>2. Len(chan'[c].sent) = Len(Sent(c)) + 1 /\ chan'[c].sent[Len(Sent(c)) + 1] = id
    BY <1>3, <2>1, AppendFacts
  <2>3. sub[s].pos \in 0 .. Len(Sent(c))
    BY <1>1, <1>4 DEF TaskOK
  <2>4. Len(Sent(c)) + 1 \in sub[s].pos + 1 .. Len(chan'[c].sent)
    BY <2>1, <2>2, <2>3
  <2>5. id \in {chan'[c].sent[i] : i \in sub[s].pos + 1 .. Len(chan'[c].sent)}
    BY <2>2, <2>4
  <2>6. QED
    BY <1>4, <2>5 DEF Held, Sent
<1>5. TaskOK(s)'
  BY <1>1, <1>2 DEF TaskOK, Sent
<1>6. ExactShows(s)'
  <2> SUFFICES ASSUME Exact(s), sub[s].pc = "run", ~ sub[s].lagged,
                      chan'[sub[s].chan].retained # None
               PROVE  chan'[sub[s].chan].retained \in Held(s)'
    BY DEF ExactShows, Exact
  <2>1. chan[sub[s].chan].retained # None => chan[sub[s].chan].retained \in Held(s)
    BY <1>1 DEF ExactShows
  <2>2. CASE sub[s].chan = c
    BY <1>2, <1>4, <2>1, <2>2
  <2>3. CASE sub[s].chan # c
    BY <1>2, <1>3, <2>1, <2>3
  <2>4. QED
    BY <2>2, <2>3
<1>7. WildcardShows(s)'
  <2> SUFFICES ASSUME ~ Exact(s), sub[s].pc \in {"scan", "run"}, ~ sub[s].lagged, Registered(s),
                      NEW t \in Scanned(s), chan'[topics.map[t]].retained # None
               PROVE  \/ chan'[topics.map[t]].retained \in Held(s)'
                      \/ OnItsWay(pub', s, chan'[topics.map[t]].retained)
    <3>1. Scanned(s)' = Scanned(s) /\ Registered(s)' = Registered(s)
      BY DEF Scanned, Registered, Exact
    <3>2. ASSUME NEW t PROVE Shows(s, t)' <=> (chan'[topics.map[t]].retained # None =>
                                \/ chan'[topics.map[t]].retained \in Held(s)'
                                \/ OnItsWay(pub', s, chan'[topics.map[t]].retained))
      BY DEF Shows
    <3>3. QED
      BY <3>1, <3>2 DEF WildcardShows, Exact
  <2> DEFINE d == topics.map[t]
             r == chan[d].retained
  <2>1. d \in 1 .. Len(chan)
    BY <1>1 DEF BrokerOK, MapsShaped, MapShape, Scanned
  <2>2. r \in Ids \cup {None}
    BY <1>1, <2>1, ChannelFacts
  <2>3. r # None => r \in Held(s) \/ OnItsWay(pub, s, r)
    BY <1>1 DEF WildcardShows, Shows
  <2> HIDE DEF d, r
  <2>4. r # None => r \in Held(s)' \/ OnItsWay(pub', s, r)
    BY <1>2, <1>4, <2>2, <2>3
  <2>5. chan'[d].retained \in {r, None, id} /\ (chan'[d].retained # r => OnItsWay(pub', s, id))
    BY <1>3, <2>1 DEF r
  <2>6. CASE chan'[d].retained = r
    BY <2>4, <2>6 DEF d
  <2>7. CASE chan'[d].retained # r
    BY <2>5, <2>7 DEF d
  <2>8. QED
    BY <2>6, <2>7
<1>8. QED
  BY <1>5, <1>6, <1>7 DEF ForwarderShows

\* A map that does not change.
LEMMA SameMaps ==
    ASSUME UNCHANGED <<topics, patterns>>, NEW k
    PROVE  MapGrows(topics, topics', k) /\ MapGrows(patterns, patterns', k)
  BY DEF MapGrows

\* One publisher moves that has nothing more to send to patterns.
LEMMA OthersOnTheirWay ==
    ASSUME NEW p \in Publishers, \A q \in Publishers : q # p => pub'[q] = pub[q],
           pub[p].pc # "lock", pub[p].todo = {}, NEW s, NEW id, OnItsWay(pub, s, id)
    PROVE  OnItsWay(pub', s, id)
  BY DEF OnItsWay

\* The steps of Broker::publish that look nothing up and send nothing.
LEMMA CurrentPublishQuiet ==
    ASSUME CurrentInv, NEW p \in Publishers,
           (\E id \in Ids : PublishBegin(p, id)) \/ PublishLock(p) \/ PublishDone(p)
    PROVE  OwnChannels' /\ \A s \in Subscribers : ForwarderShows(s)'
<1>1. /\ pub[p] \in PubTask /\ PublisherOK(p) /\ pub \in [Publishers -> PubTask]
      /\ BrokerOK /\ OwnChannels
  BY DEF CurrentInv, BrokerOK, PublishersOK
<1>2. UNCHANGED <<topics, patterns, chan, sub>>
  BY DEF PublishBegin, PublishLock, PublishDone
<1>3. \A q \in Publishers : q # p => pub'[q] = pub[q]
  BY <1>1 DEF PublishBegin, PublishLock, PublishDone
<1>4. pub'[p].pc = "exact" => pub'[p] = pub[p]
  <2>1. ASSUME NEW id \in Ids, PublishBegin(p, id) PROVE pub'[p].pc = "exact" => pub'[p] = pub[p]
    BY <1>1, <2>1 DEF PublishBegin, PubTask
  <2>2. CASE PublishLock(p)
    BY <1>1, <2>2 DEF PublishLock, PubTask
  <2>3. CASE PublishDone(p)
    BY <1>1, <2>3 DEF PublishDone, PubTask
  <2>4. QED
    BY <2>1, <2>2, <2>3
<1>5. OwnChannels'
  <2>1. MapGrows(topics, topics', p)
    BY <1>2, SameMaps
  <2>2. \A q \in Publishers : pub'[q].pc = "exact" => pub'[q] = pub[q]
    BY <1>3, <1>4
  <2>3. chan' = chan
    BY <1>2
  <2>4. QED
    BY <1>1, <2>1, <2>2, <2>3, OwnQuiet
<1>6. ASSUME NEW s \in Subscribers, NEW t \in Scanned(s), ~ Exact(s), Registered(s),
             chan[topics.map[t]].retained # None,
             OnItsWay(pub, s, chan[topics.map[t]].retained)
      PROVE  OnItsWay(pub', s, chan[topics.map[t]].retained)
  <2> DEFINE r == chan[topics.map[t]].retained
  <2>1. ASSUME NEW id \in Ids, PublishBegin(p, id) PROVE OnItsWay(pub', s, r)
    <3>1. pub[p].pc # "lock" /\ pub[p].todo = {}
      BY <1>1, <2>1 DEF PublishBegin, PublisherOK
    <3>2. QED
      BY <1>3, <1>6, <3>1, OthersOnTheirWay
  <2>2. CASE PublishDone(p)
    <3>1. pub[p].pc # "lock" /\ pub[p].todo = {}
      BY <2>2 DEF PublishDone
    <3>2. QED
      BY <1>3, <1>6, <3>1, OthersOnTheirWay
  <2>3. CASE PublishLock(p)
    <3>1. PICK q \in Publishers : pub[q].id = r /\ (pub[q].pc = "lock" \/ FilterOf[s] \in pub[q].todo)
      BY <1>6 DEF OnItsWay
    <3>2. TopicOf[r] = t /\ t \in Matches[FilterOf[s]]
      BY <1>1, <1>6 DEF OwnChannels, Scanned
    <3>3. FilterOf[s] \in DOMAIN patterns.map
      BY <1>6 DEF Registered
    <3> HIDE DEF r
    <3>4. CASE q = p
      <4> DEFINE todo == {f \in DOMAIN patterns.map : TopicOf[pub[p].id] \in Matches[f]}
      <4>1. FilterOf[s] \in todo
        BY <3>1, <3>2, <3>3, <3>4
      <4>2. pub' = [pub EXCEPT ![p].pc = "patterns", ![p].todo = todo]
        BY <2>3 DEF PublishLock
      <4> HIDE DEF todo
      <4>3. pub'[p].id = r /\ pub'[p].todo = todo
        BY <1>1, <3>1, <3>4, <4>2 DEF PubTask
      <4>4. QED
        BY <4>1, <4>3 DEF OnItsWay, r
    <3>5. CASE q # p
      BY <1>3, <3>1, <3>5 DEF OnItsWay, r
    <3>6. QED
      BY <3>4, <3>5
  <2>4. QED
    BY <2>1, <2>2, <2>3
<1>7. ASSUME NEW s \in Subscribers PROVE ForwarderShows(s)'
  <2>1. MapGrows(topics, topics', p) /\ MapGrows(patterns, patterns', p)
    BY <1>2, SameMaps
  <2>2. chan' = chan /\ sub'[s] = sub[s] /\ topics' = topics
    BY <1>2
  <2>3. QED
    BY <1>6, <2>1, <2>2, QuietShows
<1>8. QED
  BY <1>5, <1>7

\* The channel of the topic is looked up or opened; nobody scans the topics.
LEMMA CurrentFetch ==
    ASSUME CurrentInv, NEW p \in Publishers, PublishFetch(p)
    PROVE  OwnChannels' /\ \A s \in Subscribers : ForwarderShows(s)'
<1> DEFINE t == TopicOf[pub[p].id]
           c == ChannelFor(topics, t, Len(chan) + 1)
<1>1. /\ pub[p] \in PubTask /\ PublisherOK(p) /\ pub \in [Publishers -> PubTask]
      /\ BrokerOK /\ OwnChannels /\ MapShape(topics, Topics)
  BY DEF CurrentInv, BrokerOK, PublishersOK, MapsShaped
<1>2. pub[p].pc = "fetch" /\ t \in Topics /\ pub[p].todo = {}
  BY <1>1, FanoutAssumption DEF PublishFetch, PublisherOK
<1>3. /\ topics' = GetOrInsert(topics, t, Len(chan) + 1, Live) /\ chan' = WithChannelFor(topics, t)
      /\ pub' = [pub EXCEPT ![p].pc = "exact", ![p].chan = c]
      /\ UNCHANGED <<patterns, sub>> /\ ~ TopicsReadLocked
  BY DEF PublishFetch
<1>4. /\ MapGrows(topics, topics', t)
      /\ chan' = chan \/ Opens
      /\ c = Len(chan) + 1 \/ (t \in DOMAIN topics.map /\ c = topics.map[t])
  BY <1>1, <1>2, <1>3, LookUpGrows
<1> HIDE DEF c
<1>5. /\ \A q \in Publishers : q # p => pub'[q] = pub[q]
      /\ pub'[p].id = pub[p].id /\ pub'[p].chan = c
  BY <1>1, <1>3 DEF PubTask
<1>6. OwnChannels'
  <2>1. TopicOf[pub'[p].id] = t
    BY <1>5
  <2> HIDE DEF t
  <2>2. QED
    BY <1>1, <1>4, <1>5, <2>1, OwnQuiet
<1>7. ASSUME NEW s \in Subscribers PROVE ForwarderShows(s)'
  <2>1. sub'[s] = sub[s] /\ sub[s].pc # "scan" /\ MapGrows(patterns, patterns', t)
    BY <1>3 DEF TopicsReadLocked, MapGrows
  <2>2. \A id : OnItsWay(pub, s, id) => OnItsWay(pub', s, id)
    BY <1>2, <1>5, OthersOnTheirWay
  <2> HIDE DEF t
  <2>3. QED
    BY <1>4, <2>1, <2>2, QuietShows
<1>8. QED
  BY <1>6, <1>7

\* The channel of the topic is sent on.  From here the message is on its way to
\* the patterns.
LEMMA CurrentExact ==
    ASSUME CurrentInv, NEW p \in Publishers, PublishExact(p)
    PROVE  OwnChannels' /\ \A s \in Subscribers : ForwarderShows(s)'
<1>1. /\ pub[p] \in PubTask /\ PublisherOK(p) /\ pub \in [Publishers -> PubTask]
      /\ BrokerOK /\ OwnChannels /\ ChannelsOK
  BY DEF CurrentInv, BrokerOK, PublishersOK
<1>2. PICK c \in 1 .. Len(chan), id \in Ids :
          c = pub[p].chan /\ id = pub[p].id /\ SendsOn(c, id)
  BY <1>1, PublishSends
<1>3. PICK retain : retain = RetainOf[id]
  OBVIOUS
<1>4. /\ pub[p].pc = "exact" /\ pub[p].todo = {}
      /\ chan' = [chan EXCEPT ![c] = ChannelPublish(chan[c], id, retain)]
      /\ pub' = [pub EXCEPT ![p].pc = "lock", ![p].chan = None]
      /\ UNCHANGED <<topics, patterns, sub>>
  BY <1>1, <1>2, <1>3 DEF PublishExact, PublisherOK
<1>5. /\ \A q \in Publishers : q # p => pub'[q] = pub[q]
      /\ pub'[p].id = id /\ pub'[p].pc = "lock"
  BY <1>1, <1>2, <1>4 DEF PubTask
<1>6. chan'[c].retained \in {chan[c].retained, None, id}
  BY <1>1, <1>4, SentRetains
<1>7. \A d \in 1 .. Len(chan) \ {c} : chan'[d] = chan[d]
  BY <1>1, <1>2, SendsOnFacts
<1>8. OwnChannels'
  <2>1. ASSUME NEW t \in DOMAIN topics.map, chan'[topics.map[t]].retained # None
        PROVE  TopicOf[chan'[topics.map[t]].retained] = t
    <3>1. topics.map[t] \in 1 .. Len(chan)
      BY <1>1 DEF BrokerOK, MapsShaped, MapShape
    <3>2. topics.map[t] = c => TopicOf[id] = t
      BY <1>1, <1>2, <1>4 DEF OwnChannels
    <3>3. QED
      BY <1>1, <1>6, <1>7, <2>1, <3>1, <3>2 DEF OwnChannels
  <2>2. \A q \in Publishers : pub'[q].pc = "exact" => pub'[q] = pub[q]
    BY <1>5
  <2>3. QED
    BY <1>1, <1>4, <2>1, <2>2 DEF OwnChannels
<1>9. ASSUME NEW s \in Subscribers PROVE ForwarderShows(s)'
  <2>1. OnItsWay(pub', s, id)
    BY <1>5 DEF OnItsWay
  <2>2. pub[p].pc # "lock"
    BY <1>4
  <2>3. \A r : OnItsWay(pub, s, r) => OnItsWay(pub', s, r)
    BY <1>4, <1>5, <2>2, OthersOnTheirWay
  <2>4. QED
    BY <1>2, <1>4, <1>6, <2>1, <2>3, SendShows
<1>10. QED
  BY <1>8, <1>9

\* The channel of a pattern is sent on: the message has arrived there.
LEMMA CurrentPattern ==
    ASSUME CurrentInv, NEW p \in Publishers, NEW f \in Patterns, PublishPattern(p, f)
    PROVE  OwnChannels' /\ \A s \in Subscribers : ForwarderShows(s)'
<1>1. /\ pub[p] \in PubTask /\ pub \in [Publishers -> PubTask] /\ BrokerOK /\ OwnChannels
      /\ ChannelsOK
  BY DEF CurrentInv, BrokerOK, PublishersOK
<1>2. PICK c \in 1 .. Len(chan), id \in Ids :
          c = patterns.map[f] /\ id = pub[p].id /\ SendsOn(c, id)
  BY <1>1, PublishSends
<1>3. PICK retain : retain = "no"
  OBVIOUS
<1>4. /\ pub[p].pc = "patterns"
      /\ chan' = [chan EXCEPT ![c] = ChannelPublish(chan[c], id, retain)]
      /\ pub' = [pub EXCEPT ![p].todo = pub[p].todo \ {f}]
      /\ UNCHANGED <<topics, patterns, sub>>
  BY <1>1, <1>2, <1>3 DEF PublishPattern
<1>5. /\ \A q \in Publishers : q # p => pub'[q] = pub[q]
      /\ pub'[p].id = id /\ pub'[p].pc = "patterns" /\ pub'[p].todo = pub[p].todo \ {f}
  BY <1>1, <1>2, <1>4 DEF PubTask
<1>6. chan'[c].retained = chan[c].retained
  BY <1>1, <1>3, <1>4, SentRetains
<1>7. \A d \in 1 .. Len(chan) : chan'[d].retained = chan[d].retained
  BY <1>1, <1>2, <1>6, SendsOnFacts
<1>8. OwnChannels'
  <2>1. \A t \in DOMAIN topics.map : topics.map[t] \in 1 .. Len(chan)
    BY <1>1 DEF BrokerOK, MapsShaped, MapShape
  <2>2. \A q \in Publishers : pub'[q].pc = "exact" => pub'[q] = pub[q]
    BY <1>5
  <2>3. QED
    BY <1>1, <1>4, <1>7, <2>1, <2>2 DEF OwnChannels
<1>9. ASSUME NEW s \in Subscribers PROVE ForwarderShows(s)'
  <2>1. ASSUME NEW r \in Ids, ~ Exact(s), Registered(s), OnItsWay(pub, s, r)
        PROVE  OnItsWay(pub', s, r) \/ (r = id /\ c = sub[s].chan)
    <3>1. PICK q \in Publishers : pub[q].id = r /\ (pub[q].pc = "lock" \/ FilterOf[s] \in pub[q].todo)
      BY <2>1 DEF OnItsWay
    <3>2. patterns.map[FilterOf[s]] = sub[s].chan
      BY <2>1 DEF Registered
    <3>3. CASE q # p \/ FilterOf[s] # f
      BY <1>2, <1>4, <1>5, <3>1, <3>3 DEF OnItsWay
    <3>4. CASE q = p /\ FilterOf[s] = f
      BY <1>2, <3>1, <3>2, <3>4
    <3>5. QED
      BY <3>3, <3>4
  <2>2. QED
    BY <1>2, <1>4, <1>6, <2>1, SendShows
<1>10. QED
  BY <1>8, <1>9

\* The other forwarders, while one moves and nothing is sent.
LEMMA CurrentOthers ==
    ASSUME CurrentInv, UNCHANGED pub, chan' = chan \/ Opens, NEW s \in Subscribers,
           \A u \in Subscribers : u # s => sub'[u] = sub[u],
           NEW k, MapGrows(topics, topics', k), NEW f, MapGrows(patterns, patterns', f),
           topics' = topics \/ ~ TopicsReadLocked,
           ForwarderShows(s)'
    PROVE  OwnChannels' /\ \A u \in Subscribers : ForwarderShows(u)'
<1>1. BrokerOK /\ OwnChannels
  BY DEF CurrentInv
<1>2. OwnChannels'
  BY <1>1, OwnQuiet
<1>3. ASSUME NEW u \in Subscribers, u # s PROVE ForwarderShows(u)'
  <2>1. sub[u].pc = "scan" => topics' = topics
    BY DEF TopicsReadLocked
  <2>2. sub'[u] = sub[u]
    BY <1>3
  <2>3. \A r : OnItsWay(pub, u, r) => OnItsWay(pub', u, r)
    OBVIOUS
  <2>4. QED
    BY <2>1, <2>2, <2>3, QuietShows
<1>4. QED
  BY <1>2, <1>3

\* The backlog of a channel has what it retains.
LEMMA BacklogRetains ==
    ASSUME NEW c \in Channel, c.retained # None
    PROVE  ChannelBacklog(c) \in Seq(Ids) /\ c.retained \in Elements(ChannelBacklog(c))
<1>1. c.buffer \in Seq(Ids) /\ c.retained \in Ids
  BY DEF Channel
<1>2. Range(c.buffer) = Elements(c.buffer)
  BY <1>1, RangeElements
<1>3. CASE c.retained \in Elements(c.buffer)
  BY <1>1, <1>2, <1>3 DEF ChannelBacklog
<1>4. CASE c.retained \notin Elements(c.buffer)
  <2>1. ChannelBacklog(c) = <<c.retained>> \o c.buffer
    BY <1>2, <1>4 DEF ChannelBacklog
  <2>2. <<c.retained>> \in Seq(Ids) /\ c.retained \in Elements(<<c.retained>>)
    <3>1. <<c.retained>> \in Seq(Ids) /\ Len(<<c.retained>>) = 1 /\ <<c.retained>>[1] = c.retained
      BY <1>1
    <3>2. QED
      BY <3>1 DEF Elements
  <2>3. PICK q \in Seq(Ids), u \in Seq(Ids) : q = <<c.retained>> /\ u = c.buffer
    BY <1>1, <2>2
  <2>4. q \o u \in Seq(Ids) /\ Elements(q \o u) = Elements(q) \cup Elements(u)
    BY ConcatElements
  <2>5. QED
    BY <2>1, <2>2, <2>3, <2>4
<1>5. QED
  BY <1>3, <1>4

\* A forwarder of an exact topic subscribes.
LEMMA CurrentSubscribeExact ==
    ASSUME CurrentInv, NEW s \in Subscribers, SubscribeExact(s)
    PROVE  OwnChannels' /\ \A u \in Subscribers : ForwarderShows(u)'
<1>1. BrokerOK /\ BrokerOK' /\ TaskOK(s) /\ MapShape(topics, Topics) /\ ChannelsOK'
      /\ sub = [x \in Subscribers |-> sub[x]]
  BY BrokerForward DEF CurrentInv, ForwarderShows, BrokerOK, MapsShaped, ForwarderStep, SubscribersOK
<1>2. Subscribing(s) /\ ~ TopicsReadLocked
  BY DEF SubscribeExact
<1>3. PICK r, b, c : Resubscribed(s, r, b, c)
  BY <1>1, SubscribeExactFacts
<1>4. /\ Exact(s) /\ sub' = [sub EXCEPT ![s] = r] /\ UNCHANGED <<patterns, pub>>
      /\ FilterOf[s] \in Topics /\ chan' = WithChannelFor(topics, FilterOf[s])
      /\ topics' = GetOrInsert(topics, FilterOf[s], Len(chan) + 1, Live)
      /\ c \in 1 .. Len(chan') /\ b = ChannelBacklog(chan'[c])
      /\ r.pc = "run" /\ r.chan = c /\ r.pos = Len(chan'[c].sent)
      /\ r.backlog = Recovered(b, sub[s].last) /\ r.last = sub[s].last /\ r.out = sub[s].out
  BY <1>3 DEF Resubscribed
<1>5. ~ r.lagged => ~ Lagged(s)
  BY <1>3, Zenon DEF Resubscribed
<1>6. /\ MapGrows(topics, topics', FilterOf[s])
      /\ chan' = chan \/ Opens
  BY <1>1, <1>4, LookUpGrows
<1>7. sub'[s] = r /\ \A u \in Subscribers : u # s => sub'[u] = sub[u]
  BY <1>1, <1>4
<1>8. chan'[c] \in Channel /\ Len(chan'[c].sent) \in Nat
  <2>1. chan'[c] \in Channel
    BY <1>1, <1>4 DEF ChannelsOK
  <2>2. QED
    BY <2>1 DEF Channel
<1>9. b \in Seq(Ids)
  BY <1>4, <1>8, BacklogSeq
<1>10. /\ Recovered(b, sub[s].last) \in Seq(Ids)
       /\ sub[s].last = None => Recovered(b, sub[s].last) = b
  BY <1>1, <1>9, RecoveredFacts DEF TaskOK
<1>11. TaskOK(s)'
  <2>1. r.pos \in 0 .. Len(chan'[r.chan].sent)
    BY <1>4, <1>8
  <2>2. QED
    BY <1>1, <1>4, <1>7, <1>10, <2>1 DEF TaskOK, Sent
<1>12. ExactShows(s)'
  <2> SUFFICES ASSUME ~ r.lagged, chan'[c].retained # None PROVE chan'[c].retained \in Held(s)'
    BY <1>4, <1>7 DEF ExactShows
  <2>1. sub[s].last = None
    BY <1>1, <1>2, <1>5 DEF Subscribing, TaskOK
  <2>2. chan'[c].retained \in Elements(r.backlog)
    BY <1>4, <1>8, <1>10, <2>1, BacklogRetains
  <2>3. QED
    BY <1>7, <2>2 DEF Held, Elements
<1>13. WildcardShows(s)'
  BY <1>4 DEF WildcardShows, Exact
<1>14. ForwarderShows(s)' /\ MapGrows(patterns, patterns', s)
  BY <1>4, <1>11, <1>12, <1>13 DEF ForwarderShows, MapGrows
<1>15. QED
  BY <1>2, <1>4, <1>6, <1>7, <1>14, CurrentOthers

\* A wildcard forwarder takes its receiver.
LEMMA CurrentSubscribePattern ==
    ASSUME CurrentInv, NEW s \in Subscribers, SubscribePattern(s)
    PROVE  OwnChannels' /\ \A u \in Subscribers : ForwarderShows(u)'
<1> DEFINE f == FilterOf[s]
           c == ChannelFor(patterns, f, Len(chan) + 1)
           back == ChannelBacklog(chan'[c])
           pos == Len(chan'[c].sent)
           lagged == sub[s].lagged \/ Lagged(s)
<1>1. /\ BrokerOK /\ TaskOK(s) /\ MapShape(patterns, Patterns) /\ ChannelsOK
      /\ sub = [x \in Subscribers |-> sub[x]] /\ DOMAIN sub[s] = SubFields
  BY DEF CurrentInv, ForwarderShows, BrokerOK, MapsShaped, SubscribersOK, SubscriberOK
<1>2. /\ f \in Patterns /\ Subscribing(s) /\ chan' = WithChannelFor(patterns, f)
      /\ patterns' = GetOrInsert(patterns, f, Len(chan) + 1, Live)
      /\ UNCHANGED <<topics, pub>>
  BY DEF SubscribePattern
<1>3. ~ Exact(s)
  BY <1>2, FanoutAssumption DEF Exact
<1>4. /\ c \in 1 .. Len(chan') /\ ChannelStep
      /\ MapGrows(patterns, patterns', f)
      /\ chan' = chan \/ Opens
  BY <1>1, <1>2, GetOrInsertShape, LookUpGrows
<1>5. chan'[c] \in Channel /\ pos \in Nat
  <2>1. chan'[c] \in Channel
    BY <1>1, <1>4, ChannelsGrow DEF ChannelsOK
  <2>2. QED
    BY <2>1 DEF Channel
<1>6. back \in Seq(Ids)
  BY <1>5, BacklogSeq
<1>7. sub' = [sub EXCEPT ![s].pc = "lock", ![s].chan = c, ![s].pos = pos, ![s].backlog = back,
                         ![s].lagged = lagged]
  BY <1>2, Zenon DEF SubscribePattern
<1>8. ~ lagged => sub[s].pc = "new"
  BY <1>2, Zenon DEF Subscribing
<1>9. pos \in 0 .. Len(chan'[c].sent)
  BY <1>5
<1> HIDE DEF f, c, back, pos, lagged
<1>10. /\ sub'[s].pc = "lock" /\ sub'[s].chan = c /\ sub'[s].pos = pos /\ sub'[s].backlog = back
       /\ sub'[s].lagged = lagged /\ sub'[s].out = sub[s].out /\ sub'[s].last = sub[s].last
       /\ \A u \in Subscribers : u # s => sub'[u] = sub[u]
  BY <1>1, <1>7 DEF SubFields
<1>11. TaskOK(s)'
  BY <1>1, <1>6, <1>8, <1>9, <1>10 DEF TaskOK, Sent
<1>12. ForwarderShows(s)'
  BY <1>3, <1>10, <1>11 DEF ForwarderShows, ExactShows, WildcardShows, Exact
<1>13. MapGrows(topics, topics', s)
  BY <1>2 DEF MapGrows
<1>14. QED
  BY <1>2, <1>4, <1>10, <1>12, <1>13, CurrentOthers

\* The scan of the topics begins: none of them is done.
LEMMA CurrentScanLock ==
    ASSUME CurrentInv, NEW s \in Subscribers, ScanLock(s)
    PROVE  OwnChannels' /\ \A u \in Subscribers : ForwarderShows(u)'
<1> DEFINE scan == DOMAIN topics.map \cap Matches[FilterOf[s]]
<1>1. /\ BrokerOK /\ TaskOK(s) /\ ~ Exact(s)
      /\ sub = [x \in Subscribers |-> sub[x]] /\ DOMAIN sub[s] = SubFields
  BY WildcardFacts DEF CurrentInv, ForwarderShows, BrokerOK, SubscribersOK, SubscriberOK
<1>2. /\ sub[s].pc = "lock" /\ sub' = [sub EXCEPT ![s].pc = "scan", ![s].scan = scan]
      /\ UNCHANGED <<topics, patterns, chan, pub>>
  BY Zenon DEF ScanLock
<1>3. scan \subseteq DOMAIN topics'.map /\ DOMAIN topics'.map \cap Matches[FilterOf[s]] = scan
  BY <1>2
<1> HIDE DEF scan
<1>4. /\ sub'[s].pc = "scan" /\ sub'[s].scan = scan /\ sub'[s].chan = sub[s].chan
      /\ sub'[s].pos = sub[s].pos /\ sub'[s].backlog = sub[s].backlog
      /\ sub'[s].lagged = sub[s].lagged /\ sub'[s].out = sub[s].out /\ sub'[s].last = sub[s].last
      /\ \A u \in Subscribers : u # s => sub'[u] = sub[u]
  BY <1>1, <1>2 DEF SubFields
<1>5. TaskOK(s)'
  BY <1>1, <1>2, <1>3, <1>4 DEF TaskOK, Sent
<1>6. Scanned(s)' = {}
  BY <1>3, <1>4 DEF Scanned
<1>7. ForwarderShows(s)'
  BY <1>1, <1>5, <1>6 DEF ForwarderShows, ExactShows, WildcardShows, Exact
<1>8. MapGrows(topics, topics', s) /\ MapGrows(patterns, patterns', s)
  BY <1>2, SameMaps
<1>9. QED
  BY <1>2, <1>4, <1>7, <1>8, CurrentOthers

\* What a forwarder holds after a step that leaves the channels alone.
LEMMA HeldNext ==
    ASSUME UNCHANGED chan, NEW s, NEW out, NEW back, NEW pos, sub'[s].chan = sub[s].chan,
           sub'[s].out = out, sub'[s].backlog = back, sub'[s].pos = pos
    PROVE  Held(s)' = Elements(out) \cup Elements(back)
              \cup {Sent(sub[s].chan)[i] : i \in pos + 1 .. Len(Sent(sub[s].chan))}
  BY DEF Held, Sent, Elements

\* A wildcard forwarder that moves on its channel, keeps what it holds and scans
\* only topics whose retained message it comes to hold.
LEMMA MovesOn ==
    ASSUME CurrentInv, NEW s \in Subscribers, UNCHANGED <<topics, patterns, chan, pub>>,
           ~ Exact(s), sub[s].pc \in {"scan", "run"}, sub'[s].chan = sub[s].chan,
           sub[s].lagged => sub'[s].lagged, Held(s) \subseteq Held(s)',
           \A t \in Scanned(s)' : \/ t \in Scanned(s)
                                  \/ chan[topics.map[t]].retained \in Held(s)' \cup {None}
    PROVE  ExactShows(s)' /\ WildcardShows(s)'
<1>1. ExactShows(s)'
  BY DEF ExactShows, Exact
<1>2. ASSUME ~ sub'[s].lagged, Registered(s)', NEW t \in Scanned(s)'
      PROVE  Shows(s, t)'
  <2>1. Registered(s) /\ ~ sub[s].lagged
    BY <1>2 DEF Registered, Exact
  <2>2. t \in Scanned(s) => Shows(s, t)
    BY <2>1 DEF CurrentInv, ForwarderShows, WildcardShows
  <2>3. QED
    BY <1>2, <2>2 DEF Shows
<1>3. WildcardShows(s)'
  BY <1>2 DEF WildcardShows
<1>4. QED
  BY <1>1, <1>3

\* One topic is scanned: what it retains is in the backlog afterwards.
LEMMA CurrentScanTopic ==
    ASSUME CurrentInv, NEW s \in Subscribers, NEW t \in Topics, ScanTopic(s, t)
    PROVE  OwnChannels' /\ \A u \in Subscribers : ForwarderShows(u)'
<1> DEFINE r == chan[topics.map[t]].retained
           b == sub[s].backlog
           back == IF r # None /\ r \notin Range(b) THEN Append(b, r) ELSE b
           scan == sub[s].scan \ {t}
<1>1. /\ BrokerOK /\ TaskOK(s) /\ ~ Exact(s) /\ ChannelsOK
      /\ sub = [x \in Subscribers |-> sub[x]] /\ DOMAIN sub[s] = SubFields
  BY WildcardFacts DEF CurrentInv, ForwarderShows, BrokerOK, SubscribersOK, SubscriberOK
<1>2. /\ sub[s].pc = "scan" /\ t \in sub[s].scan
      /\ sub' = [sub EXCEPT ![s].scan = scan, ![s].backlog = back]
      /\ UNCHANGED <<topics, patterns, chan, pub>>
  BY Zenon DEF ScanTopic
<1>3. r \in Ids \cup {None}
  <2>1. t \in DOMAIN topics.map
    BY <1>1, <1>2 DEF TaskOK
  <2>2. topics.map[t] \in 1 .. Len(chan)
    BY <1>1, <2>1 DEF BrokerOK, MapsShaped, MapShape
  <2>3. QED
    BY <1>1, <2>2, ChannelFacts
<1> HIDE DEF r
<1>4. /\ b \in Seq(Ids) /\ back \in Seq(Ids) /\ Elements(b) \subseteq Elements(back)
      /\ r # None => r \in Elements(back)
  <2>1. b \in Seq(Ids) /\ Range(b) = Elements(b)
    BY <1>1, RangeElements DEF TaskOK
  <2> HIDE DEF b
  <2>2. CASE r # None /\ r \notin Elements(b)
    BY <1>3, <2>1, <2>2, AppendElements
  <2>3. CASE ~ (r # None /\ r \notin Elements(b))
    BY <1>3, <2>1, <2>3
  <2>4. QED
    BY <2>2, <2>3
<1>5. scan = sub[s].scan \ {t}
  OBVIOUS
<1> HIDE DEF back, scan
<1>6. /\ sub'[s].pc = "scan" /\ sub'[s].scan = scan /\ sub'[s].chan = sub[s].chan
      /\ sub'[s].pos = sub[s].pos /\ sub'[s].backlog = back
      /\ sub'[s].lagged = sub[s].lagged /\ sub'[s].out = sub[s].out /\ sub'[s].last = sub[s].last
      /\ \A u \in Subscribers : u # s => sub'[u] = sub[u]
  BY <1>1, <1>2 DEF SubFields
<1>7. TaskOK(s)'
  BY <1>1, <1>2, <1>4, <1>5, <1>6 DEF TaskOK, Sent
<1>8. Held(s) \subseteq Held(s)' /\ Elements(back) \subseteq Held(s)'
  <2>1. Held(s)' = Elements(sub[s].out) \cup Elements(back)
              \cup {Sent(sub[s].chan)[i] : i \in sub[s].pos + 1 .. Len(Sent(sub[s].chan))}
    <3>1. UNCHANGED chan
      BY <1>2
    <3>2. QED
      BY <1>6, <3>1, HeldNext
  <2>2. QED
    BY <1>4, <2>1 DEF Held
<1>9. \A x \in Scanned(s)' : x \in Scanned(s) \/ x = t
  BY <1>2, <1>5, <1>6 DEF Scanned
<1>10. ExactShows(s)' /\ WildcardShows(s)'
  <2>1. \A x \in Scanned(s)' : \/ x \in Scanned(s)
                               \/ chan[topics.map[x]].retained \in Held(s)' \cup {None}
    BY <1>4, <1>8, <1>9 DEF r
  <2>2. QED
    BY <1>1, <1>2, <1>6, <1>8, <2>1, MovesOn
<1>11. ForwarderShows(s)'
  BY <1>7, <1>10 DEF ForwarderShows
<1>12. MapGrows(topics, topics', s) /\ MapGrows(patterns, patterns', s)
  BY <1>2, SameMaps
<1>13. QED
  BY <1>2, <1>6, <1>11, <1>12, CurrentOthers

\* The scan is done and the backlog sorted: nothing was delivered yet, so nothing
\* of it is left out.
LEMMA CurrentScanDone ==
    ASSUME CurrentInv, NEW s \in Subscribers, ScanDone(s)
    PROVE  OwnChannels' /\ \A u \in Subscribers : ForwarderShows(u)'
<1> DEFINE b == SortedById(sub[s].backlog)
           back == Recovered(b, sub[s].last)
           lost == sub[s].lost \/ GapOutranBuffer(b, sub[s].last)
           lagged == sub[s].lagged \/ Lagged(s)
<1>1. /\ BrokerOK /\ TaskOK(s) /\ ~ Exact(s)
      /\ sub = [x \in Subscribers |-> sub[x]] /\ DOMAIN sub[s] = SubFields
  BY WildcardFacts DEF CurrentInv, ForwarderShows, BrokerOK, SubscribersOK, SubscriberOK
<1>2. /\ sub[s].pc = "scan" /\ sub[s].scan = {}
      /\ sub' = [sub EXCEPT ![s].pc = "run", ![s].chan = sub[s].chan, ![s].pos = sub[s].pos,
                            ![s].backlog = back, ![s].lost = lost, ![s].lagged = lagged]
      /\ UNCHANGED <<topics, patterns, chan, pub>>
  BY Zenon DEF ScanDone, Subscribed
<1>3. sub[s].lagged => lagged
  BY Zenon
<1>4. b \in Seq(Ids) /\ Elements(b) = Elements(sub[s].backlog)
  BY <1>1, SortedFacts DEF TaskOK
<1>5. back \in Seq(Ids) /\ (sub[s].last = None => back = b)
  BY <1>1, <1>4, RecoveredFacts DEF TaskOK
<1> HIDE DEF b, back, lost, lagged
<1>6. /\ sub'[s].pc = "run" /\ sub'[s].chan = sub[s].chan
      /\ sub'[s].pos = sub[s].pos /\ sub'[s].backlog = back
      /\ sub'[s].lagged = lagged /\ sub'[s].out = sub[s].out /\ sub'[s].last = sub[s].last
      /\ \A u \in Subscribers : u # s => sub'[u] = sub[u]
  BY <1>1, <1>2 DEF SubFields
<1>7. TaskOK(s)'
  BY <1>1, <1>2, <1>5, <1>6 DEF TaskOK, Sent
<1>8. ExactShows(s)' /\ WildcardShows(s)'
  <2>1. CASE sub[s].lagged
    <3>1. sub'[s].lagged
      BY <1>3, <1>6, <2>1, Zenon
    <3>2. QED
      BY <3>1 DEF ExactShows, WildcardShows
  <2>2. CASE ~ sub[s].lagged
    <3>1. Elements(back) = Elements(sub[s].backlog)
      BY <1>1, <1>2, <1>4, <1>5, <2>2 DEF TaskOK
    <3>2. Held(s)' = Elements(sub[s].out) \cup Elements(back)
                \cup {Sent(sub[s].chan)[i] : i \in sub[s].pos + 1 .. Len(Sent(sub[s].chan))}
      <4>1. UNCHANGED chan
        BY <1>2
      <4>2. QED
        BY <1>6, <4>1, HeldNext
    <3>3. Held(s) \subseteq Held(s)'
      BY <3>1, <3>2 DEF Held
    <3>4. \A t \in Scanned(s)' : t \in Scanned(s)
      BY <1>2 DEF Scanned
    <3>5. sub[s].lagged => sub'[s].lagged
      BY <2>2
    <3>6. sub[s].pc \in {"scan", "run"} /\ sub'[s].chan = sub[s].chan
      BY <1>2, <1>6
    <3>7. QED
      BY <1>1, <1>2, <3>3, <3>4, <3>5, <3>6, MovesOn
  <2>3. QED
    BY <2>1, <2>2
<1>9. ForwarderShows(s)'
  BY <1>7, <1>8 DEF ForwarderShows
<1>10. MapGrows(topics, topics', s) /\ MapGrows(patterns, patterns', s)
  BY <1>2, SameMaps
<1>11. QED
  BY <1>2, <1>6, <1>9, <1>10, CurrentOthers

\* A forwarder that runs on, holding what it held.
LEMMA RunsOn ==
    ASSUME CurrentInv, NEW s \in Subscribers, UNCHANGED <<topics, patterns, chan, pub>>,
           sub[s].pc = "run", sub'[s].pc = "run", sub'[s].chan = sub[s].chan,
           sub'[s].lagged = sub[s].lagged, Held(s) \subseteq Held(s)', TaskOK(s)',
           \A u \in Subscribers : u # s => sub'[u] = sub[u]
    PROVE  OwnChannels' /\ \A u \in Subscribers : ForwarderShows(u)'
<1>1. ExactShows(s)' /\ WildcardShows(s)'
  <2>1. CASE Exact(s)
    BY <2>1 DEF CurrentInv, ForwarderShows, ExactShows, WildcardShows, Exact
  <2>2. CASE ~ Exact(s)
    <3>1. \A t \in Scanned(s)' : t \in Scanned(s)
      BY DEF Scanned
    <3>2. QED
      BY <2>2, <3>1, MovesOn
  <2>3. QED
    BY <2>1, <2>2
<1>2. ForwarderShows(s)'
  BY <1>1 DEF ForwarderShows
<1>3. MapGrows(topics, topics', s) /\ MapGrows(patterns, patterns', s)
  BY SameMaps
<1>4. chan' = chan /\ topics' = topics /\ UNCHANGED pub
  OBVIOUS
<1>5. QED
  BY <1>2, <1>3, <1>4, CurrentOthers

\* An envelope of the backlog is sent.
LEMMA CurrentForward ==
    ASSUME CurrentInv, NEW s \in Subscribers, Forward(s)
    PROVE  OwnChannels' /\ \A u \in Subscribers : ForwarderShows(u)'
<1> DEFINE id == Head(sub[s].backlog)
           back == Tail(sub[s].backlog)
           out == Append(sub[s].out, id)
<1>1. /\ TaskOK(s) /\ sub = [x \in Subscribers |-> sub[x]] /\ DOMAIN sub[s] = SubFields
  BY DEF CurrentInv, ForwarderShows, BrokerOK, SubscribersOK, SubscriberOK
<1>2. /\ sub[s].pc = "run" /\ sub[s].backlog # <<>>
      /\ sub' = [sub EXCEPT ![s].backlog = back, ![s].last = id, ![s].out = out]
      /\ UNCHANGED <<topics, patterns, chan, pub>>
  BY Zenon DEF Forward
<1>3. /\ id \in Ids /\ back \in Seq(Ids) /\ out \in Seq(Ids)
      /\ Elements(sub[s].out) \cup {id} \subseteq Elements(out)
      /\ Elements(sub[s].backlog) \subseteq {id} \cup Elements(back)
  <2>1. PICK b \in Seq(Ids), o \in Seq(Ids) : b = sub[s].backlog /\ o = sub[s].out
    BY <1>1 DEF TaskOK
  <2>2. /\ Head(b) \in Ids /\ Tail(b) \in Seq(Ids) /\ Head(b) = b[1]
        /\ Len(b) \in Nat /\ Len(Tail(b)) = Len(b) - 1
        /\ \A i \in 1 .. Len(b) - 1 : Tail(b)[i] = b[i + 1]
    BY <1>2, <2>1
  <2>3. ASSUME NEW i \in 1 .. Len(b) PROVE b[i] \in {Head(b)} \cup Elements(Tail(b))
    <3>1. CASE i = 1
      BY <2>2, <3>1
    <3>2. CASE i # 1
      <4>1. i - 1 \in 1 .. Len(b) - 1 /\ (i - 1) + 1 = i
        BY <2>2, <3>2
      <4>2. Tail(b)[i - 1] = b[i]
        BY <2>2, <4>1
      <4>3. QED
        BY <2>2, <4>1, <4>2 DEF Elements
    <3>3. QED
      BY <3>1, <3>2
  <2>4. Elements(b) \subseteq {Head(b)} \cup Elements(Tail(b))
    BY <2>3 DEF Elements
  <2>5. /\ Append(o, Head(b)) \in Seq(Ids)
        /\ Elements(Append(o, Head(b))) = Elements(o) \cup {Head(b)}
    BY <2>2, AppendElements
  <2>6. QED
    BY <2>1, <2>2, <2>4, <2>5
<1> HIDE DEF id, back, out
<1>4. /\ sub'[s].pc = "run" /\ sub'[s].chan = sub[s].chan /\ sub'[s].pos = sub[s].pos
      /\ sub'[s].backlog = back /\ sub'[s].out = out /\ sub'[s].last = id
      /\ sub'[s].lagged = sub[s].lagged
      /\ \A u \in Subscribers : u # s => sub'[u] = sub[u]
  BY <1>1, <1>2 DEF SubFields
<1>5. UNCHANGED chan /\ UNCHANGED topics
  BY <1>2
<1>6. TaskOK(s)'
  BY <1>1, <1>2, <1>3, <1>4, <1>5 DEF TaskOK, Sent
<1>7. Held(s)' = Elements(out) \cup Elements(back)
              \cup {Sent(sub[s].chan)[i] : i \in sub[s].pos + 1 .. Len(Sent(sub[s].chan))}
  BY <1>4, <1>5, HeldNext
<1>8. Held(s) \subseteq Held(s)'
  BY <1>3, <1>7 DEF Held
<1>9. QED
  BY <1>2, <1>4, <1>6, <1>8, RunsOn

\* An envelope is received.
LEMMA CurrentReceive ==
    ASSUME CurrentInv, NEW s \in Subscribers, Receive(s)
    PROVE  OwnChannels' /\ \A u \in Subscribers : ForwarderShows(u)'
<1> DEFINE id == Head(Unread(s))
           pos == sub[s].pos + 1
           back == <<id>>
           out == sub[s].out
<1>1. /\ TaskOK(s) /\ sub = [x \in Subscribers |-> sub[x]] /\ DOMAIN sub[s] = SubFields
      /\ SubscriberOK(s) /\ ChannelsOK
  BY DEF CurrentInv, ForwarderShows, BrokerOK, SubscribersOK, SubscriberOK
<1>2. /\ sub[s].pc = "run" /\ Unread(s) # <<>> /\ sub[s].backlog = <<>>
      /\ sub' = [sub EXCEPT ![s].pos = pos, ![s].backlog = back]
      /\ UNCHANGED <<topics, patterns, chan, pub>>
  BY Zenon DEF Receive
<1>3. PICK c \in 1 .. Len(chan) : c = sub[s].chan
  BY <1>1, <1>2 DEF SubscriberOK
<1>4. PICK sent \in Seq(Ids) : sent = Sent(c)
  BY <1>1, ChannelFacts DEF Sent
<1>5. PICK k \in 0 .. Len(sent) : k = sub[s].pos
  BY <1>1, <1>2, <1>3, <1>4 DEF TaskOK
<1>6. Unread(s) = SubSeq(sent, k + 1, Len(sent))
  BY <1>3, <1>4, <1>5 DEF Unread, Sent
<1>7. k < Len(sent) /\ Len(sent) \in Nat
  <2>1. SubSeq(sent, k + 1, Len(sent)) # <<>>
    BY <1>2, <1>6
  <2>2. QED
    BY <2>1, UnreadTail
<1>8. Head(Unread(s)) = sent[k + 1] /\ sent[k + 1] \in Ids
  <2>1. Head(SubSeq(sent, k + 1, Len(sent))) = sent[k + 1] /\ sent[k + 1] \in Ids
    BY <1>7
  <2>2. QED
    BY <1>6, <2>1
<1>9. id \in Ids /\ back \in Seq(Ids) /\ Elements(back) = {id} /\ Elements(sub[s].backlog) = {}
  <2>1. id \in Ids
    BY <1>8
  <2> HIDE DEF id
  <2>2. Len(back) = 1 /\ back[1] = id /\ back \in Seq(Ids) /\ Len(sub[s].backlog) = 0
    BY <1>2, <2>1
  <2>3. Elements(back) = {id} /\ Elements(sub[s].backlog) = {}
    BY <2>2 DEF Elements
  <2>4. QED
    BY <2>1, <2>2, <2>3
<1>10. pos = k + 1 /\ pos \in 0 .. Len(sent) /\ id = sent[k + 1]
  BY <1>5, <1>7, <1>8
<1> HIDE DEF id, pos, back, out
<1>11. /\ sub'[s].pc = "run" /\ sub'[s].chan = sub[s].chan /\ sub'[s].pos = pos
       /\ sub'[s].backlog = back /\ sub'[s].out = out /\ sub'[s].last = sub[s].last
       /\ sub'[s].lagged = sub[s].lagged
       /\ \A u \in Subscribers : u # s => sub'[u] = sub[u]
  BY <1>1, <1>2 DEF SubFields, out
<1>12. UNCHANGED chan /\ UNCHANGED topics /\ Sent(sub[s].chan) = sent
  BY <1>2, <1>3, <1>4
<1>13. TaskOK(s)'
  BY <1>1, <1>9, <1>10, <1>11, <1>12 DEF TaskOK, Sent, out
<1>14. Held(s)' = Elements(out) \cup Elements(back)
              \cup {Sent(sub[s].chan)[i] : i \in pos + 1 .. Len(Sent(sub[s].chan))}
  BY <1>11, <1>12, HeldNext
<1>15. \A i \in k + 1 .. Len(sent) : i = k + 1 \/ i \in pos + 1 .. Len(sent)
  BY <1>7, <1>10
<1>16. {sent[i] : i \in k + 1 .. Len(sent)} \subseteq {id} \cup {sent[i] : i \in pos + 1 .. Len(sent)}
  BY <1>10, <1>15
<1>17. Held(s) \subseteq Held(s)'
  BY <1>5, <1>9, <1>12, <1>14, <1>16 DEF Held, out
<1>18. QED
  BY <1>2, <1>11, <1>13, <1>17, RunsOn

\* A forwarder ends.
LEMMA CurrentEnd ==
    ASSUME CurrentInv, NEW s \in Subscribers, End(s)
    PROVE  OwnChannels' /\ \A u \in Subscribers : ForwarderShows(u)'
<1>1. /\ TaskOK(s) /\ sub = [x \in Subscribers |-> sub[x]] /\ DOMAIN sub[s] = SubFields
  BY DEF CurrentInv, ForwarderShows, BrokerOK, SubscribersOK, SubscriberOK
<1>2. /\ sub' = [sub EXCEPT ![s].pc = "ended", ![s].chan = None, ![s].pos = 0, ![s].scan = {},
                            ![s].backlog = <<>>]
      /\ UNCHANGED <<topics, patterns, chan, pub>>
  BY Zenon DEF End
<1>3. /\ sub'[s].pc = "ended" /\ sub'[s].backlog = <<>> /\ sub'[s].out = sub[s].out
      /\ sub'[s].last = sub[s].last
      /\ \A u \in Subscribers : u # s => sub'[u] = sub[u]
  BY <1>1, <1>2 DEF SubFields
<1>4. ForwarderShows(s)'
  BY <1>1, <1>3 DEF ForwarderShows, TaskOK, ExactShows, WildcardShows
<1>5. MapGrows(topics, topics', s) /\ MapGrows(patterns, patterns', s)
  BY <1>2, SameMaps
<1>6. QED
  BY <1>2, <1>3, <1>4, <1>5, CurrentOthers

\* Every step keeps retained messages on their way to those who match them.
LEMMA CurrentStep == CurrentInv /\ [FanoutNext]_fanoutVars => CurrentInv'
<1> SUFFICES ASSUME CurrentInv, [FanoutNext]_fanoutVars PROVE CurrentInv'
  OBVIOUS
<1>1. BrokerOK'
  BY BrokerStep DEF CurrentInv
<1>2. OwnChannels' /\ \A s \in Subscribers : ForwarderShows(s)'
  <2>1. CASE UNCHANGED <<topics, patterns, chan, pub, sub>>
    BY <2>1 DEF CurrentInv, OwnChannels, ForwarderShows, TaskOK, ExactShows,
                WildcardShows, Shows, Scanned, OnItsWay, Held, Registered, Exact, Sent, Elements
  <2>2. ASSUME NEW p \in Publishers, (\E id \in Ids : PublishBegin(p, id)) \/ PublishStep(p)
        PROVE  OwnChannels' /\ \A s \in Subscribers : ForwarderShows(s)'
    BY <2>2, CurrentPublishQuiet, CurrentFetch, CurrentExact, CurrentPattern DEF PublishStep
  <2>3. ASSUME NEW s \in Subscribers, ForwarderStep(s) \/ End(s)
        PROVE  OwnChannels' /\ \A u \in Subscribers : ForwarderShows(u)'
    BY <2>3, CurrentSubscribeExact, CurrentSubscribePattern, CurrentScanLock, CurrentScanTopic,
       CurrentScanDone, CurrentForward, CurrentReceive, CurrentEnd DEF ForwarderStep
  <2>4. UNCHANGED fanoutVars \/ (\E s \in Subscribers : ClientReads(s))
        => UNCHANGED <<topics, patterns, chan, pub, sub>>
    BY DEF fanoutVars, ClientReads
  <2>5. QED
    BY <2>1, <2>2, <2>3, <2>4 DEF FanoutNext
<1>3. QED
  BY <1>1, <1>2 DEF CurrentInv

\* What a forwarder holds is in its stream.
LEMMA HeldIsStreamed ==
    ASSUME BrokerOK, NEW s \in Subscribers, TaskOK(s), sub[s].pc = "run"
    PROVE  Held(s) \subseteq Range(Stream(s))
<1>1. PICK c \in 1 .. Len(chan) : c = sub[s].chan
  BY DEF BrokerOK, SubscribersOK, SubscriberOK
<1>2. PICK sent \in Seq(Ids) : sent = Sent(c)
  BY ChannelFacts DEF BrokerOK, Sent
<1>3. PICK k \in 0 .. Len(sent) : k = sub[s].pos
  BY <1>1, <1>2 DEF TaskOK
<1>4. PICK o \in Seq(Ids), b \in Seq(Ids) : o = sub[s].out /\ b = sub[s].backlog
  BY DEF TaskOK
<1> DEFINE u == SubSeq(sent, k + 1, Len(sent))
<1>5. Stream(s) = o \o b \o u
  BY <1>1, <1>2, <1>3, <1>4 DEF Stream, Unread, Sent
<1>6. /\ u \in Seq(Ids) /\ Len(sent) \in Nat /\ Len(u) = Len(sent) - k
      /\ \A i \in 1 .. Len(sent) - k : u[i] = sent[k + i]
  OBVIOUS
<1> HIDE DEF u
<1>7. ASSUME NEW i \in k + 1 .. Len(sent) PROVE sent[i] \in Elements(u)
  <2>1. i - k \in 1 .. Len(sent) - k /\ k + (i - k) = i
    BY <1>6
  <2>2. u[i - k] = sent[i]
    BY <1>6, <2>1
  <2>3. QED
    BY <1>6, <2>1, <2>2 DEF Elements
<1>8. o \o b \in Seq(Ids) /\ Elements(o \o b) = Elements(o) \cup Elements(b)
  BY ConcatElements
<1>9. PICK ob \in Seq(Ids) : ob = o \o b
  BY <1>8
<1>10. ob \o u \in Seq(Ids) /\ Elements(ob \o u) = Elements(ob) \cup Elements(u)
  BY <1>6, ConcatElements
<1>11. Range(ob \o u) = Elements(ob \o u)
  BY <1>10, RangeElements
<1>12. Held(s) = Elements(o) \cup Elements(b) \cup {sent[i] : i \in k + 1 .. Len(sent)}
  BY <1>1, <1>2, <1>3, <1>4 DEF Held
<1>13. QED
  BY <1>5, <1>7, <1>8, <1>9, <1>10, <1>11, <1>12

LEMMA CurrentReaches == CurrentInv => CurrentValueReaches
<1> SUFFICES ASSUME CurrentInv, NEW s \in Subscribers, NEW t \in DOMAIN topics.map,
                    Running(s), Registered(s), ~ sub[s].lagged,
                    \/ FilterOf[s] = t
                    \/ FilterOf[s] \in Patterns /\ t \in Matches[FilterOf[s]],
                    chan[topics.map[t]].retained # None
             PROVE  \/ chan[topics.map[t]].retained \in Range(Stream(s))
                    \/ ~ Exact(s) /\ OnItsWay(pub, s, chan[topics.map[t]].retained)
  BY Zenon DEF CurrentValueReaches, OnItsWay
<1>1. BrokerOK /\ ForwarderShows(s) /\ sub[s].pc = "run" /\ t \in Topics
  BY DEF CurrentInv, Running, BrokerOK, MapsShaped, MapShape
<1>2. Held(s) \subseteq Range(Stream(s))
  BY <1>1, HeldIsStreamed DEF ForwarderShows
<1>3. CASE FilterOf[s] = t
  <2>1. Exact(s) /\ topics.map[t] = sub[s].chan
    BY <1>1, <1>3 DEF Exact, Registered
  <2>2. chan[topics.map[t]].retained \in Held(s)
    BY <1>1, <2>1 DEF ForwarderShows, ExactShows
  <2>3. QED
    BY <1>2, <2>2
<1>4. CASE FilterOf[s] \in Patterns /\ t \in Matches[FilterOf[s]]
  <2>1. ~ Exact(s) /\ t \in Scanned(s)
    BY <1>1, <1>4, FanoutAssumption DEF Exact, Scanned
  <2>2. Shows(s, t)
    BY <1>1, <2>1 DEF ForwarderShows, WildcardShows
  <2>3. QED
    BY <1>2, <2>1, <2>2 DEF Shows
<1>5. QED
  BY <1>3, <1>4

(***************************************************************************)
(* Current value, for any topics, patterns, publishers and forwarders,     *)
(* with evictions from both maps and ids published again: what a topic     *)
(* retains has reached every forwarder that matches it or is on its way    *)
(* there.  A wildcard subscribe takes its receiver before it scans the     *)
(* topics, so that a publish it does not see in the scan finds its pattern *)
(* registered when it walks the patterns (Broker::subscribe,               *)
(* Broker::publish).                                                       *)
(***************************************************************************)
THEOREM CurrentValueArrives == FanoutSpec => []CurrentValueReaches
<1>1. FanoutInit => CurrentInv
  <2> SUFFICES ASSUME FanoutInit PROVE CurrentInv
    OBVIOUS
  <2>1. OwnChannels
    BY DEF FanoutInit, OwnChannels, EmptyMap
  <2>2. ASSUME NEW s \in Subscribers PROVE ForwarderShows(s)
    <3>1. /\ sub[s].pc = "new" /\ sub[s].out = <<>> /\ sub[s].backlog = <<>> /\ sub[s].last = None
      BY DEF FanoutInit
    <3>2. QED
      BY <3>1 DEF ForwarderShows, TaskOK, ExactShows, WildcardShows
  <2>3. QED
    BY <2>1, <2>2, BrokerInit DEF CurrentInv
<1>2. QED
  BY <1>1, CurrentStep, CurrentReaches, PTL DEF FanoutSpec
=============================================================================
