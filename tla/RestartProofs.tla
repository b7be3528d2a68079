---------------------------- MODULE RestartProofs ----------------------------
(***************************************************************************)
(* What a node keeps when it stops, starts and is told to reload: the      *)
(* position of a durable subscriber (DurableLog), and the settings and the *)
(* readiness of a process (Startup).                                       *)
(***************************************************************************)
EXTENDS DurableLog, Startup, FiniteSetTheorems, TLAPS

-----------------------------------------------------------------------------
(* The position of a durable subscriber                                     *)

\* Whatever may still be written as the position was sent first: what the forwarder is
\* recording, and what the blocking calls of aborted forwarders hold.
RecordedWasSent ==
    /\ OffsetWasDelivered
    /\ pc = "record" => hand \in delivered
    /\ late \subseteq delivered

LEMMA RecordedWasSentInit == LogInit => RecordedWasSent
BY DEF LogInit, RecordedWasSent, OffsetWasDelivered

LEMMA RecordedWasSentStep ==
    ASSUME RecordedWasSent, [LogNext]_logVars PROVE RecordedWasSent'
<1> USE DEF RecordedWasSent, OffsetWasDelivered
<1>1. CASE UNCHANGED logVars
  BY <1>1 DEF logVars, onDisk, session, past
<1>2. CASE Publishing
  <2>1. UNCHANGED <<offset, pc, hand, late, delivered>>
    BY <1>2 DEF Publishing, Accept, Persist, PersistFails, Retain, Send, onDisk, session, past
  <2> QED BY <2>1
<1>3. CASE Connect \/ ReadRows \/ MergeBacklog
  <2>1. UNCHANGED <<offset, late, delivered>> /\ pc' # "record"
    BY <1>3 DEF Connect, ReadRows, MergeBacklog, onDisk, past
  <2> QED BY <2>1
<1>4. CASE SendBacklog \/ Receive
  <2>1. PICK m : Deliver(m)
    BY <1>4 DEF SendBacklog, Receive
  <2>2. hand' = m /\ delivered' = delivered \cup {m} /\ UNCHANGED <<offset, late>>
    BY <2>1 DEF Deliver, onDisk
  <2> QED BY <2>2
<1>5. CASE Recover
  <2>1. UNCHANGED <<offset, pc, hand, late, delivered>>
    BY <1>5 DEF Recover, onDisk
  <2> QED BY <2>1
<1>6. CASE Record
  <2>1. /\ pc = "record" /\ pc' = "run"
        /\ offset' \in {hand, offset}
        /\ UNCHANGED <<late, delivered>>
    BY <1>6 DEF Record, Recorded, past
  <2> QED BY <2>1
<1>7. CASE Disconnect
  <2>1. /\ pc' = "off" /\ UNCHANGED <<offset, delivered>>
        /\ late' = IF pc = "record" THEN late \cup {hand} ELSE late
    BY <1>7 DEF Disconnect, EndSession, onDisk, past
  <2> QED BY <2>1
<1>8. ASSUME NEW m \in Ids, LateRecord(m) PROVE RecordedWasSent'
  <2>1. /\ m \in late /\ offset' \in {m, offset} /\ late' = late \ {m}
        /\ UNCHANGED <<pc, hand, delivered>>
    BY <1>8 DEF LateRecord, session, past
  <2> QED BY <2>1
<1>9. ASSUME NEW old, Expire(old) PROVE RecordedWasSent'
  <2>1. UNCHANGED <<offset, pc, hand, late, delivered>>
    BY <1>9 DEF Expire, session, past
  <2> QED BY <2>1
<1>10. CASE Restart
  <2>1. pc' = "off" /\ late' = {} /\ UNCHANGED <<offset, delivered>>
    BY <1>10 DEF Restart, EndSession
  <2> QED BY <2>1
<1> QED
  BY <1>1, <1>2, <1>3, <1>4, <1>5, <1>6, <1>7, <1>8, <1>9, <1>10 DEF LogNext, Forwarding

\* The recorded position is always a message the subscriber was sent, however sessions end,
\* writes of aborted forwarders arrive late and the node restarts (record_delivered,
\* record_offset, the abort in shut_down).
THEOREM PositionWasSent == LogSpec => []OffsetWasDelivered
<1>1. LogSpec => []RecordedWasSent
  BY RecordedWasSentInit, RecordedWasSentStep, PTL DEF LogSpec
<1>2. RecordedWasSent => OffsetWasDelivered
  BY DEF RecordedWasSent
<1> QED BY <1>1, <1>2, PTL

-----------------------------------------------------------------------------
(* What a durable subscriber is owed                                        *)

\* In the order of ids, but for the elements of O.
Orderly(s, O) == \A i, j \in DOMAIN s : i < j => s[i] <= s[j] \/ s[j] \in O

Known == stored \cup visible

\* A message is known by what its publish did, one that comes after a larger id is overtaken,
\* on disk and on the channel, and so the log and the buffer are in order but for those.
NodeInv ==
    /\ pub = [m \in Ids |-> pub[m]]
    /\ log \in Seq(Ids) /\ ToSet(log) \subseteq stored /\ stored \subseteq Ids
    /\ buffer \in Seq(Ids) /\ ToSet(buffer) \subseteq visible /\ visible \subseteq Ids
    /\ \A m \in Ids : /\ pub[m] \in {"idle", "accepted"} => m \notin Known
                      /\ pub[m] \in {"committed", "stored"} => m \notin visible
    /\ \A x \in Known, m \in Ids \ Known : x < m \/ m \in overtaken
    /\ \A x \in visible, m \in Ids \ visible : x < m \/ m \in overtaken
    /\ Orderly(log, overtaken) /\ Orderly(buffer, overtaken)

\* The rows that the subscriber was not sent and nothing excuses.
Owed == ToSet(log) \ (delivered \cup overtaken \cup gapped \cup forgone)

QueueInv ==
    /\ backlog \in Seq(Ids) /\ ToSet(backlog) \subseteq Known /\ Orderly(backlog, overtaken)
    /\ unread \in Seq(Ids) /\ ToSet(unread) \subseteq visible /\ Orderly(unread, overtaken)
    /\ delivered \subseteq Known
    /\ pc = "read" => after \in delivered
    /\ pc = "merge" => after \in delivered \cup {0}
    /\ pc \in {"off", "read"} \/ (pc = "merge" /\ after = 0) => backlog = <<>>
    /\ pc \notin {"run", "record"} => unread = <<>>

\* Where what is owed is: ahead of everything that was sent, not behind a backlog it is not
\* part of, and, once the forwarder has looked for it, still to come on the channel or in one
\* of the places the forwarder takes it from.
OwedInv ==
    /\ \A x \in delivered, m \in Owed : x < m
    /\ \A b \in ToSet(backlog), m \in Owed \ ToSet(backlog) : b <= m
    /\ pc = "merge" /\ after # 0 =>
          \A m \in Owed \cap visible : m \in ToSet(backlog) \cup ToSet(buffer)
    /\ pc \in {"run", "record"} =>
          \A m \in Owed \cap visible : m \in ToSet(backlog) \cup ToSet(unread)

AheadInv == NodeInv /\ QueueInv /\ OwedInv /\ OffsetWasDelivered

\* A finite set of numbers in ascending order has its elements, each in its place.
LEMMA AscendingFacts ==
    ASSUME NEW S \in SUBSET Nat, IsFiniteSet(S)
    PROVE  /\ Ascending(S) \in Seq(S) /\ ToSet(Ascending(S)) = S
           /\ \A i, j \in DOMAIN Ascending(S) : i < j => Ascending(S)[i] < Ascending(S)[j]
<1> DEFINE below(m) == {n \in S : n < m}
           rank(m) == Cardinality(below(m))
           C == Cardinality(S)
           f == [m \in S |-> rank(m)]
           a == [i \in 1 .. C |-> CHOOSE m \in S : rank(m) = i - 1]
<1>1. C \in Nat
  BY FS_CardinalityType
<1>2. ASSUME NEW m \in S PROVE IsFiniteSet(below(m)) /\ rank(m) \in Nat /\ rank(m) < C
  <2>1. below(m) \in SUBSET (S \ {m})
    OBVIOUS
  <2>2. IsFiniteSet(S \ {m}) /\ Cardinality(S \ {m}) = C - 1
    BY FS_RemoveElement
  <2> HIDE DEF C, below
  <2>3. IsFiniteSet(below(m)) /\ Cardinality(below(m)) <= C - 1
    BY <2>1, <2>2, FS_Subset
  <2>4. Cardinality(below(m)) \in Nat
    BY <2>3, FS_CardinalityType
  <2>5. QED
    BY <1>1, <2>3, <2>4
<1>3. ASSUME NEW m \in S, NEW n \in S, m < n PROVE rank(m) < rank(n)
  <2>1. below(m) \cup {m} \in SUBSET below(n) /\ m \notin below(m)
    <3>1. ~(m < m) /\ \A k \in S : k < m => k < n
      <4>1. m \in Nat /\ n \in Nat /\ \A k \in S : k \in Nat
        OBVIOUS
      <4>2. QED
        BY <1>3, <4>1
    <3>2. QED
      BY <1>3, <3>1
  <2>2. IsFiniteSet(below(m)) /\ IsFiniteSet(below(n)) /\ rank(m) \in Nat /\ rank(n) \in Nat
    BY <1>2
  <2> HIDE DEF below
  <2>3. Cardinality(below(m) \cup {m}) = rank(m) + 1
    BY <2>1, <2>2, FS_AddElement
  <2>4. Cardinality(below(m) \cup {m}) <= rank(n)
    BY <2>1, <2>2, FS_Subset
  <2>5. QED
    BY <2>2, <2>3, <2>4
<1>4. ASSUME NEW m \in S, NEW n \in S, rank(m) = rank(n) PROVE m = n
  <2>1. rank(m) \in Nat /\ m \in Nat /\ n \in Nat
    BY <1>2
  <2> HIDE DEF rank
  <2>2. QED
    BY <1>3, <1>4, <2>1
<1> HIDE DEF rank, C, below
<1>r. \A m \in S : rank(m) \in Nat /\ rank(m) < C /\ rank(m) \in 0 .. C - 1
  <2>1. ASSUME NEW m \in S PROVE rank(m) \in Nat /\ rank(m) < C
    BY <1>2
  <2>2. QED
    BY <1>1, <2>1
<1>5. f \in Injection(S, 0 .. C - 1)
  <2>1. f \in [S -> 0 .. C - 1]
    BY <1>r
  <2>2. QED
    BY <1>4, <2>1 DEF Injection, IsInjective
<1>6. IsFiniteSet(0 .. C - 1) /\ Cardinality(0 .. C - 1) = C
  <2>1. /\ IsFiniteSet(0 .. C - 1)
        /\ Cardinality(0 .. C - 1) = IF 0 > C - 1 THEN 0 ELSE (C - 1) - 0 + 1
    <3>1. 0 \in Int /\ C - 1 \in Int
      BY <1>1
    <3>2. QED
      BY <3>1, FS_Interval
  <2>2. QED
    BY <1>1, <2>1
<1>7. f \in Surjection(S, 0 .. C - 1)
  BY <1>5, <1>6, FS_Injection DEF C
<1>8. ASSUME NEW i \in 1 .. C PROVE a[i] \in S /\ rank(a[i]) = i - 1
  <2>1. i - 1 \in 0 .. C - 1
    BY <1>1
  <2>2. \E m \in S : rank(m) = i - 1
    BY <1>7, <2>1 DEF Surjection
  <2>3. QED
    BY <2>2
<1>9. a = Ascending(S)
  BY DEF Ascending, rank, C, below
<1>10. DOMAIN a = 1 .. C /\ a = [i \in 1 .. C |-> a[i]]
  OBVIOUS
<1> HIDE DEF a
<1>11. a \in Seq(S)
  <2>1. a \in [1 .. C -> S]
    BY <1>8, <1>10
  <2>2. QED
    BY <1>1, <2>1
<1>12. ASSUME NEW i \in 1 .. C, NEW j \in 1 .. C, i < j PROVE a[i] < a[j]
  <2>1. a[i] \in S /\ a[j] \in S /\ rank(a[i]) = i - 1 /\ rank(a[j]) = j - 1
    BY <1>8
  <2>2. a[i] \in Nat /\ a[j] \in Nat
    BY <2>1
  <2>3. CASE a[i] = a[j]
    BY <1>1, <1>12, <2>1, <2>3
  <2>4. CASE a[j] < a[i]
    <3>1. rank(a[j]) < rank(a[i])
      BY <1>3, <2>1, <2>4
    <3>2. QED
      BY <1>1, <1>12, <2>1, <3>1
  <2>5. QED
    BY <2>2, <2>3, <2>4
<1>13. ASSUME NEW m \in S PROVE \E i \in 1 .. C : a[i] = m
  <2>1. rank(m) + 1 \in 1 .. C /\ (rank(m) + 1) - 1 = rank(m)
    BY <1>1, <1>r
  <2>2. a[rank(m) + 1] \in S /\ rank(a[rank(m) + 1]) = rank(m)
    BY <1>8, <2>1
  <2>3. a[rank(m) + 1] = m
    BY <1>4, <2>2
  <2>4. QED
    BY <2>1, <2>3
<1>14. ToSet(a) = S
  BY <1>8, <1>10, <1>13 DEF ToSet
<1>15. QED
  BY <1>9, <1>10, <1>11, <1>12, <1>14

\* The elements of a sequence are finitely many.
LEMMA ElementsFinite ==
    ASSUME NEW S, NEW s \in Seq(S)
    PROVE  IsFiniteSet(ToSet(s)) /\ ToSet(s) \subseteq S /\ IsFiniteSet(DOMAIN s)
<1>1. Len(s) \in Nat /\ DOMAIN s = 1 .. Len(s) /\ s \in [1 .. Len(s) -> S]
  OBVIOUS
<1>2. IsFiniteSet(1 .. Len(s))
  BY <1>1, FS_Interval
<1>3. s \in Surjection(1 .. Len(s), ToSet(s))
  BY <1>1 DEF Surjection, ToSet
<1>4. ToSet(s) \subseteq S
  BY <1>1 DEF ToSet
<1>5. QED
  BY <1>1, <1>2, <1>3, <1>4, FS_Surjection

\* Some of the elements of s, in the order of s.
Part(r, s) ==
    /\ ToSet(r) \subseteq ToSet(s)
    /\ \A i, j \in DOMAIN r : i < j =>
          \E k, l \in DOMAIN s : k < l /\ r[i] = s[k] /\ r[j] = s[l]

LEMMA PartIsOrderly ==
    ASSUME NEW s, NEW r, NEW O, NEW P, Orderly(s, O), Part(r, s), O \subseteq P
    PROVE  Orderly(r, P)
BY DEF Orderly, Part

LEMMA WholeIsPart == ASSUME NEW s PROVE Part(s, s)
BY DEF Part

LEMMA EmptyFacts == ASSUME NEW S PROVE <<>> \in Seq(S) /\ ToSet(<<>>) = {} /\ \A s : Part(<<>>, s)
<1>1. <<>> \in Seq(S) /\ DOMAIN <<>> = {}
  OBVIOUS
<1>2. QED
  BY <1>1 DEF ToSet, Part

\* What follows the first k elements.
LEMMA SuffixFacts ==
    ASSUME NEW S, NEW s \in Seq(S), NEW k \in 0 .. Len(s)
    PROVE  /\ SubSeq(s, k + 1, Len(s)) \in Seq(S)
           /\ Part(SubSeq(s, k + 1, Len(s)), s)
           /\ k < Len(s) => s[Len(s)] \in ToSet(SubSeq(s, k + 1, Len(s)))
<1> DEFINE n == Len(s)
           r == SubSeq(s, k + 1, n)
<1>1. /\ n \in Nat /\ k \in Nat /\ k <= n /\ DOMAIN s = 1 .. n
      /\ r \in Seq(S) /\ Len(r) = n - k
  <2>1. n \in Nat /\ k \in Nat /\ k <= n /\ DOMAIN s = 1 .. n
    OBVIOUS
  <2>2. r \in Seq(S)
    OBVIOUS
  <2>3. Len(r) = IF k + 1 <= n THEN n - (k + 1) + 1 ELSE 0
    OBVIOUS
  <2> HIDE DEF r, n
  <2>4. Len(r) = n - k
    BY <2>1, <2>3
  <2>5. QED
    BY <2>1, <2>2, <2>4
<1>2. \A i \in 1 .. n - k : r[i] = s[k + i]
  <2>1. ASSUME NEW i \in 1 .. n - k PROVE r[i] = s[k + 1 + i - 1] /\ k + 1 + i - 1 = k + i
    OBVIOUS
  <2>2. QED
    BY <2>1
<1> HIDE DEF r, n
<1>3. DOMAIN r = 1 .. n - k
  BY <1>1
<1>4. \A i \in 1 .. n - k : k + i \in 1 .. n
  BY <1>1
<1>5. ToSet(r) \subseteq ToSet(s)
  BY <1>1, <1>2, <1>3, <1>4 DEF ToSet
<1>6. ASSUME NEW i \in DOMAIN r, NEW j \in DOMAIN r, i < j
      PROVE  \E p, l \in DOMAIN s : p < l /\ r[i] = s[p] /\ r[j] = s[l]
  <2>1. k + i \in DOMAIN s /\ k + j \in DOMAIN s /\ r[i] = s[k + i] /\ r[j] = s[k + j]
    BY <1>1, <1>2, <1>3, <1>4
  <2>2. k + i < k + j
    BY <1>1, <1>3, <1>6
  <2>3. QED
    BY <2>1, <2>2
<1>7. ASSUME k < n PROVE s[n] \in ToSet(r)
  <2>1. n - k \in 1 .. n - k /\ k + (n - k) = n
    BY <1>1, <1>7
  <2>2. r[n - k] = s[n]
    BY <1>2, <2>1
  <2>3. QED
    BY <1>3, <2>1, <2>2 DEF ToSet
<1>8. QED
  BY <1>1, <1>5, <1>6, <1>7 DEF Part, r, n

LEMMA NewestFacts ==
    ASSUME NEW S, NEW s \in Seq(S), NEW c \in Nat \ {0}
    PROVE  /\ Newest(s, c) \in Seq(S) /\ Part(Newest(s, c), s)
           /\ s # <<>> => s[Len(s)] \in ToSet(Newest(s, c))
<1>1. CASE Len(s) > c
  <2>1. Len(s) - c \in 0 .. Len(s) /\ Len(s) - c < Len(s) /\ Len(s) - c + 1 = (Len(s) - c) + 1
    BY <1>1
  <2>2. Newest(s, c) = SubSeq(s, (Len(s) - c) + 1, Len(s))
    BY <1>1 DEF Newest
  <2>3. QED
    BY <2>1, <2>2, SuffixFacts
<1>2. CASE ~(Len(s) > c)
  <2>1. Newest(s, c) = s
    BY <1>2 DEF Newest
  <2>2. s # <<>> => s[Len(s)] \in ToSet(s)
    BY DEF ToSet
  <2>3. QED
    BY <2>1, <2>2, WholeIsPart
<1>3. QED
  BY <1>1, <1>2

LEMMA TailFacts ==
    ASSUME NEW S, NEW s \in Seq(S), s # <<>>
    PROVE  /\ Tail(s) \in Seq(S) /\ Part(Tail(s), s)
           /\ Head(s) \in S /\ Head(s) \in ToSet(s) /\ ToSet(s) = {Head(s)} \cup ToSet(Tail(s))
           /\ \A x \in ToSet(Tail(s)) : \E i \in DOMAIN s : 1 < i /\ s[i] = x
           /\ 1 \in DOMAIN s /\ s[1] = Head(s)
<1> DEFINE n == Len(s)
           r == Tail(s)
<1>1. /\ n \in Nat /\ n > 0 /\ DOMAIN s = 1 .. n /\ 1 \in 1 .. n /\ s[1] = Head(s) /\ Head(s) \in S
      /\ r \in Seq(S) /\ DOMAIN r = 1 .. n - 1 /\ \A i \in 1 .. n - 1 : r[i] = s[i + 1]
  OBVIOUS
<1> HIDE DEF n, r
<1>2. \A i \in 1 .. n - 1 : i + 1 \in 1 .. n /\ 1 < i + 1
  BY <1>1
<1>3. \A i \in 1 .. n : i = 1 \/ (i - 1 \in 1 .. n - 1 /\ (i - 1) + 1 = i)
  BY <1>1
<1>4. \A x \in ToSet(r) : \E i \in DOMAIN s : 1 < i /\ s[i] = x
  BY <1>1, <1>2 DEF ToSet
<1>5. ToSet(s) = {Head(s)} \cup ToSet(r)
  <2>1. ToSet(r) \subseteq ToSet(s) /\ Head(s) \in ToSet(s)
    <3>1. \A i \in DOMAIN s : s[i] \in ToSet(s)
      BY DEF ToSet
    <3>2. QED
      BY <1>1, <1>4, <3>1
  <2>2. ASSUME NEW i \in 1 .. n, i # 1 PROVE s[i] \in ToSet(r)
    <3>1. r[i - 1] = s[i] /\ i - 1 \in 1 .. n - 1
      BY <1>1, <1>3, <2>2
    <3>2. QED
      BY <1>1, <3>1 DEF ToSet
  <2>3. ToSet(s) \subseteq {Head(s)} \cup ToSet(r)
    BY <1>1, <2>2 DEF ToSet
  <2>4. QED
    BY <2>1, <2>3
<1>6. ASSUME NEW i \in DOMAIN r, NEW j \in DOMAIN r, i < j
      PROVE  \E k, l \in DOMAIN s : k < l /\ r[i] = s[k] /\ r[j] = s[l]
  <2>1. i + 1 < j + 1
    BY <1>1, <1>6
  <2>2. QED
    BY <1>1, <1>2, <2>1
<1>7. QED
  BY <1>1, <1>4, <1>5, <1>6 DEF Part, r

\* m may follow s.
Follows(m, s, P) == \A x \in ToSet(s) : x <= m \/ m \in P

\* What is appended comes last.
LEMMA AppendFacts ==
    ASSUME NEW S, NEW s \in Seq(S), NEW m \in S, NEW O, NEW P, Orderly(s, O), O \subseteq P,
           Follows(m, s, P)
    PROVE  /\ Append(s, m) \in Seq(S) /\ ToSet(Append(s, m)) = ToSet(s) \cup {m}
           /\ Orderly(Append(s, m), P)
           /\ Append(s, m) # <<>> /\ Append(s, m)[Len(Append(s, m))] = m
<1> DEFINE n == Len(s)
           r == Append(s, m)
<1>1. /\ n \in Nat /\ DOMAIN s = 1 .. n /\ r \in Seq(S) /\ DOMAIN r = 1 .. n + 1
      /\ Len(r) = n + 1 /\ r # <<>> /\ r[n + 1] = m /\ \A i \in 1 .. n : r[i] = s[i]
  OBVIOUS
<1> HIDE DEF n, r
<1>2. /\ \A i \in 1 .. n + 1 : i \in 1 .. n \/ i = n + 1
      /\ \A i \in 1 .. n : i \in 1 .. n + 1
      /\ n + 1 \in 1 .. n + 1 /\ \A i, j \in 1 .. n + 1 : i < j => i \in 1 .. n
  BY <1>1
<1>3. ToSet(r) = ToSet(s) \cup {m}
  <2>1. ToSet(s) = {s[i] : i \in 1 .. n} /\ ToSet(r) = {r[i] : i \in 1 .. n + 1}
    BY <1>1 DEF ToSet
  <2>2. QED
    BY <1>1, <1>2, <2>1
<1>4. \A i \in 1 .. n : s[i] \in ToSet(s)
  BY <1>1 DEF ToSet
<1>5. ASSUME NEW i \in DOMAIN r, NEW j \in DOMAIN r, i < j PROVE r[i] <= r[j] \/ r[j] \in P
  <2>1. i \in 1 .. n /\ r[i] = s[i]
    BY <1>1, <1>2, <1>5
  <2>2. CASE j = n + 1
    BY <1>1, <1>4, <2>1, <2>2 DEF Follows
  <2>3. CASE j \in 1 .. n
    BY <1>1, <1>5, <2>1, <2>3 DEF Orderly
  <2>4. QED
    BY <1>1, <1>2, <2>2, <2>3
<1>6. QED
  BY <1>1, <1>3, <1>5 DEF Orderly, r

\* What is known or excused stays so.
Grows == stored \subseteq stored' /\ visible \subseteq visible' /\ overtaken \subseteq overtaken'

\* expire_before keeps rows in their order.
LEMMA ExpireFacts ==
    ASSUME NodeInv, NEW old, Expire(old)
    PROVE  log' \in Seq(Ids) /\ Part(log', log)
<1> DEFINE K == {i \in DOMAIN log : log[i] \notin old}
           a == Ascending(K)
           r == [j \in DOMAIN a |-> log[a[j]]]
<1>1. log' = r
  BY DEF Expire
<1>2. log \in Seq(Ids) /\ DOMAIN log \in SUBSET Nat
  BY DEF NodeInv
<1>3. K \in SUBSET Nat /\ K \in SUBSET DOMAIN log
  BY <1>2
<1>4. IsFiniteSet(K)
  <2>1. IsFiniteSet(DOMAIN log)
    BY <1>2, ElementsFinite
  <2> HIDE DEF K
  <2>2. QED
    BY <1>3, <2>1, FS_Subset
<1> HIDE DEF K
<1>5. a \in Seq(K) /\ \A i, j \in DOMAIN a : i < j => a[i] < a[j]
  BY <1>3, <1>4, AscendingFacts
<1> HIDE DEF a
<1>6. DOMAIN a = 1 .. Len(a) /\ Len(a) \in Nat /\ \A i \in DOMAIN a : a[i] \in K
  BY <1>5
<1>7. \A i \in DOMAIN a : a[i] \in DOMAIN log /\ log[a[i]] \in Ids
  <2>1. \A k \in DOMAIN log : log[k] \in Ids
    BY <1>2
  <2>2. QED
    BY <1>3, <1>6, <2>1
<1>8. r \in Seq(Ids) /\ DOMAIN r = DOMAIN a /\ \A i \in DOMAIN a : r[i] = log[a[i]]
  BY <1>6, <1>7
<1> HIDE DEF r
<1>9. ToSet(r) \subseteq ToSet(log)
  BY <1>7, <1>8 DEF ToSet
<1>10. ASSUME NEW i \in DOMAIN r, NEW j \in DOMAIN r, i < j
       PROVE  \E k, l \in DOMAIN log : k < l /\ r[i] = log[k] /\ r[j] = log[l]
  BY <1>5, <1>7, <1>8, <1>10
<1>11. QED
  BY <1>1, <1>8, <1>9, <1>10 DEF Part

LEMMA PrunedFacts ==
    ASSUME NodeInv PROVE Pruned(log) \in Seq(Ids) /\ Part(Pruned(log), log)
BY DurableLogAssumption, NewestFacts DEF NodeInv, Pruned

\* Steps that append nothing: publishes move on, and the log loses rows.
LEMMA NodeKeeps ==
    ASSUME NodeInv, UNCHANGED <<buffer, stored, visible, overtaken>>,
           log' \in Seq(Ids), Part(log', log), pub' = [m \in Ids |-> pub'[m]],
           \A m \in Ids : /\ pub'[m] \in {"idle", "accepted"} => pub[m] \in {"idle", "accepted"}
                          /\ pub'[m] \in {"committed", "stored"} => m \notin visible
    PROVE  NodeInv' /\ Grows
<1>1. Orderly(log', overtaken)
  BY PartIsOrderly DEF NodeInv
<1>2. ToSet(log') \subseteq stored
  BY DEF NodeInv, Part
<1>3. /\ Orderly(log, overtaken)' /\ Orderly(buffer, overtaken)'
  BY <1>1 DEF NodeInv, Orderly
<1>4. ToSet(log)' \subseteq stored' /\ ToSet(buffer)' \subseteq visible'
  BY <1>2 DEF NodeInv, ToSet
<1>5. QED
  BY <1>3, <1>4 DEF NodeInv, Known, Grows

LEMMA NodePersist ==
    ASSUME NodeInv, NEW m \in Ids, Persist(m)
    PROVE  /\ NodeInv' /\ Grows /\ ToSet(log') = ToSet(log) \cup {m} /\ m \notin visible
           /\ \A x \in Known : x < m \/ m \in overtaken
<1>1. /\ pub[m] = "accepted" /\ pub' = [pub EXCEPT ![m] = "committed"] /\ log' = Append(log, m)
      /\ stored' = stored \cup {m} /\ UNCHANGED <<buffer, visible>>
      /\ overtaken' = overtaken \cup {n \in Ids : n < m /\ n \notin stored \cup visible}
  BY DEF Persist
<1>2. /\ log \in Seq(Ids) /\ ToSet(log) \subseteq stored /\ m \notin Known
      /\ Orderly(log, overtaken) /\ overtaken \subseteq overtaken' /\ Ids \subseteq Nat
      /\ stored \subseteq Ids /\ visible \subseteq Ids
  BY <1>1, DurableLogAssumption DEF NodeInv
<1>3. \A x \in Known : x < m \/ m \in overtaken
  BY <1>2 DEF NodeInv
<1>4. Follows(m, log, overtaken')
  <2>1. m \in Nat /\ \A x \in ToSet(log) : x \in Nat /\ (x < m \/ m \in overtaken)
    BY <1>2, <1>3 DEF Known
  <2>2. QED
    BY <1>2, <2>1 DEF Follows
<1>5. log' \in Seq(Ids) /\ ToSet(log') = ToSet(log) \cup {m} /\ Orderly(log', overtaken')
  <2> DEFINE q == Append(log, m)
  <2>1. /\ q \in Seq(Ids) /\ ToSet(q) = ToSet(log) \cup {m} /\ Orderly(q, overtaken')
        /\ q # <<>> /\ q[Len(q)] = m
    BY <1>2, <1>4, AppendFacts
  <2>2. QED
    BY <1>1, <2>1
<1>6. Orderly(buffer, overtaken')
  BY <1>2, WholeIsPart, PartIsOrderly DEF NodeInv
<1>7. Orderly(log, overtaken)' /\ Orderly(buffer, overtaken)'
  BY <1>1, <1>5, <1>6 DEF Orderly
<1>8. ToSet(log)' \subseteq stored' /\ ToSet(buffer)' \subseteq visible'
  BY <1>1, <1>2, <1>5 DEF NodeInv, ToSet
<1>9. pub' = [n \in Ids |-> pub'[n]] /\ \A n \in Ids : pub'[n] = IF n = m THEN "committed" ELSE pub[n]
  BY <1>1 DEF NodeInv
<1>10. \A n \in Ids : /\ pub'[n] \in {"idle", "accepted"} => n \notin stored' \cup visible'
                      /\ pub'[n] \in {"committed", "stored"} => n \notin visible'
  BY <1>1, <1>2, <1>9 DEF NodeInv, Known
<1>11. ASSUME NEW x \in stored' \cup visible', NEW n \in Ids \ (stored' \cup visible')
       PROVE  x < n \/ n \in overtaken'
  <2>1. CASE x = m
    BY <1>1, <1>2, <1>11, <2>1
  <2>2. CASE x \in Known
    BY <1>1, <1>2, <1>11, <2>2 DEF NodeInv, Known
  <2>3. QED
    BY <1>1, <2>1, <2>2 DEF Known
<1>12. \A x \in visible', n \in Ids \ visible' : x < n \/ n \in overtaken'
  BY <1>1, <1>2 DEF NodeInv
<1>13. NodeInv'
  BY <1>1, <1>2, <1>5, <1>7, <1>8, <1>9, <1>10, <1>11, <1>12 DEF NodeInv, Known
<1>14. QED
  BY <1>1, <1>2, <1>3, <1>5, <1>13 DEF Grows, Known

LEMMA NodeSend ==
    ASSUME NodeInv, NEW m \in Ids, Send(m)
    PROVE  /\ NodeInv' /\ Grows /\ m \notin visible /\ m \in ToSet(buffer')
           /\ \A x \in visible : x < m \/ m \in overtaken
<1> DEFINE q == Append(buffer, m)
<1>1. /\ pub[m] = "stored" /\ pub' = [pub EXCEPT ![m] = "sent"] /\ buffer' = Newest(q, BufferCapacity)
      /\ visible' = visible \cup {m} /\ UNCHANGED <<log, stored>>
      /\ overtaken' = overtaken \cup {n \in Ids : n < m /\ n \notin visible}
  BY DEF Send, ReadyToSend, onDisk
<1>2. /\ buffer \in Seq(Ids) /\ ToSet(buffer) \subseteq visible /\ m \notin visible
      /\ Orderly(buffer, overtaken) /\ overtaken \subseteq overtaken' /\ Ids \subseteq Nat
      /\ stored \subseteq Ids /\ visible \subseteq Ids
  BY <1>1, DurableLogAssumption DEF NodeInv
<1>3. \A x \in visible : x < m \/ m \in overtaken
  BY <1>2 DEF NodeInv
<1>4. Follows(m, buffer, overtaken')
  <2>1. m \in Nat /\ \A x \in ToSet(buffer) : x \in Nat /\ (x < m \/ m \in overtaken)
    BY <1>2, <1>3
  <2>2. QED
    BY <1>2, <2>1 DEF Follows
<1>5. /\ q \in Seq(Ids) /\ ToSet(q) = ToSet(buffer) \cup {m} /\ Orderly(q, overtaken')
      /\ q # <<>> /\ q[Len(q)] = m
  BY <1>2, <1>4, AppendFacts
<1> HIDE DEF q
<1>6. buffer' \in Seq(Ids) /\ Part(buffer', q) /\ m \in ToSet(buffer')
  BY <1>1, <1>5, DurableLogAssumption, NewestFacts
<1>7. Orderly(buffer', overtaken') /\ Orderly(log, overtaken')
  <2>1. Orderly(buffer', overtaken')
    BY <1>5, <1>6, PartIsOrderly
  <2>2. Orderly(log, overtaken')
    BY <1>2, WholeIsPart, PartIsOrderly DEF NodeInv
  <2>3. QED
    BY <2>1, <2>2
<1>8. Orderly(log, overtaken)' /\ Orderly(buffer, overtaken)'
  BY <1>1, <1>7 DEF Orderly
<1>9. ToSet(buffer') \subseteq visible'
  BY <1>1, <1>2, <1>5, <1>6 DEF Part
<1>10. ToSet(log)' \subseteq stored' /\ ToSet(buffer)' \subseteq visible'
  BY <1>1, <1>9 DEF NodeInv, ToSet
<1>11. pub' = [n \in Ids |-> pub'[n]] /\ \A n \in Ids : pub'[n] = IF n = m THEN "sent" ELSE pub[n]
  BY <1>1 DEF NodeInv
<1>12. \A n \in Ids : /\ pub'[n] \in {"idle", "accepted"} => n \notin stored' \cup visible'
                      /\ pub'[n] \in {"committed", "stored"} => n \notin visible'
  BY <1>1, <1>11 DEF NodeInv, Known
<1>13. ASSUME NEW x \in visible', NEW n \in Ids \ visible' PROVE x < n \/ n \in overtaken'
  <2>1. CASE x = m
    BY <1>1, <1>2, <1>13, <2>1
  <2>2. CASE x \in visible
    BY <1>1, <1>2, <1>13, <2>2 DEF NodeInv
  <2>3. QED
    BY <1>1, <2>1, <2>2
<1>14. ASSUME NEW x \in stored' \cup visible', NEW n \in Ids \ (stored' \cup visible')
       PROVE  x < n \/ n \in overtaken'
  <2>1. CASE x \in visible'
    BY <1>13, <1>14, <2>1
  <2>2. CASE x \in stored
    BY <1>1, <1>2, <1>14, <2>2 DEF NodeInv, Known
  <2>3. QED
    BY <1>1, <1>14, <2>1, <2>2
<1>15. NodeInv'
  BY <1>1, <1>2, <1>6, <1>8, <1>10, <1>11, <1>12, <1>13, <1>14 DEF NodeInv, Known
<1>16. QED
  BY <1>1, <1>2, <1>3, <1>6, <1>15 DEF Grows

LEMMA NodeRestart ==
    ASSUME NodeInv, Restart
    PROVE  NodeInv' /\ Grows /\ ToSet(log') \subseteq ToSet(log)
<1>1. /\ log' = Pruned(log) /\ buffer' = Newest(log', BufferCapacity)
      /\ pub' = [m \in Ids |-> IF pub[m] = "idle" THEN "idle" ELSE "gone"]
      /\ visible' = visible \cup ToSet(log') /\ stored' = stored
      /\ overtaken' = overtaken \cup {n \in Ids \ visible' : \E m \in ToSet(log') : n < m}
  BY DEF Restart
<1>2. log' \in Seq(Ids) /\ Part(log', log)
  BY <1>1, PrunedFacts
<1>3. buffer' \in Seq(Ids) /\ Part(buffer', log')
  BY <1>1, <1>2, DurableLogAssumption, NewestFacts
<1>4. /\ ToSet(log') \subseteq ToSet(log) /\ ToSet(log) \subseteq stored /\ ToSet(buffer') \subseteq ToSet(log')
      /\ overtaken \subseteq overtaken' /\ Ids \subseteq Nat /\ stored \subseteq Ids
      /\ visible \subseteq Ids
  BY <1>1, <1>2, <1>3, DurableLogAssumption DEF Part, NodeInv
<1>5. Orderly(log', overtaken') /\ Orderly(buffer', overtaken')
  <2>1. Orderly(log', overtaken')
    BY <1>2, <1>4, PartIsOrderly DEF NodeInv
  <2>2. QED
    BY <1>3, <2>1, PartIsOrderly
<1>6. Orderly(log, overtaken)' /\ Orderly(buffer, overtaken)'
  BY <1>5 DEF Orderly
<1>7. ToSet(log)' \subseteq stored' /\ ToSet(buffer)' \subseteq visible'
  BY <1>1, <1>4 DEF ToSet
<1>8. \A n \in Ids : /\ pub'[n] \in {"idle", "accepted"} => n \notin stored' \cup visible'
                     /\ pub'[n] \in {"committed", "stored"} => n \notin visible'
  BY <1>1, <1>4 DEF NodeInv, Known
<1>9. ASSUME NEW x \in visible', NEW n \in Ids \ visible' PROVE x < n \/ n \in overtaken'
  <2>1. CASE x \in ToSet(log')
    BY <1>1, <1>4, <1>9, <2>1
  <2>2. CASE x \in visible
    BY <1>1, <1>4, <1>9, <2>2 DEF NodeInv
  <2>3. QED
    BY <1>1, <2>1, <2>2
<1>10. ASSUME NEW x \in stored' \cup visible', NEW n \in Ids \ (stored' \cup visible')
       PROVE  x < n \/ n \in overtaken'
  <2>1. CASE x \in visible'
    BY <1>9, <1>10, <2>1
  <2>2. CASE x \in stored
    BY <1>1, <1>4, <1>10, <2>2 DEF NodeInv, Known
  <2>3. QED
    BY <1>1, <1>10, <2>1, <2>2
<1>11. NodeInv'
  BY <1>1, <1>2, <1>3, <1>4, <1>6, <1>7, <1>8, <1>9, <1>10 DEF NodeInv, Known
<1>12. QED
  BY <1>1, <1>4, <1>11 DEF Grows

LEMMA OwedNext ==
    /\ Owed' = ToSet(log') \ (delivered' \cup overtaken' \cup gapped' \cup forgone')
    /\ (/\ ToSet(log') \subseteq ToSet(log) /\ delivered \subseteq delivered'
        /\ overtaken \subseteq overtaken' /\ gapped \subseteq gapped' /\ forgone \subseteq forgone'
        => Owed' \subseteq Owed)
<1>1. Owed' = ToSet(log') \ (delivered' \cup overtaken' \cup gapped' \cup forgone')
  BY DEF Owed, ToSet
<1>2. QED
  BY <1>1 DEF Owed

\* The two invariants of the next state, by the parts the steps below establish.
LEMMA QueueInvNext ==
    ASSUME backlog' \in Seq(Ids), ToSet(backlog') \subseteq stored' \cup visible',
           Orderly(backlog', overtaken'),
           unread' \in Seq(Ids), ToSet(unread') \subseteq visible', Orderly(unread', overtaken'),
           delivered' \subseteq stored' \cup visible',
           pc' = "read" => after' \in delivered',
           pc' = "merge" => after' \in delivered' \cup {0},
           pc' \in {"off", "read"} \/ (pc' = "merge" /\ after' = 0) => backlog' = <<>>,
           pc' \notin {"run", "record"} => unread' = <<>>
    PROVE  QueueInv'
BY DEF QueueInv, Known, ToSet, Orderly

LEMMA OwedInvNext ==
    ASSUME \A x \in delivered', m \in Owed' : x < m,
           \A b \in ToSet(backlog'), m \in Owed' \ ToSet(backlog') : b <= m,
           pc' = "merge" /\ after' # 0 =>
              \A m \in Owed' \cap visible' : m \in ToSet(backlog') \cup ToSet(buffer'),
           pc' \in {"run", "record"} =>
              \A m \in Owed' \cap visible' : m \in ToSet(backlog') \cup ToSet(unread')
    PROVE  OwedInv'
<1>1. ToSet(backlog)' = ToSet(backlog') /\ ToSet(buffer)' = ToSet(buffer') /\ ToSet(unread)' = ToSet(unread')
  BY DEF ToSet
<1>2. QED
  BY <1>1 DEF OwedInv

\* What is in a queue stays known and in order.
LEMMA QueuesGrow ==
    ASSUME QueueInv, Grows
    PROVE  /\ ToSet(backlog) \subseteq stored' \cup visible' /\ Orderly(backlog, overtaken')
           /\ ToSet(unread) \subseteq visible' /\ Orderly(unread, overtaken')
           /\ delivered \subseteq stored' \cup visible'
<1>1. Orderly(backlog, overtaken') /\ Orderly(unread, overtaken')
  BY DEF QueueInv, Grows, Orderly
<1>2. QED
  BY <1>1 DEF QueueInv, Grows, Known

\* Steps that leave the queues alone and add no row.
LEMMA AheadQuiet ==
    ASSUME QueueInv, OwedInv, Grows, Owed' \subseteq Owed,
           UNCHANGED <<after, backlog, unread, buffer, visible, delivered>>,
           pc' = pc \/ {pc, pc'} \subseteq {"run", "record"}
    PROVE  QueueInv' /\ OwedInv'
<1>1. QueueInv'
  BY QueuesGrow, QueueInvNext DEF QueueInv
<1>2. OwedInv'
  BY OwedInvNext DEF OwedInv
<1>3. QED
  BY <1>1, <1>2

\* The end of a session leaves nothing in the queues.
LEMMA AheadEnd ==
    ASSUME QueueInv, OwedInv, Grows, Owed' \subseteq Owed, EndSession, delivered' = delivered
    PROVE  QueueInv' /\ OwedInv'
<1>1. /\ pc' = "off" /\ backlog' = <<>> /\ unread' = <<>>
  BY DEF EndSession
<1>2. <<>> \in Seq(Ids) /\ ToSet(<<>>) = {} /\ Orderly(<<>>, overtaken')
  BY EmptyFacts DEF Orderly
<1>3. QueueInv'
  BY <1>1, <1>2, QueuesGrow, QueueInvNext
<1>4. OwedInv'
  BY <1>1, <1>2, OwedInvNext DEF OwedInv
<1>5. QED
  BY <1>3, <1>4

LEMMA AheadPersist ==
    ASSUME NodeInv, QueueInv, OwedInv, NEW m \in Ids, Persist(m)
    PROVE  QueueInv' /\ OwedInv'
<1>1. UNCHANGED <<pc, after, backlog, unread, buffer, visible, delivered, gapped, forgone>>
  BY DEF Persist, session
<1>2. /\ Grows /\ ToSet(log') = ToSet(log) \cup {m} /\ m \notin visible
      /\ \A x \in Known : x < m \/ m \in overtaken
  BY NodePersist
<1>3. \A k \in Owed' : k \in Owed \/ (k = m /\ \A x \in Known : x < m)
  BY <1>1, <1>2, OwedNext DEF Owed, Grows
<1>4. QueueInv'
  BY <1>1, <1>2, QueuesGrow, QueueInvNext DEF QueueInv
<1>5. Known \subseteq Nat /\ m \in Nat /\ ToSet(backlog) \subseteq Known /\ delivered \subseteq Known
  BY DurableLogAssumption DEF NodeInv, QueueInv, Known
<1>6. \A x \in delivered', k \in Owed' : x < k
  BY <1>1, <1>3, <1>5 DEF OwedInv
<1>7. ASSUME NEW b \in ToSet(backlog'), NEW k \in Owed' \ ToSet(backlog') PROVE b <= k
  <2>1. CASE k \in Owed
    BY <1>1, <1>7, <2>1 DEF OwedInv
  <2>2. CASE k = m /\ \A x \in Known : x < m
    <3>1. b \in Nat /\ b < m
      BY <1>1, <1>5, <2>2
    <3>2. QED
      BY <1>5, <2>2, <3>1
  <2>3. QED
    BY <1>3, <2>1, <2>2
<1>8. \A k \in Owed' \cap visible' : k \in Owed \cap visible
  BY <1>1, <1>2, <1>3
<1>9. OwedInv'
  BY <1>1, <1>6, <1>7, <1>8, OwedInvNext DEF OwedInv
<1>10. QED
  BY <1>4, <1>9

LEMMA AheadSend ==
    ASSUME NodeInv, QueueInv, OwedInv, NEW m \in Ids, Send(m)
    PROVE  QueueInv' /\ OwedInv'
<1> DEFINE q == Append(unread, m)
<1>1. /\ UNCHANGED <<log, pc, after, backlog, delivered, gapped>> /\ visible' = visible \cup {m}
      /\ unread' = IF pc \in {"run", "record"} THEN q ELSE unread
      /\ forgone' = IF pc = "merge" /\ after # 0
                    THEN forgone \cup (ToSet(buffer) \ (ToSet(buffer') \cup ToSet(backlog)))
                    ELSE forgone
  BY DEF Send, onDisk
<1>2. Grows /\ m \in ToSet(buffer') /\ \A x \in visible : x < m \/ m \in overtaken
  BY NodeSend
<1>3. /\ unread \in Seq(Ids) /\ ToSet(unread) \subseteq visible /\ Orderly(unread, overtaken)
      /\ overtaken \subseteq overtaken' /\ Ids \subseteq Nat /\ visible \subseteq Ids
  BY <1>2, DurableLogAssumption DEF QueueInv, NodeInv, Grows
<1>4. Follows(m, unread, overtaken')
  <2>1. m \in Nat /\ \A x \in ToSet(unread) : x \in Nat /\ (x < m \/ m \in overtaken)
    BY <1>2, <1>3
  <2>2. QED
    BY <1>3, <2>1 DEF Follows
<1>5. /\ q \in Seq(Ids) /\ ToSet(q) = ToSet(unread) \cup {m} /\ Orderly(q, overtaken')
      /\ q # <<>> /\ q[Len(q)] = m
  BY <1>3, <1>4, AppendFacts
<1> HIDE DEF q
<1>6. /\ unread' \in Seq(Ids) /\ ToSet(unread') \subseteq visible' /\ Orderly(unread', overtaken')
      /\ ToSet(unread) \subseteq ToSet(unread')
      /\ pc \in {"run", "record"} => m \in ToSet(unread')
  <2>1. CASE pc \in {"run", "record"}
    BY <1>1, <1>3, <1>5, <2>1
  <2>2. CASE pc \notin {"run", "record"}
    <3>1. unread' = unread
      BY <1>1, <2>2
    <3>2. QED
      BY <1>2, <1>3, <2>2, <3>1, QueuesGrow
  <2>3. QED
    BY <2>1, <2>2
<1>7. QueueInv'
  BY <1>1, <1>2, <1>6, QueuesGrow, QueueInvNext DEF QueueInv
<1>8. Owed' \subseteq Owed
  BY <1>1, <1>3, OwedNext
<1>9. ASSUME pc' = "merge", after' # 0, NEW k \in Owed' \cap visible'
      PROVE  k \in ToSet(backlog') \cup ToSet(buffer')
  <2>1. k = m \/ k \in Owed \cap visible
    BY <1>1, <1>8
  <2>2. CASE k \in Owed \cap visible
    <3>1. k \in ToSet(backlog) \cup ToSet(buffer)
      BY <1>1, <1>9, <2>2 DEF OwedInv
    <3>2. k \notin forgone'
      BY <1>9, OwedNext
    <3>3. QED
      BY <1>1, <1>9, <3>1, <3>2
  <2>3. QED
    BY <1>2, <2>1, <2>2
<1>10. ASSUME pc' \in {"run", "record"}, NEW k \in Owed' \cap visible'
       PROVE  k \in ToSet(backlog') \cup ToSet(unread')
  <2>1. k = m \/ k \in Owed \cap visible
    BY <1>1, <1>8
  <2>2. QED
    BY <1>1, <1>6, <1>10, <2>1 DEF OwedInv
<1>11. OwedInv'
  BY <1>1, <1>8, <1>9, <1>10, OwedInvNext DEF OwedInv
<1>12. QED
  BY <1>7, <1>11

LEMMA AheadConnect ==
    ASSUME NodeInv, QueueInv, OwedInv, OffsetWasDelivered, Connect
    PROVE  QueueInv' /\ OwedInv'
<1>1. /\ pc = "off" /\ after' = offset /\ pc' = IF offset = 0 THEN "merge" ELSE "read"
      /\ UNCHANGED <<log, buffer, backlog, unread, stored, visible, delivered, overtaken, gapped, forgone>>
  BY DEF Connect, onDisk, node, past
<1>2. Grows /\ Owed' = Owed
  BY <1>1, OwedNext DEF Grows, Owed
<1>3. backlog = <<>> /\ unread = <<>> /\ offset \in delivered \cup {0}
  BY <1>1 DEF QueueInv, OffsetWasDelivered
<1>4. QueueInv'
  BY <1>1, <1>2, <1>3, QueuesGrow, QueueInvNext DEF QueueInv
<1>5. pc' = "merge" => after' = 0
  BY <1>1
<1>6. OwedInv'
  BY <1>1, <1>2, <1>5, OwedInvNext DEF OwedInv
<1>7. QED
  BY <1>4, <1>6

\* A backlog in ascending order.
LEMMA AscendingBacklog ==
    ASSUME NEW S \in SUBSET Ids, IsFiniteSet(S), NEW O
    PROVE  Ascending(S) \in Seq(Ids) /\ ToSet(Ascending(S)) = S /\ Orderly(Ascending(S), O)
<1>1. S \in SUBSET Nat
  BY DurableLogAssumption
<1>2. /\ Ascending(S) \in Seq(S) /\ ToSet(Ascending(S)) = S
      /\ \A i, j \in DOMAIN Ascending(S) : i < j => Ascending(S)[i] < Ascending(S)[j]
  BY <1>1, AscendingFacts
<1> DEFINE a == Ascending(S)
<1> HIDE DEF a
<1>3. \A i \in DOMAIN a : a[i] \in Nat
  <2>1. a \in Seq(S)
    BY <1>2 DEF a
  <2>2. \A i \in DOMAIN a : a[i] \in S
    BY <2>1
  <2>3. QED
    BY <1>1, <2>2
<1>4. \A i, j \in DOMAIN a : i < j => a[i] <= a[j]
  <2>1. \A x, y \in Nat : x < y => x <= y
    OBVIOUS
  <2>2. QED
    BY <1>2, <1>3, <2>1 DEF a
<1>5. QED
  BY <1>2, <1>4 DEF Orderly, a

LEMMA AheadRead ==
    ASSUME NodeInv, QueueInv, OwedInv, ReadRows
    PROVE  QueueInv' /\ OwedInv'
<1> DEFINE S == {m \in ToSet(log) : m > after}
<1>1. /\ pc = "read" /\ pc' = "merge" /\ after' = after /\ backlog' = Ascending(S)
      /\ UNCHANGED <<log, buffer, unread, stored, visible, delivered, overtaken, gapped, forgone>>
  BY DEF ReadRows, MessagesSince, onDisk, node, past
<1>2. Grows /\ Owed' = Owed
  BY <1>1, OwedNext DEF Grows, Owed
<1>3. after \in delivered /\ after \in Ids /\ ToSet(log) \subseteq Ids /\ ToSet(log) \subseteq Known /\ Ids \subseteq Nat
      /\ after # 0 /\ unread = <<>>
  BY <1>1, DurableLogAssumption DEF QueueInv, NodeInv, Known
<1>4. S \in SUBSET Ids /\ IsFiniteSet(S) /\ S \subseteq Known
  <2>1. S \in SUBSET ToSet(log)
    OBVIOUS
  <2>2. IsFiniteSet(ToSet(log))
    BY ElementsFinite DEF NodeInv
  <2> HIDE DEF S
  <2>3. QED
    BY <1>3, <2>1, <2>2, FS_Subset
<1>5. \A m \in Owed : m \in S
  <2>1. ASSUME NEW m \in Owed PROVE m \in ToSet(log) /\ after < m
    BY <1>3 DEF OwedInv, Owed
  <2>2. QED
    BY <1>3, <2>1
<1> HIDE DEF S
<1>6. backlog' \in Seq(Ids) /\ ToSet(backlog') = S /\ Orderly(backlog', overtaken')
  BY <1>1, <1>4, AscendingBacklog
<1>7. QueueInv'
  BY <1>1, <1>2, <1>3, <1>4, <1>6, QueuesGrow, QueueInvNext DEF QueueInv, Known
<1>8. OwedInv'
  BY <1>1, <1>2, <1>5, <1>6, OwedInvNext DEF OwedInv
<1>9. QED
  BY <1>7, <1>8

LEMMA AheadMerge ==
    ASSUME NodeInv, QueueInv, OwedInv, MergeBacklog
    PROVE  QueueInv' /\ OwedInv'
<1> DEFINE S == ToSet(backlog) \cup Unmatched
<1>1. /\ pc = "merge" /\ pc' = "run" /\ backlog' = Ascending(S)
      /\ forgone' = IF after = 0 THEN forgone \cup (visible \ ToSet(buffer)) ELSE forgone
      /\ UNCHANGED <<log, buffer, unread, stored, visible, delivered, overtaken, gapped>>
  BY DEF MergeBacklog, onDisk, node
<1>2. Grows /\ Owed' \subseteq Owed
  BY <1>1, OwedNext DEF Grows
<1>3. /\ after \in delivered \cup {0}
      /\ after = 0 => backlog = <<>>
      /\ backlog \in Seq(Ids) /\ buffer \in Seq(Ids) /\ ToSet(backlog) \subseteq Known
      /\ ToSet(buffer) \subseteq visible /\ Ids \subseteq Nat \ {0} /\ Known \subseteq Ids
  BY <1>1, DurableLogAssumption DEF QueueInv, NodeInv, Known
<1>4. S = ToSet(backlog) \cup {m \in ToSet(buffer) : m > after}
  BY DEF Unmatched
<1> HIDE DEF S
<1>5. S \in SUBSET Ids /\ IsFiniteSet(S) /\ S \subseteq Known
  <2>1. IsFiniteSet(ToSet(backlog)) /\ IsFiniteSet(ToSet(buffer))
    BY <1>3, ElementsFinite
  <2>2. IsFiniteSet(ToSet(backlog) \cup ToSet(buffer))
    BY <2>1, FS_Union
  <2>3. S \in SUBSET (ToSet(backlog) \cup ToSet(buffer))
    BY <1>4
  <2>4. IsFiniteSet(S)
    BY <2>2, <2>3, FS_Subset
  <2>5. QED
    BY <1>3, <2>3, <2>4 DEF Known
<1>6. backlog' \in Seq(Ids) /\ ToSet(backlog') = S /\ Orderly(backlog', overtaken')
  BY <1>1, <1>5, AscendingBacklog
<1>7. QueueInv'
  BY <1>1, <1>2, <1>5, <1>6, QueuesGrow, QueueInvNext DEF QueueInv, Known
<1>8. ASSUME NEW m \in Owed', m \in visible PROVE m \in S
  <2>1. m \in Owed /\ m \notin forgone' /\ m \in Nat /\ m > 0
    <3>1. m \in Nat \ {0}
      BY <1>3, <1>8 DEF Known
    <3>2. m \in Owed /\ m \notin forgone'
      BY <1>2, <1>8, OwedNext
    <3>3. QED
      BY <3>1, <3>2
  <2>2. CASE after = 0
    BY <1>1, <1>4, <1>8, <2>1, <2>2
  <2>3. CASE after # 0
    <3>1. m \in ToSet(backlog) \cup ToSet(buffer)
      BY <1>1, <1>8, <2>1, <2>3 DEF OwedInv
    <3>2. after \in delivered /\ after < m
      BY <1>3, <2>1, <2>3 DEF OwedInv
    <3>3. m > after
      BY <1>3, <2>1, <3>2
    <3>4. QED
      BY <1>4, <3>1, <3>3
  <2>4. QED
    BY <2>2, <2>3
<1>9. ASSUME NEW b \in S, NEW m \in Owed' \ S PROVE b <= m
  <2>1. m \in Owed /\ m \notin visible /\ m \notin overtaken /\ m \in Ids /\ m \in Nat /\ b \in Nat
    <3>1. m \in Owed /\ m \notin visible
      BY <1>2, <1>8, <1>9
    <3>2. m \in ToSet(log) /\ m \notin overtaken
      BY <3>1 DEF Owed
    <3>3. QED
      BY <1>3, <1>5, <3>1, <3>2 DEF NodeInv
  <2>2. CASE b \in ToSet(backlog)
    BY <1>4, <1>9, <2>1, <2>2 DEF OwedInv
  <2>3. CASE b \in visible
    <3>1. b < m
      BY <2>1, <2>3 DEF NodeInv
    <3>2. QED
      BY <2>1, <3>1
  <2>4. QED
    BY <1>3, <1>4, <2>2, <2>3
<1>10. OwedInv'
  BY <1>1, <1>2, <1>6, <1>8, <1>9, OwedInvNext DEF OwedInv
<1>11. QED
  BY <1>7, <1>10

\* What is taken from the head of a queue is sent, and everything owed is ahead of it.
LEMMA AheadSendBacklog ==
    ASSUME NodeInv, QueueInv, OwedInv, SendBacklog
    PROVE  QueueInv' /\ OwedInv'
<1> DEFINE h == Head(backlog)
           r == Tail(backlog)
<1>1. /\ pc = "run" /\ pc' = "record" /\ backlog # <<>> /\ backlog' = r /\ delivered' = delivered \cup {h}
      /\ UNCHANGED <<log, buffer, after, unread, stored, visible, overtaken, gapped, forgone>>
  BY DEF SendBacklog, Deliver, onDisk, node
<1>2. Grows /\ Owed' \subseteq Owed /\ h \notin Owed'
  BY <1>1, OwedNext DEF Grows
<1>3. /\ backlog \in Seq(Ids) /\ ToSet(backlog) \subseteq Known /\ Orderly(backlog, overtaken)
      /\ Known \subseteq Nat
  BY DurableLogAssumption DEF QueueInv, NodeInv, Known
<1>4. /\ r \in Seq(Ids) /\ Part(r, backlog) /\ h \in ToSet(backlog)
      /\ ToSet(backlog) = {h} \cup ToSet(r)
      /\ \A x \in ToSet(r) : \E i \in DOMAIN backlog : 1 < i /\ backlog[i] = x
      /\ 1 \in DOMAIN backlog /\ backlog[1] = h
  BY <1>1, <1>3, TailFacts
<1> HIDE DEF h, r
<1>5. Orderly(r, overtaken)
  BY <1>3, <1>4, PartIsOrderly
<1>6. QueueInv'
  BY <1>1, <1>2, <1>3, <1>4, <1>5, QueuesGrow, QueueInvNext DEF QueueInv, Known
<1>7. ASSUME NEW m \in Owed' PROVE h < m
  <2>1. m \in Owed /\ m # h /\ m \notin overtaken /\ m \in Nat /\ h \in Nat
    <3>1. m \in Owed /\ m # h
      BY <1>2
    <3>2. m \in ToSet(log) /\ m \notin overtaken
      BY <3>1 DEF Owed
    <3>3. QED
      BY <1>3, <1>4, <3>1, <3>2 DEF NodeInv, Known
  <2>2. h <= m
    <3>1. CASE m \in ToSet(backlog)
      <4>1. m \in ToSet(r)
        BY <1>4, <2>1, <3>1
      <4>2. PICK i \in DOMAIN backlog : 1 < i /\ backlog[i] = m
        BY <1>4, <4>1
      <4>3. QED
        BY <1>3, <1>4, <2>1, <4>2 DEF Orderly
    <3>2. CASE m \notin ToSet(backlog)
      BY <1>4, <2>1, <3>2 DEF OwedInv
    <3>3. QED
      BY <3>1, <3>2
  <2>3. QED
    BY <2>1, <2>2
<1>8. \A x \in delivered', m \in Owed' : x < m
  BY <1>1, <1>2, <1>7 DEF OwedInv
<1>9. \A b \in ToSet(backlog'), m \in Owed' \ ToSet(backlog') : b <= m
  BY <1>1, <1>2, <1>4 DEF OwedInv
<1>10. OwedInv'
  BY <1>1, <1>2, <1>4, <1>8, <1>9, OwedInvNext DEF OwedInv
<1>11. QED
  BY <1>6, <1>10

LEMMA AheadReceive ==
    ASSUME NodeInv, QueueInv, OwedInv, Receive
    PROVE  QueueInv' /\ OwedInv'
<1> DEFINE h == Head(unread)
           r == Tail(unread)
<1>1. /\ pc = "run" /\ pc' = "record" /\ backlog = <<>> /\ unread # <<>> /\ unread' = r
      /\ delivered' = delivered \cup {h}
      /\ UNCHANGED <<log, buffer, after, backlog, stored, visible, overtaken, gapped, forgone>>
  BY DEF Receive, Deliver, onDisk, node
<1>2. Grows /\ Owed' \subseteq Owed /\ h \notin Owed'
  BY <1>1, OwedNext DEF Grows
<1>3. /\ unread \in Seq(Ids) /\ ToSet(unread) \subseteq visible /\ Orderly(unread, overtaken)
      /\ visible \subseteq Nat
  BY DurableLogAssumption DEF QueueInv, NodeInv
<1>4. /\ r \in Seq(Ids) /\ Part(r, unread) /\ h \in ToSet(unread)
      /\ ToSet(unread) = {h} \cup ToSet(r)
      /\ \A x \in ToSet(r) : \E i \in DOMAIN unread : 1 < i /\ unread[i] = x
      /\ 1 \in DOMAIN unread /\ unread[1] = h
  BY <1>1, <1>3, TailFacts
<1> HIDE DEF h, r
<1>5. Orderly(r, overtaken) /\ ToSet(backlog) = {}
  BY <1>1, <1>3, <1>4, PartIsOrderly, EmptyFacts
<1>6. QueueInv'
  BY <1>1, <1>2, <1>3, <1>4, <1>5, QueuesGrow, QueueInvNext DEF QueueInv, Known
<1>7. ASSUME NEW m \in Owed' PROVE h < m
  <2>1. m \in Owed /\ m # h /\ m \notin overtaken /\ m \in Ids /\ m \in Nat /\ h \in Nat
    <3>1. m \in Owed /\ m # h
      BY <1>2
    <3>2. m \in ToSet(log) /\ m \notin overtaken
      BY <3>1 DEF Owed
    <3>3. QED
      BY <1>3, <1>4, <3>1, <3>2, DurableLogAssumption DEF NodeInv
  <2>2. CASE m \notin visible
    BY <1>3, <1>4, <2>1, <2>2 DEF NodeInv
  <2>3. CASE m \in visible
    <3>1. m \in ToSet(r)
      BY <1>1, <1>4, <1>5, <2>1, <2>3 DEF OwedInv
    <3>2. PICK i \in DOMAIN unread : 1 < i /\ unread[i] = m
      BY <1>4, <3>1
    <3>3. h <= m
      BY <1>3, <1>4, <2>1, <3>2 DEF Orderly
    <3>4. QED
      BY <2>1, <3>3
  <2>4. QED
    BY <2>2, <2>3
<1>8. \A x \in delivered', m \in Owed' : x < m
  BY <1>1, <1>2, <1>7 DEF OwedInv
<1>9. OwedInv'
  BY <1>1, <1>2, <1>4, <1>5, <1>8, OwedInvNext DEF OwedInv
<1>10. QED
  BY <1>6, <1>9

LEMMA RecoveredFacts ==
    ASSUME NodeInv PROVE Recovered \in Seq(Ids) /\ Part(Recovered, buffer)
<1>1. buffer \in Seq(Ids)
  BY DEF NodeInv
<1>2. CASE last = 0
  BY <1>1, <1>2, WholeIsPart DEF Recovered
<1>3. CASE last # 0 /\ last \notin ToSet(buffer)
  BY <1>1, <1>3, EmptyFacts DEF Recovered
<1>4. CASE last # 0 /\ last \in ToSet(buffer)
  <2> DEFINE k == CHOOSE i \in 1 .. Len(buffer) : buffer[i] = last
  <2>1. k \in 1 .. Len(buffer)
    <3>1. \E i \in 1 .. Len(buffer) : buffer[i] = last
      BY <1>1, <1>4 DEF ToSet
    <3>2. QED
      BY <3>1
  <2>2. Recovered = SubSeq(buffer, 1 + k, Len(buffer))
    BY <1>4 DEF Recovered
  <2> HIDE DEF k
  <2>3. k \in 0 .. Len(buffer) /\ 1 + k = k + 1
    BY <1>1, <2>1
  <2>4. SubSeq(buffer, k + 1, Len(buffer)) \in Seq(Ids) /\ Part(SubSeq(buffer, k + 1, Len(buffer)), buffer)
    BY <1>1, <2>3, SuffixFacts
  <2>5. QED
    BY <2>2, <2>3, <2>4
<1>5. QED
  BY <1>2, <1>3, <1>4

LEMMA AheadRecover ==
    ASSUME NodeInv, QueueInv, OwedInv, Recover
    PROVE  QueueInv' /\ OwedInv'
<1> DEFINE s == Recovered
<1>1. /\ pc = "run" /\ backlog = <<>> /\ backlog' = s /\ unread' = <<>>
      /\ gapped' = gapped \cup (ToSet(unread) \ ToSet(s))
      /\ UNCHANGED <<log, pc, buffer, after, stored, visible, delivered, overtaken, forgone>>
  BY DEF Recover, onDisk, node
<1>2. Grows /\ Owed' \subseteq Owed
  BY <1>1, OwedNext DEF Grows
<1>3. s \in Seq(Ids) /\ Part(s, buffer)
  BY RecoveredFacts
<1> HIDE DEF s
<1>4. Orderly(s, overtaken) /\ ToSet(s) \subseteq visible
  <2>1. Orderly(s, overtaken)
    BY <1>3, PartIsOrderly DEF NodeInv
  <2>2. QED
    BY <1>3, <2>1 DEF NodeInv, Part
<1>5. <<>> \in Seq(Ids) /\ ToSet(<<>>) = {} /\ Orderly(<<>>, overtaken)
  BY EmptyFacts DEF Orderly
<1>6. QueueInv'
  BY <1>1, <1>2, <1>3, <1>4, <1>5, QueuesGrow, QueueInvNext DEF QueueInv, Known
<1>7. ASSUME NEW m \in Owed', m \in visible PROVE m \in ToSet(s)
  <2>1. m \in Owed /\ m \notin gapped'
    BY <1>2, <1>7, OwedNext
  <2>2. m \in ToSet(unread)
    BY <1>1, <1>5, <1>7, <2>1 DEF OwedInv
  <2>3. QED
    BY <1>1, <2>1, <2>2
<1>8. ASSUME NEW b \in ToSet(s), NEW m \in Owed' \ ToSet(s) PROVE b <= m
  <2>1. m \in Owed /\ m \notin visible
    BY <1>2, <1>7, <1>8
  <2>2. m \notin overtaken /\ m \in Ids /\ b \in visible
    BY <1>4, <1>8, <2>1 DEF Owed, NodeInv
  <2>3. b < m /\ b \in Nat /\ m \in Nat
    BY <2>1, <2>2, DurableLogAssumption DEF NodeInv
  <2>4. QED
    BY <2>3
<1>9. OwedInv'
  BY <1>1, <1>2, <1>7, <1>8, OwedInvNext DEF OwedInv
<1>10. QED
  BY <1>6, <1>9

LEMMA AheadInit == LogInit => AheadInv
<1> SUFFICES ASSUME LogInit PROVE AheadInv
  OBVIOUS
<1>1. <<>> \in Seq(Ids) /\ ToSet(<<>>) = {} /\ \A O : Orderly(<<>>, O)
  BY EmptyFacts DEF Orderly
<1>2. NodeInv
  BY <1>1 DEF LogInit, NodeInv, Known
<1>3. QueueInv
  BY <1>1 DEF LogInit, QueueInv, Known
<1>4. OwedInv
  BY <1>1 DEF LogInit, OwedInv, Owed
<1>5. QED
  BY <1>2, <1>3, <1>4 DEF AheadInv, LogInit, OffsetWasDelivered

LEMMA AheadStep ==
    ASSUME AheadInv, [LogNext]_logVars PROVE NodeInv' /\ QueueInv' /\ OwedInv'
<1>1. NodeInv /\ QueueInv /\ OwedInv /\ OffsetWasDelivered
  BY DEF AheadInv
<1>2. \A n \in Ids : pub[n] \in {"committed", "stored"} => n \notin visible
  BY <1>1 DEF NodeInv
<1>3. Part(log, log) /\ log \in Seq(Ids) /\ pub = [n \in Ids |-> pub[n]]
  BY <1>1, WholeIsPart DEF NodeInv
<1>4. ASSUME NEW m \in Ids, Accept(m) \/ PersistFails(m) \/ Retain(m) PROVE NodeInv' /\ QueueInv' /\ OwedInv'
  <2>1. /\ UNCHANGED <<buffer, after, backlog, unread, pc, stored, visible, delivered, overtaken, gapped, forgone>>
        /\ log' \in {log, Pruned(log)}
        /\ \/ pub[m] = "idle" /\ pub' = [pub EXCEPT ![m] = "accepted"]
           \/ pub[m] = "accepted" /\ pub' = [pub EXCEPT ![m] = "stored"]
           \/ pub[m] = "committed" /\ pub' = [pub EXCEPT ![m] = "stored"]
    BY <1>4 DEF Accept, PersistFails, Retain, onDisk, session, past
  <2>2. log' \in Seq(Ids) /\ Part(log', log)
    BY <1>1, <1>3, <2>1, PrunedFacts
  <2>3. /\ pub' = [n \in Ids |-> pub'[n]]
        /\ \A n \in Ids : n # m => pub'[n] = pub[n]
        /\ pub'[m] \in {"accepted", "stored"}
        /\ pub'[m] = "accepted" => pub[m] = "idle"
        /\ pub[m] \in {"idle", "accepted", "committed"}
    BY <1>3, <2>1
  <2>4. m \notin visible
    BY <1>1, <2>3 DEF NodeInv, Known
  <2>5. \A n \in Ids : /\ pub'[n] \in {"idle", "accepted"} => pub[n] \in {"idle", "accepted"}
                       /\ pub'[n] \in {"committed", "stored"} => n \notin visible
    BY <1>2, <2>3, <2>4
  <2>6. NodeInv' /\ Grows
    BY <1>1, <2>1, <2>2, <2>3, <2>5, NodeKeeps
  <2>7. Owed' \subseteq Owed
    BY <2>1, <2>2, OwedNext DEF Part
  <2>8. QED
    BY <1>1, <2>1, <2>6, <2>7, AheadQuiet
<1>5. ASSUME NEW m \in Ids, Persist(m) PROVE NodeInv' /\ QueueInv' /\ OwedInv'
  BY <1>1, <1>5, NodePersist, AheadPersist
<1>6. ASSUME NEW m \in Ids, Send(m) PROVE NodeInv' /\ QueueInv' /\ OwedInv'
  BY <1>1, <1>6, NodeSend, AheadSend
<1>7. ASSUME NEW old, Expire(old) PROVE NodeInv' /\ QueueInv' /\ OwedInv'
  <2>1. UNCHANGED <<pub, buffer, after, backlog, unread, pc, stored, visible, delivered, overtaken, gapped, forgone>>
    BY <1>7 DEF Expire, node, session, past
  <2>2. log' \in Seq(Ids) /\ Part(log', log)
    BY <1>1, <1>7, ExpireFacts
  <2>3. NodeInv' /\ Grows
    BY <1>1, <1>2, <1>3, <2>1, <2>2, NodeKeeps
  <2>4. Owed' \subseteq Owed
    BY <2>1, <2>2, OwedNext DEF Part
  <2>5. QED
    BY <1>1, <2>1, <2>3, <2>4, AheadQuiet
<1>8. ASSUME UNCHANGED <<log, pub, buffer, stored, visible, overtaken>> PROVE NodeInv' /\ Grows
  BY <1>1, <1>2, <1>3, <1>8, NodeKeeps
<1>9. ASSUME \/ Record \/ UNCHANGED logVars \/ \E m \in Ids : LateRecord(m)
      PROVE  NodeInv' /\ QueueInv' /\ OwedInv'
  <2>1. /\ UNCHANGED <<log, pub, buffer, after, backlog, unread, stored, visible, delivered, overtaken, gapped, forgone>>
        /\ pc' = pc \/ {pc, pc'} \subseteq {"run", "record"}
    BY <1>9 DEF Record, LateRecord, logVars, onDisk, node, session, past
  <2>2. NodeInv' /\ Grows
    BY <1>8, <2>1
  <2>3. Owed' \subseteq Owed
    BY <2>1, OwedNext
  <2>4. QED
    BY <1>1, <2>1, <2>2, <2>3, AheadQuiet
<1>10. CASE Connect \/ ReadRows \/ MergeBacklog \/ SendBacklog \/ Receive \/ Recover
  <2>1. UNCHANGED <<log, pub, buffer, stored, visible, overtaken>>
    BY <1>10 DEF Connect, ReadRows, MergeBacklog, SendBacklog, Receive, Recover, Deliver, onDisk, node, past
  <2>2. QueueInv' /\ OwedInv'
    BY <1>1, <1>10, AheadConnect, AheadRead, AheadMerge, AheadSendBacklog, AheadReceive, AheadRecover
  <2>3. QED
    BY <1>8, <2>1, <2>2
<1>11. CASE Disconnect
  <2>1. EndSession /\ UNCHANGED <<log, pub, buffer, stored, visible, delivered, overtaken, gapped, forgone>>
    BY <1>11 DEF Disconnect, onDisk, node, past
  <2>2. NodeInv' /\ Grows
    BY <1>8, <2>1
  <2>3. Owed' \subseteq Owed
    BY <2>1, OwedNext
  <2>4. QED
    BY <1>1, <2>1, <2>2, <2>3, AheadEnd
<1>12. CASE Restart
  <2>1. EndSession /\ UNCHANGED <<delivered, gapped, forgone>>
    BY <1>12 DEF Restart
  <2>2. NodeInv' /\ Grows /\ ToSet(log') \subseteq ToSet(log)
    BY <1>1, <1>12, NodeRestart
  <2>3. Owed' \subseteq Owed
    BY <2>1, <2>2, OwedNext DEF Grows
  <2>4. QED
    BY <1>1, <2>1, <2>2, <2>3, AheadEnd
<1>13. QED
  BY <1>4, <1>5, <1>6, <1>7, <1>9, <1>10, <1>11, <1>12 DEF LogNext, Publishing, Forwarding

\* What is on disk and was not sent is still ahead of the recorded position, but for the
\* exceptions the property names, whatever is published in whatever order, however sessions
\* end and overlap with late writes, however often the node restarts and rows expire or are
\* pruned, and for every capacity (subscribe_durable, spawn_durable_forwarder, record_offset).
THEOREM NothingIsSkipped == LogSpec => []NeverSkipped
<1>1. LogInit => AheadInv /\ RecordedWasSent
  BY AheadInit, RecordedWasSentInit
<1>2. AheadInv /\ RecordedWasSent /\ [LogNext]_logVars => AheadInv' /\ RecordedWasSent'
  <2> SUFFICES ASSUME AheadInv, RecordedWasSent, [LogNext]_logVars PROVE AheadInv' /\ RecordedWasSent'
    OBVIOUS
  <2>1. NodeInv' /\ QueueInv' /\ OwedInv' /\ RecordedWasSent'
    BY AheadStep, RecordedWasSentStep
  <2>2. QED
    BY <2>1 DEF AheadInv, RecordedWasSent
<1>3. AheadInv => NeverSkipped
  <2> SUFFICES ASSUME AheadInv, NEW m \in ToSet(log) \ delivered, offset # 0,
                      m \notin overtaken \cup gapped \cup forgone
               PROVE  m > offset
    BY DEF NeverSkipped
  <2>1. m \in Owed /\ offset \in delivered
    BY DEF AheadInv, Owed, OffsetWasDelivered
  <2>2. offset < m /\ offset \in Nat /\ m \in Nat
    BY <2>1, DurableLogAssumption DEF AheadInv, NodeInv, QueueInv, OwedInv, Known
  <2>3. QED
    BY <2>2
<1>4. QED
  BY <1>1, <1>2, <1>3, PTL DEF LogSpec

-----------------------------------------------------------------------------
(* Readiness                                                                *)

\* Why a node that is ready has read its store: how far the start-up must be before it
\* says so, and that a store was read before a node that waits for it goes on.
ReadyInv ==
    /\ phase \in {"boot", "found", "configured", "bound", "assembled", "rehydrated"} => ~ready
    /\ phase = "rehydrated" /\ Given(config, "data_dir") => loaded = "yes"
    /\ phase \in {"spawned", "serving"} /\ start.entry = "run" => ready
    /\ ReadyMeansLoaded

LEMMA ReadyInvInit == StartupInit => ReadyInv
<1> SUFFICES ASSUME StartupInit PROVE ReadyInv
  OBVIOUS
<1>1. phase \in {"boot", "bound"} /\ ready = FALSE /\ answer.path = "none"
  BY DEF StartupInit
<1> QED BY <1>1 DEF ReadyInv, ReadyMeansLoaded

\* The steps of reload, edits and signals leave alone what readiness is about; a signal may
\* only end the process.
LEMMA ReadyInvStep ==
    ASSUME ReadyInv, [StartupNext]_startupVars PROVE ReadyInv'
<1> USE DEF ReadyInv, ReadyMeansLoaded, Given, Then, At
<1>1. CASE UNCHANGED startupVars
  BY <1>1 DEF startupVars
<1>2. CASE FindConfig \/ LoadConfig
  <2>1. /\ phase \in {"boot", "found"} /\ phase' \in {"found", "configured", "refused"}
        /\ UNCHANGED <<start, ready, loaded, answer>>
    BY <1>2 DEF FindConfig, LoadConfig, httpVars
  <2> QED BY <2>1
<1>3. CASE Bind \/ Assemble
  <2>1. /\ phase \in {"configured", "bound"} /\ phase' \in {"bound", "assembled"}
        /\ UNCHANGED <<start, config, ready, loaded, answer>>
    BY <1>3 DEF Bind, Assemble, httpVars
  <2> QED BY <2>1
<1>4. CASE Rehydrate
  <2>1. /\ phase = "assembled" /\ phase' \in {"rehydrated", "refused"}
        /\ phase' = "rehydrated" /\ Given(config, "data_dir") => loaded' = "yes"
        /\ UNCHANGED <<start, config, ready, answer>>
    BY <1>4 DEF Rehydrate, httpVars
  <2> QED BY <2>1
<1>5. CASE RehydrateInBackground
  <2>1. /\ phase \in {"spawned", "serving"} /\ start.entry = "spawn"
        /\ loaded' \in {"yes", "failed"} /\ ready' = TRUE
        /\ UNCHANGED <<start, phase, config, answer>>
    BY <1>5 DEF RehydrateInBackground, Background, httpVars
  <2> QED BY <2>1
<1>6. CASE SpawnTasks
  <2>1. /\ phase' = "spawned"
        /\ phase = "rehydrated" \/ (phase = "assembled" /\ Background)
        /\ ready' = IF Background THEN ready ELSE TRUE
        /\ UNCHANGED <<start, config, loaded, answer>>
    BY <1>6 DEF SpawnTasks, httpVars
  <2>2. CASE Background
    BY <2>1, <2>2 DEF Background
  <2>3. CASE ~Background
    <3>1. phase = "rehydrated" /\ ready' = TRUE
      BY <2>1, <2>3
    <3> QED BY <2>1, <3>1
  <2> QED BY <2>2, <2>3
<1>7. CASE Serve \/ AcceptFails \/ StartFails
  <2>1. /\ phase' \in {"serving", "stopped", "refused"}
        /\ phase' = "serving" => phase = "spawned"
        /\ UNCHANGED <<start, config, ready, loaded, answer>>
    BY <1>7 DEF Serve, AcceptFails, StartFails, httpVars
  <2> QED BY <2>1
<1>8. CASE CheckFile \/ Reload \/ Apply \/ \E contents \in Edits : Edit(contents)
  <2>1. UNCHANGED <<start, phase, config, ready, loaded, answer>>
    BY <1>8 DEF CheckFile, Reload, Apply, Applies, TakeReload, SetAcl, Reconcile,
       DisconnectUnless, SetFilter, Announce, Edit, bootVars, httpVars
  <2> QED BY <2>1
<1>9. CASE Sighup
  <2>1. phase' \in {"killed", phase} /\ UNCHANGED <<start, config, ready, loaded, answer>>
    BY <1>9 DEF Sighup, httpVars
  <2> QED BY <2>1
<1>10. ASSUME NEW path \in {"/livez", "/readyz", "/metrics"}, NEW authorized \in BOOLEAN,
              Request(path, authorized)
       PROVE  ReadyInv'
  <2>1. /\ phase = "serving" /\ start.entry = "run"
        /\ answer' = [path |-> path, authorized |-> authorized,
                      status |-> Status(path, authorized)]
        /\ UNCHANGED <<start, phase, config, ready, loaded>>
    BY <1>10 DEF Request, bootVars
  <2>2. path = "/readyz" => Status(path, authorized) = 200
    BY <2>1 DEF Status
  <2> QED BY <2>1, <2>2
<1> QED
  BY <1>1, <1>2, <1>3, <1>4, <1>5, <1>6, <1>7, <1>8, <1>9, <1>10 DEF StartupNext, StartStep

\* A node says it is ready only after the attempt to read its store, and one that answers
\* /readyz has read it (mark_ready, rehydrate_from_store, readyz), for every command line,
\* config file, sequence of edits and number of signals.
THEOREM ReadyNodesAreLoaded == StartupSpec => []ReadyMeansLoaded
<1>1. StartupSpec => []ReadyInv
  BY ReadyInvInit, ReadyInvStep, PTL DEF StartupSpec
<1>2. ReadyInv => ReadyMeansLoaded
  BY DEF ReadyInv
<1> QED BY <1>1, <1>2, PTL
-----------------------------------------------------------------------------
(* Reloads                                                                  *)

Stages == {"none", "idle", "topic_acl", "peer_topic_acl", "reconcile", "disconnect",
           "allow_peer", "peer_topic_filter", "announce"}
Settings(s) == s = [f \in Reloadables |-> s[f]]
OfOneFile(s) == \E file \in seen : s = Acls(Merge(file))
Unspawned == {"boot", "found", "configured", "bound", "assembled", "rehydrated"}

ReloadTypes ==
    /\ applier \in Stages
    /\ Settings(live) /\ Settings(enforced) /\ Settings(acls)
    /\ watch = [value |-> watch.value, unseen |-> watch.unseen]

\* What a read of the file finds was a version of it: a file that is gone is read as an
\* empty one only where none was found at the start, or between a check and its read.
FileIsSeen ==
    disk # Garbage =>
        /\ disk # Missing => disk \in seen
        /\ disk = Missing /\ (~existed \/ InWindow) => Empty \in seen

\* How far the start-up is where the configuration, the reloader and the applier exist.
StartedInOrder ==
    /\ phase = "boot" => ~existed
    /\ reloader # "none" =>
           /\ phase \notin {"boot", "found"}
           /\ \E file \in seen : config = Merge(file)
    /\ applier # "none" => reloader # "none" /\ phase \notin Unspawned
    /\ phase \in {"assembled", "rehydrated"} => live = Acls(config) /\ enforced = Acls(config)

\* What was sent and what is being applied are the settings of one file.
OnItsWay ==
    /\ watch.unseen => OfOneFile(watch.value)
    /\ applier \notin {"none", "idle"} => OfOneFile(acls)

\* Which settings the applier has installed and which it has held the links and the
\* connections to, at each of its statements.
Agree(s, f) == s[f] = acls[f]
Applied ==
    /\ applier \in {"peer_topic_acl", "reconcile", "disconnect", "allow_peer",
                    "peer_topic_filter", "announce"} => Agree(live, "topic_acl")
    /\ applier \in {"reconcile", "disconnect", "allow_peer", "peer_topic_filter", "announce"} =>
           Agree(live, "peer_topic_acl")
    /\ applier \in {"disconnect", "allow_peer", "peer_topic_filter", "announce"} =>
           Agree(enforced, "topic_acl") /\ Agree(enforced, "peer_topic_acl")
    /\ applier \in {"allow_peer", "peer_topic_filter", "announce"} => Agree(enforced, "allow_peer")
    /\ applier \in {"peer_topic_filter", "announce"} => Agree(live, "allow_peer")
    /\ applier = "announce" => Agree(live, "peer_topic_filter")
    /\ applier \notin {"none", "announce"} =>
           enforced["peer_topic_filter"] = live["peer_topic_filter"]

WholeInv ==
    /\ ReloadTypes
    /\ FileIsSeen
    /\ StartedInOrder
    /\ OnItsWay
    /\ Applied
    /\ ReloadsAreWhole

LEMMA AclsAreSettings == ASSUME NEW s PROVE Settings(Acls(s))
BY DEF Settings, Acls

\* Two lists of settings that agree on each of the four are the same.
LEMMA SameSettings ==
    ASSUME NEW s, NEW t, Settings(s), Settings(t),
           s["topic_acl"] = t["topic_acl"], s["peer_topic_acl"] = t["peer_topic_acl"],
           s["allow_peer"] = t["allow_peer"], s["peer_topic_filter"] = t["peer_topic_filter"]
    PROVE  s = t
<1>1. \A f \in Reloadables : s[f] = t[f]
  BY DEF Reloadables
<1>2. [f \in Reloadables |-> s[f]] = [f \in Reloadables |-> t[f]]
  BY <1>1
<1> QED BY <1>2 DEF Settings

LEMMA WholeInvInit == StartupInit => WholeInv
<1> SUFFICES ASSUME StartupInit PROVE WholeInv
  OBVIOUS
<1>1. PICK s \in Starts :
        /\ disk = s.file /\ phase \in {"boot", "bound"}
        /\ seen = IF s.file = Missing THEN {Empty} ELSE {s.file} \ {Garbage}
  BY DEF StartupInit
<1>2. /\ existed = FALSE /\ reloader = "none" /\ applier = "none"
      /\ live = None /\ enforced = None /\ acls = None
      /\ watch = [value |-> None, unseen |-> FALSE]
  BY DEF StartupInit
<1>3. ReloadTypes
  <2>1. Settings(None)
    BY DEF Settings, None
  <2> QED BY <1>2, <2>1 DEF ReloadTypes, Stages
<1>4. FileIsSeen
  BY <1>1 DEF FileIsSeen
<1>5. StartedInOrder
  BY <1>1, <1>2 DEF StartedInOrder
<1> QED
  BY <1>2, <1>3, <1>4, <1>5 DEF WholeInv, OnItsWay, Applied, ReloadsAreWhole

\* Steps that touch neither the file, the settings nor the tasks of a reload.
LEMMA QuietStep ==
    ASSUME WholeInv,
           UNCHANGED <<start, disk, existed, config, live, enforced, reloader, watch, applier, acls,
                       seen>>,
           /\ phase' = "found" => phase = "found"
           /\ phase' = "boot" => phase = "boot"
           /\ phase' \in Unspawned => phase \in Unspawned
           /\ phase' \in {"assembled", "rehydrated"} => phase \in {"assembled", "rehydrated"}
    PROVE  WholeInv'
<1>1. ReloadTypes'
  BY DEF WholeInv, ReloadTypes, Settings
<1>2. FileIsSeen'
  BY DEF WholeInv, FileIsSeen, InWindow, At, Empty
<1>3. StartedInOrder'
  BY DEF WholeInv, StartedInOrder, Merge, Acls, Given
<1>4. OnItsWay'
  <2>1. \A file : Acls(Merge(file))' = Acls(Merge(file))
    BY DEF Merge, Acls, Given
  <2> QED BY <2>1 DEF WholeInv, OnItsWay, OfOneFile
<1>5. Applied'
  BY DEF WholeInv, Applied, Agree
<1>6. ReloadsAreWhole'
  BY DEF WholeInv, ReloadsAreWhole, Merge, Acls, Given
<1> QED BY <1>1, <1>2, <1>3, <1>4, <1>5, <1>6 DEF WholeInv

\* Versions of the file are only added.
LEMMA SeenOnlyGrows ==
    ASSUME UNCHANGED start, seen \subseteq seen', NEW s PROVE OfOneFile(s) => OfOneFile(s)'
BY DEF OfOneFile, Merge, Given, Acls

\* Nothing is taken and nothing is sent while there is no applier.
LEMMA NoApplierKeepsWhole ==
    ASSUME OnItsWay, applier' = "none", UNCHANGED <<start, seen, watch>>
    PROVE  OnItsWay' /\ Applied' /\ ReloadsAreWhole'
<1>1. OfOneFile(watch.value) => OfOneFile(watch.value)'
  BY SeenOnlyGrows
<1> QED BY <1>1 DEF OnItsWay, Applied, ReloadsAreWhole

\* main reads the file in the window in which whatever it finds was seen.
LEMMA BootKeepsWhole ==
    ASSUME WholeInv, FindConfig \/ LoadConfig \/ Assemble \/ SpawnTasks
    PROVE  WholeInv'
<1> USE DEF WholeInv, At, Then
<1>1. CASE FindConfig
  <2>1. /\ phase = "boot" /\ phase' = "found" /\ existed' = (disk # Missing)
        /\ UNCHANGED <<start, disk, config, live, enforced, reloader, watch, applier, acls, seen>>
    BY <1>1 DEF FindConfig, reloadVars, applyVars, worldVars
  <2>2. reloader = "none" /\ applier = "none" /\ ~existed
    BY <2>1 DEF StartedInOrder, Unspawned
  <2>3. FileIsSeen'
    BY <2>1, <2>2 DEF FileIsSeen, Empty
  <2>4. StartedInOrder'
    BY <2>1, <2>2 DEF StartedInOrder
  <2>5. ReloadTypes'
    BY <2>1 DEF ReloadTypes, Settings
  <2>6. OnItsWay' /\ Applied' /\ ReloadsAreWhole'
    BY <2>1, <2>2, NoApplierKeepsWhole
  <2> QED BY <2>3, <2>4, <2>5, <2>6
<1>2. CASE LoadConfig
  <2>1. /\ phase = "found"
        /\ UNCHANGED <<start, disk, existed, live, enforced, watch, applier, acls, seen>>
        /\ \/ /\ disk # Garbage /\ config' = Merge(Contents) /\ reloader' = "idle"
              /\ phase' = "configured"
           \/ phase' = "refused" /\ UNCHANGED <<config, reloader>>
    BY <1>2 DEF LoadConfig, applyVars, worldVars
  <2>2. reloader = "none" /\ applier = "none"
    BY <2>1 DEF StartedInOrder, Unspawned
  <2>3. disk # Garbage => Contents \in seen
    BY <2>1 DEF FileIsSeen, InWindow, Contents
  <2>4. FileIsSeen'
    BY <2>1, <2>2 DEF FileIsSeen, InWindow, Empty
  <2>5. StartedInOrder'
    BY <2>1, <2>2, <2>3 DEF StartedInOrder, Merge, Given
  <2>6. ReloadTypes'
    BY <2>1 DEF ReloadTypes, Settings
  <2>7. OnItsWay' /\ Applied' /\ ReloadsAreWhole'
    BY <2>1, <2>2, NoApplierKeepsWhole
  <2> QED BY <2>4, <2>5, <2>6, <2>7
<1>3. CASE Assemble
  <2>1. /\ phase = "bound" /\ phase' = "assembled"
        /\ live' = Acls(config) /\ enforced' = Acls(config)
        /\ UNCHANGED <<start, disk, existed, config, reloader, watch, applier, acls, seen>>
    BY <1>3 DEF Assemble, reloadVars, worldVars
  <2>2. applier = "none"
    BY <2>1 DEF StartedInOrder, Unspawned
  <2>3. FileIsSeen'
    BY <2>1 DEF FileIsSeen, InWindow, Empty
  <2>4. StartedInOrder'
    BY <2>1, <2>2 DEF StartedInOrder, Merge, Given, Acls
  <2>5. ReloadTypes'
    BY <2>1, AclsAreSettings DEF ReloadTypes, Settings
  <2>6. OnItsWay' /\ Applied' /\ ReloadsAreWhole'
    BY <2>1, <2>2, NoApplierKeepsWhole
  <2> QED BY <2>3, <2>4, <2>5, <2>6
<1>4. CASE SpawnTasks
  <2>1. /\ phase \in {"rehydrated", "assembled"} /\ phase' = "spawned"
        /\ applier' = IF reloader = "none" THEN "none" ELSE "idle"
        /\ UNCHANGED <<start, disk, existed, config, live, enforced, reloader, watch, acls, seen>>
    BY <1>4 DEF SpawnTasks, reloadVars, worldVars
  <2>2. FileIsSeen'
    BY <2>1 DEF FileIsSeen, InWindow, Empty
  <2>3. StartedInOrder'
    BY <2>1 DEF StartedInOrder, Unspawned, Merge, Given
  <2>4. ReloadTypes'
    BY <2>1 DEF ReloadTypes, Settings, Stages
  <2>5. live = Acls(config) /\ enforced = Acls(config)
    BY <2>1 DEF StartedInOrder
  <2>6. reloader # "none" => OfOneFile(live)
    BY <2>5 DEF StartedInOrder, OfOneFile
  <2>7. OfOneFile(watch.value) => OfOneFile(watch.value)'
    BY <2>1, SeenOnlyGrows
  <2>8. OfOneFile(live) => OfOneFile(live)'
    BY <2>1, SeenOnlyGrows
  <2>9. OnItsWay' /\ Applied'
    BY <2>1, <2>5, <2>7 DEF OnItsWay, Applied
  <2>10. ReloadsAreWhole'
    BY <2>1, <2>5, <2>6, <2>8 DEF ReloadsAreWhole, OfOneFile
  <2> QED BY <2>2, <2>3, <2>4, <2>9, <2>10
<1> QED BY <1>1, <1>2, <1>3, <1>4

\* The reloader and whoever edits the file or sends the signal.
LEMMA ReloaderKeepsWhole ==
    ASSUME WholeInv, CheckFile \/ Reload \/ Sighup \/ \E contents \in Edits : Edit(contents)
    PROVE  WholeInv'
<1> USE DEF WholeInv, At, Then
<1>1. CASE CheckFile
  <2>1. /\ reloader = "idle"
        /\ reloader' = IF existed /\ disk = Missing THEN "idle" ELSE "checked"
        /\ UNCHANGED <<start, disk, existed, phase, config, live, enforced, watch, applier, acls,
                       seen>>
    BY <1>1 DEF CheckFile, bootVars, applyVars, worldVars
  <2>2. FileIsSeen'
    BY <2>1 DEF FileIsSeen, InWindow, Empty
  <2>3. StartedInOrder'
    BY <2>1 DEF StartedInOrder, Merge, Given, Acls
  <2>4. ReloadTypes'
    BY <2>1 DEF ReloadTypes, Settings
  <2>5. OnItsWay'
    <3>1. \A file : Acls(Merge(file))' = Acls(Merge(file))
      BY <2>1 DEF Merge, Acls, Given
    <3> QED BY <2>1, <3>1 DEF OnItsWay, OfOneFile
  <2>6. Applied'
    BY <2>1 DEF Applied, Agree
  <2>7. ReloadsAreWhole'
    BY <2>1 DEF ReloadsAreWhole, Merge, Acls, Given
  <2> QED BY <2>2, <2>3, <2>4, <2>5, <2>6, <2>7
<1>2. CASE Reload
  <2>1. /\ reloader = "checked" /\ reloader' = "idle"
        /\ watch' \in {watch, [value |-> Acls(Merge(Contents)), unseen |-> TRUE]}
        /\ watch' # watch => disk # Garbage
        /\ UNCHANGED <<start, disk, existed, phase, config, live, enforced, applier, acls, seen>>
    BY <1>2 DEF Reload, bootVars, applyVars, worldVars
  <2>2. disk # Garbage => Contents \in seen
    BY <2>1 DEF FileIsSeen, InWindow, Contents
  <2>3. FileIsSeen'
    BY <2>1 DEF FileIsSeen, InWindow, Empty
  <2>4. StartedInOrder'
    BY <2>1 DEF StartedInOrder, Merge, Given, Acls
  <2>5. ReloadTypes'
    BY <2>1 DEF ReloadTypes, Settings
  <2>6. watch'.unseen => OfOneFile(watch'.value)
    BY <2>1, <2>2 DEF OnItsWay, OfOneFile
  <2>7. \A s : OfOneFile(s) => OfOneFile(s)'
    BY <2>1, SeenOnlyGrows
  <2>8. OnItsWay'
    BY <2>1, <2>6, <2>7 DEF OnItsWay
  <2>9. Applied' /\ ReloadsAreWhole'
    BY <2>1, <2>7 DEF Applied, Agree, ReloadsAreWhole, OfOneFile
  <2> QED BY <2>3, <2>4, <2>5, <2>8, <2>9
<1>3. CASE Sighup
  <2>1. /\ phase' \in {"killed", phase}
        /\ UNCHANGED <<start, disk, existed, config, live, enforced, reloader, watch, applier, acls,
                       seen>>
    BY <1>3 DEF Sighup, applyVars
  <2> QED BY <2>1, QuietStep DEF Unspawned
<1>4. ASSUME NEW contents \in Edits, Edit(contents) PROVE WholeInv'
  <2>1. /\ disk' = contents
        /\ seen' = CASE contents = Garbage -> seen
                     [] contents = Missing ->
                            IF existed /\ ~InWindow THEN seen ELSE seen \cup {Empty}
                     [] OTHER -> seen \cup {contents}
        /\ UNCHANGED <<start, existed, phase, config, live, enforced, reloader, watch, applier,
                       acls>>
    BY <1>4 DEF Edit, bootVars, reloadVars, applyVars
  <2>2. seen \subseteq seen'
    BY <2>1
  <2>3. FileIsSeen'
    BY <2>1 DEF FileIsSeen, InWindow, Empty
  <2>4. StartedInOrder'
    BY <2>1, <2>2 DEF StartedInOrder, Merge, Given, Acls
  <2>5. ReloadTypes'
    BY <2>1 DEF ReloadTypes, Settings
  <2>6. \A s : OfOneFile(s) => OfOneFile(s)'
    BY <2>1, <2>2 DEF OfOneFile, Merge, Given, Acls
  <2>7. OnItsWay' /\ Applied' /\ ReloadsAreWhole'
    BY <2>1, <2>6 DEF OnItsWay, Applied, Agree, ReloadsAreWhole, OfOneFile
  <2> QED BY <2>3, <2>4, <2>5, <2>7
<1> QED BY <1>1, <1>2, <1>3, <1>4

\* One statement of the applier: the file, the reloader and the start-up are left alone, and
\* what is in the channel or in hand is what was.
LEMMA ApplierFrame ==
    ASSUME WholeInv, NEW now, NEW next, Applies(now, next), now # "none"
    PROVE  /\ FileIsSeen'
           /\ reloader' # "none" /\ phase' \notin Unspawned
           /\ StartedInOrder'
           /\ \A s : OfOneFile(s) => OfOneFile(s)'
<1>1. /\ applier = now /\ applier' = next
      /\ UNCHANGED <<start, disk, existed, phase, config, reloader, seen>>
  BY DEF Applies, bootVars, worldVars
<1>2. FileIsSeen'
  BY <1>1 DEF WholeInv, FileIsSeen, InWindow, At, Empty
<1>3. reloader # "none" /\ phase \notin Unspawned
  BY <1>1 DEF WholeInv, StartedInOrder
<1>4. StartedInOrder'
  BY <1>1, <1>3 DEF WholeInv, StartedInOrder, Unspawned, Merge, Given
<1> QED BY <1>1, <1>2, <1>3, <1>4, SeenOnlyGrows

LEMMA ApplierKeepsWhole == ASSUME WholeInv, Apply PROVE WholeInv'
<1> USE DEF WholeInv
<1>1. CASE TakeReload
  <2>1. /\ Applies("idle", "topic_acl") /\ watch.unseen
        /\ acls' = watch.value /\ watch' = [watch EXCEPT !.unseen = FALSE]
        /\ applier = "idle" /\ applier' = "topic_acl" /\ UNCHANGED <<live, enforced>>
    BY <1>1 DEF TakeReload, Applies
  <2>2. /\ FileIsSeen' /\ StartedInOrder'
        /\ \A s : OfOneFile(s) => OfOneFile(s)'
    BY <2>1, ApplierFrame
  <2>3. watch'.unseen = FALSE /\ watch' = [value |-> watch'.value, unseen |-> watch'.unseen]
    BY <2>1 DEF ReloadTypes
  <2>4. OfOneFile(acls')
    BY <2>1 DEF OnItsWay
  <2>5. Settings(acls')
    BY <2>4, AclsAreSettings DEF OfOneFile
  <2>6. ReloadTypes'
    BY <2>1, <2>3, <2>5 DEF ReloadTypes, Settings, Stages
  <2>7. OnItsWay'
    BY <2>1, <2>2, <2>3, <2>4 DEF OnItsWay
  <2>8. Applied' /\ ReloadsAreWhole'
    BY <2>1 DEF Applied, ReloadsAreWhole
  <2> QED BY <2>2, <2>6, <2>7, <2>8
<1>2. ASSUME NEW f \in Reloadables, NEW next \in Stages \ {"none", "idle"}, SetAcl(f, next),
             \/ f = "topic_acl" /\ next = "peer_topic_acl"
             \/ f = "peer_topic_acl" /\ next = "reconcile"
             \/ f = "allow_peer" /\ next = "peer_topic_filter"
      PROVE  WholeInv'
  <2>1. /\ Applies(f, next) /\ applier = f /\ applier' = next
        /\ live' = [live EXCEPT ![f] = acls[f]]
        /\ UNCHANGED <<enforced, acls, watch>>
    BY <1>2 DEF SetAcl, Applies
  <2>2. FileIsSeen' /\ StartedInOrder' /\ \A s : OfOneFile(s) => OfOneFile(s)'
    BY <1>2, <2>1, ApplierFrame
  <2>3. \A g \in Reloadables : live'[g] = IF g = f THEN acls[f] ELSE live[g]
    BY <2>1 DEF ReloadTypes, Settings
  <2>4. Settings(live')
    BY <2>1 DEF ReloadTypes, Settings
  <2>5. ReloadTypes'
    BY <1>2, <2>1, <2>4 DEF ReloadTypes, Settings
  <2>6. OnItsWay'
    BY <1>2, <2>1, <2>2 DEF OnItsWay
  <2>7. Applied' /\ ReloadsAreWhole'
    BY <1>2, <2>1, <2>3 DEF Applied, Agree, ReloadsAreWhole, Reloadables
  <2> QED BY <2>2, <2>5, <2>6, <2>7
<1>3. CASE Reconcile
  <2>1. /\ Applies("reconcile", "disconnect") /\ applier = "reconcile" /\ applier' = "disconnect"
        /\ enforced' = [enforced EXCEPT !["topic_acl"] = live["topic_acl"],
                                        !["peer_topic_acl"] = live["peer_topic_acl"]]
        /\ UNCHANGED <<live, acls, watch>>
    BY <1>3 DEF Reconcile, Applies
  <2>2. FileIsSeen' /\ StartedInOrder' /\ \A s : OfOneFile(s) => OfOneFile(s)'
    BY <2>1, ApplierFrame
  <2>3. \A g \in Reloadables : enforced'[g] = IF g \in {"topic_acl", "peer_topic_acl"}
                                              THEN live[g] ELSE enforced[g]
    BY <2>1 DEF ReloadTypes, Settings
  <2>4. Settings(enforced')
    BY <2>1 DEF ReloadTypes, Settings
  <2>5. ReloadTypes'
    BY <2>1, <2>4 DEF ReloadTypes, Settings, Stages
  <2>6. OnItsWay'
    BY <2>1, <2>2 DEF OnItsWay
  <2>7. Applied' /\ ReloadsAreWhole'
    BY <2>1, <2>3 DEF Applied, Agree, ReloadsAreWhole, Reloadables
  <2> QED BY <2>2, <2>5, <2>6, <2>7
<1>4. CASE DisconnectUnless
  <2>1. /\ Applies("disconnect", "allow_peer") /\ applier = "disconnect" /\ applier' = "allow_peer"
        /\ enforced' = [enforced EXCEPT !["allow_peer"] = acls["allow_peer"]]
        /\ UNCHANGED <<live, acls, watch>>
    BY <1>4 DEF DisconnectUnless, Applies
  <2>2. FileIsSeen' /\ StartedInOrder' /\ \A s : OfOneFile(s) => OfOneFile(s)'
    BY <2>1, ApplierFrame
  <2>3. \A g \in Reloadables : enforced'[g] = IF g = "allow_peer" THEN acls[g] ELSE enforced[g]
    BY <2>1 DEF ReloadTypes, Settings
  <2>4. Settings(enforced')
    BY <2>1 DEF ReloadTypes, Settings
  <2>5. ReloadTypes'
    BY <2>1, <2>4 DEF ReloadTypes, Settings, Stages
  <2>6. OnItsWay'
    BY <2>1, <2>2 DEF OnItsWay
  <2>7. Applied' /\ ReloadsAreWhole'
    BY <2>1, <2>3 DEF Applied, Agree, ReloadsAreWhole, Reloadables
  <2> QED BY <2>2, <2>5, <2>6, <2>7
<1>5. CASE SetFilter
  <2> DEFINE next == IF live["peer_topic_filter"] = acls["peer_topic_filter"] THEN "idle"
                     ELSE "announce"
  <2>1. /\ Applies("peer_topic_filter", next)
        /\ applier = "peer_topic_filter" /\ applier' = next
        /\ live' = [live EXCEPT !["peer_topic_filter"] = acls["peer_topic_filter"]]
        /\ UNCHANGED <<enforced, acls, watch>>
    BY <1>5 DEF SetFilter, Applies
  <2>2. FileIsSeen' /\ StartedInOrder' /\ \A s : OfOneFile(s) => OfOneFile(s)'
    BY <2>1, ApplierFrame
  <2>3. \A g \in Reloadables : live'[g] = IF g = "peer_topic_filter" THEN acls[g] ELSE live[g]
    BY <2>1 DEF ReloadTypes, Settings
  <2>4. Settings(live')
    BY <2>1 DEF ReloadTypes, Settings
  <2>5. ReloadTypes'
    BY <2>1, <2>4 DEF ReloadTypes, Settings, Stages
  <2>6. OfOneFile(acls) /\ OnItsWay'
    BY <2>1, <2>2 DEF OnItsWay
  <2>7. Applied'
    BY <2>1, <2>3 DEF Applied, Agree, Reloadables
  <2>8. live' = acls
    BY <2>1, <2>3, <2>4, SameSettings DEF ReloadTypes, Applied, Agree, Reloadables
  <2>9. next = "idle" => enforced' = live'
    <3>1. next = "idle" => enforced = acls
      BY <2>1, SameSettings DEF ReloadTypes, Applied, Agree
    <3> QED BY <2>1, <2>8, <3>1
  <2>10. OfOneFile(acls)'
    BY <2>1, <2>2, <2>6
  <2>11. ReloadsAreWhole'
    BY <2>1, <2>8, <2>9, <2>10 DEF ReloadsAreWhole, OfOneFile
  <2> QED BY <2>2, <2>5, <2>6, <2>7, <2>11
<1>6. CASE Announce
  <2>1. /\ Applies("announce", "idle") /\ applier = "announce" /\ applier' = "idle"
        /\ enforced' = [enforced EXCEPT !["peer_topic_filter"] = live["peer_topic_filter"]]
        /\ UNCHANGED <<live, acls, watch>>
    BY <1>6 DEF Announce, Applies
  <2>2. FileIsSeen' /\ StartedInOrder' /\ \A s : OfOneFile(s) => OfOneFile(s)'
    BY <2>1, ApplierFrame
  <2>3. \A g \in Reloadables : enforced'[g] = IF g = "peer_topic_filter" THEN live[g]
                                              ELSE enforced[g]
    BY <2>1 DEF ReloadTypes, Settings
  <2>4. Settings(enforced')
    BY <2>1 DEF ReloadTypes, Settings
  <2>5. ReloadTypes'
    BY <2>1, <2>4 DEF ReloadTypes, Settings, Stages
  <2>6. OfOneFile(acls) /\ OnItsWay'
    BY <2>1, <2>2 DEF OnItsWay
  <2>7. Applied'
    BY <2>1, <2>3 DEF Applied, Agree, Reloadables
  <2>8. live = acls
    BY <2>1, SameSettings DEF ReloadTypes, Applied, Agree
  <2>9. enforced' = acls
    BY <2>1, <2>3, <2>4, SameSettings DEF ReloadTypes, Applied, Agree, Reloadables
  <2>10. OfOneFile(acls)'
    BY <2>1, <2>2, <2>6
  <2>11. ReloadsAreWhole'
    BY <2>1, <2>8, <2>9, <2>10 DEF ReloadsAreWhole, OfOneFile
  <2> QED BY <2>2, <2>5, <2>6, <2>7, <2>11
<1> QED
  BY <1>1, <1>2, <1>3, <1>4, <1>5, <1>6 DEF Apply, Reloadables, Stages

LEMMA WholeInvStep == ASSUME WholeInv, [StartupNext]_startupVars PROVE WholeInv'
<1>1. CASE UNCHANGED startupVars
  BY <1>1, QuietStep DEF startupVars
<1>2. CASE FindConfig \/ LoadConfig \/ Assemble \/ SpawnTasks
  BY <1>2, BootKeepsWhole
<1>3. CASE CheckFile \/ Reload \/ Sighup \/ \E contents \in Edits : Edit(contents)
  BY <1>3, ReloaderKeepsWhole
<1>4. CASE Apply
  BY <1>4, ApplierKeepsWhole
<1>5. CASE Bind \/ Rehydrate \/ RehydrateInBackground \/ Serve \/ AcceptFails \/ StartFails
  <2>1. UNCHANGED <<start, disk, existed, config, live, enforced, reloader, watch, applier, acls,
                    seen>>
    BY <1>5 DEF Bind, Rehydrate, RehydrateInBackground, Serve, AcceptFails, StartFails, reloadVars,
       applyVars, worldVars
  <2>2. \/ phase = "configured" /\ phase' = "bound"
        \/ phase = "assembled" /\ phase' = "rehydrated"
        \/ phase' \in {phase, "serving", "stopped", "refused"}
    BY <1>5 DEF Bind, Rehydrate, RehydrateInBackground, Serve, AcceptFails, StartFails, At, Then
  <2> QED BY <2>1, <2>2, QuietStep DEF Unspawned
<1>6. CASE \E path \in {"/livez", "/readyz", "/metrics"}, authorized \in BOOLEAN :
               Request(path, authorized)
  <2>1. UNCHANGED <<start, disk, existed, phase, config, live, enforced, reloader, watch, applier,
                    acls, seen>>
    BY <1>6 DEF Request, bootVars, reloadVars, applyVars, worldVars
  <2> QED BY <2>1, QuietStep
<1> QED
  BY <1>1, <1>2, <1>3, <1>4, <1>5, <1>6 DEF StartupNext, StartStep

\* Whenever the applier is between two reloads, the four settings in force are those of one
\* version of the file under the command line, and links and connections were last held to
\* them (ReloadSource::reload, spawn_reload_applier), for every command line, every sequence
\* of edits and any number of signals.
THEOREM ReloadsNeverTear == StartupSpec => []ReloadsAreWhole
<1>1. StartupSpec => []WholeInv
  BY WholeInvInit, WholeInvStep, PTL DEF StartupSpec
<1>2. WholeInv => ReloadsAreWhole
  BY DEF WholeInv
<1> QED BY <1>1, <1>2, PTL
=============================================================================
