--------------------------- MODULE WorkQueueProofs ---------------------------
(***************************************************************************)
(* What the consumer groups promise, for every number of connections,      *)
(* groups and messages, every queue capacity and every attempt limit.      *)
(*                                                                         *)
(* The properties hold together or not at all: an id is settled exactly    *)
(* once because it is leased exactly once, it is leased once because the   *)
(* publish that leases it is the only one of its id, and a dead letter is  *)
(* such a publish because what it stands for is given up on only once.     *)
(***************************************************************************)
EXTENDS WorkQueue, TLAPS

LedgerTypeOK ==
    /\ mode \in [Groups -> {"none", "ack", "plain"}]
    /\ leases \in [Groups -> SUBSET Ids]
    /\ attempts \in [Groups -> [Ids -> 0 .. MaxAttempts]]
    /\ expired \in [Groups -> SUBSET Ids]
    /\ pub \in [id : Ids \cup {NoLetter}, todo : SUBSET Groups]
    /\ sweep \in [pc : {"idle", "leases", "letters"}, due : SUBSET (Groups \X Ids),
                  current : SUBSET Groups, letters : Seq(Groups \X Ids)]
    /\ published \in SUBSET Ids
    /\ sends \in [Groups -> [Ids -> Nat]]
    /\ acked \in [Groups -> SUBSET Ids]
    /\ dropped \in [Groups -> SUBSET Ids]

\* How often an id was sent to a group, against where it is now.
Entry(tracked, leased, cleared, given, sent, tries) ==
    /\ leased \/ cleared \/ given => tracked = "ack" /\ sent > 0
    /\ leased => sent = 1 + tries /\ ~ cleared /\ ~ given
    /\ cleared => sent <= 1 + MaxAttempts /\ ~ given
    /\ given => sent = 1 + MaxAttempts
    /\ tracked = "ack" /\ sent > 0 => leased \/ cleared \/ given
    /\ tracked = "plain" => sent <= 1
    /\ tracked = "none" => sent = 0

Account ==
    \A g \in Groups : \A id \in Ids :
        Entry(mode[g], id \in leases[g], id \in acked[g], id \in dropped[g],
              sends[g][id], attempts[g][id])

\* A group that a publish has not reached was never sent its id.
Fresh ==
    /\ \A g \in Groups : \A id \in Ids :
          id \notin published \/ (id = pub.id /\ g \in pub.todo) => sends[g][id] = 0
    /\ pub.todo # {} => pub.id \in published
    /\ \A g \in pub.todo : mode[g] # "none"

\* A letter stands for one id given up on, and is not published yet.
LettersPending ==
    /\ \A g \in Groups : \A id \in Ids : Letter[g][id] \in published => id \in dropped[g]
    /\ \A i \in 1 .. Len(sweep.letters) :
          LET pair == sweep.letters[i]
          IN  pair[2] \in dropped[pair[1]] /\ Letter[pair[1]][pair[2]] \notin published
    /\ \A i, j \in 1 .. Len(sweep.letters) : sweep.letters[i] = sweep.letters[j] => i = j

\* Only the sweep under way has ids to go through, and all are leased.
SweepLocks ==
    /\ \A g \in Groups : expired[g] \subseteq leases[g]
    /\ DueStaysLeased
    /\ sweep.pc # "leases" => sweep.due = {}

LedgerInv == LedgerTypeOK /\ Account /\ Fresh /\ LettersPending /\ SweepLocks
ledgerVars == <<mode, leaseVars, pub, sweep, published, sends, acked, dropped>>

\* Nothing is leased, published or waiting when the broker starts.
LEMMA LedgerInitInv == WorkQueueInit => LedgerInv
  BY WorkQueueAssumption
     DEF WorkQueueInit, LedgerInv, LedgerTypeOK, Account, Entry, Fresh, LettersPending, SweepLocks,
         DueStaysLeased, SweepIdle

\* Steps of the connections that touch neither leases nor the sweep.
LEMMA LedgerUnchanged == LedgerInv /\ UNCHANGED ledgerVars => LedgerInv'
  BY DEF ledgerVars, leaseVars, LedgerInv, LedgerTypeOK, Account, Fresh, LettersPending,
         SweepLocks, DueStaysLeased

\* The first join of a group decides its mode; until then nothing was sent to it.
LEMMA JoinInv ==
    ASSUME LedgerInv, NEW c \in Conns, NEW g \in Groups, NEW ack \in AckModes, Join(c, g, ack)
    PROVE  LedgerInv'
<1> USE DEF LedgerInv
<1>1. /\ UNCHANGED <<leases, attempts, expired, pub, sweep, published, sends, acked, dropped>>
      /\ mode' = [mode EXCEPT ![g] = IF @ = "none" THEN IF ack THEN "ack" ELSE "plain" ELSE @]
  BY DEF Join, leaseVars, historyVars
<1>2. LedgerTypeOK'
  BY <1>1 DEF LedgerTypeOK
<1>3. \A h \in Groups : mode'[h] = mode[h] \/ (mode[h] = "none" /\ mode'[h] # "none")
  BY <1>1 DEF LedgerTypeOK
<1>4. Account'
  BY <1>1, <1>3 DEF Account, Entry, LedgerTypeOK
<1>5. Fresh'
  BY <1>1, <1>3 DEF Fresh, LedgerTypeOK
<1>6. LettersPending' /\ SweepLocks'
  BY <1>1 DEF LettersPending, SweepLocks, DueStaysLeased
<1>7. QED
  BY <1>2, <1>4, <1>5, <1>6

\* A publish takes the lock with an id nobody published before.
LEMMA PublishLockInv ==
    ASSUME LedgerInv, NEW id \in Ids, PublishLock(id), id \notin published
    PROVE  /\ sweep' \in [pc : {"idle", "leases", "letters"}, due : SUBSET (Groups \X Ids),
                         current : SUBSET Groups, letters : Seq(Groups \X Ids)]
               => LedgerTypeOK'
           /\ Account' /\ Fresh'
<1> USE DEF LedgerInv
<1>1. /\ UNCHANGED <<mode, leases, attempts, expired, sends, acked, dropped>>
      /\ published' = published \cup {id}
      /\ pub' = [id |-> id, todo |-> {g \in MatchedBy[id] : mode[g] # "none"}]
  BY DEF PublishLock, leaseVars, historyVars, groupVars
<1>2. /\ pub'.id = id /\ pub'.todo \in SUBSET Groups
      /\ \A g \in pub'.todo : mode[g] # "none"
  BY <1>1, WorkQueueAssumption
<1>3. ASSUME sweep' \in [pc : {"idle", "leases", "letters"}, due : SUBSET (Groups \X Ids),
                         current : SUBSET Groups, letters : Seq(Groups \X Ids)]
      PROVE  LedgerTypeOK'
  <2>1. pub' \in [id : Ids \cup {NoLetter}, todo : SUBSET Groups]
    BY <1>1, <1>2
  <2> QED
    BY <1>1, <1>3, <2>1 DEF LedgerTypeOK
<1>4. Account'
  BY <1>1 DEF Account
<1>5. Fresh'
  BY <1>1, <1>2 DEF Fresh, LedgerTypeOK
<1>6. QED
  BY <1>3, <1>4, <1>5

\* A client's publish is not a dead letter.
LEMMA PublishInv ==
    ASSUME LedgerInv, NEW id \in Ids, Publish(id)
    PROVE  LedgerInv'
<1> USE DEF LedgerInv
<1>1. /\ PublishLock(id) /\ id \notin published /\ sweep' = sweep
      /\ \A g \in Groups : \A origin \in Ids : Letter[g][origin] # id
  BY DEF Publish
<1>2. /\ UNCHANGED <<leases, expired, sweep, dropped>>
      /\ published' = published \cup {id}
  BY <1>1 DEF PublishLock, leaseVars, historyVars
<1>3. LedgerTypeOK' /\ Account' /\ Fresh'
  BY <1>1, PublishLockInv DEF LedgerTypeOK
<1>4. \A i \in 1 .. Len(sweep.letters) : sweep.letters[i] \in Groups \X Ids
  BY DEF LedgerTypeOK
<1>5. LettersPending'
  BY <1>1, <1>2, <1>4 DEF LettersPending
<1>6. SweepLocks'
  BY <1>2 DEF SweepLocks, DueStaysLeased
<1>7. QED
  BY <1>3, <1>5, <1>6

\* A group takes the published id, and leases it if it is ack-tracked.
LEMMA PublishGroupInv ==
    ASSUME LedgerInv, NEW g \in Groups, PublishGroup(g)
    PROVE  LedgerInv'
<1> USE DEF LedgerInv
<1> DEFINE id == pub.id
<1>1. /\ UNCHANGED <<mode, expired, sweep, published, acked, dropped>>
      /\ g \in pub.todo /\ pub' = [pub EXCEPT !.todo = @ \ {g}]
  BY DEF PublishGroup
<1>2. /\ id \in Ids /\ id \in published /\ sends[g][id] = 0 /\ mode[g] # "none"
      /\ pub'.id = id /\ pub'.todo = pub.todo \ {g}
      /\ pub' \in [id : Ids \cup {NoLetter}, todo : SUBSET Groups]
  BY <1>1 DEF Fresh, LedgerTypeOK
<1>3. id \notin leases[g] \cup acked[g] \cup dropped[g]
  BY <1>2 DEF Account, Entry
<1>4. \/ UNCHANGED <<leases, attempts, sends>>
      \/ /\ mode[g] = "ack"
         /\ sends' = [sends EXCEPT ![g][id] = @ + 1]
         /\ leases' = [leases EXCEPT ![g] = @ \cup {id}]
         /\ attempts' = [attempts EXCEPT ![g][id] = 0]
      \/ /\ mode[g] = "plain"
         /\ sends' = [sends EXCEPT ![g][id] = @ + 1]
         /\ UNCHANGED <<leases, attempts>>
  <2>1. CASE DeliverTo(g, id) /\ Tracked(g)
    BY <2>1, <1>2 DEF PublishGroup, DeliverTo, Tracked
  <2>2. CASE DeliverTo(g, id) /\ ~ Tracked(g)
    BY <2>2, <1>2 DEF PublishGroup, DeliverTo, Tracked, LedgerTypeOK
  <2>3. CASE ~ DeliverTo(g, id)
    BY <2>3 DEF PublishGroup
  <2>4. QED
    BY <2>1, <2>2, <2>3
<1> HIDE DEF id
<1>5. LedgerTypeOK'
  <2>1. leases' \in [Groups -> SUBSET Ids]
    <3>1. CASE leases' = [leases EXCEPT ![g] = @ \cup {id}]
      BY <3>1, <1>2 DEF LedgerTypeOK
    <3>2. CASE leases' = leases
      BY <3>2 DEF LedgerTypeOK
    <3>3. QED
      BY <3>1, <3>2, <1>4
  <2>2. attempts' \in [Groups -> [Ids -> 0 .. MaxAttempts]]
    <3>1. 0 \in 0 .. MaxAttempts
      BY WorkQueueAssumption
    <3>2. CASE attempts' = [attempts EXCEPT ![g][id] = 0]
      BY <3>1, <3>2, <1>2 DEF LedgerTypeOK
    <3>3. CASE attempts' = attempts
      BY <3>3 DEF LedgerTypeOK
    <3>4. QED
      BY <3>2, <3>3, <1>4
  <2>3. sends' \in [Groups -> [Ids -> Nat]]
    <3>1. CASE sends' = [sends EXCEPT ![g][id] = @ + 1]
      BY <3>1, <1>2 DEF LedgerTypeOK
    <3>2. CASE sends' = sends
      BY <3>2 DEF LedgerTypeOK
    <3>3. QED
      BY <3>1, <3>2, <1>4
  <2>4. QED
    BY <1>1, <1>2, <2>1, <2>2, <2>3 DEF LedgerTypeOK
<1>6. \A h \in Groups : \A i \in Ids : h # g \/ i # id =>
          /\ sends'[h][i] = sends[h][i] /\ attempts'[h][i] = attempts[h][i]
          /\ i \in leases'[h] <=> i \in leases[h]
  BY <1>2, <1>4 DEF LedgerTypeOK
<1>7. /\ \/ sends'[g][id] = 0 /\ id \notin leases'[g]
         \/ mode[g] = "ack" /\ sends'[g][id] = 1 /\ attempts'[g][id] = 0 /\ id \in leases'[g]
         \/ mode[g] = "plain" /\ sends'[g][id] = 1 /\ id \notin leases'[g]
  BY <1>2, <1>3, <1>4 DEF LedgerTypeOK
<1>8. Account'
  <2> SUFFICES ASSUME NEW h \in Groups, NEW i \in Ids
               PROVE  Entry(mode[h], i \in leases'[h], i \in acked[h], i \in dropped[h],
                            sends'[h][i], attempts'[h][i])
    BY <1>1 DEF Account
  <2>1. CASE h # g \/ i # id
    BY <2>1, <1>6 DEF Account, Entry
  <2>2. CASE h = g /\ i = id
    BY <2>2, <1>2, <1>3, <1>7 DEF Entry
  <2>3. QED
    BY <2>1, <2>2
<1>9. Fresh'
  BY <1>1, <1>2, <1>6 DEF Fresh, LedgerTypeOK
<1>10. LettersPending'
  BY <1>1 DEF LettersPending
<1>11. \A h \in Groups : leases[h] \subseteq leases'[h]
  BY <1>3, <1>6, <1>7 DEF LedgerTypeOK
<1>12. SweepLocks'
  BY <1>1, <1>11 DEF SweepLocks, DueStaysLeased, LedgerTypeOK
<1>13. QED
  BY <1>5, <1>8, <1>9, <1>10, <1>12

\* An ack needs the lock, so no sweep is under way: nothing is due.
LEMMA AckGroupInv ==
    ASSUME LedgerInv, NEW c \in Conns, NEW g \in Groups, NEW id \in Ids, AckGroup(c, g, id)
    PROVE  LedgerInv'
<1> USE DEF LedgerInv
<1>1. /\ UNCHANGED <<mode, attempts, pub, sweep, published, sends, dropped>>
      /\ leases' = [leases EXCEPT ![g] = @ \ {id}]
      /\ expired' = [expired EXCEPT ![g] = @ \ {id}]
      /\ acked' = [acked EXCEPT ![g] = IF id \in leases[g] THEN @ \cup {id} ELSE @]
      /\ sweep.pc # "leases"
  BY DEF AckGroup, groupVars, GroupsUnlocked
<1>2. LedgerTypeOK'
  BY <1>1 DEF LedgerTypeOK
<1>3. Account'
  <2> SUFFICES ASSUME NEW h \in Groups, NEW i \in Ids
               PROVE  Entry(mode[h], i \in leases'[h], i \in acked'[h], i \in dropped[h],
                            sends[h][i], attempts[h][i])
    BY <1>1 DEF Account
  <2>1. /\ sends[h][i] \in Nat /\ attempts[h][i] \in 0 .. MaxAttempts
        /\ Entry(mode[h], i \in leases[h], i \in acked[h], i \in dropped[h],
                 sends[h][i], attempts[h][i])
    BY DEF Account, LedgerTypeOK
  <2>2. CASE h = g /\ i = id /\ id \in leases[g]
    <3>1. i \notin leases'[h] /\ i \in acked'[h]
      BY <1>1, <2>2 DEF LedgerTypeOK
    <3>2. QED
      BY <2>1, <2>2, <3>1, WorkQueueAssumption DEF Entry
  <2>3. CASE h # g \/ i # id \/ id \notin leases[g]
    <3>1. (i \in leases'[h] <=> i \in leases[h]) /\ (i \in acked'[h] <=> i \in acked[h])
      BY <1>1, <2>3 DEF LedgerTypeOK
    <3>2. QED
      BY <2>1, <3>1 DEF Entry
  <2>4. QED
    BY <2>2, <2>3
<1>4. Fresh' /\ LettersPending'
  BY <1>1 DEF Fresh, LettersPending
<1>5. SweepLocks'
  BY <1>1 DEF SweepLocks, DueStaysLeased, LedgerTypeOK
<1>6. QED
  BY <1>2, <1>3, <1>4, <1>5

\* Time passes, and a sweep collects what it finds expired.
LEMMA ExpireInv ==
    ASSUME LedgerInv,
           SweepBegin \/ (\E g \in Groups, id \in Ids : Expire(g, id))
    PROVE  LedgerInv'
<1> USE DEF LedgerInv
<1>1. UNCHANGED <<mode, leases, attempts, pub, published, sends, acked, dropped>>
  BY DEF SweepBegin, Expire, groupVars, leaseVars, historyVars
<1>2. CASE SweepBegin
  <2>1. /\ expired' = expired
        /\ sweep' = [sweep EXCEPT !.pc = "leases",
                       !.due = {pair \in Groups \X Ids : pair[2] \in expired[pair[1]]}]
    BY <1>2 DEF SweepBegin, leaseVars
  <2>2. LedgerTypeOK'
    BY <1>1, <2>1 DEF LedgerTypeOK
  <2>3. Account' /\ Fresh' /\ LettersPending'
    BY <1>1, <2>1 DEF Account, Fresh, LettersPending, LedgerTypeOK
  <2>4. SweepLocks'
    BY <1>1, <2>1 DEF SweepLocks, DueStaysLeased, LedgerTypeOK
  <2>5. QED
    BY <2>2, <2>3, <2>4
<1>3. CASE \E g \in Groups, id \in Ids : Expire(g, id)
  <2>1. PICK g \in Groups, id \in Ids : Expire(g, id)
    BY <1>3
  <2>2. sweep' = sweep /\ id \in leases[g] /\ expired' = [expired EXCEPT ![g] = @ \cup {id}]
    BY <2>1 DEF Expire
  <2>3. LedgerTypeOK'
    BY <1>1, <2>2 DEF LedgerTypeOK
  <2>4. Account' /\ Fresh' /\ LettersPending'
    BY <1>1, <2>2 DEF Account, Fresh, LettersPending
  <2>5. SweepLocks'
    BY <1>1, <2>2 DEF SweepLocks, DueStaysLeased, LedgerTypeOK
  <2>6. QED
    BY <2>3, <2>4, <2>5
<1>4. QED
  BY <1>2, <1>3

\* One expired lease: given up on, sent once more, or put off.
LEMMA SweepLeaseInv ==
    ASSUME LedgerInv, NEW g \in Groups, NEW id \in Ids, SweepLease(g, id)
    PROVE  LedgerInv'
<1> USE DEF LedgerInv
<1>1. /\ UNCHANGED <<mode, pub, published, acked>>
      /\ sweep.pc = "leases" /\ <<g, id>> \in sweep.due /\ id \in leases[g]
  BY DEF SweepLease, SweepLocks, DueStaysLeased
<1>2. /\ sends[g][id] = 1 + attempts[g][id] /\ mode[g] = "ack"
      /\ id \notin acked[g] \cup dropped[g]
      /\ sends[g][id] \in Nat /\ attempts[g][id] \in 0 .. MaxAttempts /\ MaxAttempts \in Nat
  BY <1>1, WorkQueueAssumption DEF Account, Entry, LedgerTypeOK
<1>3. id \in published /\ ~ (id = pub.id /\ g \in pub.todo)
  BY <1>2 DEF Fresh
<1>4. ASSUME NEW letters \in Seq(Groups \X Ids), SweptLease(g, id, letters)
      PROVE  /\ sweep' \in [pc : {"idle", "leases", "letters"}, due : SUBSET (Groups \X Ids),
                            current : SUBSET Groups, letters : Seq(Groups \X Ids)]
             /\ sweep'.pc = "leases" /\ sweep'.due = sweep.due \ {<<g, id>>}
             /\ sweep'.letters = letters
  BY <1>4, <1>1 DEF SweptLease, LedgerTypeOK
<1>5. \A h \in Groups : \A i \in Ids :
          /\ sends[h][i] \in Nat /\ attempts[h][i] \in 0 .. MaxAttempts
          /\ Entry(mode[h], i \in leases[h], i \in acked[h], i \in dropped[h],
                   sends[h][i], attempts[h][i])
  BY DEF Account, LedgerTypeOK
<1>6. CASE GiveUp(g, id)
  <2> DEFINE letters == Append(sweep.letters, <<g, id>>)
  <2>1. /\ attempts[g][id] >= MaxAttempts
        /\ leases' = [leases EXCEPT ![g] = @ \ {id}]
        /\ expired' = [expired EXCEPT ![g] = @ \ {id}]
        /\ dropped' = [dropped EXCEPT ![g] = @ \cup {id}]
        /\ SweptLease(g, id, letters)
        /\ UNCHANGED <<attempts, sends>>
    BY <1>6 DEF GiveUp
  <2>2. /\ letters \in Seq(Groups \X Ids) /\ Len(letters) = Len(sweep.letters) + 1
        /\ letters[Len(sweep.letters) + 1] = <<g, id>>
        /\ \A i \in 1 .. Len(sweep.letters) :
              letters[i] = sweep.letters[i] /\ sweep.letters[i] \in Groups \X Ids
        /\ Len(sweep.letters) \in Nat
    BY DEF LedgerTypeOK
  <2> HIDE DEF letters
  <2>3. LedgerTypeOK'
    <3>1. /\ leases' \in [Groups -> SUBSET Ids] /\ expired' \in [Groups -> SUBSET Ids]
          /\ dropped' \in [Groups -> SUBSET Ids]
      BY <2>1 DEF LedgerTypeOK
    <3>2. QED
      BY <1>1, <1>4, <2>1, <2>2, <3>1 DEF LedgerTypeOK
  <2>4. Account'
    <3> SUFFICES ASSUME NEW h \in Groups, NEW i \in Ids
                 PROVE  Entry(mode[h], i \in leases'[h], i \in acked[h], i \in dropped'[h],
                              sends[h][i], attempts[h][i])
      BY <1>1, <2>1 DEF Account
    <3>1. CASE h = g /\ i = id
      <4>1. i \notin leases'[h] /\ i \in dropped'[h] /\ sends[h][i] = 1 + MaxAttempts
        BY <3>1, <2>1, <1>2 DEF LedgerTypeOK
      <4>2. QED
        BY <3>1, <4>1, <1>2 DEF Entry
    <3>2. CASE h # g \/ i # id
      <4>1. (i \in leases'[h] <=> i \in leases[h]) /\ (i \in dropped'[h] <=> i \in dropped[h])
        BY <3>2, <2>1 DEF LedgerTypeOK
      <4>2. QED
        BY <4>1, <1>5 DEF Entry
    <3>3. QED
      BY <3>1, <3>2
  <2>5. Fresh'
    BY <1>1, <2>1 DEF Fresh
  <2>6. \A h \in Groups : dropped[h] \subseteq dropped'[h]
    BY <2>1 DEF LedgerTypeOK
  <2>7. id \in dropped'[g]
    BY <2>1 DEF LedgerTypeOK
  <2>8. Letter[g][id] \notin published
    BY <1>2 DEF LettersPending
  <2>9. \A i \in 1 .. Len(sweep.letters) : sweep.letters[i] # <<g, id>>
    BY <1>2, <2>2 DEF LettersPending
  <2>10. LettersPending'
    <3>1. sweep'.letters = letters
      BY <1>4, <2>1, <2>2
    <3>2. \A h \in Groups : \A i \in Ids : Letter[h][i] \in published' => i \in dropped'[h]
      BY <1>1, <2>6 DEF LettersPending
    <3>3. \A i \in 1 .. Len(letters) :
              /\ letters[i][2] \in dropped'[letters[i][1]]
              /\ Letter[letters[i][1]][letters[i][2]] \notin published'
      <4> SUFFICES ASSUME NEW i \in 1 .. Len(letters)
                   PROVE  /\ letters[i][2] \in dropped'[letters[i][1]]
                          /\ Letter[letters[i][1]][letters[i][2]] \notin published'
        OBVIOUS
      <4>1. CASE i = Len(sweep.letters) + 1
        BY <4>1, <2>2, <2>7, <2>8, <1>1
      <4>2. CASE i \in 1 .. Len(sweep.letters)
        BY <4>2, <2>2, <2>6, <1>1 DEF LettersPending
      <4>3. QED
        BY <4>1, <4>2, <2>2
    <3>4. \A i, j \in 1 .. Len(letters) : letters[i] = letters[j] => i = j
      <4>1. \A i, j \in 1 .. Len(sweep.letters) : sweep.letters[i] = sweep.letters[j] => i = j
        BY <1>1 DEF LettersPending
      <4> QED BY <2>2, <2>9, <4>1
    <3>5. QED
      BY <3>1, <3>2, <3>3, <3>4 DEF LettersPending
  <2>11. SweepLocks'
    <3>1. \A h \in Groups : \A i \in Ids : h # g \/ i # id =>
              (i \in leases'[h] <=> i \in leases[h])
      BY <2>1 DEF LedgerTypeOK
    <3>2. \A h \in Groups : expired'[h] \subseteq leases'[h]
      BY <2>1 DEF SweepLocks, LedgerTypeOK
    <3>3. sweep'.pc = "leases" /\ sweep'.due = sweep.due \ {<<g, id>>}
      BY <1>4, <2>1, <2>2
    <3>4. ASSUME NEW pair \in sweep'.due
          PROVE  pair[2] \in leases'[pair[1]]
      <4>1. pair \in Groups \X Ids /\ pair \in sweep.due /\ pair # <<g, id>>
        BY <3>3 DEF LedgerTypeOK
      <4>2. pair[1] \in Groups /\ pair[2] \in Ids /\ (pair[1] # g \/ pair[2] # id)
        BY <4>1
      <4>3. QED
        BY <4>1, <4>2, <3>1 DEF SweepLocks, DueStaysLeased
    <3>5. QED
      BY <3>2, <3>3, <3>4 DEF SweepLocks, DueStaysLeased
  <2>12. QED
    BY <2>3, <2>4, <2>5, <2>10, <2>11
<1>7. CASE Reclaim(g, id)
  <2>1. /\ attempts[g][id] < MaxAttempts
        /\ sends' = [sends EXCEPT ![g][id] = @ + 1]
        /\ attempts' = [attempts EXCEPT ![g][id] = @ + 1]
        /\ expired' = [expired EXCEPT ![g] = @ \ {id}]
        /\ SweptLease(g, id, sweep.letters)
        /\ UNCHANGED <<leases, dropped>>
    BY <1>7 DEF Reclaim, DeliverTo
  <2>2. sweep.letters \in Seq(Groups \X Ids)
    BY DEF LedgerTypeOK
  <2>3. /\ attempts[g][id] + 1 \in 0 .. MaxAttempts
        /\ sends[g][id] + 1 \in Nat
    BY <1>2, <2>1
  <2>4. LedgerTypeOK'
    <3>1. attempts' \in [Groups -> [Ids -> 0 .. MaxAttempts]]
      BY <2>1, <2>3 DEF LedgerTypeOK
    <3>2. sends' \in [Groups -> [Ids -> Nat]]
      BY <2>1, <2>3 DEF LedgerTypeOK
    <3>3. expired' \in [Groups -> SUBSET Ids]
      BY <2>1 DEF LedgerTypeOK
    <3>4. QED
      BY <1>1, <1>4, <2>1, <2>2, <3>1, <3>2, <3>3 DEF LedgerTypeOK
  <2>5. \A h \in Groups : \A i \in Ids : h # g \/ i # id =>
            sends'[h][i] = sends[h][i] /\ attempts'[h][i] = attempts[h][i]
    BY <2>1 DEF LedgerTypeOK
  <2>6. sends'[g][id] = sends[g][id] + 1 /\ attempts'[g][id] = attempts[g][id] + 1
    BY <2>1 DEF LedgerTypeOK
  <2>7. Account'
    <3> SUFFICES ASSUME NEW h \in Groups, NEW i \in Ids
                 PROVE  Entry(mode[h], i \in leases[h], i \in acked[h], i \in dropped[h],
                              sends'[h][i], attempts'[h][i])
      BY <1>1, <2>1 DEF Account
    <3>1. CASE h = g /\ i = id
      BY <3>1, <1>1, <1>2, <2>6 DEF Entry
    <3>2. CASE h # g \/ i # id
      BY <3>2, <2>5, <1>5
    <3>3. QED
      BY <3>1, <3>2
  <2>8. Fresh'
    BY <1>1, <1>3, <2>5 DEF Fresh
  <2>9. LettersPending'
    BY <1>1, <1>4, <2>1, <2>2 DEF LettersPending
  <2>10. SweepLocks'
    BY <1>4, <2>1, <2>2 DEF SweepLocks, DueStaysLeased, LedgerTypeOK
  <2>11. QED
    BY <2>4, <2>7, <2>8, <2>9, <2>10
<1>8. CASE PutOff(g, id)
  <2>1. /\ UNCHANGED <<leases, attempts, expired, sends, dropped>>
        /\ SweptLease(g, id, sweep.letters)
    BY <1>8 DEF PutOff, leaseVars
  <2>2. sweep.letters \in Seq(Groups \X Ids)
    BY DEF LedgerTypeOK
  <2>3. LedgerTypeOK'
    BY <1>1, <1>4, <2>1, <2>2 DEF LedgerTypeOK
  <2>4. Account' /\ Fresh'
    BY <1>1, <2>1 DEF Account, Fresh
  <2>5. LettersPending'
    BY <1>1, <1>4, <2>1, <2>2 DEF LettersPending
  <2>6. SweepLocks'
    BY <1>4, <2>1, <2>2 DEF SweepLocks, DueStaysLeased
  <2>7. QED
    BY <2>3, <2>4, <2>5, <2>6
<1>9. QED
  BY <1>6, <1>7, <1>8 DEF SweepLease

\* Outside the lock: the sweep ends, or publishes what it gave up on.
LEMMA SweepRestInv ==
    ASSUME LedgerInv, SweepUnlock \/ SweepLetter \/ SweepEnd
    PROVE  LedgerInv'
<1> USE DEF LedgerInv
<1> DEFINE SweepType == [pc : {"idle", "leases", "letters"}, due : SUBSET (Groups \X Ids),
                         current : SUBSET Groups, letters : Seq(Groups \X Ids)]
<1>1. CASE SweepUnlock \/ SweepEnd
  <2>1. UNCHANGED <<mode, leases, attempts, expired, pub, published, sends, acked, dropped>>
    BY <1>1 DEF SweepUnlock, SweepEnd, groupVars, leaseVars, historyVars
  <2>2. /\ sweep' \in SweepType
        /\ sweep'.due = {} /\ sweep'.letters = sweep.letters
    <3>1. CASE SweepUnlock
      BY <3>1 DEF SweepUnlock, LedgerTypeOK
    <3>2. CASE SweepEnd
      <4>1. <<>> \in Seq(Groups \X Ids)
        OBVIOUS
      <4>2. QED
        BY <3>2, <4>1 DEF SweepEnd, SweepIdle
    <3>3. QED
      BY <1>1, <3>1, <3>2
  <2>3. LedgerTypeOK'
    BY <2>1, <2>2 DEF LedgerTypeOK
  <2>4. Account' /\ Fresh' /\ LettersPending'
    BY <2>1, <2>2 DEF Account, Fresh, LettersPending
  <2>5. SweepLocks'
    BY <2>1, <2>2 DEF SweepLocks, DueStaysLeased
  <2>6. QED
    BY <2>3, <2>4, <2>5
<1>2. CASE SweepLetter
  <2> DEFINE first == Head(sweep.letters)
             letter == Letter[first[1]][first[2]]
             n == Len(sweep.letters)
  <2>1. /\ sweep.pc = "letters" /\ sweep.letters # <<>>
        /\ sweep' = [sweep EXCEPT !.letters = Tail(@)]
    BY <1>2 DEF SweepLetter
  <2>2. /\ sweep.letters \in Seq(Groups \X Ids) /\ n \in Nat /\ n > 0
        /\ first \in Groups \X Ids /\ first = sweep.letters[1]
        /\ Tail(sweep.letters) \in Seq(Groups \X Ids)
        /\ Len(Tail(sweep.letters)) = n - 1
        /\ \A i \in 1 .. n - 1 : Tail(sweep.letters)[i] = sweep.letters[i + 1]
    BY <2>1 DEF LedgerTypeOK
  <2>3. sweep' \in SweepType /\ sweep'.letters = Tail(sweep.letters)
        /\ sweep'.pc = "letters" /\ sweep'.due = {}
    BY <2>1, <2>2 DEF LedgerTypeOK, SweepLocks
  <2>4. /\ first[1] \in Groups /\ first[2] \in Ids
        /\ letter \notin published /\ first[2] \in dropped[first[1]]
    BY <2>2 DEF LettersPending
  <2>5. UNCHANGED <<mode, leases, attempts, expired, sends, acked, dropped>>
    BY <1>2 DEF SweepLetter, PublishLock, groupVars, leaseVars, historyVars
  <2>6. \/ letter = NoLetter /\ UNCHANGED <<pub, published>>
        \/ letter \in Ids /\ PublishLock(letter) /\ published' = published \cup {letter}
    <3>1. letter \in Ids \cup {NoLetter}
      BY <2>4, WorkQueueAssumption
    <3>2. CASE letter = NoLetter
      BY <1>2, <3>2 DEF SweepLetter
    <3>3. CASE letter # NoLetter
      <4>1. PublishLock(letter)
        BY <1>2, <3>3 DEF SweepLetter
      <4>2. QED
        BY <3>1, <3>3, <4>1 DEF PublishLock
    <3>4. QED
      BY <3>2, <3>3
  <2>7. \A i \in 2 .. n : /\ sweep.letters[i] \in Groups \X Ids
                          /\ sweep.letters[i] # first
    BY <2>2 DEF LettersPending
  <2> HIDE DEF first, letter, n
  <2>8. LedgerTypeOK' /\ Account' /\ Fresh'
    <3>1. CASE letter = NoLetter /\ UNCHANGED <<pub, published>>
      BY <3>1, <2>3, <2>5 DEF LedgerTypeOK, Account, Fresh
    <3>2. CASE letter \in Ids /\ PublishLock(letter)
      BY <3>2, <2>3, <2>4, PublishLockInv
    <3>3. QED
      BY <3>1, <3>2, <2>6
  <2>9. \A h \in Groups : \A i \in Ids :
            Letter[h][i] \in published' => \/ Letter[h][i] \in published
                                           \/ h = first[1] /\ i = first[2]
    <3> SUFFICES ASSUME NEW h \in Groups, NEW i \in Ids, Letter[h][i] \in published',
                        Letter[h][i] \notin published
                 PROVE  h = first[1] /\ i = first[2]
      OBVIOUS
    <3>1. Letter[h][i] = letter /\ letter \in Ids
      BY <2>6
    <3>2. <<h, i>> = <<first[1], first[2]>>
      BY <3>1, <2>4, WorkQueueAssumption DEF letter
    <3>3. QED
      BY <3>2
  <2>10. LettersPending'
    <3>1. \A h \in Groups : \A i \in Ids : Letter[h][i] \in published' => i \in dropped'[h]
      BY <2>4, <2>5, <2>9 DEF LettersPending
    <3>2. ASSUME NEW i \in 1 .. Len(sweep'.letters)
          PROVE  /\ sweep'.letters[i][2] \in dropped'[sweep'.letters[i][1]]
                 /\ Letter[sweep'.letters[i][1]][sweep'.letters[i][2]] \notin published'
      <4> DEFINE pair == sweep.letters[i + 1]
      <4>1. i + 1 \in 2 .. n /\ i + 1 \in 1 .. Len(sweep.letters) /\ sweep'.letters[i] = pair
        BY <2>2, <2>3 DEF n
      <4>2. pair \in Groups \X Ids /\ pair # first
        BY <4>1, <2>7
      <4>3. pair[1] \in Groups /\ pair[2] \in Ids /\ (pair[1] # first[1] \/ pair[2] # first[2])
        BY <4>2, <2>2
      <4>4. pair[2] \in dropped[pair[1]] /\ Letter[pair[1]][pair[2]] \notin published
        BY <4>1 DEF LettersPending
      <4>5. QED
        BY <4>1, <4>3, <4>4, <2>5, <2>9
    <3>3. \A i, j \in 1 .. Len(sweep'.letters) : sweep'.letters[i] = sweep'.letters[j] => i = j
      BY <2>2, <2>3 DEF LettersPending, n
    <3>4. QED
      BY <3>1, <3>2, <3>3 DEF LettersPending
  <2>11. SweepLocks'
    BY <2>3, <2>5 DEF SweepLocks, DueStaysLeased
  <2>12. QED
    BY <2>8, <2>10, <2>11
<1>3. QED
  BY <1>1, <1>2

\* Every step of the system preserves the ledger.
LEMMA LedgerStepInv == LedgerInv /\ [WorkQueueNext]_queueVars => LedgerInv'
<1> SUFFICES ASSUME LedgerInv, [WorkQueueNext]_queueVars
             PROVE  LedgerInv'
  OBVIOUS
<1>1. CASE \E id \in Ids : Publish(id)
  BY <1>1, PublishInv
<1>2. CASE \E g \in Groups : PublishGroup(g)
  BY <1>2, PublishGroupInv
<1>3. ASSUME NEW c \in Conns, ConnStep(c)
      PROVE  LedgerInv'
  <2>1. CASE \E g \in Groups : \E ack \in AckModes : Join(c, g, ack)
    BY <2>1, JoinInv
  <2>2. CASE \E g \in Groups : \E id \in Ids : AckGroup(c, g, id)
    BY <2>2, AckGroupInv
  <2>3. CASE \/ \E g \in Groups : Leave(c, g)
             \/ \E id \in Ids : Ack(c, id)
             \/ Drain(c)
             \/ Close(c)
    <3>1. UNCHANGED ledgerVars
      BY <2>3 DEF Leave, Ack, Drain, Close, ledgerVars, groupVars, historyVars
    <3>2. QED
      BY <3>1, LedgerUnchanged
  <2>4. QED
    BY <1>3, <2>1, <2>2, <2>3 DEF ConnStep
<1>4. CASE (\E g \in Groups, id \in Ids : Expire(g, id)) \/ SweepBegin
  BY <1>4, ExpireInv
<1>5. CASE \E g \in Groups, id \in Ids : SweepLease(g, id)
  BY <1>5, SweepLeaseInv
<1>6. CASE SweepUnlock \/ SweepLetter \/ SweepEnd
  BY <1>6, SweepRestInv
<1>7. CASE UNCHANGED queueVars
  BY <1>7, LedgerUnchanged DEF queueVars, ledgerVars, groupVars, historyVars
<1>8. QED
  BY <1>1, <1>2, <1>3, <1>4, <1>5, <1>6, <1>7 DEF WorkQueueNext, SweepStep

\* The ledger is an invariant of the consumer groups.
THEOREM LedgerHolds == WorkQueueSpec => []LedgerInv
  BY LedgerInitInv, LedgerStepInv, PTL DEF WorkQueueSpec

\* Broker::publish and sweep_group_leases: what a work-queue group was sent is
\* leased, acknowledged or given up on, exactly one of the three.
THEOREM TasksSettleOnce == WorkQueueSpec => []NoTaskLost
<1>1. LedgerInv => NoTaskLost
  BY DEF LedgerInv, Account, Entry, NoTaskLost
<1>2. QED
  BY <1>1, LedgerHolds, PTL

\* sweep_group_leases: an id is sent at most 1 + max_attempts times, and given
\* up on only after exactly that many.
THEOREM AttemptsCounted == WorkQueueSpec => []AttemptsAreSends
<1>1. LedgerInv => AttemptsAreSends
  <2> SUFFICES ASSUME LedgerInv, NEW g \in Groups, NEW id \in Ids
               PROVE  /\ sends[g][id] <= 1 + MaxAttempts
                      /\ id \in leases[g] => sends[g][id] = 1 + attempts[g][id]
                      /\ id \in dropped[g] => sends[g][id] = 1 + MaxAttempts
    BY DEF AttemptsAreSends
  <2>1. /\ sends[g][id] \in Nat /\ attempts[g][id] \in 0 .. MaxAttempts /\ MaxAttempts \in Nat
        /\ mode[g] \in {"none", "ack", "plain"}
        /\ Entry(mode[g], id \in leases[g], id \in acked[g], id \in dropped[g],
                 sends[g][id], attempts[g][id])
    BY WorkQueueAssumption DEF LedgerInv, LedgerTypeOK, Account
  <2>2. QED
    BY <2>1 DEF Entry
<1>2. QED
  BY <1>1, LedgerHolds, PTL

\* sweep_group_leases: neither expect can panic.
THEOREM SweepNeverPanics == WorkQueueSpec => []DueStaysLeased
<1>1. LedgerInv => DueStaysLeased
  BY DEF LedgerInv, SweepLocks
<1>2. QED
  BY <1>1, LedgerHolds, PTL

\* A fire-and-forget group keeps no lease and sends nothing twice.
THEOREM PlainGroupsSendOnce == WorkQueueSpec => []PlainAtMostOnce
<1>1. LedgerInv => PlainAtMostOnce
  <2> SUFFICES ASSUME LedgerInv, NEW g \in Groups, mode[g] = "plain"
               PROVE  leases[g] = {} /\ \A id \in Ids : sends[g][id] <= 1
    BY DEF PlainAtMostOnce
  <2>1. leases[g] \subseteq Ids
    BY DEF LedgerInv, LedgerTypeOK
  <2>2. QED
    BY <2>1 DEF LedgerInv, Account, Entry
<1>2. QED
  BY <1>1, LedgerHolds, PTL

\* ack_group_delivery is final: no publish and no sweep sends the id to the
\* group again.
THEOREM AckEndsDelivery == WorkQueueSpec => AckedIsFinal
<1>1. ASSUME LedgerInv, [WorkQueueNext]_queueVars
      PROVE  [\A g \in Groups : \A id \in acked[g] : sends'[g][id] = sends[g][id]]_queueVars
  <2> SUFFICES ASSUME WorkQueueNext, NEW g \in Groups, NEW id \in acked[g]
               PROVE  sends'[g][id] = sends[g][id]
    BY <1>1
  <2>1. id \in Ids /\ id \notin leases[g] /\ sends[g][id] > 0
    BY <1>1 DEF LedgerInv, Account, Entry, LedgerTypeOK
  <2>2. sends \in [Groups -> [Ids -> Nat]]
    BY <1>1 DEF LedgerInv, LedgerTypeOK
  <2>3. ASSUME NEW h \in Groups, PublishGroup(h)
        PROVE  sends'[g][id] = sends[g][id]
    <3>1. ~ (g = h /\ id = pub.id)
      BY <1>1, <2>1, <2>3 DEF LedgerInv, Fresh, PublishGroup
    <3>2. sends' = sends \/ sends' = [sends EXCEPT ![h][pub.id] = @ + 1]
      BY <2>3 DEF PublishGroup, DeliverTo
    <3>3. QED
      BY <2>1, <2>2, <3>1, <3>2
  <2>4. ASSUME NEW h \in Groups, NEW i \in Ids, SweepLease(h, i)
        PROVE  sends'[g][id] = sends[g][id]
    <3>1. ~ (g = h /\ id = i)
      BY <1>1, <2>1, <2>4 DEF LedgerInv, SweepLocks, DueStaysLeased, SweepLease
    <3>2. sends' = sends \/ sends' = [sends EXCEPT ![h][i] = @ + 1]
      BY <2>4 DEF SweepLease, GiveUp, Reclaim, PutOff, DeliverTo
    <3>3. QED
      BY <2>1, <2>2, <3>1, <3>2
  <2>5. CASE \/ \E i \in Ids : Publish(i)
             \/ \E c \in Conns : ConnStep(c)
             \/ \E h \in Groups, i \in Ids : Expire(h, i)
             \/ SweepBegin \/ SweepUnlock \/ SweepLetter \/ SweepEnd
    <3>1. sends' = sends
      <4>1. ASSUME NEW c \in Conns, ConnStep(c) PROVE sends' = sends
        BY <4>1, Zenon DEF ConnStep, Join, Leave, AckGroup, Ack, Drain, Close, historyVars
      <4>2. CASE \/ \E i \in Ids : Publish(i)
                 \/ \E h \in Groups, i \in Ids : Expire(h, i)
        BY <4>2 DEF Publish, PublishLock, Expire, historyVars
      <4>3. CASE SweepBegin \/ SweepUnlock \/ SweepLetter \/ SweepEnd
        BY <4>3, Zenon DEF SweepBegin, SweepUnlock, SweepLetter, SweepEnd, PublishLock, historyVars
      <4> QED BY <2>5, <4>1, <4>2, <4>3
    <3>2. QED
      BY <3>1
  <2>6. QED
    BY <2>3, <2>4, <2>5 DEF WorkQueueNext, SweepStep
<1>2. QED
  BY <1>1, LedgerHolds, PTL DEF WorkQueueSpec, AckedIsFinal

=============================================================================
