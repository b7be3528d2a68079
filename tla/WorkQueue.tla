------------------------------ MODULE WorkQueue ------------------------------
(***************************************************************************)
(* Consumer groups and work-queue redelivery: Broker::join_group,          *)
(* leave_group, ack_group_delivery, sweep_group_leases and the group part  *)
(* of Broker::publish, with the sweep task (work_queue.rs), dead-lettering *)
(* (dead_letter.rs) and the connection side (handle_subscribe,             *)
(* handle_unsubscribe, handle_ack, shut_down).                             *)
(*                                                                         *)
(* Broker.groups is one mutex.  Publish, join, leave and ack hold it for a *)
(* moment each and are one action; the sweep holds it over many sends,     *)
(* while the writer tasks go on draining the queues it sends to.  Leases   *)
(* live in memory only, so a restart is a fresh behaviour.                 *)
(***************************************************************************)
EXTENDS Integers, Sequences

CONSTANTS Conns,           \* client connections
          Groups,          \* GroupKeys: a filter and a group name
          FilterOf,        \* [Groups -> filters]: the filter of a GroupKey
          Ids,             \* message ids
          MatchedBy,       \* [Ids -> SUBSET Groups]: whose filter matches the topic
          Letter,          \* the fresh envelope dead_letter makes of a group's id
          NoLetter,        \* no --dead-letter-topic, or an invalid destination
          OutboxCapacity,  \* capacity of a connection's outgoing queue
          MaxAttempts,     \* DEFAULT_MAX_REDELIVERY_ATTEMPTS
          AckModes,        \* values of ack that clients join with
          MaxJoins         \* bound: group Subscribes handled

ASSUME WorkQueueAssumption ==
    /\ MatchedBy \in [Ids -> SUBSET Groups]
    /\ NoLetter \notin Ids
    /\ Letter \in [Groups -> [Ids -> Ids \cup {NoLetter}]]
    /\ \A g, h \in Groups : \A i, j \in Ids :
          Letter[g][i] = Letter[h][j] => Letter[g][i] = NoLetter \/ <<g, i>> = <<h, j>>
    /\ OutboxCapacity \in Nat \ {0}
    /\ MaxAttempts \in Nat
    /\ AckModes \subseteq BOOLEAN
    /\ MaxJoins \in Nat

VARIABLES members,    \* GroupMembers.members
          next,       \* GroupMembers.next
          mode,       \* GroupMembers.ack_tracked: "none" until the entry exists
          leases,     \* the keys of GroupMembers.leases
          attempts,   \* GroupLease.attempts
          expired,    \* leases older than the ack timeout
          joined,     \* the Subscription::Group entries of a connection
          outbox,     \* what its writer task has not written yet
          open,       \* the connections whose writer task is alive
          got,        \* ids the client has and has not acknowledged
          acking,     \* handle_ack: the (group, id) pairs still to clear
          pub,        \* the publish that holds the lock: its id and the groups left
          sweep,      \* the sweep task
          published,  \* ids that passed the broker's duplicate check
          joins,      \* group Subscribes handled so far
          sends,      \* history: successful sends of an id to a group
          acked,      \* history: ids whose lease an ack cleared
          dropped     \* history: ids the sweep gave up on

groupVars == <<members, next, mode>>
leaseVars == <<leases, attempts, expired>>
connVars == <<joined, outbox, open, got, acking>>
historyVars == <<sends, acked, dropped>>
queueVars == <<groupVars, leaseVars, connVars, pub, sweep, published, joins, historyVars>>

SweepIdle == [pc |-> "idle", due |-> {}, current |-> {}, letters |-> <<>>]

\* Mutation: the sweep works on a snapshot and does not keep the lock.
GroupsUnlockedInSweep == pub.todo = {}

\* Nobody holds the lock of Broker.groups.
GroupsUnlocked == pub.todo = {} /\ sweep.pc # "leases"

WorkQueueInit ==
    /\ members = [g \in Groups |-> <<>>]
    /\ next = [g \in Groups |-> 0]
    /\ mode = [g \in Groups |-> "none"]
    /\ leases = [g \in Groups |-> {}]
    /\ attempts = [g \in Groups |-> [id \in Ids |-> 0]]
    /\ expired = [g \in Groups |-> {}]
    /\ joined = [c \in Conns |-> {}]
    /\ outbox = [c \in Conns |-> <<>>]
    /\ open = Conns
    /\ got = [c \in Conns |-> {}]
    /\ acking = [c \in Conns |-> {}]
    /\ pub = [id |-> NoLetter, todo |-> {}]
    /\ sweep = SweepIdle
    /\ published = {}
    /\ joins = 0
    /\ sends = [g \in Groups |-> [id \in Ids |-> 0]]
    /\ acked = [g \in Groups |-> {}]
    /\ dropped = [g \in Groups |-> {}]
-----------------------------------------------------------------------------
(* GroupMembers::deliver.                                                   *)

\* try_send succeeds: the queue is neither closed nor full.
Accepts(c) == c \in open /\ Len(outbox[c]) < OutboxCapacity

\* The member that is tried k sends after the cursor.
Index(g, k) == (next[g] + k) % Len(members[g])
Candidate(g, k) == members[g][Index(g, k) + 1]

\* The k-th candidate takes it, all before it refused.
Picked(g, k) ==
    /\ k \in 0 .. Len(members[g]) - 1
    /\ Accepts(Candidate(g, k))
    /\ \A j \in 0 .. k - 1 : ~ Accepts(Candidate(g, j))
    /\ next' = [next EXCEPT ![g] = (Index(g, k) + 1) % Len(members[g])]

\* deliver returns true.
DeliverTo(g, id) ==
    \E k \in 0 .. Len(members[g]) - 1 :
        /\ Picked(g, k)
        /\ outbox' = [outbox EXCEPT ![Candidate(g, k)] = Append(@, id)]
        /\ sends' = [sends EXCEPT ![g][id] = @ + 1]

\* deliver returns false: the group is empty or every member refused.
NoneAccepts(g) == \A i \in 1 .. Len(members[g]) : ~ Accepts(members[g][i])
-----------------------------------------------------------------------------
(* Broker::publish, from the lock of groups on.                             *)

\* The lock is taken; the groups whose filter matches are visited in turn.
PublishLock(id) ==
    /\ GroupsUnlocked
    /\ published' = published \cup {id}
    /\ pub' = [id |-> id, todo |-> {g \in MatchedBy[id] : mode[g] # "none"}]
    /\ UNCHANGED <<groupVars, leaseVars, connVars, joins, historyVars>>

\* A client publishes.  Ids that dead_letter makes are its own.
Publish(id) ==
    /\ id \notin published
    /\ \A g \in Groups : \A origin \in Ids : Letter[g][origin] # id
    /\ PublishLock(id)
    /\ UNCHANGED sweep

\* GroupMembers.ack_tracked
Tracked(g) == mode[g] = "ack"

\* One matching group; an accepted delivery of an ack-tracked group is leased.
PublishGroup(g) ==
    /\ g \in pub.todo
    /\ pub' = [pub EXCEPT !.todo = @ \ {g}]
    /\ \/ /\ DeliverTo(g, pub.id)
          /\ IF Tracked(g)
             THEN /\ leases' = [leases EXCEPT ![g] = @ \cup {pub.id}]
                  /\ attempts' = [attempts EXCEPT ![g][pub.id] = 0]
             ELSE UNCHANGED <<leases, attempts>>
       \/ /\ NoneAccepts(g)
          /\ UNCHANGED <<next, leases, attempts, outbox, sends>>
    /\ UNCHANGED <<members, mode, expired, joined, open, got, acking, sweep,
                   published, joins, acked, dropped>>
-----------------------------------------------------------------------------
(* The connection.                                                          *)

\* handle_subscribe with a group: nothing happens if this connection already
\* has a subscription under the same filter, and the first join of a group
\* decides whether it is ack-tracked.
Join(c, g, ack) ==
    /\ joins < MaxJoins
    /\ c \in open /\ acking[c] = {}
    /\ \A h \in joined[c] : FilterOf[h] # FilterOf[g]
    /\ GroupsUnlocked
    /\ mode' = [mode EXCEPT ![g] = IF @ = "none" THEN IF ack THEN "ack" ELSE "plain" ELSE @]
    /\ members' = [members EXCEPT ![g] = Append(@, c)]
    /\ joined' = [joined EXCEPT ![c] = @ \cup {g}]
    /\ joins' = joins + 1
    /\ UNCHANGED <<next, leaseVars, outbox, open, got, acking, pub, sweep,
                   published, historyVars>>

\* Mutation: what the group still has under lease goes with its last member.
LeaveForgetsLeases(c, g) ==
    /\ g \in joined[c] /\ acking[c] = {}
    /\ GroupsUnlocked
    /\ members' = [members EXCEPT ![g] = SelectSeq(@, LAMBDA m : m # c)]
    /\ leases' = [leases EXCEPT ![g] = IF members[g] = <<c>> THEN {} ELSE @]
    /\ joined' = [joined EXCEPT ![c] = @ \ {g}]
    /\ UNCHANGED <<next, mode, attempts, expired, outbox, open, got, acking, pub,
                   sweep, published, joins, historyVars>>

\* handle_unsubscribe, or one turn of shut_down's loop: leave_group.  The
\* leases of the group stay.
Leave(c, g) ==
    /\ g \in joined[c] /\ acking[c] = {}
    /\ GroupsUnlocked
    /\ members' = [members EXCEPT ![g] = SelectSeq(@, LAMBDA m : m # c)]
    /\ joined' = [joined EXCEPT ![c] = @ \ {g}]
    /\ UNCHANGED <<next, mode, leaseVars, outbox, open, got, acking, pub, sweep,
                   published, joins, historyVars>>

\* The writer task writes one envelope and the client reads it.
Drain(c) ==
    /\ c \in open /\ outbox[c] # <<>>
    /\ got' = [got EXCEPT ![c] = @ \cup {Head(outbox[c])}]
    /\ outbox' = [outbox EXCEPT ![c] = Tail(@)]
    /\ UNCHANGED <<groupVars, leaseVars, joined, open, acking, pub, sweep,
                   published, joins, historyVars>>

\* The client is gone: the writer task ends and drops its queue.
Close(c) ==
    /\ c \in open
    /\ open' = open \ {c}
    /\ outbox' = [outbox EXCEPT ![c] = <<>>]
    /\ UNCHANGED <<groupVars, leaseVars, joined, got, acking, pub, sweep,
                   published, joins, historyVars>>

\* handle_ack: the client acknowledged id.  The connection tries it on every
\* group it is in, one lock of groups each.
Ack(c, id) ==
    /\ id \in got[c] /\ acking[c] = {}
    /\ got' = [got EXCEPT ![c] = @ \ {id}]
    /\ acking' = [acking EXCEPT ![c] = joined[c] \X {id}]
    /\ UNCHANGED <<groupVars, leaseVars, joined, outbox, open, pub, sweep,
                   published, joins, historyVars>>

\* ack_group_delivery
AckGroup(c, g, id) ==
    /\ <<g, id>> \in acking[c]
    /\ GroupsUnlocked
    /\ acking' = [acking EXCEPT ![c] = @ \ {<<g, id>>}]
    /\ leases' = [leases EXCEPT ![g] = @ \ {id}]
    /\ expired' = [expired EXCEPT ![g] = @ \ {id}]
    /\ acked' = [acked EXCEPT ![g] = IF id \in leases[g] THEN @ \cup {id} ELSE @]
    /\ UNCHANGED <<groupVars, attempts, joined, outbox, open, got, pub, sweep,
                   published, joins, sends, dropped>>
-----------------------------------------------------------------------------
(* The sweep task.                                                          *)

\* The ack timeout of a lease runs out.
Expire(g, id) ==
    /\ id \in leases[g] \ expired[g]
    /\ expired' = [expired EXCEPT ![g] = @ \cup {id}]
    /\ UNCHANGED <<groupVars, leases, attempts, connVars, pub, sweep, published,
                   joins, historyVars>>

\* sweep_group_leases takes the lock and the time: what has expired is due.
SweepBegin ==
    /\ sweep.pc = "idle"
    /\ GroupsUnlocked
    /\ \E g \in Groups : expired[g] # {}
    /\ sweep' = [sweep EXCEPT !.pc = "leases",
                              !.due = {pair \in Groups \X Ids : pair[2] \in expired[pair[1]]}]
    /\ UNCHANGED <<groupVars, leaseVars, connVars, pub, published, joins, historyVars>>

\* The loop goes on to the next expired lease.
SweptLease(g, id, letters) ==
    sweep' = [sweep EXCEPT !.due = @ \ {<<g, id>>}, !.current = {g}, !.letters = letters]

\* Mutation: a lease whose last attempt is spent is skipped.
GiveUpSkipped(g, id) ==
    /\ attempts[g][id] >= MaxAttempts
    /\ SweptLease(g, id, sweep.letters)
    /\ UNCHANGED <<next, leaseVars, outbox, sends, dropped>>

\* The last attempt is spent: the lease goes and its envelope is handed back.
GiveUp(g, id) ==
    /\ attempts[g][id] >= MaxAttempts
    /\ leases' = [leases EXCEPT ![g] = @ \ {id}]
    /\ expired' = [expired EXCEPT ![g] = @ \ {id}]
    /\ dropped' = [dropped EXCEPT ![g] = @ \cup {id}]
    /\ SweptLease(g, id, Append(sweep.letters, <<g, id>>))
    /\ UNCHANGED <<next, attempts, outbox, sends>>

\* Some member takes it: one more attempt, and the lease starts again.
Reclaim(g, id) ==
    /\ attempts[g][id] < MaxAttempts
    /\ DeliverTo(g, id)
    /\ attempts' = [attempts EXCEPT ![g][id] = @ + 1]
    /\ expired' = [expired EXCEPT ![g] = @ \ {id}]
    /\ SweptLease(g, id, sweep.letters)
    /\ UNCHANGED <<leases, dropped>>

\* Mutation: an attempt is spent although nobody took it.
PutOffCounted(g, id) ==
    /\ attempts[g][id] < MaxAttempts
    /\ NoneAccepts(g)
    /\ attempts' = [attempts EXCEPT ![g][id] = @ + 1]
    /\ SweptLease(g, id, sweep.letters)
    /\ UNCHANGED <<next, leases, expired, outbox, sends, dropped>>

\* No member takes it: the lease stays as it is for the next sweep.
PutOff(g, id) ==
    /\ attempts[g][id] < MaxAttempts
    /\ NoneAccepts(g)
    /\ SweptLease(g, id, sweep.letters)
    /\ UNCHANGED <<next, leaseVars, outbox, sends, dropped>>

\* One expired lease; the leases of a group are handled together.
SweepLease(g, id) ==
    /\ sweep.pc = "leases"
    /\ <<g, id>> \in sweep.due
    /\ \A rest \in sweep.due : rest[1] \in sweep.current => rest[1] = g
    /\ GiveUp(g, id) \/ Reclaim(g, id) \/ PutOff(g, id)
    /\ UNCHANGED <<members, mode, joined, open, got, acking, pub, published, joins, acked>>

\* Mutation: what was given up on is only counted.
SweepUnlockNoLetters ==
    /\ sweep.pc = "leases" /\ sweep.due = {}
    /\ sweep' = SweepIdle
    /\ UNCHANGED <<groupVars, leaseVars, connVars, pub, published, joins, historyVars>>

\* The lock is released.
SweepUnlock ==
    /\ sweep.pc = "leases" /\ sweep.due = {}
    /\ sweep' = [sweep EXCEPT !.pc = "letters"]
    /\ UNCHANGED <<groupVars, leaseVars, connVars, pub, published, joins, historyVars>>

\* sweep_once dead-letters what was given up on, one publish after the other.
SweepLetter ==
    /\ sweep.pc = "letters" /\ sweep.letters # <<>>
    /\ sweep' = [sweep EXCEPT !.letters = Tail(@)]
    /\ LET letter == Letter[Head(sweep.letters)[1]][Head(sweep.letters)[2]]
       IN  IF letter = NoLetter
           THEN /\ GroupsUnlocked
                /\ UNCHANGED <<groupVars, leaseVars, connVars, pub, published, joins,
                               historyVars>>
           ELSE PublishLock(letter)

SweepEnd ==
    /\ sweep.pc = "letters" /\ sweep.letters = <<>> /\ pub.todo = {}
    /\ sweep' = SweepIdle
    /\ UNCHANGED <<groupVars, leaseVars, connVars, pub, published, joins, historyVars>>
-----------------------------------------------------------------------------
SweepStep ==
    \/ SweepBegin \/ SweepUnlock \/ SweepLetter \/ SweepEnd
    \/ \E g \in Groups, id \in Ids : SweepLease(g, id)

ConnStep(c) ==
    \/ \E g \in Groups : \/ \E ack \in AckModes : Join(c, g, ack)
                         \/ Leave(c, g)
                         \/ \E id \in Ids : AckGroup(c, g, id)
    \/ \E id \in Ids : Ack(c, id)
    \/ Drain(c)
    \/ Close(c)

WorkQueueNext ==
    \/ \E id \in Ids : Publish(id)
    \/ \E g \in Groups : PublishGroup(g)
    \/ \E c \in Conns : ConnStep(c)
    \/ \E g \in Groups, id \in Ids : Expire(g, id)
    \/ SweepStep

WorkQueueSpec == WorkQueueInit /\ [][WorkQueueNext]_queueVars

(***************************************************************************)
(* The runtime schedules every task that can go on, time passes, a writer  *)
(* task drains as long as its client reads, and a connection whose writer  *)
(* ended is shut down.  Nothing obliges a client to acknowledge.           *)
(***************************************************************************)
WorkQueueFairness ==
    /\ \A g \in Groups : WF_queueVars(PublishGroup(g))
    /\ \A c \in Conns : /\ WF_queueVars(Drain(c))
                        /\ \A g \in Groups : /\ WF_queueVars(c \notin open /\ Leave(c, g))
                                             /\ \A id \in Ids : WF_queueVars(AckGroup(c, g, id))
    /\ \A g \in Groups, id \in Ids : WF_queueVars(Expire(g, id))
    /\ WF_queueVars(SweepStep)

FairWorkQueueSpec == WorkQueueSpec /\ WorkQueueFairness
-----------------------------------------------------------------------------
(* Properties.                                                              *)

\* A delivery of an ack-tracked group is under lease until some member
\* acknowledged it or the sweep gave up on it, exactly one of the three,
\* whoever disconnected or left in between: no task is lost silently.
NoTaskLost ==
    \A g \in Groups : mode[g] = "ack" =>
        \A id \in Ids : sends[g][id] > 0 =>
            \/ id \in leases[g]  /\ id \notin acked[g] \cup dropped[g]
            \/ id \in acked[g]   /\ id \notin leases[g] \cup dropped[g]
            \/ id \in dropped[g] /\ id \notin leases[g] \cup acked[g]

\* A lease that no member could take costs no attempt: the sweep gives up on
\* an id only after it really was sent 1 + MaxAttempts times, and never sends
\* it more often.
AttemptsAreSends ==
    \A g \in Groups : \A id \in Ids :
        /\ sends[g][id] <= 1 + MaxAttempts
        /\ id \in leases[g] => sends[g][id] = 1 + attempts[g][id]
        /\ id \in dropped[g] => sends[g][id] = 1 + MaxAttempts

\* While the sweep goes through the ids it collected, each is still leased:
\* the two expect("id was just collected from leases above") never panic,
\* whatever acks, publishes and leaves wait for the lock.
DueStaysLeased == \A pair \in sweep.due : pair[2] \in leases[pair[1]]

\* Once an ack cleared a lease, the id is never sent to that group again: no
\* sweep that was already under way puts it back.
AckedIsFinal ==
    [][\A g \in Groups : \A id \in acked[g] : sends'[g][id] = sends[g][id]]_queueVars

\* A plain group sends an id to one member once and never again.
PlainAtMostOnce ==
    \A g \in Groups : mode[g] = "plain" =>
        /\ leases[g] = {}
        /\ \A id \in Ids : sends[g][id] <= 1

\* A lease does not stay for ever once a member remains to reclaim it: it is
\* acknowledged, or given up on after the last attempt, or the group has no
\* member left that could take it.
LeaseSettles ==
    \A g \in Groups : \A id \in Ids :
        id \in leases[g] ~> id \notin leases[g]
                            \/ \A i \in 1 .. Len(members[g]) : members[g][i] \notin open

\* What the sweep gave up on is published again as a dead letter, if it has a
\* destination.
GivenUpIsDeadLettered ==
    \A g \in Groups : \A id \in Ids :
        (id \in dropped[g] /\ Letter[g][id] # NoLetter) ~> Letter[g][id] \in published
=============================================================================
