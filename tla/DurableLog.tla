----------------------------- MODULE DurableLog ------------------------------
(***************************************************************************)
(* The durable log and a durable subscription to one of its topics:        *)
(* Broker::publish with a store, SqliteStore, subscribe_durable,           *)
(* spawn_durable_forwarder, the TTL sweep, and a node that stops at any    *)
(* step and comes back with what is on disk.                               *)
(*                                                                         *)
(* A message is its id, a number ordered like the UUIDv7 it stands for; a  *)
(* client makes it, so ids are published in any order, each once.  None is *)
(* retained.  A publish is a task per message, and a committed transaction *)
(* survives the stop of the process.  An action is what happens under one  *)
(* lock; a retention sweep that fails is left out, the next one makes up   *)
(* for it.                                                                 *)
(***************************************************************************)
EXTENDS Naturals, Sequences, SequencesExt, FiniteSets

CONSTANTS Ids,            \* message ids, positive numbers
          LogCapacity,    \* DEFAULT_PERSISTED_MESSAGES_PER_TOPIC
          PruneEvery,     \* PRUNE_EVERY
          BufferCapacity, \* DEFAULT_REPLAY_BUFFER_CAPACITY
          RingCapacity,   \* DEFAULT_TOPIC_CHANNEL_CAPACITY
          MaxCrashes,     \* bound: times the node stops
          MaxSessions     \* bound: times the subscriber connects

ASSUME DurableLogAssumption ==
    /\ Ids \subseteq Nat \ {0}
    /\ LogCapacity \in Nat \ {0} /\ PruneEvery \in Nat \ {0}
    /\ BufferCapacity \in Nat \ {0} /\ RingCapacity \in Nat \ {0}
    /\ MaxCrashes \in Nat /\ MaxSessions \in Nat

VARIABLES
    log,        \* disk: the rows of messages, by seq
    offset,     \* disk: the subscriber's row of subscriber_offsets, 0 for none
    pub,        \* where each message's publish is
    unpruned,   \* appends_since_prune
    buffer,     \* the topic's replay buffer
    pc,         \* where the durable forwarder is
    after,      \* last_id of subscribe_durable, 0 for None
    backlog,    \* what it is sending before it receives
    unread,     \* what its receiver has not read
    hand,       \* what it has sent and is recording
    last,       \* last_delivered, 0 for None
    late,       \* offsets being recorded for forwarders that were aborted
    crashes, sessions,
    \* history:
    stored,     \* messages whose append committed
    failed,     \* messages whose append failed
    visible,    \* messages sent on the channel, or in the log at a restart
    delivered,  \* messages sent to the subscriber
    overtaken,  \* messages a larger id became visible before
    gapped,     \* messages a lag recovery skipped
    forgone     \* messages that had left the replay buffer when a subscriber came for them

onDisk == <<log, offset>>
node == <<pub, unpruned, buffer>>
session == <<pc, after, backlog, unread, hand, last>>
past == <<stored, failed, visible, delivered, overtaken, gapped, forgone>>
logVars == <<onDisk, node, session, late, crashes, sessions, past>>

LogInit ==
    /\ log = <<>> /\ offset = 0
    /\ pub = [m \in Ids |-> "idle"] /\ unpruned = 0 /\ buffer = <<>>
    /\ pc = "off" /\ after = 0 /\ backlog = <<>> /\ unread = <<>> /\ hand = 0 /\ last = 0
    /\ late = {}
    /\ crashes = 0 /\ sessions = 0
    /\ stored = {} /\ failed = {} /\ visible = {} /\ delivered = {}
    /\ overtaken = {} /\ gapped = {} /\ forgone = {}

\* The newest n elements.
Newest(s, n) == IF Len(s) > n THEN SubSeq(s, Len(s) - n + 1, Len(s)) ELSE s
\* A set of numbers in ascending order: at place i the one with i - 1 below it.
Ascending(S) ==
    [i \in 1 .. Cardinality(S) |-> CHOOSE m \in S : Cardinality({n \in S : n < m}) = i - 1]
-----------------------------------------------------------------------------
(* Broker::publish                                                          *)

\* The id is new to the dedup window.
Accept(m) ==
    /\ pub[m] = "idle"
    /\ pub' = [pub EXCEPT ![m] = "accepted"]
    /\ UNCHANGED <<onDisk, unpruned, buffer, session, late, crashes, sessions, past>>

Persist(m) ==
    /\ pub[m] = "accepted"
    /\ pub' = [pub EXCEPT ![m] = "committed"]
    /\ log' = Append(log, m)
    /\ stored' = stored \cup {m}
    /\ overtaken' = overtaken \cup {n \in Ids : n < m /\ n \notin stored \cup visible}
    /\ UNCHANGED <<offset, unpruned, buffer, session, late, crashes, sessions, failed, visible,
                   delivered, gapped, forgone>>

\* SqliteStore::prune
Pruned(rows) == Newest(rows, LogCapacity)

PruneDue == unpruned + 1 >= PruneEvery

\* The rest of append: the retention sweep, once every PruneEvery appends.
Retain(m) ==
    /\ pub[m] = "committed"
    /\ pub' = [pub EXCEPT ![m] = "stored"]
    /\ log' = IF PruneDue THEN Pruned(log) ELSE log
    /\ unpruned' = IF PruneDue THEN 0 ELSE unpruned + 1
    /\ UNCHANGED <<offset, buffer, session, late, crashes, sessions, past>>

\* A store error is logged and delivery goes on.
PersistFails(m) ==
    /\ pub[m] = "accepted"
    /\ pub' = [pub EXCEPT ![m] = "stored"]
    /\ failed' = failed \cup {m}
    /\ UNCHANGED <<onDisk, unpruned, buffer, session, late, crashes, sessions, stored, visible,
                   delivered, overtaken, gapped, forgone>>

ReadyToSend(m) == pub[m] = "stored"

\* TopicChannel::publish: the replay buffer, and the subscriber's receiver if it has one.
\* What the buffer drops while a subscriber is between disk and buffer is lost to it.
Send(m) ==
    /\ ReadyToSend(m)
    /\ pub' = [pub EXCEPT ![m] = "sent"]
    /\ buffer' = Newest(Append(buffer, m), BufferCapacity)
    /\ unread' = IF pc \in {"run", "record"} THEN Append(unread, m) ELSE unread
    /\ visible' = visible \cup {m}
    /\ overtaken' = overtaken \cup {n \in Ids : n < m /\ n \notin visible}
    /\ forgone' = IF pc = "merge" /\ after # 0
                  THEN forgone \cup (ToSet(buffer) \ (ToSet(buffer') \cup ToSet(backlog)))
                  ELSE forgone
    /\ UNCHANGED <<onDisk, unpruned, pc, after, backlog, hand, last, late, crashes, sessions,
                   stored, failed, delivered, gapped>>
-----------------------------------------------------------------------------
(* subscribe_durable and spawn_durable_forwarder                            *)

\* The subscriber connects and subscribes: load_offset.
Connect ==
    /\ pc = "off"
    /\ sessions < MaxSessions
    /\ sessions' = sessions + 1
    /\ after' = offset
    /\ pc' = IF offset = 0 THEN "merge" ELSE "read"
    /\ UNCHANGED <<onDisk, node, backlog, unread, hand, last, late, crashes, past>>

\* SqliteStore::messages_since
MessagesSince(id) == Ascending({m \in ToSet(log) : m > id})

ReadRows ==
    /\ pc = "read"
    /\ backlog' = MessagesSince(after)
    /\ pc' = "merge"
    /\ UNCHANGED <<onDisk, node, after, unread, hand, last, late, crashes, sessions, past>>

\* Mutation: a subscriber that has a position is served from disk alone.
UnmatchedFromDiskOnly ==
    {m \in ToSet(buffer) : after = 0 /\ m \notin ToSet(backlog)}

\* What the in-memory backlog adds to the catch-up.
Unmatched == {m \in ToSet(buffer) : m > after /\ m \notin ToSet(backlog)}

\* Broker::subscribe, and the merge of its backlog with the catch-up.
MergeBacklog ==
    /\ pc = "merge"
    /\ backlog' = Ascending(ToSet(backlog) \cup Unmatched)
    /\ pc' = "run"
    /\ after' = 0
    /\ forgone' = IF after = 0 THEN forgone \cup (visible \ ToSet(buffer)) ELSE forgone
    /\ UNCHANGED <<onDisk, node, unread, hand, last, late, crashes, sessions, stored, failed,
                   visible, delivered, overtaken, gapped>>

\* outgoing_tx.send, to be followed by record_delivered.
Deliver(m) ==
    /\ pc' = "record"
    /\ hand' = m
    /\ delivered' = delivered \cup {m}
    /\ UNCHANGED <<onDisk, node, after, last, late, crashes, sessions, stored, failed, visible,
                   overtaken, gapped, forgone>>

SendBacklog ==
    /\ pc = "run"
    /\ backlog # <<>>
    /\ Deliver(Head(backlog))
    /\ backlog' = Tail(backlog)
    /\ UNCHANGED unread

Lagged == Len(unread) > RingCapacity

\* rx.recv() answers Ok.
Receive ==
    /\ pc = "run"
    /\ backlog = <<>>
    /\ unread # <<>>
    /\ ~ Lagged
    /\ Deliver(Head(unread))
    /\ unread' = Tail(unread)
    /\ UNCHANGED backlog

\* What follows last_delivered in the fresh backlog: everything if nothing was
\* delivered, nothing if it is no longer there.
Recovered ==
    IF last = 0 THEN buffer
    ELSE IF last \notin ToSet(buffer) THEN <<>>
    ELSE SubSeq(buffer, 1 + CHOOSE i \in 1 .. Len(buffer) : buffer[i] = last, Len(buffer))

\* rx.recv() answers Lagged: an ordinary subscribe, without the disk.
Recover ==
    /\ pc = "run"
    /\ backlog = <<>>
    /\ Lagged
    /\ backlog' = Recovered
    /\ unread' = <<>>
    /\ gapped' = gapped \cup (ToSet(unread) \ ToSet(Recovered))
    /\ UNCHANGED <<onDisk, node, pc, after, hand, last, late, crashes, sessions, stored, failed,
                   visible, delivered, overtaken, forgone>>

\* Mutation: the next message in line is recorded with the one that was sent.
RecordedAhead == IF backlog # <<>> THEN Head(backlog) ELSE hand

\* The id record_delivered is called with.
Recorded == hand

\* record_delivered, best effort.
Record ==
    /\ pc = "record"
    /\ offset' \in {Recorded, offset}
    /\ last' = hand
    /\ hand' = 0
    /\ pc' = "run"
    /\ UNCHANGED <<log, node, after, backlog, unread, late, crashes, sessions, past>>

EndSession ==
    pc' = "off" /\ after' = 0 /\ backlog' = <<>> /\ unread' = <<>> /\ hand' = 0 /\ last' = 0

\* The connection ends and its forwarder is aborted; a blocking call of record_offset
\* that was handed to its thread goes on.
Disconnect ==
    /\ pc # "off"
    /\ late' = IF pc = "record" THEN late \cup {hand} ELSE late
    /\ EndSession
    /\ UNCHANGED <<onDisk, node, crashes, sessions, past>>

LateRecord(m) ==
    /\ m \in late
    /\ offset' \in {m, offset}
    /\ late' = late \ {m}
    /\ UNCHANGED <<log, node, session, crashes, sessions, past>>
-----------------------------------------------------------------------------
(* The TTL sweep, and a stop of the node                                    *)

\* expire_before deletes the rows older than the cutoff. A row's ts is read before the lock
\* and from a clock that may be set, so these are any of the rows. The sweep then
\* republishes them on other topics, which are not part of this module.
Expire(old) ==
    /\ LET kept == Ascending({i \in DOMAIN log : log[i] \notin old})
       IN  log' = [j \in DOMAIN kept |-> log[kept[j]]]
    /\ UNCHANGED <<offset, node, session, late, crashes, sessions, past>>

\* The process stops and starts again: SqliteStore::open, rehydrate_from_store. What was
\* being published is lost from memory.
Restart ==
    /\ crashes < MaxCrashes
    /\ crashes' = crashes + 1
    /\ log' = Pruned(log)
    /\ buffer' = Newest(log', BufferCapacity)
    /\ pub' = [m \in Ids |-> IF pub[m] = "idle" THEN "idle" ELSE "gone"]
    /\ unpruned' = 0
    /\ EndSession
    /\ late' = {}
    /\ visible' = visible \cup ToSet(log')
    /\ overtaken' = overtaken \cup {n \in Ids \ visible' : \E m \in ToSet(log') : n < m}
    /\ UNCHANGED <<offset, sessions, stored, failed, delivered, gapped, forgone>>

Publishing == \E m \in Ids : Accept(m) \/ Persist(m) \/ PersistFails(m) \/ Retain(m) \/ Send(m)
Forwarding == ReadRows \/ MergeBacklog \/ SendBacklog \/ Receive \/ Recover \/ Record

LogNext ==
    \/ Publishing \/ Connect \/ Forwarding \/ Disconnect \/ Restart
    \/ \E m \in Ids : LateRecord(m)
    \/ \E old \in SUBSET ToSet(log) : old # {} /\ Expire(old)

LogSpec == LogInit /\ [][LogNext]_logVars
-----------------------------------------------------------------------------
(* Properties                                                               *)

\* The recorded position is a message the subscriber was sent, through disconnects, late
\* writes of an aborted forwarder and restarts (record_delivered, record_offset).
OffsetWasDelivered == offset \in delivered \cup {0}

\* A message in the log that the subscriber was never sent is still ahead of its position,
\* so that the next catch-up returns it, with the exceptions the code has: a larger id was
\* published first, a lag outran the replay buffer, or the message had left the buffer when
\* a subscriber without a position came, or before one with a position that had read the
\* disk too early to find it came to the buffer (subscribe_durable, spawn_durable_forwarder).
NeverSkipped ==
    \A m \in ToSet(log) \ delivered :
        offset = 0 \/ m > offset \/ m \in overtaken \cup gapped \cup forgone

=============================================================================
