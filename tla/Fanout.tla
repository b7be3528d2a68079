-------------------------------- MODULE Fanout --------------------------------
(***************************************************************************)
(* Fan-out delivery through one broker: Broker::publish,                   *)
(* Broker::subscribe and the forwarder task (spawn_forwarder) that drains  *)
(* a subscription, with every point at which another thread can run        *)
(* between them.  The node is one without a store and without consumer     *)
(* groups; the groups are in WorkQueue.                                    *)
(*                                                                         *)
(* An envelope is its message id: a positive number, ordered the way       *)
(* UUIDv7 ids are, with its topic and retain effect given by constants.    *)
(* A broadcast channel is the sequence of everything ever sent on it; a    *)
(* receiver is a position in it and may read only the last RingCapacity.   *)
(***************************************************************************)
EXTENDS TopicMap, SeenIds

CONSTANTS Topics,          \* exact topics
          Patterns,        \* wildcard filters
          Matches,         \* [Patterns -> SUBSET Topics]: TopicFilter::matches
          TopicOf,         \* [Ids -> Topics]
          RetainOf,        \* [Ids -> {"no", "set", "clear"}]
          Publishers,      \* connection tasks that publish
          Subscribers,     \* forwarder tasks; each subscribes to one filter
          FilterOf,        \* [Subscribers -> Topics \cup Patterns]
          BufferCapacity,  \* DEFAULT_REPLAY_BUFFER_CAPACITY
          RingCapacity,    \* DEFAULT_TOPIC_CHANNEL_CAPACITY
          OutCapacity      \* OUTGOING_CHANNEL_CAPACITY

ASSUME FanoutAssumption ==
    /\ Ids \subseteq Nat \ {0}
    /\ Topics \cap Patterns = {}
    /\ Matches \in [Patterns -> SUBSET Topics]
    /\ TopicOf \in [Ids -> Topics]
    /\ RetainOf \in [Ids -> {"no", "set", "clear"}]
    /\ FilterOf \in [Subscribers -> Topics \cup Patterns]
    /\ BufferCapacity \in Nat \ {0}
    /\ RingCapacity \in Nat \ {0}
    /\ OutCapacity \in Nat \ {0}

VARIABLES topics,    \* Broker.topics
          patterns,  \* Broker.patterns
          chan,      \* every TopicChannel ever created, by number
          pub,       \* publishers inside Broker::publish
          sub,       \* forwarder tasks
          outgoing   \* how much waits in each forwarder's outgoing queue

fanoutVars == <<topics, patterns, chan, pub, sub, outgoing, seen, accepted>>

None == 0            \* no message id, no channel
-----------------------------------------------------------------------------
(* TopicChannel: replay buffer, retained message and broadcast sender.      *)

\* TopicChannel::new
NewChannel == [buffer |-> <<>>, retained |-> None, sent |-> <<>>]

\* TopicChannel::publish, one critical section of the channel's own lock.
ChannelPublish(c, id, retain) ==
    LET buffer == Append(c.buffer, id)
    IN  [buffer   |-> IF Len(buffer) > BufferCapacity THEN Tail(buffer) ELSE buffer,
         retained |-> CASE retain = "set"   -> id
                        [] retain = "clear" -> None
                        [] OTHER            -> c.retained,
         sent     |-> Append(c.sent, id)]

\* TopicChannel::subscribe: the backlog it returns; the receiver it registers
\* starts at the end of what was sent.
ChannelBacklog(c) ==
    IF c.retained # None /\ c.retained \notin Range(c.buffer)
    THEN <<c.retained>> \o c.buffer
    ELSE c.buffer

\* Mutation: the last delivered envelope is sent again.
RecoveredFromLast(backlog, last) ==
    LET positions == {i \in 1 .. Len(backlog) : backlog[i] = last}
    IN  IF last = None THEN backlog
        ELSE IF positions = {} THEN <<>>
        ELSE SubSeq(backlog, Min(positions), Len(backlog))

\* Mutation: nothing is replayed after a lag.
RecoveredNothing(backlog, last) == IF last = None THEN backlog ELSE <<>>

\* spawn_forwarder: what of a fresh backlog is sent, given last_delivered.
Recovered(backlog, last) ==
    LET positions == {i \in 1 .. Len(backlog) : backlog[i] = last}
    IN  IF last = None THEN backlog
        ELSE IF positions = {} THEN <<>>
        ELSE SubSeq(backlog, Min(positions) + 1, Len(backlog))

\* The case in which the forwarder warns that messages are lost.
GapOutranBuffer(backlog, last) == last # None /\ last \notin Range(backlog)
-----------------------------------------------------------------------------
Holding == {s \in Subscribers : sub[s].pc \in {"lock", "scan", "run"}}

\* Channels with receiver_count() > 0.
Live == {sub[s].chan : s \in Holding}

\* Broker.topics is read-locked by a wildcard subscribe that scans it.
TopicsReadLocked == \E s \in Subscribers : sub[s].pc = "scan"

\* Broker.patterns is read-locked by a publish that walks it.
PatternsReadLocked == \E p \in Publishers : pub[p].pc = "patterns"

\* The channels after get_or_insert(k) on map m.
WithChannelFor(m, k) ==
    IF k \in DOMAIN m.map THEN chan ELSE Append(chan, NewChannel)

Unread(s) == SubSeq(chan[sub[s].chan].sent, sub[s].pos + 1,
                    Len(chan[sub[s].chan].sent))

\* recv() answers Lagged: the receiver's next message has left the ring.
Lagged(s) == sub[s].pc = "run" /\ sub[s].backlog = <<>>
             /\ Len(Unread(s)) > RingCapacity

\* Mutation: a lagged receiver is not replaced.
SubscribingOnce(s) == sub[s].pc = "new"

\* The forwarder task is about to call Broker::subscribe.
Subscribing(s) == sub[s].pc = "new" \/ Lagged(s)
-----------------------------------------------------------------------------
FanoutInit ==
    /\ SeenInit
    /\ topics = EmptyMap
    /\ patterns = EmptyMap
    /\ chan = <<>>
    /\ pub = [p \in Publishers |-> [pc |-> "idle", id |-> None, chan |-> None, todo |-> {}]]
    /\ sub = [s \in Subscribers |->
                [pc |-> "new", chan |-> None, pos |-> 0, scan |-> {}, backlog |-> <<>>,
                 last |-> None, out |-> <<>>, lost |-> FALSE, lagged |-> FALSE]]
    /\ outgoing = [s \in Subscribers |-> 0]

(***************************************************************************)
(* Broker::publish.                                                        *)
(***************************************************************************)
\* The id is recorded in seen; a repeat returns 0 at once.
PublishBegin(p, id) ==
    /\ pub[p].pc = "idle"
    /\ \/ /\ Accept(id)
          /\ pub' = [pub EXCEPT ![p].pc = "fetch", ![p].id = id]
       \/ /\ Repeat(id)
          /\ UNCHANGED pub
    /\ UNCHANGED <<topics, patterns, chan, sub, outgoing>>

\* The exact channel is looked up or created under the write lock of topics,
\* which is released before anything is sent.
PublishFetch(p) ==
    LET t == TopicOf[pub[p].id]
        c == Len(chan) + 1
    IN  /\ pub[p].pc = "fetch"
        /\ ~ TopicsReadLocked
        /\ topics' = GetOrInsert(topics, t, c, Live)
        /\ chan' = WithChannelFor(topics, t)
        /\ pub' = [pub EXCEPT ![p].pc = "exact", ![p].chan = ChannelFor(topics, t, c)]
        /\ UNCHANGED <<patterns, sub, outgoing, seenVars>>

\* exact_channel.publish
PublishExact(p) ==
    /\ pub[p].pc = "exact"
    /\ chan' = [chan EXCEPT ![pub[p].chan] =
                    ChannelPublish(@, pub[p].id, RetainOf[pub[p].id])]
    /\ pub' = [pub EXCEPT ![p].pc = "lock", ![p].chan = None]
    /\ UNCHANGED <<topics, patterns, sub, outgoing, seenVars>>

\* The read lock of patterns is taken and held over the walk that follows.
PublishLock(p) ==
    /\ pub[p].pc = "lock"
    /\ pub' = [pub EXCEPT ![p].pc = "patterns",
                          ![p].todo = {f \in DOMAIN patterns.map :
                                         TopicOf[pub[p].id] \in Matches[f]}]
    /\ UNCHANGED <<topics, patterns, chan, sub, outgoing, seenVars>>

\* One matching pattern's channel.publish, never with a retain effect.
PublishPattern(p, f) ==
    /\ pub[p].pc = "patterns"
    /\ f \in pub[p].todo
    /\ chan' = [chan EXCEPT ![patterns.map[f]] = ChannelPublish(@, pub[p].id, "no")]
    /\ pub' = [pub EXCEPT ![p].todo = @ \ {f}]
    /\ UNCHANGED <<topics, patterns, sub, outgoing, seenVars>>

\* The lock is dropped, there is no group to deliver to, and publish returns.
PublishDone(p) ==
    /\ pub[p].pc = "patterns"
    /\ pub[p].todo = {}
    /\ pub' = [pub EXCEPT ![p].pc = "idle", ![p].id = None]
    /\ UNCHANGED <<topics, patterns, chan, sub, outgoing, seenVars>>
-----------------------------------------------------------------------------
(***************************************************************************)
(* Broker::subscribe as spawn_forwarder calls it: when the task starts and *)
(* each time its receiver lagged.  Whatever of the backlog comes after     *)
(* last_delivered is what the task goes on to send.                        *)
(***************************************************************************)
\* The task has its receiver and its backlog and starts sending.
Subscribed(s, c, pos, backlog) ==
    sub' = [sub EXCEPT ![s].pc = "run", ![s].chan = c, ![s].pos = pos,
                       ![s].backlog = Recovered(backlog, sub[s].last),
                       ![s].lost = @ \/ GapOutranBuffer(backlog, sub[s].last),
                       ![s].lagged = @ \/ Lagged(s)]

\* A literal filter: one step under the write lock of topics.
SubscribeExact(s) ==
    LET t == FilterOf[s]
        fresh == Len(chan) + 1
        c == ChannelFor(topics, t, fresh)
        cs == WithChannelFor(topics, t)
    IN  /\ t \in Topics
        /\ Subscribing(s)
        /\ ~ TopicsReadLocked
        /\ topics' = GetOrInsert(topics, t, fresh, Live)
        /\ chan' = cs
        /\ Subscribed(s, c, Len(cs[c].sent), ChannelBacklog(cs[c]))
        /\ UNCHANGED <<patterns, pub, outgoing, seenVars>>

\* A wildcard: first the pattern's own channel, under the lock of patterns.
SubscribePattern(s) ==
    LET f == FilterOf[s]
        fresh == Len(chan) + 1
        c == ChannelFor(patterns, f, fresh)
        cs == WithChannelFor(patterns, f)
    IN  /\ f \in Patterns
        /\ Subscribing(s)
        /\ ~ PatternsReadLocked
        /\ patterns' = GetOrInsert(patterns, f, fresh, Live)
        /\ chan' = cs
        /\ sub' = [sub EXCEPT ![s].pc = "lock", ![s].chan = c,
                              ![s].pos = Len(cs[c].sent),
                              ![s].backlog = ChannelBacklog(cs[c]),
                              ![s].lagged = @ \/ Lagged(s)]
        /\ UNCHANGED <<topics, pub, outgoing, seenVars>>

\* Then topics is read-locked and every matching topic's retained message is
\* added, unless the backlog has it.
ScanLock(s) ==
    /\ sub[s].pc = "lock"
    /\ sub' = [sub EXCEPT ![s].pc = "scan",
                          ![s].scan = DOMAIN topics.map \cap Matches[FilterOf[s]]]
    /\ UNCHANGED <<topics, patterns, chan, pub, outgoing, seenVars>>

ScanTopic(s, t) ==
    LET r == chan[topics.map[t]].retained
    IN  /\ sub[s].pc = "scan"
        /\ t \in sub[s].scan
        /\ sub' = [sub EXCEPT ![s].scan = @ \ {t},
                              ![s].backlog = IF r # None /\ r \notin Range(@)
                                             THEN Append(@, r) ELSE @]
        /\ UNCHANGED <<topics, patterns, chan, pub, outgoing, seenVars>>

\* The entries that come before entry i when a backlog is sorted by id.
Before(backlog, i) ==
    {j \in DOMAIN backlog : \/ backlog[j] < backlog[i]
                            \/ backlog[j] = backlog[i] /\ j < i}

\* The sort of a merged backlog (sort_by_key on the message id, which is stable):
\* at place k the entry with k - 1 before it.
SortedById(backlog) ==
    [k \in DOMAIN backlog |->
        backlog[CHOOSE i \in DOMAIN backlog : Cardinality(Before(backlog, i)) = k - 1]]

\* Mutation: the receiver is taken after the scan instead of before it.
ScanDoneLateReceiver(s) ==
    /\ sub[s].pc = "scan"
    /\ sub[s].scan = {}
    /\ Subscribed(s, sub[s].chan, Len(chan[sub[s].chan].sent),
                  SortedById(sub[s].backlog))
    /\ UNCHANGED <<topics, patterns, chan, pub, outgoing, seenVars>>

\* Finally the backlog is sorted by id.
ScanDone(s) ==
    /\ sub[s].pc = "scan"
    /\ sub[s].scan = {}
    /\ Subscribed(s, sub[s].chan, sub[s].pos,
                  SortedById(sub[s].backlog))
    /\ UNCHANGED <<topics, patterns, chan, pub, outgoing, seenVars>>
-----------------------------------------------------------------------------
(***************************************************************************)
(* The rest of the forwarder task.                                         *)
(***************************************************************************)
\* The next envelope goes to the connection's outgoing queue, which the send
\* awaits room in.
Forward(s) ==
    /\ sub[s].pc = "run"
    /\ sub[s].backlog # <<>>
    /\ outgoing[s] < OutCapacity
    /\ LET id == Head(sub[s].backlog)
       IN  sub' = [sub EXCEPT ![s].backlog = Tail(@), ![s].last = id,
                              ![s].out = Append(@, id)]
    /\ outgoing' = [outgoing EXCEPT ![s] = @ + 1]
    /\ UNCHANGED <<topics, patterns, chan, pub, seenVars>>

\* rx.recv() answers an envelope, which is now what the task has to send.
Receive(s) ==
    /\ sub[s].pc = "run"
    /\ sub[s].backlog = <<>>
    /\ ~ Lagged(s)
    /\ Unread(s) # <<>>
    /\ sub' = [sub EXCEPT ![s].pos = @ + 1, ![s].backlog = <<Head(Unread(s))>>]
    /\ UNCHANGED <<topics, patterns, chan, pub, outgoing, seenVars>>

\* write_loop takes an envelope off the queue and writes it to a client that
\* reads.
ClientReads(s) ==
    /\ outgoing[s] > 0
    /\ outgoing' = [outgoing EXCEPT ![s] = @ - 1]
    /\ UNCHANGED <<topics, patterns, chan, pub, sub, seenVars>>

\* The task is aborted (Unsubscribe, shut_down, reload) or its outgoing queue
\* closed, and its receiver is dropped.  An abort takes effect only where the
\* task awaits, so never inside the scan.
End(s) ==
    /\ sub[s].pc \in {"new", "lock", "run"}
    /\ sub' = [sub EXCEPT ![s].pc = "ended", ![s].chan = None, ![s].pos = 0,
                          ![s].scan = {}, ![s].backlog = <<>>]
    /\ UNCHANGED <<topics, patterns, chan, pub, outgoing, seenVars>>
-----------------------------------------------------------------------------
PublishStep(p) ==
    \/ PublishFetch(p)
    \/ PublishExact(p)
    \/ PublishLock(p)
    \/ \E f \in Patterns : PublishPattern(p, f)
    \/ PublishDone(p)

ForwarderStep(s) ==
    \/ SubscribeExact(s)
    \/ SubscribePattern(s)
    \/ ScanLock(s)
    \/ \E t \in Topics : ScanTopic(s, t)
    \/ ScanDone(s)
    \/ Forward(s)
    \/ Receive(s)

FanoutNext ==
    \/ \E p \in Publishers :
          \/ \E id \in Ids : PublishBegin(p, id)
          \/ PublishStep(p)
    \/ \E s \in Subscribers : ForwarderStep(s) \/ End(s) \/ ClientReads(s)

\* A task that can run is run, and the client reads what is written to it; a
\* client that stops reading stops its forwarders for good.  Nothing forces a
\* publish to begin or a forwarder to end.
FanoutFairness ==
    /\ \A p \in Publishers : WF_fanoutVars(PublishStep(p))
    /\ \A s \in Subscribers : WF_fanoutVars(ForwarderStep(s)) /\ WF_fanoutVars(ClientReads(s))

FanoutSpec == FanoutInit /\ [][FanoutNext]_fanoutVars

FairFanoutSpec == FanoutSpec /\ FanoutFairness
-----------------------------------------------------------------------------
(***************************************************************************)
(* The two topic maps stay consistent, so that eviction goes by the order  *)
(* of use and misses no entry (TopicMap::get_or_insert, touch,             *)
(* evict_over_capacity).                                                   *)
(***************************************************************************)
MapsConsistent == MapConsistent(topics) /\ MapConsistent(patterns)

Running(s) == sub[s].pc = "run"
Exact(s) == FilterOf[s] \in Topics

\* Everything a running forwarder has sent, is sending and will receive.
Stream(s) == sub[s].out \o sub[s].backlog \o Unread(s)

\* The dedup window was never exceeded, so no id was published twice.
EachIdOnce == IsInjective(accepted)

\* Position of id among what was sent on channel c, 0 if it was not.
SentAt(c, id) == SelectInSeq(chan[c].sent, LAMBDA x : x = id)

(***************************************************************************)
(* A forwarder of an exact topic never hands its connection the same       *)
(* message twice and never hands it two messages in another order than     *)
(* they were published in, whatever publishes, lags, retained messages and *)
(* evictions come between (Broker::subscribe, spawn_forwarder).            *)
(***************************************************************************)
ExactInOrderOnce ==
    EachIdOnce =>
    \A s \in Subscribers : Running(s) /\ Exact(s) =>
        LET all == Stream(s)
        IN  \A i, j \in 1 .. Len(all) : i < j =>
               /\ all[i] # all[j]
               /\ SentAt(sub[s].chan, all[j]) # 0
                  => SentAt(sub[s].chan, all[i]) < SentAt(sub[s].chan, all[j])

\* No retained message was ever sent on channel c.
NeverRetained(c) == \A id \in Range(chan[c].sent) : RetainOf[id] # "set"

\* The stream of s is the end of what its channel was sent, possibly after
\* one retained message that had left the replay buffer.
Gapless(s) ==
    LET all  == Stream(s)
        sent == chan[sub[s].chan].sent
    IN  \/ IsSuffix(all, sent)
        \/ /\ all # <<>>
           /\ RetainOf[Head(all)] = "set"
           /\ IsSuffix(Tail(all), sent)

(***************************************************************************)
(* A lag is either recovered in full or reported: a running forwarder that *)
(* has not warned of a loss has missed nothing sent on its channel since   *)
(* the first message it replayed, and has nothing twice.  Claimed for      *)
(* channels that never held a retained message: a retained message that    *)
(* has left the buffer is put in front of the backlog, and a forwarder     *)
(* whose last delivered message it is does not notice what lay between.    *)
(***************************************************************************)
NoSilentGap ==
    EachIdOnce =>
    \A s \in Subscribers :
        Running(s) /\ Exact(s) /\ ~ sub[s].lost
        /\ NeverRetained(sub[s].chan)
        => Gapless(s)

\* The channel of a running forwarder is the one registered for its filter.
Registered(s) ==
    LET m == IF Exact(s) THEN topics ELSE patterns
    IN  FilterOf[s] \in DOMAIN m.map /\ m.map[FilterOf[s]] = sub[s].chan

(***************************************************************************)
(* Current value: whatever a topic retains, a registered running forwarder *)
(* whose filter matches the topic has sent it, will send it, or a publish  *)
(* still on its way will deliver it.  The wildcard case takes the receiver *)
(* before the scan of retained messages, and this is why it must.          *)
(***************************************************************************)
CurrentValueReaches ==
    \A s \in Subscribers, t \in DOMAIN topics.map :
        LET r == chan[topics.map[t]].retained
        IN  /\ Running(s) /\ Registered(s) /\ ~ sub[s].lagged
            /\ \/ FilterOf[s] = t
               \/ FilterOf[s] \in Patterns /\ t \in Matches[FilterOf[s]]
            /\ r # None
            => \/ r \in Range(Stream(s))
               \/ ~ Exact(s) /\ \E p \in Publishers :
                     pub[p].id = r /\ (pub[p].pc = "lock" \/ FilterOf[s] \in pub[p].todo)

(***************************************************************************)
(* Liveness: a message sent on a running forwarder's channel is handed to  *)
(* the connection of a client that reads, however often its queue was      *)
(* full, unless the forwarder ends or reports a loss.  Claimed             *)
(* where NoSilentGap is, once the forwarder has delivered something: one   *)
(* that lags before that has nothing to tell the gap by.                   *)
(***************************************************************************)
EventuallyForwarded ==
    \A s \in Subscribers, id \in Ids :
        (/\ Running(s) /\ Exact(s) /\ NeverRetained(sub[s].chan)
         /\ sub[s].out # <<>> /\ id \in Range(Unread(s)))
        ~> \/ id \in Range(sub[s].out) \/ sub[s].lost
           \/ sub[s].pc = "ended" \/ ~EachIdOnce \/ (Running(s) /\ ~NeverRetained(sub[s].chan))

(***************************************************************************)
(* ADR-0025: when every entry has a live receiver "the map is simply       *)
(* allowed to exceed" its cap "rather than break a live subscriber's       *)
(* delivery guarantee".                                                    *)
(***************************************************************************)
LiveSubscriberStaysRegistered == \A s \in Subscribers : Running(s) => Registered(s)
=============================================================================
