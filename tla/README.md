# A TLA+ verification of thoth-mesh

thoth-mesh is a publish/subscribe mesh: each node runs a broker, accepts clients
over TCP (optionally TLS), dials other nodes and forwards to each what it is
interested in. This directory holds TLA+ modules for the parts of a node and of
the command line client that keep state, TLC configurations for small instances,
and TLAPS proofs of the safety properties that matter most. Paths below are
relative to the repository.

## Inventory

A node is one process on tokio's multi-thread runtime (`#[tokio::main]` in
`crates/thoth-mesh-node/src/main.rs`). Each connection, forwarder, sweep, dial
loop and the reload applier is a task; tasks share the broker and a few
registries, each behind a lock of its own. Between two locks any other task may
run, whether or not the code awaits there. That is where the hard behaviour is.

| component | state | operations | hard behaviour |
|---|---|---|---|
| dedup window (`SeenIds`, broker) | a queue and a set of ids | `record` | queue and set must agree; an id may come back once it left the window |
| topic map (`TopicMap`, broker) | key → channel, touch order | `get_or_insert`, `touch`, `evict_over_capacity` | eviction of what is in use |
| topic channel (`TopicChannel`, broker) | replay buffer, retained message, broadcast ring | `publish`, `subscribe` | the ring overwrites what a slow receiver has not read |
| fan-out (`Broker::publish`, `subscribe`, `spawn_forwarder`) | the two maps; per forwarder its receiver, backlog and last delivered id | publish, subscribe to a topic or a wildcard, forward, recover from a lag | lookup and send under different locks; receiver and retained scan under different locks; repeats and gaps after a lag |
| consumer groups (`GroupMembers`, `sweep_group_leases`, `work_queue.rs`, `dead_letter.rs`) | members, cursor, mode, leases with attempts | join, leave, deliver, ack, sweep, dead-letter | ack, leave and disconnect against a sweep; full queues; giving up |
| subscriptions (`handle_subscribe`, `handle_unsubscribe`, `shut_down`, `Interest`, `reconcile_topic_acls`) | per connection its forwarders; per node the interest counts; the ACL | subscribe, unsubscribe, shut down, reload | check, insert, count and tell are separate steps; a reload stops forwarders from another task |
| peer admission (`handle_hello`, `PeerLinks`, `Membership`, the allowlist reload) | link registry with guards, peers up and down, allowlist | hello, register, shut down, drop, reload | a repeated Hello; overlapping connections of one peer; a reload in the middle of an admission |
| per-message acks (`spawn_ack_forwarder`, `PendingAcks`) | pending envelopes and attempts | deliver, ack, sweep, dead-letter | the sweep resends while acks wait in a bounded channel |
| durable store (`persistence.rs`, `subscribe_durable`, `ttl.rs`) | rows, retained rows, offsets | append, catch up, record offset, expire, rehydrate | crashes between append, delivery and offset; ids out of order |
| interest between nodes (`PeerLinks::broadcast_interest`, the catch-up of `register_peer_link`, `reconcile_interest`) | what each side believes the other wants | tell, catch up, forget | dropped and crossing messages; nodes that keep each other interested |
| discovery and dialing (`PeerDirectory`, `learn_peers`, `peering.rs`) | known peers, dial permits, backoff | learn, gossip, dial, retry | eviction and re-learning, timeouts with a permit held |
| rate limiter (`rate_limit.rs`) | token buckets of the principals seen last | `allow` | several connections of one principal; refill, burst and eviction at their limits |
| topic filters, ACLs (`filter.rs`, `topic.rs`, `topic_acl.rs`) | none | `validate`, `is_literal`, `matches`; `permits` | a wildcard that reaches around an ACL |
| command line client (`thoth-mesh-cli`) | what it waits for, what it has buffered | publish, subscribe, request, status, topics, completions | deliveries among the Acks of a subscribe; a reply that is faster than its request; a refusal half-way |
| configuration and start-up (`main.rs`, `config.rs`, `reload.rs`, `lib.rs`) | effective settings, readiness, the reload channel | merge, validate, assemble, rehydrate, serve, SIGHUP | the file changes between two reads; a signal in the middle of the start; readiness before the store is read |
| metrics and health endpoint (`metrics_server.rs`, `health.rs`) | counters, readiness | `handle_request` | readiness and the token |
| framing, CBOR, TLS | | conversions and I/O | none that a model reaches |

How they interact: a connection task reads a frame and calls a handler; the
handlers call the broker, update `Interest` and tell the peers through
`PeerLinks`; a forwarder task drains a broker subscription into its
connection's bounded outgoing queue, which a writer task empties. Consumer
groups bypass forwarders: `Broker::publish` tries the members' outgoing queues
itself, under the lock of the groups. The reload applier changes the ACLs and
the allowlist and walks the registered connections and links. A peer link is a
connection like a client's: the same handlers take a peer's Subscribe, so what a
node tells its peers comes back as interest of theirs. A new link starts gossip,
which starts dial loops, which make new links.

## Modules

| module | models | state ↔ code |
|---|---|---|
| `SeenIds` | `SeenIds::record` | `seen.order`, `seen.set` are the two fields; `accepted` is history |
| `TopicMap` | `TopicMap` as operators on a record `[map, order]` | `Touch`, `EvictOverCapacity`, `GetOrInsert` are the methods |
| `Fanout` | `Broker::publish`/`subscribe` without store and groups, `TopicChannel`, `spawn_forwarder`; extends the two above | `topics`, `patterns` are the broker's maps, `chan` every channel ever created (an evicted one lives on while somebody holds it), `pub` the publishers inside `publish`, `sub` the forwarders, `outgoing` how full their connections' queues are |
| `WorkQueue` | consumer groups, outgoing queues, acks, the sweep, dead letters | `members`, `next`, `mode`, `leases`, `attempts` are `GroupMembers`; `outbox`, `open`, `joined` the connections; `sends`, `acked`, `dropped` are history |
| `Subscriptions` | the subscribe and unsubscribe handlers, `shut_down`, `Interest`, the ACL reload | `forwarders`, `counts`, `acl` are the shared state, `conn` and `reload` the program counters of the tasks, `leaked` and `early` are history |
| `PeerAdmission` | `handle_hello`, `admit_initial_peer`, the link registry, `Membership`, the allowlist reload | `links`, `up`, `down`, `allowed`, `notified` are the shared state, `conn` and `reload` the tasks, `slipped` is history |
| `AckContract` | what an `ack: true` subscription promises its client, abstractly | `copies`, `told`, `retired`, `gaveUp`: how often each message was sent, what was acknowledged, taken in, given up on |
| `AckDelivery` | `spawn_ack_forwarder`, `PendingAcks`, `handle_ack`, the outgoing queue and the client; implements `AckContract` | `pending`, `attempts`, `expired` are `PendingAcks.entries`; `pc`, `position`, `next`, `upto`, `last` the forwarder task; `outgoing`, `acks` the two bounded channels; `letters`, `resends` what a sweep has in hand |
| `DurableLog` | `publish` with a store, `SqliteStore`, `subscribe_durable`, `spawn_durable_forwarder`, `expire_before`, restart | `log`, `offset` are on disk; `pub`, `unpruned`, `buffer` the node; `pc`, `after`, `backlog`, `unread`, `hand`, `last` the forwarder; `late` the writes of aborted forwarders; the rest is history |
| `MeshInterest` | `propagate_interest`, `broadcast_interest`, the catch-up of `register_peer_link`, `shut_down` of a link, `reconcile_interest`, on all nodes of a mesh at once | `counts`, `registered`, `topicFilter` are each node's `Interest`, `PeerLinks` and filter; `forwarders`, `task` the connection tasks, clients and both ends of every link; `queue` what an end has sent and the other not read; `doubt` is history |
| `Discovery` | the dial loops of `peering.rs`, the handshake on both sides, `PeerDirectory`, `learn_peers` and the gossip of a new link | `directory`, `discovered`, `holding` are the directory, the channel to the dialer and the permits taken; `dial` the loops; `ends`, `open`, `queue`, `registered` the connections; `evicted` is history |
| `TopicFilters` | `Topic::validate`, `TopicFilter::validate`, `is_literal`, `matches` as operators on sequences of segments, and what a filter means (`Covers`) | |
| `RateLimiter` | `RateLimiter::allow` | `buckets`, `order` are `RateLimiterState`; `clock` is `Instant::now`; `granted` is history |
| `Session` | every command of the client, the dispatch of the node's read loop, ACLs and rate limit, and the way of a message from a publisher to what is printed; extends the two above | `client` the processes; `up`, `down` the connection; `reply` the answer being queued; `spawned` the forwarder tasks that have yet to call `Broker::subscribe`, `forwarders` those that have, `channels` the replay buffers; `rejections` the counters; `due`, `retired` are history |
| `Startup` | `main`, `EffectiveConfig::merge`, `run_with_tls`, `serve_with_tls`, `spawn_with_tls`, the SIGHUP reloader, `spawn_reload_applier`, the metrics endpoint | `phase`, `config`, `ready`, `loaded` the start; `reloader`, `watch`, `applier`, `acls` the two reload tasks and their channel; `live` the `Reloadable`s, `enforced` what connections were last held to; `seen`, `signalled` are history |
| `FanoutProofs` (with `SeenIds` and `TopicMap`), `WorkQueueProofs`, `ConnectionProofs` (of `Subscriptions` and `AckDelivery`), `PeerAdmissionProofs`, `MeshInterestProofs`, `RestartProofs` (of `DurableLog` and `Startup`), `DiscoveryProofs`, `SessionProofs` (with `RateLimiter`) | the theorems | |
| `MC*` | instances for TLC | |

An action is what happens under one lock, or one send or await where another
task can see the state in between. Definitions marked *Mutation* are not part of
any specification: each is a plausible mistake in the definition that follows
it, and the property it stands for fails when it is used instead.

Abstractions that are not obvious:

- A message is its id, a number ordered like the UUIDv7 it stands for; topic
  and retain effect are constants. Ids may be published in any order, because
  they are made by clients.
- A broadcast channel is the sequence of everything sent on it; a receiver is a
  position, and `Lagged` when more than the ring's capacity is unread. The
  tokio type is external and modelled from how `spawn_forwarder` uses it.
- `TopicFilter::matches` is a constant relation in `Fanout` and `WorkQueue`,
  and the rules of an ACL a constant function in `Subscriptions`.
- A forwarder's send into its connection's queue waits for room in `Fanout`
  (`Forward`) and never fails: a closed queue ends the task, which `End` covers.
- In `PeerAdmission` a frame other than a Hello is `Answer`, whatever it asks for:
  its reply is awaited inside the branch of the `select!` that read it.
- In `Subscriptions` one peer link stays connected with room in its queue.
- In `AckDelivery` the subscription is to one exact topic, so that a message is
  its position in the topic's stream, the replay buffer the last positions and
  a lag a distance. The client acknowledges only what it has read, possibly
  more than once or never. The timeout of an entry passes at any moment.
- In `DurableLog` a receiver is the queue of what it has not read, one subscriber
  follows one topic, and no message is retained. Disk means committed
  transactions. An append fails without a row or succeeds; a write of an offset
  may fail at any time; a retention sweep that fails is left out. A restart
  loses every task and everything in memory, at any step.
- In `WorkQueue` an id is published once: re-publication after it left the
  dedup window is in `SeenIds` only.
- In `MeshInterest` the outgoing channel and the stream behind it are one bounded
  queue, and a forwarder and its count are one step; what can come between them
  is the subject of `Subscriptions`. A peer filter is a set of permitted pairs.
- In `Discovery` a peer stands for its one address, and registering a link,
  recording its peer and announcing it are one step. A dialer connects again only
  when the accepting end of its last connection has closed, so that two
  connections of one dialer to one node never overlap (overlapping connections of
  a peer are in `PeerAdmission`). A time is shorter or longer
  than `MIN_HEALTHY_DURATION`. The directory's capacity is a constant per node,
  so that one node of an instance can be at its limit and the others not.
- In `RateLimiter` tokens are whole and time is counted in ticks, so that the
  rounding of `f64` is left out.
- In `Session` the broker loses nothing (what happens when it does is in
  `Fanout`), and what is not acknowledged is not resent (that is `AckDelivery`).
  A replay buffer therefore keeps everything. `handle_subscribe` spawns a task
  and queues its Ack; the task calls `Broker::subscribe` at any later moment
  (`StartForwarder`), as the comment at `tests/integration.rs:1637` says. A
  Subscribe with a group is acknowledged and joins; what the group then sends is
  in `WorkQueue`.
- In `Startup` a setting is unset, malformed or one of a few values; a failure
  that only I/O decides (a port in use, an unreadable store) may happen where the
  code has its `?`.

`AckDelivery` implements `AckContract` under the refinement mapping
`INSTANCE AckContract WITH outcome <- Outcome`, where `Outcome` reads
"open", "retired" or "given up" off the forwarder's table and history; the run checks the abstract
specification as a property and `ConnectionProofs` proves it. `Fanout` in the
same way implements `SeenIds`, whose variables are its own.

## Runs

| run | instance | checks |
|---|---|---|
| `fanout_lag` | one topic, 4 ids, 5 accepted publishes, one forwarder, ring 1, buffer 3, window 2, one retained message | the window's promise; an exact subscriber gets each message once and in order; a gap is always reported; what is sent is forwarded to a client that reads, or reported lost |
| `fanout_maps` | two topics in a map of 1, 3 ids, two publishers, an exact and a wildcard subscriber, retained messages set and cleared | the maps stay consistent; the current value reaches every registered subscriber |
| `work_queue` | a group on `#` in either mode, two connections, 2 ids, queues of 1, 1 retry, 3 joins | no task is lost; attempts are sends; the sweep's two `expect`s hold; an acknowledged task is never sent again; leases settle; what is given up on is dead-lettered |
| `subscriptions` | two connections, two filters, three ACLs, 3 requests, 1 reload | revocation has no gap; revoked forwarders stop; the interest counts are right, but for filters of which a reload stopped a forwarder before its count |
| `peer_admission` | two connections of one peer and one of another, 3 Hellos, 1 reload | the registry is exact; a revoked link is notified; a peer queued for eviction is down and a peer reported up has a connection; a notified link leaves, unless an answer to it waits for room for ever |
| `ack_delivery` | 3 messages, all three bounded channels at 1, replay buffer 2, 1 retry, 2 Ack frames, a dead-letter topic | the ledger of sends and attempts balances; `AckContract` is implemented; what was sent settles; what was given up on is dead-lettered |
| `durable_log` | 3 ids in any order, log of 2 rows pruned every 2 appends, buffer 1, ring 1, 1 restart, 2 sessions | the recorded position was sent; what is on disk and unsent stays ahead of the position, with the exceptions the property names |
| `mesh_interest` | two nodes, two clients on one, one topic, queues of 3, 2 requests, 1 reload, the link made twice | a settled mesh agrees on who wants what, but for messages that were lost, out of date or withheld |
| `discovery` | three nodes, two of which know only the third, one dial permit each, one failure, a directory of one entry at one node | permits are held by the dials under way; the Hello reply comes first; one dial loop per peer and eviction; the mesh closes |
| `session` | four commands at a time in seven scenarios, queues of 1, a burst of 1, room for one principal, 2 ticks, 1 interrupt | no delivery is lost, acknowledged unprinted or printed unpermitted; a reply finds its request; the limiter lets through exactly what burst and rate allow; every command ends or goes live |
| `startup` | twelve starts over three entry points, five versions of the file, 2 edits, 2 SIGHUPs | the settings in force are those of one version of the file; readiness waits for the store; the last reload takes effect |

Bounds. Two publishers, two connections and two filters are what a race needs:
each race the code's comments and ADRs discuss is between two tasks, or two
tasks and the reload. Capacities are at the smallest value at which the limit is
reached *and* the normal case still happens: the ring holds one message so that
every second unread one lags, while the buffer of three lets some lags recover
and others not; the topic map holds one entry so that each insertion evicts;
outgoing queues hold one envelope; one retry separates reclaim from giving up;
the dedup window of two is shorter than the number of accepted ids. For the log,
three messages are one more than the table holds, a buffer of one drops one of the two that
are published while a subscriber that has its first is between disk and buffer, and two
sessions with one restart between any two steps are what a resumption needs. Lags that a
buffer of several recovers from are in `fanout_lag`, and in the theorem for any buffer. In
`fanout_lag` one publisher suffices, since a channel orders what is sent on it
and the races of publishers over the maps are in `fanout_maps`, whose two
publishers are interchangeable and are explored up to their symmetry. In
`mesh_interest` a queue of three fills up with two requests and their echoes and
is empty again in between, and the second connection of the link meets
everything the first left behind. In `discovery` three nodes are what gossip
needs (one that tells a second of a third), one permit makes the two loops of a
node wait for each other, and the directory of one entry forgets a peer whenever
it learns another; the hub's directory holds both, because the mesh need not
close otherwise (see the limits). In `session` each scenario has the commands that
one question needs, and the burst of one with two ticks reaches refusal, refill
and the cap. In `startup` two edits and two signals are a change, its undoing, and
a signal that falls anywhere around either. Deadlock is
not checked: a node in which no client does anything rests, and the bounds on
requests, joins, Hellos, reloads, failures and edits stop a behaviour by design;
what must go on is stated as liveness.

Fairness. Weak fairness on each task's own next step: the runtime polls every
task that is ready, and no lock of the code is held across an await that waits
for a client. What only a client or an operator decides (a publish, a request, an ack,
a disconnect, a reload) has none. `EventuallyForwarded` is about clients that
read: in `Fanout` the writer takes what is queued (`ClientReads` is fair), because
a forwarder whose client does not read waits in its send for ever, with neither
an end nor a warning. In `PeerAdmission` every answer (the reply to a Hello, the
Error of a refusal, an Ack, a status or topics reply) waits for room in a queue
that a peer which does not read never empties, so no send is fair there, and
`NotifiedLeaves` says that a notified link ends or stays in a send for ever. The
branch of the `select!` that waits for the notification has strong fairness: the
macro polls its branches in a random order, so a peer that keeps sending frames
does not keep it from being taken. In `WorkQueue` time passes (`Expire`), a writer drains as long as its client reads,
and a connection whose writer ended is shut down. In `AckDelivery` the three
branches of the forwarder's `select!` have strong fairness, because the macro
polls them in a random order and so does not pass over for ever one that is
ready again and again; a client that stays connected reads, and no ack of it is
assumed. In `Discovery` the fairness is on progress as a whole: some task that can
go on does; timeouts, failures and broken links are owed by nobody and bounded.
In `Session` every process and task takes its next step; an interrupt, a failing
start and the passing of time that refills a bucket are not assumed, but the
time limit of a request is, because `tokio::time::timeout` keeps it. In `Startup`
the start, the reloader and the applier are scheduled; edits, signals, scrapes
and failures are not.

## Where the code does something else than its documentation says

One run is expected to be violated; PROJECT.json quotes the document.

- `fanout_orphan`: when every entry of the topic map is live, a subscribe's own
  new entry has no receiver yet and is the one evicted. The subscriber then
  listens on a channel nobody can find. ADR-0025 says the map grows instead.

Three more disagreements are exceptions in properties that hold otherwise:

- A reload can stop a forwarder between its insertion and the counting of its
  interest (`connection.rs:748`), and count off what was not counted; the comment
  at `connection.rs:743` says it cannot. `InterestCounted` excepts
  the filters this happened to (`early`) and holds of all others through any reload.
- A durable forwarder that lags behind more than the replay buffer holds
  (`connection.rs:1864`) resumes from the buffer and records a position behind
  messages that are on disk and were never sent. The comment at
  `connection.rs:1813` says its gap-skipping closes the gap and that reading the
  disk again would only redo that work. `NeverSkipped` excepts such a gap.
- `subscribe_durable` reads the disk first and takes buffer and receiver later. What is
  published in between and has left the buffer by then (more than 1024 publishes on
  the topic in that window) is in neither: the later messages are delivered and
  recorded, and the next catch-up starts behind it. The comment at `lib.rs:347` of the
  broker says that this race "can only ever double-deliver, never lose, a message at
  the seam" and ADR-0046 (line 140) that it is "never a loss". `NeverSkipped` did not
  except this until its proof failed there; the run reaches it.

Limits met while modelling, visible in the modules and not asked about by a run:
a publish that fetched its channel may send on it after the entry was evicted
and re-created, so a new subscriber misses it; a retained message published
during a wildcard subscribe may be both in the backlog and on the receiver; a
retained message that has left the buffer hides a gap from lag recovery if it
was the last one delivered; the round-robin cursor may exceed the number of
members after a leave until the next delivery takes it modulo the length; an
Unsubscribe whose Ack cannot be queued never counts its interest off (the
exception in `InterestCounted`); two connections may change an interest count in
one order and tell the peers in the other; a connection that says Hello under a
second id leaves the first marked as connected; a revoked peer that does not read
keeps its link for as long as an answer to it waits for room in its outgoing queue.

A Subscribe is acknowledged before its forwarder task has called
`Broker::subscribe` (`connection.rs:1708`). A message published in between is in the
replay buffer of its topic, which a literal filter replays, unless the task is so late that
1024 more have pushed it out; `Broker::publish` puts it on the pattern channels that exist
(`lib.rs:644` of the broker), so a wildcard that is the first of its pattern never
gets it unless it is retained, although its client has the Ack. The test at
`tests/integration.rs:1637` says so of the delay and polls until it is over. `NothingLost` therefore counts a literal filter from
`handle_subscribe` on and a wildcard from when its task has a receiver.

More of them, which contradict or qualify a document: lag recovery searches
`last_delivered` in a backlog that is sorted by id for a wildcard, while delivery
follows the order of publishing, so a message may be delivered again (ADR-0024);
an ack is tried on every group of its connection and may clear another group's
lease of the same id (ADR-0048); a link that registers and rechecks between
`disconnect_unless` and `allowed_peers.set` stays, which is the `slipped` of
`RevokedIsNotified` (ADR-0057). Of acks: an Ack dropped by a full channel may lead
to a dead letter of what the client acknowledged; attempts are counted for
copies that still wait in the outgoing queue; a forwarder aborted in its sweep
drops letters it has already taken out of the table. Of the log: an id that a
larger one overtook is behind the position and is never caught up with;
a subscriber's first session has only the replay buffer; a position is recorded
when the message enters the outgoing queue, not when the client has it; an id
published again after a restart has two rows; expired rows are deleted before
they are dead-lettered (`ttl.rs:79`), and two retained publishes may reach the
store in one order and the channel in the other (`persistence.rs:144`).

Of interest between nodes: two nodes that want the same filter keep each other's
interest alive after their clients left; an Unsubscribe that crosses the echo of
its Subscribe starts a pair of messages that circulates as long as the link
stands, where ADR-0011 expects each leg to see one transition per topic; a wildcard announced while no peer
filter was installed is not withdrawn when a reload installs one, although the comment
at `peer_links.rs:277` says that it could never have been announced (`doubt` records
it); an Unsubscribe
that a tightened filter withholds leaves the peer interested; a link registered
with a filter that was just replaced keeps to the old one; a connection that ends
between counting the first interest in a filter and queueing its Ack
(`connection.rs:762`) leaves the peers untold if another connection of the node
subscribed in between, because neither that Subscribe was the first nor the
shutdown the last, and they stay so until the next transition of the count (this
takes three nodes, one more than the run has; `doubt` covers it); and two ends that both
wait for room to queue an Ack never read again. Of discovery: while the directory is at its capacity a
peer that is linked is news again and again, and every time starts a loop that
never ends; a hub whose directory cannot hold its peers does not introduce them
all to each other, and `MeshConnects` is checked with one that can. Of the start:
a SIGHUP before the handler is installed ends the process; the config file is
looked for and read in two steps, both at the start and at a reload
(`main.rs:345`), so one that vanishes in between is taken for an empty one although the
comment there says it must never be silently read as nothing configured
(`ReloadsAreWhole` admits exactly that file); `spawn_with_tls` says it tolerates
a failing store like `run_with_tls`, which does not. Of the client:
`subscribe_all` sends all its Subscribes before it reads.

## Proofs

Assumptions are the named `ASSUME`s on constants: capacities are positive
naturals, constant functions have their types, the connections of
`Subscriptions` are finite in number and the scenarios of `Session` are typed as
clap types the arguments of a command. Nothing bounds the number of
connections, ids, groups or peers. One theorem has a hypothesis of its own,
`OneSender`, explained below.

- `FanoutProofs`.
  - The window. `DedupWindow` speaks of the history, which the code does not
    keep. The inductive invariant `SeenInv` adds `QueueIsTail`: the queue is
    exactly the last ids accepted. An id the set does not hold was then accepted
    before them or never. Every step of the broker is a call of `record` or leaves
    the window alone, so `FanoutSpec => SeenSpec`, and the facts about the window
    hold of the broker with any number of publishers and subscribers.
  - Delivery. `BrokerOK` is the shape of the broker: the replay buffer of a channel
    is the end of what it was sent and its retained message was sent on it, maps
    point to channels that exist, and each task has what its program counter
    promises. `FanoutInv` adds what `ExactInOrderOnce` and `NoSilentGap` rest on: no
    id was sent twice, on one channel of an exact topic or on two; a publisher that
    has not sent yet holds an id that is on no channel; what a forwarder has
    delivered, has in its backlog and has not read yet is in the order of its channel
    (and of the one registered for its filter now), and is the end of it without a gap
    as long as no loss was reported. The hard step is the lag: the forwarder fetches
    the replay buffer again and cuts off what it already delivered by its last id.
  - Maps. `MapsInv` says that each map and its queue hold the same keys, each once.
    That a map keeps to its capacity is no part of it: ADR-0025 lets live entries
    exceed it, and that the code evicts its newest entry instead is `fanout_orphan`.
  - Current value. `CurrentInv` follows a retained message from the channel of its
    topic to each forwarder that matches it. A topic's channel is the topic's own
    (`OwnChannels`), so an id on its way to the patterns belongs to the topic it was
    published on. A wildcard subscribe that has scanned a topic holds what the topic
    retains, in its backlog or on its receiver, or the publish that stored it has yet
    to walk the patterns; this is true only because the receiver is taken before the
    scan. The merged backlog is sorted by the number of entries before each (`Before`),
    and that the sort loses no entry (`SortedNumbers`) is a counting argument. Ids may
    come back after they left the dedup window, and topics may be evicted. A forwarder
    that has lagged is excluded: its ring has dropped messages.
- `WorkQueueProofs`. The invariant is a ledger per group and id (`LedgerInv`):
  how many sends an id has follows from where it is (never sent, leased with its
  attempts, acknowledged, given up on); an id being published is new; letters
  in hand were given up on; what is due in a sweep is leased, and the sweep
  excludes publishes while it holds the lock. `NoTaskLost`,
  `AttemptsAreSends`, `DueStaysLeased`, `PlainAtMostOnce` and the action
  property `AckedIsFinal` follow.
- `ConnectionProofs`, of `Subscriptions`. `RevocationEnforced` becomes inductive with two facts:
  a task inside a handler works on a filter (`HandlersHaveFilter`), and a
  connection that is draining or gone has no forwarder (`ClosedHasNone`), so a
  snapshot of the registered connections misses nobody who has one.
  `InterestCounted` is about tasks at rest; `CountInv` says for every point of the
  handlers which connections a count stands for (`Owes`), and equates the count of
  a filter with the number of them, or bounds it from below once an Unsubscribe
  leaked; a filter in `early` is left out. Cardinalities are why the connections are finite.
- `PeerAdmissionProofs`. `LinksExact` needs the stages of an admission
  (`Admitting`: which of the fields are set at each step) and the count of
  entries while a guard is replaced (`Balance`). `RevokedIsNotified` needs
  `Caught`, which says for every step of a reload who will still notify whom.
  `MembershipAgrees` needs `MemberInv`: whom a connection is admitted as is a sender
  it can have, the queue of disconnected peers is free of duplicates, and a
  peer that is up is held by a connection. It is proved under `OneSender`, that no
  connection speaks under two ids: without it the formula is false, since a
  connection that says Hello under a second id leaves the first reported as connected.
  The run makes the same choice of `Claims`.
- `ConnectionProofs`, of `AckDelivery`. Three invariants, each used by the next: `StreamInv` (the
  order of what was delivered, what is in hand and where the receiver is),
  `SettledInv` (nothing past the last delivered message was sent, and a pending
  message was sent and is neither retired nor given up on), `WireInv` (what is on its way to the client
  or back was sent). With them every step of `AckDelivery` is a step of
  `AckContract` or a stutter, and the ledger balances.
- `RestartProofs`. `OffsetWasDelivered` becomes inductive with what may still
  be written: the message the forwarder is recording and those the blocking
  calls of aborted forwarders hold were sent. `NeverSkipped` needs `AheadInv`, about the
  rows that are owed: not sent and not excused. They are ahead of everything that was ever
  sent, and not only of the position, since a position may be written late; none is
  behind a backlog it is not part of; and once the forwarder has looked for it, an owed
  row that is on the channel is in the backlog, the receiver or the buffer it is about to
  take (`OwedInv`). This rests on order: a message that follows a larger id on disk or on the
  channel is overtaken, so the log, the buffer and the receiver's queue ascend but for
  those (`NodeInv`, `QueueInv`). `Ascending` lists a finite set by the number of elements below
  each, because `SortSeq` is opaque to the provers; that it has every element in
  its place (`AscendingFacts`) is a counting argument. `ReadyMeansLoaded` needs how far the
  start is when `ready` is set (`ReadyInv`). `ReloadsAreWhole` needs to follow a
  version of the file on its way (`WholeInv`): what the reloader has read, what lies in the
  watch channel and what the applier holds are each the settings of one version that
  was seen, and at every step of the applier `Applied` says which of the four
  settings are already those.
- `DiscoveryProofs`. `PermitsHeld` needs that the dial end of a connection
  exists only while its loop runs it (`EndOfRun`): otherwise the end of an old
  connection could move a loop that holds a permit for the next one. `HelloFirst`
  needs `HelloInv`: an end that has not sent its Hello has sent nothing and is not
  registered, so no announcement reaches it, and what is registered later is queued
  behind the reply. `OneLoopPerPeer` needs `LoopInv`: a peer that is not in a directory
  has at most as many loops, running or waiting in the channel, as it was evicted.
  The loop of `learn_peers` is a recursive function over the positions of an
  announcement; that its turns exist (`TurnsExist`) and keep the bound
  (`LearnPeersKeeps`) is shown from a least position where they would not.
- `MeshInterestProofs`. `InterestAgrees` is about a mesh at rest, and says nothing of
  the steps before. `AllTold` says it of every moment: what an end will believe
  once it has read its queue (`View`) is what the other node wants now, or somebody
  is bound to say the difference: a task that counted the first or the last interest
  and has not come to this link yet, the catch-up of the new link, or a reload. In a
  settled mesh nobody is bound to say anything and the queues are read, so the two
  ends agree. It needs `LinkInv`: a task that tells the links has a filter to
  tell of; both ends of a link have the same connection or none; before an end is
  registered nothing was said on its connection; and an outgoing channel that
  somebody still holds is that of the open connection of a registered end, or of one
  that is over, to which a send does nothing. Nothing bounds nodes, links, requests,
  reloads and connections; that links have two different ends and that a client's
  connection is not an end of one are assumptions.
- `SessionProofs`. `OnlyPermitted` needs that every filter with a forwarder, running or
  spawned, passed `filter_acl_permits` for its connection (`Authorised`, `SpawnOK`), and that what waits in a
  forwarder or a replay buffer is a message its filter takes (`Queues`): where there
  is an ACL the filter is then a literal, and the topic is the filter itself.
  `AckedWasPrinted` needs what is on its way: an Ack in the connection names an id
  its client printed (`AcksOK`). `RateExact` needs `RateInv`: a bucket is a
  summary of the history, the least of the burst and of what each window that starts
  with a granted publish has room for. `MatchesIsCovers` compares the loop of
  `TopicFilter::matches`, a recursive function over positions, with the meaning of a
  filter: a function that answers each position by that meaning satisfies the
  recursion (`RestIsTurn`), and there is one such function only, since two would
  differ at a last position (`LoopIsRest`).
  `NoReplyMissed` needs `FlowInv`, which follows a reply from its cause: a message that
  names another as its cause exists only after that one was sent (`FreshOK`); a request
  that has read its Ack has the forwarder of its reply topic, or a task that will be it
  (`RolesOK`); so a reply the node accepts for a request that waits finds that forwarder or is
  in the buffer the task starts from, and what the forwarder took is in its queue or
  on the connection (`RepliesOK`). The property asks for
  one copy at least, since `request` returns at the first. `NothingLost` needs
  `CountInv`, which says of every id, and not only of those that are somewhere, that its
  number of occurrences in the history `due` is the number of places it is at. Places
  are counted as cardinalities of sets of positions, and each step moves a position,
  adds one to both sides, or none. What a spawned task will replay is counted with what
  the forwarders hold (`ToSend`), so that the start of a literal one moves nothing. At `Broker::publish` both sides grow by the
  number of filters of the connection that are owed it and take the topic, counted on one side with
  `Covers` and on the other with `Matches`: `MatchesIsCovers` is what makes them equal.
  The assumptions this rests on are that a reply topic holds no wildcard and that no
  id is the absence of one.

Only model-checked: liveness, since it needs fairness (`EventuallyForwarded`,
`LeaseSettles`, `GivenUpIsDeadLettered`, `RevokedStops`, `NotifiedLeaves`,
`DeliverySettles`, `GivenUpReachesDeadLetter`, `MeshConnects`, `EveryCommandAnswered`,
`ReloadTakesEffect`). Every other property of a passing run is stated by a theorem.
`SortSeq`, `SelectSeq`, `@@` and `:>` are opaque to the provers, which is why
`SortedById` (`Fanout`), `Ascending` (`DurableLog`), `Without` (`PeerAdmission`) and the map of
`GetOrInsert` (`TopicMap`) are written with `CHOOSE` and function constructors. Facts by induction over positions (the last, the first
index with a property) come from the least number principle.

## Not modelled

CBOR, length prefixes and TLS convert bytes and keep no state. The text of a
status or topics reply, of a metrics page and of what the client prints is
formatting. The table of retained messages, the dead letters of the TTL sweep and
an id that comes back while it is leased are named as hazards or limits above;
each needs two modules at once (`DurableLog` with several topics, `WorkQueue` with
`SeenIds`), whose product is beyond what a run can explore in minutes. The parsing
of an ACL rule is a set of values that do not parse.

## Order of work

The parts in which messages can be lost or repeated came first (`SeenIds`,
`TopicMap`, `Fanout`, `WorkQueue`, `AckDelivery`, `DurableLog`), then those in which
state is shared between connections (`Subscriptions`, `PeerAdmission`), then the mesh
(`MeshInterest`, `Discovery`) and the edges of the system (`Session`, `Startup`).
The proofs followed the same order. What is left of the properties is liveness; what is
left of the system is listed under *Not modelled*.
