------------------------------ MODULE Session ------------------------------
(***************************************************************************)
(* The command line client and the part of a node that answers it: every   *)
(* command from its arguments to its last line of output, the dispatch of  *)
(* the node's read loop, the topic ACLs, the rate limiter and the topic    *)
(* filters between a publisher and a subscriber.                           *)
(*                                                                         *)
(* A connection is a FIFO queue of envelopes each way: "up" is never full, *)
(* "down" (outgoing channel and stream) is.  The broker is the one of      *)
(* Fanout as long as nothing is lost: a channel per topic and per pattern  *)
(* with its replay buffer, and a forwarder per subscription.  What happens *)
(* to an envelope that is not acknowledged is the subject of AckDelivery.  *)
(***************************************************************************)
EXTENDS TopicFilters, RateLimiter, FiniteSets, SequencesExt

CONSTANTS Clients,       \* invocations of the client, and a peer's relay
          Scenarios,     \* what they are asked to do, and the node's settings
          Anonymous,     \* Principal::Anonymous
          Nothing,       \* no id
          NoAcl,         \* no ACL configured
          Cap,           \* OUTGOING_CHANNEL_CAPACITY
          MaxInterrupts  \* bound: clients that are interrupted

\* A topic or a filter on the command line: a sequence of segments.
Topic == Seq(STRING)

\* The arguments of a command, and what its config file adds.
Arguments ==
    [kind : {"publish", "subscribe", "request", "status", "topics", "completions",
             "respond", "relay"},
     filters : Seq(Topic), topic : Topic,
     ack : BOOLEAN, group : BOOLEAN, durable : BOOLEAN,
     flags : SUBSET STRING, file : SUBSET STRING, certificate : Principals]

\* An ACL is the set of what is permitted.
Acl == SUBSET (Principals \X {"pub", "sub"} \X Topic)

ASSUME SessionAssumption ==
    /\ Anonymous \in Principals
    /\ Clients \cap {SingleLevelWildcard, MultiLevelWildcard} = {}  \* reply topics are literal
    /\ Nothing \notin Clients \X Nat  \* no id is the absence of one
    /\ Scenarios \subseteq [commands : [Clients -> Arguments],
                            topicAcl : {NoAcl} \cup Acl, peerAcl : {NoAcl} \cup Acl,
                            rated : BOOLEAN, store : BOOLEAN]
    /\ Cap \in Nat \ {0}
    /\ MaxInterrupts \in Nat

VARIABLES scenario,    \* the constant part of the state: commands and settings
          client,      \* the client processes
          up,          \* what a client sent and the node has not read
          down,        \* what the node queued for a client and it has not read
          reply,       \* the answer a connection is about to queue, if any
          spawned,     \* filters whose forwarder task has yet to call Broker::subscribe
          forwarders,  \* forwarders that have: per filter, what is to be sent
          channels,    \* Broker.topics and .patterns: the replay buffers
          rejections,  \* the counters of the metrics, by reason
          retired,     \* deliveries the node takes for acknowledged
          due,         \* history: ids that each client is to receive
          interrupts   \* interrupted clients so far

sessionVars == <<scenario, client, up, down, reply, spawned, forwarders, channels,
                 rejections, retired, due, interrupts, buckets, order, clock, granted>>

nodeVars == <<reply, spawned, forwarders, channels, rejections, retired, due,
              buckets, order, clock, granted>>

Command(c) == scenario.commands[c]
IsPeer(c) == Command(c).kind = "relay"

Envelope(c, n, kind, topic) ==
    [id |-> <<c, n>>, kind |-> kind, topic |-> topic, ref |-> Nothing, replyTo |-> <<>>]

NoReply == [id |-> Nothing, kind |-> "none", topic |-> <<>>, ref |-> Nothing, replyTo |-> <<>>]
Answer(kind, ref) == [NoReply EXCEPT !.kind = kind, !.ref = ref]
-----------------------------------------------------------------------------
(* Arguments, config file and identity                                      *)

\* ConnectionOptions::merge: a flag wins over the config file.
Merged(c) == Command(c).flags \cup Command(c).file

\* A certificate comes with its key, whichever source each is from.
HalfIdentity(c) == ("tls_cert" \in Merged(c)) # ("tls_key" \in Merged(c))

\* build_connector: without a CA the connection is plaintext and anonymous,
\* whatever certificate is configured.
Identity(c) == IF {"tls_ca", "tls_cert", "tls_key"} \subseteq Merged(c)
               THEN Command(c).certificate ELSE Anonymous

\* parse_topic or parse_filter, before anything is dialed.
ValidArguments(c) ==
    CASE Command(c).kind \in {"publish", "request", "relay"} -> ValidTopic(Command(c).topic)
      [] Command(c).kind \in {"subscribe", "respond"} ->
             \A i \in DOMAIN Command(c).filters : ValidFilter(Command(c).filters[i])
      [] OTHER -> TRUE
-----------------------------------------------------------------------------
(* The client                                                               *)

NewClient == [pc |-> "start", pending |-> {}, backlog |-> <<>>, printed |-> <<>>]

SessionInit ==
    /\ scenario \in Scenarios
    /\ client = [c \in Clients |-> NewClient]
    /\ up = [c \in Clients |-> <<>>]
    /\ down = [c \in Clients |-> <<>>]
    /\ reply = [c \in Clients |-> NoReply]
    /\ spawned = [c \in Clients |-> {}]
    /\ forwarders = [c \in Clients |-> <<>>]
    /\ channels = <<>>
    /\ rejections = [topic_acl |-> 0, peer_topic_acl |-> 0, rate |-> 0]
    /\ retired = [c \in Clients |-> {}]
    /\ due = [c \in Clients |-> <<>>]
    /\ interrupts = 0
    /\ RateInit

At(c, pc) == client[c].pc = pc
Goto(c, pc) == client' = [client EXCEPT ![c].pc = pc]
Send(c, envelopes) == up' = [up EXCEPT ![c] = @ \o envelopes]

\* The private topic of a request, and the id the request itself has.
ReplyTopic(c) == <<"reply", c>>
RequestId(c) == <<c, 2>>

\* The Subscribes of subscribe_all, all of them sent up front.
Subscribes(c) ==
    LET filters == IF Command(c).kind = "request" THEN <<ReplyTopic(c)>> ELSE Command(c).filters
    IN  [i \in DOMAIN filters |-> Envelope(c, i, "Subscribe", filters[i])]

RequestPublish(c) == [Envelope(c, 2, "Publish", Command(c).topic) EXCEPT !.replyTo = ReplyTopic(c)]

\* Bad arguments or half an identity: the command fails before it dials.
Invalid(c) ==
    /\ At(c, "start") /\ Command(c).kind # "completions"
    /\ ~ValidArguments(c) \/ HalfIdentity(c)
    /\ Goto(c, "failed")
    /\ UNCHANGED <<scenario, up, down, interrupts>> /\ UNCHANGED nodeVars

\* The config file does not parse, or there is no connection to be had.
StartFails(c) ==
    /\ At(c, "start") /\ Command(c).kind # "completions"
    /\ Goto(c, "failed")
    /\ UNCHANGED <<scenario, up, down, interrupts>> /\ UNCHANGED nodeVars

\* Completions touch neither the config file nor the network.
Completions(c) ==
    /\ At(c, "start") /\ Command(c).kind = "completions"
    /\ Goto(c, "done")
    /\ UNCHANGED <<scenario, up, down, interrupts>> /\ UNCHANGED nodeVars

Connectable(c) == At(c, "start") /\ ValidArguments(c) /\ ~HalfIdentity(c)

\* publish sends its message and is done; nobody waits for an answer.  A
\* relay is another node's, over a peer link.
StartPublish(c) ==
    /\ Connectable(c) /\ Command(c).kind \in {"publish", "relay"}
    /\ Send(c, <<Envelope(c, 1, "Publish", Command(c).topic)>>)
    /\ Goto(c, "done")
    /\ UNCHANGED <<scenario, down, interrupts>> /\ UNCHANGED nodeVars

\* Mutation: a request is sent ahead of the Subscribe of its reply topic.
StartRequestFirst(c) ==
    /\ Connectable(c) /\ Command(c).kind \in {"subscribe", "respond", "request"}
    /\ Send(c, IF Command(c).kind = "request" THEN <<RequestPublish(c)>> \o Subscribes(c)
               ELSE Subscribes(c))
    /\ client' = [client EXCEPT ![c].pc = "acks",
                                ![c].pending = {e.id : e \in ToSet(Subscribes(c))}]
    /\ UNCHANGED <<scenario, down, interrupts>> /\ UNCHANGED nodeVars

StartSubscribe(c) ==
    /\ Connectable(c) /\ Command(c).kind \in {"subscribe", "respond", "request"}
    /\ Send(c, Subscribes(c))
    /\ client' = [client EXCEPT ![c].pc = "acks",
                                ![c].pending = {e.id : e \in ToSet(Subscribes(c))}]
    /\ UNCHANGED <<scenario, down, interrupts>> /\ UNCHANGED nodeVars

StartQuery(c) ==
    /\ Connectable(c) /\ Command(c).kind \in {"status", "topics"}
    /\ Send(c, <<Envelope(c, 1, Command(c).kind, <<>>)>>)
    /\ Goto(c, "query")
    /\ UNCHANGED <<scenario, down, interrupts>> /\ UNCHANGED nodeVars

\* recv: the next frame, whatever it is.
Received(c) == Head(down[c])
Recv(c) == down[c] # <<>> /\ down' = [down EXCEPT ![c] = Tail(@)]

\* What subscribe_all does with a frame it is not waiting for.
Buffered(c) == IF Received(c).kind = "Publish" THEN Append(client[c].backlog, Received(c))
               ELSE client[c].backlog

\* The last Ack is in: a subscriber prints its backlog, a request drops it
\* and is published.
AllAcked(c) ==
    IF Command(c).kind = "request"
    THEN /\ Send(c, <<RequestPublish(c)>>)
         /\ client' = [client EXCEPT ![c].pc = "reply", ![c].pending = {}, ![c].backlog = <<>>]
    ELSE /\ client' = [client EXCEPT ![c].pc = "backlog", ![c].pending = {}]
         /\ UNCHANGED up

\* Mutation: while it waits for Acks the client drops what is delivered.
AwaitAcksDropping(c) ==
    /\ At(c, "acks") /\ Recv(c)
    /\ CASE Received(c).kind = "Ack" /\ client[c].pending = {Received(c).ref} -> AllAcked(c)
         [] Received(c).kind = "Error" /\ Received(c).ref \in client[c].pending ->
                Goto(c, "failed") /\ UNCHANGED up
         [] OTHER -> /\ client' = [client EXCEPT ![c].pending = @ \ {Received(c).ref}]
                     /\ UNCHANGED up
    /\ UNCHANGED <<scenario, interrupts>> /\ UNCHANGED nodeVars

\* Mutation: a delivery is acknowledged as soon as it is buffered.
AwaitAcksEagerly(c) ==
    /\ At(c, "acks") /\ Recv(c)
    /\ CASE Received(c).kind = "Ack" /\ client[c].pending = {Received(c).ref} -> AllAcked(c)
         [] Received(c).kind = "Error" /\ Received(c).ref \in client[c].pending ->
                Goto(c, "failed") /\ UNCHANGED up
         [] OTHER -> /\ client' = [client EXCEPT ![c].pending = @ \ {Received(c).ref},
                                                 ![c].backlog = Buffered(c)]
                     /\ IF Received(c).kind = "Publish" /\ Command(c).ack
                        THEN Send(c, <<Answer("Ack", Received(c).id)>>) ELSE UNCHANGED up
    /\ UNCHANGED <<scenario, interrupts>> /\ UNCHANGED nodeVars

\* Mutation: only an Ack ends the wait for a Subscribe.
AwaitAcksOnly(c) ==
    /\ At(c, "acks") /\ Recv(c)
    /\ CASE Received(c).kind = "Ack" /\ client[c].pending = {Received(c).ref} -> AllAcked(c)
         [] OTHER -> /\ client' = [client EXCEPT
                            ![c].pending = IF Received(c).kind = "Ack" THEN @ \ {Received(c).ref}
                                           ELSE @,
                            ![c].backlog = Buffered(c)]
                     /\ UNCHANGED up
    /\ UNCHANGED <<scenario, interrupts>> /\ UNCHANGED nodeVars

\* subscribe_all: an Ack settles one Subscribe, an Error for any of them
\* fails the command, and a message that is delivered meanwhile is kept.
AwaitAcks(c) ==
    /\ At(c, "acks") /\ Recv(c)
    /\ CASE Received(c).kind = "Ack" /\ client[c].pending = {Received(c).ref} -> AllAcked(c)
         [] Received(c).kind = "Error" /\ Received(c).ref \in client[c].pending ->
                Goto(c, "failed") /\ UNCHANGED up
         [] OTHER -> /\ client' = [client EXCEPT ![c].pending = @ \ {Received(c).ref},
                                                 ![c].backlog = Buffered(c)]
                     /\ UNCHANGED up
    /\ UNCHANGED <<scenario, interrupts>> /\ UNCHANGED nodeVars

\* print_and_maybe_ack: print_if_publish first, and the Ack only for what
\* was printed.  A responder (any program that speaks the protocol) answers
\* a request under the topic it names.
Ack(c, e) == IF Command(c).ack THEN <<Answer("Ack", e.id)>> ELSE <<>>
Respond(c, e) ==
    IF Command(c).kind = "respond" /\ e.replyTo # <<>>
    THEN <<[Envelope(c, 10 + e.id[2], "Publish", e.replyTo) EXCEPT !.ref = e.id]>> ELSE <<>>

PrintBacklog(c) ==
    /\ At(c, "backlog")
    /\ LET rest == client[c].backlog IN
       IF rest = <<>> THEN Goto(c, "live") /\ UNCHANGED up
       ELSE /\ client' = [client EXCEPT ![c].backlog = Tail(@),
                                        ![c].printed = Append(@, Head(rest).id)]
            /\ Send(c, Ack(c, Head(rest)) \o Respond(c, Head(rest)))
    /\ UNCHANGED <<scenario, down, interrupts>> /\ UNCHANGED nodeVars

PrintLive(c) ==
    /\ At(c, "live") /\ Recv(c)
    /\ IF Received(c).kind = "Publish"
       THEN /\ client' = [client EXCEPT ![c].printed = Append(@, Received(c).id)]
            /\ Send(c, Ack(c, Received(c)) \o Respond(c, Received(c)))
       ELSE UNCHANGED <<client, up>>
    /\ UNCHANGED <<scenario, interrupts>> /\ UNCHANGED nodeVars

\* request: the reply to this very request, and nothing else, ends the wait.
AwaitReply(c) ==
    /\ At(c, "reply") /\ Recv(c)
    /\ client' = IF Received(c).kind = "Publish" /\ Received(c).ref = RequestId(c)
                 THEN [client EXCEPT ![c].pc = "done",
                                     ![c].printed = Append(@, Received(c).id)]
                 ELSE client
    /\ UNCHANGED <<scenario, up, interrupts>> /\ UNCHANGED nodeVars

\* --timeout-secs is over.
TimesOut(c) ==
    /\ At(c, "reply")
    /\ Goto(c, "failed")
    /\ UNCHANGED <<scenario, up, down, interrupts>> /\ UNCHANGED nodeVars

\* request_status and request_topics, and the printing of the reply.
AwaitAnswer(c) ==
    /\ At(c, "query") /\ Recv(c)
    /\ client' = IF Received(c).kind = Command(c).kind /\ Received(c).ref = <<c, 1>>
                 THEN [client EXCEPT ![c].pc = "done"] ELSE client
    /\ UNCHANGED <<scenario, up, interrupts>> /\ UNCHANGED nodeVars

\* Ctrl-C, or a connection that breaks.
Interrupt(c) ==
    /\ client[c].pc \in {"acks", "backlog", "live", "reply", "query"}
    /\ interrupts < MaxInterrupts
    /\ Goto(c, "gone")
    /\ interrupts' = interrupts + 1
    /\ UNCHANGED <<scenario, up, down>> /\ UNCHANGED nodeVars

ClientStep(c) ==
    \/ Invalid(c) \/ Completions(c) \/ StartPublish(c) \/ StartSubscribe(c) \/ StartQuery(c)
    \/ AwaitAcks(c) \/ PrintBacklog(c) \/ PrintLive(c) \/ AwaitReply(c) \/ TimesOut(c)
    \/ AwaitAnswer(c)
-----------------------------------------------------------------------------
(* The node's side of a connection                                          *)

Gone(c) == client[c].pc \in {"done", "failed", "gone"}

\* The next frame is read once the answer to the last one is queued.
Frame(c) == Head(up[c])
NodeReads(c, kind) ==
    /\ reply[c] = NoReply /\ up[c] # <<>> /\ Frame(c).kind = kind
    /\ up' = [up EXCEPT ![c] = Tail(@)]

Replies(c, answer) == reply' = [reply EXCEPT ![c] = answer]

\* topic_acl for a client, peer_topic_acl for a peer link.
AclOf(c) == IF IsPeer(c) THEN scenario.peerAcl ELSE scenario.topicAcl

\* acl_permits and topic_acl_permits: no ACL permits everything.
AclPermits(c, action, topic) ==
    AclOf(c) = NoAcl \/ <<Identity(c), action, topic>> \in AclOf(c)

\* Mutation: a wildcard is taken for a topic nobody restricted.
WildcardPermits(c, filter) == ~IsLiteral(filter) \/ AclPermits(c, "sub", filter)

\* filter_acl_permits: where there is an ACL, no wildcard passes.
FilterAclPermits(c, filter) ==
    AclOf(c) = NoAcl \/ (IsLiteral(filter) /\ AclPermits(c, "sub", filter))

\* Why handle_subscribe refuses a durable subscription.
DurableRefused(c, filter) ==
    Command(c).durable /\ \/ Command(c).ack \/ Command(c).group
                          \/ Identity(c) = Anonymous
                          \/ ~IsLiteral(filter)
                          \/ ~scenario.store

CountRejection(c) ==
    rejections' = IF IsPeer(c) THEN [rejections EXCEPT !.peer_topic_acl = @ + 1]
                  ELSE [rejections EXCEPT !.topic_acl = @ + 1]

\* The replay buffer of a topic's or a pattern's channel.
Buffer(f) == IF f \in DOMAIN channels THEN channels[f] ELSE <<>>

\* subscribe --group, whose Subscribe joins a consumer group.
JoinsGroup(c) == Command(c).kind = "subscribe" /\ Command(c).group

\* What a literal subscription is due from the moment it is made.
DueAtOnce(filter) ==
    IF IsLiteral(filter) THEN [i \in DOMAIN Buffer(filter) |-> Buffer(filter)[i].id] ELSE <<>>

\* handle_subscribe: refused, or acknowledged, for a filter that is new with
\* a forwarder task spawned.  A member of a group has no forwarder; what its
\* group sends it is in WorkQueue.  The ACL does not change here, so that the
\* second check of it says what the first said.
HandleSubscribe(c) ==
    /\ NodeReads(c, "Subscribe")
    /\ LET filter == Frame(c).topic
           known == filter \in DOMAIN forwarders[c] \cup spawned[c]
       IN  CASE DurableRefused(c, filter) ->
                  /\ Replies(c, Answer("Error", Frame(c).id))
                  /\ UNCHANGED <<spawned, rejections, due>>
             [] ~DurableRefused(c, filter) /\ ~FilterAclPermits(c, filter) ->
                  /\ Replies(c, Answer("Error", Frame(c).id))
                  /\ CountRejection(c)
                  /\ UNCHANGED <<spawned, due>>
             [] OTHER ->
                  /\ Replies(c, Answer("Ack", Frame(c).id))
                  /\ IF known \/ JoinsGroup(c) THEN UNCHANGED <<spawned, due>>
                     ELSE /\ spawned' = [spawned EXCEPT ![c] = @ \cup {filter}]
                          /\ due' = [due EXCEPT ![c] = @ \o DueAtOnce(filter)]
                  /\ UNCHANGED rejections
    /\ UNCHANGED <<scenario, client, down, forwarders, channels, retired, interrupts>>
    /\ UNCHANGED rateVars

\* The task calls Broker::subscribe, at any time after the Ack is queued or
\* before: it has what the channel's buffer holds and receives from here on.
\* Until then a wildcard is due nothing, since no channel keeps it.
StartForwarder(c, f) ==
    /\ f \in spawned[c]
    /\ spawned' = [spawned EXCEPT ![c] = @ \ {f}]
    /\ forwarders' = [forwarders EXCEPT ![c] = [g \in DOMAIN @ \cup {f} |->
                                                  IF g = f THEN Buffer(f) ELSE @[g]]]
    /\ channels' = [g \in DOMAIN channels \cup {f} |-> Buffer(g)]
    /\ due' = IF IsLiteral(f) THEN due
              ELSE [due EXCEPT ![c] = @ \o [i \in DOMAIN Buffer(f) |-> Buffer(f)[i].id]]
    /\ UNCHANGED <<scenario, client, up, down, reply, rejections, retired, interrupts>>
    /\ UNCHANGED rateVars

\* Broker::publish: the topic's channel and every pattern channel that
\* matches take the message, in their buffers and for their receivers.
Takes(f, topic) == f = topic \/ (~IsLiteral(f) /\ Matches(f, topic))

\* The subscriptions that are due what is published now.
Owed(c) == DOMAIN forwarders[c] \cup {f \in spawned[c] : IsLiteral(f)}

Publish(e) ==
    /\ channels' = [f \in DOMAIN channels \cup {e.topic} |->
           IF Takes(f, e.topic) THEN Append(Buffer(f), e) ELSE Buffer(f)]
    /\ forwarders' = [c \in Clients |-> [f \in DOMAIN forwarders[c] |->
           IF Takes(f, e.topic) THEN Append(forwarders[c][f], e) ELSE forwarders[c][f]]]
    /\ due' = [c \in Clients |-> due[c] \o
           [i \in 1 .. Cardinality({f \in Owed(c) : Covers(f, e.topic)}) |-> e.id]]

\* handle_publish: the ACL first, then the rate limit, which a peer is free
\* of; a refusal is counted and answered, a publish is not answered.
HandlePublish(c) ==
    /\ NodeReads(c, "Publish")
    /\ LET limited == ~IsPeer(c) /\ scenario.rated
           permitted == AclPermits(c, "pub", Frame(c).topic)
           p == Identity(c)
       IN  /\ IF permitted /\ limited THEN Allow(p) ELSE UNCHANGED rateVars
           /\ CASE ~permitted ->
                     /\ Replies(c, Answer("Error", Frame(c).id)) /\ CountRejection(c)
                     /\ UNCHANGED <<forwarders, channels, due>>
                [] permitted /\ limited /\ ~Allows(p) ->
                     /\ Replies(c, Answer("Error", Frame(c).id))
                     /\ rejections' = [rejections EXCEPT !.rate = @ + 1]
                     /\ UNCHANGED <<forwarders, channels, due>>
                [] OTHER -> Publish(Frame(c)) /\ UNCHANGED <<reply, rejections>>
    /\ UNCHANGED <<scenario, client, down, spawned, retired, interrupts>>

\* handle_ack: the forwarders are told; nothing is answered.
HandleAck(c) ==
    /\ NodeReads(c, "Ack")
    /\ retired' = [retired EXCEPT ![c] = @ \cup {Frame(c).ref}]
    /\ UNCHANGED <<scenario, client, down, reply, spawned, forwarders, channels, rejections,
                   due, interrupts>> /\ UNCHANGED rateVars

\* handle_status and handle_topics; what they report is printed and not
\* used, so that the answer is one in name only.
HandleQuery(c) ==
    /\ \E kind \in {"status", "topics"} :
           NodeReads(c, kind) /\ Replies(c, Answer(kind, Frame(c).id))
    /\ UNCHANGED <<scenario, client, down, spawned, forwarders, channels, rejections,
                   retired, due, interrupts>> /\ UNCHANGED rateVars

Room(c) == Len(down[c]) < Cap /\ ~Gone(c)

\* ConnectionContext::send waits for room in the outgoing channel.
SendReply(c) ==
    /\ reply[c] # NoReply /\ Room(c)
    /\ down' = [down EXCEPT ![c] = Append(@, reply[c])]
    /\ Replies(c, NoReply)
    /\ UNCHANGED <<scenario, client, up, spawned, forwarders, channels, rejections, retired,
                   due, interrupts>> /\ UNCHANGED rateVars

\* A forwarder does, too; it waits for no Ack of its Subscribe.
Forward(c, f) ==
    /\ f \in DOMAIN forwarders[c] /\ forwarders[c][f] # <<>> /\ Room(c)
    /\ down' = [down EXCEPT ![c] = Append(@, Head(forwarders[c][f]))]
    /\ forwarders' = [forwarders EXCEPT ![c][f] = Tail(@)]
    /\ UNCHANGED <<scenario, client, up, reply, spawned, channels, rejections, retired, due,
                   interrupts>> /\ UNCHANGED rateVars

\* The read loop ends at the end of the stream, or earlier when an answer
\* cannot be written: shut_down stops the forwarders.
ConnectionEnds(c) ==
    /\ Gone(c) /\ (up[c] = <<>> \/ reply[c] # NoReply)
    /\ <<up[c], reply[c], spawned[c], forwarders[c], down[c]>>
           # <<<<>>, NoReply, {}, <<>>, <<>>>>
    /\ up' = [up EXCEPT ![c] = <<>>]
    /\ down' = [down EXCEPT ![c] = <<>>]
    /\ Replies(c, NoReply)
    /\ spawned' = [spawned EXCEPT ![c] = {}]
    /\ forwarders' = [forwarders EXCEPT ![c] = <<>>]
    /\ UNCHANGED <<scenario, client, channels, rejections, retired, due, interrupts>>
    /\ UNCHANGED rateVars

NodeStep(c) ==
    \/ HandleSubscribe(c) \/ HandlePublish(c) \/ HandleAck(c) \/ HandleQuery(c)
    \/ SendReply(c) \/ ConnectionEnds(c)
    \/ \E f \in spawned[c] : StartForwarder(c, f)
    \/ \E f \in DOMAIN forwarders[c] : Forward(c, f)

Time ==
    /\ Tick /\ scenario.rated
    /\ UNCHANGED <<scenario, client, up, down, reply, spawned, forwarders, channels,
                   rejections, retired, due, interrupts>>

SessionNext ==
    \/ \E c \in Clients : ClientStep(c) \/ NodeStep(c)
    \/ \E c \in Clients : StartFails(c) \/ Interrupt(c)
    \/ Time

SessionSpec == SessionInit /\ [][SessionNext]_sessionVars

\* Clients and the node's tasks go on when they can; nobody owes an
\* interrupt or a failure.
FairSessionSpec ==
    SessionSpec /\ \A c \in Clients : WF_sessionVars(ClientStep(c)) /\ WF_sessionVars(NodeStep(c))
-----------------------------------------------------------------------------
Count(s, x) == Cardinality({i \in DOMAIN s : s[i] = x})

\* The deliveries of a message among a queue's envelopes, and in all the
\* forwarders of a connection.
Copies(envelopes, id) ==
    Cardinality({i \in DOMAIN envelopes : envelopes[i].kind = "Publish" /\ envelopes[i].id = id})
Waiting(queues, id) ==
    Cardinality(UNION {{f} \X {i \in DOMAIN queues[f] : queues[f][i].id = id} : f \in DOMAIN queues})

\* What the forwarders of a connection will send: those that have a receiver
\* what they hold, and a literal one that is only spawned what its channel's
\* buffer will replay to it.
ToSend(c) == [f \in Owed(c) |->
                  IF f \in DOMAIN forwarders[c] THEN forwarders[c][f] ELSE Buffer(f)]

\* Every message is where the meaning of the filters puts it, once per
\* subscription: printed, buffered by subscribe_all, on its way, waiting in
\* a forwarder or in the buffer it will replay.  A literal filter misses
\* nothing from the moment handle_subscribe takes it, however late its task
\* runs; a wildcard nothing from the moment its task has a receiver.  Nothing
\* that overtakes an Ack of a Subscribe is lost, and no filter takes more or
\* less than it covers.
NothingLost ==
    \A c \in Clients : ~Gone(c) /\ ~At(c, "reply") =>
        \A id \in ToSet(due[c]) \cup ToSet(client[c].printed) \cup {e.id : e \in ToSet(down[c])} :
            Count(due[c], id) = Count(client[c].printed, id) + Copies(client[c].backlog, id)
                                + Copies(down[c], id) + Waiting(ToSend(c), id)

\* The node takes a delivery for acknowledged only when the client printed
\* it: one that is interrupted with a backlog gets it again.
AckedWasPrinted == \A c \in Clients : retired[c] \subseteq ToSet(client[c].printed)

\* What reaches a client is on a topic its principal may subscribe to, by
\* the ACL of its role: no wildcard reaches around the list.
OnlyPermitted ==
    \A c \in Clients : \A f \in DOMAIN forwarders[c] :
        \A i \in DOMAIN forwarders[c][f] :
            AclOf(c) = NoAcl
            \/ <<Identity(c), "sub", forwarders[c][f][i].topic>> \in AclOf(c)

\* A reply that the node accepted is not missed by a request that still
\* waits for it, however fast the responder is: the forwarder of the reply
\* topic has it, or has yet to start and will find it in the channel's buffer.
NoReplyMissed ==
    \A c \in Clients :
        At(c, "reply") /\ ReplyTopic(c) \in DOMAIN channels =>
            \A e \in ToSet(channels[ReplyTopic(c)]) :
                e.ref = RequestId(c) =>
                    \/ e \in ToSet(down[c])
                    \/ ReplyTopic(c) \in spawned[c]
                    \/ \E f \in DOMAIN forwarders[c] : e \in ToSet(forwarders[c][f])

\* Every command comes to an end or to its live loop: a refusal is answered
\* and ends it, and so does a request nobody replies to.
EveryCommandAnswered ==
    \A c \in Clients : <>(Gone(c) \/ At(c, "live"))
=============================================================================
