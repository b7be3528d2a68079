---------------------------- MODULE MeshInterest ----------------------------
(***************************************************************************)
(* How the nodes of a mesh learn what the others want: the Interest counts *)
(* of every node, the Subscribes and Unsubscribes that propagate_interest  *)
(* broadcasts over the peer links, the catch-up register_peer_link sends   *)
(* to a new link, and reconcile_interest after a reload of the             *)
(* --peer-topic-filter.                                                    *)
(*                                                                         *)
(* A peer's Subscribe is handled by the code that handles a client's, so   *)
(* every task below is a connection: a client of a node, or one end of a   *)
(* peer link.  An end is a pair of nodes, its own first; what it sends is  *)
(* one FIFO queue (outgoing channel and stream together) that its other    *)
(* end reads.  Forwarder and count are one step here; what can come        *)
(* between them is the subject of Subscriptions.                           *)
(***************************************************************************)
EXTENDS Integers, Sequences, FiniteSets

CONSTANTS Nodes,        \* nodes
          Links,        \* pairs of nodes that connect, as sets of two
          Clients,      \* client connections
          Home,         \* the node each is connected to
          Filters,      \* topic filters
          Wildcards,    \* those that are no literal topic
          NoFilter,     \* none of them
          Unrestricted, \* no --peer-topic-filter is configured
          PeerFilters,  \* filters a reload may install: sets of <<node, filter>>
          FirstFilter,  \* the one every node starts with
          Cap,          \* OUTGOING_CHANNEL_CAPACITY
          MaxRequests,  \* bound: requests of clients
          MaxReloads,   \* bound: reloads
          MaxConnects   \* bound: connections established

ASSUME MeshInterestAssumption ==
    /\ Links \subseteq {l \in SUBSET Nodes : Cardinality(l) = 2}
    /\ Home \in [Clients -> Nodes]
    /\ Clients \cap (Nodes \X Nodes) = {}
    /\ Wildcards \subseteq Filters
    /\ NoFilter \notin Filters
    /\ PeerFilters \subseteq SUBSET (Nodes \X Filters) \cup {Unrestricted}
    /\ FirstFilter \in PeerFilters
    /\ Cap \in Nat \ {0}
    /\ {MaxRequests, MaxReloads, MaxConnects} \subseteq Nat

VARIABLES forwarders,  \* ConnectionContext.forwarders, of every connection
          counts,      \* Interest.counts, of every node
          task,        \* the connection tasks
          registered,  \* PeerLinks.links: ends that are registered
          wire,        \* per end: the number of its open connection, or 0
          queue,       \* per end: what it has sent and the other has not read
          topicFilter, \* peer_topic_filter, of every node
          reload,      \* the reload task of every node
          doubt,       \* history: <<end, filter>> whose last message was wrong or missing
          spent        \* requests, reloads and connections so far

meshVars == <<forwarders, counts, task, registered, wire, queue, topicFilter,
              reload, doubt, spent>>

Ends == {e \in Nodes \X Nodes : {e[1], e[2]} \in Links}
Flip(e) == <<e[2], e[1]>>
Tasks == Clients \cup Ends
NodeOf(x) == IF x \in Clients THEN Home[x] ELSE x[1]

Msg(kind, f) == [kind |-> kind, filter |-> f]
Idle == [pc |-> "idle", kind |-> "none", filter |-> NoFilter, links |-> {},
         todo |-> {}, allow |-> Unrestricted]
Down == [Idle EXCEPT !.pc = "down"]
ReloadIdle == [pc |-> "idle", todo |-> {}, next |-> <<>>]

MeshInit ==
    /\ forwarders = [x \in Tasks |-> {}]
    /\ counts = [n \in Nodes |-> [f \in Filters |-> 0]]
    /\ task = [x \in Tasks |-> IF x \in Clients THEN Idle ELSE Down]
    /\ registered = {}
    /\ wire = [e \in Ends |-> 0]
    /\ queue = [e \in Ends |-> <<>>]
    /\ topicFilter = [n \in Nodes |-> FirstFilter]
    /\ reload = [n \in Nodes |-> ReloadIdle]
    /\ doubt = {}
    /\ spent = [requests |-> 0, reloads |-> 0, connects |-> 0]

\* PeerTopicFilter::permits behind the two tests in front of it: nothing
\* configured permits everything, and a wildcard is never relayed otherwise.
Relays(filter, m, f) ==
    \/ filter = Unrestricted
    \/ f \notin Wildcards /\ <<m, f>> \in filter

Interested(n, f) == counts[n][f] > 0

\* What the other end of e ought to believe about f.
Wanted(e, f) == Interested(e[1], f) /\ Relays(topicFilter[e[1]], e[2], f)

At(x, pc) == task[x].pc = pc
Goto(x, pc) == task' = [task EXCEPT ![x].pc = pc]

\* An outgoing channel: the end and the number of its connection.
Sender(e) == <<e, wire[e]>>
Room(e) == wire[e] # 0 /\ Len(queue[e]) < Cap

\* Sender::try_send: a full queue loses the message, a closed one too.
TrySend(sender, msg) ==
    LET e == sender[1]
        sent == Room(e) /\ sender = Sender(e)
    IN  /\ queue' = IF sent THEN [queue EXCEPT ![e] = Append(@, msg)] ELSE queue
        /\ doubt' = IF sent /\ (msg.kind = "Subscribe" <=> Wanted(e, msg.filter))
                    THEN doubt \ {<<e, msg.filter>>}
                    ELSE IF sender = Sender(e) THEN doubt \cup {<<e, msg.filter>>}
                    ELSE doubt
-----------------------------------------------------------------------------
(* handle_subscribe and handle_unsubscribe, of clients and peers alike      *)

\* A new forwarder is counted; the first one is to be told to the peers.
Subscribe(x, f) ==
    LET n == NodeOf(x)
        new == f \notin forwarders[x]
    IN  /\ forwarders' = [forwarders EXCEPT ![x] = @ \cup {f}]
        /\ counts' = IF new THEN [counts EXCEPT ![n][f] = @ + 1] ELSE counts
        /\ task' = [task EXCEPT ![x] =
               [Idle EXCEPT !.pc = "ack", !.filter = f,
                            !.kind = IF new /\ ~Interested(n, f) THEN "Subscribe"
                                     ELSE "none"]]

\* The forwarder is stopped; whether it was the last is settled after the Ack.
Unsubscribe(x, f) ==
    /\ forwarders' = [forwarders EXCEPT ![x] = @ \ {f}]
    /\ task' = [task EXCEPT ![x] =
           [Idle EXCEPT !.pc = "ack", !.filter = f,
                        !.kind = IF f \in forwarders[x] THEN "Unsubscribe" ELSE "none"]]
    /\ UNCHANGED counts

Handle(x, kind, f) ==
    \/ kind = "Subscribe" /\ Subscribe(x, f)
    \/ kind = "Unsubscribe" /\ Unsubscribe(x, f)

Request(c, kind, f) ==
    /\ At(c, "idle") /\ spent.requests < MaxRequests
    /\ spent' = [spent EXCEPT !.requests = @ + 1]
    /\ Handle(c, kind, f)
    /\ UNCHANGED <<registered, wire, queue, topicFilter, reload, doubt>>

\* The read loop of a peer link takes the next frame; an Ack changes nothing.
Receive(e) ==
    /\ At(e, "idle") /\ queue[Flip(e)] # <<>>
    /\ queue' = [queue EXCEPT ![Flip(e)] = Tail(@)]
    /\ LET msg == Head(queue[Flip(e)]) IN
       \/ Handle(e, msg.kind, msg.filter)
       \/ msg.kind = "Ack" /\ UNCHANGED <<forwarders, counts, task>>
    /\ UNCHANGED <<registered, wire, topicFilter, reload, doubt, spent>>

\* After the Ack: Interest::unsubscribe, or straight to the tell, if any.
AfterAck(x) ==
    LET n == NodeOf(x)
        f == task[x].filter
        last == counts[n][f] = 1
    IN  CASE task[x].kind = "none" -> task' = [task EXCEPT ![x] = Idle] /\ UNCHANGED counts
          [] task[x].kind = "Subscribe" -> Goto(x, "tell") /\ UNCHANGED counts
          [] task[x].kind = "Unsubscribe" ->
                /\ counts' = [counts EXCEPT ![n][f] = IF @ = 0 THEN 0 ELSE @ - 1]
                /\ task' = [task EXCEPT ![x] = IF last THEN [@ EXCEPT !.pc = "tell"] ELSE Idle]

\* The Ack is queued before the news is; an end waits for room.
SendAck(x) ==
    /\ At(x, "ack")
    /\ IF x \in Ends
       THEN Room(x) /\ queue' = [queue EXCEPT ![x] = Append(@, Msg("Ack", NoFilter))]
       ELSE UNCHANGED queue
    /\ AfterAck(x)
    /\ UNCHANGED <<forwarders, registered, wire, topicFilter, reload, doubt, spent>>

\* broadcast_interest: the links registered now that the filter permits.
Recipients(x) ==
    {e \in registered : e[1] = NodeOf(x)
                        /\ Relays(topicFilter[e[1]], e[2], task[x].filter)}

\* Links an Unsubscribe is withheld from, though they may have heard the Subscribe.
Withheld(x) == {e \in registered \ Recipients(x) :
                   e[1] = NodeOf(x) /\ task[x].kind = "Unsubscribe"}

\* The end of a request; a connection that is going has more filters to drain.
Resume(x) == IF x \in Ends /\ wire[x] = 0 THEN [Idle EXCEPT !.pc = "drain"] ELSE Idle

Tell(x) ==
    /\ At(x, "tell")
    /\ task' = [task EXCEPT ![x] = IF Recipients(x) = {} THEN Resume(x)
           ELSE [@ EXCEPT !.pc = "telling", !.links = {Sender(e) : e \in Recipients(x)}]]
    /\ doubt' = doubt \cup (Withheld(x) \X {task[x].filter})
    /\ UNCHANGED <<forwarders, counts, registered, wire, queue, topicFilter, reload, spent>>

TellOne(x) ==
    /\ At(x, "telling")
    /\ \E sender \in task[x].links :
           /\ TrySend(sender, Msg(task[x].kind, task[x].filter))
           /\ task' = [task EXCEPT ![x] = IF task[x].links = {sender} THEN Resume(x)
                                         ELSE [task[x] EXCEPT !.links = @ \ {sender}]]
    /\ UNCHANGED <<forwarders, counts, registered, wire, topicFilter, reload, spent>>
-----------------------------------------------------------------------------
(* A link comes and goes                                                    *)

Connect(l) ==
    /\ spent.connects < MaxConnects
    /\ \A e \in Ends : {e[1], e[2]} = l => At(e, "down")
    /\ wire' = [e \in Ends |-> IF {e[1], e[2]} = l THEN spent.connects + 1 ELSE wire[e]]
    /\ task' = [x \in Tasks |-> IF x \in Ends /\ {x[1], x[2]} = l
                                THEN [Idle EXCEPT !.pc = "admit"] ELSE task[x]]
    /\ spent' = [spent EXCEPT !.connects = @ + 1]
    /\ UNCHANGED <<forwarders, counts, registered, queue, topicFilter, reload, doubt>>

\* The stream breaks: what it carried is lost, and both ends will notice.
Break(l) ==
    /\ \E e \in Ends : {e[1], e[2]} = l /\ wire[e] # 0
    /\ wire' = [e \in Ends |-> IF {e[1], e[2]} = l THEN 0 ELSE wire[e]]
    /\ queue' = [e \in Ends |-> IF {e[1], e[2]} = l THEN <<>> ELSE queue[e]]
    /\ UNCHANGED <<forwarders, counts, task, registered, topicFilter, reload, doubt, spent>>

\* The filter is read before register_peer_link is called.
Admit(e) ==
    /\ At(e, "admit")
    /\ task' = [task EXCEPT ![e].pc = "register", ![e].allow = topicFilter[e[1]]]
    /\ UNCHANGED <<forwarders, counts, registered, wire, queue, topicFilter, reload,
                   doubt, spent>>

\* A new link starts with a clean record, unless its filter is a stale one.
RegisterLink(e) ==
    /\ At(e, "register")
    /\ registered' = registered \cup {e}
    /\ doubt' = IF task[e].allow = topicFilter[e[1]]
                THEN doubt \ ({e} \X Filters) ELSE doubt \cup ({e} \X Filters)
    /\ Goto(e, "snapshot")
    /\ UNCHANGED <<forwarders, counts, wire, queue, topicFilter, reload, spent>>

\* Interest::snapshot, after the link is registered.
Snapshot(e) ==
    /\ At(e, "snapshot")
    /\ LET todo == {f \in Filters : Interested(e[1], f) /\ Relays(task[e].allow, e[2], f)}
       IN  task' = [task EXCEPT ![e] = IF todo = {} THEN Idle
                                       ELSE [Idle EXCEPT !.pc = "catchup", !.todo = todo]]
    /\ UNCHANGED <<forwarders, counts, registered, wire, queue, topicFilter, reload,
                   doubt, spent>>

CatchUp(e) ==
    /\ At(e, "catchup")
    /\ \E f \in task[e].todo :
           /\ TrySend(Sender(e), Msg("Subscribe", f))
           /\ task' = [task EXCEPT ![e] = IF task[e].todo = {f} THEN Idle
                                         ELSE [task[e] EXCEPT !.todo = @ \ {f}]]
    /\ UNCHANGED <<forwarders, counts, registered, wire, topicFilter, reload, spent>>

\* The read loop ends, or an Ack cannot be sent any more: shut_down begins.
\* An Unsubscribe that gets no further than its Ack is never counted off, and
\* a Subscribe that was counted is not told to the other links.
LinkEnds(e) ==
    /\ wire[e] = 0 /\ (At(e, "idle") \/ At(e, "ack"))
    /\ task' = [task EXCEPT ![e] = [Idle EXCEPT !.pc = "drain"]]
    /\ doubt' = IF At(e, "ack") /\ task[e].kind = "Subscribe"
                THEN doubt \cup ({r \in registered : r[1] = e[1]} \X {task[e].filter})
                ELSE doubt
    /\ UNCHANGED <<forwarders, counts, registered, wire, queue, topicFilter, reload, spent>>

\* shut_down: every forwarder is stopped and counted off.
Drain(e, f) ==
    /\ At(e, "drain") /\ f \in forwarders[e]
    /\ forwarders' = [forwarders EXCEPT ![e] = @ \ {f}]
    /\ counts' = [counts EXCEPT ![e[1]][f] = IF @ = 0 THEN 0 ELSE @ - 1]
    /\ task' = [task EXCEPT ![e] =
           [@ EXCEPT !.pc = IF counts[e[1]][f] = 1 THEN "tell" ELSE "drain",
                     !.kind = "Unsubscribe", !.filter = f]]
    /\ UNCHANGED <<registered, wire, queue, topicFilter, reload, doubt, spent>>

\* PeerLinkRegistration::drop
Unregister(e) ==
    /\ At(e, "drain") /\ forwarders[e] = {}
    /\ registered' = registered \ {e}
    /\ task' = [task EXCEPT ![e] = Down]
    /\ UNCHANGED <<forwarders, counts, wire, queue, topicFilter, reload, doubt, spent>>
-----------------------------------------------------------------------------
(* spawn_reload_applier and reconcile_interest                              *)

Install(n, filter) ==
    /\ reload[n].pc = "idle" /\ spent.reloads < MaxReloads
    /\ filter # topicFilter[n]
    /\ topicFilter' = [topicFilter EXCEPT ![n] = filter]
    /\ reload' = [reload EXCEPT ![n].pc = "collect"]
    /\ spent' = [spent EXCEPT !.reloads = @ + 1]
    /\ UNCHANGED <<forwarders, counts, task, registered, wire, queue, doubt>>

\* The snapshot and the links it is sent to.
Collect(n) ==
    /\ reload[n].pc = "collect"
    /\ reload' = [reload EXCEPT ![n] =
           [@ EXCEPT !.pc = "reconcile",
                     !.todo = {Sender(e) : e \in {r \in registered : r[1] = n}}
                              \X {f \in Filters : Interested(n, f)}]]
    /\ UNCHANGED <<forwarders, counts, task, registered, wire, queue, topicFilter,
                   doubt, spent>>

\* Mutation: what the new filter no longer permits is not withdrawn.
ReconcileGrantsOnly(n, sender, f) ==
    IF Interested(n, f) /\ Relays(topicFilter[n], sender[1][2], f)
    THEN <<sender, Msg("Subscribe", f)>> ELSE <<>>

\* A wildcard under a configured filter is told neither way, even if it was
\* announced when none was configured.
PassedOver(n, f) == topicFilter[n] # Unrestricted /\ f \in Wildcards

\* What a link is told about f: nothing when f lost its last subscriber since.
ReconcileMsg(n, sender, f) ==
    IF ~Interested(n, f) \/ PassedOver(n, f) THEN <<>>
    ELSE <<sender, Msg(IF Relays(topicFilter[n], sender[1][2], f) THEN "Subscribe"
                       ELSE "Unsubscribe", f)>>

ReconcileCheck(n) ==
    /\ reload[n].pc = "reconcile" /\ reload[n].next = <<>>
    /\ \E p \in reload[n].todo :
           /\ reload' = [reload EXCEPT ![n] =
                  [reload[n] EXCEPT !.todo = @ \ {p}, !.next = ReconcileMsg(n, p[1], p[2])]]
           /\ doubt' = IF /\ Interested(n, p[2]) /\ PassedOver(n, p[2])
                          /\ p[1] = Sender(p[1][1])
                       THEN doubt \cup {<<p[1][1], p[2]>>} ELSE doubt
    /\ UNCHANGED <<forwarders, counts, task, registered, wire, queue, topicFilter, spent>>

ReconcileSend(n) ==
    /\ reload[n].pc = "reconcile" /\ reload[n].next # <<>>
    /\ TrySend(reload[n].next[1], reload[n].next[2])
    /\ reload' = [reload EXCEPT ![n].next = <<>>]
    /\ UNCHANGED <<forwarders, counts, task, registered, wire, topicFilter, spent>>

Reconciled(n) ==
    /\ reload[n].pc = "reconcile" /\ reload[n].next = <<>> /\ reload[n].todo = {}
    /\ reload' = [reload EXCEPT ![n] = ReloadIdle]
    /\ UNCHANGED <<forwarders, counts, task, registered, wire, queue, topicFilter,
                   doubt, spent>>
-----------------------------------------------------------------------------
TaskStep(x) == SendAck(x) \/ Tell(x) \/ TellOne(x)

LinkStep(e) ==
    \/ Receive(e) \/ Admit(e) \/ RegisterLink(e) \/ Snapshot(e) \/ CatchUp(e)
    \/ LinkEnds(e) \/ Unregister(e)
    \/ \E f \in Filters : Drain(e, f)

ReloadStep(n) == Collect(n) \/ ReconcileCheck(n) \/ ReconcileSend(n) \/ Reconciled(n)

Environment ==
    \/ \E c \in Clients, kind \in {"Subscribe", "Unsubscribe"}, f \in Filters :
           Request(c, kind, f)
    \/ \E l \in Links : Connect(l) \/ Break(l)
    \/ \E n \in Nodes, filter \in PeerFilters : Install(n, filter)

MeshNext ==
    \/ \E x \in Tasks : TaskStep(x)
    \/ \E e \in Ends : LinkStep(e)
    \/ \E n \in Nodes : ReloadStep(n)
    \/ Environment

MeshSpec == MeshInit /\ [][MeshNext]_meshVars
-----------------------------------------------------------------------------
\* Nothing is under way anywhere in the mesh.
Settled ==
    /\ \A x \in Tasks : At(x, "idle") \/ At(x, "down")
    /\ \A e \in Ends : queue[e] = <<>> /\ (At(e, "idle") => wire[e] # 0)
    /\ \A n \in Nodes : reload[n].pc = "idle"

\* Once the mesh is settled, each end of a link forwards what the other side
\* wants and its filter lets it say, and nothing else: a peer's view can be
\* wrong only where the last message to it was lost or out of date when it
\* was sent, an Unsubscribe was withheld by the filter, the connection whose
\* Subscribe was the first ended before its Ack was queued, the link was
\* registered under a filter that had just been replaced, or a reload passed
\* over a wildcard (doubt).  Elsewhere silence is never the mistake: no
\* transition is missed between registering a link and its snapshot, by a
\* broadcast, by a drain or by a reload.
InterestAgrees ==
    Settled => \A e \in registered, f \in Filters :
                  <<e, f>> \notin doubt => (f \in forwarders[Flip(e)] <=> Wanted(e, f))

=============================================================================
