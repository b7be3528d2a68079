---------------------------- MODULE Subscriptions ----------------------------
(***************************************************************************)
(* Who is subscribed to what, on one node: handle_subscribe,               *)
(* handle_unsubscribe and shut_down of every connection task, the          *)
(* node-wide Interest counts they keep, the interest they propagate to     *)
(* peer links, and the ACL reload (spawn_reload_applier,                   *)
(* reconcile_topic_acls) that stops forwarders from another task.          *)
(*                                                                         *)
(* The tasks run on the threads of one runtime: between two locks any      *)
(* other task can run, whether or not the code awaits there.  Each action  *)
(* is what happens under one lock, or at one read of the live ACL.         *)
(*                                                                         *)
(* A connection keeps one role, so one ACL applies to it.  One peer link   *)
(* stays connected with room in its queue; what it was told last is told.  *)
(***************************************************************************)
EXTENDS Integers, FiniteSets

CONSTANTS Conns,        \* connections
          Filters,      \* topic filters
          NoFilter,     \* none of them
          Acls,         \* ACLs a reload may install: functions Conns -> SUBSET Filters
          FirstAcl,     \* the one the node starts with
          MaxRequests,  \* bound: Subscribes and Unsubscribes handled
          MaxReloads,   \* bound: reloads applied
          MayFail       \* whether a connection's outgoing queue may close

ASSUME SubscriptionsAssumption ==
    /\ IsFiniteSet(Conns)
    /\ NoFilter \notin Filters
    /\ Acls \subseteq [Conns -> SUBSET Filters]
    /\ FirstAcl \in [Conns -> SUBSET Filters]
    /\ MaxRequests \in Nat
    /\ MaxReloads \in Nat
    /\ MayFail \in BOOLEAN

VARIABLES acl,         \* topic_acl / peer_topic_acl: what each connection may subscribe to
          forwarders,  \* ConnectionContext.forwarders
          counts,      \* Interest.counts
          conn,        \* the connection tasks
          reload,      \* the reload task
          believed,    \* filters a peer link believes this node wants
          requests,    \* Subscribes and Unsubscribes begun
          reloads,     \* reloads begun
          leaked,      \* history: filters left counted by an Unsubscribe whose Ack failed
          early        \* history: filters a reload stopped before they were counted

subsVars == <<acl, forwarders, counts, conn, reload, believed, requests, reloads, leaked, early>>

Idle == [pc |-> "idle", filter |-> NoFilter, flag |-> FALSE, todo |-> {}]
Off == [Idle EXCEPT !.pc = "off"]
ReloadIdle == [pc |-> "idle", todo |-> {}, stopped |-> {}, filter |-> NoFilter]

SubscriptionsInit ==
    /\ acl = FirstAcl
    /\ forwarders = [c \in Conns |-> {}]
    /\ counts = [f \in Filters |-> 0]
    /\ conn = [c \in Conns |-> Off]
    /\ reload = ReloadIdle
    /\ believed = {}
    /\ requests = 0
    /\ reloads = 0
    /\ leaked = {}
    /\ early = {}

\* filter_acl_permits
Permits(c, f) == f \in acl[c]

At(c, pc) == conn[c].pc = pc
Goto(c, pc) == conn' = [conn EXCEPT ![c].pc = pc]
Finish(c) == conn' = [conn EXCEPT ![c] = Idle]

\* Interest::unsubscribe: one fewer, never below zero.  It returns whether
\* that was the last.
Uncounted(f) == [counts EXCEPT ![f] = IF @ = 0 THEN 0 ELSE @ - 1]
LosesLast(f) == counts[f] = 1
-----------------------------------------------------------------------------
(* run_connection: a connection is registered before it reads a frame.      *)
Connect(c) ==
    /\ At(c, "off")
    /\ Finish(c)
    /\ UNCHANGED <<acl, forwarders, counts, reload, believed, requests, reloads, leaked, early>>
-----------------------------------------------------------------------------
(* handle_subscribe                                                         *)

\* The first check; a refusal is answered with an Error.
SubscribeCheck(c, f) ==
    /\ At(c, "idle") /\ requests < MaxRequests
    /\ requests' = requests + 1
    /\ IF Permits(c, f)
       THEN conn' = [conn EXCEPT ![c].pc = "insert", ![c].filter = f]
       ELSE UNCHANGED conn
    /\ UNCHANGED <<acl, forwarders, counts, reload, believed, reloads, leaked, early>>

\* The forwarder is registered, unless there is one already.
SubscribeInsert(c) ==
    /\ At(c, "insert")
    /\ forwarders' = [forwarders EXCEPT ![c] = @ \cup {conn[c].filter}]
    /\ Goto(c, IF conn[c].filter \in forwarders[c] THEN "ack" ELSE "recheck")
    /\ UNCHANGED <<acl, counts, reload, believed, requests, reloads, leaked, early>>

\* Mutation: a new forwarder is not checked again.
NoRecheck(c) ==
    /\ At(c, "recheck")
    /\ Goto(c, "count")
    /\ UNCHANGED <<acl, forwarders, counts, reload, believed, requests, reloads, leaked, early>>

\* A new forwarder is checked against the ACL that is live now.
SubscribeRecheck(c) ==
    /\ At(c, "recheck")
    /\ Goto(c, IF Permits(c, conn[c].filter) THEN "count" ELSE "withdraw")
    /\ UNCHANGED <<acl, forwarders, counts, reload, believed, requests, reloads, leaked, early>>

\* It is taken out again, if a reload has not done so, and the client is told.
SubscribeWithdraw(c) ==
    /\ At(c, "withdraw")
    /\ forwarders' = [forwarders EXCEPT ![c] = @ \ {conn[c].filter}]
    /\ Finish(c)
    /\ UNCHANGED <<acl, counts, reload, believed, requests, reloads, leaked, early>>

\* Interest::subscribe
SubscribeCount(c) ==
    /\ At(c, "count")
    /\ counts' = [counts EXCEPT ![conn[c].filter] = @ + 1]
    /\ conn' = [conn EXCEPT ![c].pc = "ack", ![c].flag = counts[conn[c].filter] = 0]
    /\ UNCHANGED <<acl, forwarders, reload, believed, requests, reloads, leaked, early>>

\* The Ack is queued.
SubscribeAck(c) ==
    /\ At(c, "ack")
    /\ IF conn[c].flag THEN Goto(c, "tell") ELSE Finish(c)
    /\ UNCHANGED <<acl, forwarders, counts, reload, believed, requests, reloads, leaked, early>>

\* propagate_interest, with a Subscribe.
SubscribeTell(c) ==
    /\ At(c, "tell")
    /\ believed' = believed \cup {conn[c].filter}
    /\ Finish(c)
    /\ UNCHANGED <<acl, forwarders, counts, reload, requests, reloads, leaked, early>>
-----------------------------------------------------------------------------
(* handle_unsubscribe                                                       *)

\* Mutation: an Unsubscribe is counted whether or not there was a forwarder.
UnsubscribeRemoveAlways(c, f) ==
    /\ At(c, "idle") /\ requests < MaxRequests
    /\ requests' = requests + 1
    /\ forwarders' = [forwarders EXCEPT ![c] = @ \ {f}]
    /\ conn' = [conn EXCEPT ![c].pc = "unack", ![c].filter = f, ![c].flag = TRUE]
    /\ UNCHANGED <<acl, counts, reload, believed, reloads, leaked, early>>

\* The forwarder is removed and stopped.
UnsubscribeRemove(c, f) ==
    /\ At(c, "idle") /\ requests < MaxRequests
    /\ requests' = requests + 1
    /\ forwarders' = [forwarders EXCEPT ![c] = @ \ {f}]
    /\ \E had \in BOOLEAN :
          /\ had <=> f \in forwarders[c]
          /\ conn' = [conn EXCEPT ![c].pc = "unack", ![c].filter = f, ![c].flag = had]
    /\ UNCHANGED <<acl, counts, reload, believed, reloads, leaked, early>>

\* The Ack is queued.
UnsubscribeAck(c) ==
    /\ At(c, "unack")
    /\ IF conn[c].flag THEN Goto(c, "uncount") ELSE Finish(c)
    /\ UNCHANGED <<acl, forwarders, counts, reload, believed, requests, reloads, leaked, early>>

\* Interest::unsubscribe
UnsubscribeCount(c) ==
    /\ At(c, "uncount")
    /\ counts' = Uncounted(conn[c].filter)
    /\ IF LosesLast(conn[c].filter) THEN Goto(c, "untell") ELSE Finish(c)
    /\ UNCHANGED <<acl, forwarders, reload, believed, requests, reloads, leaked, early>>

\* propagate_interest, with an Unsubscribe.
UnsubscribeTell(c) ==
    /\ At(c, "untell")
    /\ believed' = believed \ {conn[c].filter}
    /\ Finish(c)
    /\ UNCHANGED <<acl, forwarders, counts, reload, requests, reloads, leaked, early>>
-----------------------------------------------------------------------------
(* shut_down                                                                *)

\* The read loop ends: the client is gone, or the outgoing queue is closed
\* and an Ack could not be queued.  The map is locked and drained.
ShutDown(c) ==
    /\ \/ At(c, "idle")
       \/ MayFail /\ conn[c].pc \in {"ack", "unack"}
    /\ conn' = [conn EXCEPT ![c] = [Idle EXCEPT !.pc = "drain", !.todo = forwarders[c]]]
    /\ forwarders' = [forwarders EXCEPT ![c] = {}]
    /\ leaked' = IF At(c, "unack") /\ conn[c].flag THEN leaked \cup {conn[c].filter} ELSE leaked
    /\ UNCHANGED <<acl, counts, reload, believed, requests, reloads, early>>

\* One drained forwarder.
DrainCount(c, f) ==
    /\ At(c, "drain") /\ f \in conn[c].todo
    /\ counts' = Uncounted(f)
    /\ conn' = [conn EXCEPT ![c].todo = @ \ {f}, ![c].filter = f,
                            ![c].pc = IF LosesLast(f) THEN "draintell" ELSE "drain"]
    /\ UNCHANGED <<acl, forwarders, reload, believed, requests, reloads, leaked, early>>

DrainTell(c) ==
    /\ At(c, "draintell")
    /\ believed' = believed \ {conn[c].filter}
    /\ Goto(c, "drain")
    /\ UNCHANGED <<acl, forwarders, counts, reload, requests, reloads, leaked, early>>

\* The connection is dropped and with it its registration.
Disconnected(c) ==
    /\ At(c, "drain") /\ conn[c].todo = {}
    /\ conn' = [conn EXCEPT ![c] = Off]
    /\ UNCHANGED <<acl, forwarders, counts, reload, believed, requests, reloads, leaked, early>>
-----------------------------------------------------------------------------
(* The reload task.                                                         *)

\* The fresh ACL is installed.
ReloadInstall(a) ==
    /\ reload.pc = "idle" /\ reloads < MaxReloads
    /\ reloads' = reloads + 1
    /\ acl' = a
    /\ reload' = [reload EXCEPT !.pc = "installed"]
    /\ UNCHANGED <<forwarders, counts, conn, believed, requests, leaked, early>>

\* reconcile_topic_acls: a snapshot of the registered connections.
ReloadSnapshot ==
    /\ reload.pc = "installed"
    /\ reload' = [reload EXCEPT !.pc = "walk", !.todo = {c \in Conns : ~ At(c, "off")}]
    /\ UNCHANGED <<acl, forwarders, counts, conn, believed, requests, reloads, leaked, early>>

\* A Subscribe has put the forwarder in and has yet to count its interest.
NotYetCounted(c, f) == conn[c].pc \in {"recheck", "withdraw", "count"} /\ conn[c].filter = f

\* One connection: under the lock of its map, every forwarder the ACL no
\* longer permits is taken out.  shut_down keeps that lock while it drains.
ReloadConn(c) ==
    /\ reload.pc = "walk" /\ c \in reload.todo /\ reload.stopped = {}
    /\ conn[c].pc \notin {"drain", "draintell"}
    /\ LET stopped == {f \in forwarders[c] : ~ Permits(c, f)}
       IN  /\ forwarders' = [forwarders EXCEPT ![c] = @ \ stopped]
           /\ reload' = [reload EXCEPT !.todo = @ \ {c}, !.stopped = stopped]
           /\ early' = early \cup {f \in stopped : NotYetCounted(c, f)}
    /\ UNCHANGED <<acl, counts, conn, believed, requests, reloads, leaked>>

\* One forwarder it took out: aborted, and its interest counted off.
ReloadCount(f) ==
    /\ reload.pc = "walk" /\ f \in reload.stopped
    /\ counts' = Uncounted(f)
    /\ reload' = [reload EXCEPT !.stopped = @ \ {f}, !.filter = f,
                                !.pc = IF LosesLast(f) THEN "tell" ELSE "walk"]
    /\ UNCHANGED <<acl, forwarders, conn, believed, requests, reloads, leaked, early>>

\* Mutation: the reload waits for a peer link that has no room in its queue.
ReloadTellBlocks ==
    /\ reload.pc = "tell" /\ reload.filter \notin believed
    /\ reload' = [reload EXCEPT !.pc = "walk"]
    /\ UNCHANGED <<acl, forwarders, counts, conn, believed, requests, reloads, leaked, early>>

ReloadTell ==
    /\ reload.pc = "tell"
    /\ believed' = believed \ {reload.filter}
    /\ reload' = [reload EXCEPT !.pc = "walk"]
    /\ UNCHANGED <<acl, forwarders, counts, conn, requests, reloads, leaked, early>>

ReloadDone ==
    /\ reload.pc = "walk" /\ reload.todo = {} /\ reload.stopped = {}
    /\ reload' = ReloadIdle
    /\ UNCHANGED <<acl, forwarders, counts, conn, believed, requests, reloads, leaked, early>>
-----------------------------------------------------------------------------
\* A connection task goes on with what it has begun.
ConnStep(c) ==
    \/ SubscribeInsert(c) \/ SubscribeRecheck(c) \/ SubscribeWithdraw(c)
    \/ SubscribeCount(c) \/ SubscribeAck(c) \/ SubscribeTell(c)
    \/ UnsubscribeAck(c) \/ UnsubscribeCount(c) \/ UnsubscribeTell(c)
    \/ \E f \in Filters : DrainCount(c, f)
    \/ DrainTell(c) \/ Disconnected(c)

\* The reload task goes on with the reload it has begun.
ReloadProceed ==
    \/ ReloadSnapshot \/ ReloadTell \/ ReloadDone
    \/ \E c \in Conns : ReloadConn(c)
    \/ \E f \in Filters : ReloadCount(f)

SubscriptionsNext ==
    \/ \E c \in Conns : \/ Connect(c)
                        \/ \E f \in Filters : SubscribeCheck(c, f) \/ UnsubscribeRemove(c, f)
                        \/ ConnStep(c)
                        \/ ShutDown(c)
    \/ \E a \in Acls : ReloadInstall(a)
    \/ ReloadProceed

SubscriptionsSpec == SubscriptionsInit /\ [][SubscriptionsNext]_subsVars

\* The runtime schedules every task that can go on; nobody has to send a
\* request, to disconnect or to reload.
SubscriptionsFairness ==
    /\ \A c \in Conns : WF_subsVars(ConnStep(c))
    /\ WF_subsVars(ReloadProceed)

FairSubscriptionsSpec == SubscriptionsSpec /\ SubscriptionsFairness
-----------------------------------------------------------------------------
(* Properties.                                                              *)

\* Every variable has the shape of the code's type; counts are never negative.
SubscriptionsTypeOK ==
    /\ acl \in [Conns -> SUBSET Filters]
    /\ forwarders \in [Conns -> SUBSET Filters]
    /\ counts \in [Filters -> Nat]
    /\ conn \in [Conns -> [pc : {"off", "idle", "insert", "recheck", "withdraw", "count", "ack",
                                 "tell", "unack", "uncount", "untell", "drain", "draintell"},
                           filter : Filters \cup {NoFilter}, flag : BOOLEAN,
                           todo : SUBSET Filters]]
    /\ reload \in [pc : {"idle", "installed", "walk", "tell"}, todo : SUBSET Conns,
                   stopped : SUBSET Filters, filter : Filters \cup {NoFilter}]
    /\ believed \subseteq Filters
    /\ requests \in 0 .. MaxRequests
    /\ reloads \in 0 .. MaxReloads
    /\ leaked \subseteq Filters
    /\ early \subseteq Filters

\* A forwarder the live ACL does not permit is one that the reload under way
\* has still to reach, or one that its own Subscribe is about to take out:
\* no Subscribe slips between its check and the sweep.
RevocationEnforced ==
    \A c \in Conns : \A f \in forwarders[c] :
        \/ Permits(c, f)
        \/ reload.pc = "installed"
        \/ c \in reload.todo
        \/ conn[c].pc \in {"recheck", "withdraw"} /\ conn[c].filter = f

\* A revoked forwarder is stopped, unless a later reload permits it again.
RevokedStops ==
    \A c \in Conns : \A f \in Filters :
        (f \in forwarders[c] /\ ~ Permits(c, f)) ~> (f \notin forwarders[c] \/ Permits(c, f))

\* Past Interest::subscribe.
Subscribed(c, f) == f \in forwarders[c] /\ ~ NotYetCounted(c, f)

\* Nobody is between two steps.
Quiet == reload.pc = "idle" /\ \A c \in Conns : conn[c].pc \in {"off", "idle"}

\* Interest is counted exactly, through Subscribes, Unsubscribes, shutdowns and
\* reloads of any connections.  While a connection is subscribed, nothing that
\* is done for another takes its count away; and at rest nothing is counted
\* that no connection is subscribed to.  Two exceptions, each for the filter it
\* happened to: an Unsubscribe whose Ack could not be queued returns before its
\* interest is counted off, and a reload that takes out a forwarder between its
\* insertion and its count undoes a count that was not made yet.
InterestCounted ==
    \A f \in Filters \ early :
        /\ counts[f] >= Cardinality({c \in Conns : Subscribed(c, f)})
        /\ Quiet /\ f \notin leaked =>
               counts[f] <= Cardinality({c \in Conns : f \in forwarders[c]})
=============================================================================
