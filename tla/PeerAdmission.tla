---------------------------- MODULE PeerAdmission ----------------------------
(***************************************************************************)
(* How a connection becomes a peer link and stops being one:               *)
(* admit_initial_peer and handle_hello, the registry of links (PeerLinks), *)
(* the record of who is connected (Membership), and the --allow-peer       *)
(* reload (spawn_reload_applier, PeerLinks::disconnect_unless) that makes  *)
(* a link end itself.                                                      *)
(*                                                                         *)
(* Connection tasks and the reload task run on the threads of one runtime: *)
(* an action is what one task does under one lock, or one read of the live *)
(* allowlist.  An allowlist is the set of principals it permits; no        *)
(* --allow-peer at all permits every one.                                  *)
(***************************************************************************)
EXTENDS Naturals, Sequences

CONSTANTS Conns,               \* connections
          Dialed,              \* those this node dialed: initial_peer is known
          Peers,               \* peer ids
          NoPeer,              \* none of them
          Claims,              \* [Conns -> SUBSET Peers]: senders it can have, one if
                               \* it has a certificate (authenticated_sender)
          Principals,
          PrincipalOf,         \* [Conns -> Principals]
          AllowLists,          \* allowlists a reload may bring
          FirstAllowList,      \* the one the node starts with
          DownCapacity,        \* DEFAULT_MEMBERSHIP_DISCONNECTED_CAPACITY
          MaxHellos,           \* bound: admissions begun
          MaxReloads           \* bound: reloads applied

ASSUME PeerAdmissionAssumption ==
    /\ Dialed \subseteq Conns
    /\ NoPeer \notin Peers
    /\ Claims \in [Conns -> SUBSET Peers]
    /\ PrincipalOf \in [Conns -> Principals]
    /\ AllowLists \subseteq SUBSET Principals
    /\ FirstAllowList \subseteq Principals
    /\ DownCapacity \in Nat
    /\ MaxHellos \in Nat
    /\ MaxReloads \in Nat

VARIABLES allowed,   \* Shared.allowed_peers
          conn,      \* the connection tasks
          links,     \* PeerLinks.links: entries of a connection under a peer
          notified,  \* connections whose disconnect Notify holds a permit
          up,        \* Membership: the peers with connected = true
          down,      \* Membership.disconnected_order
          reload,    \* the reload task
          hellos,    \* admissions begun
          reloads,   \* reloads begun
          slipped    \* history: links registered between a reload's scan of the
                     \* registry and its installing the list it scanned for

admissionVars == <<allowed, conn, links, notified, up, down, reload, hellos,
                   reloads, slipped>>

\* as: whom it is being admitted as; identity: peer_identity; reg and old: the
\* peer its PeerLinkRegistration is for, and the one it is replacing.
Fresh == [pc |-> "off", as |-> NoPeer, identity |-> NoPeer, reg |-> NoPeer, old |-> NoPeer]
NoReload == [pc |-> "idle", fresh |-> {}, scanned |-> {}, todo |-> {}]

PeerAdmissionInit ==
    /\ allowed = FirstAllowList
    /\ conn = [c \in Conns |-> Fresh]
    /\ links = [c \in Conns |-> [p \in Peers |-> 0]]
    /\ notified = {}
    /\ up = {}
    /\ down = <<>>
    /\ reload = NoReload
    /\ hellos = 0
    /\ reloads = 0
    /\ slipped = {}

At(c, pc) == conn[c].pc = pc
Goto(c, pc) == conn' = [conn EXCEPT ![c].pc = pc]

\* allowlist_permits
Permitted(c) == PrincipalOf[c] \in allowed

\* The connection has an entry in PeerLinks.links.
Linked(c) == \E p \in Peers : links[c][p] > 0
-----------------------------------------------------------------------------
(* Membership                                                               *)

\* Mutation: a peer that reconnects stays queued for eviction.
MarkConnectedStaysQueued(p) == up' = up \cup {p} /\ UNCHANGED down

\* disconnected_order.retain: the queue without a peer.  It holds a peer once
\* at most, or MembershipAgrees would not hold.
Without(queue, p) ==
    IF \E i \in 1 .. Len(queue) : queue[i] = p
    THEN LET i == CHOOSE i \in 1 .. Len(queue) : queue[i] = p
         IN  SubSeq(queue, 1, i - 1) \o SubSeq(queue, i + 1, Len(queue))
    ELSE queue

MarkConnected(p) == up' = up \cup {p} /\ down' = Without(down, p)

\* The longest disconnected entry is forgotten once there are too many.
MarkDisconnected(p) ==
    LET queue == Append(down, p)
    IN  /\ up' = up \ {p}
        /\ down' = IF p \notin up THEN down
                   ELSE IF Len(queue) > DownCapacity THEN Tail(queue)
                   ELSE queue
-----------------------------------------------------------------------------
(* PeerLinks                                                                *)

\* Mutation: every entry with the connection's channel goes.
UnregisteredAll(c, p) == [links EXCEPT ![c][p] = 0]

\* PeerLinks::unregister: one entry, if there is one.
Unregistered(c, p) == [links EXCEPT ![c][p] = IF @ = 0 THEN 0 ELSE @ - 1]
-----------------------------------------------------------------------------
(* The connection.                                                          *)

\* run_connection starts.  On the dialing side the peer is admitted before a
\* frame is read.
Connect(c, p) ==
    /\ At(c, "off") /\ hellos < MaxHellos
    /\ IF c \in Dialed
       THEN /\ p \in Claims[c]
            /\ conn' = [conn EXCEPT ![c].pc = "check", ![c].as = p]
            /\ hellos' = hellos + 1
       ELSE Goto(c, "idle") /\ UNCHANGED hellos
    /\ notified' = notified \ {c}
    /\ slipped' = slipped \ {c}
    /\ UNCHANGED <<allowed, links, up, down, reload, reloads>>

\* handle_hello begins: also on a connection that said Hello before.
Hello(c, p) ==
    /\ At(c, "idle") /\ hellos < MaxHellos
    /\ p \in Claims[c]
    /\ conn' = [conn EXCEPT ![c].pc = "check", ![c].as = p]
    /\ hellos' = hellos + 1
    /\ UNCHANGED <<allowed, links, notified, up, down, reload, reloads, slipped>>

\* The first look at the allowlist.  Who is refused is sent an Error first.
AdmitCheck(c) ==
    /\ At(c, "check")
    /\ conn' = IF Permitted(c)
               THEN [conn EXCEPT ![c].pc = "mark", ![c].identity = conn[c].as]
               ELSE [conn EXCEPT ![c].pc = "refuse"]
    /\ UNCHANGED <<allowed, links, notified, up, down, reload, hellos, reloads, slipped>>

\* The Error is queued, or the outgoing queue is closed: either way the
\* connection ends, with shut_down after a Hello, without on the dialing side,
\* where there is nothing to undo yet.
RefuseSent(c) ==
    /\ At(c, "refuse")
    /\ Goto(c, "shut")
    /\ UNCHANGED <<allowed, links, notified, up, down, reload, hellos, reloads, slipped>>

\* membership.mark_connected; a Hello is then answered.
AdmitMark(c) ==
    /\ At(c, "mark")
    /\ MarkConnected(conn[c].as)
    /\ Goto(c, IF c \in Dialed /\ conn[c].reg = NoPeer THEN "register" ELSE "reply")
    /\ UNCHANGED <<allowed, links, notified, reload, hellos, reloads, slipped>>

\* The Hello reply is queued, or the outgoing queue is closed.
AdmitReply(c) ==
    /\ At(c, "reply")
    /\ Goto(c, "register") \/ Goto(c, "shut")
    /\ UNCHANGED <<allowed, links, notified, up, down, reload, hellos, reloads, slipped>>

\* register_peer_link: one more entry for this connection.  The guard of an
\* earlier Hello is dropped once the new one is in its place.
AdmitRegister(c) ==
    /\ At(c, "register")
    /\ links' = [links EXCEPT ![c][conn[c].as] = @ + 1]
    /\ conn' = [conn EXCEPT ![c].pc = IF conn[c].reg = NoPeer THEN "recheck" ELSE "replace",
                            ![c].reg = conn[c].as, ![c].old = conn[c].reg]
    /\ UNCHANGED <<allowed, notified, up, down, reload, hellos, reloads, slipped>>

AdmitReplace(c) ==
    /\ At(c, "replace")
    /\ links' = Unregistered(c, conn[c].old)
    /\ conn' = [conn EXCEPT ![c].pc = "recheck", ![c].old = NoPeer]
    /\ UNCHANGED <<allowed, notified, up, down, reload, hellos, reloads, slipped>>

\* Mutation: the allowlist is only looked at once.
NoRecheck(c) ==
    /\ At(c, "recheck")
    /\ Goto(c, "idle")
    /\ UNCHANGED <<allowed, links, notified, up, down, reload, hellos, reloads, slipped>>

\* The second look: a link that is no longer permitted notifies itself.
AdmitRecheck(c) ==
    /\ At(c, "recheck")
    /\ Goto(c, "idle")
    /\ notified' = IF Permitted(c) THEN notified ELSE notified \cup {c}
    /\ slipped' = IF /\ Permitted(c)
                     /\ reload.pc = "notify" /\ c \notin reload.scanned
                     /\ PrincipalOf[c] \notin reload.fresh
                  THEN slipped \cup {c} ELSE slipped
    /\ UNCHANGED <<allowed, links, up, down, reload, hellos, reloads>>

\* A frame other than a Hello is answered: the Ack of a Subscribe or Unsubscribe,
\* an Error, a StatusReply or a TopicsReply is awaited inside the select branch.
Answer(c) ==
    /\ At(c, "idle")
    /\ Goto(c, "answer")
    /\ UNCHANGED <<allowed, links, notified, up, down, reload, hellos, reloads, slipped>>

\* The answer is queued, or the outgoing queue is closed.
AnswerSent(c) ==
    /\ At(c, "answer")
    /\ Goto(c, "idle") \/ Goto(c, "shut")
    /\ UNCHANGED <<allowed, links, notified, up, down, reload, hellos, reloads, slipped>>

\* read_frame fails or the far end is gone.
ReadEnds(c) ==
    /\ At(c, "idle")
    /\ Goto(c, "shut")
    /\ UNCHANGED <<allowed, links, notified, up, down, reload, hellos, reloads, slipped>>

\* Mutation: only the task of a dialed connection looks at its Notify.
DisconnectDialedOnly(c) ==
    /\ At(c, "idle") /\ c \in notified /\ c \in Dialed
    /\ notified' = notified \ {c}
    /\ Goto(c, "shut")
    /\ UNCHANGED <<allowed, links, up, down, reload, hellos, reloads, slipped>>

\* disconnect.notified() wins the select.
Disconnect(c) ==
    /\ At(c, "idle") /\ c \in notified
    /\ notified' = notified \ {c}
    /\ Goto(c, "shut")
    /\ UNCHANGED <<allowed, links, up, down, reload, hellos, reloads, slipped>>

\* shut_down
ShutDown(c) ==
    /\ At(c, "shut")
    /\ IF conn[c].identity = NoPeer THEN UNCHANGED <<up, down>>
       ELSE MarkDisconnected(conn[c].identity)
    /\ Goto(c, "drop")
    /\ UNCHANGED <<allowed, links, notified, reload, hellos, reloads, slipped>>

\* drop(ctx): the registration guard goes, and with the connection its Notify.
Drop(c) ==
    /\ At(c, "drop")
    /\ links' = IF conn[c].reg = NoPeer THEN links ELSE Unregistered(c, conn[c].reg)
    /\ conn' = [conn EXCEPT ![c] = Fresh]
    /\ notified' = notified \ {c}
    /\ slipped' = slipped \ {c}
    /\ reload' = [reload EXCEPT !.todo = @ \ {c}, !.scanned = @ \ {c}]
    /\ UNCHANGED <<allowed, up, down, hellos, reloads>>
-----------------------------------------------------------------------------
(* The reload task: spawn_reload_applier.                                   *)

\* A reload arrives.
ReloadBegin(list) ==
    /\ reload.pc = "idle" /\ reloads < MaxReloads
    /\ reload' = [reload EXCEPT !.pc = "scan", !.fresh = list]
    /\ reloads' = reloads + 1
    /\ UNCHANGED <<allowed, conn, links, notified, up, down, hellos, slipped>>

\* disconnect_unless collects, under the lock of the registry, the links that
\* the fresh list does not permit.
ReloadScan ==
    /\ reload.pc = "scan"
    /\ LET linked == {c \in Conns : Linked(c)}
       IN  reload' = [reload EXCEPT !.pc = "notify", !.scanned = linked,
                                    !.todo = {c \in linked : PrincipalOf[c] \notin reload.fresh}]
    /\ UNCHANGED <<allowed, conn, links, notified, up, down, hellos, reloads, slipped>>

\* Then it notifies them.
ReloadNotify(c) ==
    /\ reload.pc = "notify" /\ c \in reload.todo
    /\ notified' = notified \cup {c}
    /\ slipped' = slipped \ {c}
    /\ reload' = [reload EXCEPT !.todo = @ \ {c}]
    /\ UNCHANGED <<allowed, conn, links, up, down, hellos, reloads>>

\* And only then allowed_peers is set.
ReloadInstall ==
    /\ reload.pc = "notify" /\ reload.todo = {}
    /\ allowed' = reload.fresh
    /\ reload' = NoReload
    /\ UNCHANGED <<conn, links, notified, up, down, hellos, reloads, slipped>>
-----------------------------------------------------------------------------
\* ConnectionContext::send: the task waits for room in the outgoing queue, which
\* a peer that does not read never gives.
Sent(c) == RefuseSent(c) \/ AdmitReply(c) \/ AnswerSent(c)
Sending(c) == conn[c].pc \in {"refuse", "reply", "answer"}

\* A connection task goes on with what it has begun.
Proceed(c) ==
    \/ AdmitCheck(c) \/ AdmitMark(c) \/ AdmitRegister(c) \/ AdmitReplace(c)
    \/ AdmitRecheck(c) \/ ShutDown(c) \/ Drop(c)

ReloadProceed ==
    \/ ReloadScan \/ ReloadInstall
    \/ \E c \in Conns : ReloadNotify(c)

PeerAdmissionNext ==
    \/ \E c \in Conns :
          \/ \E p \in Peers : Connect(c, p) \/ Hello(c, p)
          \/ Proceed(c)
          \/ Answer(c)
          \/ Sent(c)
          \/ ReadEnds(c)
          \/ Disconnect(c)
    \/ \E list \in AllowLists : ReloadBegin(list)
    \/ ReloadProceed

PeerAdmissionSpec == PeerAdmissionInit /\ [][PeerAdmissionNext]_admissionVars

\* The runtime schedules every task that can go on.  A task that comes back to
\* its select again and again sees its Notify, for tokio::select! tries its
\* branches in random order.  Nothing is assumed of a send: a peer need not read.
PeerAdmissionFairness ==
    /\ \A c \in Conns : WF_admissionVars(Proceed(c)) /\ SF_admissionVars(Disconnect(c))
    /\ WF_admissionVars(ReloadProceed)

FairPeerAdmissionSpec == PeerAdmissionSpec /\ PeerAdmissionFairness
-----------------------------------------------------------------------------
(* Properties.                                                              *)

\* A connection has exactly the one registry entry its guard stands for, under
\* the peer it was last admitted as, whatever it said Hello as before; one
\* without a guard has none, so nothing is left behind by a connection that
\* ended (PeerLinks::unregister, PeerLinkRegistration).
LinksExact ==
    \A c \in Conns : conn[c].pc # "replace" =>
        \A p \in Peers : links[c][p] = IF conn[c].reg = p THEN 1 ELSE 0

\* Between reloads, a link that the installed allowlist does not permit has been
\* notified, or is about to notify itself, or slipped through while the reload
\* had scanned the registry and not yet installed the list.
RevokedIsNotified ==
    \A c \in Conns :
        /\ reload.pc = "idle"
        /\ Linked(c) /\ ~ Permitted(c)
        /\ conn[c].pc \notin {"replace", "recheck", "shut", "drop"}
        => c \in notified \cup slipped

\* A notified link ends, however many frames it sends meanwhile, unless an answer
\* of its own task waits for room in the outgoing queue for ever
\* (disconnect.notified() in run_connection, ConnectionContext::send).
NotifiedLeaves ==
    \A c \in Conns : (c \in notified /\ Linked(c)) ~> (~ Linked(c) \/ []Sending(c))

\* Membership agrees with the connections, whichever of a peer's came and
\* went, as long as none of them changes its sender: its eviction queue holds only disconnected peers, each once, so that
\* popping its front never forgets a connected one; and a peer that is reported
\* as connected has a connection that has not shut down.
MembershipAgrees ==
    /\ \A i \in 1 .. Len(down) : down[i] \notin up
    /\ \A i, j \in 1 .. Len(down) : down[i] = down[j] => i = j
    /\ \A p \in up : \E c \in Conns : conn[c].identity = p /\ conn[c].pc \notin {"off", "drop"}
=============================================================================
