-------------------------- MODULE ConnectionProofs --------------------------
(***************************************************************************)
(* What a connection does for its client: its subscriptions                *)
(* (Subscriptions) and the delivery of a subscription that acknowledges    *)
(* every message (AckDelivery).                                            *)
(*                                                                         *)
(* A revoked subscription does not outlive the reload, and interest is     *)
(* counted exactly, for every finite number of connections and every       *)
(* number of filters, requests and reloads.                                *)
(*                                                                         *)
(* RevocationEnforced needs two facts about the connection tasks: a task   *)
(* inside a handler knows its filter, and one that the reload's snapshot   *)
(* leaves out has no forwarder.  InterestCounted is about tasks at rest;   *)
(* its invariant says for every point of the handlers and of the reload    *)
(* whom the count of a filter stands for.                                  *)
(***************************************************************************)
EXTENDS Subscriptions, AckDelivery, FiniteSetTheorems, TLAPS

-----------------------------------------------------------------------------
(* The subscriptions of a connection                                        *)

Handling == {"insert", "recheck", "withdraw", "count", "ack", "tell",
             "unack", "uncount", "untell", "draintell"}

\* A task inside a handler works on a filter.
HandlersHaveFilter == \A c \in Conns : conn[c].pc \in Handling => conn[c].filter \in Filters

\* A connection that is closing or closed has no forwarder.
ClosedHasNone ==
    \A c \in Conns : conn[c].pc \in {"off", "drain", "draintell"} => forwarders[c] = {}

Task == [pc : {"off", "idle", "insert", "recheck", "withdraw", "count", "ack",
               "tell", "unack", "uncount", "untell", "drain", "draintell"},
         filter : Filters \cup {NoFilter}, flag : BOOLEAN, todo : SUBSET Filters]

SubsInv == SubscriptionsTypeOK /\ HandlersHaveFilter /\ ClosedHasNone /\ RevocationEnforced

\* The node starts without connections.
LEMMA SubsInitInv == SubscriptionsInit => SubsInv
<1> SUFFICES ASSUME SubscriptionsInit PROVE SubsInv
  OBVIOUS
<1>1. SubscriptionsTypeOK
  <2>1. Off \in Task
    BY DEF Off, Idle, Task
  <2>2. conn \in [Conns -> Task]
    BY <2>1 DEF SubscriptionsInit
  <2>3. reload \in [pc : {"idle", "installed", "walk", "tell"}, todo : SUBSET Conns,
                   stopped : SUBSET Filters, filter : Filters \cup {NoFilter}]
    BY DEF SubscriptionsInit, ReloadIdle
  <2>4. QED
    BY <2>2, <2>3, SubscriptionsAssumption DEF SubscriptionsInit, SubscriptionsTypeOK, Task
<1>2. HandlersHaveFilter /\ ClosedHasNone /\ RevocationEnforced
  BY DEF SubscriptionsInit, HandlersHaveFilter, ClosedHasNone, RevocationEnforced,
         Off, Idle, Handling
<1>3. QED
  BY <1>1, <1>2 DEF SubsInv

\* A step of one connection task preserves the invariant if it leaves the
\* task in a good state and its forwarders accounted for.
LEMMA TaskStepInv ==
    ASSUME SubsInv, NEW c \in Conns,
           conn' \in [Conns -> Task], forwarders' \in [Conns -> SUBSET Filters],
           \A d \in Conns : d # c => conn'[d] = conn[d] /\ forwarders'[d] = forwarders[d],
           conn'[c].pc \in Handling => conn'[c].filter \in Filters,
           conn'[c].pc \in {"off", "drain", "draintell"} => forwarders'[c] = {},
           \A f \in forwarders'[c] :
               \/ f \in acl[c]
               \/ reload.pc = "installed" \/ c \in reload.todo
               \/ conn'[c].pc \in {"recheck", "withdraw"} /\ conn'[c].filter = f,
           UNCHANGED <<acl, reload, reloads, early>>, leaked' \subseteq Filters,
           counts' \in [Filters -> Nat], believed' \subseteq Filters,
           requests' \in 0 .. MaxRequests
    PROVE  SubsInv'
<1>1. SubscriptionsTypeOK'
  BY DEF SubsInv, SubscriptionsTypeOK, Task
<1>2. HandlersHaveFilter' /\ ClosedHasNone'
  BY DEF SubsInv, HandlersHaveFilter, ClosedHasNone
<1>3. RevocationEnforced'
  BY DEF SubsInv, RevocationEnforced, Permits
<1>4. QED
  BY <1>1, <1>2, <1>3 DEF SubsInv

\* What the invariant says of one connection.
LEMMA TaskFacts ==
    ASSUME SubsInv, NEW c \in Conns
    PROVE  /\ conn \in [Conns -> Task] /\ forwarders \in [Conns -> SUBSET Filters]
           /\ conn[c] \in Task /\ forwarders[c] \in SUBSET Filters
           /\ conn[c].pc \in Handling => conn[c].filter \in Filters
           /\ conn[c].pc \in {"off", "drain", "draintell"} => forwarders[c] = {}
           /\ \A f \in forwarders[c] :
                 \/ f \in acl[c]
                 \/ reload.pc = "installed" \/ c \in reload.todo
                 \/ conn[c].pc \in {"recheck", "withdraw"} /\ conn[c].filter = f
           /\ counts \in [Filters -> Nat] /\ believed \subseteq Filters /\ leaked \subseteq Filters
           /\ requests \in 0 .. MaxRequests /\ MaxRequests \in Nat
           /\ Idle \in Task /\ Off \in Task
           /\ Idle.pc = "idle" /\ Off.pc = "off"
<1>1. /\ Idle \in Task /\ Off \in Task /\ Idle.pc = "idle" /\ Off.pc = "off"
  BY DEF Idle, Off, Task
<1>2. QED
  BY <1>1, SubscriptionsAssumption
     DEF SubsInv, SubscriptionsTypeOK, HandlersHaveFilter, ClosedHasNone, RevocationEnforced,
         Permits, Task

\* Interest::unsubscribe never leaves a negative count.
LEMMA UncountedType ==
    ASSUME counts \in [Filters -> Nat], NEW f \in Filters
    PROVE  Uncounted(f) \in [Filters -> Nat]
  BY DEF Uncounted

\* handle_subscribe
LEMMA SubscribeInv ==
    ASSUME SubsInv, NEW c \in Conns,
           \/ \E f \in Filters : SubscribeCheck(c, f)
           \/ SubscribeInsert(c) \/ SubscribeRecheck(c) \/ SubscribeWithdraw(c)
           \/ SubscribeCount(c) \/ SubscribeAck(c) \/ SubscribeTell(c)
    PROVE  SubsInv'
<1> USE TaskFacts
<1>1. CASE \E f \in Filters : SubscribeCheck(c, f)
  <2>1. PICK f \in Filters : SubscribeCheck(c, f)
    BY <1>1
  <2>2. /\ requests' \in 0 .. MaxRequests /\ forwarders' = forwarders
        /\ UNCHANGED <<acl, reload, reloads, counts, believed, leaked, early>>
        /\ At(c, "idle")
        /\ conn' = conn \/ conn' = [conn EXCEPT ![c].pc = "insert", ![c].filter = f]
    BY <2>1 DEF SubscribeCheck
  <2>3. CASE conn' = conn
    BY <2>2, <2>3, TaskStepInv
  <2>4. CASE conn' = [conn EXCEPT ![c].pc = "insert", ![c].filter = f]
    <3> DEFINE task == [conn[c] EXCEPT !.pc = "insert", !.filter = f]
    <3>1. task \in Task /\ task.filter = f /\ task.pc = "insert"
      BY DEF Task
    <3>2. conn' = [conn EXCEPT ![c] = task]
      BY <2>4
    <3> HIDE DEF task
    <3>3. /\ conn' \in [Conns -> Task] /\ conn'[c].filter = f /\ conn'[c].pc = "insert"
          /\ \A d \in Conns : d # c => conn'[d] = conn[d]
      BY <3>1, <3>2
    <3> QED BY <2>2, <3>3, TaskStepInv DEF At
  <2>5. QED
    BY <2>2, <2>3, <2>4
<1>2. CASE SubscribeInsert(c)
  <2>1. /\ At(c, "insert") /\ UNCHANGED <<acl, reload, reloads, counts, believed, requests, leaked, early>>
        /\ forwarders' = [forwarders EXCEPT ![c] = @ \cup {conn[c].filter}]
        /\ conn' = [conn EXCEPT ![c].pc =
                       IF conn[c].filter \in forwarders[c] THEN "ack" ELSE "recheck"]
    BY <1>2 DEF SubscribeInsert, Goto
  <2>2. conn[c].filter \in Filters
    BY <2>1 DEF At, Handling
  <2>3. /\ forwarders' \in [Conns -> SUBSET Filters]
        /\ forwarders'[c] = forwarders[c] \cup {conn[c].filter}
    BY <2>1, <2>2
  <2>4. /\ conn' \in [Conns -> Task] /\ conn'[c].filter = conn[c].filter
        /\ conn'[c].pc = IF conn[c].filter \in forwarders[c] THEN "ack" ELSE "recheck"
    <3>1. CASE conn[c].filter \in forwarders[c]
      BY <3>1, <2>1 DEF Task
    <3>2. CASE conn[c].filter \notin forwarders[c]
      BY <3>2, <2>1 DEF Task
    <3>3. QED
      BY <3>1, <3>2
  <2>5. \A f \in forwarders'[c] :
            \/ f \in acl[c]
            \/ reload.pc = "installed" \/ c \in reload.todo
            \/ conn'[c].pc \in {"recheck", "withdraw"} /\ conn'[c].filter = f
    BY <2>1, <2>3, <2>4 DEF At
  <2>6. QED
    BY <2>1, <2>2, <2>3, <2>4, <2>5, TaskStepInv
<1>3. CASE SubscribeRecheck(c)
  <2>1. /\ At(c, "recheck")
        /\ UNCHANGED <<acl, reload, reloads, counts, believed, requests, forwarders, leaked, early>>
        /\ conn' = [conn EXCEPT ![c].pc =
                       IF conn[c].filter \in acl[c] THEN "count" ELSE "withdraw"]
    BY <1>3 DEF SubscribeRecheck, Goto, Permits
  <2>2. /\ conn' \in [Conns -> Task] /\ conn'[c].filter = conn[c].filter
        /\ conn'[c].pc = IF conn[c].filter \in acl[c] THEN "count" ELSE "withdraw"
    BY <2>1 DEF Task
  <2>3. QED
    BY <2>1, <2>2, TaskStepInv DEF At, Handling
<1>4. CASE SubscribeWithdraw(c)
  <2>1. /\ At(c, "withdraw") /\ UNCHANGED <<acl, reload, reloads, counts, believed, requests, leaked, early>>
        /\ forwarders' = [forwarders EXCEPT ![c] = @ \ {conn[c].filter}]
        /\ conn' = [conn EXCEPT ![c] = Idle]
    BY <1>4 DEF SubscribeWithdraw, Finish
  <2>2. /\ forwarders' \in [Conns -> SUBSET Filters] /\ conn' \in [Conns -> Task]
        /\ forwarders'[c] = forwarders[c] \ {conn[c].filter} /\ conn'[c].pc = "idle"
    BY <2>1
  <2>3. QED
    BY <2>1, <2>2, TaskStepInv DEF At, Handling
<1>5. CASE SubscribeCount(c)
  <2>1. /\ At(c, "count") /\ UNCHANGED <<acl, reload, reloads, believed, requests, forwarders, leaked, early>>
        /\ counts' = [counts EXCEPT ![conn[c].filter] = @ + 1]
        /\ conn' = [conn EXCEPT ![c].pc = "ack", ![c].flag = counts[conn[c].filter] = 0]
    BY <1>5 DEF SubscribeCount
  <2>2. /\ conn' \in [Conns -> Task] /\ conn'[c].filter = conn[c].filter
        /\ conn'[c].pc = "ack"
    BY <2>1 DEF Task
  <2>3. counts' \in [Filters -> Nat] /\ conn[c].filter \in Filters
    BY <2>1 DEF At, Handling
  <2>4. QED
    BY <2>1, <2>2, <2>3, TaskStepInv DEF At
<1>6. CASE SubscribeAck(c) \/ SubscribeTell(c)
  <2>0. conn[c].filter \in Filters
    BY <1>6 DEF SubscribeAck, SubscribeTell, At, Handling
  <2>1. /\ At(c, "ack") \/ At(c, "tell")
        /\ UNCHANGED <<acl, reload, reloads, counts, requests, forwarders, leaked, early>>
        /\ believed' \subseteq Filters
        /\ conn' = [conn EXCEPT ![c].pc = "tell"] \/ conn' = [conn EXCEPT ![c] = Idle]
    BY <1>6, <2>0 DEF SubscribeAck, SubscribeTell, Goto, Finish
  <2>2. /\ conn' \in [Conns -> Task]
        /\ conn'[c].pc = "idle" \/ (conn'[c].pc = "tell" /\ conn'[c].filter = conn[c].filter)
    <3>1. CASE conn' = [conn EXCEPT ![c].pc = "tell"]
      <4> DEFINE task == [conn[c] EXCEPT !.pc = "tell"]
      <4>1. task \in Task /\ task.pc = "tell" /\ task.filter = conn[c].filter
        BY DEF Task
      <4>2. conn' = [conn EXCEPT ![c] = task]
        BY <3>1
      <4> HIDE DEF task
      <4> QED BY <4>1, <4>2
    <3>2. CASE conn' = [conn EXCEPT ![c] = Idle]
      BY <3>2
    <3>3. QED
      BY <2>1, <3>1, <3>2
  <2>3. QED
    BY <2>0, <2>1, <2>2, TaskStepInv DEF At, Handling
<1>7. QED
  BY <1>1, <1>2, <1>3, <1>4, <1>5, <1>6

\* handle_unsubscribe
LEMMA UnsubscribeInv ==
    ASSUME SubsInv, NEW c \in Conns,
           \/ \E f \in Filters : UnsubscribeRemove(c, f)
           \/ UnsubscribeAck(c) \/ UnsubscribeCount(c) \/ UnsubscribeTell(c)
    PROVE  SubsInv'
<1> USE TaskFacts
<1>1. CASE \E f \in Filters : UnsubscribeRemove(c, f)
  <2>1. PICK f \in Filters : UnsubscribeRemove(c, f)
    BY <1>1
  <2>0. PICK had \in BOOLEAN :
            conn' = [conn EXCEPT ![c].pc = "unack", ![c].filter = f, ![c].flag = had]
    BY <2>1 DEF UnsubscribeRemove
  <2>2. /\ requests < MaxRequests /\ requests' = requests + 1 /\ At(c, "idle")
        /\ UNCHANGED <<acl, reload, reloads, counts, believed, leaked, early>>
        /\ forwarders' = [forwarders EXCEPT ![c] = @ \ {f}]
    BY <2>1, Zenon DEF UnsubscribeRemove
  <2>6. requests' \in 0 .. MaxRequests
    BY <2>2
  <2>3. conn' \in [Conns -> Task] /\ conn'[c].filter = f /\ conn'[c].pc = "unack"
    <3> DEFINE task == [conn[c] EXCEPT !.pc = "unack", !.filter = f, !.flag = had]
    <3>1. task \in Task /\ task.filter = f /\ task.pc = "unack"
      BY DEF Task
    <3>2. conn' = [conn EXCEPT ![c] = task]
      BY <2>0
    <3> HIDE DEF task
    <3> QED BY <3>1, <3>2
  <2>4. forwarders' \in [Conns -> SUBSET Filters] /\ forwarders'[c] = forwarders[c] \ {f}
    BY <2>2
  <2>5. QED
    BY <2>0, <2>2, <2>3, <2>4, <2>6, TaskStepInv DEF At
<1>2. CASE UnsubscribeAck(c) \/ UnsubscribeCount(c) \/ UnsubscribeTell(c)
  <2>1. conn[c].pc \in {"unack", "uncount", "untell"} /\ conn[c].filter \in Filters
    BY <1>2 DEF UnsubscribeAck, UnsubscribeCount, UnsubscribeTell, At, Handling
  <2>2. /\ UNCHANGED <<acl, reload, reloads, requests, forwarders, leaked, early>>
        /\ believed' \subseteq Filters
        /\ \/ conn' = [conn EXCEPT ![c].pc = "uncount"]
           \/ conn' = [conn EXCEPT ![c].pc = "untell"]
           \/ conn' = [conn EXCEPT ![c] = Idle]
    BY <1>2 DEF UnsubscribeAck, UnsubscribeCount, UnsubscribeTell, Goto, Finish
  <2>3. counts' \in [Filters -> Nat]
    BY <1>2, <2>1, UncountedType DEF UnsubscribeAck, UnsubscribeCount, UnsubscribeTell
  <2>4. /\ conn' \in [Conns -> Task]
        /\ conn'[c].pc = "idle" \/ (/\ conn'[c].pc \in {"uncount", "untell"}
                                    /\ conn'[c].filter = conn[c].filter)
    BY <2>2 DEF Task
  <2>5. QED
    BY <2>1, <2>2, <2>3, <2>4, TaskStepInv DEF Handling
<1>3. QED
  BY <1>1, <1>2

\* run_connection's start, and shut_down
LEMMA LifecycleInv ==
    ASSUME SubsInv, NEW c \in Conns,
           \/ Connect(c) \/ ShutDown(c) \/ DrainTell(c) \/ Disconnected(c)
           \/ \E f \in Filters : DrainCount(c, f)
    PROVE  SubsInv'
<1> USE TaskFacts
<1>1. CASE Connect(c) \/ Disconnected(c)
  <2>1. /\ conn[c].pc \in {"off", "drain"}
        /\ UNCHANGED <<acl, forwarders, counts, reload, believed, requests, reloads, leaked, early>>
        /\ conn' = [conn EXCEPT ![c] = Idle] \/ conn' = [conn EXCEPT ![c] = Off]
    BY <1>1 DEF Connect, Disconnected, Finish, At
  <2>2. conn' \in [Conns -> Task] /\ conn'[c].pc \in {"idle", "off"}
    BY <2>1
  <2>3. QED
    BY <2>1, <2>2, TaskStepInv DEF Handling
<1>2. CASE ShutDown(c)
  <2> DEFINE task == [Idle EXCEPT !.pc = "drain", !.todo = forwarders[c]]
  <2>0. leaked' \subseteq Filters
    BY <1>2 DEF ShutDown, At, Handling
  <2>1. /\ UNCHANGED <<acl, counts, reload, believed, requests, reloads, early>>
        /\ conn' = [conn EXCEPT ![c] = task]
        /\ forwarders' = [forwarders EXCEPT ![c] = {}]
    BY <1>2 DEF ShutDown
  <2>2. task \in Task /\ task.pc = "drain"
    BY DEF Idle, Task
  <2> HIDE DEF task
  <2>3. /\ conn' \in [Conns -> Task] /\ conn'[c].pc = "drain"
        /\ forwarders' \in [Conns -> SUBSET Filters] /\ forwarders'[c] = {}
    BY <2>1, <2>2
  <2>4. QED
    BY <2>0, <2>1, <2>3, TaskStepInv DEF Handling
<1>3. CASE DrainTell(c)
  <2>1. /\ conn[c].pc = "draintell"
        /\ UNCHANGED <<acl, forwarders, counts, reload, requests, reloads, leaked, early>>
        /\ believed' \subseteq Filters /\ conn' = [conn EXCEPT ![c].pc = "drain"]
    BY <1>3 DEF DrainTell, At, Goto
  <2>2. conn' \in [Conns -> Task] /\ conn'[c].pc = "drain"
    BY <2>1 DEF Task
  <2>3. QED
    BY <2>1, <2>2, TaskStepInv DEF Handling
<1>4. ASSUME NEW f \in Filters, DrainCount(c, f)
      PROVE  SubsInv'
  <2>1. /\ conn[c].pc = "drain" /\ counts' = Uncounted(f)
        /\ UNCHANGED <<acl, forwarders, reload, believed, requests, reloads, leaked, early>>
        /\ \/ conn' = [conn EXCEPT ![c].todo = @ \ {f}, ![c].filter = f, ![c].pc = "draintell"]
           \/ conn' = [conn EXCEPT ![c].todo = @ \ {f}, ![c].filter = f, ![c].pc = "drain"]
    BY <1>4 DEF DrainCount, At
  <2>2. /\ conn' \in [Conns -> Task] /\ conn'[c].pc \in {"drain", "draintell"}
        /\ conn'[c].filter = f
    BY <2>1 DEF Task
  <2>3. counts' \in [Filters -> Nat]
    BY <2>1, UncountedType
  <2>4. QED
    BY <2>1, <2>2, <2>3, TaskStepInv
<1>5. QED
  BY <1>1, <1>2, <1>3, <1>4

\* The reload task: installing an ACL makes every connection one to visit, and
\* visiting it leaves it nothing that the ACL does not permit.
LEMMA ReloadInv ==
    ASSUME SubsInv, (\E a \in Acls : ReloadInstall(a)) \/ ReloadProceed
    PROVE  SubsInv'
<1> USE DEF SubsInv
<1> DEFINE ReloadType == [pc : {"idle", "installed", "walk", "tell"}, todo : SUBSET Conns,
                          stopped : SUBSET Filters, filter : Filters \cup {NoFilter}]
<1>0. reload \in ReloadType /\ reloads \in 0 .. MaxReloads /\ MaxReloads \in Nat
  BY SubscriptionsAssumption DEF SubscriptionsTypeOK
<1>1. ASSUME NEW a \in Acls, ReloadInstall(a)
      PROVE  SubsInv'
  <2>1. /\ acl' = a /\ a \in [Conns -> SUBSET Filters]
        /\ reload' = [reload EXCEPT !.pc = "installed"] /\ reloads' \in 0 .. MaxReloads
        /\ UNCHANGED <<forwarders, counts, conn, believed, requests, leaked, early>>
    BY <1>0, <1>1, SubscriptionsAssumption DEF ReloadInstall
  <2>2. reload' \in ReloadType /\ reload'.pc = "installed"
    BY <1>0, <2>1
  <2>3. SubscriptionsTypeOK'
    BY <2>1, <2>2 DEF SubscriptionsTypeOK
  <2>4. QED
    BY <2>1, <2>2, <2>3 DEF HandlersHaveFilter, ClosedHasNone, RevocationEnforced
<1>2. CASE ReloadSnapshot
  <2>1. /\ UNCHANGED <<acl, forwarders, counts, conn, believed, requests, reloads, leaked, early>>
        /\ reload' = [reload EXCEPT !.pc = "walk", !.todo = {c \in Conns : ~ At(c, "off")}]
    BY <1>2 DEF ReloadSnapshot
  <2>2. reload' \in ReloadType /\ reload'.todo = {c \in Conns : ~ At(c, "off")}
    BY <1>0, <2>1
  <2>3. SubscriptionsTypeOK'
    BY <2>1, <2>2 DEF SubscriptionsTypeOK
  <2>4. RevocationEnforced'
    BY <2>1, <2>2 DEF RevocationEnforced, ClosedHasNone, At
  <2>5. QED
    BY <2>1, <2>3, <2>4 DEF HandlersHaveFilter, ClosedHasNone
<1>3. ASSUME NEW c \in Conns, ReloadConn(c)
      PROVE  SubsInv'
  <2> DEFINE stopped == {f \in forwarders[c] : ~ Permits(c, f)}
  <2>1. /\ UNCHANGED <<acl, counts, conn, believed, requests, reloads, leaked>>
        /\ early' = early \cup {f \in stopped : NotYetCounted(c, f)}
        /\ forwarders' = [forwarders EXCEPT ![c] = @ \ stopped]
        /\ reload' = [reload EXCEPT !.todo = @ \ {c}, !.stopped = stopped]
        /\ reload.pc = "walk"
    BY <1>3 DEF ReloadConn
  <2>2. forwarders \in [Conns -> SUBSET Filters] /\ stopped \in SUBSET Filters
    BY DEF SubscriptionsTypeOK
  <2>3. \A f \in forwarders[c] \ stopped : f \in acl[c]
    BY DEF Permits
  <2> HIDE DEF stopped
  <2>4. reload' \in ReloadType /\ reload'.todo = reload.todo \ {c} /\ reload'.pc = "walk"
    BY <1>0, <2>1, <2>2
  <2>5. /\ forwarders' \in [Conns -> SUBSET Filters]
        /\ forwarders'[c] = forwarders[c] \ stopped
        /\ \A d \in Conns : d # c => forwarders'[d] = forwarders[d]
    BY <2>1, <2>2
  <2>6. SubscriptionsTypeOK'
    BY <2>1, <2>2, <2>4, <2>5 DEF SubscriptionsTypeOK
  <2>7. HandlersHaveFilter' /\ ClosedHasNone'
    BY <2>1, <2>5 DEF HandlersHaveFilter, ClosedHasNone
  <2>8. RevocationEnforced'
    BY <2>1, <2>3, <2>4, <2>5 DEF RevocationEnforced, Permits
  <2>9. QED
    BY <2>6, <2>7, <2>8
<1>4. CASE ReloadTell \/ ReloadDone \/ (\E f \in Filters : ReloadCount(f))
  <2>1. /\ UNCHANGED <<acl, forwarders, conn, requests, reloads, leaked, early>>
        /\ reload.pc # "installed" /\ believed' \subseteq Filters
    BY <1>4 DEF ReloadTell, ReloadDone, ReloadCount, SubscriptionsTypeOK
  <2>2. counts' \in [Filters -> Nat]
    <3>1. counts \in [Filters -> Nat]
      BY DEF SubscriptionsTypeOK
    <3>2. counts' = counts \/ \E f \in Filters : counts' = Uncounted(f)
      BY <1>4 DEF ReloadTell, ReloadDone, ReloadCount
    <3>3. QED
      BY <3>1, <3>2, UncountedType
  <2>3. reload' \in ReloadType /\ reload'.todo = reload.todo
    <3>1. CASE ReloadTell
      BY <3>1, <1>0 DEF ReloadTell
    <3>2. CASE ReloadDone
      BY <3>2, <1>0 DEF ReloadDone, ReloadIdle
    <3>3. ASSUME NEW f \in Filters, ReloadCount(f)
          PROVE  reload' \in ReloadType /\ reload'.todo = reload.todo
      <4>1. \/ reload' = [reload EXCEPT !.stopped = @ \ {f}, !.filter = f, !.pc = "tell"]
            \/ reload' = [reload EXCEPT !.stopped = @ \ {f}, !.filter = f, !.pc = "walk"]
        BY <3>3 DEF ReloadCount
      <4>2. CASE reload' = [reload EXCEPT !.stopped = @ \ {f}, !.filter = f, !.pc = "tell"]
        BY <4>2, <1>0
      <4>3. CASE reload' = [reload EXCEPT !.stopped = @ \ {f}, !.filter = f, !.pc = "walk"]
        BY <4>3, <1>0
      <4>4. QED
        BY <4>1, <4>2, <4>3
    <3>4. QED
      BY <1>4, <3>1, <3>2, <3>3
  <2>4. SubscriptionsTypeOK'
    BY <2>1, <2>2, <2>3 DEF SubscriptionsTypeOK
  <2>5. RevocationEnforced'
    BY <2>1, <2>3 DEF RevocationEnforced, Permits
  <2>6. QED
    BY <2>1, <2>4, <2>5 DEF HandlersHaveFilter, ClosedHasNone
<1>5. QED
  BY <1>1, <1>2, <1>3, <1>4 DEF ReloadProceed

\* Every step preserves the invariant.
LEMMA SubsStepInv == SubsInv /\ [SubscriptionsNext]_subsVars => SubsInv'
<1> SUFFICES ASSUME SubsInv, [SubscriptionsNext]_subsVars
             PROVE  SubsInv'
  OBVIOUS
<1>1. ASSUME NEW c \in Conns,
             \/ Connect(c) \/ ShutDown(c) \/ ConnStep(c)
             \/ \E f \in Filters : SubscribeCheck(c, f) \/ UnsubscribeRemove(c, f)
      PROVE  SubsInv'
  BY <1>1, SubscribeInv, UnsubscribeInv, LifecycleInv DEF ConnStep
<1>2. CASE (\E a \in Acls : ReloadInstall(a)) \/ ReloadProceed
  BY <1>2, ReloadInv
<1>3. CASE UNCHANGED subsVars
  BY <1>3 DEF subsVars, SubsInv, SubscriptionsTypeOK, HandlersHaveFilter, ClosedHasNone,
              RevocationEnforced, Permits
<1>4. QED
  BY <1>1, <1>2, <1>3 DEF SubscriptionsNext

\* The connection and reload tasks keep every variable in its type; a count is
\* never decremented below zero.
THEOREM SubscriptionTypes == SubscriptionsSpec => []SubscriptionsTypeOK
<1>1. SubsInv => SubscriptionsTypeOK
  BY DEF SubsInv
<1>2. QED
  BY <1>1, SubsInitInv, SubsStepInv, PTL DEF SubscriptionsSpec

\* handle_subscribe's second check and reconcile_topic_acls leave no gap: a
\* forwarder the live ACL forbids is one of them's to take out.
THEOREM RevocationHasNoGap == SubscriptionsSpec => []RevocationEnforced
<1>1. SubsInv => RevocationEnforced
  BY DEF SubsInv
<1>2. QED
  BY <1>1, SubsInitInv, SubsStepInv, PTL DEF SubscriptionsSpec
-----------------------------------------------------------------------------
(* InterestCounted: every count is the number of connections that owe it an *)
(* Interest::unsubscribe, and one more while the reload does.               *)

\* A connection owes an Interest::unsubscribe for a filter: it is subscribed,
\* or it has taken the forwarder out and has still to count it off.
Owes(c, f) ==
    \/ Subscribed(c, f)
    \/ conn[c].pc \in {"unack", "uncount"} /\ conn[c].filter = f /\ conn[c].flag
    \/ conn[c].pc \in {"drain", "draintell"} /\ f \in conn[c].todo

Owing(f) == {c \in Conns : Owes(c, f)}

\* The reload has taken one connection's forwarder out and has still to count it off.
ReloadOwes(f) == IF f \in reload.stopped THEN 1 ELSE 0

\* Where a task is says what it knows of its forwarder, which only a reload
\* takes from it.
Steady(c) ==
    /\ conn[c].pc \in {"recheck", "withdraw", "count"} =>
           conn[c].filter \in forwarders[c] \cup early
    /\ conn[c].pc \in {"unack", "uncount"} => conn[c].filter \notin forwarders[c]
    /\ conn[c].pc = "uncount" => conn[c].flag

Accounted(f) ==
    /\ counts[f] >= Cardinality(Owing(f)) + ReloadOwes(f)
    /\ f \notin leaked => counts[f] = Cardinality(Owing(f)) + ReloadOwes(f)

CountInv ==
    /\ reload.pc = "idle" => reload.stopped = {}
    /\ \A c \in Conns : Steady(c)
    /\ \A f \in Filters \ early : Accounted(f)

\* One connection more or less among those that owe.
LEMMA OwingStep ==
    ASSUME NEW c \in Conns, NEW f,
           \A d \in Conns : d # c => (Owes(d, f)' <=> Owes(d, f))
    PROVE  /\ IsFiniteSet(Owing(f)) /\ Cardinality(Owing(f)) \in Nat
           /\ (Owes(c, f)' <=> Owes(c, f)) => Owing(f)' = Owing(f)
           /\ (Owes(c, f)' /\ ~ Owes(c, f)) => Cardinality(Owing(f)') = Cardinality(Owing(f)) + 1
           /\ (~ Owes(c, f)' /\ Owes(c, f)) =>
                  /\ Cardinality(Owing(f)') = Cardinality(Owing(f)) - 1
                  /\ Cardinality(Owing(f)) > 0
<1>1. IsFiniteSet(Owing(f)) /\ Cardinality(Owing(f)) \in Nat
  BY SubscriptionsAssumption, FS_Subset, FS_CardinalityType DEF Owing
<1>2. (Owes(c, f)' <=> Owes(c, f)) => Owing(f)' = Owing(f)
  BY DEF Owing
<1>3. (Owes(c, f)' /\ ~ Owes(c, f)) => Cardinality(Owing(f)') = Cardinality(Owing(f)) + 1
  <2> SUFFICES ASSUME Owes(c, f)', ~ Owes(c, f)
               PROVE  Cardinality(Owing(f)') = Cardinality(Owing(f)) + 1
    OBVIOUS
  <2>1. Owing(f)' = Owing(f) \cup {c} /\ c \notin Owing(f)
    BY DEF Owing
  <2>2. QED
    BY <1>1, <2>1, FS_AddElement
<1>4. (~ Owes(c, f)' /\ Owes(c, f)) =>
          /\ Cardinality(Owing(f)') = Cardinality(Owing(f)) - 1
          /\ Cardinality(Owing(f)) > 0
  <2> SUFFICES ASSUME ~ Owes(c, f)', Owes(c, f)
               PROVE  /\ Cardinality(Owing(f)') = Cardinality(Owing(f)) - 1
                      /\ Cardinality(Owing(f)) > 0
    OBVIOUS
  <2>1. Owing(f)' = Owing(f) \ {c} /\ c \in Owing(f)
    BY DEF Owing
  <2>2. Cardinality(Owing(f)') = Cardinality(Owing(f)) - 1
    BY <1>1, <2>1, FS_RemoveElement
  <2>3. Cardinality(Owing(f)) # 0
    BY <1>1, <2>1, FS_EmptySet
  <2>4. QED
    BY <1>1, <2>2, <2>3
<1>5. QED
  BY <1>1, <1>2, <1>3, <1>4

\* A step of one connection task keeps the counts if it counts what it comes to
\* owe, and counts off what it ceases to owe or leaves it as a leak.
LEMMA TaskCountStep ==
    ASSUME SubsInv, CountInv, NEW c \in Conns,
           \A d \in Conns : d # c => conn'[d] = conn[d] /\ forwarders'[d] = forwarders[d],
           UNCHANGED <<reload, early>>, leaked \subseteq leaked', Steady(c)',
           \A f \in Filters \ early :
               \/ (Owes(c, f)' <=> Owes(c, f)) /\ counts'[f] = counts[f]
               \/ Owes(c, f)' /\ ~ Owes(c, f) /\ counts'[f] = counts[f] + 1
               \/ ~ Owes(c, f)' /\ Owes(c, f) /\ counts'[f] = Uncounted(f)[f]
               \/ ~ Owes(c, f)' /\ Owes(c, f) /\ counts'[f] = counts[f] /\ f \in leaked'
    PROVE  CountInv'
<1>1. ASSUME NEW d \in Conns, d # c
      PROVE  Steady(d)'
  BY <1>1 DEF CountInv, Steady
<1>2. ASSUME NEW f \in Filters \ early
      PROVE  Accounted(f)'
  <2>1. \A d \in Conns : d # c => (Owes(d, f)' <=> Owes(d, f))
    BY DEF Owes, Subscribed, NotYetCounted
  <2> DEFINE n == Cardinality(Owing(f))
             m == Cardinality(Owing(f)')
             r == ReloadOwes(f)
  <2>2. /\ n \in Nat /\ r \in Nat /\ ReloadOwes(f)' = r
        /\ (Owes(c, f)' <=> Owes(c, f)) => m = n
        /\ (Owes(c, f)' /\ ~ Owes(c, f)) => m = n + 1
        /\ (~ Owes(c, f)' /\ Owes(c, f)) => m = n - 1 /\ n > 0
    BY <2>1, OwingStep DEF ReloadOwes
  <2>3. counts[f] \in Nat /\ counts \in [Filters -> Nat]
    BY DEF SubsInv, SubscriptionsTypeOK
  <2>4. Uncounted(f)[f] = IF counts[f] = 0 THEN 0 ELSE counts[f] - 1
    BY <2>3 DEF Uncounted
  <2>5. counts[f] >= n + r /\ (f \notin leaked => counts[f] = n + r)
    BY DEF CountInv, Accounted
  <2>6. \/ m = n /\ counts'[f] = counts[f]
        \/ m = n + 1 /\ counts'[f] = counts[f] + 1
        \/ m = n - 1 /\ n > 0 /\ counts'[f] = Uncounted(f)[f]
        \/ m = n - 1 /\ counts'[f] = counts[f] /\ f \in leaked'
    BY <2>2
  <2>7. (f \notin leaked') => (f \notin leaked)
    OBVIOUS
  <2>8. counts'[f] >= m + r /\ (f \notin leaked' => counts'[f] = m + r)
    <3> HIDE DEF n, m, r
    <3> QED BY <2>2, <2>3, <2>4, <2>5, <2>6, <2>7
  <2>9. QED
    BY <2>2, <2>8 DEF Accounted
<1>3. QED
  BY <1>1, <1>2 DEF CountInv

\* Replacing the state of one task.
LEMMA TaskReplaced ==
    ASSUME SubsInv, NEW c \in Conns, NEW task, conn' = [conn EXCEPT ![c] = task]
    PROVE  conn'[c] = task /\ \A d \in Conns : d # c => conn'[d] = conn[d]
  BY DEF SubsInv, SubscriptionsTypeOK

\* handle_subscribe comes to owe at Interest::subscribe, and nowhere else.
LEMMA SubscribeCounts ==
    ASSUME SubsInv, CountInv, NEW c \in Conns,
           \/ \E f \in Filters : SubscribeCheck(c, f)
           \/ SubscribeInsert(c) \/ SubscribeRecheck(c) \/ SubscribeWithdraw(c)
           \/ SubscribeCount(c) \/ SubscribeAck(c) \/ SubscribeTell(c)
    PROVE  CountInv'
<1>0. Steady(c)
  BY DEF CountInv
<1> USE TaskFacts
<1>1. CASE \E f \in Filters : SubscribeCheck(c, f)
  <2>1. PICK f \in Filters : SubscribeCheck(c, f)
    BY <1>1
  <2>2. /\ UNCHANGED <<forwarders, reload, early, counts, believed, leaked>>
        /\ conn[c].pc = "idle"
        /\ conn' = conn \/ conn' = [conn EXCEPT ![c].pc = "insert", ![c].filter = f]
    BY <2>1 DEF SubscribeCheck, At
  <2>3. CASE conn' = conn
    <3>1. Steady(c)' /\ \A g \in Filters : Owes(c, g)' <=> Owes(c, g)
      BY <1>0, <2>2, <2>3 DEF Steady, Owes, Subscribed, NotYetCounted
    <3>2. QED
      BY <2>2, <2>3, <3>1, TaskCountStep
  <2>4. CASE conn' = [conn EXCEPT ![c].pc = "insert", ![c].filter = f]
    <3> DEFINE task == [conn[c] EXCEPT !.pc = "insert", !.filter = f]
    <3>1. task.filter = f /\ task.pc = "insert"
      BY DEF Task
    <3>2. conn' = [conn EXCEPT ![c] = task]
      BY <2>4
    <3> HIDE DEF task
    <3>3. conn'[c].filter = f /\ conn'[c].pc = "insert" /\ \A d \in Conns : d # c => conn'[d] = conn[d]
      BY <3>1, <3>2
    <3>4. Steady(c)' /\ \A g \in Filters : Owes(c, g)' <=> Owes(c, g)
      BY <2>2, <2>4, <3>3 DEF Steady, Owes, Subscribed, NotYetCounted
    <3>5. QED
      BY <2>2, <3>3, <3>4, TaskCountStep
  <2>5. QED
    BY <2>2, <2>3, <2>4
<1>2. CASE SubscribeInsert(c)
  <2>1. /\ conn[c].pc = "insert" /\ UNCHANGED <<reload, early, counts, leaked>>
        /\ forwarders' = [forwarders EXCEPT ![c] = @ \cup {conn[c].filter}]
        /\ conn' = [conn EXCEPT ![c].pc =
                       IF conn[c].filter \in forwarders[c] THEN "ack" ELSE "recheck"]
    BY <1>2 DEF SubscribeInsert, Goto, At
  <2>2. /\ forwarders'[c] = forwarders[c] \cup {conn[c].filter}
        /\ \A d \in Conns : d # c => conn'[d] = conn[d] /\ forwarders'[d] = forwarders[d]
        /\ conn'[c].filter = conn[c].filter
        /\ conn'[c].pc = IF conn[c].filter \in forwarders[c] THEN "ack" ELSE "recheck"
    BY <2>1 DEF Task
  <2>3. Steady(c)' /\ \A g \in Filters : Owes(c, g)' <=> Owes(c, g)
    BY <1>0, <2>1, <2>2 DEF Steady, Owes, Subscribed, NotYetCounted
  <2>4. QED
    BY <2>1, <2>2, <2>3, TaskCountStep
<1>3. CASE SubscribeRecheck(c)
  <2>1. /\ conn[c].pc = "recheck" /\ UNCHANGED <<reload, early, counts, forwarders, leaked>>
        /\ conn' = [conn EXCEPT ![c].pc = "count"] \/ conn' = [conn EXCEPT ![c].pc = "withdraw"]
    BY <1>3 DEF SubscribeRecheck, Goto, At
  <2>2. /\ conn'[c].filter = conn[c].filter /\ conn'[c].pc \in {"count", "withdraw"}
        /\ \A d \in Conns : d # c => conn'[d] = conn[d] /\ forwarders'[d] = forwarders[d]
    BY <2>1 DEF Task
  <2>3. Steady(c)' /\ \A g \in Filters : Owes(c, g)' <=> Owes(c, g)
    BY <1>0, <2>1, <2>2 DEF Steady, Owes, Subscribed, NotYetCounted
  <2>4. QED
    BY <2>1, <2>2, <2>3, TaskCountStep
<1>4. CASE SubscribeWithdraw(c)
  <2>1. /\ conn[c].pc = "withdraw" /\ UNCHANGED <<reload, early, counts, leaked>>
        /\ forwarders' = [forwarders EXCEPT ![c] = @ \ {conn[c].filter}]
        /\ conn' = [conn EXCEPT ![c] = Idle]
    BY <1>4 DEF SubscribeWithdraw, Finish, At
  <2>2. /\ forwarders'[c] = forwarders[c] \ {conn[c].filter} /\ conn'[c].pc = "idle"
        /\ \A d \in Conns : d # c => conn'[d] = conn[d] /\ forwarders'[d] = forwarders[d]
    BY <2>1
  <2>3. Steady(c)' /\ \A g \in Filters : Owes(c, g)' <=> Owes(c, g)
    BY <2>1, <2>2 DEF Steady, Owes, Subscribed, NotYetCounted
  <2>4. QED
    BY <2>1, <2>2, <2>3, TaskCountStep
<1>5. CASE SubscribeCount(c)
  <2>0. PICK f \in Filters : f = conn[c].filter
    BY <1>5 DEF SubscribeCount, At, Handling
  <2>1. /\ conn[c].pc = "count" /\ UNCHANGED <<reload, early, forwarders, leaked>>
        /\ counts' = [counts EXCEPT ![f] = @ + 1]
        /\ conn' = [conn EXCEPT ![c].pc = "ack", ![c].flag = counts[conn[c].filter] = 0]
    BY <1>5, <2>0 DEF SubscribeCount, At
  <2>2. /\ conn'[c].filter = f /\ conn'[c].pc = "ack"
        /\ \A d \in Conns : d # c => conn'[d] = conn[d] /\ forwarders'[d] = forwarders[d]
    BY <2>0, <2>1 DEF Task
  <2>3. f \in forwarders[c] \cup early
    BY <1>0, <2>0, <2>1 DEF Steady
  <2>4. counts'[f] = counts[f] + 1 /\ \A g \in Filters : g # f => counts'[g] = counts[g]
    BY <2>1
  <2>5. Steady(c)' /\ (f \notin early => Owes(c, f)' /\ ~ Owes(c, f))
        /\ \A g \in Filters : g # f => (Owes(c, g)' <=> Owes(c, g))
    BY <2>0, <2>1, <2>2, <2>3 DEF Steady, Owes, Subscribed, NotYetCounted
  <2>6. QED
    BY <2>1, <2>2, <2>4, <2>5, TaskCountStep
<1>6. CASE SubscribeAck(c) \/ SubscribeTell(c)
  <2>1. /\ conn[c].pc = "ack" \/ conn[c].pc = "tell"
        /\ UNCHANGED <<reload, early, counts, forwarders, leaked>>
        /\ conn' = [conn EXCEPT ![c].pc = "tell"] \/ conn' = [conn EXCEPT ![c] = Idle]
    BY <1>6 DEF SubscribeAck, SubscribeTell, Goto, Finish, At
  <2>2. /\ conn'[c].pc \in {"idle", "tell"}
        /\ \A d \in Conns : d # c => conn'[d] = conn[d] /\ forwarders'[d] = forwarders[d]
    BY <2>1 DEF Task
  <2>3. Steady(c)' /\ \A g \in Filters : Owes(c, g)' <=> Owes(c, g)
    BY <2>1, <2>2 DEF Steady, Owes, Subscribed, NotYetCounted
  <2>4. QED
    BY <2>1, <2>2, <2>3, TaskCountStep
<1>7. QED
  BY <1>1, <1>2, <1>3, <1>4, <1>5, <1>6

\* handle_unsubscribe keeps owing until Interest::unsubscribe.
LEMMA UnsubscribeCounts ==
    ASSUME SubsInv, CountInv, NEW c \in Conns,
           \/ \E f \in Filters : UnsubscribeRemove(c, f)
           \/ UnsubscribeAck(c) \/ UnsubscribeCount(c) \/ UnsubscribeTell(c)
    PROVE  CountInv'
<1>0. Steady(c)
  BY DEF CountInv
<1> USE TaskFacts
<1>1. CASE \E f \in Filters : UnsubscribeRemove(c, f)
  <2>1. PICK f \in Filters : UnsubscribeRemove(c, f)
    BY <1>1
  <2>2. PICK had \in BOOLEAN :
            /\ had <=> f \in forwarders[c]
            /\ conn' = [conn EXCEPT ![c].pc = "unack", ![c].filter = f, ![c].flag = had]
    BY <2>1 DEF UnsubscribeRemove
  <2>3. /\ conn[c].pc = "idle" /\ UNCHANGED <<reload, early, counts, leaked>>
        /\ forwarders' = [forwarders EXCEPT ![c] = @ \ {f}]
    BY <2>1, Zenon DEF UnsubscribeRemove, At
  <2> DEFINE task == [conn[c] EXCEPT !.pc = "unack", !.filter = f, !.flag = had]
  <2>4. task.pc = "unack" /\ task.filter = f /\ (task.flag <=> had)
    BY DEF Task
  <2>5. conn' = [conn EXCEPT ![c] = task]
    <3>1. conn' = [conn EXCEPT ![c].pc = "unack", ![c].filter = f, ![c].flag = had]
      BY <2>2, Zenon
    <3>2. QED
      BY <3>1
  <2> HIDE DEF task
  <2>6. /\ conn'[c].pc = "unack" /\ conn'[c].filter = f /\ (conn'[c].flag <=> f \in forwarders[c])
    BY <2>2, <2>4, <2>5, TaskReplaced
  <2>7. /\ forwarders'[c] = forwarders[c] \ {f}
        /\ \A d \in Conns : d # c => conn'[d] = conn[d] /\ forwarders'[d] = forwarders[d]
    BY <2>3, <2>5
  <2>8. Steady(c)'
    BY <2>6, <2>7 DEF Steady
  <2>9. ASSUME NEW g \in Filters
        PROVE  Owes(c, g)' <=> Owes(c, g)
    <3>1. Owes(c, g) <=> g \in forwarders[c]
      BY <2>3 DEF Owes, Subscribed, NotYetCounted
    <3>2. Owes(c, g)' <=> (g \in forwarders'[c] \/ (f = g /\ conn'[c].flag))
      BY <2>6 DEF Owes, Subscribed, NotYetCounted
    <3>3. QED
      BY <2>6, <2>7, <3>1, <3>2
  <2>10. QED
    BY <2>3, <2>7, <2>8, <2>9, TaskCountStep
<1>2. CASE UnsubscribeAck(c)
  <2>1. /\ conn[c].pc = "unack" /\ UNCHANGED <<reload, early, counts, forwarders, leaked>>
        /\ \/ conn[c].flag /\ conn' = [conn EXCEPT ![c].pc = "uncount"]
           \/ ~ conn[c].flag /\ conn' = [conn EXCEPT ![c] = Idle]
    BY <1>2 DEF UnsubscribeAck, Goto, Finish, At
  <2>2. CASE conn[c].flag /\ conn' = [conn EXCEPT ![c].pc = "uncount"]
    <3>1. /\ conn'[c].pc = "uncount" /\ conn'[c].filter = conn[c].filter
          /\ conn'[c].flag = conn[c].flag
          /\ \A d \in Conns : d # c => conn'[d] = conn[d] /\ forwarders'[d] = forwarders[d]
      BY <2>1, <2>2 DEF Task
    <3>2. Steady(c)' /\ \A g \in Filters : Owes(c, g)' <=> Owes(c, g)
      BY <1>0, <2>1, <2>2, <3>1 DEF Steady, Owes, Subscribed, NotYetCounted
    <3>3. QED
      BY <2>1, <3>1, <3>2, TaskCountStep
  <2>3. CASE ~ conn[c].flag /\ conn' = [conn EXCEPT ![c] = Idle]
    <3>1. /\ conn'[c].pc = "idle"
          /\ \A d \in Conns : d # c => conn'[d] = conn[d] /\ forwarders'[d] = forwarders[d]
      BY <2>1, <2>3
    <3>2. Steady(c)' /\ \A g \in Filters : Owes(c, g)' <=> Owes(c, g)
      BY <1>0, <2>1, <2>3, <3>1 DEF Steady, Owes, Subscribed, NotYetCounted
    <3>3. QED
      BY <2>1, <3>1, <3>2, TaskCountStep
  <2>4. QED
    BY <2>1, <2>2, <2>3
<1>3. CASE UnsubscribeCount(c)
  <2>0. PICK f \in Filters : f = conn[c].filter
    BY <1>3 DEF UnsubscribeCount, At, Handling
  <2>1. /\ conn[c].pc = "uncount" /\ UNCHANGED <<reload, early, forwarders, leaked>>
        /\ counts' = Uncounted(f)
        /\ conn' = [conn EXCEPT ![c].pc = "untell"] \/ conn' = [conn EXCEPT ![c] = Idle]
    BY <1>3, <2>0 DEF UnsubscribeCount, At, Goto, Finish
  <2>2. /\ conn'[c].pc \in {"untell", "idle"}
        /\ \A d \in Conns : d # c => conn'[d] = conn[d] /\ forwarders'[d] = forwarders[d]
    BY <2>1 DEF Task
  <2>3. f \notin forwarders[c] /\ conn[c].flag
    BY <1>0, <2>0, <2>1 DEF Steady
  <2>4. counts'[f] = Uncounted(f)[f] /\ \A g \in Filters : g # f => counts'[g] = counts[g]
    BY <2>1, <2>3 DEF Uncounted
  <2>5. Steady(c)' /\ ~ Owes(c, f)' /\ Owes(c, f)
        /\ \A g \in Filters : g # f => (Owes(c, g)' <=> Owes(c, g))
    BY <2>0, <2>1, <2>2, <2>3 DEF Steady, Owes, Subscribed, NotYetCounted
  <2>6. QED
    BY <2>1, <2>2, <2>4, <2>5, TaskCountStep
<1>4. CASE UnsubscribeTell(c)
  <2>1. /\ conn[c].pc = "untell" /\ UNCHANGED <<reload, early, counts, forwarders, leaked>>
        /\ conn' = [conn EXCEPT ![c] = Idle]
    BY <1>4 DEF UnsubscribeTell, Finish, At
  <2>2. /\ conn'[c].pc = "idle"
        /\ \A d \in Conns : d # c => conn'[d] = conn[d] /\ forwarders'[d] = forwarders[d]
    BY <2>1
  <2>3. Steady(c)' /\ \A g \in Filters : Owes(c, g)' <=> Owes(c, g)
    BY <2>1, <2>2 DEF Steady, Owes, Subscribed, NotYetCounted
  <2>4. QED
    BY <2>1, <2>2, <2>3, TaskCountStep
<1>5. QED
  BY <1>1, <1>2, <1>3, <1>4

\* shut_down owes what it drained until it has counted it off, and leaves the
\* filter of an unacknowledged Unsubscribe counted.
LEMMA LifecycleCounts ==
    ASSUME SubsInv, CountInv, NEW c \in Conns,
           \/ Connect(c) \/ ShutDown(c) \/ DrainTell(c) \/ Disconnected(c)
           \/ \E f \in Filters : DrainCount(c, f)
    PROVE  CountInv'
<1>0. Steady(c)
  BY DEF CountInv
<1> USE TaskFacts
<1>1. CASE Connect(c) \/ Disconnected(c)
  <2>1. /\ conn[c].pc = "off" \/ (conn[c].pc = "drain" /\ conn[c].todo = {})
        /\ UNCHANGED <<reload, early, counts, forwarders, leaked>>
        /\ conn' = [conn EXCEPT ![c] = Idle] \/ conn' = [conn EXCEPT ![c] = Off]
    BY <1>1 DEF Connect, Disconnected, Finish, At
  <2>2. /\ conn'[c].pc \in {"idle", "off"}
        /\ \A d \in Conns : d # c => conn'[d] = conn[d] /\ forwarders'[d] = forwarders[d]
    BY <2>1
  <2>3. Steady(c)' /\ \A g \in Filters : Owes(c, g)' <=> Owes(c, g)
    BY <2>1, <2>2 DEF Steady, Owes, Subscribed, NotYetCounted
  <2>4. QED
    BY <2>1, <2>2, <2>3, TaskCountStep
<1>2. CASE ShutDown(c)
  <2> DEFINE task == [Idle EXCEPT !.pc = "drain", !.todo = forwarders[c]]
  <2>1. /\ conn[c].pc \in {"idle", "ack", "unack"}
        /\ UNCHANGED <<counts, reload, early>>
        /\ conn' = [conn EXCEPT ![c] = task]
        /\ forwarders' = [forwarders EXCEPT ![c] = {}]
        /\ leaked \subseteq leaked'
        /\ conn[c].pc = "unack" /\ conn[c].flag => conn[c].filter \in leaked'
    BY <1>2 DEF ShutDown, At
  <2>2. task.pc = "drain" /\ task.todo = forwarders[c]
    BY DEF Idle
  <2> HIDE DEF task
  <2>3. /\ conn'[c].pc = "drain" /\ conn'[c].todo = forwarders[c] /\ forwarders'[c] = {}
        /\ \A d \in Conns : d # c => conn'[d] = conn[d] /\ forwarders'[d] = forwarders[d]
    BY <2>1, <2>2
  <2>4. Steady(c)'
    BY <2>3 DEF Steady
  <2>5. ASSUME NEW g \in Filters
        PROVE  \/ Owes(c, g)' <=> Owes(c, g)
               \/ ~ Owes(c, g)' /\ Owes(c, g) /\ g \in leaked'
    <3>1. Owes(c, g)' <=> g \in forwarders[c]
      BY <2>3 DEF Owes, Subscribed, NotYetCounted
    <3>2. Owes(c, g) <=> \/ g \in forwarders[c]
                         \/ conn[c].pc = "unack" /\ conn[c].filter = g /\ conn[c].flag
      BY <2>1 DEF Owes, Subscribed, NotYetCounted
    <3>3. QED
      BY <2>1, <3>1, <3>2
  <2>6. QED
    BY <2>1, <2>3, <2>4, <2>5, TaskCountStep
<1>3. CASE DrainTell(c)
  <2>1. /\ conn[c].pc = "draintell" /\ UNCHANGED <<reload, early, counts, forwarders, leaked>>
        /\ conn' = [conn EXCEPT ![c].pc = "drain"]
    BY <1>3 DEF DrainTell, Goto, At
  <2>2. /\ conn'[c].pc = "drain" /\ conn'[c].todo = conn[c].todo
        /\ \A d \in Conns : d # c => conn'[d] = conn[d] /\ forwarders'[d] = forwarders[d]
    BY <2>1 DEF Task
  <2>3. Steady(c)' /\ \A g \in Filters : Owes(c, g)' <=> Owes(c, g)
    BY <2>1, <2>2 DEF Steady, Owes, Subscribed, NotYetCounted
  <2>4. QED
    BY <2>1, <2>2, <2>3, TaskCountStep
<1>4. ASSUME NEW f \in Filters, DrainCount(c, f)
      PROVE  CountInv'
  <2>1. /\ conn[c].pc = "drain" /\ f \in conn[c].todo /\ counts' = Uncounted(f)
        /\ UNCHANGED <<reload, early, forwarders, leaked>>
        /\ \/ conn' = [conn EXCEPT ![c].todo = @ \ {f}, ![c].filter = f, ![c].pc = "draintell"]
           \/ conn' = [conn EXCEPT ![c].todo = @ \ {f}, ![c].filter = f, ![c].pc = "drain"]
    BY <1>4 DEF DrainCount, At
  <2>2. /\ conn'[c].pc \in {"drain", "draintell"} /\ conn'[c].todo = conn[c].todo \ {f}
        /\ \A d \in Conns : d # c => conn'[d] = conn[d] /\ forwarders'[d] = forwarders[d]
    BY <2>1 DEF Task
  <2>3. counts'[f] = Uncounted(f)[f] /\ \A g \in Filters : g # f => counts'[g] = counts[g]
    BY <2>1 DEF Uncounted
  <2>4. forwarders[c] = {} /\ forwarders'[c] = {}
    BY <2>1
  <2>5. Steady(c)' /\ ~ Owes(c, f)' /\ Owes(c, f)
        /\ \A g \in Filters : g # f => (Owes(c, g)' <=> Owes(c, g))
    BY <2>1, <2>2, <2>4 DEF Steady, Owes, Subscribed, NotYetCounted
  <2>6. QED
    BY <2>1, <2>2, <2>3, <2>5, TaskCountStep
<1>5. QED
  BY <1>1, <1>2, <1>3, <1>4

\* reconcile_topic_acls owes what it took out of a connection's map in the
\* connection's place, if the connection had counted it.
LEMMA StopCounts ==
    ASSUME SubsInv, CountInv, NEW c \in Conns, ReloadConn(c)
    PROVE  CountInv'
<1> DEFINE stopped == {f \in forwarders[c] : ~ Permits(c, f)}
<1>1. /\ UNCHANGED <<counts, conn, leaked>> /\ reload.pc = "walk" /\ reload.stopped = {}
      /\ forwarders' = [forwarders EXCEPT ![c] = @ \ stopped]
      /\ reload' = [reload EXCEPT !.todo = @ \ {c}, !.stopped = stopped]
      /\ early' = early \cup {f \in stopped : NotYetCounted(c, f)}
      /\ conn[c].pc \notin {"drain", "draintell"}
  BY DEF ReloadConn
<1>2. stopped \subseteq forwarders[c] /\ forwarders[c] \subseteq Filters /\ Steady(c)
  BY TaskFacts DEF CountInv
<1> HIDE DEF stopped
<1>3. reload'.pc = "walk" /\ reload'.stopped = stopped
  BY <1>1 DEF SubsInv, SubscriptionsTypeOK
<1>4. /\ forwarders'[c] = forwarders[c] \ stopped
      /\ \A d \in Conns : d # c => forwarders'[d] = forwarders[d]
  BY <1>1, TaskFacts
<1>5. ASSUME NEW d \in Conns PROVE Steady(d)'
  <2>1. CASE d = c
    BY <1>1, <1>2, <1>4, <2>1 DEF Steady, NotYetCounted
  <2>2. CASE d # c
    BY <1>1, <1>4, <2>2 DEF CountInv, Steady
  <2>3. QED
    BY <2>1, <2>2
<1>6. ASSUME NEW f \in Filters \ early' PROVE Accounted(f)'
  <2>1. \A d \in Conns : d # c => (Owes(d, f)' <=> Owes(d, f))
    BY <1>1, <1>4 DEF Owes, Subscribed, NotYetCounted
  <2>2. Accounted(f) /\ ReloadOwes(f) = 0
    BY <1>1 DEF CountInv, ReloadOwes
  <2>3. CASE f \in stopped
    <3>1. Owes(c, f) /\ ~ Owes(c, f)'
      BY <1>1, <1>2, <1>4, <2>3 DEF Owes, Subscribed, NotYetCounted, Steady
    <3>2. /\ Cardinality(Owing(f)') = Cardinality(Owing(f)) - 1
          /\ Cardinality(Owing(f)) \in Nat
      BY <2>1, <3>1, OwingStep
    <3>3. ReloadOwes(f)' = 1
      BY <1>3, <2>3 DEF ReloadOwes
    <3>4. QED
      BY <1>1, <2>2, <3>2, <3>3 DEF Accounted
  <2>4. CASE f \notin stopped
    <3>1. Owes(c, f)' <=> Owes(c, f)
      BY <1>1, <1>4, <2>4 DEF Owes, Subscribed, NotYetCounted
    <3>2. Owing(f)' = Owing(f)
      BY <2>1, <3>1, OwingStep
    <3>3. ReloadOwes(f)' = 0
      BY <1>3, <2>4 DEF ReloadOwes
    <3>4. QED
      BY <1>1, <2>2, <3>2, <3>3 DEF Accounted
  <2>5. QED
    BY <2>3, <2>4
<1>7. QED
  BY <1>3, <1>5, <1>6 DEF CountInv

\* A reload that only moves on.
LEMMA ReloadKeepsCounts ==
    ASSUME SubsInv, CountInv, UNCHANGED <<forwarders, counts, conn, leaked, early>>,
           reload'.stopped = reload.stopped, reload'.pc = "idle" => reload.stopped = {}
    PROVE  CountInv'
<1>1. \A c \in Conns : Steady(c)'
  BY DEF CountInv, Steady
<1>2. ASSUME NEW f \in Filters \ early PROVE Accounted(f)'
  <2>1. Owing(f)' = Owing(f) /\ ReloadOwes(f)' = ReloadOwes(f)
    BY DEF Owing, Owes, Subscribed, NotYetCounted, ReloadOwes
  <2>2. QED
    BY <2>1 DEF CountInv, Accounted
<1>3. QED
  BY <1>1, <1>2 DEF CountInv

\* The reload counts off what it owes, and nothing else.
LEMMA ReloadCounts ==
    ASSUME SubsInv, CountInv, (\E a \in Acls : ReloadInstall(a)) \/ ReloadProceed
    PROVE  CountInv'
<1> DEFINE ReloadType == [pc : {"idle", "installed", "walk", "tell"}, todo : SUBSET Conns,
                          stopped : SUBSET Filters, filter : Filters \cup {NoFilter}]
<1>0. reload \in ReloadType /\ counts \in [Filters -> Nat]
  BY DEF SubsInv, SubscriptionsTypeOK
<1>1. ASSUME NEW a \in Acls, ReloadInstall(a)
      PROVE  CountInv'
  <2>1. /\ UNCHANGED <<forwarders, counts, conn, leaked, early>>
        /\ reload' = [reload EXCEPT !.pc = "installed"]
    BY <1>1 DEF ReloadInstall
  <2>2. reload'.pc = "installed" /\ reload'.stopped = reload.stopped
    BY <1>0, <2>1
  <2>3. QED
    BY <2>1, <2>2, ReloadKeepsCounts
<1>2. CASE ReloadSnapshot \/ ReloadTell
  <2>1. /\ UNCHANGED <<forwarders, counts, conn, leaked, early>>
        /\ \/ reload' = [reload EXCEPT !.pc = "walk", !.todo = {c \in Conns : ~ At(c, "off")}]
           \/ reload' = [reload EXCEPT !.pc = "walk"]
    BY <1>2 DEF ReloadSnapshot, ReloadTell
  <2>2. reload'.pc = "walk" /\ reload'.stopped = reload.stopped
    BY <1>0, <2>1
  <2>3. QED
    BY <2>1, <2>2, ReloadKeepsCounts
<1>3. CASE ReloadDone
  <2>1. /\ UNCHANGED <<forwarders, counts, conn, leaked, early>>
        /\ reload' = ReloadIdle /\ reload.stopped = {}
    BY <1>3 DEF ReloadDone
  <2>2. reload'.stopped = {}
    BY <2>1 DEF ReloadIdle
  <2>3. QED
    BY <2>1, <2>2, ReloadKeepsCounts
<1>4. ASSUME NEW f \in Filters, ReloadCount(f)
      PROVE  CountInv'
  <2>1. /\ UNCHANGED <<forwarders, conn, leaked, early>>
        /\ f \in reload.stopped /\ counts' = Uncounted(f)
        /\ \/ reload' = [reload EXCEPT !.stopped = @ \ {f}, !.filter = f, !.pc = "tell"]
           \/ reload' = [reload EXCEPT !.stopped = @ \ {f}, !.filter = f, !.pc = "walk"]
    BY <1>4 DEF ReloadCount
  <2>2. reload'.pc # "idle" /\ reload'.stopped = reload.stopped \ {f}
    <3>1. CASE reload' = [reload EXCEPT !.stopped = @ \ {f}, !.filter = f, !.pc = "tell"]
      BY <1>0, <3>1
    <3>2. CASE reload' = [reload EXCEPT !.stopped = @ \ {f}, !.filter = f, !.pc = "walk"]
      BY <1>0, <3>2
    <3>3. QED
      BY <2>1, <3>1, <3>2
  <2>3. \A c \in Conns : Steady(c)'
    BY <2>1 DEF CountInv, Steady
  <2>4. ASSUME NEW g \in Filters \ early PROVE Accounted(g)'
    <3>1. Owing(g)' = Owing(g)
      BY <2>1 DEF Owing, Owes, Subscribed, NotYetCounted
    <3>2. Cardinality(Owing(g)) \in Nat /\ counts[g] \in Nat
      BY <1>0, SubscriptionsAssumption, FS_Subset, FS_CardinalityType DEF Owing
    <3>3. Accounted(g)
      BY DEF CountInv
    <3>4. CASE g = f
      <4>1. ReloadOwes(g) = 1 /\ ReloadOwes(g)' = 0
        BY <2>1, <2>2, <3>4 DEF ReloadOwes
      <4>2. counts'[g] = IF counts[g] = 0 THEN 0 ELSE counts[g] - 1
        BY <1>0, <2>1, <3>4 DEF Uncounted
      <4>3. QED
        BY <2>1, <3>1, <3>2, <3>3, <4>1, <4>2 DEF Accounted
    <3>5. CASE g # f
      <4>1. ReloadOwes(g)' = ReloadOwes(g) /\ counts'[g] = counts[g]
        BY <1>0, <2>1, <2>2, <3>5 DEF ReloadOwes, Uncounted
      <4>2. QED
        BY <2>1, <3>1, <3>3, <4>1 DEF Accounted
    <3>6. QED
      BY <3>4, <3>5
  <2>5. QED
    BY <2>1, <2>2, <2>3, <2>4 DEF CountInv
<1>5. QED
  BY <1>1, <1>2, <1>3, <1>4, StopCounts DEF ReloadProceed

\* Every step keeps the counts.
LEMMA CountStepInv == SubsInv /\ CountInv /\ [SubscriptionsNext]_subsVars => CountInv'
<1> SUFFICES ASSUME SubsInv, CountInv, [SubscriptionsNext]_subsVars
             PROVE  CountInv'
  OBVIOUS
<1>1. ASSUME NEW c \in Conns,
             \/ Connect(c) \/ ShutDown(c) \/ ConnStep(c)
             \/ \E f \in Filters : SubscribeCheck(c, f) \/ UnsubscribeRemove(c, f)
      PROVE  CountInv'
  BY <1>1, SubscribeCounts, UnsubscribeCounts, LifecycleCounts DEF ConnStep
<1>2. CASE (\E a \in Acls : ReloadInstall(a)) \/ ReloadProceed
  BY <1>2, ReloadCounts
<1>3. CASE UNCHANGED subsVars
  <2>1. UNCHANGED <<forwarders, counts, conn, leaked, early>> /\ UNCHANGED reload
    BY <1>3 DEF subsVars
  <2>2. QED
    BY <2>1, ReloadKeepsCounts DEF CountInv
<1>4. QED
  BY <1>1, <1>2, <1>3 DEF SubscriptionsNext

\* Interest::subscribe and Interest::unsubscribe pair up whatever the order of
\* the tasks and whatever reloads take out: no connection's count is taken by
\* another or by a reload, and at rest nothing stays counted, but for a filter
\* that leaked or that a reload stopped before it was counted.
THEOREM InterestIsCounted == SubscriptionsSpec => []InterestCounted
<1>1. SubscriptionsInit => CountInv
  <2> SUFFICES ASSUME SubscriptionsInit PROVE CountInv
    OBVIOUS
  <2>1. \A f \in Filters : Owing(f) = {} /\ counts[f] = 0
    BY DEF SubscriptionsInit, Owing, Owes, Subscribed, NotYetCounted, Off, Idle
  <2>2. \A f \in Filters : Accounted(f)
    <3>1. reload.stopped = {}
      BY DEF SubscriptionsInit, ReloadIdle
    <3>2. Cardinality({}) = 0
      BY FS_EmptySet
    <3>3. \A f \in Filters : Cardinality(Owing(f)) = 0 /\ ReloadOwes(f) = 0
      BY <2>1, <3>1, <3>2 DEF ReloadOwes
    <3>4. QED
      BY <2>1, <3>3 DEF Accounted
  <2>3. \A c \in Conns : Steady(c)
    BY DEF SubscriptionsInit, Steady, Off, Idle
  <2>4. QED
    BY <2>2, <2>3 DEF CountInv, SubscriptionsInit, ReloadIdle
<1>2. SubsInv /\ CountInv => InterestCounted
  <2> SUFFICES ASSUME SubsInv, CountInv, NEW f \in Filters \ early
               PROVE  /\ counts[f] >= Cardinality({c \in Conns : Subscribed(c, f)})
                      /\ Quiet /\ f \notin leaked =>
                             counts[f] <= Cardinality({c \in Conns : f \in forwarders[c]})
    BY DEF InterestCounted
  <2>1. Accounted(f) /\ counts[f] \in Nat /\ ReloadOwes(f) \in Nat
    BY DEF CountInv, SubsInv, SubscriptionsTypeOK, ReloadOwes
  <2>2. IsFiniteSet(Owing(f)) /\ Cardinality(Owing(f)) \in Nat
    BY SubscriptionsAssumption, FS_Subset, FS_CardinalityType DEF Owing
  <2> DEFINE subscribers == {c \in Conns : Subscribed(c, f)}
  <2>3. Cardinality(subscribers) <= Cardinality(Owing(f)) /\ Cardinality(subscribers) \in Nat
    <3>1. subscribers \in SUBSET Owing(f)
      BY DEF Owing, Owes
    <3> HIDE DEF subscribers
    <3>2. QED
      BY <2>2, <3>1, FS_Subset, FS_CardinalityType
  <2>4. counts[f] >= Cardinality(subscribers)
    <3> HIDE DEF subscribers
    <3> QED BY <2>1, <2>2, <2>3 DEF Accounted
  <2>5. ASSUME Quiet, f \notin leaked
        PROVE  counts[f] <= Cardinality({c \in Conns : f \in forwarders[c]})
    <3>1. {c \in Conns : f \in forwarders[c]} = Owing(f)
      BY <2>5 DEF Quiet, Owing, Owes, Subscribed, NotYetCounted
    <3>2. ReloadOwes(f) = 0
      BY <2>5 DEF Quiet, CountInv, ReloadOwes
    <3>3. counts[f] = Cardinality(Owing(f)) + ReloadOwes(f)
      BY <2>1, <2>5 DEF Accounted
    <3>4. counts[f] = Cardinality(Owing(f))
      BY <2>2, <3>2, <3>3
    <3>5. counts[f] <= Cardinality(Owing(f))
      BY <2>1, <3>4
    <3>6. QED
      BY <3>1, <3>5, Zenon
  <2>6. QED
    BY <2>4, <2>5
<1>3. QED
  BY <1>1, <1>2, SubsInitInv, SubsStepInv, CountStepInv, PTL DEF SubscriptionsSpec

-----------------------------------------------------------------------------
(* Per-message acknowledgement: the forwarder of an "ack: true"             *)
(* subscription keeps its types and limits, its ledger balances, and it     *)
(* implements AckContract, for every number of messages, attempts and queue *)
(* places.                                                                  *)

\* Where the forwarder is in the stream: what it is about to send lies behind what it
\* delivered, and what it delivered before its receiver's position.
StreamInv ==
    /\ last <= position
    /\ pc = "start" => last = 0
    /\ pc \in {"new", "record"} => last < next /\ next <= upto /\ upto <= position

\* Where a message of which copies were sent can be.
SettledInv ==
    /\ \A m \in Msgs : copies[m] > 0 => m <= last \/ (pc \in {"record", "ended"} /\ m = next)
    /\ pc = "record" => copies[next] = 1
    /\ \A m \in pending \cup retired \cup gaveUp : m <= last
    /\ \A m \in pending : copies[m] > 0 /\ m \notin retired /\ m \notin gaveUp
    /\ resends \subseteq pending
    /\ resends # {} => pc = "sweep"

\* What travels over the connection was sent, and what the ack channel holds was
\* acknowledged.
WireInv ==
    /\ \A i \in 1 .. Len(outgoing) : copies[outgoing[i]] > 0
    /\ \A m \in received : copies[m] > 0
    /\ \A i \in 1 .. Len(acks) : acks[i] \in told

AckInv ==
    /\ AckTypeOK
    /\ StreamInv
    /\ SettledInv
    /\ LedgerBalances
    /\ WireInv

-----------------------------------------------------------------------------
LEMMA AckInitInv == AckInit => AckInv
<1> USE AckDeliveryAssumption DEF AckInit
<1> SUFFICES ASSUME AckInit PROVE AckInv
    OBVIOUS
<1>1. StreamTypes /\ StreamInv
    BY DEF StreamTypes, StreamInv
<1>2. TableTypes
    BY DEF TableTypes
<1>3. WireTypes
    BY DEF WireTypes
<1>4. HistoryTypes
    BY DEF HistoryTypes
<1>5. SettledInv /\ LedgerBalances /\ WireInv
    BY DEF SettledInv, LedgerBalances, WireInv, Owed
<1> QED
    BY <1>1, <1>2, <1>3, <1>4, <1>5 DEF AckInv, AckTypeOK

LEMMA StreamTypesPreserved == AckInv /\ [AckNext]_ackVars => StreamTypes'
<1> USE AckDeliveryAssumption DEF StreamTypes
<1> SUFFICES ASSUME AckInv, [AckNext]_ackVars PROVE StreamTypes'
    OBVIOUS
<1>0. StreamTypes /\ StreamInv
    BY DEF AckInv, AckTypeOK
<1>1. CASE Publish
    BY <1>0, <1>1 DEF Publish, forwarder
<1>2. CASE Receive
    BY <1>0, <1>2 DEF Receive, SendNew
<1>3. CASE Recover
    BY <1>0, <1>3 DEF Recover, RecoverFrom, Oldest, SendNew
<1>4. CASE Subscribe
    BY <1>0, <1>4 DEF Subscribe, Oldest, SendNew
<1>5. CASE Send
    BY <1>0, <1>5 DEF Send
<1>6. CASE Record
    BY <1>0, <1>6 DEF Record, StreamInv
<1>7. CASE Stop \/ Sweep \/ SweepDone
    BY <1>0, <1>7 DEF Stop, Sweep, SweepDone
<1>8. CASE UNCHANGED <<published, forwarder>>
    BY <1>0, <1>8 DEF forwarder
<1> QED
    BY <1>1, <1>2, <1>3, <1>4, <1>5, <1>6, <1>7, <1>8
       DEF AckNext, Selecting, Proceed, Read, Close, HandleAck, Expire, TakeAck, DeadLetter, Resend,
           ackVars

LEMMA TableTypesPreserved == AckInv /\ [AckNext]_ackVars => TableTypes'
<1> USE AckDeliveryAssumption DEF TableTypes
<1> SUFFICES ASSUME AckInv, [AckNext]_ackVars PROVE TableTypes'
    OBVIOUS
<1>0. TableTypes /\ StreamTypes /\ StreamInv
    BY DEF AckInv, AckTypeOK
<1>1. CASE Record
    <2>1. next \in Msgs
        BY <1>0, <1>1 DEF Record, StreamTypes, StreamInv, Msgs
    <2> QED
        BY <1>0, <1>1, <2>1 DEF Record, PutRecord, sweeping
<1>2. CASE TakeAck
    BY <1>0, <1>2 DEF TakeAck, sweeping
<1>3. CASE Sweep
    <2>1. \A m \in Due \ Exhausted : attempts[m] + 1 \in 0 .. MaxAttempts
        BY <1>0 DEF Due, Exhausted
    <2>2. attempts' \in [Msgs -> 0 .. MaxAttempts]
        BY <1>0, <1>3, <2>1 DEF Sweep
    <2>3. Exhausted \subseteq pending /\ Due = expired
        BY <1>0 DEF Due, Exhausted
    <2> QED
        BY <1>0, <1>3, <2>2, <2>3 DEF Sweep
<1>4. CASE Stop
    BY <1>0, <1>4 DEF Stop
<1>5. ASSUME NEW m \in Msgs, Expire(m) \/ DeadLetter(m) \/ Resend(m) PROVE TableTypes'
    BY <1>0, <1>5 DEF Expire, DeadLetter, Resend, table, sweeping
<1>6. CASE UNCHANGED <<table, sweeping>>
    BY <1>0, <1>6 DEF table, sweeping
<1> QED
    BY <1>1, <1>2, <1>3, <1>4, <1>5, <1>6
       DEF AckNext, Selecting, Proceed, Publish, Read, Close, HandleAck, Receive, Recover, Subscribe,
           Send, SweepDone, ackVars

LEMMA WireTypesPreserved == AckInv /\ [AckNext]_ackVars => WireTypes'
<1> USE AckDeliveryAssumption DEF WireTypes
<1> SUFFICES ASSUME AckInv, [AckNext]_ackVars PROVE WireTypes'
    OBVIOUS
<1>0. WireTypes /\ StreamTypes /\ StreamInv
    BY DEF AckInv, AckTypeOK
<1>1. CASE Read
    <2>1. Head(outgoing) \in Msgs /\ Tail(outgoing) \in Seq(Msgs)
          /\ Len(Tail(outgoing)) <= OutgoingCapacity
        BY <1>0, <1>1 DEF Read
    <2> QED
        BY <1>0, <1>1, <2>1 DEF Read
<1>2. ASSUME NEW m \in Msgs, HandleAck(m) PROVE WireTypes'
    <2>1. TriedSend(m) \in Seq(Msgs) /\ Len(TriedSend(m)) <= AckCapacity
        BY <1>0 DEF TriedSend
    <2> QED
        BY <1>0, <1>2, <2>1 DEF HandleAck
<1>3. CASE Close
    BY <1>0, <1>3 DEF Close, client
<1>4. CASE Send
    <2>1. next \in Msgs
        BY <1>0, <1>4 DEF Send, StreamTypes, StreamInv, Msgs
    <2> QED
        BY <1>0, <1>4, <2>1 DEF Send, HasRoom, client
<1>5. ASSUME NEW m \in Msgs, Resend(m) PROVE WireTypes'
    BY <1>0, <1>5 DEF Resend, HasRoom, client
<1>6. CASE TakeAck
    <2>1. Tail(acks) \in Seq(Msgs) /\ Len(Tail(acks)) <= AckCapacity
        BY <1>0, <1>6 DEF TakeAck
    <2> QED
        BY <1>0, <1>6, <2>1 DEF TakeAck, client
<1>7. CASE Stop
    BY <1>0, <1>7 DEF Stop, client
<1>8. CASE UNCHANGED <<outgoing, link, acks, client>>
    BY <1>0, <1>8 DEF client
<1> QED
    BY <1>1, <1>2, <1>3, <1>4, <1>5, <1>6, <1>7, <1>8
       DEF AckNext, Selecting, Proceed, Publish, Expire, Sweep, Receive, Recover, Subscribe, Record,
           SweepDone, DeadLetter, ackVars

\* A message is sent for the first time at "new", and one of the resends had an attempt
\* left when the sweep took it up.
LEMMA SendsInTime ==
    ASSUME AckInv
    PROVE  /\ pc \in {"new", "record"} => next \in Msgs
           /\ pc = "new" => \A n \in Msgs : n >= next => copies[n] = 0
           /\ \A m \in resends : copies[m] \in 1 .. MaxAttempts /\ copies[m] = attempts[m]
<1> USE AckDeliveryAssumption DEF AckInv, AckTypeOK
<1>1. pc \in {"new", "record"} => next \in Msgs
    BY DEF StreamTypes, StreamInv, Msgs
<1>2. ASSUME pc = "new", NEW n \in Msgs, n >= next PROVE copies[n] = 0
    <2>1. ~ (copies[n] > 0)
        BY <1>2 DEF StreamTypes, StreamInv, SettledInv, Msgs
    <2> QED
        BY <2>1 DEF HistoryTypes
<1>3. ASSUME NEW m \in resends PROVE copies[m] \in 1 .. MaxAttempts /\ copies[m] = attempts[m]
    <2>1. m \in pending /\ m \in Msgs /\ copies[m] > 0
        BY DEF SettledInv, TableTypes
    <2>2. copies[m] + 1 = attempts[m] + 1
        BY <2>1 DEF LedgerBalances, Owed
    <2> QED
        BY <2>1, <2>2 DEF TableTypes, HistoryTypes
<1> QED
    BY <1>1, <1>2, <1>3

LEMMA HistoryTypesPreserved == AckInv /\ [AckNext]_ackVars => HistoryTypes'
<1> USE AckDeliveryAssumption DEF HistoryTypes
<1> SUFFICES ASSUME AckInv, [AckNext]_ackVars PROVE HistoryTypes'
    OBVIOUS
<1>0. HistoryTypes /\ TableTypes
    BY DEF AckInv, AckTypeOK
<1>1. CASE Send
    <2>1. next \in Msgs /\ copies[next] = 0
        BY <1>0, <1>1, SendsInTime DEF Send, Msgs
    <2> QED
        BY <1>0, <1>1, <2>1 DEF Send, client
<1>2. ASSUME NEW m \in Msgs, Resend(m) PROVE HistoryTypes'
    <2>1. copies[m] \in 1 .. MaxAttempts
        BY <1>2, SendsInTime DEF Resend
    <2> QED
        BY <1>0, <1>2, <2>1 DEF Resend, client
<1>3. ASSUME NEW m \in Msgs, HandleAck(m) PROVE HistoryTypes'
    BY <1>0, <1>3 DEF HandleAck, history
<1>4. CASE TakeAck
    BY <1>0, <1>4 DEF TakeAck, TableTypes, client
<1>5. CASE Sweep
    BY <1>0, <1>5 DEF Sweep, Due, Exhausted, TableTypes, client
<1>6. CASE UNCHANGED <<told, history>>
    BY <1>0, <1>6 DEF history
<1> QED
    BY <1>1, <1>2, <1>3, <1>4, <1>5, <1>6
       DEF AckNext, Selecting, Proceed, Publish, Read, Close, Stop, Expire, Receive, Recover, Subscribe,
           Record, SweepDone, DeadLetter, ackVars, client
-----------------------------------------------------------------------------
LEMMA StreamPreserved == AckInv /\ [AckNext]_ackVars => StreamInv'
<1> USE AckDeliveryAssumption DEF StreamInv, StreamTypes
<1> SUFFICES ASSUME AckInv, [AckNext]_ackVars PROVE StreamInv'
    OBVIOUS
<1>0. StreamInv /\ StreamTypes
    BY DEF AckInv, AckTypeOK
<1>1. CASE Subscribe
    BY <1>0, <1>1 DEF Subscribe, SendNew, Oldest
<1>2. CASE Send
    BY <1>0, <1>2 DEF Send
<1>3. CASE Record
    BY <1>0, <1>3 DEF Record
<1>4. CASE Sweep \/ SweepDone \/ Stop
    BY <1>0, <1>4 DEF Sweep, SweepDone, Stop
<1>5. CASE Receive
    BY <1>0, <1>5 DEF Receive, SendNew
<1>6. CASE Recover
    BY <1>0, <1>6 DEF Recover, RecoverFrom, SendNew, Oldest
<1>7. CASE UNCHANGED forwarder
    BY <1>0, <1>7 DEF forwarder
<1> QED
    BY <1>1, <1>2, <1>3, <1>4, <1>5, <1>6, <1>7
       DEF AckNext, Selecting, Proceed, Publish, Read, Close, HandleAck, Expire, TakeAck, DeadLetter,
           Resend, ackVars

\* Steps that move the forwarder without sending, recording or settling anything.
LEMMA MovesSettleNothing ==
    ASSUME AckInv, UNCHANGED <<table, copies, retired, gaveUp, last>>, resends' = resends,
           pc \in {"start", "select"}, pc' \in {"new", "select"}
    PROVE  SettledInv' /\ LedgerBalances'
<1> USE DEF AckInv, table
<1>1. resends = {}
    BY DEF SettledInv
<1>2. SettledInv'
    BY <1>1 DEF SettledInv
<1>3. LedgerBalances'
    BY <1>1 DEF LedgerBalances, Owed
<1> QED
    BY <1>2, <1>3

LEMMA MovesAreSuch ==
    ASSUME Subscribe \/ Receive \/ Recover
    PROVE  /\ UNCHANGED <<table, copies, retired, gaveUp, last>> /\ resends' = resends
           /\ pc \in {"start", "select"} /\ pc' \in {"new", "select"}
BY DEF Subscribe, Receive, Recover, SendNew, sweeping, history

LEMMA SettledPreserved == AckInv /\ [AckNext]_ackVars => SettledInv'
<1> USE AckDeliveryAssumption DEF SettledInv
<1> SUFFICES ASSUME AckInv, [AckNext]_ackVars PROVE SettledInv'
    OBVIOUS
<1>0. SettledInv /\ StreamInv /\ StreamTypes /\ TableTypes /\ HistoryTypes
    BY DEF AckInv, AckTypeOK
<1>1. CASE Subscribe \/ Receive \/ Recover
    BY <1>1, MovesAreSuch, MovesSettleNothing
<1>2. CASE Send
    <2>1. next \in Msgs /\ copies[next] = 0 /\ last < next
        BY <1>0, <1>2, SendsInTime DEF Send, StreamInv, Msgs
    <2>2. copies'[next] = 1 /\ \A m \in Msgs : m # next => copies'[m] = copies[m]
        BY <1>0, <1>2, <2>1 DEF Send, HistoryTypes
    <2>3. \A m \in Msgs : copies'[m] > 0 => m <= last \/ m = next
        BY <1>0, <1>2, <2>2 DEF Send
    <2>4. \A m \in pending : m # next
        BY <1>0, <2>1 DEF TableTypes, StreamTypes, Msgs
    <2> QED
        BY <1>0, <1>2, <2>2, <2>3, <2>4 DEF Send, table, sweeping, TableTypes
<1>3. CASE Record
    <2>1. next \in Msgs /\ copies[next] = 1 /\ last < next
        BY <1>0, <1>3, SendsInTime DEF Record, StreamInv
    <2>2. next \notin retired /\ next \notin gaveUp
        BY <1>0, <2>1 DEF StreamTypes, Msgs
    <2>3. \A m \in Msgs : copies[m] > 0 => m <= next
        BY <1>0, <1>3, <2>1 DEF StreamTypes, Msgs
    <2>4. \A m \in pending \cup retired \cup gaveUp : m <= next
        BY <1>0, <2>1 DEF StreamTypes, TableTypes, HistoryTypes, Msgs
    <2>5. resends = {} /\ pc' \in {"select", "new"}
        BY <1>0, <1>3 DEF Record
    <2> QED
        BY <1>0, <1>3, <2>1, <2>2, <2>3, <2>4, <2>5 DEF Record, PutRecord, sweeping, history
<1>4. CASE TakeAck
    BY <1>0, <1>4 DEF TakeAck, forwarder, sweeping
<1>5. CASE Sweep
    <2>1. Exhausted \subseteq pending /\ Due \subseteq pending
        BY <1>0 DEF Due, Exhausted, TableTypes
    <2> QED
        BY <1>0, <1>5, <2>1 DEF Sweep
<1>6. ASSUME NEW m \in Msgs, Resend(m) PROVE SettledInv'
    <2>1. copies[m] \in 1 .. MaxAttempts /\ pc = "sweep"
        BY <1>6, SendsInTime DEF Resend
    <2>2. copies'[m] > 0 /\ \A n \in Msgs : n # m => copies'[n] = copies[n]
        BY <1>0, <1>6, <2>1 DEF Resend, HistoryTypes
    <2> QED
        BY <1>0, <1>6, <2>1, <2>2 DEF Resend, forwarder, table, TableTypes
<1>7. CASE SweepDone
    BY <1>0, <1>7 DEF SweepDone, table, sweeping, history
<1>8. CASE Stop
    BY <1>0, <1>8 DEF Stop, history
<1>9. CASE UNCHANGED <<forwarder, pending, resends, history>>
    BY <1>0, <1>9 DEF forwarder, history
<1> QED
    BY <1>1, <1>2, <1>3, <1>4, <1>5, <1>6, <1>7, <1>8, <1>9
       DEF AckNext, Selecting, Proceed, Publish, Read, Close, HandleAck, Expire, DeadLetter,
           ackVars, table, sweeping

LEMMA LedgerPreserved == AckInv /\ [AckNext]_ackVars => LedgerBalances'
<1> USE AckDeliveryAssumption DEF LedgerBalances, Owed
<1> SUFFICES ASSUME AckInv, [AckNext]_ackVars PROVE LedgerBalances'
    OBVIOUS
<1>0. LedgerBalances /\ SettledInv /\ StreamInv /\ StreamTypes /\ TableTypes /\ HistoryTypes
    BY DEF AckInv, AckTypeOK
<1>1. CASE Subscribe \/ Receive \/ Recover
    BY <1>1, MovesAreSuch, MovesSettleNothing
<1>2. CASE Send
    <2>1. next \in Msgs /\ last < next /\ next \notin pending
        BY <1>0, <1>2, SendsInTime DEF Send, StreamInv, SettledInv, StreamTypes, Msgs
    <2>2. \A m \in Msgs : m # next => copies'[m] = copies[m]
        BY <1>0, <1>2, <2>1 DEF Send, HistoryTypes
    <2> QED
        BY <1>0, <1>2, <2>1, <2>2 DEF Send, table, sweeping
<1>3. CASE Record
    <2>1. next \in Msgs /\ copies[next] = 1 /\ next \notin resends
        BY <1>0, <1>3, SendsInTime DEF Record, SettledInv
    <2>2. attempts'[next] = 0 /\ \A m \in Msgs : m # next => attempts'[m] = attempts[m]
        BY <1>0, <1>3, <2>1 DEF Record, PutRecord, TableTypes
    <2> QED
        BY <1>0, <1>3, <2>1, <2>2 DEF Record, PutRecord, sweeping, history
<1>4. CASE TakeAck
    BY <1>0, <1>4 DEF TakeAck, forwarder, sweeping
<1>5. CASE Sweep
    <2>1. resends = {} /\ Exhausted \subseteq Due /\ Due \subseteq Msgs
        BY <1>0, <1>5 DEF Sweep, SettledInv, Due, Exhausted, TableTypes
    <2>2. ASSUME NEW m \in Msgs, m \in pending' PROVE copies'[m] + Owed(m)' = attempts'[m] + 1
        <3>1. copies[m] = attempts[m] + 1 /\ copies' = copies /\ resends' = Due \ Exhausted
            BY <1>0, <1>5, <2>1, <2>2 DEF Sweep, TableTypes, HistoryTypes
        <3>2. attempts'[m] = IF m \in Due \ Exhausted THEN attempts[m] + 1 ELSE attempts[m]
            BY <1>5, <2>2 DEF Sweep
        <3> QED
            BY <1>0, <3>1, <3>2 DEF TableTypes, HistoryTypes
    <2>3. ASSUME NEW m \in Msgs, copies'[m] > 0
          PROVE  m \in pending' \/ m \in retired' \/ m \in gaveUp'
        BY <1>0, <1>5, <2>3 DEF Sweep
    <2> QED
        BY <2>2, <2>3
<1>6. ASSUME NEW m \in Msgs, Resend(m) PROVE LedgerBalances'
    <2>1. copies[m] = attempts[m] /\ m \in pending
        BY <1>0, <1>6, SendsInTime DEF Resend, SettledInv
    <2>2. copies'[m] = copies[m] + 1 /\ \A n \in Msgs : n # m => copies'[n] = copies[n]
        BY <1>0, <1>6 DEF Resend, HistoryTypes
    <2>3. m \notin resends' /\ \A n \in Msgs : n # m => (n \in resends' <=> n \in resends)
        BY <1>6 DEF Resend
    <2>4. UNCHANGED <<pc, next, pending, attempts, retired, gaveUp>>
        BY <1>6 DEF Resend, forwarder, table
    <2>5. \A n \in Msgs : n # m => copies'[n] + Owed(n)' = copies[n] + Owed(n)
        BY <2>2, <2>3
    <2>6. copies'[m] + Owed(m)' = attempts[m] + 1
        BY <1>0, <2>1, <2>2, <2>3 DEF TableTypes
    <2> QED
        BY <1>0, <2>1, <2>2, <2>4, <2>5, <2>6
<1>7. CASE SweepDone
    BY <1>0, <1>7 DEF SweepDone, table, sweeping, history
<1>8. CASE Stop
    BY <1>0, <1>8 DEF Stop
<1>9. CASE UNCHANGED <<forwarder, pending, attempts, resends, history>>
    BY <1>0, <1>9 DEF forwarder, history
<1> QED
    BY <1>1, <1>2, <1>3, <1>4, <1>5, <1>6, <1>7, <1>8, <1>9
       DEF AckNext, Selecting, Proceed, Publish, Read, Close, HandleAck, Expire, DeadLetter,
           ackVars, table, sweeping

LEMMA WirePreserved == AckInv /\ [AckNext]_ackVars => WireInv'
<1> USE AckDeliveryAssumption DEF WireInv, WireTypes
<1> SUFFICES ASSUME AckInv, [AckNext]_ackVars PROVE WireInv'
    OBVIOUS
<1>0. WireInv /\ WireTypes /\ HistoryTypes
    BY DEF AckInv, AckTypeOK
<1>1. CASE Read
    <2>1. outgoing' = Tail(outgoing) /\ Head(outgoing) = outgoing[1] /\ Len(outgoing) > 0
        BY <1>0, <1>1 DEF Read
    <2>2. \A i \in 1 .. Len(outgoing') : i + 1 \in 1 .. Len(outgoing) /\ outgoing'[i] = outgoing[i + 1]
        BY <1>0, <2>1
    <2> QED
        BY <1>0, <1>1, <2>1, <2>2 DEF Read, history
<1>2. ASSUME NEW m \in Msgs, HandleAck(m) PROVE WireInv'
    <2>1. \A i \in 1 .. Len(acks') : acks'[i] \in told'
        BY <1>0, <1>2 DEF HandleAck, TriedSend
    <2> QED
        BY <1>0, <1>2, <2>1 DEF HandleAck, history
<1>3. ASSUME NEW m \in Msgs, copies[m] >= 0, copies' = [copies EXCEPT ![m] = @ + 1],
             outgoing' = Append(outgoing, m), UNCHANGED <<received, acks, told>>
      PROVE  WireInv'
    <2>1. copies'[m] > 0 /\ \A n \in Msgs : copies[n] > 0 => copies'[n] > 0
        BY <1>0, <1>3 DEF HistoryTypes
    <2>2. \A i \in 1 .. Len(outgoing') : copies'[outgoing'[i]] > 0
        BY <1>0, <1>3, <2>1
    <2> QED
        BY <1>0, <1>3, <2>1, <2>2
<1>4. CASE Send
    <2>1. next \in Msgs /\ copies[next] >= 0
        BY <1>0, <1>4, SendsInTime DEF Send, HistoryTypes
    <2> QED
        BY <1>3, <1>4, <2>1 DEF Send, client
<1>5. ASSUME NEW m \in Msgs, Resend(m) PROVE WireInv'
    <2>1. copies[m] >= 0
        BY <1>0 DEF HistoryTypes
    <2> QED
        BY <1>3, <1>5, <2>1 DEF Resend, client
<1>6. CASE TakeAck
    <2>1. \A i \in 1 .. Len(acks') : i + 1 \in 1 .. Len(acks) /\ acks'[i] = acks[i + 1]
        BY <1>0, <1>6 DEF TakeAck
    <2> QED
        BY <1>0, <1>6, <2>1 DEF TakeAck, client
<1>7. CASE Stop
    BY <1>0, <1>7 DEF Stop, client, history
<1>8. CASE UNCHANGED <<outgoing, received, acks, told, copies>>
    BY <1>0, <1>8
<1> QED
    BY <1>1, <1>2, <1>4, <1>5, <1>6, <1>7, <1>8
       DEF AckNext, Selecting, Proceed, Publish, Close, Expire, Sweep, Receive, Recover, Subscribe,
           Record, SweepDone, DeadLetter, ackVars, client, history

LEMMA AckInvariant == AckSpec => []AckInv
<1>1. AckInv /\ [AckNext]_ackVars => AckInv'
    BY StreamTypesPreserved, TableTypesPreserved, WireTypesPreserved, HistoryTypesPreserved,
       StreamPreserved, SettledPreserved, LedgerPreserved, WirePreserved DEF AckInv, AckTypeOK
<1> QED
    BY AckInitInv, <1>1, PTL DEF AckSpec

\* Queues, channel and attempts keep within their limits (spawn_ack_forwarder,
\* PendingAcks::sweep) for every capacity and every number of messages.
THEOREM AckTypes == AckSpec => []AckTypeOK
BY AckInvariant, PTL DEF AckInv

\* A message that was sent is pending with exactly as many copies as its attempts say,
\* or acknowledged, or given up on: PendingAcks loses none and counts none twice.
THEOREM LedgerAlwaysBalances == AckSpec => []LedgerBalances
BY AckInvariant, PTL DEF AckInv

\* spawn_ack_forwarder implements what an "ack: true" subscription promises: each of its
\* steps is a step of AckContract or leaves the contract's variables alone.
THEOREM ForwarderImplementsContract == AckSpec => ImplementsContract
<1>1. AckInit => Contract!ContractInit
    BY DEF AckInit, Contract!ContractInit, Outcome
<1>2. AckInv /\ [AckNext]_ackVars => [Contract!ContractNext]_(Contract!contractVars)
    <2> SUFFICES ASSUME AckInv, [AckNext]_ackVars,
                        ~ UNCHANGED Contract!contractVars
                 PROVE  Contract!ContractNext
        BY DEF Contract!contractVars
    <2>0. AckTypeOK /\ SettledInv /\ LedgerBalances /\ WireInv
        BY DEF AckInv
    <2>1. CASE Send
        <3>1. next \in Msgs /\ \A n \in Msgs : n >= next => copies[n] = 0
            BY <2>1, SendsInTime DEF Send
        <3>2. copies[next] = 0
            BY <3>1, AckDeliveryAssumption DEF Msgs
        <3>3. copies' = [copies EXCEPT ![next] = 1]
            BY <2>1, <3>2 DEF Send
        <3> QED
            BY <2>1, <3>1, <3>3 DEF Send, client, Outcome, Contract!ContractNext, Contract!Deliver
    <2>2. ASSUME NEW m \in Msgs, Resend(m) PROVE Contract!ContractNext
        <3>1. copies[m] \in 1 .. MaxAttempts /\ m \notin retired \cup gaveUp
            BY <2>0, <2>2, SendsInTime DEF Resend, SettledInv
        <3>2. Outcome[m] = "open" /\ UNCHANGED Outcome
            BY <2>2, <3>1 DEF Resend, Outcome
        <3> QED
            BY <2>2, <3>1, <3>2 DEF Resend, client, Contract!ContractNext, Contract!Redeliver
    <2>3. ASSUME NEW m \in Msgs, HandleAck(m) PROVE Contract!ContractNext
        <3>1. copies[m] > 0
            BY <2>0, <2>3 DEF HandleAck, WireInv
        <3> QED
            BY <2>3, <3>1 DEF HandleAck, history, Outcome, Contract!ContractNext,
                              Contract!Acknowledge
    <2>4. CASE TakeAck
        <3> DEFINE m == Head(acks)
        <3>1. m \in Msgs /\ m \in told
            BY <2>0, <2>4 DEF TakeAck, AckTypeOK, WireTypes, WireInv
        <3>2. m \in pending
            BY <2>4 DEF TakeAck, client, Outcome, Contract!contractVars
        <3>3. retired' = retired \cup {m} /\ gaveUp' = gaveUp /\ m \notin gaveUp /\ m \notin retired
            BY <2>0, <2>4, <3>2 DEF TakeAck, SettledInv
        <3>4. Outcome[m] = "open" /\ Outcome' = [Outcome EXCEPT ![m] = "retired"]
            BY <3>1, <3>3 DEF Outcome
        <3> QED
            BY <2>4, <3>1, <3>4 DEF TakeAck, client, Contract!ContractNext, Contract!Retire
    <2>5. CASE Sweep
        <3>1. Exhausted \in SUBSET Msgs
            BY <2>0 DEF Exhausted, Due, AckTypeOK, TableTypes
        <3>2. ASSUME NEW m \in Exhausted PROVE copies[m] = 1 + MaxAttempts /\ Outcome[m] = "open"
            <4>1. m \in pending /\ m \in Msgs /\ attempts[m] = MaxAttempts /\ m \notin resends
                BY <2>0, <2>5, AckDeliveryAssumption
                   DEF Sweep, SettledInv, Exhausted, Due, AckTypeOK, TableTypes
            <4>2. copies[m] + 0 = attempts[m] + 1
                BY <2>0, <4>1 DEF LedgerBalances, Owed
            <4> QED
                BY <2>0, <4>1, <4>2, AckDeliveryAssumption
                   DEF SettledInv, AckTypeOK, HistoryTypes, Outcome
        <3>3. Outcome' = [m \in Msgs |-> IF m \in Exhausted THEN "given up" ELSE Outcome[m]]
            BY <2>5 DEF Sweep, Outcome
        <3> QED
            BY <2>5, <3>1, <3>2, <3>3 DEF Sweep, client, Contract!ContractNext, Contract!GiveUp
    <2> QED
        BY <2>1, <2>2, <2>3, <2>4, <2>5
           DEF AckNext, Selecting, Proceed, Publish, Read, Close, Stop, Expire, Receive, Recover,
               Subscribe, Record, SweepDone, DeadLetter, ackVars, client, history,
               Outcome, Contract!contractVars
<1> QED
    BY <1>1, <1>2, AckInvariant, PTL DEF AckSpec, ImplementsContract, Contract!ContractSpec
=============================================================================
