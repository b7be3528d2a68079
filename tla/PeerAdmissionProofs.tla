------------------------- MODULE PeerAdmissionProofs -------------------------
(***************************************************************************)
(* Proofs about PeerAdmission: the registry holds exactly what the guards  *)
(* stand for, a revoked link is notified unless it slipped through the     *)
(* reload's own window, and Membership agrees with the connections.        *)
(***************************************************************************)
EXTENDS PeerAdmission, TLAPS

PCs == {"off", "idle", "check", "mark", "reply", "register", "replace", "recheck",
        "refuse", "answer", "shut", "drop"}

SomePeer == Peers \cup {NoPeer}

ConnType == [pc : PCs, as : SomePeer, identity : SomePeer, reg : SomePeer, old : SomePeer]

\* The part of the type invariant that does not speak of the eviction queue.
AdmissionTypeOK ==
    /\ conn \in [Conns -> ConnType]
    /\ links \in [Conns -> [Peers -> Nat]]
    /\ up \subseteq Peers
    /\ reload \in [pc : {"idle", "scan", "notify"}, fresh : SUBSET Principals,
                   scanned : SUBSET Conns, todo : SUBSET Conns]

One(p, q) == IF p = q THEN 1 ELSE 0

\* Being admitted, a connection has somebody to be admitted as.
Admitting(c) ==
    conn[c].pc \in {"check", "mark", "reply", "register", "replace", "recheck"} =>
        conn[c].as \in Peers

\* While the old guard waits to be dropped, both guards have their entry.
Balance(c) ==
    /\ conn[c].pc = "off" => conn[c].reg = NoPeer
    /\ conn[c].pc = "replace" =>
          /\ conn[c].old \in Peers /\ conn[c].reg \in Peers
          /\ \A p \in Peers : links[c][p] = One(conn[c].reg, p) + One(conn[c].old, p)
    /\ conn[c].pc # "replace" =>
          \A p \in Peers : links[c][p] = One(conn[c].reg, p)

LinkInv == AdmissionTypeOK /\ \A c \in Conns : Admitting(c) /\ Balance(c)

-----------------------------------------------------------------------------
LEMMA LinkInit == PeerAdmissionInit => LinkInv
  BY PeerAdmissionAssumption
  DEF PeerAdmissionInit, LinkInv, AdmissionTypeOK, ConnType, PCs, SomePeer, Fresh,
      NoReload, Admitting, Balance, One

-----------------------------------------------------------------------------
\* A step that leaves the registry alone and moves one connection to a state
\* other than "replace" without touching its guard.
LEMMA LinkMove ==
  ASSUME LinkInv, NEW c \in Conns, NEW d \in ConnType, links' = links,
         conn' = [conn EXCEPT ![c] = d],
         conn[c].pc # "replace", d.pc \notin {"off", "replace"}, d.reg = conn[c].reg,
         d.pc \in {"check", "mark", "reply", "register", "recheck"} => d.as \in Peers,
         up' \subseteq Peers, reload' = reload
  PROVE  LinkInv'
  BY DEF LinkInv, AdmissionTypeOK, Admitting, Balance, ConnType

LEMMA UnregisteredType ==
  ASSUME links \in [Conns -> [Peers -> Nat]], NEW c \in Conns, NEW p \in Peers
  PROVE  Unregistered(c, p) \in [Conns -> [Peers -> Nat]]
<1> DEFINE n == IF links[c][p] = 0 THEN 0 ELSE links[c][p] - 1
<1>1. links[c] \in [Peers -> Nat] /\ links[c][p] \in Nat
  OBVIOUS
<1>2. n \in Nat
  BY <1>1
<1>3. Unregistered(c, p) = [links EXCEPT ![c] = [links[c] EXCEPT ![p] = n]]
  BY <1>1 DEF Unregistered
<1> HIDE DEF n
<1> QED BY <1>1, <1>2, <1>3

LEMMA LinkStep == LinkInv /\ [PeerAdmissionNext]_admissionVars => LinkInv'
<1> SUFFICES ASSUME LinkInv, [PeerAdmissionNext]_admissionVars PROVE LinkInv'
  OBVIOUS
<1> USE PeerAdmissionAssumption
<1>0. \A c \in Conns : conn[c] \in ConnType /\ links[c] \in [Peers -> Nat]
  BY DEF LinkInv, AdmissionTypeOK
<1>1. ASSUME NEW c \in Conns, NEW p \in Peers, Connect(c, p) PROVE LinkInv'
  <2>1. CASE c \in Dialed
    <3> DEFINE d == [conn[c] EXCEPT !.pc = "check", !.as = p]
    <3>1. conn' = [conn EXCEPT ![c] = d] /\ d \in ConnType
      <4>1. conn' = [conn EXCEPT ![c] = d]
        BY <1>1, <2>1 DEF Connect
      <4>2. conn[c] \in ConnType
        BY DEF LinkInv, AdmissionTypeOK
      <4>3. d \in ConnType
        BY <4>2 DEF ConnType, PCs, SomePeer
      <4> QED BY <4>1, <4>3
    <3>2. d.pc = "check" /\ d.reg = conn[c].reg /\ d.as \in Peers
      BY DEF LinkInv, AdmissionTypeOK, ConnType
    <3>3. links' = links /\ up' \subseteq Peers /\ reload' = reload /\ conn[c].pc # "replace"
      BY <1>1 DEF Connect, At, LinkInv, AdmissionTypeOK
    <3> HIDE DEF d
    <3> QED BY <3>1, <3>2, <3>3, LinkMove
  <2>2. CASE c \notin Dialed
    <3> DEFINE d == [conn[c] EXCEPT !.pc = "idle"]
    <3>1. conn' = [conn EXCEPT ![c] = d] /\ d \in ConnType
      <4>1. conn' = [conn EXCEPT ![c] = d]
        BY <1>1, <2>2 DEF Connect, Goto
      <4>2. conn[c] \in ConnType
        BY DEF LinkInv, AdmissionTypeOK
      <4>3. d \in ConnType
        BY <4>2 DEF ConnType, PCs, SomePeer
      <4> QED BY <4>1, <4>3
    <3>2. d.pc = "idle" /\ d.reg = conn[c].reg
      BY DEF LinkInv, AdmissionTypeOK, ConnType
    <3>3. links' = links /\ up' \subseteq Peers /\ reload' = reload /\ conn[c].pc # "replace"
      BY <1>1 DEF Connect, At, LinkInv, AdmissionTypeOK
    <3> HIDE DEF d
    <3> QED BY <3>1, <3>2, <3>3, LinkMove
  <2> QED BY <2>1, <2>2
<1>2. ASSUME NEW c \in Conns, NEW p \in Peers, Hello(c, p) PROVE LinkInv'
  <2> DEFINE d == [conn[c] EXCEPT !.pc = "check", !.as = p]
  <2>1. conn' = [conn EXCEPT ![c] = d] /\ d \in ConnType
    <3>1. conn' = [conn EXCEPT ![c] = d]
      BY <1>2 DEF Hello
    <3>2. conn[c] \in ConnType
      BY DEF LinkInv, AdmissionTypeOK
    <3>3. d \in ConnType
      BY <3>2 DEF ConnType, PCs, SomePeer
    <3> QED BY <3>1, <3>3
  <2>2. d.pc = "check" /\ d.reg = conn[c].reg /\ d.as \in Peers
    BY DEF LinkInv, AdmissionTypeOK, ConnType
  <2>3. links' = links /\ up' \subseteq Peers /\ reload' = reload /\ conn[c].pc # "replace"
    BY <1>2 DEF Hello, At, LinkInv, AdmissionTypeOK
  <2> HIDE DEF d
  <2> QED BY <2>1, <2>2, <2>3, LinkMove
<1>3. ASSUME NEW c \in Conns, AdmitCheck(c) PROVE LinkInv'
  <2>0. conn[c].as \in Peers /\ conn[c] \in ConnType
    BY <1>3 DEF AdmitCheck, At, LinkInv, Admitting, AdmissionTypeOK
  <2>3. links' = links /\ up' \subseteq Peers /\ reload' = reload /\ conn[c].pc # "replace"
    BY <1>3 DEF AdmitCheck, At, LinkInv, AdmissionTypeOK
  <2>4. CASE Permitted(c)
    <3> DEFINE d == [conn[c] EXCEPT !.pc = "mark", !.identity = conn[c].as]
    <3>1. conn' = [conn EXCEPT ![c] = d] /\ d \in ConnType
      <4>1. conn' = [conn EXCEPT ![c] = d]
        BY <1>3, <2>4 DEF AdmitCheck, Goto
      <4>2. conn[c] \in ConnType
        BY DEF LinkInv, AdmissionTypeOK
      <4>3. d \in ConnType
        BY <4>2, <2>0 DEF ConnType, PCs, SomePeer
      <4> QED BY <4>1, <4>3
    <3>2. d.pc = "mark" /\ d.reg = conn[c].reg /\ d.as \in Peers
      BY <2>0 DEF ConnType
    <3> HIDE DEF d
    <3> QED BY <3>1, <3>2, <2>3, LinkMove
  <2>5. CASE ~ Permitted(c)
    <3> DEFINE d == [conn[c] EXCEPT !.pc = "refuse"]
    <3>1. conn' = [conn EXCEPT ![c] = d] /\ d \in ConnType
      <4>1. conn' = [conn EXCEPT ![c] = d]
        BY <1>3, <2>5 DEF AdmitCheck, Goto
      <4>2. conn[c] \in ConnType
        BY DEF LinkInv, AdmissionTypeOK
      <4>3. d \in ConnType
        BY <4>2, <2>0 DEF ConnType, PCs, SomePeer
      <4> QED BY <4>1, <4>3
    <3>2. d.pc = "refuse" /\ d.reg = conn[c].reg
      BY <2>0 DEF ConnType
    <3> HIDE DEF d
    <3> QED BY <3>1, <3>2, <2>3, LinkMove
  <2> QED BY <2>4, <2>5
<1>4. ASSUME NEW c \in Conns, AdmitMark(c) PROVE LinkInv'
  <2>0. conn[c].as \in Peers /\ conn[c] \in ConnType
    BY <1>4 DEF AdmitMark, At, LinkInv, Admitting, AdmissionTypeOK
  <2>3. links' = links /\ up' \subseteq Peers /\ reload' = reload /\ conn[c].pc # "replace"
    BY <1>4, <2>0 DEF AdmitMark, MarkConnected, At, LinkInv, AdmissionTypeOK
  <2>1. PICK pc \in {"register", "reply"} : conn' = [conn EXCEPT ![c].pc = pc]
    BY <1>4 DEF AdmitMark, Goto
  <2> DEFINE d == [conn[c] EXCEPT !.pc = pc]
  <2>4. conn' = [conn EXCEPT ![c] = d] /\ d \in ConnType
    BY <2>1, <2>0 DEF LinkInv, AdmissionTypeOK, ConnType, PCs, SomePeer
  <2>2. d.pc \in {"register", "reply"} /\ d.reg = conn[c].reg /\ d.as \in Peers
    BY <2>0 DEF ConnType
  <2> HIDE DEF d
  <2> QED BY <2>4, <2>2, <2>3, LinkMove
<1>5. ASSUME NEW c \in Conns, AdmitReply(c) PROVE LinkInv'
  <2>0. conn[c].as \in Peers /\ conn[c] \in ConnType
    BY <1>5 DEF AdmitReply, At, LinkInv, Admitting, AdmissionTypeOK
  <2>3. links' = links /\ up' \subseteq Peers /\ reload' = reload /\ conn[c].pc # "replace"
    BY <1>5 DEF AdmitReply, At, LinkInv, AdmissionTypeOK
  <2>1. PICK pc \in {"register", "shut"} : conn' = [conn EXCEPT ![c].pc = pc]
    BY <1>5 DEF AdmitReply, Goto
  <2> DEFINE d == [conn[c] EXCEPT !.pc = pc]
  <2>4. conn' = [conn EXCEPT ![c] = d] /\ d \in ConnType
    BY <2>1, <2>0 DEF LinkInv, AdmissionTypeOK, ConnType, PCs, SomePeer
  <2>2. d.pc \in {"register", "shut"} /\ d.reg = conn[c].reg /\ d.as \in Peers
    BY <2>0 DEF ConnType
  <2> HIDE DEF d
  <2> QED BY <2>4, <2>2, <2>3, LinkMove
<1>6. ASSUME NEW c \in Conns, AdmitRegister(c) PROVE LinkInv'
  <2>0. conn[c].as \in Peers /\ conn[c] \in ConnType /\ conn[c].pc = "register"
    BY <1>6 DEF AdmitRegister, At, LinkInv, Admitting, AdmissionTypeOK
  <2>1. links' \in [Conns -> [Peers -> Nat]] /\ up' \subseteq Peers /\ reload' = reload
    BY <1>6, <2>0 DEF AdmitRegister, LinkInv, AdmissionTypeOK
  <2>2. conn' \in [Conns -> ConnType]
    BY <1>6, <2>0 DEF AdmitRegister, LinkInv, AdmissionTypeOK, ConnType, PCs, SomePeer
  <2>3. \A e \in Conns \ {c} : conn'[e] = conn[e] /\ links'[e] = links[e]
    BY <1>6 DEF AdmitRegister, LinkInv, AdmissionTypeOK
  <2>4. /\ \A p \in Peers : links[c][p] = One(conn[c].reg, p)
        /\ \A p \in Peers : links'[c][p] = links[c][p] + One(conn[c].as, p)
    BY <1>6, <2>0 DEF AdmitRegister, LinkInv, AdmissionTypeOK, Balance, One
  <2>5. /\ conn'[c].reg = conn[c].as
        /\ conn'[c].old = conn[c].reg
        /\ conn'[c].as \in Peers
        /\ conn'[c].pc = IF conn[c].reg = NoPeer THEN "recheck" ELSE "replace"
    BY <1>6, <2>0 DEF AdmitRegister, LinkInv, AdmissionTypeOK, ConnType
  <2>6. Admitting(c)' /\ Balance(c)'
    <3>1. CASE conn[c].reg = NoPeer
      BY <3>1, <2>0, <2>4, <2>5 DEF Admitting, Balance, One
    <3>2. CASE conn[c].reg # NoPeer
      BY <3>2, <2>0, <2>4, <2>5 DEF Admitting, Balance, One, ConnType, SomePeer
    <3> QED BY <3>1, <3>2
  <2>7. \A e \in Conns \ {c} : Admitting(e)' /\ Balance(e)'
    BY <2>3 DEF LinkInv, Admitting, Balance
  <2> QED BY <2>1, <2>2, <2>6, <2>7 DEF LinkInv, AdmissionTypeOK
<1>7. ASSUME NEW c \in Conns, AdmitReplace(c) PROVE LinkInv'
  <2>0. conn[c].as \in Peers /\ conn[c] \in ConnType /\ conn[c].pc = "replace"
        /\ conn[c].old \in Peers
    BY <1>7 DEF AdmitReplace, At, LinkInv, Admitting, Balance, AdmissionTypeOK
  <2>1. links' \in [Conns -> [Peers -> Nat]] /\ up' \subseteq Peers /\ reload' = reload
    BY <1>7, <2>0, UnregisteredType DEF AdmitReplace, LinkInv, AdmissionTypeOK
  <2>2. conn' \in [Conns -> ConnType]
    BY <1>7, <2>0 DEF AdmitReplace, LinkInv, AdmissionTypeOK, ConnType, PCs, SomePeer
  <2>3. \A e \in Conns \ {c} : conn'[e] = conn[e] /\ links'[e] = links[e]
    BY <1>7 DEF AdmitReplace, Unregistered, LinkInv, AdmissionTypeOK
  <2>4. /\ \A p \in Peers : links[c][p] = One(conn[c].reg, p) + One(conn[c].old, p)
        /\ \A p \in Peers : links'[c][p] =
              IF p = conn[c].old THEN IF links[c][p] = 0 THEN 0 ELSE links[c][p] - 1
              ELSE links[c][p]
    BY <1>7, <2>0 DEF AdmitReplace, Unregistered, LinkInv, AdmissionTypeOK, Balance
  <2>5. /\ conn'[c].reg = conn[c].reg
        /\ conn'[c].as \in Peers
        /\ conn'[c].pc = "recheck"
    BY <1>7, <2>0 DEF AdmitReplace, LinkInv, AdmissionTypeOK, ConnType
  <2>6. Admitting(c)' /\ Balance(c)'
    BY <2>0, <2>4, <2>5 DEF Admitting, Balance, One
  <2>7. \A e \in Conns \ {c} : Admitting(e)' /\ Balance(e)'
    BY <2>3 DEF LinkInv, Admitting, Balance
  <2> QED BY <2>1, <2>2, <2>6, <2>7 DEF LinkInv, AdmissionTypeOK
<1>8. ASSUME NEW c \in Conns, AdmitRecheck(c) PROVE LinkInv'
  <2> DEFINE d == [conn[c] EXCEPT !.pc = "idle"]
  <2>1. conn' = [conn EXCEPT ![c] = d] /\ d \in ConnType
    <3>1. conn' = [conn EXCEPT ![c] = d]
      BY <1>8 DEF AdmitRecheck, Goto
    <3>2. conn[c] \in ConnType
      BY DEF LinkInv, AdmissionTypeOK
    <3>3. d \in ConnType
      BY <3>2 DEF ConnType, PCs, SomePeer
    <3> QED BY <3>1, <3>3
  <2>2. d.pc = "idle" /\ d.reg = conn[c].reg
    BY DEF LinkInv, AdmissionTypeOK, ConnType
  <2>3. links' = links /\ up' \subseteq Peers /\ reload' = reload /\ conn[c].pc # "replace"
    BY <1>8 DEF AdmitRecheck, At, LinkInv, AdmissionTypeOK
  <2> HIDE DEF d
  <2> QED BY <2>1, <2>2, <2>3, LinkMove
<1>9. ASSUME NEW c \in Conns,
             ReadEnds(c) \/ Disconnect(c) \/ RefuseSent(c) \/ Answer(c) \/ AnswerSent(c)
      PROVE  LinkInv'
  <2>0. PICK pc \in {"shut", "answer", "idle"} : conn' = [conn EXCEPT ![c].pc = pc]
    BY <1>9 DEF ReadEnds, Disconnect, RefuseSent, Answer, AnswerSent, Goto
  <2> DEFINE d == [conn[c] EXCEPT !.pc = pc]
  <2>1. conn' = [conn EXCEPT ![c] = d] /\ d \in ConnType
    <3>1. conn' = [conn EXCEPT ![c] = d]
      BY <2>0
    <3>2. conn[c] \in ConnType
      BY DEF LinkInv, AdmissionTypeOK
    <3>3. d \in ConnType
      BY <3>2 DEF ConnType, PCs, SomePeer
    <3> QED BY <3>1, <3>3
  <2>2. d.pc \in {"shut", "answer", "idle"} /\ d.reg = conn[c].reg
    BY DEF LinkInv, AdmissionTypeOK, ConnType
  <2>3. links' = links /\ up' \subseteq Peers /\ reload' = reload /\ conn[c].pc # "replace"
    BY <1>9 DEF ReadEnds, Disconnect, RefuseSent, Answer, AnswerSent, At, LinkInv, AdmissionTypeOK
  <2> HIDE DEF d
  <2> QED BY <2>1, <2>2, <2>3, LinkMove
<1>10. ASSUME NEW c \in Conns, ShutDown(c) PROVE LinkInv'
  <2> DEFINE d == [conn[c] EXCEPT !.pc = "drop"]
  <2>1. conn' = [conn EXCEPT ![c] = d] /\ d \in ConnType
    <3>1. conn' = [conn EXCEPT ![c] = d]
      BY <1>10 DEF ShutDown, Goto
    <3>2. conn[c] \in ConnType
      BY DEF LinkInv, AdmissionTypeOK
    <3>3. d \in ConnType
      BY <3>2 DEF ConnType, PCs, SomePeer
    <3> QED BY <3>1, <3>3
  <2>2. d.pc = "drop" /\ d.reg = conn[c].reg
    BY DEF LinkInv, AdmissionTypeOK, ConnType
  <2>3. up' \subseteq Peers
    BY <1>10 DEF ShutDown, MarkDisconnected, LinkInv, AdmissionTypeOK
  <2>4. links' = links /\ reload' = reload /\ conn[c].pc # "replace"
    BY <1>10 DEF ShutDown, At
  <2> HIDE DEF d
  <2> QED BY <2>1, <2>2, <2>3, <2>4, LinkMove
<1>11. ASSUME NEW c \in Conns, Drop(c) PROVE LinkInv'
  <2>0. conn[c] \in ConnType /\ conn[c].pc = "drop"
        /\ \A p \in Peers : links[c][p] = One(conn[c].reg, p)
    BY <1>11 DEF Drop, At, LinkInv, Balance, AdmissionTypeOK
  <2>1. conn' \in [Conns -> ConnType] /\ conn'[c] = Fresh
    BY <1>11 DEF Drop, Fresh, LinkInv, AdmissionTypeOK, ConnType, PCs, SomePeer
  <2>2. links' \in [Conns -> [Peers -> Nat]]
    <3>1. CASE conn[c].reg = NoPeer
      BY <3>1, <1>11 DEF Drop, LinkInv, AdmissionTypeOK
    <3>2. CASE conn[c].reg # NoPeer
      BY <3>2, <2>0, <1>11, UnregisteredType
      DEF Drop, LinkInv, AdmissionTypeOK, ConnType, SomePeer
    <3> QED BY <3>1, <3>2
  <2>3. up' \subseteq Peers /\ reload' \in [pc : {"idle", "scan", "notify"},
            fresh : SUBSET Principals, scanned : SUBSET Conns, todo : SUBSET Conns]
    BY <1>11 DEF Drop, LinkInv, AdmissionTypeOK
  <2>4. \A e \in Conns \ {c} : conn'[e] = conn[e] /\ links'[e] = links[e]
    BY <1>11 DEF Drop, Unregistered, LinkInv, AdmissionTypeOK
  <2>5. \A p \in Peers : links'[c][p] = 0
    <3>1. CASE conn[c].reg = NoPeer
      BY <3>1, <1>11, <2>0 DEF Drop, One
    <3>2. CASE conn[c].reg # NoPeer
      BY <3>2, <1>11, <2>0 DEF Drop, Unregistered, One, LinkInv, AdmissionTypeOK
    <3> QED BY <3>1, <3>2
  <2>6. Admitting(c)' /\ Balance(c)'
    BY <2>1, <2>5 DEF Admitting, Balance, One, Fresh
  <2>7. \A e \in Conns \ {c} : Admitting(e)' /\ Balance(e)'
    BY <2>4 DEF LinkInv, Admitting, Balance
  <2> QED BY <2>1, <2>2, <2>3, <2>6, <2>7 DEF LinkInv, AdmissionTypeOK
<1>12. ASSUME links' = links, conn' = conn, up' = up,
              reload' \in [pc : {"idle", "scan", "notify"}, fresh : SUBSET Principals,
                           scanned : SUBSET Conns, todo : SUBSET Conns]
       PROVE  LinkInv'
  BY <1>12 DEF LinkInv, AdmissionTypeOK, Admitting, Balance
<1>13. ASSUME NEW list \in AllowLists, ReloadBegin(list) PROVE LinkInv'
  BY <1>12, <1>13 DEF ReloadBegin, LinkInv, AdmissionTypeOK
<1>14. ASSUME ReloadScan \/ ReloadInstall \/ \E c \in Conns : ReloadNotify(c) PROVE LinkInv'
  <2>1. CASE ReloadScan
    BY <1>12, <2>1 DEF ReloadScan, LinkInv, AdmissionTypeOK
  <2>2. CASE ReloadInstall
    BY <1>12, <2>2 DEF ReloadInstall, NoReload
  <2>3. CASE \E c \in Conns : ReloadNotify(c)
    <3>1. PICK c \in Conns : ReloadNotify(c)
      BY <2>3
    <3>2. links' = links /\ conn' = conn /\ up' = up
          /\ reload' = [reload EXCEPT !.todo = @ \ {c}]
      BY <3>1 DEF ReloadNotify
    <3>3. reload' \in [pc : {"idle", "scan", "notify"}, fresh : SUBSET Principals,
                       scanned : SUBSET Conns, todo : SUBSET Conns]
      BY <3>2 DEF LinkInv, AdmissionTypeOK
    <3> QED BY <3>2, <3>3, <1>12
  <2> QED BY <1>14, <2>1, <2>2, <2>3
<1>15. CASE UNCHANGED admissionVars
  BY <1>12, <1>15 DEF admissionVars, LinkInv, AdmissionTypeOK
<1> QED
  BY <1>1, <1>2, <1>3, <1>4, <1>5, <1>6, <1>7, <1>8, <1>9, <1>10, <1>11, <1>13, <1>14,
     <1>15 DEF PeerAdmissionNext, Proceed, Sent, ReloadProceed

LEMMA LinkInvariant == PeerAdmissionSpec => []LinkInv
<1>1. PeerAdmissionInit => LinkInv
  BY LinkInit
<1>2. LinkInv /\ [PeerAdmissionNext]_admissionVars => LinkInv'
  BY LinkStep
<1> QED BY <1>1, <1>2, PTL DEF PeerAdmissionSpec

\* The registry of peer links never leaks an entry and never loses one: each
\* connection has exactly the entry its guard stands for (PeerLinks).
THEOREM RegistryIsExact == PeerAdmissionSpec => []LinksExact
<1>1. LinkInv => LinksExact
  BY DEF LinkInv, Balance, LinksExact, One
<1> QED BY <1>1, LinkInvariant, PTL
-----------------------------------------------------------------------------
(* Revocation.                                                              *)

Unsettled == {"replace", "recheck", "shut", "drop"}

\* A settled link that the installed list does not permit was notified or
\* slipped through.  While a reload notifies, every link it scanned and does
\* not permit is notified or waits to be, and none of them has gone; a settled
\* link it did not scan notified itself or slipped through.
Caught(c) ==
    /\ Linked(c) /\ conn[c].pc \notin Unsettled /\ ~ Permitted(c) => c \in notified \cup slipped
    /\ /\ reload.pc = "notify" /\ c \in reload.scanned
       /\ Linked(c) /\ conn[c].pc \notin {"shut", "drop"} /\ PrincipalOf[c] \notin reload.fresh
       => c \in notified \cup reload.todo
    /\ reload.pc = "notify" /\ c \in reload.scanned => Linked(c)
    /\ /\ reload.pc = "notify" /\ c \notin reload.scanned
       /\ Linked(c) /\ conn[c].pc \notin Unsettled /\ PrincipalOf[c] \notin reload.fresh
       => c \in notified \cup slipped

RevocationInv == \A c \in Conns : Caught(c)

\* A connection is in the registry exactly while it has a guard.
GuardsAreLinks == \A c \in Conns : Linked(c) <=> conn[c].reg # NoPeer

LEMMA GuardIsLink == LinkInv => GuardsAreLinks
<1> SUFFICES ASSUME LinkInv, NEW c \in Conns
             PROVE  Linked(c) <=> conn[c].reg # NoPeer
  BY DEF GuardsAreLinks
<1>1. /\ conn[c] \in ConnType /\ NoPeer \notin Peers
      /\ conn[c].reg \in SomePeer
  BY PeerAdmissionAssumption DEF LinkInv, AdmissionTypeOK, ConnType
<1>2. CASE conn[c].pc = "replace"
  <2>1. \A p \in Peers : links[c][p] = One(conn[c].reg, p) + One(conn[c].old, p)
    BY <1>2 DEF LinkInv, Balance
  <2>2. conn[c].reg \in Peers
    BY <1>2 DEF LinkInv, Balance
  <2>3. links[c][conn[c].reg] > 0
    BY <2>1, <2>2 DEF One
  <2> QED BY <1>1, <2>2, <2>3 DEF Linked
<1>3. CASE conn[c].pc # "replace"
  <2>1. \A p \in Peers : links[c][p] = One(conn[c].reg, p)
    BY <1>3 DEF LinkInv, Balance
  <2>2. CASE conn[c].reg = NoPeer
    <3>1. \A p \in Peers : links[c][p] = 0
      BY <1>1, <2>1, <2>2 DEF One
    <3> QED BY <3>1, <2>2 DEF Linked
  <2>3. CASE conn[c].reg \in Peers
    <3>1. links[c][conn[c].reg] = 1
      BY <2>1, <2>3 DEF One
    <3> QED BY <1>1, <3>1, <2>3 DEF Linked
  <2> QED BY <1>1, <2>2, <2>3 DEF SomePeer
<1> QED BY <1>2, <1>3

LEMMA RevocationStep ==
  LinkInv /\ LinkInv' /\ RevocationInv /\ [PeerAdmissionNext]_admissionVars => RevocationInv'
<1> SUFFICES ASSUME LinkInv, LinkInv', RevocationInv, [PeerAdmissionNext]_admissionVars,
                    NEW e \in Conns
             PROVE  Caught(e)'
  BY DEF RevocationInv
<1> USE PeerAdmissionAssumption
<1>00. GuardsAreLinks /\ GuardsAreLinks'
  BY GuardIsLink, PTL
<1>0. /\ Caught(e)
      /\ conn \in [Conns -> ConnType] /\ conn' \in [Conns -> ConnType]
      /\ conn[e].pc = "off" => ~ Linked(e)
      /\ conn'[e].pc = "off" => ~ Linked(e)'
  <2>1. Caught(e)
    BY DEF RevocationInv
  <2>2. conn \in [Conns -> ConnType] /\ conn' \in [Conns -> ConnType]
    BY DEF LinkInv, AdmissionTypeOK
  <2>3. /\ conn[e].pc = "off" => conn[e].reg = NoPeer
        /\ conn'[e].pc = "off" => conn'[e].reg = NoPeer
    BY DEF LinkInv, Balance
  <2>4. (Linked(e) <=> conn[e].reg # NoPeer) /\ (Linked(e)' <=> conn'[e].reg # NoPeer)
    BY <1>00 DEF GuardsAreLinks
  <2> QED BY <2>1, <2>2, <2>3, <2>4
<1>1. ASSUME NEW c \in Conns, NEW p \in Peers, Connect(c, p) PROVE Caught(e)'
  <2>1. CASE e = c
    <3>1. ~ Linked(e) /\ ~ Linked(e)' /\ reload' = reload
      BY <1>0, <1>1, <2>1 DEF Connect, At, Linked
    <3> QED BY <3>1, <1>0 DEF Caught
  <2>2. CASE e # c
    <3>1. conn'[e] = conn[e]
      BY <1>0, <1>1, <2>2 DEF Connect, Goto
    <3> QED BY <3>1, <1>0, <1>1, <2>2 DEF Connect, Caught, Linked, Permitted
  <2> QED BY <2>1, <2>2
<1>2. ASSUME NEW c \in Conns,
             (\E p \in Peers : Hello(c, p)) \/ AdmitCheck(c) \/ AdmitMark(c) \/ AdmitReply(c)
             \/ RefuseSent(c) \/ Answer(c) \/ AnswerSent(c) \/ ReadEnds(c) \/ ShutDown(c)
      PROVE  Caught(e)'
  <2>1. /\ UNCHANGED <<allowed, links, notified, reload, slipped>>
        /\ conn'[e].pc = conn[e].pc \/ conn'[e].pc \in {"shut", "drop"}
           \/ conn[e].pc \notin Unsettled
    BY <1>0, <1>2 DEF Hello, AdmitCheck, AdmitMark, AdmitReply, RefuseSent, Answer, AnswerSent,
                      ReadEnds, ShutDown, At, Goto, Unsettled, ConnType
  <2> QED BY <1>0, <2>1 DEF Caught, Linked, Permitted, Unsettled
<1>3. ASSUME NEW c \in Conns, Disconnect(c) PROVE Caught(e)'
  <2>1. CASE e = c
    <3>1. conn'[e].pc = "shut" /\ reload' = reload /\ (Linked(e) <=> Linked(e)')
      BY <1>0, <1>3, <2>1 DEF Disconnect, Goto, ConnType, Linked
    <3> QED BY <3>1, <1>0 DEF Caught, Unsettled
  <2>2. CASE e # c
    <3>1. conn'[e] = conn[e]
      BY <1>0, <1>3, <2>2 DEF Disconnect, Goto
    <3> QED BY <3>1, <1>0, <1>3, <2>2 DEF Disconnect, Caught, Linked, Permitted
  <2> QED BY <2>1, <2>2
<1>4. ASSUME NEW c \in Conns, AdmitRegister(c) \/ AdmitReplace(c) PROVE Caught(e)'
  <2>1. UNCHANGED <<allowed, notified, reload, slipped>>
    BY <1>4 DEF AdmitRegister, AdmitReplace
  <2>2. CASE e # c
    <3>1. conn'[e] = conn[e] /\ links'[e] = links[e]
      BY <1>0, <1>4, <2>2
      DEF AdmitRegister, AdmitReplace, Unregistered, LinkInv, AdmissionTypeOK
    <3> QED BY <3>1, <2>1, <1>0 DEF Caught, Linked, Permitted
  <2>3. CASE e = c
    <3>1. conn'[e].pc \in {"replace", "recheck"}
      BY <1>0, <1>4, <2>3 DEF AdmitRegister, AdmitReplace, ConnType
    <3>2. conn[e].pc \in {"register", "replace"}
      BY <1>4, <2>3 DEF AdmitRegister, AdmitReplace, At
    <3>3. conn'[e].reg # NoPeer
      BY <1>0, <1>4, <2>3 DEF AdmitRegister, AdmitReplace, At, LinkInv, Admitting, Balance, ConnType
    <3>4. Linked(e)'
      BY <3>3, <1>00 DEF GuardsAreLinks
    <3> QED BY <3>1, <3>2, <3>4, <2>1, <1>0 DEF Caught, Permitted, Unsettled
  <2> QED BY <2>2, <2>3
<1>5. ASSUME NEW c \in Conns, AdmitRecheck(c) PROVE Caught(e)'
  <2>1. CASE e # c
    <3>1. conn'[e] = conn[e]
      BY <1>0, <1>5, <2>1 DEF AdmitRecheck, Goto
    <3>2. /\ UNCHANGED <<allowed, reload, links>>
          /\ e \in notified <=> e \in notified'
          /\ e \in slipped <=> e \in slipped'
      BY <1>5, <2>1 DEF AdmitRecheck
    <3> QED BY <3>1, <3>2, <1>0 DEF Caught, Linked, Permitted
  <2>2. CASE e = c
    <3>1. conn'[e].pc = "idle" /\ conn[e].pc = "recheck"
      BY <1>0, <1>5, <2>2 DEF AdmitRecheck, At, Goto, ConnType
    <3>2. UNCHANGED <<allowed, reload, links>>
      BY <1>5 DEF AdmitRecheck
    <3>3. CASE Permitted(e)
      <4>1. notified' = notified /\
            (reload.pc = "notify" /\ e \notin reload.scanned /\ PrincipalOf[e] \notin reload.fresh
             => e \in slipped')
        BY <1>5, <2>2, <3>3 DEF AdmitRecheck
      <4> QED BY <4>1, <3>1, <3>2, <3>3, <1>0 DEF Caught, Linked, Permitted, Unsettled
    <3>4. CASE ~ Permitted(e)
      <4>1. e \in notified'
        BY <1>5, <2>2, <3>4 DEF AdmitRecheck
      <4> QED BY <4>1, <3>2, <1>0 DEF Caught, Linked
    <3> QED BY <3>3, <3>4
  <2> QED BY <2>1, <2>2
<1>6. ASSUME NEW c \in Conns, Drop(c) PROVE Caught(e)'
  <2>1. CASE e = c
    <3>1. conn'[e].pc = "off"
      BY <1>0, <1>6, <2>1 DEF Drop, Fresh
    <3>2. e \notin reload'.scanned
      BY <1>6, <2>1 DEF Drop, LinkInv, AdmissionTypeOK
    <3> QED BY <3>1, <3>2, <1>0 DEF Caught
  <2>2. CASE e # c
    <3>1. conn'[e] = conn[e] /\ links'[e] = links[e]
      BY <1>0, <1>6, <2>2 DEF Drop, Unregistered, LinkInv, AdmissionTypeOK
    <3>2. /\ allowed' = allowed /\ reload'.pc = reload.pc /\ reload'.fresh = reload.fresh
          /\ e \in reload'.scanned <=> e \in reload.scanned
          /\ e \in reload'.todo <=> e \in reload.todo
          /\ e \in notified <=> e \in notified'
          /\ e \in slipped <=> e \in slipped'
      BY <1>6, <2>2 DEF Drop, LinkInv, AdmissionTypeOK
    <3> QED BY <3>1, <3>2, <1>0 DEF Caught, Linked, Permitted
  <2> QED BY <2>1, <2>2
<1>7. ASSUME NEW list \in AllowLists, ReloadBegin(list) PROVE Caught(e)'
  <2>1. UNCHANGED <<allowed, conn, links, notified, slipped>> /\ reload'.pc = "scan"
    BY <1>7 DEF ReloadBegin, LinkInv, AdmissionTypeOK
  <2> QED BY <2>1, <1>0 DEF Caught, Linked, Permitted
<1>8. CASE ReloadScan
  <2>1. /\ UNCHANGED <<allowed, conn, links, notified, slipped>>
        /\ reload'.fresh = reload.fresh
        /\ e \in reload'.scanned <=> Linked(e)
        /\ Linked(e) /\ PrincipalOf[e] \notin reload.fresh => e \in reload'.todo
    BY <1>8 DEF ReloadScan, LinkInv, AdmissionTypeOK
  <2> QED BY <2>1, <1>0 DEF Caught, Linked, Permitted
<1>9. ASSUME NEW c \in Conns, ReloadNotify(c) PROVE Caught(e)'
  <2>1. /\ UNCHANGED <<allowed, conn, links>>
        /\ reload'.pc = reload.pc /\ reload'.fresh = reload.fresh
        /\ reload'.scanned = reload.scanned
        /\ e \in notified => e \in notified'
        /\ e \in reload.todo => e \in reload'.todo \/ e \in notified'
        /\ e \in slipped => e \in slipped' \/ e \in notified'
    BY <1>9 DEF ReloadNotify, LinkInv, AdmissionTypeOK
  <2> QED BY <2>1, <1>0 DEF Caught, Linked, Permitted
<1>10. CASE ReloadInstall
  <2>1. /\ UNCHANGED <<conn, links, notified, slipped>>
        /\ allowed' = reload.fresh /\ reload'.pc = "idle"
        /\ reload.pc = "notify" /\ reload.todo = {}
    BY <1>10 DEF ReloadInstall, NoReload
  <2> QED BY <2>1, <1>0 DEF Caught, Linked, Permitted, Unsettled
<1>11. CASE UNCHANGED admissionVars
  BY <1>0, <1>11 DEF admissionVars, Caught, Linked, Permitted
<1> QED
  BY <1>1, <1>2, <1>3, <1>4, <1>5, <1>6, <1>7, <1>8, <1>9, <1>10, <1>11
  DEF PeerAdmissionNext, Proceed, Sent, ReloadProceed

\* No revoked link is overlooked, except in the one window the code leaves
\* open: between disconnect_unless and the allowed_peers.set after it
\* (spawn_reload_applier, admit_initial_peer, handle_hello).
THEOREM RevocationHasOneWindow == PeerAdmissionSpec => []RevokedIsNotified
<1>1. PeerAdmissionInit => RevocationInv
  <2> SUFFICES ASSUME PeerAdmissionInit, NEW c \in Conns PROVE Caught(c)
    BY DEF RevocationInv
  <2>1. \A p \in Peers : links[c][p] = 0
    BY DEF PeerAdmissionInit
  <2>2. ~ Linked(c) /\ reload.pc = "idle"
    BY <2>1 DEF Linked, PeerAdmissionInit, NoReload
  <2> QED BY <2>2 DEF Caught
<1>2. LinkInv /\ LinkInv' /\ RevocationInv /\ [PeerAdmissionNext]_admissionVars => RevocationInv'
  BY RevocationStep
<1>3. RevocationInv => RevokedIsNotified
  BY DEF RevocationInv, Caught, RevokedIsNotified, Unsettled
<1> QED BY <1>1, <1>2, <1>3, LinkInvariant, PTL DEF PeerAdmissionSpec
-----------------------------------------------------------------------------
(* Membership.                                                              *)

Distinct(s) == \A i, j \in 1 .. Len(s) : s[i] = s[j] => i = j

\* retain takes a peer out of a queue without repetitions and leaves the others.
LEMMA WithoutFacts ==
    ASSUME NEW S, NEW s \in Seq(S), Distinct(s), NEW p
    PROVE  /\ Without(s, p) \in Seq(S) /\ Distinct(Without(s, p))
           /\ \A i \in 1 .. Len(Without(s, p)) :
                 Without(s, p)[i] # p /\ \E j \in 1 .. Len(s) : Without(s, p)[i] = s[j]
<1>1. CASE ~ \E i \in 1 .. Len(s) : s[i] = p
  BY <1>1 DEF Without
<1>2. CASE \E i \in 1 .. Len(s) : s[i] = p
  <2> DEFINE k == CHOOSE i \in 1 .. Len(s) : s[i] = p
             a == SubSeq(s, 1, k - 1)
             b == SubSeq(s, k + 1, Len(s))
             t == a \o b
  <2>1. k \in 1 .. Len(s) /\ s[k] = p
    BY <1>2
  <2>2. Without(s, p) = t
    BY <1>2 DEF Without
  <2> HIDE DEF k
  <2>3. a \in Seq(S) /\ Len(a) = k - 1 /\ \A i \in 1 .. k - 1 : a[i] = s[i]
    BY <2>1
  <2>4. b \in Seq(S) /\ Len(b) = Len(s) - k /\ \A i \in 1 .. Len(s) - k : b[i] = s[i + k]
    BY <2>1
  <2> HIDE DEF a, b
  <2>5. t \in Seq(S) /\ Len(t) = Len(s) - 1
    <3>1. t \in Seq(S) /\ Len(t) = Len(a) + Len(b)
      <4>1. a \in Seq(S) /\ b \in Seq(S)
        BY <2>3, <2>4
      <4> QED BY <4>1
    <3> QED BY <2>1, <2>3, <2>4, <3>1
  <2>6. \A i \in 1 .. Len(t) : t[i] = IF i < k THEN s[i] ELSE s[i + 1]
    <3> SUFFICES ASSUME NEW i \in 1 .. Len(t) PROVE t[i] = IF i < k THEN s[i] ELSE s[i + 1]
      OBVIOUS
    <3>1. CASE i < k
      BY <2>1, <2>3, <2>4, <2>5, <3>1
    <3>2. CASE i >= k
      <4>1. t[i] = b[i - (k - 1)]
        BY <2>1, <2>3, <2>4, <2>5, <3>2
      <4>2. i - (k - 1) \in 1 .. Len(s) - k /\ (i - (k - 1)) + k = i + 1
        BY <2>1, <2>5, <3>2
      <4> QED BY <2>1, <2>4, <3>2, <4>1, <4>2
    <3> QED BY <2>1, <2>5, <3>1, <3>2
  <2> HIDE DEF t
  <2>7. Distinct(t)
    <3> DEFINE at(i) == IF i < k THEN i ELSE i + 1
    <3>1. \A i \in 1 .. Len(t) : at(i) \in 1 .. Len(s) /\ t[i] = s[at(i)]
      BY <2>1, <2>5, <2>6
    <3>2. \A i, j \in 1 .. Len(t) : at(i) = at(j) => i = j
      BY <2>1, <2>5
    <3> HIDE DEF at
    <3> QED BY <3>1, <3>2 DEF Distinct
  <2>8. \A i \in 1 .. Len(t) : t[i] # p /\ \E j \in 1 .. Len(s) : t[i] = s[j]
    BY <2>1, <2>5, <2>6 DEF Distinct
  <2> QED BY <2>2, <2>5, <2>7, <2>8
<1> QED BY <1>1, <1>2

\* A connection keeps the sender it first had: its certificate says who it is, or the node
\* behind it does not change its id.
OneSender == \A c \in Conns : \A p, q \in Claims[c] : p = q

\* Whom a connection is admitted as and was admitted as are senders it can have.
Claimed(c) ==
    /\ conn[c].as # NoPeer => conn[c].as \in Claims[c]
    /\ conn[c].identity # NoPeer => conn[c].identity \in Claims[c]
    /\ conn[c].pc = "mark" => conn[c].identity = conn[c].as

QueueInv ==
    /\ down \in Seq(Peers) /\ Distinct(down)
    /\ \A i \in 1 .. Len(down) : down[i] \notin up

Holds(c, p) == conn[c].identity = p /\ conn[c].pc \notin {"off", "drop"}

UpIsHeld == \A p \in up : \E c \in Conns : Holds(c, p)

MemberInv == (\A c \in Conns : Claimed(c)) /\ QueueInv /\ UpIsHeld

\* The eviction queue is as it should be after mark_connected and mark_disconnected.
LEMMA MarkConnectedQueue ==
    ASSUME QueueInv, NEW p \in Peers, MarkConnected(p) PROVE QueueInv'
<1>1. up' = up \cup {p} /\ down' = Without(down, p)
  BY DEF MarkConnected
<1>2. down \in Seq(Peers) /\ Distinct(down) /\ \A i \in 1 .. Len(down) : down[i] \notin up
  BY DEF QueueInv
<1>3. /\ down' \in Seq(Peers) /\ Distinct(down')
      /\ \A i \in 1 .. Len(down') : down'[i] # p /\ \E j \in 1 .. Len(down) : down'[i] = down[j]
  BY <1>1, <1>2, WithoutFacts
<1> QED BY <1>1, <1>2, <1>3 DEF QueueInv, Distinct

LEMMA MarkDisconnectedQueue ==
    ASSUME QueueInv, NEW p \in Peers, MarkDisconnected(p) PROVE QueueInv'
<1> DEFINE queue == Append(down, p)
<1>1. down \in Seq(Peers) /\ Distinct(down) /\ \A i \in 1 .. Len(down) : down[i] \notin up
  BY DEF QueueInv
<1>2. up' = up \ {p} /\ down' \in {down, queue, Tail(queue)} /\ (p \notin up => down' = down)
  BY DEF MarkDisconnected
<1>3. CASE p \notin up
  BY <1>1, <1>2, <1>3 DEF QueueInv, Distinct
<1>4. CASE p \in up
  <2>1. /\ queue \in Seq(Peers) /\ Len(queue) = Len(down) + 1
        /\ \A i \in 1 .. Len(queue) : queue[i] = IF i = Len(queue) THEN p ELSE down[i]
    BY <1>1
  <2> HIDE DEF queue
  <2>2. Distinct(queue) /\ \A i \in 1 .. Len(queue) : queue[i] \notin up'
    BY <1>1, <1>2, <1>4, <2>1 DEF Distinct
  <2>3. /\ Tail(queue) \in Seq(Peers) /\ Len(Tail(queue)) = Len(queue) - 1
        /\ \A i \in 1 .. Len(Tail(queue)) : Tail(queue)[i] = queue[i + 1]
    BY <2>1
  <2>4. Distinct(Tail(queue)) /\ \A i \in 1 .. Len(Tail(queue)) : Tail(queue)[i] \notin up'
    BY <2>1, <2>2, <2>3 DEF Distinct
  <2> QED BY <1>1, <1>2, <2>1, <2>2, <2>3, <2>4 DEF QueueInv, Distinct
<1> QED BY <1>3, <1>4

\* A step of one connection that leaves membership alone and ends no admission.
LEMMA MemberMove ==
    ASSUME MemberInv, NEW c \in Conns, \A e \in Conns \ {c} : conn'[e] = conn[e],
           UNCHANGED <<up, down>>, Claimed(c)',
           \A p \in up : Holds(c, p) => Holds(c, p)'
    PROVE  MemberInv'
<1>1. \A e \in Conns : Claimed(e)'
  BY DEF MemberInv, Claimed
<1>2. QueueInv'
  BY DEF MemberInv, QueueInv, Distinct
<1>3. UpIsHeld'
  <2> SUFFICES ASSUME NEW p \in up PROVE \E e \in Conns : Holds(e, p)'
    BY DEF UpIsHeld
  <2>1. PICK e \in Conns : Holds(e, p)
    BY DEF MemberInv, UpIsHeld
  <2>2. CASE e = c
    BY <2>1, <2>2
  <2>3. CASE e # c
    BY <2>1, <2>3 DEF Holds
  <2> QED BY <2>2, <2>3
<1> QED BY <1>1, <1>2, <1>3 DEF MemberInv

LEMMA MemberStep ==
    ASSUME OneSender, LinkInv, LinkInv', MemberInv, [PeerAdmissionNext]_admissionVars
    PROVE  MemberInv'
<1> USE PeerAdmissionAssumption
<1>0. /\ conn \in [Conns -> ConnType] /\ up \subseteq Peers
      /\ \A c \in Conns : conn[c] \in ConnType /\ Claimed(c)
  BY DEF LinkInv, AdmissionTypeOK, MemberInv
<1>1. ASSUME NEW c \in Conns, NEW p \in Peers, Connect(c, p) \/ Hello(c, p) PROVE MemberInv'
  <2>1. /\ UNCHANGED <<up, down>> /\ \A e \in Conns \ {c} : conn'[e] = conn[e]
        /\ conn[c].pc \in {"off", "idle"} /\ conn'[c].pc \in {"check", "idle"}
        /\ conn'[c].identity = conn[c].identity
        /\ conn'[c].as \in Claims[c] \cup {conn[c].as}
    BY <1>0, <1>1 DEF Connect, Hello, At, Goto, ConnType
  <2> QED BY <1>0, <2>1, MemberMove DEF Claimed, Holds
<1>2. ASSUME NEW c \in Conns, AdmitCheck(c) PROVE MemberInv'
  <2>1. /\ UNCHANGED <<up, down>> /\ \A e \in Conns \ {c} : conn'[e] = conn[e]
        /\ conn[c].pc = "check" /\ conn'[c].pc \in {"mark", "refuse"}
        /\ conn'[c].as = conn[c].as
        /\ conn'[c].identity = IF conn'[c].pc = "mark" THEN conn[c].as ELSE conn[c].identity
    BY <1>0, <1>2 DEF AdmitCheck, At, ConnType
  <2>2. conn[c].as \in Peers
    BY <2>1 DEF LinkInv, Admitting
  <2>3. Claimed(c)'
    BY <1>0, <2>1 DEF Claimed
  <2>4. conn[c].identity # NoPeer => conn[c].identity = conn[c].as
    BY <1>0, <2>2 DEF Claimed, OneSender
  <2>5. \A p \in up : Holds(c, p) => Holds(c, p)'
    BY <1>0, <2>1, <2>4 DEF Holds
  <2> QED BY <2>1, <2>3, <2>5, MemberMove
<1>3. ASSUME NEW c \in Conns, AdmitMark(c) PROVE MemberInv'
  <2>1. /\ MarkConnected(conn[c].as) /\ \A e \in Conns \ {c} : conn'[e] = conn[e]
        /\ conn[c].pc = "mark" /\ conn'[c].pc \in {"register", "reply"}
        /\ conn'[c].as = conn[c].as /\ conn'[c].identity = conn[c].identity
    BY <1>0, <1>3 DEF AdmitMark, At, Goto, ConnType
  <2>2. conn[c].as \in Peers /\ conn[c].identity = conn[c].as
    BY <1>0, <2>1 DEF LinkInv, Admitting, Claimed
  <2>3. QueueInv'
    BY <2>1, <2>2, MarkConnectedQueue DEF MemberInv
  <2>4. \A e \in Conns : Claimed(e)'
    BY <1>0, <2>1 DEF Claimed
  <2>5. UpIsHeld'
    <3> SUFFICES ASSUME NEW p \in up' PROVE \E e \in Conns : Holds(e, p)'
      BY DEF UpIsHeld
    <3>1. up' = up \cup {conn[c].as}
      BY <2>1 DEF MarkConnected
    <3>2. CASE p = conn[c].as
      BY <2>1, <2>2, <3>2 DEF Holds
    <3>3. CASE p \in up
      <4>1. PICK e \in Conns : Holds(e, p)
        BY <3>3 DEF MemberInv, UpIsHeld
      <4> QED BY <2>1, <4>1 DEF Holds
    <3> QED BY <3>1, <3>2, <3>3
  <2> QED BY <2>3, <2>4, <2>5 DEF MemberInv
<1>4. ASSUME NEW c \in Conns, \/ AdmitReply(c) \/ AdmitRegister(c) \/ AdmitReplace(c)
                              \/ AdmitRecheck(c) \/ ReadEnds(c) \/ Disconnect(c)
                              \/ RefuseSent(c) \/ Answer(c) \/ AnswerSent(c)
      PROVE  MemberInv'
  <2>1. /\ UNCHANGED <<up, down>> /\ \A e \in Conns \ {c} : conn'[e] = conn[e]
        /\ conn'[c].pc \notin {"off", "drop", "mark"}
        /\ conn'[c].as = conn[c].as /\ conn'[c].identity = conn[c].identity
    BY <1>0, <1>4 DEF AdmitReply, AdmitRegister, AdmitReplace, AdmitRecheck, ReadEnds, Disconnect,
       RefuseSent, Answer, AnswerSent, At, Goto, ConnType
  <2> QED BY <1>0, <2>1, MemberMove DEF Claimed, Holds
<1>5. ASSUME NEW c \in Conns, ShutDown(c) PROVE MemberInv'
  <2>1. /\ \A e \in Conns \ {c} : conn'[e] = conn[e]
        /\ conn'[c].pc = "drop"
        /\ conn'[c].as = conn[c].as /\ conn'[c].identity = conn[c].identity
    BY <1>0, <1>5 DEF ShutDown, At, Goto, ConnType
  <2>2. \A e \in Conns : Claimed(e)'
    BY <1>0, <2>1 DEF Claimed
  <2>3. QueueInv' /\ up' \subseteq up \ {conn[c].identity}
    <3>1. CASE conn[c].identity = NoPeer
      BY <1>0, <1>5, <3>1 DEF ShutDown, MemberInv, QueueInv, Distinct
    <3>2. CASE conn[c].identity # NoPeer
      <4>1. conn[c].identity \in Peers /\ MarkDisconnected(conn[c].identity)
        BY <1>0, <1>5, <3>2 DEF ShutDown, ConnType, SomePeer
      <4> QED BY <4>1, MarkDisconnectedQueue DEF MemberInv, MarkDisconnected
    <3> QED BY <3>1, <3>2
  <2>4. UpIsHeld'
    <3> SUFFICES ASSUME NEW p \in up' PROVE \E e \in Conns : Holds(e, p)'
      BY DEF UpIsHeld
    <3>1. PICK e \in Conns : Holds(e, p)
      BY <2>3 DEF MemberInv, UpIsHeld
    <3>2. e # c
      BY <2>3, <3>1 DEF Holds
    <3> QED BY <2>1, <3>1, <3>2 DEF Holds
  <2> QED BY <2>2, <2>3, <2>4 DEF MemberInv
<1>6. ASSUME NEW c \in Conns, Drop(c) PROVE MemberInv'
  <2>1. /\ UNCHANGED <<up, down>> /\ \A e \in Conns \ {c} : conn'[e] = conn[e]
        /\ conn[c].pc = "drop" /\ conn'[c] = Fresh
    BY <1>0, <1>6 DEF Drop, At
  <2> QED BY <2>1, MemberMove DEF Claimed, Holds, Fresh
<1>7. ASSUME UNCHANGED <<conn, up, down>> PROVE MemberInv'
  BY <1>7 DEF MemberInv, Claimed, QueueInv, Distinct, UpIsHeld, Holds
<1>8. CASE UNCHANGED admissionVars \/ ReloadProceed \/ \E list \in AllowLists : ReloadBegin(list)
  BY <1>7, <1>8
  DEF admissionVars, ReloadProceed, ReloadScan, ReloadInstall, ReloadNotify, ReloadBegin
<1> QED
  BY <1>1, <1>2, <1>3, <1>4, <1>5, <1>6, <1>8 DEF PeerAdmissionNext, Proceed, Sent

\* The eviction queue of Membership holds disconnected peers only, each once, and a peer
\* reported as connected has a connection that has not shut down (mark_connected,
\* mark_disconnected, shut_down), provided no connection changes its sender: a Hello under a
\* second id would leave the first one reported as connected.
THEOREM MembershipIsTrue ==
    ASSUME OneSender PROVE PeerAdmissionSpec => []MembershipAgrees
<1>1. PeerAdmissionInit => MemberInv
  <2> SUFFICES ASSUME PeerAdmissionInit PROVE MemberInv
    OBVIOUS
  <2>1. \A c \in Conns : Claimed(c)
    BY DEF PeerAdmissionInit, Fresh, Claimed
  <2>2. QueueInv /\ UpIsHeld
    BY DEF PeerAdmissionInit, QueueInv, Distinct, UpIsHeld
  <2> QED BY <2>1, <2>2 DEF MemberInv
<1>2. LinkInv /\ LinkInv' /\ MemberInv /\ [PeerAdmissionNext]_admissionVars => MemberInv'
  BY MemberStep
<1>3. MemberInv => MembershipAgrees
  BY DEF MemberInv, QueueInv, Distinct, UpIsHeld, Holds, MembershipAgrees
<1> QED BY <1>1, <1>2, <1>3, LinkInvariant, PTL DEF PeerAdmissionSpec
=============================================================================
