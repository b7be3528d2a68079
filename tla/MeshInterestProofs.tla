------------------------- MODULE MeshInterestProofs -------------------------
(***************************************************************************)
(* Once a mesh is settled, each end of a link forwards what the other side *)
(* wants, unless the last message about it is in doubt: for every set of   *)
(* nodes, links, clients and filters, every capacity of the queues and any *)
(* number of requests, reloads and connections.                            *)
(*                                                                         *)
(* The invariant compares what the other end of a link will believe once   *)
(* it has read what is queued for it with what it ought to believe.  Where *)
(* the two differ somebody is still bound to send the difference: a task   *)
(* that tells the links about a change, the catch-up of a new link, or a   *)
(* reload.                                                                 *)
(***************************************************************************)
EXTENDS MeshInterest, FiniteSetTheorems, TLAPS

-----------------------------------------------------------------------------
(* The invariant                                                            *)

Kinds == {"Subscribe", "Unsubscribe"}
Msgs == [kind : Kinds, filter : Filters] \cup {Msg("Ack", NoFilter)}
Senders == Ends \X Nat
Pcs == {"idle", "ack", "tell", "telling", "down", "admit", "register", "snapshot",
        "catchup", "drain"}
TaskRecords == [pc : Pcs, kind : Kinds \cup {"none"}, filter : Filters \cup {NoFilter},
                links : SUBSET Senders, todo : SUBSET Filters,
                allow : PeerFilters \cup {Unrestricted}]
ReloadRecords == [pc : {"idle", "collect", "reconcile"}, todo : SUBSET (Senders \X Filters),
                  next : {<<>>} \cup (Senders \X [kind : Kinds, filter : Filters])]

MeshTypes ==
    /\ forwarders \in [Tasks -> SUBSET Filters]
    /\ counts \in [Nodes -> [Filters -> Nat]]
    /\ task \in [Tasks -> TaskRecords]
    /\ registered \subseteq Ends
    /\ wire \in [Ends -> Nat]
    /\ queue \in [Ends -> Seq(Msgs)]
    /\ topicFilter \in [Nodes -> PeerFilters]
    /\ reload \in [Nodes -> ReloadRecords]
    /\ spent \in [requests : Nat, reloads : Nat, connects : Nat]

\* A task that tells the links something has something to say about a filter.
Sensible(r) ==
    /\ r.pc \in {"tell", "telling"} => r.kind # "none"
    /\ r.pc \in {"ack", "tell", "telling"} /\ r.kind # "none" => r.filter \in Filters

TellsFilter == \A x \in Tasks : Sensible(task[x])

\* The two ends of a connection have it both or neither, and what is not
\* connected has nothing queued.
Wired ==
    \A e \in Ends : /\ wire[e] = wire[Flip(e)]
                    /\ wire[e] <= spent.connects
                    /\ wire[e] = 0 => queue[e] = <<>>

\* What holds of an end at each stage of its life.
Stages ==
    \A e \in Ends :
        /\ task[e].pc \in {"down", "admit", "register"} => e \notin registered
        /\ task[e].pc = "down" => forwarders[e] = {}
        /\ task[e].pc \in {"down", "drain"} => wire[e] = 0
        /\ task[e].pc \in {"admit", "register"} /\ wire[e] # 0
             => queue[e] = <<>> /\ forwarders[Flip(e)] = {}

\* An outgoing channel somebody holds belongs to a connection there was; if
\* it is the open one, its end is registered.
Known(s) == s[2] <= spent.connects /\ (s[2] # 0 /\ s[2] = wire[s[1]] => s[1] \in registered)

SendersKnown ==
    /\ \A x \in Tasks : \A s \in task[x].links : Known(s)
    /\ \A n \in Nodes : /\ \A p \in reload[n].todo : Known(p[1])
                        /\ reload[n].next # <<>> => Known(reload[n].next[1])

\* Whether f is forwarded once the messages of q are read, the last one about
\* f being what counts.
Reads(q, held, f) ==
    \/ \E k \in DOMAIN q : /\ q[k] = Msg("Subscribe", f)
                           /\ \A j \in DOMAIN q : j > k => q[j].filter # f
    \/ held /\ \A k \in DOMAIN q : q[k].filter # f

View(e, f) == Reads(queue[e], f \in forwarders[Flip(e)], f)

\* A task that is to tell the other end of e about f.
Tells(x, e, kind, f) ==
    /\ NodeOf(x) = e[1] /\ task[x].kind = kind /\ task[x].filter = f
    /\ \/ task[x].pc = "ack" /\ kind = "Subscribe"
       \/ task[x].pc = "tell"
       \/ task[x].pc = "telling" /\ Sender(e) \in task[x].links

\* The catch-up of a new link that will name f.
CatchesUp(e, f) ==
    \/ task[e].pc = "snapshot" /\ Relays(task[e].allow, e[2], f)
    \/ task[e].pc = "catchup" /\ f \in task[e].todo

\* A reload that will come to e and f.
Reconciles(e, f) ==
    LET r == reload[e[1]] IN
    \/ r.pc = "collect"
    \/ r.pc = "reconcile" /\ <<Sender(e), f>> \in r.todo
    \/ r.pc = "reconcile" /\ r.next # <<>> /\ r.next[1] = Sender(e) /\ r.next[2].filter = f

\* What the other end will believe is right, or somebody will still say so.
Told(e, f) ==
    /\ View(e, f) /\ ~Wanted(e, f) =>
          \/ \E x \in Tasks : Tells(x, e, "Unsubscribe", f)
          \/ Interested(e[1], f) /\ Reconciles(e, f)
    /\ ~View(e, f) /\ Wanted(e, f) =>
          \/ \E x \in Tasks : Tells(x, e, "Subscribe", f)
          \/ CatchesUp(e, f)
          \/ Reconciles(e, f)

AllTold ==
    \A e \in registered, f \in Filters :
        wire[e] # 0 /\ <<e, f>> \notin doubt => Told(e, f)

LinkInv == MeshTypes /\ TellsFilter /\ Wired /\ Stages /\ SendersKnown

-----------------------------------------------------------------------------
(* Ends and tasks                                                           *)

(* The two ends of a link are different, each is the other's other end, and *)
(* neither is a client.                                                     *)
LEMMA EndFacts ==
    ASSUME NEW e \in Ends
    PROVE  /\ e \in Tasks /\ e \notin Clients /\ NodeOf(e) = e[1]
           /\ e[1] \in Nodes /\ e[2] \in Nodes /\ e = <<e[1], e[2]>>
           /\ Flip(e) \in Ends /\ Flip(Flip(e)) = e /\ Flip(e) # e
           /\ Flip(e)[1] = e[2] /\ Flip(e)[2] = e[1]
<1>1. e \in Nodes \X Nodes /\ {e[1], e[2]} \in Links
  BY DEF Ends
<1>2. e[1] \in Nodes /\ e[2] \in Nodes /\ e = <<e[1], e[2]>>
  BY <1>1
<1>3. e[1] # e[2]
  <2> SUFFICES ASSUME e[1] = e[2] PROVE FALSE OBVIOUS
  <2>1. {e[1], e[2]} = {e[1]} OBVIOUS
  <2>2. Cardinality({e[1]}) = 1 BY FS_Singleton
  <2>3. Cardinality({e[1], e[2]}) = 2 BY <1>1, MeshInterestAssumption
  <2> QED BY <2>1, <2>2, <2>3
<1>4. Flip(e) \in Nodes \X Nodes /\ Flip(e)[1] = e[2] /\ Flip(e)[2] = e[1]
  BY <1>2 DEF Flip
<1>5. {Flip(e)[1], Flip(e)[2]} = {e[1], e[2]}
  BY <1>4
<1>6. Flip(e) \in Ends
  BY <1>1, <1>4, <1>5 DEF Ends
<1>7. Flip(Flip(e)) = e /\ Flip(e) # e
  BY <1>2, <1>3 DEF Flip
<1>8. e \notin Clients
  BY <1>1, MeshInterestAssumption
<1> QED BY <1>2, <1>4, <1>6, <1>7, <1>8 DEF Tasks, NodeOf

LEMMA FlipIsOne ==
    ASSUME NEW e \in Ends, NEW d \in Ends PROVE Flip(e) = d <=> e = Flip(d)
BY EndFacts

(* Every task runs on a node.                                               *)
LEMMA NodesOfTasks == ASSUME NEW x \in Tasks PROVE NodeOf(x) \in Nodes
<1>1. CASE x \in Clients BY <1>1, MeshInterestAssumption DEF NodeOf
<1>2. CASE x \in Ends BY <1>2, EndFacts
<1> QED BY <1>1, <1>2 DEF Tasks

(* Whoever belongs to a link together with an end is an end of that link.   *)
LEMMA SameLink ==
    ASSUME NEW e \in Ends PROVE {Flip(e)[1], Flip(e)[2]} = {e[1], e[2]}
BY EndFacts
-----------------------------------------------------------------------------
(* What is read from a queue                                                *)

(* The last message decides.                                                *)
LEMMA ReadsAppend ==
    ASSUME NEW q \in Seq(Msgs), NEW m \in Msgs, NEW held, NEW f \in Filters
    PROVE  /\ m.filter = f => (Reads(Append(q, m), held, f) <=> m.kind = "Subscribe")
           /\ m.filter # f => (Reads(Append(q, m), held, f) <=> Reads(q, held, f))
<1> DEFINE r == Append(q, m)
<1>1. /\ Len(q) \in Nat /\ Len(r) = Len(q) + 1 /\ DOMAIN q = 1 .. Len(q)
      /\ DOMAIN r = 1 .. Len(q) + 1 /\ r[Len(q) + 1] = m
      /\ \A k \in 1 .. Len(q) : r[k] = q[k]
  OBVIOUS
<1> HIDE DEF r
<1>2. m = Msg(m.kind, m.filter) /\ Msg("Subscribe", f).filter = f
      /\ Msg("Subscribe", f).kind = "Subscribe"
  BY DEF Msgs, Msg
<1>3. ASSUME m.filter = f PROVE Reads(r, held, f) <=> m.kind = "Subscribe"
  <2>1. ASSUME m.kind = "Subscribe" PROVE Reads(r, held, f)
    <3>1. r[Len(q) + 1] = Msg("Subscribe", f) BY <1>1, <1>2, <1>3, <2>1
    <3>2. Len(q) + 1 \in DOMAIN r /\ \A j \in DOMAIN r : ~(j > Len(q) + 1) BY <1>1
    <3> QED BY <3>1, <3>2 DEF Reads
  <2>2. ASSUME Reads(r, held, f) PROVE m.kind = "Subscribe"
    <3>1. Len(q) + 1 \in DOMAIN r /\ r[Len(q) + 1].filter = f BY <1>1, <1>3
    <3>2. PICK k \in DOMAIN r : /\ r[k] = Msg("Subscribe", f)
                                /\ \A j \in DOMAIN r : j > k => r[j].filter # f
      BY <2>2, <3>1 DEF Reads
    <3>3. ~(Len(q) + 1 > k) BY <3>1, <3>2
    <3>4. k = Len(q) + 1 BY <1>1, <3>3
    <3> QED BY <1>1, <1>2, <3>2, <3>4
  <2> QED BY <2>1, <2>2
<1>4. ASSUME m.filter # f PROVE Reads(r, held, f) <=> Reads(q, held, f)
  <2>1. (\A k \in DOMAIN r : r[k].filter # f) <=> (\A k \in DOMAIN q : q[k].filter # f)
    BY <1>1, <1>4
  <2>2. ASSUME NEW k \in DOMAIN r, r[k] = Msg("Subscribe", f),
               \A j \in DOMAIN r : j > k => r[j].filter # f
        PROVE  \E i \in DOMAIN q : /\ q[i] = Msg("Subscribe", f)
                                   /\ \A j \in DOMAIN q : j > i => q[j].filter # f
    <3>1. k # Len(q) + 1 BY <1>1, <1>2, <1>4, <2>2
    <3>2. k \in DOMAIN q BY <1>1, <3>1
    <3>3. q[k] = Msg("Subscribe", f) BY <1>1, <2>2, <3>2
    <3>4. \A j \in DOMAIN q : j > k => q[j].filter # f BY <1>1, <2>2
    <3> QED BY <3>2, <3>3, <3>4
  <2>3. ASSUME NEW k \in DOMAIN q, q[k] = Msg("Subscribe", f),
               \A j \in DOMAIN q : j > k => q[j].filter # f
        PROVE  \E i \in DOMAIN r : /\ r[i] = Msg("Subscribe", f)
                                   /\ \A j \in DOMAIN r : j > i => r[j].filter # f
    <3>1. k \in DOMAIN r /\ r[k] = Msg("Subscribe", f) BY <1>1, <2>3
    <3>2. \A j \in DOMAIN r : j > k => r[j].filter # f BY <1>1, <1>4, <2>3
    <3> QED BY <3>1, <3>2
  <2> QED BY <2>1, <2>2, <2>3 DEF Reads
<1> QED BY <1>3, <1>4 DEF r

(* Reading the first message changes nothing of what all of them say.       *)
LEMMA ReadsTail ==
    ASSUME NEW q \in Seq(Msgs), q # <<>>, NEW held, NEW now, NEW f \in Filters,
           Head(q).filter = f => (now <=> Head(q).kind = "Subscribe"),
           Head(q).filter # f => (now <=> held)
    PROVE  Reads(Tail(q), now, f) <=> Reads(q, held, f)
<1> DEFINE r == Tail(q)
<1>1. /\ Len(q) \in Nat \ {0} /\ Len(r) = Len(q) - 1 /\ DOMAIN q = 1 .. Len(q)
      /\ DOMAIN r = 1 .. Len(q) - 1 /\ Head(q) = q[1] /\ q[1] \in Msgs
      /\ \A k \in 1 .. Len(q) - 1 : r[k] = q[k + 1]
  OBVIOUS
<1> HIDE DEF r
<1>2. /\ q[1] = Msg(q[1].kind, q[1].filter) /\ Msg("Subscribe", f).filter = f
      /\ Msg("Subscribe", f).kind = "Subscribe"
  BY <1>1 DEF Msgs, Msg
<1>3. (\A k \in DOMAIN q : q[k].filter # f)
        <=> q[1].filter # f /\ \A k \in DOMAIN r : r[k].filter # f
  <2>1. ASSUME q[1].filter # f, \A k \in DOMAIN r : r[k].filter # f, NEW k \in DOMAIN q
        PROVE  q[k].filter # f
    <3>1. CASE k = 1 BY <2>1, <3>1
    <3>2. CASE k # 1
      <4>1. k - 1 \in DOMAIN r /\ r[k - 1] = q[(k - 1) + 1] BY <1>1, <3>2
      <4>2. (k - 1) + 1 = k BY <1>1
      <4> QED BY <2>1, <4>1, <4>2
    <3> QED BY <3>1, <3>2
  <2>2. ASSUME \A k \in DOMAIN q : q[k].filter # f
        PROVE  q[1].filter # f /\ \A k \in DOMAIN r : r[k].filter # f
    <3>1. 1 \in DOMAIN q /\ \A k \in DOMAIN r : k + 1 \in DOMAIN q BY <1>1
    <3> QED BY <1>1, <2>2, <3>1
  <2> QED BY <2>1, <2>2
<1> DEFINE LastIs(s, k) == /\ s[k] = Msg("Subscribe", f)
                           /\ \A j \in DOMAIN s : j > k => s[j].filter # f
<1>4. ASSUME NEW k \in DOMAIN r PROVE LastIs(r, k) <=> LastIs(q, k + 1)
  <2>1. k + 1 \in DOMAIN q /\ r[k] = q[k + 1] BY <1>1
  <2>2. ASSUME LastIs(r, k), NEW j \in DOMAIN q, j > k + 1 PROVE q[j].filter # f
    <3>1. j - 1 \in DOMAIN r /\ j - 1 > k /\ r[j - 1] = q[(j - 1) + 1] BY <1>1, <2>2
    <3>2. (j - 1) + 1 = j BY <1>1
    <3> QED BY <2>2, <3>1, <3>2
  <2>3. ASSUME LastIs(q, k + 1), NEW j \in DOMAIN r, j > k PROVE r[j].filter # f
    <3>1. j + 1 \in DOMAIN q /\ j + 1 > k + 1 /\ r[j] = q[j + 1] BY <1>1, <2>3
    <3> QED BY <2>3, <3>1
  <2> QED BY <2>1, <2>2, <2>3
<1>5. LastIs(q, 1) <=> q[1] = Msg("Subscribe", f) /\ \A k \in DOMAIN r : r[k].filter # f
  <2>1. ASSUME LastIs(q, 1), NEW k \in DOMAIN r PROVE r[k].filter # f
    <3>1. k + 1 \in DOMAIN q /\ k + 1 > 1 /\ r[k] = q[k + 1] BY <1>1
    <3> QED BY <2>1, <3>1
  <2>2. ASSUME \A k \in DOMAIN r : r[k].filter # f, NEW j \in DOMAIN q, j > 1
        PROVE  q[j].filter # f
    <3>1. j - 1 \in DOMAIN r /\ r[j - 1] = q[(j - 1) + 1] BY <1>1, <2>2
    <3>2. (j - 1) + 1 = j BY <1>1
    <3> QED BY <2>2, <3>1, <3>2
  <2> QED BY <2>1, <2>2
<1>6. (\E k \in DOMAIN q : LastIs(q, k))
        <=> LastIs(q, 1) \/ \E k \in DOMAIN r : LastIs(r, k)
  <2>1. ASSUME NEW k \in DOMAIN q, LastIs(q, k), k # 1 PROVE \E i \in DOMAIN r : LastIs(r, i)
    <3>1. k - 1 \in DOMAIN r /\ (k - 1) + 1 = k BY <1>1, <2>1
    <3>2. LastIs(q, (k - 1) + 1) BY <2>1, <3>1
    <3>3. LastIs(r, k - 1) BY <1>4, <3>1, <3>2
    <3> QED BY <3>1, <3>3
  <2>2. 1 \in DOMAIN q /\ \A k \in DOMAIN r : k + 1 \in DOMAIN q BY <1>1
  <2> QED BY <1>4, <2>1, <2>2
<1>7. q[1] = Msg("Subscribe", f) <=> q[1].filter = f /\ q[1].kind = "Subscribe"
  BY <1>2
<1>8. (Reads(q, held, f) <=> (\E k \in DOMAIN q : LastIs(q, k))
                             \/ (held /\ \A k \in DOMAIN q : q[k].filter # f))
      /\ (Reads(r, now, f) <=> (\E k \in DOMAIN r : LastIs(r, k))
                               \/ (now /\ \A k \in DOMAIN r : r[k].filter # f))
  BY DEF Reads
<1> HIDE DEF LastIs
<1>9. (Head(q).filter = f => (now <=> Head(q).kind = "Subscribe"))
      /\ (Head(q).filter # f => (now <=> held)) /\ Head(q) = q[1]
  BY <1>1
<1>10. Reads(r, now, f) <=> Reads(q, held, f)
  BY <1>3, <1>5, <1>6, <1>7, <1>8, <1>9
<1> QED BY <1>10 DEF r

-----------------------------------------------------------------------------
(* Links keep their types and stages                                        *)

\* Nothing arrives where nothing may: an end that is not connected, or not
\* registered yet.
NothingEarly ==
    \A e \in Ends : queue[e] = <<>> /\ (wire[e] = 0 \/ task[e].pc \in {"admit", "register"})
                    => queue'[e] = <<>>

LEMMA MeshInitInv == MeshInit => LinkInv
<1> SUFFICES ASSUME MeshInit PROVE LinkInv OBVIOUS
<1> USE DEF MeshInit
<1>1. Idle \in TaskRecords /\ Down \in TaskRecords /\ Idle.links = {} /\ Down.links = {}
      /\ Idle.pc = "idle" /\ Down.pc = "down" /\ Idle.kind = "none" /\ Down.kind = "none"
  BY DEF Idle, Down, TaskRecords, Pcs
<1>2. ReloadIdle \in ReloadRecords /\ ReloadIdle.todo = {} /\ ReloadIdle.next = <<>>
  BY DEF ReloadIdle, ReloadRecords
<1>3. MeshTypes
  BY <1>1, <1>2, MeshInterestAssumption DEF MeshTypes
<1>4. \A x \in Tasks : task[x] \in {Idle, Down}
  OBVIOUS
<1>5. TellsFilter
  BY <1>1, <1>4 DEF TellsFilter, Sensible
<1>6. Wired
  BY EndFacts DEF Wired
<1>7. Stages
  BY EndFacts DEF Stages
<1>8. SendersKnown
  BY <1>1, <1>2, <1>4 DEF SendersKnown
<1> QED BY <1>3, <1>5, <1>6, <1>7, <1>8 DEF LinkInv

LEMMA KnownKept ==
    ASSUME NEW s, Known(s), UNCHANGED wire, registered \subseteq registered',
           spent'.connects = spent.connects
    PROVE  Known(s)'
BY DEF Known

(* A step of one task that leaves the links as they are.                    *)
LEMMA TaskMoves ==
    ASSUME LinkInv, NEW x \in Tasks, NEW r \in TaskRecords,
           task' = [task EXCEPT ![x] = r],
           Sensible(r),
           \A s \in r.links : Known(s),
           r.pc \notin {"down", "admit", "register"},
           r.pc = "drain" /\ x \in Ends => wire[x] = 0,
           UNCHANGED <<registered, wire, topicFilter, reload>>,
           spent' \in [requests : Nat, reloads : Nat, connects : Nat],
           spent'.connects = spent.connects,
           forwarders' \in [Tasks -> SUBSET Filters],
           counts' \in [Nodes -> [Filters -> Nat]],
           queue' \in [Ends -> Seq(Msgs)], NothingEarly,
           \A e \in Ends : task[e].pc = "down" => forwarders'[e] = {},
           \A e \in Ends : task[e].pc \in {"admit", "register"} /\ wire[e] # 0
                           => forwarders'[Flip(e)] = {}
    PROVE  LinkInv'
<1> USE DEF LinkInv
<1>1. task' \in [Tasks -> TaskRecords] /\ task'[x] = r
      /\ \A y \in Tasks : y # x => task'[y] = task[y]
  BY DEF MeshTypes
<1>2. MeshTypes'
  BY <1>1 DEF MeshTypes
<1>3. TellsFilter'
  BY <1>1 DEF TellsFilter
<1>4. Wired'
  BY DEF Wired, NothingEarly
<1>5. Stages'
  <2> SUFFICES ASSUME NEW e \in Ends
               PROVE  /\ task'[e].pc \in {"down", "admit", "register"} => e \notin registered
                      /\ task'[e].pc = "down" => forwarders'[e] = {}
                      /\ task'[e].pc \in {"down", "drain"} => wire[e] = 0
                      /\ task'[e].pc \in {"admit", "register"} /\ wire[e] # 0
                           => queue'[e] = <<>> /\ forwarders'[Flip(e)] = {}
    BY DEF Stages
  <2>1. e \in Tasks BY EndFacts
  <2>2. CASE e = x BY <1>1, <2>2
  <2>3. CASE e # x
    <3>1. task'[e] = task[e] BY <1>1, <2>1, <2>3
    <3> QED BY <3>1 DEF Stages, NothingEarly
  <2> QED BY <2>2, <2>3
<1>6. SendersKnown'
  <2>1. ASSUME NEW y \in Tasks, NEW s \in task'[y].links PROVE Known(s)'
    <3>1. CASE y = x BY <1>1, <2>1, <3>1, KnownKept
    <3>2. CASE y # x BY <1>1, <2>1, <3>2, KnownKept DEF SendersKnown
    <3> QED BY <3>1, <3>2
  <2>2. ASSUME NEW n \in Nodes, NEW p \in reload'[n].todo PROVE Known(p[1])'
    BY <2>2, KnownKept DEF SendersKnown
  <2>3. ASSUME NEW n \in Nodes, reload'[n].next # <<>> PROVE Known(reload[n].next[1])'
    <3>1. Known(reload[n].next[1]) BY <2>3 DEF SendersKnown
    <3> QED BY <3>1 DEF Known
  <2> QED BY <2>1, <2>2, <2>3 DEF SendersKnown
<1> QED BY <1>2, <1>3, <1>4, <1>5, <1>6

(* A step of a node's reload task.                                          *)
LEMMA ReloadMoves ==
    ASSUME LinkInv, NEW n \in Nodes, NEW r \in ReloadRecords,
           reload' = [reload EXCEPT ![n] = r],
           \A p \in r.todo : Known(p[1]), r.next # <<>> => Known(r.next[1]),
           UNCHANGED <<forwarders, counts, task, registered, wire>>,
           topicFilter' \in [Nodes -> PeerFilters],
           spent' \in [requests : Nat, reloads : Nat, connects : Nat],
           spent'.connects = spent.connects,
           queue' \in [Ends -> Seq(Msgs)], NothingEarly
    PROVE  LinkInv'
<1> USE DEF LinkInv
<1>1. reload' \in [Nodes -> ReloadRecords] /\ reload'[n] = r
      /\ \A k \in Nodes : k # n => reload'[k] = reload[k]
  BY DEF MeshTypes
<1>2. MeshTypes'
  BY <1>1 DEF MeshTypes
<1>3. TellsFilter'
  BY DEF TellsFilter
<1>4. Wired'
  BY DEF Wired, NothingEarly
<1>5. Stages'
  BY DEF Stages, NothingEarly
<1>6. SendersKnown'
  <2>1. ASSUME NEW y \in Tasks, NEW s \in task'[y].links PROVE Known(s)'
    BY <2>1, KnownKept DEF SendersKnown
  <2>2. ASSUME NEW k \in Nodes, NEW p \in reload'[k].todo PROVE Known(p[1])'
    <3>1. Known(p[1]) BY <1>1, <2>2 DEF SendersKnown
    <3> QED BY <3>1 DEF Known
  <2>3. ASSUME NEW k \in Nodes, reload'[k].next # <<>>
        PROVE  /\ reload'[k].next[1][2] <= spent'.connects
               /\ (reload'[k].next[1][2] # 0
                   /\ reload'[k].next[1][2] = wire'[reload'[k].next[1][1]]
                     => reload'[k].next[1][1] \in registered')
    <3>1. CASE k = n BY <1>1, <2>3, <3>1 DEF Known
    <3>2. CASE k # n BY <1>1, <2>3, <3>2 DEF SendersKnown, Known
    <3> QED BY <3>1, <3>2
  <2> QED BY <2>1, <2>2, <2>3 DEF SendersKnown, Known
<1> QED BY <1>2, <1>3, <1>4, <1>5, <1>6

(* What try_send does to the queues: the message is at the end of the queue *)
(* of the channel's end, if the channel is that of the open connection.     *)
LEMMA TrySendQueues ==
    ASSUME LinkInv, NEW s \in Senders, NEW m \in [kind : Kinds, filter : Filters], TrySend(s, m)
    PROVE  /\ queue' \in [Ends -> Seq(Msgs)]
           /\ \A e \in Ends : \/ queue'[e] = queue[e]
                              \/ /\ s = Sender(e) /\ Room(e)
                                 /\ queue'[e] = Append(queue[e], m)
<1> DEFINE e == s[1]
<1>1. e \in Ends /\ m \in Msgs
  BY DEF Senders, Msgs
<1>2. queue \in [Ends -> Seq(Msgs)] /\ queue[e] \in Seq(Msgs)
  BY <1>1 DEF LinkInv, MeshTypes
<1>3. Append(queue[e], m) \in Seq(Msgs)
  BY <1>1, <1>2
<1>4. CASE Room(e) /\ s = Sender(e)
  <2>1. queue' = [queue EXCEPT ![e] = Append(queue[e], m)] BY <1>4 DEF TrySend
  <2> QED BY <1>1, <1>2, <1>3, <1>4, <2>1
<1>5. CASE ~(Room(e) /\ s = Sender(e))
  <2>1. queue' = queue BY <1>5 DEF TrySend
  <2> QED BY <1>2, <2>1
<1> QED BY <1>4, <1>5

LEMMA TrySendNotEarly ==
    ASSUME LinkInv, NEW s \in Senders, NEW m \in [kind : Kinds, filter : Filters],
           TrySend(s, m), Known(s) \/ task[s[1]].pc = "catchup"
    PROVE  NothingEarly
<1> SUFFICES ASSUME NEW e \in Ends, queue[e] = <<>>,
                    wire[e] = 0 \/ task[e].pc \in {"admit", "register"}
             PROVE  queue'[e] = <<>>
  BY DEF NothingEarly
<1>1. SUFFICES ASSUME s = Sender(e), Room(e) PROVE FALSE
  BY TrySendQueues
<1>2. wire[e] # 0 /\ s[1] = e /\ s[2] = wire[e]
  BY <1>1 DEF Room, Sender
<1>3. task[e].pc \in {"admit", "register"}
  BY <1>2
<1>4. e \in registered
  BY <1>2, <1>3 DEF Known
<1> QED BY <1>3, <1>4 DEF LinkInv, Stages

LEMMA QueueAppend ==
    ASSUME LinkInv, NEW e \in Ends, NEW m \in Msgs,
           queue' = [queue EXCEPT ![e] = Append(@, m)]
    PROVE  /\ queue' \in [Ends -> Seq(Msgs)] /\ queue'[e] = Append(queue[e], m)
           /\ \A d \in Ends : d # e => queue'[d] = queue[d]
<1>1. queue \in [Ends -> Seq(Msgs)] /\ queue[e] \in Seq(Msgs)
  BY DEF LinkInv, MeshTypes
<1>2. Append(queue[e], m) \in Seq(Msgs)
  BY <1>1
<1> QED BY <1>1, <1>2

(* handle_subscribe and handle_unsubscribe: what becomes of the task.       *)
LEMMA HandleTask ==
    ASSUME LinkInv, NEW x \in Tasks, NEW kind, NEW f \in Filters, Handle(x, kind, f)
    PROVE  \E r \in TaskRecords :
              /\ task' = [task EXCEPT ![x] = r] /\ r.pc = "ack" /\ r.filter = f /\ r.links = {}
              /\ \/ /\ kind = "Subscribe"
                    /\ r.kind = IF f \notin forwarders[x] /\ ~Interested(NodeOf(x), f)
                                THEN "Subscribe" ELSE "none"
                    /\ forwarders' = [forwarders EXCEPT ![x] = @ \cup {f}]
                    /\ counts' = IF f \notin forwarders[x]
                                 THEN [counts EXCEPT ![NodeOf(x)][f] = @ + 1] ELSE counts
                 \/ /\ kind = "Unsubscribe"
                    /\ r.kind \in {"Unsubscribe", "none"}
                    /\ forwarders' = [forwarders EXCEPT ![x] = @ \ {f}]
                    /\ counts' = counts
<1>1. CASE kind = "Subscribe" /\ Subscribe(x, f)
  <2> DEFINE k == IF f \notin forwarders[x] /\ ~Interested(NodeOf(x), f)
                  THEN "Subscribe" ELSE "none"
             r == [Idle EXCEPT !.pc = "ack", !.filter = f, !.kind = k]
  <2>1. k \in Kinds \cup {"none"} BY DEF Kinds
  <2>2. task' = [task EXCEPT ![x] = r] BY <1>1 DEF Subscribe
  <2> HIDE DEF k
  <2>3. r \in TaskRecords /\ r.pc = "ack" /\ r.filter = f /\ r.links = {} /\ r.kind = k
    BY <2>1 DEF Idle, TaskRecords, Pcs
  <2> HIDE DEF r
  <2>4. /\ forwarders' = [forwarders EXCEPT ![x] = @ \cup {f}]
        /\ counts' = IF f \notin forwarders[x]
                     THEN [counts EXCEPT ![NodeOf(x)][f] = @ + 1] ELSE counts
    BY <1>1 DEF Subscribe
  <2>5. r.kind = IF f \notin forwarders[x] /\ ~Interested(NodeOf(x), f)
                 THEN "Subscribe" ELSE "none"
    BY <2>3 DEF k
  <2> QED BY <1>1, <2>2, <2>3, <2>4, <2>5
<1>2. CASE kind = "Unsubscribe" /\ Unsubscribe(x, f)
  <2> DEFINE k == IF f \in forwarders[x] THEN "Unsubscribe" ELSE "none"
             r == [Idle EXCEPT !.pc = "ack", !.filter = f, !.kind = k]
  <2>1. k \in Kinds \cup {"none"} /\ k \in {"Unsubscribe", "none"} BY DEF Kinds
  <2>2. task' = [task EXCEPT ![x] = r] BY <1>2 DEF Unsubscribe
  <2> HIDE DEF k
  <2>3. r \in TaskRecords /\ r.pc = "ack" /\ r.filter = f /\ r.links = {} /\ r.kind = k
    BY <2>1 DEF Idle, TaskRecords, Pcs
  <2> HIDE DEF r
  <2>4. /\ forwarders' = [forwarders EXCEPT ![x] = @ \ {f}] /\ counts' = counts
    BY <1>2 DEF Unsubscribe
  <2> QED BY <1>2, <2>1, <2>2, <2>3, <2>4
<1> QED BY <1>1, <1>2 DEF Handle

LEMMA CountUpdate ==
    ASSUME LinkInv, NEW n \in Nodes, NEW f \in Filters, NEW k \in Nat,
           counts' = [counts EXCEPT ![n][f] = k]
    PROVE  /\ counts' \in [Nodes -> [Filters -> Nat]] /\ counts'[n][f] = k
           /\ \A m \in Nodes, g \in Filters : m # n \/ g # f => counts'[m][g] = counts[m][g]
<1>1. counts \in [Nodes -> [Filters -> Nat]] /\ counts[n] \in [Filters -> Nat]
  BY DEF LinkInv, MeshTypes
<1>2. [counts[n] EXCEPT ![f] = k] \in [Filters -> Nat]
  BY <1>1
<1>3. counts' = [counts EXCEPT ![n] = [counts[n] EXCEPT ![f] = k]]
  OBVIOUS
<1> QED BY <1>1, <1>2, <1>3

(* Only its own forwarders change, and its node's count of the filter.      *)
LEMMA HandleState ==
    ASSUME LinkInv, NEW x \in Tasks, NEW kind, NEW f \in Filters, Handle(x, kind, f)
    PROVE  /\ forwarders' \in [Tasks -> SUBSET Filters]
           /\ \A y \in Tasks : y # x => forwarders'[y] = forwarders[y]
           /\ \A g \in Filters : g # f => (g \in forwarders'[x] <=> g \in forwarders[x])
           /\ f \in forwarders'[x] <=> kind = "Subscribe"
           /\ counts' \in [Nodes -> [Filters -> Nat]]
           /\ \A m \in Nodes, g \in Filters :
                 m # NodeOf(x) \/ g # f => counts'[m][g] = counts[m][g]
           /\ counts'[NodeOf(x)][f] \in {counts[NodeOf(x)][f], counts[NodeOf(x)][f] + 1}
<1>1. forwarders \in [Tasks -> SUBSET Filters] /\ counts \in [Nodes -> [Filters -> Nat]]
  BY DEF LinkInv, MeshTypes
<1>2. NodeOf(x) \in Nodes BY NodesOfTasks
<1>3. counts[NodeOf(x)][f] \in Nat /\ counts[NodeOf(x)][f] + 1 \in Nat
  BY <1>1, <1>2
<1>4. CASE kind = "Subscribe" /\ Subscribe(x, f)
  <2>1. forwarders' = [forwarders EXCEPT ![x] = forwarders[x] \cup {f}]
    BY <1>4 DEF Subscribe
  <2>2. \/ counts' = counts
        \/ counts' = [counts EXCEPT ![NodeOf(x)][f] = counts[NodeOf(x)][f] + 1]
    BY <1>4 DEF Subscribe
  <2>3. /\ counts' \in [Nodes -> [Filters -> Nat]]
        /\ \A m \in Nodes, g \in Filters :
              m # NodeOf(x) \/ g # f => counts'[m][g] = counts[m][g]
        /\ counts'[NodeOf(x)][f] \in {counts[NodeOf(x)][f], counts[NodeOf(x)][f] + 1}
    BY <1>1, <1>2, <1>3, <2>2, CountUpdate
  <2> QED BY <1>1, <1>4, <2>1, <2>3
<1>5. CASE kind = "Unsubscribe" /\ Unsubscribe(x, f)
  <2>1. forwarders' = [forwarders EXCEPT ![x] = forwarders[x] \ {f}] /\ counts' = counts
    BY <1>5 DEF Unsubscribe
  <2> QED BY <1>1, <1>5, <2>1
<1> QED BY <1>4, <1>5 DEF Handle

LEMMA RequestLinks ==
    ASSUME LinkInv, NEW c \in Clients, NEW kind, NEW f \in Filters, Request(c, kind, f)
    PROVE  LinkInv'
<1> USE DEF LinkInv
<1>1. c \in Tasks /\ c \notin Ends BY EndFacts DEF Tasks
<1>2. Handle(c, kind, f) /\ spent' = [spent EXCEPT !.requests = @ + 1]
      /\ UNCHANGED <<registered, wire, queue, topicFilter, reload>>
  BY DEF Request
<1>3. PICK r \in TaskRecords : task' = [task EXCEPT ![c] = r] /\ r.pc = "ack"
                               /\ r.filter = f /\ r.links = {}
  BY <1>1, <1>2, HandleTask
<1>4. /\ forwarders' \in [Tasks -> SUBSET Filters] /\ counts' \in [Nodes -> [Filters -> Nat]]
      /\ \A y \in Tasks : y # c => forwarders'[y] = forwarders[y]
  BY <1>1, <1>2, HandleState
<1>5. spent' \in [requests : Nat, reloads : Nat, connects : Nat]
      /\ spent'.connects = spent.connects
  BY <1>2 DEF MeshTypes
<1>6. \A e \in Ends : task[e].pc = "down" => forwarders'[e] = {}
  BY <1>1, <1>4, EndFacts DEF Stages
<1>7. ASSUME NEW e \in Ends, task[e].pc \in {"admit", "register"}, wire[e] # 0
      PROVE  forwarders'[Flip(e)] = {}
  <2>1. Flip(e) \in Tasks /\ Flip(e) # c BY <1>1, EndFacts
  <2>2. forwarders[Flip(e)] = {} BY <1>7 DEF Stages
  <2> QED BY <1>4, <2>1, <2>2
<1>8. NothingEarly /\ queue' \in [Ends -> Seq(Msgs)] BY <1>2 DEF NothingEarly, MeshTypes
<1>9. /\ Sensible(r) /\ r.pc \notin {"down", "admit", "register", "drain"}
      /\ \A s \in r.links : Known(s)
  BY <1>3 DEF Sensible
<1> HIDE DEF LinkInv
<1> QED BY <1>9, <1>1, <1>2, <1>3, <1>4, <1>5, <1>6, <1>7, <1>8, TaskMoves

LEMMA ReceiveLinks ==
    ASSUME LinkInv, NEW e \in Ends, Receive(e)
    PROVE  LinkInv'
<1> USE DEF LinkInv
<1> DEFINE d == Flip(e)  m == Head(queue[d])
<1>1. e \in Tasks /\ d \in Ends /\ Flip(d) = e BY EndFacts
<1>2. queue \in [Ends -> Seq(Msgs)] /\ queue[d] \in Seq(Msgs) /\ queue[d] # <<>>
  BY <1>1 DEF Receive, MeshTypes
<1>3. m \in Msgs /\ Tail(queue[d]) \in Seq(Msgs) BY <1>2
<1>4. queue' = [queue EXCEPT ![d] = Tail(queue[d])]
      /\ UNCHANGED <<registered, wire, topicFilter, reload, spent>> /\ task[e].pc = "idle"
  BY DEF Receive, At
<1>5. queue' \in [Ends -> Seq(Msgs)] /\ NothingEarly
  BY <1>1, <1>2, <1>3, <1>4 DEF NothingEarly
<1>6. CASE Handle(e, m.kind, m.filter)
  <2>1. m.filter \in Filters /\ m.kind \in Kinds
    BY <1>3, <1>6 DEF Handle, Msgs, Msg, Kinds
  <2>2. PICK r \in TaskRecords : task' = [task EXCEPT ![e] = r] /\ r.pc = "ack"
                                 /\ r.filter = m.filter /\ r.links = {}
    BY <1>1, <1>6, <2>1, HandleTask
  <2>3. /\ forwarders' \in [Tasks -> SUBSET Filters] /\ counts' \in [Nodes -> [Filters -> Nat]]
        /\ \A y \in Tasks : y # e => forwarders'[y] = forwarders[y]
    BY <1>1, <1>6, <2>1, HandleState
  <2>4. \A b \in Ends : task[b].pc = "down" => forwarders'[b] = {}
    BY <1>4, <2>3, EndFacts DEF Stages
  <2>5. \A b \in Ends : task[b].pc \in {"admit", "register"} /\ wire[b] # 0
                        => forwarders'[Flip(b)] = {}
    <3> SUFFICES ASSUME NEW b \in Ends, task[b].pc \in {"admit", "register"}, wire[b] # 0
                 PROVE  forwarders'[Flip(b)] = {}
      OBVIOUS
    <3>1. queue[b] = <<>> /\ forwarders[Flip(b)] = {} BY DEF Stages
    <3>2. b # d BY <1>2, <3>1
    <3>3. Flip(b) # e /\ Flip(b) \in Tasks BY <1>1, <3>2, EndFacts, FlipIsOne
    <3> QED BY <2>3, <3>1, <3>3
  <2>6. spent' \in [requests : Nat, reloads : Nat, connects : Nat]
        /\ spent'.connects = spent.connects
    BY <1>4 DEF MeshTypes
  <2>7. Sensible(r)
    BY <2>1, <2>2 DEF Sensible
  <2> QED BY <1>1, <1>4, <1>5, <2>2, <2>3, <2>4, <2>5, <2>6, <2>7, TaskMoves
<1>7. CASE UNCHANGED <<forwarders, counts, task>>
  <2>1. MeshTypes' BY <1>4, <1>5, <1>7 DEF MeshTypes
  <2>2. TellsFilter' /\ SendersKnown' BY <1>4, <1>7 DEF TellsFilter, SendersKnown, Known
  <2>3. Wired' BY <1>4, <1>5, <1>7 DEF Wired, NothingEarly
  <2>4. Stages' BY <1>4, <1>5, <1>7 DEF Stages, NothingEarly
  <2> QED BY <2>1, <2>2, <2>3, <2>4
<1> QED BY <1>6, <1>7 DEF Receive

(* The task records that steps produce.                                     *)
LEMMA IdleRecord ==
    /\ Idle \in TaskRecords /\ Idle.pc = "idle" /\ Idle.kind = "none" /\ Idle.links = {}
    /\ Idle.allow = Unrestricted /\ Idle.filter = NoFilter /\ Idle.todo = {}
BY DEF Idle, TaskRecords, Pcs

LEMMA MoveTo ==
    ASSUME NEW r \in TaskRecords, NEW pc \in Pcs
    PROVE  LET q == [r EXCEPT !.pc = pc] IN
           /\ q \in TaskRecords /\ q.pc = pc /\ q.kind = r.kind /\ q.filter = r.filter
           /\ q.links = r.links /\ q.todo = r.todo /\ q.allow = r.allow
BY DEF TaskRecords

LEMMA DrainRecord ==
    LET r == [Idle EXCEPT !.pc = "drain"] IN
    r \in TaskRecords /\ r.pc = "drain" /\ r.kind = "none" /\ r.links = {}
<1>1. "drain" \in Pcs BY DEF Pcs
<1> QED BY <1>1, IdleRecord, MoveTo

LEMMA ResumeRecord ==
    ASSUME NEW x \in Tasks
    PROVE  /\ Resume(x) \in TaskRecords /\ Resume(x).links = {} /\ Resume(x).kind = "none"
           /\ Resume(x).pc \in {"idle", "drain"}
           /\ Resume(x).pc = "drain" /\ x \in Ends => wire[x] = 0
BY IdleRecord, DrainRecord DEF Resume

(* What a task does after its Ack: it rests, or goes on to tell the links.  *)
(* The count of its filter goes to zero only in a task that will tell.      *)
LEMMA AckTask ==
    ASSUME LinkInv, NEW x \in Tasks, task[x].pc = "ack", AfterAck(x)
    PROVE  LET n == NodeOf(x)
               f == task[x].filter
           IN  \E r \in TaskRecords :
               /\ task' = [task EXCEPT ![x] = r]
               /\ \/ r = Idle
                  \/ /\ r.pc = "tell" /\ r.kind = task[x].kind /\ r.kind # "none"
                     /\ r.filter = f /\ r.links = task[x].links
               /\ task[x].kind = "Subscribe" => r.pc = "tell"
               /\ \/ counts' = counts
                  \/ /\ task[x].kind = "Unsubscribe" /\ f \in Filters
                     /\ \E k \in Nat :
                           /\ counts' = [counts EXCEPT ![n][f] = k]
                           /\ k > 0 <=> counts[n][f] > 0 /\ r.pc # "tell"
<1> DEFINE n == NodeOf(x)  f == task[x].filter  r == [task[x] EXCEPT !.pc = "tell"]
<1>1. task[x] \in TaskRecords BY DEF LinkInv, MeshTypes
<1>2. "tell" \in Pcs BY DEF Pcs
<1>3. r \in TaskRecords /\ r.pc = "tell" /\ r.kind = task[x].kind /\ r.filter = f
      /\ r.links = task[x].links
  BY <1>1, <1>2, MoveTo
<1>4. CASE task[x].kind = "none"
  <2>1. task' = [task EXCEPT ![x] = Idle] /\ counts' = counts BY <1>4 DEF AfterAck
  <2> QED BY <1>4, <2>1, IdleRecord
<1>5. CASE task[x].kind = "Subscribe"
  <2>1. task' = [task EXCEPT ![x] = r] /\ counts' = counts BY <1>5 DEF AfterAck, Goto
  <2> HIDE DEF r
  <2> QED BY <1>3, <1>5, <2>1
<1>6. CASE task[x].kind = "Unsubscribe"
  <2> DEFINE k == IF counts[n][f] = 0 THEN 0 ELSE counts[n][f] - 1
  <2>1. f \in Filters BY <1>6 DEF LinkInv, TellsFilter, Sensible
  <2>2. n \in Nodes BY NodesOfTasks
  <2>3. counts[n][f] \in Nat BY <2>1, <2>2 DEF LinkInv, MeshTypes
  <2>4. k \in Nat /\ (k > 0 <=> counts[n][f] > 0 /\ counts[n][f] # 1) BY <2>3
  <2>5. counts' = [counts EXCEPT ![n][f] = k] BY <1>6 DEF AfterAck
  <2>6. task' = [task EXCEPT ![x] = IF counts[n][f] = 1 THEN r ELSE Idle]
    BY <1>6 DEF AfterAck
  <2> HIDE DEF k, r
  <2>7. CASE counts[n][f] = 1 BY <1>3, <1>6, <2>1, <2>4, <2>5, <2>6, <2>7
  <2>8. CASE counts[n][f] # 1 BY <1>6, <2>1, <2>4, <2>5, <2>6, <2>8, IdleRecord
  <2> QED BY <2>7, <2>8
<1> QED BY <1>1, <1>4, <1>5, <1>6 DEF TaskRecords, Kinds

(* The Ack is put into the queue of an end and of nobody else.              *)
LEMMA AckQueue ==
    ASSUME LinkInv, NEW x \in Tasks, SendAck(x)
    PROVE  /\ queue' \in [Ends -> Seq(Msgs)]
           /\ \A e \in Ends : \/ queue'[e] = queue[e]
                              \/ /\ e = x /\ wire[e] # 0
                                 /\ queue'[e] = Append(queue[e], Msg("Ack", NoFilter))
<1>1. Msg("Ack", NoFilter) \in Msgs BY DEF Msgs
<1>2. queue \in [Ends -> Seq(Msgs)] BY DEF LinkInv, MeshTypes
<1>3. CASE x \in Ends
  <2>1. wire[x] # 0 /\ queue' = [queue EXCEPT ![x] = Append(@, Msg("Ack", NoFilter))]
    BY <1>3 DEF SendAck, Room
  <2> QED BY <1>1, <1>3, <2>1, QueueAppend
<1>4. CASE x \notin Ends
  <2>1. queue' = queue BY <1>4 DEF SendAck
  <2> QED BY <1>2, <2>1
<1> QED BY <1>3, <1>4

LEMMA SendAckLinks ==
    ASSUME LinkInv, NEW x \in Tasks, SendAck(x)
    PROVE  LinkInv'
<1>1. task[x].pc = "ack" /\ AfterAck(x)
      /\ UNCHANGED <<forwarders, registered, wire, topicFilter, reload, spent>>
  BY DEF SendAck, At
<1> DEFINE n == NodeOf(x)  f == task[x].filter
<1>2. PICK r \in TaskRecords :
         /\ task' = [task EXCEPT ![x] = r]
         /\ r = Idle \/ (/\ r.pc = "tell" /\ r.kind = task[x].kind /\ r.kind # "none"
                         /\ r.filter = f /\ r.links = task[x].links)
         /\ counts' = counts
            \/ (f \in Filters /\ \E k \in Nat : counts' = [counts EXCEPT ![n][f] = k])
  BY <1>1, AckTask
<1>3. n \in Nodes BY NodesOfTasks
<1>4. counts' \in [Nodes -> [Filters -> Nat]]
  <2>1. CASE counts' = counts BY <2>1 DEF LinkInv, MeshTypes
  <2>2. CASE f \in Filters /\ \E k \in Nat : counts' = [counts EXCEPT ![n][f] = k]
    BY <1>3, <2>2, CountUpdate
  <2> QED BY <1>2, <2>1, <2>2
<1>5. NothingEarly
  BY <1>1, AckQueue DEF NothingEarly
<1>6. /\ Sensible(r) /\ r.pc \notin {"down", "admit", "register", "drain"}
      /\ \A s \in r.links : Known(s)
  BY <1>1, <1>2, IdleRecord DEF LinkInv, TellsFilter, SendersKnown, Sensible
<1>7. queue' \in [Ends -> Seq(Msgs)] BY AckQueue
<1>8. /\ forwarders' \in [Tasks -> SUBSET Filters]
      /\ spent' \in [requests : Nat, reloads : Nat, connects : Nat]
      /\ spent'.connects = spent.connects
  BY <1>1 DEF LinkInv, MeshTypes
<1>9. /\ \A e \in Ends : task[e].pc = "down" => forwarders'[e] = {}
      /\ \A e \in Ends : task[e].pc \in {"admit", "register"} /\ wire[e] # 0
                         => forwarders'[Flip(e)] = {}
  BY <1>1 DEF LinkInv, Stages
<1> QED BY <1>1, <1>2, <1>4, <1>5, <1>6, <1>7, <1>8, <1>9, TaskMoves

(* A step of a task that changes no forwarder, count or setting.            *)
LEMMA QuietMoves ==
    ASSUME LinkInv, NEW x \in Tasks, NEW r \in TaskRecords,
           task' = [task EXCEPT ![x] = r],
           Sensible(r),
           \A s \in r.links : Known(s),
           r.pc \notin {"down", "admit", "register"},
           r.pc = "drain" /\ x \in Ends => wire[x] = 0,
           UNCHANGED <<forwarders, counts, registered, wire, topicFilter, reload, spent>>,
           queue' \in [Ends -> Seq(Msgs)], NothingEarly
    PROVE  LinkInv'
<1>1. /\ forwarders' \in [Tasks -> SUBSET Filters] /\ counts' \in [Nodes -> [Filters -> Nat]]
      /\ spent' \in [requests : Nat, reloads : Nat, connects : Nat]
      /\ spent'.connects = spent.connects
  BY DEF LinkInv, MeshTypes
<1>2. /\ \A e \in Ends : task[e].pc = "down" => forwarders'[e] = {}
      /\ \A e \in Ends : task[e].pc \in {"admit", "register"} /\ wire[e] # 0
                         => forwarders'[Flip(e)] = {}
  BY DEF LinkInv, Stages
<1> QED BY <1>1, <1>2, TaskMoves

LEMMA SendersOf ==
    ASSUME LinkInv, NEW e \in registered
    PROVE  e \in Ends /\ Sender(e) \in Senders /\ Known(Sender(e))
BY DEF LinkInv, MeshTypes, Wired, Sender, Senders, Known

(* Tell: the task ends, or holds the channels of the recipients.            *)
LEMMA TellTask ==
    ASSUME LinkInv, NEW x \in Tasks, Tell(x)
    PROVE  \E r \in TaskRecords :
              /\ task' = [task EXCEPT ![x] = r]
              /\ \/ r = Resume(x) /\ Recipients(x) = {}
                 \/ /\ r.pc = "telling" /\ r.kind = task[x].kind /\ r.filter = task[x].filter
                    /\ r.links = {Sender(e) : e \in Recipients(x)}
<1> DEFINE links == {Sender(e) : e \in Recipients(x)}
           r == [task[x] EXCEPT !.pc = "telling", !.links = links]
<1>1. links \subseteq Senders BY SendersOf DEF Recipients
<1>2. task[x] \in TaskRecords BY DEF LinkInv, MeshTypes
<1>3. task' = [task EXCEPT ![x] = IF Recipients(x) = {} THEN Resume(x) ELSE r]
  BY DEF Tell
<1> HIDE DEF links
<1>4. r \in TaskRecords /\ r.pc = "telling" /\ r.kind = task[x].kind
      /\ r.filter = task[x].filter /\ r.links = links
  BY <1>1, <1>2 DEF TaskRecords, Pcs
<1> HIDE DEF r
<1>5. CASE Recipients(x) = {} BY <1>3, <1>5, ResumeRecord
<1>6. CASE Recipients(x) # {} BY <1>3, <1>4, <1>6 DEF links
<1> QED BY <1>5, <1>6

LEMMA TellLinks ==
    ASSUME LinkInv, NEW x \in Tasks, Tell(x)
    PROVE  LinkInv'
<1>1. PICK r \in TaskRecords :
         /\ task' = [task EXCEPT ![x] = r]
         /\ \/ r = Resume(x)
            \/ /\ r.pc = "telling" /\ r.kind = task[x].kind /\ r.filter = task[x].filter
               /\ r.links = {Sender(e) : e \in Recipients(x)}
  BY TellTask
<1>2. task[x].pc = "tell"
      /\ UNCHANGED <<forwarders, counts, registered, wire, queue, topicFilter, reload, spent>>
  BY DEF Tell, At
<1>3. \A s \in r.links : Known(s)
  BY <1>1, SendersOf, ResumeRecord DEF Recipients
<1>4. /\ Sensible(r) /\ r.pc \notin {"down", "admit", "register"}
      /\ r.pc = "drain" /\ x \in Ends => wire[x] = 0
  BY <1>1, <1>2, ResumeRecord DEF LinkInv, TellsFilter, Sensible
<1>5. NothingEarly /\ queue' \in [Ends -> Seq(Msgs)]
  BY <1>2 DEF NothingEarly, LinkInv, MeshTypes
<1> QED BY <1>1, <1>2, <1>3, <1>4, <1>5, QuietMoves

(* TellOne: one channel is done with, and with the last one the task ends.  *)
LEMMA TellOneTask ==
    ASSUME LinkInv, NEW x \in Tasks, TellOne(x)
    PROVE  \E s \in task[x].links, r \in TaskRecords :
              /\ s \in Senders /\ Known(s)
              /\ Msg(task[x].kind, task[x].filter) \in [kind : Kinds, filter : Filters]
              /\ TrySend(s, Msg(task[x].kind, task[x].filter))
              /\ task' = [task EXCEPT ![x] = r]
              /\ \/ r = Resume(x) /\ task[x].links = {s}
                 \/ /\ r.pc = "telling" /\ r.kind = task[x].kind /\ r.filter = task[x].filter
                    /\ r.links = task[x].links \ {s}
<1>1. PICK s \in task[x].links :
         /\ TrySend(s, Msg(task[x].kind, task[x].filter))
         /\ task' = [task EXCEPT ![x] =
                IF task[x].links = {s} THEN Resume(x)
                ELSE [task[x] EXCEPT !.links = task[x].links \ {s}]]
  BY DEF TellOne
<1> DEFINE r == [task[x] EXCEPT !.links = task[x].links \ {s}]
<1>2. task[x] \in TaskRecords /\ task[x].pc = "telling" BY DEF LinkInv, MeshTypes, TellOne, At
<1>3. r \in TaskRecords /\ r.pc = "telling" /\ r.kind = task[x].kind
      /\ r.filter = task[x].filter /\ r.links = task[x].links \ {s}
  BY <1>2 DEF TaskRecords
<1>4. task' = [task EXCEPT ![x] = IF task[x].links = {s} THEN Resume(x) ELSE r]
  BY <1>1
<1> HIDE DEF r
<1>5. s \in Senders /\ Known(s) BY <1>2 DEF TaskRecords, LinkInv, SendersKnown
<1>6. task[x].kind \in Kinds /\ task[x].filter \in Filters
  BY <1>2 DEF TaskRecords, LinkInv, TellsFilter, Sensible
<1>7. Msg(task[x].kind, task[x].filter) \in [kind : Kinds, filter : Filters]
  BY <1>6 DEF Msg
<1>8. CASE task[x].links = {s} BY <1>1, <1>4, <1>5, <1>7, <1>8, ResumeRecord
<1>9. CASE task[x].links # {s} BY <1>1, <1>3, <1>4, <1>5, <1>7, <1>9
<1> QED BY <1>8, <1>9

LEMMA TellOneLinks ==
    ASSUME LinkInv, NEW x \in Tasks, TellOne(x)
    PROVE  LinkInv'
<1>1. PICK s \in task[x].links, r \in TaskRecords :
         /\ s \in Senders /\ Known(s)
         /\ Msg(task[x].kind, task[x].filter) \in [kind : Kinds, filter : Filters]
         /\ TrySend(s, Msg(task[x].kind, task[x].filter))
         /\ task' = [task EXCEPT ![x] = r]
         /\ \/ r = Resume(x)
            \/ /\ r.pc = "telling" /\ r.kind = task[x].kind /\ r.filter = task[x].filter
               /\ r.links = task[x].links \ {s}
  BY TellOneTask
<1>2. task[x].pc = "telling"
      /\ UNCHANGED <<forwarders, counts, registered, wire, topicFilter, reload, spent>>
  BY DEF TellOne, At
<1>3. queue' \in [Ends -> Seq(Msgs)] /\ NothingEarly
  BY <1>1, TrySendQueues, TrySendNotEarly
<1>4. /\ Sensible(r) /\ r.pc \notin {"down", "admit", "register"}
      /\ r.pc = "drain" /\ x \in Ends => wire[x] = 0
      /\ \A k \in r.links : Known(k)
  BY <1>1, <1>2, ResumeRecord DEF LinkInv, TellsFilter, Sensible, SendersKnown
<1> QED BY <1>1, <1>2, <1>3, <1>4, QuietMoves

(* The filters of the snapshot are to be sent.                              *)
LEMMA SnapshotTask ==
    ASSUME LinkInv, NEW e \in Ends, Snapshot(e)
    PROVE  LET todo == {f \in Filters : Interested(e[1], f) /\ Relays(task[e].allow, e[2], f)}
           IN  \E r \in TaskRecords :
                  /\ task' = [task EXCEPT ![e] = r] /\ r.links = {} /\ r.kind = "none"
                  /\ (r.pc = "idle" /\ todo = {}) \/ (r.pc = "catchup" /\ r.todo = todo)
<1> DEFINE todo == {f \in Filters : Interested(e[1], f) /\ Relays(task[e].allow, e[2], f)}
           r == [Idle EXCEPT !.pc = "catchup", !.todo = todo]
<1>1. task' = [task EXCEPT ![e] = IF todo = {} THEN Idle ELSE r]
  BY DEF Snapshot
<1>2. todo \subseteq Filters OBVIOUS
<1> HIDE DEF todo
<1>3. r \in TaskRecords /\ r.pc = "catchup" /\ r.todo = todo /\ r.links = {} /\ r.kind = "none"
  BY <1>2 DEF Idle, TaskRecords, Pcs
<1> HIDE DEF r
<1>4. \E t \in TaskRecords :
         /\ task' = [task EXCEPT ![e] = t] /\ t.links = {} /\ t.kind = "none"
         /\ (t.pc = "idle" /\ todo = {}) \/ (t.pc = "catchup" /\ t.todo = todo)
  <2>1. CASE todo = {} BY <1>1, <2>1, IdleRecord
  <2>2. CASE todo # {} BY <1>1, <1>3, <2>2
  <2> QED BY <2>1, <2>2
<1> QED BY <1>4 DEF todo

LEMMA SnapshotLinks ==
    ASSUME LinkInv, NEW e \in Ends, Snapshot(e)
    PROVE  LinkInv'
<1>1. PICK r \in TaskRecords : /\ task' = [task EXCEPT ![e] = r] /\ r.links = {}
                               /\ r.kind = "none" /\ r.pc \in {"idle", "catchup"}
  BY SnapshotTask
<1>2. UNCHANGED <<forwarders, counts, registered, wire, queue, topicFilter, reload, spent>>
  BY DEF Snapshot
<1>3. Sensible(r) /\ r.pc \notin {"down", "admit", "register", "drain"}
  BY <1>1 DEF Sensible
<1>4. NothingEarly /\ queue' \in [Ends -> Seq(Msgs)]
  BY <1>2 DEF NothingEarly, LinkInv, MeshTypes
<1>5. e \in Tasks BY EndFacts
<1> QED BY <1>1, <1>2, <1>3, <1>4, <1>5, QuietMoves

(* One filter of the catch-up is sent, and the last one ends it.            *)
LEMMA CatchUpTask ==
    ASSUME LinkInv, NEW e \in Ends, CatchUp(e)
    PROVE  \E f \in task[e].todo, r \in TaskRecords :
              /\ f \in Filters /\ Sender(e) \in Senders
              /\ Msg("Subscribe", f) \in [kind : Kinds, filter : Filters]
              /\ TrySend(Sender(e), Msg("Subscribe", f))
              /\ task' = [task EXCEPT ![e] = r]
              /\ \/ r = Idle /\ task[e].todo = {f}
                 \/ /\ r.pc = "catchup" /\ r.kind = task[e].kind /\ r.links = task[e].links
                    /\ r.todo = task[e].todo \ {f}
<1>1. e \in Tasks BY EndFacts
<1>2. PICK f \in task[e].todo :
         /\ TrySend(Sender(e), Msg("Subscribe", f))
         /\ task' = [task EXCEPT ![e] =
                IF task[e].todo = {f} THEN Idle
                ELSE [task[e] EXCEPT !.todo = task[e].todo \ {f}]]
  BY DEF CatchUp
<1> DEFINE r == [task[e] EXCEPT !.todo = task[e].todo \ {f}]
<1>3. task[e] \in TaskRecords /\ task[e].pc = "catchup"
  BY <1>1 DEF LinkInv, MeshTypes, CatchUp, At
<1>4. r \in TaskRecords /\ r.pc = "catchup" /\ r.kind = task[e].kind
      /\ r.links = task[e].links /\ r.todo = task[e].todo \ {f}
  BY <1>3 DEF TaskRecords
<1>5. task' = [task EXCEPT ![e] = IF task[e].todo = {f} THEN Idle ELSE r]
  BY <1>2
<1> HIDE DEF r
<1>6. f \in Filters BY <1>3 DEF TaskRecords
<1>7. Msg("Subscribe", f) \in [kind : Kinds, filter : Filters] BY <1>6 DEF Msg, Kinds
<1>8. Sender(e) \in Senders BY DEF Sender, Senders, LinkInv, MeshTypes
<1>9. CASE task[e].todo = {f} BY <1>2, <1>5, <1>6, <1>7, <1>8, <1>9, IdleRecord
<1>10. CASE task[e].todo # {f} BY <1>2, <1>4, <1>5, <1>6, <1>7, <1>8, <1>10
<1> QED BY <1>9, <1>10

LEMMA CatchUpLinks ==
    ASSUME LinkInv, NEW e \in Ends, CatchUp(e)
    PROVE  LinkInv'
<1>1. PICK f \in task[e].todo, r \in TaskRecords :
         /\ f \in Filters /\ Sender(e) \in Senders
         /\ Msg("Subscribe", f) \in [kind : Kinds, filter : Filters]
         /\ TrySend(Sender(e), Msg("Subscribe", f))
         /\ task' = [task EXCEPT ![e] = r]
         /\ \/ r = Idle
            \/ /\ r.pc = "catchup" /\ r.kind = task[e].kind /\ r.links = task[e].links
  BY CatchUpTask
<1>2. task[e].pc = "catchup"
      /\ UNCHANGED <<forwarders, counts, registered, wire, topicFilter, reload, spent>>
  BY DEF CatchUp, At
<1>3. e \in Tasks /\ Sender(e)[1] = e BY EndFacts DEF Sender
<1>4. queue' \in [Ends -> Seq(Msgs)] /\ NothingEarly
  BY <1>1, <1>2, <1>3, TrySendQueues, TrySendNotEarly
<1>5. /\ Sensible(r) /\ r.pc \notin {"down", "admit", "register", "drain"}
      /\ \A s \in r.links : Known(s)
  BY <1>1, <1>3, IdleRecord DEF LinkInv, Sensible, SendersKnown
<1> QED BY <1>1, <1>2, <1>3, <1>4, <1>5, QuietMoves

LEMMA LinkEndsLinks ==
    ASSUME LinkInv, NEW e \in Ends, LinkEnds(e)
    PROVE  LinkInv'
<1> DEFINE r == [Idle EXCEPT !.pc = "drain"]
<1>1. task' = [task EXCEPT ![e] = r] /\ wire[e] = 0
      /\ UNCHANGED <<forwarders, counts, registered, wire, queue, topicFilter, reload, spent>>
  BY DEF LinkEnds
<1>2. r \in TaskRecords /\ r.pc = "drain" /\ r.kind = "none" /\ r.links = {}
  BY DrainRecord
<1> HIDE DEF r
<1>3. Sensible(r) BY <1>2 DEF Sensible
<1>4. NothingEarly /\ queue' \in [Ends -> Seq(Msgs)]
  BY <1>1 DEF NothingEarly, LinkInv, MeshTypes
<1>5. e \in Tasks BY EndFacts
<1> QED BY <1>1, <1>2, <1>3, <1>4, <1>5, QuietMoves

(* A drained filter: the count goes to zero only if the links are told.     *)
LEMMA DrainTask ==
    ASSUME LinkInv, NEW e \in Ends, NEW f \in Filters, Drain(e, f)
    PROVE  /\ task[e].pc = "drain"
           /\ \E r \in TaskRecords, k \in Nat :
              /\ task' = [task EXCEPT ![e] = r] /\ r.kind = "Unsubscribe" /\ r.filter = f
              /\ r.pc \in {"tell", "drain"} /\ r.links = task[e].links
              /\ counts' = [counts EXCEPT ![e[1]][f] = k]
              /\ k > 0 <=> counts[e[1]][f] > 0 /\ r.pc # "tell"
<1> DEFINE k == IF counts[e[1]][f] = 0 THEN 0 ELSE counts[e[1]][f] - 1
           p == IF counts[e[1]][f] = 1 THEN "tell" ELSE "drain"
           r == [task[e] EXCEPT !.pc = p, !.kind = "Unsubscribe", !.filter = f]
<1>1. e \in Tasks /\ e[1] \in Nodes BY EndFacts
<1>2. task[e] \in TaskRecords /\ counts[e[1]][f] \in Nat /\ task[e].pc = "drain"
  BY <1>1 DEF LinkInv, MeshTypes, Drain, At
<1>3. task' = [task EXCEPT ![e] = r] /\ counts' = [counts EXCEPT ![e[1]][f] = k]
  BY DEF Drain
<1>4. k \in Nat /\ (k > 0 <=> counts[e[1]][f] > 0 /\ counts[e[1]][f] # 1)
  BY <1>2
<1>5. p \in {"tell", "drain"} /\ (p # "tell" <=> counts[e[1]][f] # 1)
  OBVIOUS
<1> HIDE DEF p, k
<1>6. r \in TaskRecords /\ r.pc = p /\ r.kind = "Unsubscribe" /\ r.filter = f
      /\ r.links = task[e].links
  BY <1>2, <1>5 DEF TaskRecords, Pcs, Kinds
<1> HIDE DEF r
<1> QED BY <1>2, <1>3, <1>4, <1>5, <1>6

LEMMA DrainLinks ==
    ASSUME LinkInv, NEW e \in Ends, NEW f \in Filters, Drain(e, f)
    PROVE  LinkInv'
<1>1. task[e].pc = "drain" BY DrainTask
<1>2. PICK r \in TaskRecords, k \in Nat :
         /\ task' = [task EXCEPT ![e] = r] /\ r.kind = "Unsubscribe" /\ r.filter = f
         /\ r.pc \in {"tell", "drain"} /\ r.links = task[e].links
         /\ counts' = [counts EXCEPT ![e[1]][f] = k]
         /\ k > 0 <=> counts[e[1]][f] > 0 /\ r.pc # "tell"
  BY DrainTask
<1>3. e \in Tasks /\ e[1] \in Nodes BY EndFacts
<1>4. counts' \in [Nodes -> [Filters -> Nat]] BY <1>2, <1>3, CountUpdate
<1>5. forwarders' = [forwarders EXCEPT ![e] = forwarders[e] \ {f}]
      /\ UNCHANGED <<registered, wire, queue, topicFilter, reload, spent>>
  BY DEF Drain
<1>6. /\ forwarders' \in [Tasks -> SUBSET Filters]
      /\ \A y \in Tasks : forwarders'[y] \subseteq forwarders[y]
  BY <1>3, <1>5 DEF LinkInv, MeshTypes
<1>7. \A d \in Ends : task[d].pc = "down" => forwarders'[d] = {}
  BY <1>6, EndFacts DEF LinkInv, Stages
<1>8. ASSUME NEW d \in Ends, task[d].pc \in {"admit", "register"}, wire[d] # 0
      PROVE  forwarders'[Flip(d)] = {}
  <2>1. Flip(d) \in Tasks /\ forwarders[Flip(d)] = {} BY <1>8, EndFacts DEF LinkInv, Stages
  <2> QED BY <1>6, <2>1
<1>9. /\ Sensible(r) /\ r.pc \notin {"down", "admit", "register"} /\ wire[e] = 0
      /\ \A s \in r.links : Known(s)
  BY <1>1, <1>2, <1>3 DEF LinkInv, Sensible, SendersKnown, Stages
<1>10. /\ NothingEarly /\ queue' \in [Ends -> Seq(Msgs)]
       /\ spent' \in [requests : Nat, reloads : Nat, connects : Nat]
       /\ spent'.connects = spent.connects
  BY <1>5 DEF NothingEarly, LinkInv, MeshTypes
<1> QED BY <1>2, <1>3, <1>4, <1>5, <1>6, <1>7, <1>8, <1>9, <1>10, TaskMoves

LEMMA ConnectLinks ==
    ASSUME LinkInv, NEW l \in Links, Connect(l)
    PROVE  LinkInv'
<1> USE DEF LinkInv
<1> DEFINE On(e) == {e[1], e[2]} = l
           r == [Idle EXCEPT !.pc = "admit"]
           c == spent.connects + 1
<1>1. /\ \A e \in Ends : On(e) => task[e].pc = "down"
      /\ wire' = [e \in Ends |-> IF On(e) THEN c ELSE wire[e]]
      /\ task' = [x \in Tasks |-> IF x \in Ends /\ On(x) THEN r ELSE task[x]]
      /\ spent' = [spent EXCEPT !.connects = c]
      /\ UNCHANGED <<forwarders, counts, registered, queue, topicFilter, reload>>
  BY DEF Connect, At
<1>2. r \in TaskRecords /\ r.pc = "admit" /\ r.kind = "none" /\ r.links = {}
  <2>1. "admit" \in Pcs BY DEF Pcs
  <2> QED BY <2>1, IdleRecord, MoveTo
<1>3. spent.connects \in Nat /\ c \in Nat /\ c > spent.connects /\ c # 0
      /\ spent' \in [requests : Nat, reloads : Nat, connects : Nat] /\ spent'.connects = c
  <2>1. spent \in [requests : Nat, reloads : Nat, connects : Nat] BY DEF MeshTypes
  <2>2. spent.connects \in Nat BY <2>1
  <2>3. c \in Nat /\ c > spent.connects /\ c # 0 BY <2>2
  <2>4. spent' = [spent EXCEPT !.connects = c] BY <1>1
  <2> HIDE DEF c
  <2> QED BY <2>1, <2>2, <2>3, <2>4
<1>4. \A e \in Ends : On(Flip(e)) <=> On(e)
  BY SameLink
<1> HIDE DEF On, r, c
<1>5. ASSUME NEW e \in Ends
      PROVE  /\ e \in Tasks /\ wire'[e] = (IF On(e) THEN c ELSE wire[e])
             /\ task'[e] = IF On(e) THEN r ELSE task[e]
  <2>1. e \in Tasks BY EndFacts
  <2>2. wire'[e] = IF On(e) THEN c ELSE wire[e] BY <1>1
  <2>3. task'[e] = IF On(e) THEN r ELSE task[e] BY <1>1, <2>1
  <2> QED BY <2>1, <2>2, <2>3
<1>6. \A x \in Tasks : task'[x] = task[x] \/ task'[x] = r
  BY <1>1
<1>7. MeshTypes'
  <2>1. task' \in [Tasks -> TaskRecords] BY <1>1, <1>2 DEF MeshTypes
  <2>2. wire' \in [Ends -> Nat] BY <1>1, <1>3 DEF MeshTypes
  <2> QED BY <1>1, <1>3, <2>1, <2>2 DEF MeshTypes
<1>8. TellsFilter'
  BY <1>2, <1>6 DEF TellsFilter, Sensible
<1>9. Wired'
  <2> SUFFICES ASSUME NEW e \in Ends
               PROVE  /\ wire'[e] = wire'[Flip(e)] /\ wire'[e] <= spent'.connects
                      /\ wire'[e] = 0 => queue'[e] = <<>>
    BY DEF Wired
  <2>1. /\ Flip(e) \in Ends /\ wire[e] \in Nat /\ wire[e] = wire[Flip(e)]
        /\ wire[e] <= spent.connects /\ (wire[e] = 0 => queue[e] = <<>>)
    BY EndFacts DEF MeshTypes, Wired
  <2>2. CASE On(e) BY <1>1, <1>3, <1>4, <1>5, <2>1, <2>2
  <2>3. CASE ~On(e) BY <1>1, <1>3, <1>4, <1>5, <2>1, <2>3
  <2> QED BY <2>2, <2>3
<1>10. Stages'
  <2> SUFFICES ASSUME NEW e \in Ends
               PROVE  /\ task'[e].pc \in {"down", "admit", "register"} => e \notin registered
                      /\ task'[e].pc = "down" => forwarders[e] = {}
                      /\ task'[e].pc \in {"down", "drain"} => wire'[e] = 0
                      /\ task'[e].pc \in {"admit", "register"} /\ wire'[e] # 0
                           => queue[e] = <<>> /\ forwarders[Flip(e)] = {}
    BY <1>1 DEF Stages
  <2>1. Flip(e) \in Ends BY EndFacts
  <2>2. CASE On(e)
    <3>1. task[e].pc = "down" /\ task[Flip(e)].pc = "down" BY <1>1, <1>4, <2>1, <2>2
    <3>2. e \notin registered /\ queue[e] = <<>> /\ forwarders[Flip(e)] = {}
      BY <2>1, <3>1 DEF Stages, Wired
    <3> QED BY <1>2, <1>5, <2>2, <3>2
  <2>3. CASE ~On(e) BY <1>5, <2>3 DEF Stages
  <2> QED BY <2>2, <2>3
<1>11. SendersKnown'
  <2>1. ASSUME NEW s \in Senders, Known(s) PROVE Known(s)'
    <3>1. s[1] \in Ends /\ s[2] \in Nat /\ s[2] <= spent.connects BY <2>1 DEF Senders, Known
    <3>2. s[2] <= c /\ s[2] # c BY <1>3, <3>1
    <3>3. s[2] # 0 /\ s[2] = wire'[s[1]] => s[1] \in registered
      BY <1>5, <2>1, <3>1, <3>2 DEF Known
    <3> QED BY <1>1, <1>3, <3>2, <3>3 DEF Known
  <2>2. ASSUME NEW x \in Tasks, NEW s \in task'[x].links PROVE Known(s)'
    <3>1. s \in task[x].links BY <1>2, <1>6, <2>2
    <3>2. s \in Senders /\ Known(s) BY <3>1 DEF MeshTypes, TaskRecords, SendersKnown
    <3> QED BY <2>1, <3>2
  <2>3. ASSUME NEW n \in Nodes, NEW p \in reload[n].todo PROVE Known(p[1])'
    <3>1. p[1] \in Senders /\ Known(p[1]) BY DEF MeshTypes, ReloadRecords, SendersKnown
    <3> QED BY <2>1, <3>1
  <2>4. ASSUME NEW n \in Nodes, reload[n].next # <<>>
        PROVE  \E s : s = reload[n].next[1] /\ Known(s)'
    <3> SUFFICES ASSUME NEW s, s = reload[n].next[1] PROVE Known(s)' OBVIOUS
    <3>1. s \in Senders /\ Known(s) BY <2>4 DEF MeshTypes, ReloadRecords, SendersKnown
    <3> QED BY <2>1, <3>1
  <2> QED BY <1>1, <2>2, <2>3, <2>4 DEF SendersKnown, Known
<1> QED BY <1>7, <1>8, <1>9, <1>10, <1>11

LEMMA BreakLinks ==
    ASSUME LinkInv, NEW l \in Links, Break(l)
    PROVE  LinkInv'
<1> USE DEF LinkInv
<1> DEFINE On(e) == {e[1], e[2]} = l
<1>1. /\ wire' = [e \in Ends |-> IF On(e) THEN 0 ELSE wire[e]]
      /\ queue' = [e \in Ends |-> IF On(e) THEN <<>> ELSE queue[e]]
      /\ UNCHANGED <<forwarders, counts, task, registered, topicFilter, reload, spent>>
  BY DEF Break
<1>2. \A e \in Ends : On(Flip(e)) <=> On(e)
  BY SameLink
<1> HIDE DEF On
<1>3. \A e \in Ends : /\ wire'[e] = (IF On(e) THEN 0 ELSE wire[e])
                      /\ queue'[e] = IF On(e) THEN <<>> ELSE queue[e]
  BY <1>1
<1>4. MeshTypes'
  <2>1. wire' \in [Ends -> Nat] BY <1>1 DEF MeshTypes
  <2>2. queue' \in [Ends -> Seq(Msgs)] BY <1>1 DEF MeshTypes
  <2> QED BY <1>1, <2>1, <2>2 DEF MeshTypes
<1>5. TellsFilter' BY <1>1 DEF TellsFilter
<1>6. Wired'
  <2> SUFFICES ASSUME NEW e \in Ends
               PROVE  /\ wire'[e] = wire'[Flip(e)] /\ wire'[e] <= spent.connects
                      /\ wire'[e] = 0 => queue'[e] = <<>>
    BY <1>1 DEF Wired
  <2>1. Flip(e) \in Ends /\ spent.connects \in Nat BY EndFacts DEF MeshTypes
  <2>2. CASE On(e) BY <1>2, <1>3, <2>1, <2>2
  <2>3. CASE ~On(e) BY <1>2, <1>3, <2>1, <2>3 DEF Wired
  <2> QED BY <2>2, <2>3
<1>7. Stages'
  <2>1. ASSUME NEW e \in Ends PROVE wire'[e] # 0 => wire'[e] = wire[e] /\ queue'[e] = queue[e]
    BY <1>3
  <2>2. ASSUME NEW e \in Ends PROVE wire[e] = 0 => wire'[e] = 0
    BY <1>3
  <2> QED BY <1>1, <2>1, <2>2 DEF Stages
<1>8. SendersKnown'
  <2>1. ASSUME NEW s \in Senders, Known(s) PROVE Known(s)'
    <3>1. s[1] \in Ends BY DEF Senders
    <3> QED BY <1>1, <1>3, <2>1, <3>1 DEF Known
  <2>2. ASSUME NEW x \in Tasks, NEW s \in task[x].links PROVE Known(s)'
    <3>1. s \in Senders /\ Known(s) BY DEF MeshTypes, TaskRecords, SendersKnown
    <3> QED BY <2>1, <3>1
  <2>3. ASSUME NEW n \in Nodes, NEW p \in reload[n].todo PROVE Known(p[1])'
    <3>1. p[1] \in Senders /\ Known(p[1]) BY DEF MeshTypes, ReloadRecords, SendersKnown
    <3> QED BY <2>1, <3>1
  <2>4. ASSUME NEW n \in Nodes, reload[n].next # <<>>
        PROVE  \E s : s = reload[n].next[1] /\ Known(s)'
    <3> SUFFICES ASSUME NEW s, s = reload[n].next[1] PROVE Known(s)' OBVIOUS
    <3>1. s \in Senders /\ Known(s) BY <2>4 DEF MeshTypes, ReloadRecords, SendersKnown
    <3> QED BY <2>1, <3>1
  <2> QED BY <1>1, <2>2, <2>3, <2>4 DEF SendersKnown, Known
<1> QED BY <1>4, <1>5, <1>6, <1>7, <1>8

(* The filter a new link was admitted under is kept for its catch-up.       *)
LEMMA AdmitTask ==
    ASSUME LinkInv, NEW e \in Ends, Admit(e)
    PROVE  \E r \in TaskRecords : /\ task' = [task EXCEPT ![e] = r] /\ r.pc = "register"
                                  /\ r.kind = task[e].kind /\ r.links = task[e].links
                                  /\ r.filter = task[e].filter
<1> DEFINE r == [task[e] EXCEPT !.pc = "register", !.allow = topicFilter[e[1]]]
<1>1. e \in Tasks /\ e[1] \in Nodes BY EndFacts
<1>2. task[e] \in TaskRecords /\ topicFilter[e[1]] \in PeerFilters
  BY <1>1 DEF LinkInv, MeshTypes
<1>3. task' = [task EXCEPT ![e] = r] BY DEF Admit
<1>4. r \in TaskRecords /\ r.pc = "register" /\ r.kind = task[e].kind
      /\ r.links = task[e].links /\ r.filter = task[e].filter
  BY <1>2 DEF TaskRecords, Pcs
<1> QED BY <1>3, <1>4

(* A step by which an end enters or leaves the registered links, or gets    *)
(* ready to.                                                                *)
LEMMA StageMoves ==
    ASSUME LinkInv, NEW e \in Ends, NEW r \in TaskRecords, task' = [task EXCEPT ![e] = r],
           Sensible(r), r.links \subseteq task[e].links,
           r.pc \in {"down", "admit", "register"} => e \notin registered',
           r.pc = "down" => forwarders[e] = {},
           r.pc \in {"down", "drain"} => wire[e] = 0,
           r.pc \in {"admit", "register"} => task[e].pc \in {"admit", "register"},
           registered' \subseteq registered \cup {e},
           wire[e] # 0 => registered \subseteq registered',
           registered \ {e} \subseteq registered',
           UNCHANGED <<forwarders, counts, wire, queue, topicFilter, reload, spent>>
    PROVE  LinkInv'
<1> USE DEF LinkInv
<1>1. e \in Tasks BY EndFacts
<1>2. task' \in [Tasks -> TaskRecords] /\ task'[e] = r
      /\ \A y \in Tasks : y # e => task'[y] = task[y]
  BY <1>1 DEF MeshTypes
<1>3. MeshTypes' BY <1>2 DEF MeshTypes
<1>4. TellsFilter' BY <1>2 DEF TellsFilter
<1>5. Wired' BY DEF Wired
<1>6. Stages'
  <2> SUFFICES ASSUME NEW d \in Ends
               PROVE  /\ task'[d].pc \in {"down", "admit", "register"} => d \notin registered'
                      /\ task'[d].pc = "down" => forwarders[d] = {}
                      /\ task'[d].pc \in {"down", "drain"} => wire[d] = 0
                      /\ task'[d].pc \in {"admit", "register"} /\ wire[d] # 0
                           => queue[d] = <<>> /\ forwarders[Flip(d)] = {}
    BY DEF Stages
  <2>1. CASE d = e BY <1>2, <2>1 DEF Stages
  <2>2. CASE d # e
    <3>1. task'[d] = task[d] BY <1>2, <2>2, EndFacts
    <3> QED BY <2>2, <3>1 DEF Stages
  <2> QED BY <2>1, <2>2
<1>7. SendersKnown'
  <2>1. ASSUME NEW s, Known(s) PROVE Known(s)'
    <3>1. s[2] # 0 /\ s[2] = wire[s[1]] => s[1] \in registered' BY <2>1 DEF Known
    <3> QED BY <2>1, <3>1 DEF Known
  <2>2. ASSUME NEW x \in Tasks, NEW s \in task'[x].links PROVE Known(s)'
    <3>1. s \in task[x].links BY <1>2, <2>2
    <3> QED BY <2>1, <3>1 DEF SendersKnown
  <2>3. ASSUME NEW n \in Nodes, NEW p \in reload[n].todo PROVE Known(p[1])'
    BY <2>1 DEF SendersKnown
  <2>4. ASSUME NEW n \in Nodes, reload[n].next # <<>>
        PROVE  \E s : s = reload[n].next[1] /\ Known(s)'
    <3> SUFFICES ASSUME NEW s, s = reload[n].next[1] PROVE Known(s)' OBVIOUS
    <3>1. Known(s) BY <2>4 DEF SendersKnown
    <3> QED BY <2>1, <3>1
  <2> QED BY <2>2, <2>3, <2>4 DEF SendersKnown, Known
<1> QED BY <1>3, <1>4, <1>5, <1>6, <1>7

LEMMA StageLinks ==
    ASSUME LinkInv, NEW e \in Ends, Admit(e) \/ RegisterLink(e) \/ Unregister(e)
    PROVE  LinkInv'
<1>1. e \in Tasks /\ task[e] \in TaskRecords BY EndFacts DEF LinkInv, MeshTypes
<1>2. CASE Admit(e)
  <2>1. PICK r \in TaskRecords : /\ task' = [task EXCEPT ![e] = r] /\ r.pc = "register"
                                 /\ r.kind = task[e].kind /\ r.links = task[e].links
    BY <1>2, AdmitTask
  <2>2. task[e].pc = "admit" /\ e \notin registered
        /\ UNCHANGED <<forwarders, counts, registered, wire, queue, topicFilter, reload, spent>>
    BY <1>2 DEF Admit, At, LinkInv, Stages
  <2>3. Sensible(r) BY <2>1 DEF Sensible
  <2> QED BY <2>1, <2>2, <2>3, StageMoves
<1>3. CASE RegisterLink(e)
  <2> DEFINE r == [task[e] EXCEPT !.pc = "snapshot"]
  <2>1. "snapshot" \in Pcs BY DEF Pcs
  <2>2. r \in TaskRecords /\ r.pc = "snapshot" /\ r.links = task[e].links
    BY <1>1, <2>1, MoveTo
  <2>3. task' = [task EXCEPT ![e] = r] BY <1>3 DEF RegisterLink, Goto
  <2>4. registered' = registered \cup {e}
        /\ UNCHANGED <<forwarders, counts, wire, queue, topicFilter, reload, spent>>
    BY <1>3 DEF RegisterLink
  <2> HIDE DEF r
  <2>5. Sensible(r) BY <2>2 DEF Sensible
  <2> QED BY <2>2, <2>3, <2>4, <2>5, StageMoves
<1>4. CASE Unregister(e)
  <2>1. "down" \in Pcs BY DEF Pcs
  <2>2. Down \in TaskRecords /\ Down.pc = "down" /\ Down.links = {}
    BY <2>1, IdleRecord, MoveTo DEF Down
  <2>3. /\ task' = [task EXCEPT ![e] = Down] /\ registered' = registered \ {e}
        /\ forwarders[e] = {} /\ task[e].pc = "drain"
        /\ UNCHANGED <<forwarders, counts, wire, queue, topicFilter, reload, spent>>
    BY <1>4 DEF Unregister, At
  <2>4. wire[e] = 0 BY <2>3 DEF LinkInv, Stages
  <2>5. Sensible(Down) BY <2>2 DEF Sensible
  <2> QED BY <2>2, <2>3, <2>4, <2>5, StageMoves
<1> QED BY <1>2, <1>3, <1>4

(* The steps of a reload.                                                   *)
LEMMA InstallLinks ==
    ASSUME LinkInv, NEW n \in Nodes, NEW filter \in PeerFilters, Install(n, filter)
    PROVE  LinkInv'
<1> DEFINE r == [reload[n] EXCEPT !.pc = "collect"]
<1>1. reload[n] \in ReloadRecords BY DEF LinkInv, MeshTypes
<1>2. r \in ReloadRecords /\ r.todo = reload[n].todo /\ r.next = reload[n].next
  BY <1>1 DEF ReloadRecords
<1>3. /\ reload' = [reload EXCEPT ![n] = r] /\ topicFilter' = [topicFilter EXCEPT ![n] = filter]
      /\ spent' = [spent EXCEPT !.reloads = @ + 1]
      /\ UNCHANGED <<forwarders, counts, task, registered, wire, queue>>
  BY DEF Install
<1> HIDE DEF r
<1>4. /\ \A p \in r.todo : Known(p[1])
      /\ r.next # <<>> => Known(r.next[1])
  BY <1>2 DEF LinkInv, SendersKnown
<1>5. topicFilter' \in [Nodes -> PeerFilters] BY <1>3 DEF LinkInv, MeshTypes
<1>6. spent' \in [requests : Nat, reloads : Nat, connects : Nat]
      /\ spent'.connects = spent.connects
  <2>1. spent \in [requests : Nat, reloads : Nat, connects : Nat] BY DEF LinkInv, MeshTypes
  <2>2. spent.reloads + 1 \in Nat BY <2>1
  <2> QED BY <1>3, <2>1, <2>2
<1>7. NothingEarly /\ queue' \in [Ends -> Seq(Msgs)]
  BY <1>3 DEF NothingEarly, LinkInv, MeshTypes
<1> QED BY <1>2, <1>3, <1>4, <1>5, <1>6, <1>7, ReloadMoves

(* Everything a reload of n is to go through.                               *)
Sweep(n) == {Sender(e) : e \in {r \in registered : r[1] = n}} \X {f \in Filters : Interested(n, f)}

LEMMA CollectReload ==
    ASSUME LinkInv, NEW n \in Nodes, Collect(n)
    PROVE  \E r \in ReloadRecords :
              /\ reload' = [reload EXCEPT ![n] = r] /\ r.pc = "reconcile"
              /\ r.todo = Sweep(n) /\ r.next = reload[n].next
<1> DEFINE t == Sweep(n)
           r == [reload[n] EXCEPT !.pc = "reconcile", !.todo = t]
<1>1. reload[n] \in ReloadRecords BY DEF LinkInv, MeshTypes
<1>2. reload' = [reload EXCEPT ![n] = r] BY DEF Collect, Sweep
<1>3. {Sender(e) : e \in {b \in registered : b[1] = n}} \subseteq Senders BY SendersOf
<1>4. t \subseteq Senders \X Filters BY <1>3 DEF Sweep
<1> HIDE DEF t
<1>5. r \in ReloadRecords /\ r.pc = "reconcile" /\ r.todo = t /\ r.next = reload[n].next
  BY <1>1, <1>4 DEF ReloadRecords
<1> QED BY <1>2, <1>5 DEF t

LEMMA CollectLinks ==
    ASSUME LinkInv, NEW n \in Nodes, Collect(n)
    PROVE  LinkInv'
<1>1. PICK r \in ReloadRecords : /\ reload' = [reload EXCEPT ![n] = r]
                                 /\ r.todo = Sweep(n) /\ r.next = reload[n].next
  BY CollectReload
<1>2. UNCHANGED <<forwarders, counts, task, registered, wire, queue, topicFilter, spent>>
  BY DEF Collect
<1>3. \A p \in r.todo : Known(p[1])
  <2> SUFFICES ASSUME NEW p \in Sweep(n) PROVE Known(p[1]) BY <1>1
  <2>1. PICK e \in registered : p[1] = Sender(e) BY DEF Sweep
  <2> QED BY <2>1, SendersOf
<1>4. r.next # <<>> => Known(r.next[1]) BY <1>1 DEF LinkInv, SendersKnown
<1>5. /\ topicFilter' \in [Nodes -> PeerFilters]
      /\ spent' \in [requests : Nat, reloads : Nat, connects : Nat]
      /\ spent'.connects = spent.connects
      /\ NothingEarly /\ queue' \in [Ends -> Seq(Msgs)]
  BY <1>2 DEF NothingEarly, LinkInv, MeshTypes
<1> QED BY <1>1, <1>2, <1>3, <1>4, <1>5, ReloadMoves

(* A filter of a link is looked at: it is told something, or nothing.       *)
LEMMA CheckReload ==
    ASSUME LinkInv, NEW n \in Nodes, ReconcileCheck(n)
    PROVE  \E p \in reload[n].todo, r \in ReloadRecords :
              /\ p[1] \in Senders /\ p[2] \in Filters /\ p = <<p[1], p[2]>>
              /\ reload' = [reload EXCEPT ![n] = r] /\ r.pc = "reconcile"
              /\ r.todo = reload[n].todo \ {p} /\ r.next = ReconcileMsg(n, p[1], p[2])
              /\ doubt' = IF /\ Interested(n, p[2]) /\ PassedOver(n, p[2])
                             /\ p[1] = Sender(p[1][1])
                          THEN doubt \cup {<<p[1][1], p[2]>>} ELSE doubt
<1>1. reload[n] \in ReloadRecords /\ reload[n].pc = "reconcile"
  BY DEF LinkInv, MeshTypes, ReconcileCheck
<1>2. PICK p \in reload[n].todo :
         /\ reload' = [reload EXCEPT ![n] =
                [reload[n] EXCEPT !.todo = reload[n].todo \ {p},
                                  !.next = ReconcileMsg(n, p[1], p[2])]]
         /\ doubt' = IF /\ Interested(n, p[2]) /\ PassedOver(n, p[2])
                        /\ p[1] = Sender(p[1][1])
                     THEN doubt \cup {<<p[1][1], p[2]>>} ELSE doubt
  BY DEF ReconcileCheck
<1> DEFINE m == ReconcileMsg(n, p[1], p[2])
           t == reload[n].todo \ {p}
           r == [reload[n] EXCEPT !.todo = t, !.next = m]
<1>3. p \in Senders \X Filters BY <1>1 DEF ReloadRecords
<1>4. p[1] \in Senders /\ p[2] \in Filters /\ p = <<p[1], p[2]>> BY <1>3
<1>5. m \in {<<>>} \cup (Senders \X [kind : Kinds, filter : Filters])
  BY <1>4 DEF ReconcileMsg, Msg, Kinds
<1>6. t \subseteq Senders \X Filters BY <1>1 DEF ReloadRecords
<1>7. reload' = [reload EXCEPT ![n] = r] BY <1>2
<1> HIDE DEF m, t
<1>8. r \in ReloadRecords /\ r.pc = "reconcile" /\ r.todo = t /\ r.next = m
  BY <1>1, <1>5, <1>6 DEF ReloadRecords
<1> HIDE DEF r
<1> QED BY <1>2, <1>4, <1>7, <1>8 DEF m, t

LEMMA CheckLinks ==
    ASSUME LinkInv, NEW n \in Nodes, ReconcileCheck(n)
    PROVE  LinkInv'
<1>1. PICK p \in reload[n].todo, r \in ReloadRecords :
         /\ reload' = [reload EXCEPT ![n] = r]
         /\ r.todo = reload[n].todo \ {p} /\ r.next = ReconcileMsg(n, p[1], p[2])
  BY CheckReload
<1>2. UNCHANGED <<forwarders, counts, task, registered, wire, queue, topicFilter, spent>>
  BY DEF ReconcileCheck
<1>3. \A q \in r.todo : Known(q[1]) BY <1>1 DEF LinkInv, SendersKnown
<1>4. r.next # <<>> => Known(r.next[1])
  <2>1. Known(p[1]) BY DEF LinkInv, SendersKnown
  <2>2. r.next # <<>> => r.next[1] = p[1] BY <1>1 DEF ReconcileMsg
  <2> QED BY <2>1, <2>2
<1>5. /\ topicFilter' \in [Nodes -> PeerFilters]
      /\ spent' \in [requests : Nat, reloads : Nat, connects : Nat]
      /\ spent'.connects = spent.connects
      /\ NothingEarly /\ queue' \in [Ends -> Seq(Msgs)]
  BY <1>2 DEF NothingEarly, LinkInv, MeshTypes
<1> QED BY <1>1, <1>2, <1>3, <1>4, <1>5, ReloadMoves

LEMMA SendReload ==
    ASSUME LinkInv, NEW n \in Nodes, ReconcileSend(n)
    PROVE  \E s \in Senders, m \in [kind : Kinds, filter : Filters], r \in ReloadRecords :
              /\ reload[n].next = <<s, m>> /\ Known(s) /\ TrySend(s, m)
              /\ reload' = [reload EXCEPT ![n] = r] /\ r.pc = reload[n].pc
              /\ r.todo = reload[n].todo /\ r.next = <<>>
<1> DEFINE s == reload[n].next[1]  m == reload[n].next[2]
           r == [reload[n] EXCEPT !.next = <<>>]
<1>1. reload[n] \in ReloadRecords /\ reload[n].next # <<>>
  BY DEF LinkInv, MeshTypes, ReconcileSend
<1>2. reload[n].next \in Senders \X [kind : Kinds, filter : Filters]
  BY <1>1 DEF ReloadRecords
<1>3. s \in Senders /\ m \in [kind : Kinds, filter : Filters] /\ reload[n].next = <<s, m>>
  BY <1>2
<1>4. Known(s) BY <1>1 DEF LinkInv, SendersKnown
<1>5. TrySend(s, m) /\ reload' = [reload EXCEPT ![n] = r] BY DEF ReconcileSend
<1>6. r \in ReloadRecords /\ r.pc = reload[n].pc /\ r.todo = reload[n].todo /\ r.next = <<>>
  BY <1>1 DEF ReloadRecords
<1> HIDE DEF s, m, r
<1> QED BY <1>3, <1>4, <1>5, <1>6

LEMMA SendLinks ==
    ASSUME LinkInv, NEW n \in Nodes, ReconcileSend(n)
    PROVE  LinkInv'
<1>1. PICK s \in Senders, m \in [kind : Kinds, filter : Filters], r \in ReloadRecords :
         /\ Known(s) /\ TrySend(s, m) /\ reload' = [reload EXCEPT ![n] = r]
         /\ r.todo = reload[n].todo /\ r.next = <<>>
  BY SendReload
<1>2. UNCHANGED <<forwarders, counts, task, registered, wire, topicFilter, spent>>
  BY DEF ReconcileSend
<1>3. \A q \in r.todo : Known(q[1]) BY <1>1 DEF LinkInv, SendersKnown
<1>4. queue' \in [Ends -> Seq(Msgs)] /\ NothingEarly BY <1>1, TrySendQueues, TrySendNotEarly
<1>5. /\ topicFilter' \in [Nodes -> PeerFilters]
      /\ spent' \in [requests : Nat, reloads : Nat, connects : Nat]
      /\ spent'.connects = spent.connects
  BY <1>2 DEF LinkInv, MeshTypes
<1> QED BY <1>1, <1>2, <1>3, <1>4, <1>5, ReloadMoves

LEMMA ReconciledLinks ==
    ASSUME LinkInv, NEW n \in Nodes, Reconciled(n)
    PROVE  LinkInv'
<1>1. reload' = [reload EXCEPT ![n] = ReloadIdle]
      /\ UNCHANGED <<forwarders, counts, task, registered, wire, queue, topicFilter, spent>>
  BY DEF Reconciled
<1>2. ReloadIdle \in ReloadRecords /\ ReloadIdle.todo = {} /\ ReloadIdle.next = <<>>
  BY DEF ReloadIdle, ReloadRecords
<1>3. /\ topicFilter' \in [Nodes -> PeerFilters]
      /\ spent' \in [requests : Nat, reloads : Nat, connects : Nat]
      /\ spent'.connects = spent.connects
      /\ NothingEarly /\ queue' \in [Ends -> Seq(Msgs)]
  BY <1>1 DEF NothingEarly, LinkInv, MeshTypes
<1> QED BY <1>1, <1>2, <1>3, ReloadMoves

(* Every step keeps the types and the stages.                               *)
LEMMA LinkInvStep == ASSUME LinkInv, [MeshNext]_meshVars PROVE LinkInv'
<1>1. CASE UNCHANGED meshVars
  BY <1>1 DEF LinkInv, MeshTypes, TellsFilter, Wired, Stages, SendersKnown, Known, meshVars
<1>2. ASSUME NEW x \in Tasks, TaskStep(x) PROVE LinkInv'
  BY <1>2, SendAckLinks, TellLinks, TellOneLinks DEF TaskStep
<1>3. ASSUME NEW e \in Ends, LinkStep(e) PROVE LinkInv'
  BY <1>3, ReceiveLinks, StageLinks, SnapshotLinks, CatchUpLinks, LinkEndsLinks, DrainLinks
     DEF LinkStep
<1>4. ASSUME NEW n \in Nodes, ReloadStep(n) PROVE LinkInv'
  BY <1>4, CollectLinks, CheckLinks, SendLinks, ReconciledLinks DEF ReloadStep
<1>5. CASE Environment
  BY <1>5, RequestLinks, ConnectLinks, BreakLinks, InstallLinks DEF Environment
<1> QED BY <1>1, <1>2, <1>3, <1>4, <1>5 DEF MeshNext

-----------------------------------------------------------------------------
(* Somebody will say it                                                     *)

LEMMA ViewKept ==
    ASSUME NEW e \in Ends, NEW f \in Filters, queue'[e] = queue[e],
           f \in forwarders'[Flip(e)] <=> f \in forwarders[Flip(e)]
    PROVE  View(e, f)' <=> View(e, f)
BY DEF View, Reads

LEMMA NoTells ==
    ASSUME NEW x \in Tasks, NEW e, NEW kind, NEW f,
           task[x].pc \notin {"ack", "tell", "telling"}
    PROVE  ~Tells(x, e, kind, f)
BY DEF Tells

LEMMA NoCatchUp ==
    ASSUME NEW e, NEW f, task[e].pc \notin {"snapshot", "catchup"}
    PROVE  ~CatchesUp(e, f)
BY DEF CatchesUp

(* A step of one task keeps what the others are going to say; what it was   *)
(* going to say itself, or has to say now, is for it to answer.             *)
LEMMA TaskTold ==
    ASSUME LinkInv, NEW x \in Tasks, NEW r, task' = [task EXCEPT ![x] = r],
           UNCHANGED <<wire, reload>>,
           NEW e \in Ends, NEW f \in Filters, Told(e, f), View(e, f)' <=> View(e, f),
           View(e, f) /\ ~Wanted(e, f)' =>
              \/ Tells(x, e, "Unsubscribe", f)'
              \/ /\ ~Wanted(e, f)
                 /\ Interested(e[1], f) => Interested(e[1], f)'
                 /\ Tells(x, e, "Unsubscribe", f) => Tells(x, e, "Unsubscribe", f)',
           ~View(e, f) /\ Wanted(e, f)' =>
              \/ Tells(x, e, "Subscribe", f)'
              \/ /\ Wanted(e, f)
                 /\ Tells(x, e, "Subscribe", f) => Tells(x, e, "Subscribe", f)'
                 /\ x = e /\ CatchesUp(e, f) => CatchesUp(e, f)'
    PROVE  Told(e, f)'
<1>1. \A y \in Tasks : y # x => task'[y] = task[y]
  BY DEF LinkInv, MeshTypes
<1>2. ASSUME NEW y \in Tasks, y # x, NEW kind, Tells(y, e, kind, f) PROVE Tells(y, e, kind, f)'
  BY <1>1, <1>2 DEF Tells, Sender
<1>3. Reconciles(e, f) => Reconciles(e, f)'
  BY DEF Reconciles, Sender
<1>4. x # e /\ CatchesUp(e, f) => CatchesUp(e, f)'
  <2> SUFFICES ASSUME x # e, CatchesUp(e, f) PROVE CatchesUp(e, f)' OBVIOUS
  <2>1. task'[e] = task[e] BY <1>1, EndFacts
  <2> QED BY <2>1 DEF CatchesUp
<1>5. View(e, f)' /\ ~Wanted(e, f)' =>
         \/ \E y \in Tasks : Tells(y, e, "Unsubscribe", f)'
         \/ Interested(e[1], f)' /\ Reconciles(e, f)'
  <2> SUFFICES ASSUME View(e, f)', ~Wanted(e, f)', ~Tells(x, e, "Unsubscribe", f)'
               PROVE  \/ \E y \in Tasks : Tells(y, e, "Unsubscribe", f)'
                      \/ Interested(e[1], f)' /\ Reconciles(e, f)'
    OBVIOUS
  <2>1. /\ View(e, f) /\ ~Wanted(e, f) /\ (Interested(e[1], f) => Interested(e[1], f)')
        /\ ~Tells(x, e, "Unsubscribe", f)
    OBVIOUS
  <2>2. \/ \E y \in Tasks : Tells(y, e, "Unsubscribe", f)
        \/ Interested(e[1], f) /\ Reconciles(e, f)
    BY <2>1 DEF Told
  <2> QED BY <1>2, <1>3, <2>1, <2>2
<1>6. ~View(e, f)' /\ Wanted(e, f)' =>
         \/ \E y \in Tasks : Tells(y, e, "Subscribe", f)'
         \/ CatchesUp(e, f)' \/ Reconciles(e, f)'
  <2> SUFFICES ASSUME ~View(e, f)', Wanted(e, f)', ~Tells(x, e, "Subscribe", f)'
               PROVE  \/ \E y \in Tasks : Tells(y, e, "Subscribe", f)'
                      \/ CatchesUp(e, f)' \/ Reconciles(e, f)'
    OBVIOUS
  <2>1. /\ ~View(e, f) /\ Wanted(e, f) /\ ~Tells(x, e, "Subscribe", f)
        /\ x = e /\ CatchesUp(e, f) => CatchesUp(e, f)'
    OBVIOUS
  <2>2. \/ \E y \in Tasks : Tells(y, e, "Subscribe", f)
        \/ CatchesUp(e, f) \/ Reconciles(e, f)
    BY <2>1 DEF Told
  <2> QED BY <1>2, <1>3, <1>4, <2>1, <2>2
<1> QED BY <1>5, <1>6 DEF Told

(* A message that is sent settles its own matter, or leaves it in doubt,    *)
(* and touches no other.                                                    *)
LEMMA TrySendTold ==
    ASSUME LinkInv, NEW s \in Senders, NEW m \in [kind : Kinds, filter : Filters],
           TrySend(s, m), UNCHANGED <<forwarders, counts, wire, topicFilter>>,
           NEW e \in Ends, NEW f \in Filters, wire[e] # 0, <<e, f>> \notin doubt'
    PROVE  /\ Wanted(e, f)' <=> Wanted(e, f)
           /\ s = Sender(e) /\ m.filter = f => (View(e, f)' <=> Wanted(e, f)')
           /\ ~(s = Sender(e) /\ m.filter = f)
                => <<e, f>> \notin doubt /\ (View(e, f)' <=> View(e, f))
<1>1. Wanted(e, f)' <=> Wanted(e, f)
  BY DEF Wanted, Interested, Relays
<1>2. m \in Msgs /\ queue[e] \in Seq(Msgs) /\ m.filter \in Filters
  BY DEF Msgs, LinkInv, MeshTypes
<1> DEFINE held == f \in forwarders[Flip(e)]
<1>3. ASSUME queue'[e] = Append(queue[e], m)
      PROVE  /\ m.filter = f => (View(e, f)' <=> m.kind = "Subscribe")
             /\ m.filter # f => (View(e, f)' <=> View(e, f))
  <2>1. View(e, f)' <=> Reads(Append(queue[e], m), held, f)
    BY <1>3 DEF View
  <2>2. /\ m.filter = f => (Reads(Append(queue[e], m), held, f) <=> m.kind = "Subscribe")
        /\ m.filter # f => (Reads(Append(queue[e], m), held, f) <=> Reads(queue[e], held, f))
    BY <1>2, ReadsAppend
  <2> QED BY <2>1, <2>2 DEF View
<1>4. CASE s = Sender(e)
  <2>1. s[1] = e BY <1>4 DEF Sender
  <2>2. /\ queue' = (IF Room(e) THEN [queue EXCEPT ![e] = Append(@, m)] ELSE queue)
        /\ doubt' = IF Room(e) /\ (m.kind = "Subscribe" <=> Wanted(e, m.filter))
                    THEN doubt \ {<<e, m.filter>>} ELSE doubt \cup {<<e, m.filter>>}
    BY <1>4, <2>1 DEF TrySend
  <2>3. Room(e) => queue'[e] = Append(queue[e], m)
    BY <2>2 DEF LinkInv, MeshTypes
  <2>4. CASE m.filter = f
    <3>1. Room(e) /\ (m.kind = "Subscribe" <=> Wanted(e, f))
      <4> SUFFICES ASSUME ~(Room(e) /\ (m.kind = "Subscribe" <=> Wanted(e, f))) PROVE FALSE
        OBVIOUS
      <4>1. doubt' = doubt \cup {<<e, f>>} BY <2>2, <2>4
      <4> QED BY <4>1
    <3>2. View(e, f)' <=> m.kind = "Subscribe" BY <1>3, <2>3, <2>4, <3>1
    <3>3. View(e, f)' <=> Wanted(e, f)' BY <1>1, <3>1, <3>2
    <3> QED BY <1>1, <1>4, <2>4, <3>3
  <2>5. CASE m.filter # f
    <3>1. <<e, f>> # <<e, m.filter>> BY <2>5
    <3>2. <<e, f>> \notin doubt BY <2>2, <3>1
    <3>3. View(e, f)' <=> View(e, f)
      <4>1. CASE Room(e) BY <1>3, <2>3, <2>5, <4>1
      <4>2. CASE ~Room(e) BY <2>2, <4>2, ViewKept
      <4> QED BY <4>1, <4>2
    <3> QED BY <1>1, <2>5, <3>2, <3>3
  <2> QED BY <2>4, <2>5
<1>5. CASE s # Sender(e)
  <2>1. queue'[e] = queue[e] BY <1>5, TrySendQueues
  <2>2. View(e, f)' <=> View(e, f) BY <2>1, ViewKept
  <2>3. <<e, f>> \notin doubt
    <3>1. \/ doubt' = doubt \ {<<s[1], m.filter>>} \/ doubt' = doubt
          \/ doubt' = doubt \cup {<<s[1], m.filter>>}
      BY DEF TrySend
    <3>2. s[1] = e => doubt' = doubt BY <1>5 DEF TrySend
    <3>3. s[1] # e => <<e, f>> # <<s[1], m.filter>> OBVIOUS
    <3> QED BY <3>1, <3>2, <3>3
  <2> QED BY <1>1, <1>5, <2>2, <2>3
<1> QED BY <1>4, <1>5

(* A new forwarder or the end of one: a filter the node was not interested  *)
(* in is told to the links by the task that made it interested.             *)
LEMMA HandleTold ==
    ASSUME LinkInv, NEW x \in Tasks, NEW kind, NEW g \in Filters, task[x].pc = "idle",
           Handle(x, kind, g), UNCHANGED <<wire, reload, topicFilter>>,
           NEW e \in Ends, NEW f \in Filters, Told(e, f), View(e, f)' <=> View(e, f)
    PROVE  Told(e, f)'
<1> DEFINE n == NodeOf(x)
<1>1. PICK r \in TaskRecords :
         /\ task' = [task EXCEPT ![x] = r] /\ r.pc = "ack" /\ r.filter = g
         /\ \/ /\ kind = "Subscribe"
               /\ r.kind = IF g \notin forwarders[x] /\ ~Interested(n, g)
                           THEN "Subscribe" ELSE "none"
               /\ counts' = IF g \notin forwarders[x]
                            THEN [counts EXCEPT ![n][g] = @ + 1] ELSE counts
            \/ counts' = counts
  BY HandleTask
<1>2. n \in Nodes /\ e[1] \in Nodes BY NodesOfTasks, EndFacts
<1>3. /\ \A b \in Nodes, h \in Filters : b # n \/ h # g => counts'[b][h] = counts[b][h]
      /\ counts'[n][g] \in {counts[n][g], counts[n][g] + 1}
      /\ counts[n][g] \in Nat
  BY <1>2, HandleState DEF LinkInv, MeshTypes
<1>4. \A k : ~Tells(x, e, k, f) BY NoTells
<1>5. x = e => ~CatchesUp(e, f) BY NoCatchUp
<1>6. Interested(e[1], f) => Interested(e[1], f)'
  BY <1>2, <1>3 DEF Interested
<1>7. CASE Interested(e[1], f)' => Interested(e[1], f)
  <2>1. Wanted(e, f)' <=> Wanted(e, f) BY <1>6, <1>7 DEF Wanted, Relays
  <2> QED BY <1>1, <1>4, <1>5, <1>6, <2>1, TaskTold
<1>8. CASE Interested(e[1], f)' /\ ~Interested(e[1], f)
  <2>1. e[1] = n /\ f = g BY <1>2, <1>3, <1>8 DEF Interested
  <2>2. counts' # counts BY <1>8 DEF Interested
  <2>3. r.kind = "Subscribe" BY <1>1, <1>8, <2>1, <2>2
  <2>4. task'[x] = r BY <1>1 DEF LinkInv, MeshTypes
  <2>5. Tells(x, e, "Subscribe", f)' BY <1>1, <2>1, <2>3, <2>4 DEF Tells
  <2>6. ~Wanted(e, f) BY <1>8 DEF Wanted
  <2> QED BY <1>1, <1>4, <1>8, <2>5, <2>6, TaskTold
<1> QED BY <1>7, <1>8

LEMMA RequestTold ==
    ASSUME LinkInv, AllTold, NEW c \in Clients, NEW kind, NEW g \in Filters, Request(c, kind, g)
    PROVE  AllTold'
<1>1. c \in Tasks /\ c \notin Ends BY EndFacts DEF Tasks
<1>2. /\ Handle(c, kind, g) /\ task[c].pc = "idle"
      /\ UNCHANGED <<registered, wire, queue, topicFilter, reload, doubt>>
  BY DEF Request, At
<1> SUFFICES ASSUME NEW e \in registered, NEW f \in Filters, wire[e] # 0, <<e, f>> \notin doubt
             PROVE  Told(e, f)'
  BY <1>2 DEF AllTold
<1>3. e \in Ends /\ Told(e, f) BY DEF LinkInv, MeshTypes, AllTold
<1>4. Flip(e) \in Tasks /\ Flip(e) # c BY <1>1, <1>3, EndFacts
<1>5. forwarders'[Flip(e)] = forwarders[Flip(e)] BY <1>1, <1>2, <1>4, HandleState
<1>6. View(e, f)' <=> View(e, f) BY <1>2, <1>3, <1>5, ViewKept
<1> QED BY <1>1, <1>2, <1>3, <1>6, HandleTold

(* A peer reads a message: what it will believe stays what it was.          *)
LEMMA ReceiveView ==
    ASSUME LinkInv, NEW x \in Ends, Receive(x), NEW e \in Ends, NEW f \in Filters
    PROVE  View(e, f)' <=> View(e, f)
<1> DEFINE d == Flip(x)  m == Head(queue[d])
<1>1. x \in Tasks /\ d \in Ends /\ Flip(d) = x BY EndFacts
<1>2. queue \in [Ends -> Seq(Msgs)] /\ queue[d] \in Seq(Msgs) /\ queue[d] # <<>>
  BY <1>1 DEF Receive, LinkInv, MeshTypes
<1>3. m \in Msgs BY <1>2
<1>4. queue'[d] = Tail(queue[d]) /\ \A b \in Ends : b # d => queue'[b] = queue[b]
  BY <1>1, <1>2 DEF Receive
<1>5. CASE Handle(x, m.kind, m.filter)
  <2>1. m.filter \in Filters /\ m.kind \in Kinds
    BY <1>3, <1>5 DEF Handle, Msgs, Msg, Kinds
  <2>2. /\ \A y \in Tasks : y # x => forwarders'[y] = forwarders[y]
        /\ \A g \in Filters : g # m.filter => (g \in forwarders'[x] <=> g \in forwarders[x])
        /\ m.filter \in forwarders'[x] <=> m.kind = "Subscribe"
    BY <1>1, <1>5, <2>1, HandleState
  <2>3. CASE e = d
    <3>1. (View(e, f) <=> Reads(queue[d], f \in forwarders[x], f))
          /\ (View(e, f)' <=> Reads(Tail(queue[d]), f \in forwarders'[x], f))
      BY <1>1, <1>4, <2>3 DEF View
    <3>2. /\ m.filter = f => (f \in forwarders'[x] <=> m.kind = "Subscribe")
          /\ m.filter # f => (f \in forwarders'[x] <=> f \in forwarders[x])
      BY <2>2
    <3>3. Reads(Tail(queue[d]), f \in forwarders'[x], f) <=> Reads(queue[d], f \in forwarders[x], f)
      BY <1>2, <3>2, ReadsTail
    <3> QED BY <3>1, <3>3
  <2>4. CASE e # d
    <3>1. Flip(e) \in Tasks /\ Flip(e) # x BY <1>1, <2>4, EndFacts, FlipIsOne
    <3>2. forwarders'[Flip(e)] = forwarders[Flip(e)] BY <2>2, <3>1
    <3> QED BY <1>4, <2>4, <3>2, ViewKept
  <2> QED BY <2>3, <2>4
<1>6. CASE m.kind = "Ack" /\ UNCHANGED <<forwarders, counts, task>>
  <2>1. m.filter # f
    BY <1>3, <1>6, MeshInterestAssumption DEF Msgs, Msg, Kinds
  <2>2. CASE e = d
    <3>1. (View(e, f) <=> Reads(queue[d], f \in forwarders[x], f))
          /\ (View(e, f)' <=> Reads(Tail(queue[d]), f \in forwarders[x], f))
      BY <1>1, <1>4, <1>6, <2>2 DEF View
    <3>2. Reads(Tail(queue[d]), f \in forwarders[x], f) <=> Reads(queue[d], f \in forwarders[x], f)
      BY <1>2, <2>1, ReadsTail
    <3> QED BY <3>1, <3>2
  <2>3. CASE e # d BY <1>4, <1>6, <2>3, ViewKept
  <2> QED BY <2>2, <2>3
<1> QED BY <1>5, <1>6 DEF Receive

LEMMA ReceiveTold ==
    ASSUME LinkInv, AllTold, NEW x \in Ends, Receive(x)
    PROVE  AllTold'
<1> DEFINE m == Head(queue[Flip(x)])
<1>1. x \in Tasks /\ Flip(x) \in Ends BY EndFacts
<1>2. /\ task[x].pc = "idle" /\ queue[Flip(x)] # <<>>
      /\ UNCHANGED <<registered, wire, topicFilter, reload, doubt>>
  BY DEF Receive, At
<1>3. m \in Msgs BY <1>1, <1>2 DEF LinkInv, MeshTypes
<1> SUFFICES ASSUME NEW e \in registered, NEW f \in Filters, wire[e] # 0, <<e, f>> \notin doubt
             PROVE  Told(e, f)'
  BY <1>2 DEF AllTold
<1>4. e \in Ends /\ Told(e, f) BY DEF LinkInv, MeshTypes, AllTold
<1>5. View(e, f)' <=> View(e, f) BY <1>4, ReceiveView
<1>6. CASE Handle(x, m.kind, m.filter)
  <2>1. m.filter \in Filters BY <1>3, <1>6 DEF Handle, Msgs, Msg
  <2> QED BY <1>1, <1>2, <1>4, <1>5, <1>6, <2>1, HandleTold
<1>7. CASE UNCHANGED <<forwarders, counts, task>>
  <2>1. /\ Wanted(e, f)' <=> Wanted(e, f)
        /\ Interested(e[1], f)' <=> Interested(e[1], f)
        /\ CatchesUp(e, f)' <=> CatchesUp(e, f)
        /\ Reconciles(e, f)' <=> Reconciles(e, f)
    BY <1>2, <1>7 DEF Wanted, Interested, Relays, CatchesUp, Reconciles, Sender
  <2>2. \A y \in Tasks, k \in Kinds : Tells(y, e, k, f)' <=> Tells(y, e, k, f)
    BY <1>2, <1>7 DEF Tells, Sender
  <2> QED BY <1>4, <1>5, <2>1, <2>2 DEF Told, Kinds
<1> QED BY <1>6, <1>7 DEF Receive

(* A count of a node drops to zero only in a task that will tell the links. *)
LEMMA CountedOff ==
    ASSUME LinkInv, NEW x \in Tasks, NEW r \in TaskRecords, task' = [task EXCEPT ![x] = r],
           UNCHANGED <<wire, reload, topicFilter>>,
           NEW g \in Filters, NEW k \in Nat, counts' = [counts EXCEPT ![NodeOf(x)][g] = k],
           k > 0 <=> counts[NodeOf(x)][g] > 0 /\ r.pc # "tell",
           r.pc = "tell" => r.kind = "Unsubscribe" /\ r.filter = g,
           NEW e \in Ends, NEW f \in Filters, Told(e, f), View(e, f)' <=> View(e, f),
           \A b : ~Tells(x, e, b, f), ~(x = e /\ CatchesUp(e, f))
    PROVE  Told(e, f)'
<1>1. PICK n \in Nodes : n = NodeOf(x) BY NodesOfTasks
<1>2. /\ counts'[n][g] = k
      /\ \A m \in Nodes, h \in Filters : m # n \/ h # g => counts'[m][h] = counts[m][h]
  <2>1. counts' = [counts EXCEPT ![n][g] = k] BY <1>1
  <2>2. counts \in [Nodes -> [Filters -> Nat]] BY DEF LinkInv, MeshTypes
  <2> QED BY <2>1, <2>2
<1>3. e[1] \in Nodes BY EndFacts
<1>4. Interested(e[1], f)' => Interested(e[1], f)
  BY <1>1, <1>2, <1>3 DEF Interested
<1>5. CASE Interested(e[1], f) => Interested(e[1], f)'
  <2>1. Wanted(e, f)' <=> Wanted(e, f) BY <1>4, <1>5 DEF Wanted, Relays
  <2> QED BY <1>5, <2>1, TaskTold
<1>6. CASE Interested(e[1], f) /\ ~Interested(e[1], f)'
  <2>1. e[1] = n /\ f = g BY <1>1, <1>2, <1>6, <1>3 DEF Interested
  <2>2. r.pc = "tell" BY <1>1, <1>2, <1>6, <2>1 DEF Interested
  <2>3. task'[x] = r BY DEF LinkInv, MeshTypes
  <2>4. Tells(x, e, "Unsubscribe", f)' BY <1>1, <2>1, <2>2, <2>3 DEF Tells
  <2>5. ~Wanted(e, f)' BY <1>6 DEF Wanted
  <2> QED BY <2>4, <2>5, TaskTold
<1> QED BY <1>5, <1>6

LEMMA SendAckTold ==
    ASSUME LinkInv, AllTold, NEW x \in Tasks, SendAck(x)
    PROVE  AllTold'
<1>1. /\ task[x].pc = "ack" /\ AfterAck(x)
      /\ UNCHANGED <<forwarders, registered, wire, topicFilter, reload, doubt>>
  BY DEF SendAck, At
<1> SUFFICES ASSUME NEW e \in registered, NEW f \in Filters, wire[e] # 0, <<e, f>> \notin doubt
             PROVE  Told(e, f)'
  BY <1>1 DEF AllTold
<1>2. e \in Ends /\ Told(e, f) BY DEF LinkInv, MeshTypes, AllTold
<1>3. View(e, f)' <=> View(e, f)
  <2> DEFINE a == Msg("Ack", NoFilter)  held == f \in forwarders[Flip(e)]
  <2>1. a \in Msgs /\ a.filter # f BY MeshInterestAssumption DEF Msgs, Msg
  <2>2. CASE queue'[e] = queue[e] BY <1>1, <1>2, <2>2, ViewKept
  <2>3. CASE queue'[e] = Append(queue[e], a)
    <3>1. queue[e] \in Seq(Msgs) BY <1>2 DEF LinkInv, MeshTypes
    <3> HIDE DEF a
    <3>2. Reads(Append(queue[e], a), held, f) <=> Reads(queue[e], held, f)
      BY <2>1, <3>1, ReadsAppend
    <3>3. View(e, f)' <=> Reads(Append(queue[e], a), held, f) BY <1>1, <2>3 DEF View
    <3> QED BY <3>2, <3>3 DEF View
  <2> QED BY <1>2, <2>2, <2>3, AckQueue
<1> DEFINE n == NodeOf(x)  g == task[x].filter
<1>4. PICK r \in TaskRecords :
         /\ task' = [task EXCEPT ![x] = r]
         /\ \/ r = Idle
            \/ /\ r.pc = "tell" /\ r.kind = task[x].kind /\ r.kind # "none"
               /\ r.filter = g /\ r.links = task[x].links
         /\ task[x].kind = "Subscribe" => r.pc = "tell"
         /\ \/ counts' = counts
            \/ /\ task[x].kind = "Unsubscribe" /\ g \in Filters
               /\ \E k \in Nat : /\ counts' = [counts EXCEPT ![n][g] = k]
                                 /\ k > 0 <=> counts[n][g] > 0 /\ r.pc # "tell"
  BY <1>1, AckTask
<1>5. x = e => ~CatchesUp(e, f) BY <1>1, NoCatchUp
<1>6. CASE counts' = counts
  <2>1. /\ Wanted(e, f)' <=> Wanted(e, f)
        /\ Interested(e[1], f)' <=> Interested(e[1], f)
    BY <1>1, <1>6 DEF Wanted, Interested, Relays
  <2>2. task'[x] = r BY <1>4 DEF LinkInv, MeshTypes
  <2>3. ~Tells(x, e, "Unsubscribe", f) BY <1>1 DEF Tells
  <2>4. Tells(x, e, "Subscribe", f) => Tells(x, e, "Subscribe", f)'
    <3> SUFFICES ASSUME Tells(x, e, "Subscribe", f) PROVE Tells(x, e, "Subscribe", f)' OBVIOUS
    <3>1. NodeOf(x) = e[1] /\ task[x].kind = "Subscribe" /\ g = f BY DEF Tells
    <3>2. r.pc = "tell" BY <1>4, <3>1
    <3>3. r.kind = "Subscribe" /\ r.filter = f BY <1>4, <3>1, <3>2, IdleRecord
    <3> QED BY <2>2, <3>1, <3>2, <3>3 DEF Tells
  <2> QED BY <1>1, <1>2, <1>3, <1>4, <1>5, <2>1, <2>3, <2>4, TaskTold
<1>7. CASE /\ task[x].kind = "Unsubscribe" /\ g \in Filters
           /\ \E k \in Nat : /\ counts' = [counts EXCEPT ![n][g] = k]
                             /\ k > 0 <=> counts[n][g] > 0 /\ r.pc # "tell"
  <2>1. PICK k \in Nat : /\ counts' = [counts EXCEPT ![n][g] = k]
                         /\ k > 0 <=> counts[n][g] > 0 /\ r.pc # "tell"
    BY <1>7
  <2>2. r.pc = "tell" => r.kind = "Unsubscribe" /\ r.filter = g BY <1>4, <1>7, IdleRecord
  <2>3. \A b : ~Tells(x, e, b, f) BY <1>1, <1>7 DEF Tells
  <2> QED BY <1>1, <1>2, <1>3, <1>4, <1>5, <1>7, <2>1, <2>2, <2>3, CountedOff
<1> QED BY <1>4, <1>6, <1>7

(* A step of one task that changes neither what is queued nor what is       *)
(* wanted.                                                                  *)
LEMMA QuietTold ==
    ASSUME LinkInv, NEW x \in Tasks, NEW r, task' = [task EXCEPT ![x] = r],
           UNCHANGED <<forwarders, counts, wire, queue, topicFilter, reload>>,
           NEW e \in Ends, NEW f \in Filters, Told(e, f),
           View(e, f) /\ ~Wanted(e, f) /\ Tells(x, e, "Unsubscribe", f)
             => Tells(x, e, "Unsubscribe", f)',
           ~View(e, f) /\ Wanted(e, f) /\ Tells(x, e, "Subscribe", f)
             => Tells(x, e, "Subscribe", f)',
           ~View(e, f) /\ Wanted(e, f) /\ x = e /\ CatchesUp(e, f) => CatchesUp(e, f)'
    PROVE  Told(e, f)'
<1>1. /\ View(e, f)' <=> View(e, f)
      /\ Wanted(e, f)' <=> Wanted(e, f)
      /\ Interested(e[1], f)' <=> Interested(e[1], f)
  BY ViewKept DEF Wanted, Interested, Relays
<1> QED BY <1>1, TaskTold

LEMMA TellTold ==
    ASSUME LinkInv, AllTold, NEW x \in Tasks, Tell(x)
    PROVE  AllTold'
<1>1. /\ task[x].pc = "tell" /\ doubt' = doubt \cup (Withheld(x) \X {task[x].filter})
      /\ UNCHANGED <<forwarders, counts, registered, wire, queue, topicFilter, reload>>
  BY DEF Tell, At
<1> SUFFICES ASSUME NEW e \in registered, NEW f \in Filters, wire[e] # 0, <<e, f>> \notin doubt'
             PROVE  Told(e, f)'
  BY <1>1 DEF AllTold
<1>2. e \in Ends /\ Told(e, f) BY <1>1 DEF LinkInv, MeshTypes, AllTold
<1>3. PICK r \in TaskRecords :
         /\ task' = [task EXCEPT ![x] = r]
         /\ \/ r = Resume(x) /\ Recipients(x) = {}
            \/ /\ r.pc = "telling" /\ r.kind = task[x].kind /\ r.filter = task[x].filter
               /\ r.links = {Sender(d) : d \in Recipients(x)}
  BY TellTask
<1>4. task'[x] = r BY <1>3 DEF LinkInv, MeshTypes
<1>5. x = e => ~CatchesUp(e, f) BY <1>1, NoCatchUp
<1>6. ASSUME NEW kind, Tells(x, e, kind, f), e \in Recipients(x) PROVE Tells(x, e, kind, f)'
  <2>1. NodeOf(x) = e[1] /\ task[x].kind = kind /\ task[x].filter = f BY <1>6 DEF Tells
  <2>2. r.pc = "telling" /\ r.kind = kind /\ r.filter = f /\ Sender(e) \in r.links
    BY <1>3, <1>6, <2>1
  <2>3. Sender(e)' = Sender(e) BY <1>1 DEF Sender
  <2> QED BY <1>4, <2>1, <2>2, <2>3 DEF Tells
<1>7. Tells(x, e, "Unsubscribe", f) => e \in Recipients(x)
  <2> SUFFICES ASSUME Tells(x, e, "Unsubscribe", f), e \notin Recipients(x) PROVE FALSE
    OBVIOUS
  <2>1. e[1] = NodeOf(x) /\ task[x].kind = "Unsubscribe" /\ task[x].filter = f BY DEF Tells
  <2>2. e \in Withheld(x) BY <2>1 DEF Withheld
  <2> QED BY <1>1, <2>1, <2>2
<1>8. Wanted(e, f) /\ Tells(x, e, "Subscribe", f) => e \in Recipients(x)
  BY DEF Wanted, Tells, Recipients
<1> QED BY <1>1, <1>2, <1>3, <1>5, <1>6, <1>7, <1>8, QuietTold

LEMMA TellOneTold ==
    ASSUME LinkInv, AllTold, NEW x \in Tasks, TellOne(x)
    PROVE  AllTold'
<1>1. /\ task[x].pc = "telling"
      /\ UNCHANGED <<forwarders, counts, registered, wire, topicFilter, reload>>
  BY DEF TellOne, At
<1> SUFFICES ASSUME NEW e \in registered, NEW f \in Filters, wire[e] # 0, <<e, f>> \notin doubt'
             PROVE  Told(e, f)'
  BY <1>1 DEF AllTold
<1>2. e \in Ends BY DEF LinkInv, MeshTypes
<1>3. PICK s \in task[x].links, r \in TaskRecords :
         /\ s \in Senders
         /\ Msg(task[x].kind, task[x].filter) \in [kind : Kinds, filter : Filters]
         /\ TrySend(s, Msg(task[x].kind, task[x].filter))
         /\ task' = [task EXCEPT ![x] = r]
         /\ \/ r = Resume(x) /\ task[x].links = {s}
            \/ /\ r.pc = "telling" /\ r.kind = task[x].kind /\ r.filter = task[x].filter
               /\ r.links = task[x].links \ {s}
  BY TellOneTask
<1> DEFINE m == Msg(task[x].kind, task[x].filter)
<1>4. m.filter = task[x].filter BY DEF Msg
<1>5. task'[x] = r BY <1>3 DEF LinkInv, MeshTypes
<1>6. /\ Wanted(e, f)' <=> Wanted(e, f)
      /\ s = Sender(e) /\ m.filter = f => (View(e, f)' <=> Wanted(e, f)')
      /\ ~(s = Sender(e) /\ m.filter = f)
           => <<e, f>> \notin doubt /\ (View(e, f)' <=> View(e, f))
  BY <1>1, <1>2, <1>3, TrySendTold
<1> HIDE DEF m
<1>7. CASE s = Sender(e) /\ m.filter = f
  BY <1>6, <1>7 DEF Told
<1>8. CASE ~(s = Sender(e) /\ m.filter = f)
  <2>1. Told(e, f) BY <1>6, <1>8 DEF AllTold
  <2>2. x = e => ~CatchesUp(e, f) BY <1>1, NoCatchUp
  <2>3. ASSUME NEW kind, Tells(x, e, kind, f) PROVE Tells(x, e, kind, f)'
    <3>1. /\ NodeOf(x) = e[1] /\ task[x].kind = kind /\ task[x].filter = f
          /\ Sender(e) \in task[x].links
      BY <1>1, <2>3 DEF Tells
    <3>2. s # Sender(e) BY <1>4, <1>8, <3>1
    <3>3. r.pc = "telling" /\ r.kind = kind /\ r.filter = f /\ Sender(e) \in r.links
      BY <1>3, <3>1, <3>2
    <3>4. Sender(e)' = Sender(e) BY <1>1 DEF Sender
    <3> QED BY <1>5, <3>1, <3>3, <3>4 DEF Tells
  <2>4. Interested(e[1], f)' <=> Interested(e[1], f) BY <1>1 DEF Interested
  <2> QED BY <1>1, <1>2, <1>3, <1>6, <1>8, <2>1, <2>2, <2>3, <2>4, TaskTold
<1> QED BY <1>7, <1>8

LEMMA SnapshotTold ==
    ASSUME LinkInv, AllTold, NEW x \in Ends, Snapshot(x)
    PROVE  AllTold'
<1> DEFINE todo == {f \in Filters : Interested(x[1], f) /\ Relays(task[x].allow, x[2], f)}
<1>1. /\ task[x].pc = "snapshot" /\ x \in Tasks
      /\ UNCHANGED <<forwarders, counts, registered, wire, queue, topicFilter, reload, doubt>>
  BY EndFacts DEF Snapshot, At
<1>2. PICK r \in TaskRecords :
         /\ task' = [task EXCEPT ![x] = r]
         /\ (r.pc = "idle" /\ todo = {}) \/ (r.pc = "catchup" /\ r.todo = todo)
  BY SnapshotTask
<1> SUFFICES ASSUME NEW e \in registered, NEW f \in Filters, wire[e] # 0, <<e, f>> \notin doubt
             PROVE  Told(e, f)'
  BY <1>1 DEF AllTold
<1>3. e \in Ends /\ Told(e, f) BY DEF LinkInv, MeshTypes, AllTold
<1>4. \A k : ~Tells(x, e, k, f) BY <1>1, NoTells
<1>5. task'[x] = r BY <1>1, <1>2 DEF LinkInv, MeshTypes
<1>6. Wanted(e, f) /\ x = e /\ CatchesUp(e, f) => CatchesUp(e, f)'
  <2> SUFFICES ASSUME Wanted(e, f), x = e, CatchesUp(e, f) PROVE CatchesUp(e, f)' OBVIOUS
  <2>1. f \in todo BY <1>1 DEF Wanted, CatchesUp
  <2>2. r.pc = "catchup" /\ f \in r.todo BY <1>2, <2>1
  <2> QED BY <1>5, <2>2 DEF CatchesUp
<1> QED BY <1>1, <1>2, <1>3, <1>4, <1>6, QuietTold

LEMMA CatchUpTold ==
    ASSUME LinkInv, AllTold, NEW x \in Ends, CatchUp(x)
    PROVE  AllTold'
<1>1. /\ task[x].pc = "catchup" /\ x \in Tasks
      /\ UNCHANGED <<forwarders, counts, registered, wire, topicFilter, reload>>
  BY EndFacts DEF CatchUp, At
<1> SUFFICES ASSUME NEW e \in registered, NEW f \in Filters, wire[e] # 0, <<e, f>> \notin doubt'
             PROVE  Told(e, f)'
  BY <1>1 DEF AllTold
<1>2. e \in Ends BY DEF LinkInv, MeshTypes
<1>3. PICK g \in task[x].todo, r \in TaskRecords :
         /\ g \in Filters /\ Sender(x) \in Senders
         /\ Msg("Subscribe", g) \in [kind : Kinds, filter : Filters]
         /\ TrySend(Sender(x), Msg("Subscribe", g))
         /\ task' = [task EXCEPT ![x] = r]
         /\ \/ r = Idle /\ task[x].todo = {g}
            \/ r.pc = "catchup" /\ r.todo = task[x].todo \ {g}
  BY CatchUpTask
<1> DEFINE m == Msg("Subscribe", g)
<1>4. m.filter = g BY DEF Msg
<1>5. task'[x] = r BY <1>1, <1>3 DEF LinkInv, MeshTypes
<1>6. /\ Wanted(e, f)' <=> Wanted(e, f)
      /\ Sender(x) = Sender(e) /\ m.filter = f => (View(e, f)' <=> Wanted(e, f)')
      /\ ~(Sender(x) = Sender(e) /\ m.filter = f)
           => <<e, f>> \notin doubt /\ (View(e, f)' <=> View(e, f))
  BY <1>1, <1>2, <1>3, TrySendTold
<1> HIDE DEF m
<1>7. CASE Sender(x) = Sender(e) /\ m.filter = f
  BY <1>6, <1>7 DEF Told
<1>8. CASE ~(Sender(x) = Sender(e) /\ m.filter = f)
  <2>1. Told(e, f) BY <1>6, <1>8 DEF AllTold
  <2>2. \A k : ~Tells(x, e, k, f) BY <1>1, NoTells
  <2>3. x = e /\ CatchesUp(e, f) => CatchesUp(e, f)'
    <3> SUFFICES ASSUME x = e, CatchesUp(e, f) PROVE CatchesUp(e, f)' OBVIOUS
    <3>1. f \in task[x].todo /\ f # g BY <1>1, <1>4, <1>8 DEF CatchesUp
    <3>2. r.pc = "catchup" /\ f \in r.todo BY <1>3, <3>1
    <3> QED BY <1>5, <3>2 DEF CatchesUp
  <2>4. Interested(e[1], f)' <=> Interested(e[1], f) BY <1>1 DEF Interested
  <2> QED BY <1>1, <1>2, <1>3, <1>6, <1>8, <2>1, <2>2, <2>3, <2>4, TaskTold
<1> QED BY <1>7, <1>8

LEMMA LinkEndsTold ==
    ASSUME LinkInv, AllTold, NEW x \in Ends, LinkEnds(x)
    PROVE  AllTold'
<1>1. /\ task' = [task EXCEPT ![x] = [Idle EXCEPT !.pc = "drain"]]
      /\ task[x].pc \in {"idle", "ack"}
      /\ doubt \subseteq doubt'
      /\ task[x].pc = "ack" /\ task[x].kind = "Subscribe"
           => doubt' = doubt \cup ({r \in registered : r[1] = x[1]} \X {task[x].filter})
      /\ UNCHANGED <<forwarders, counts, registered, wire, queue, topicFilter, reload>>
  BY DEF LinkEnds, At
<1> SUFFICES ASSUME NEW e \in registered, NEW f \in Filters, wire[e] # 0, <<e, f>> \notin doubt'
             PROVE  Told(e, f)'
  BY <1>1 DEF AllTold
<1>2. e \in Ends /\ Told(e, f) BY <1>1 DEF LinkInv, MeshTypes, AllTold
<1>3. x \in Tasks /\ NodeOf(x) = x[1] BY EndFacts
<1>4. ~Tells(x, e, "Unsubscribe", f) BY <1>1 DEF Tells
<1>5. ~Tells(x, e, "Subscribe", f)
  <2> SUFFICES ASSUME Tells(x, e, "Subscribe", f) PROVE FALSE OBVIOUS
  <2>1. e[1] = x[1] /\ task[x].kind = "Subscribe" /\ task[x].filter = f /\ task[x].pc = "ack"
    BY <1>1, <1>3 DEF Tells
  <2> QED BY <1>1, <2>1
<1>6. x = e => ~CatchesUp(e, f) BY <1>1, NoCatchUp
<1> QED BY <1>1, <1>2, <1>3, <1>4, <1>5, <1>6, QuietTold

(* shut_down drains an end that is not connected any more, so nobody's view *)
(* is disturbed but by the count of the node.                               *)
LEMMA DrainTold ==
    ASSUME LinkInv, AllTold, NEW x \in Ends, NEW g \in Filters, Drain(x, g)
    PROVE  AllTold'
<1>1. x \in Tasks /\ NodeOf(x) = x[1] BY EndFacts
<1>2. /\ task[x].pc = "drain" /\ forwarders' = [forwarders EXCEPT ![x] = @ \ {g}]
      /\ UNCHANGED <<registered, wire, queue, topicFilter, reload, doubt>>
  BY DEF Drain, At
<1> SUFFICES ASSUME NEW e \in registered, NEW f \in Filters, wire[e] # 0, <<e, f>> \notin doubt
             PROVE  Told(e, f)'
  BY <1>2 DEF AllTold
<1>3. e \in Ends /\ Told(e, f) BY DEF LinkInv, MeshTypes, AllTold
<1>4. View(e, f)' <=> View(e, f)
  <2>1. wire[x] = 0 /\ wire[e] = wire[Flip(e)] BY <1>2, <1>3 DEF LinkInv, Stages, Wired
  <2>2. Flip(e) \in Tasks /\ Flip(e) # x BY <1>3, <2>1, EndFacts
  <2>3. forwarders'[Flip(e)] = forwarders[Flip(e)]
    BY <1>2, <2>2 DEF LinkInv, MeshTypes
  <2> QED BY <1>2, <1>3, <2>3, ViewKept
<1>5. PICK r \in TaskRecords, k \in Nat :
         /\ task' = [task EXCEPT ![x] = r] /\ r.kind = "Unsubscribe" /\ r.filter = g
         /\ r.pc \in {"tell", "drain"} /\ r.links = task[x].links
         /\ counts' = [counts EXCEPT ![x[1]][g] = k]
         /\ k > 0 <=> counts[x[1]][g] > 0 /\ r.pc # "tell"
  BY DrainTask
<1>6. \A b : ~Tells(x, e, b, f) BY <1>1, <1>2, NoTells
<1>7. ~(x = e /\ CatchesUp(e, f)) BY <1>2, NoCatchUp
<1> QED BY <1>1, <1>2, <1>3, <1>4, <1>5, <1>6, <1>7, CountedOff

(* A new link: nothing is queued and nothing is believed, and the snapshot  *)
(* is still to be taken, under the filter it was admitted with.             *)
LEMMA RegisterTold ==
    ASSUME LinkInv, AllTold, NEW x \in Ends, RegisterLink(x)
    PROVE  AllTold'
<1> DEFINE r == [task[x] EXCEPT !.pc = "snapshot"]
<1>1. x \in Tasks /\ x[1] \in Nodes /\ task[x] \in TaskRecords
  BY EndFacts DEF LinkInv, MeshTypes
<1>2. "snapshot" \in Pcs BY DEF Pcs
<1>3. r.pc = "snapshot" /\ r.allow = task[x].allow BY <1>1, <1>2, MoveTo
<1>4. /\ task[x].pc = "register" /\ task' = [task EXCEPT ![x] = r]
      /\ registered' = registered \cup {x}
      /\ doubt' = (IF task[x].allow = topicFilter[x[1]]
                   THEN doubt \ ({x} \X Filters) ELSE doubt \cup ({x} \X Filters))
      /\ UNCHANGED <<forwarders, counts, wire, queue, topicFilter, reload>>
  BY DEF RegisterLink, At, Goto
<1> HIDE DEF r
<1>5. task'[x] = r BY <1>1, <1>4 DEF LinkInv, MeshTypes
<1> SUFFICES ASSUME NEW e \in registered', NEW f \in Filters, wire[e] # 0, <<e, f>> \notin doubt'
             PROVE  Told(e, f)'
  BY <1>4 DEF AllTold
<1>6. e \in Ends BY <1>4 DEF LinkInv, MeshTypes
<1>7. CASE e = x
  <2>1. task[x].allow = topicFilter[x[1]] BY <1>4, <1>7
  <2>2. queue[x] = <<>> /\ forwarders[Flip(x)] = {}
    BY <1>4, <1>7 DEF LinkInv, Stages
  <2>3. ~View(x, f) BY <2>2 DEF View, Reads
  <2>4. ~View(x, f)' BY <1>4, <2>3, ViewKept
  <2>5. Wanted(x, f)' => CatchesUp(x, f)'
    BY <1>3, <1>4, <1>5, <2>1 DEF Wanted, CatchesUp, Relays
  <2> QED BY <1>7, <2>4, <2>5 DEF Told
<1>8. CASE e # x
  <2>1. e \in registered /\ <<e, f>> \notin doubt BY <1>4, <1>8
  <2>2. Told(e, f) BY <2>1 DEF AllTold
  <2>3. \A k : ~Tells(x, e, k, f) BY <1>1, <1>4, NoTells
  <2> QED BY <1>1, <1>4, <1>6, <1>8, <2>2, <2>3, QuietTold
<1> QED BY <1>7, <1>8

LEMMA AdmitTold ==
    ASSUME LinkInv, AllTold, NEW x \in Ends, Admit(x) \/ Unregister(x)
    PROVE  AllTold'
<1>1. x \in Tasks BY EndFacts
<1>2. /\ task[x].pc \in {"admit", "drain"} /\ registered' \subseteq registered
      /\ UNCHANGED <<forwarders, counts, wire, queue, topicFilter, reload, doubt>>
  BY DEF Admit, Unregister, At
<1>3. \E r : task' = [task EXCEPT ![x] = r]
  <2>1. CASE Admit(x) BY <2>1, AdmitTask
  <2>2. CASE Unregister(x) BY <2>2 DEF Unregister
  <2> QED BY <2>1, <2>2
<1>4. PICK r : task' = [task EXCEPT ![x] = r] BY <1>3
<1> SUFFICES ASSUME NEW e \in registered, NEW f \in Filters, wire[e] # 0, <<e, f>> \notin doubt
             PROVE  Told(e, f)'
  BY <1>2 DEF AllTold
<1>5. e \in Ends /\ Told(e, f) BY DEF LinkInv, MeshTypes, AllTold
<1>6. \A k : ~Tells(x, e, k, f) BY <1>1, <1>2, NoTells
<1>7. x = e => ~CatchesUp(e, f) BY <1>2, NoCatchUp
<1> QED BY <1>1, <1>2, <1>4, <1>5, <1>6, <1>7, QuietTold

(* Whoever keeps its connection and its task is not disturbed by the links  *)
(* that come and go.                                                        *)
LEMMA ElsewhereTold ==
    ASSUME NEW e \in Ends, NEW f \in Filters, Told(e, f), wire'[e] = wire[e], task'[e] = task[e],
           queue'[e] = queue[e],
           \A x \in Tasks : task'[x] = task[x] \/ task[x].pc = "down",
           UNCHANGED <<forwarders, counts, topicFilter, reload>>
    PROVE  Told(e, f)'
<1>1. View(e, f)' <=> View(e, f) BY ViewKept
<1>2. /\ Wanted(e, f)' <=> Wanted(e, f)
      /\ Interested(e[1], f)' <=> Interested(e[1], f)
  BY DEF Wanted, Interested, Relays
<1>3. CatchesUp(e, f)' <=> CatchesUp(e, f) BY DEF CatchesUp
<1>4. Reconciles(e, f)' <=> Reconciles(e, f) BY DEF Reconciles, Sender
<1>5. \A x \in Tasks, k \in Kinds : Tells(x, e, k, f) => Tells(x, e, k, f)'
  BY DEF Tells, Sender
<1> QED BY <1>1, <1>2, <1>3, <1>4, <1>5 DEF Told, Kinds

LEMMA ConnectTold ==
    ASSUME LinkInv, AllTold, NEW l \in Links, Connect(l)
    PROVE  AllTold'
<1> DEFINE On(e) == {e[1], e[2]} = l
           r == [Idle EXCEPT !.pc = "admit"]
<1>1. /\ \A e \in Ends : On(e) => task[e].pc = "down"
      /\ wire' = [e \in Ends |-> IF On(e) THEN spent.connects + 1 ELSE wire[e]]
      /\ task' = [x \in Tasks |-> IF x \in Ends /\ On(x) THEN r ELSE task[x]]
      /\ UNCHANGED <<forwarders, counts, registered, queue, topicFilter, reload, doubt>>
  BY DEF Connect, At
<1> HIDE DEF On, r
<1> SUFFICES ASSUME NEW e \in registered, NEW f \in Filters, wire'[e] # 0, <<e, f>> \notin doubt
             PROVE  Told(e, f)'
  BY <1>1 DEF AllTold
<1>2. e \in Ends /\ e \in Tasks BY EndFacts DEF LinkInv, MeshTypes
<1>3. ~On(e) BY <1>1, <1>2 DEF LinkInv, Stages
<1>4. wire'[e] = wire[e] /\ task'[e] = task[e] BY <1>1, <1>2, <1>3
<1>5. Told(e, f) BY <1>4 DEF AllTold
<1>6. \A x \in Tasks : task'[x] = task[x] \/ task[x].pc = "down" BY <1>1
<1> QED BY <1>1, <1>2, <1>4, <1>5, <1>6, ElsewhereTold

LEMMA BreakTold ==
    ASSUME LinkInv, AllTold, NEW l \in Links, Break(l)
    PROVE  AllTold'
<1> DEFINE On(e) == {e[1], e[2]} = l
<1>1. /\ wire' = [e \in Ends |-> IF On(e) THEN 0 ELSE wire[e]]
      /\ queue' = [e \in Ends |-> IF On(e) THEN <<>> ELSE queue[e]]
      /\ UNCHANGED <<forwarders, counts, task, registered, topicFilter, reload, doubt>>
  BY DEF Break
<1> HIDE DEF On
<1> SUFFICES ASSUME NEW e \in registered, NEW f \in Filters, wire'[e] # 0, <<e, f>> \notin doubt
             PROVE  Told(e, f)'
  BY <1>1 DEF AllTold
<1>2. e \in Ends BY DEF LinkInv, MeshTypes
<1>3. wire'[e] = wire[e] /\ queue'[e] = queue[e] BY <1>1, <1>2
<1>4. Told(e, f) BY <1>3 DEF AllTold
<1> QED BY <1>1, <1>2, <1>3, <1>4, ElsewhereTold

(* A step of a reload keeps what the tasks are going to say.                *)
LEMMA ReloadTold ==
    ASSUME NEW e \in Ends, NEW f \in Filters, Told(e, f),
           UNCHANGED <<forwarders, counts, task, wire>>,
           View(e, f)' <=> View(e, f),
           Interested(e[1], f) /\ (Wanted(e, f)' <=> ~View(e, f)) =>
              \/ Reconciles(e, f)'
              \/ (Wanted(e, f)' <=> Wanted(e, f)) /\ ~Reconciles(e, f)
    PROVE  Told(e, f)'
<1>1. Interested(e[1], f)' <=> Interested(e[1], f) BY DEF Interested
<1>2. CatchesUp(e, f)' <=> CatchesUp(e, f) BY DEF CatchesUp, Relays
<1>3. \A x \in Tasks, k \in Kinds : Tells(x, e, k, f) => Tells(x, e, k, f)'
  BY DEF Tells, Sender
<1>4. (Wanted(e, f) => Interested(e[1], f)) /\ (Wanted(e, f)' => Interested(e[1], f)')
  BY DEF Wanted
<1> QED BY <1>1, <1>2, <1>3, <1>4 DEF Told, Kinds

LEMMA InstallTold ==
    ASSUME LinkInv, AllTold, NEW n \in Nodes, NEW filter \in PeerFilters, Install(n, filter)
    PROVE  AllTold'
<1>1. /\ reload' = [reload EXCEPT ![n].pc = "collect"]
      /\ topicFilter' = [topicFilter EXCEPT ![n] = filter]
      /\ UNCHANGED <<forwarders, counts, task, registered, wire, queue, doubt>>
  BY DEF Install
<1> SUFFICES ASSUME NEW e \in registered, NEW f \in Filters, wire[e] # 0, <<e, f>> \notin doubt
             PROVE  Told(e, f)'
  BY <1>1 DEF AllTold
<1>2. e \in Ends /\ e[1] \in Nodes /\ Told(e, f) BY EndFacts DEF LinkInv, MeshTypes, AllTold
<1>3. View(e, f)' <=> View(e, f) BY <1>1, <1>2, ViewKept
<1>4. CASE e[1] = n
  <2>1. reload'[n].pc = "collect" BY <1>1 DEF LinkInv, MeshTypes, ReloadRecords
  <2>2. Reconciles(e, f)' BY <1>4, <2>1 DEF Reconciles
  <2> QED BY <1>1, <1>2, <1>3, <2>2, ReloadTold
<1>5. CASE e[1] # n
  <2>1. reload'[e[1]] = reload[e[1]] /\ topicFilter'[e[1]] = topicFilter[e[1]]
    BY <1>1, <1>2, <1>5 DEF LinkInv, MeshTypes
  <2>2. (Reconciles(e, f)' <=> Reconciles(e, f)) /\ (Wanted(e, f)' <=> Wanted(e, f))
    BY <1>1, <2>1 DEF Reconciles, Sender, Wanted, Interested, Relays
  <2> QED BY <1>1, <1>2, <1>3, <2>2, ReloadTold
<1> QED BY <1>4, <1>5

LEMMA CollectTold ==
    ASSUME LinkInv, AllTold, NEW n \in Nodes, Collect(n)
    PROVE  AllTold'
<1>1. UNCHANGED <<forwarders, counts, task, registered, wire, queue, topicFilter, doubt>>
  BY DEF Collect
<1>2. PICK r \in ReloadRecords : /\ reload' = [reload EXCEPT ![n] = r] /\ r.pc = "reconcile"
                                 /\ r.todo = Sweep(n)
  BY CollectReload
<1> SUFFICES ASSUME NEW e \in registered, NEW f \in Filters, wire[e] # 0, <<e, f>> \notin doubt
             PROVE  Told(e, f)'
  BY <1>1 DEF AllTold
<1>3. e \in Ends /\ e[1] \in Nodes /\ Told(e, f) BY EndFacts DEF LinkInv, MeshTypes, AllTold
<1>4. View(e, f)' <=> View(e, f) BY <1>1, <1>3, ViewKept
<1>5. Sender(e)' = Sender(e) BY <1>1 DEF Sender
<1>6. CASE e[1] = n
  <2>1. reload'[n] = r BY <1>2 DEF LinkInv, MeshTypes
  <2>2. Interested(e[1], f) => Reconciles(e, f)'
    <3> SUFFICES ASSUME Interested(n, f) PROVE Reconciles(e, f)' BY <1>6
    <3>1. <<Sender(e), f>> \in r.todo BY <1>2, <1>6 DEF Sweep
    <3> QED BY <1>2, <1>5, <1>6, <2>1, <3>1 DEF Reconciles
  <2> QED BY <1>1, <1>3, <1>4, <2>2, ReloadTold
<1>7. CASE e[1] # n
  <2>1. reload'[e[1]] = reload[e[1]] BY <1>2, <1>3, <1>7 DEF LinkInv, MeshTypes
  <2>2. (Reconciles(e, f)' <=> Reconciles(e, f)) /\ (Wanted(e, f)' <=> Wanted(e, f))
    BY <1>1, <1>5, <2>1 DEF Reconciles, Wanted, Interested, Relays
  <2> QED BY <1>1, <1>3, <1>4, <2>2, ReloadTold
<1> QED BY <1>6, <1>7

(* A filter a reload has looked at: the link will be told, nobody is        *)
(* interested any more, or the silence is on record.                        *)
LEMMA CheckTold ==
    ASSUME LinkInv, AllTold, NEW n \in Nodes, ReconcileCheck(n)
    PROVE  AllTold'
<1>1. /\ reload[n].pc = "reconcile" /\ reload[n].next = <<>>
      /\ UNCHANGED <<forwarders, counts, task, registered, wire, queue, topicFilter>>
  BY DEF ReconcileCheck
<1>2. PICK p \in reload[n].todo, r \in ReloadRecords :
         /\ p[1] \in Senders /\ p[2] \in Filters /\ p = <<p[1], p[2]>>
         /\ reload' = [reload EXCEPT ![n] = r] /\ r.pc = "reconcile"
         /\ r.todo = reload[n].todo \ {p} /\ r.next = ReconcileMsg(n, p[1], p[2])
         /\ doubt' = IF /\ Interested(n, p[2]) /\ PassedOver(n, p[2])
                        /\ p[1] = Sender(p[1][1])
                     THEN doubt \cup {<<p[1][1], p[2]>>} ELSE doubt
  BY CheckReload
<1> SUFFICES ASSUME NEW e \in registered, NEW f \in Filters, wire[e] # 0, <<e, f>> \notin doubt'
             PROVE  Told(e, f)'
  BY <1>1 DEF AllTold
<1>3. <<e, f>> \notin doubt BY <1>2
<1>4. e \in Ends /\ e[1] \in Nodes /\ Told(e, f)
  BY <1>3, EndFacts DEF LinkInv, MeshTypes, AllTold
<1>5. View(e, f)' <=> View(e, f) BY <1>1, <1>4, ViewKept
<1>6. Sender(e)' = Sender(e) BY <1>1 DEF Sender
<1>7. Wanted(e, f)' <=> Wanted(e, f) BY <1>1 DEF Wanted, Interested, Relays
<1>8. CASE e[1] = n
  <2>1. reload'[n] = r BY <1>2 DEF LinkInv, MeshTypes
  <2>2. Interested(e[1], f) /\ Reconciles(e, f) => Reconciles(e, f)'
    <3> SUFFICES ASSUME Interested(n, f), Reconciles(e, f) PROVE Reconciles(e, f)' BY <1>8
    <3>1. <<Sender(e), f>> \in reload[n].todo BY <1>1, <1>8 DEF Reconciles
    <3>2. CASE p # <<Sender(e), f>>
      <4>1. <<Sender(e), f>> \in r.todo BY <1>2, <3>1, <3>2
      <4> QED BY <1>2, <1>6, <1>8, <2>1, <4>1 DEF Reconciles
    <3>3. CASE p = <<Sender(e), f>>
      <4>1. p[1] = Sender(e) /\ p[2] = f /\ p[1][1] = e BY <3>3 DEF Sender
      <4>2. r.next # <<>>
        <5>1. ~PassedOver(n, f) BY <1>2, <4>1
        <5>2. ReconcileMsg(n, p[1], p[2]) # <<>> BY <4>1, <5>1 DEF ReconcileMsg
        <5> QED BY <1>2, <5>2
      <4>3. r.next[1] = Sender(e) /\ r.next[2].filter = f
        BY <1>2, <4>1, <4>2 DEF ReconcileMsg, Msg
      <4> QED BY <1>2, <1>6, <1>8, <2>1, <4>2, <4>3 DEF Reconciles
    <3> QED BY <3>2, <3>3
  <2> QED BY <1>1, <1>4, <1>5, <1>7, <2>2, ReloadTold
<1>9. CASE e[1] # n
  <2>1. reload'[e[1]] = reload[e[1]] BY <1>2, <1>4, <1>9 DEF LinkInv, MeshTypes
  <2>2. Reconciles(e, f)' <=> Reconciles(e, f) BY <1>6, <2>1 DEF Reconciles
  <2> QED BY <1>1, <1>4, <1>5, <1>7, <2>2, ReloadTold
<1> QED BY <1>8, <1>9

LEMMA SendTold ==
    ASSUME LinkInv, AllTold, NEW n \in Nodes, ReconcileSend(n)
    PROVE  AllTold'
<1>1. UNCHANGED <<forwarders, counts, task, registered, wire, topicFilter>>
  BY DEF ReconcileSend
<1>2. PICK s \in Senders, m \in [kind : Kinds, filter : Filters], r \in ReloadRecords :
         /\ reload[n].next = <<s, m>> /\ TrySend(s, m)
         /\ reload' = [reload EXCEPT ![n] = r] /\ r.pc = reload[n].pc
         /\ r.todo = reload[n].todo /\ r.next = <<>>
  BY SendReload
<1> SUFFICES ASSUME NEW e \in registered, NEW f \in Filters, wire[e] # 0, <<e, f>> \notin doubt'
             PROVE  Told(e, f)'
  BY <1>1 DEF AllTold
<1>3. e \in Ends /\ e[1] \in Nodes BY EndFacts DEF LinkInv, MeshTypes
<1>4. /\ Wanted(e, f)' <=> Wanted(e, f)
      /\ s = Sender(e) /\ m.filter = f => (View(e, f)' <=> Wanted(e, f)')
      /\ ~(s = Sender(e) /\ m.filter = f)
           => <<e, f>> \notin doubt /\ (View(e, f)' <=> View(e, f))
  BY <1>1, <1>2, <1>3, TrySendTold
<1>5. CASE s = Sender(e) /\ m.filter = f
  BY <1>4, <1>5 DEF Told
<1>6. CASE ~(s = Sender(e) /\ m.filter = f)
  <2>1. Told(e, f) BY <1>4, <1>6 DEF AllTold
  <2>2. Sender(e)' = Sender(e) BY <1>1 DEF Sender
  <2>3. Reconciles(e, f) => Reconciles(e, f)'
    <3>1. CASE e[1] # n
      <4>1. reload'[e[1]] = reload[e[1]] BY <1>2, <1>3, <3>1 DEF LinkInv, MeshTypes
      <4> QED BY <2>2, <4>1 DEF Reconciles
    <3>2. CASE e[1] = n
      <4>1. reload'[n] = r BY <1>2 DEF LinkInv, MeshTypes
      <4>2. reload[n].next[1] = s /\ reload[n].next[2] = m BY <1>2
      <4> QED BY <1>2, <1>6, <2>2, <3>2, <4>1, <4>2 DEF Reconciles
    <3> QED BY <3>1, <3>2
  <2> QED BY <1>1, <1>3, <1>4, <1>6, <2>1, <2>3, ReloadTold
<1> QED BY <1>5, <1>6

LEMMA ReconciledTold ==
    ASSUME LinkInv, AllTold, NEW n \in Nodes, Reconciled(n)
    PROVE  AllTold'
<1>1. /\ reload[n].pc = "reconcile" /\ reload[n].next = <<>> /\ reload[n].todo = {}
      /\ reload' = [reload EXCEPT ![n] = ReloadIdle]
      /\ UNCHANGED <<forwarders, counts, task, registered, wire, queue, topicFilter, doubt>>
  BY DEF Reconciled
<1> SUFFICES ASSUME NEW e \in registered, NEW f \in Filters, wire[e] # 0, <<e, f>> \notin doubt
             PROVE  Told(e, f)'
  BY <1>1 DEF AllTold
<1>2. e \in Ends /\ e[1] \in Nodes /\ Told(e, f) BY EndFacts DEF LinkInv, MeshTypes, AllTold
<1>3. View(e, f)' <=> View(e, f) BY <1>1, <1>2, ViewKept
<1>4. Wanted(e, f)' <=> Wanted(e, f) BY <1>1 DEF Wanted, Interested, Relays
<1>5. Reconciles(e, f) => Reconciles(e, f)'
  <2>1. CASE e[1] # n
    <3>1. reload'[e[1]] = reload[e[1]] BY <1>1, <1>2, <2>1 DEF LinkInv, MeshTypes
    <3> QED BY <1>1, <3>1 DEF Reconciles, Sender
  <2>2. CASE e[1] = n BY <1>1, <2>2 DEF Reconciles
  <2> QED BY <2>1, <2>2
<1> QED BY <1>1, <1>2, <1>3, <1>4, <1>5, ReloadTold

(* Every step keeps the promise.                                            *)
LEMMA AllToldStep == ASSUME LinkInv, AllTold, [MeshNext]_meshVars PROVE AllTold'
<1>1. CASE UNCHANGED meshVars
  <2> SUFFICES ASSUME NEW e \in registered, NEW f \in Filters, wire[e] # 0, <<e, f>> \notin doubt
               PROVE  Told(e, f)'
    BY <1>1 DEF AllTold, meshVars
  <2>1. e \in Ends /\ Told(e, f) BY DEF LinkInv, MeshTypes, AllTold
  <2>2. UNCHANGED <<forwarders, counts, task, wire, queue, topicFilter, reload>>
    BY <1>1 DEF meshVars
  <2> QED BY <2>1, <2>2, ElsewhereTold
<1>2. ASSUME NEW x \in Tasks, TaskStep(x) PROVE AllTold'
  BY <1>2, SendAckTold, TellTold, TellOneTold DEF TaskStep
<1>3. ASSUME NEW e \in Ends, LinkStep(e) PROVE AllTold'
  BY <1>3, ReceiveTold, AdmitTold, RegisterTold, SnapshotTold, CatchUpTold, LinkEndsTold,
     DrainTold DEF LinkStep
<1>4. ASSUME NEW n \in Nodes, ReloadStep(n) PROVE AllTold'
  BY <1>4, CollectTold, CheckTold, SendTold, ReconciledTold DEF ReloadStep
<1>5. CASE Environment
  BY <1>5, RequestTold, ConnectTold, BreakTold, InstallTold DEF Environment
<1> QED BY <1>1, <1>2, <1>3, <1>4, <1>5 DEF MeshNext

(* In a settled mesh nobody is bound to say anything.                       *)
LEMMA SettledAgrees == LinkInv /\ AllTold => InterestAgrees
<1> SUFFICES ASSUME LinkInv, AllTold, Settled, NEW e \in registered, NEW f \in Filters,
                    <<e, f>> \notin doubt
             PROVE  f \in forwarders[Flip(e)] <=> Wanted(e, f)
  BY DEF InterestAgrees
<1>1. e \in Ends /\ e \in Tasks /\ e[1] \in Nodes BY EndFacts DEF LinkInv, MeshTypes
<1>2. task[e].pc = "idle" /\ wire[e] # 0 /\ queue[e] = <<>>
  BY <1>1 DEF Settled, At, LinkInv, Stages
<1>3. Told(e, f) BY <1>2 DEF AllTold
<1>4. View(e, f) <=> f \in forwarders[Flip(e)] BY <1>2 DEF View, Reads
<1>5. \A x \in Tasks, k \in Kinds : ~Tells(x, e, k, f)
  <2> SUFFICES ASSUME NEW x \in Tasks PROVE task[x].pc \notin {"ack", "tell", "telling"}
    BY NoTells
  <2> QED BY DEF Settled, At
<1>6. ~CatchesUp(e, f) BY <1>2, NoCatchUp
<1>7. ~Reconciles(e, f) BY <1>1 DEF Reconciles, Settled
<1> QED BY <1>3, <1>4, <1>5, <1>6, <1>7 DEF Told, Kinds

(* Once the mesh is settled, each end of a link forwards exactly what the   *)
(* node at the other side wants and its --peer-topic-filter lets it say,    *)
(* but for the filters whose last message is in doubt: propagate_interest,  *)
(* the catch-up of register_peer_link, shut_down and reconcile_interest     *)
(* miss no transition between them, however they interleave.                *)
THEOREM MeshAgrees == MeshSpec => []InterestAgrees
<1>1. MeshInit => LinkInv /\ AllTold
  BY MeshInitInv DEF MeshInit, AllTold
<1>2. LinkInv /\ AllTold /\ [MeshNext]_meshVars => (LinkInv /\ AllTold)'
  BY LinkInvStep, AllToldStep
<1>3. LinkInv /\ AllTold => InterestAgrees
  BY SettledAgrees
<1> QED BY <1>1, <1>2, <1>3, PTL DEF MeshSpec
=============================================================================
