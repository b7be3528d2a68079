----------------------------- MODULE Discovery -----------------------------
(***************************************************************************)
(* How a mesh finds and keeps its links: the dial loops of peering.rs      *)
(* (permit, connect, Hello, backoff), the accept side of the handshake,    *)
(* register_peer_link's gossip, learn_peers, and the PeerDirectory that    *)
(* decides what is news.                                                   *)
(*                                                                         *)
(* A PeerId is a number, so that ids are ordered; every node listens at    *)
(* one address, so a peer stands for its address too.  A dialer is one     *)
(* dial_peer_with_reconnect loop, <<node, peer, index>>: index 1 is the    *)
(* loop of a configured --peer, the others are spawned by gossip.  Its     *)
(* connection has two ends, <<dialer, "dial">> and <<dialer, "accept">>;   *)
(* what an end sends is one FIFO queue.  How long things take is a choice  *)
(* between shorter and longer than MIN_HEALTHY_DURATION.                   *)
(***************************************************************************)
EXTENDS Integers, FiniteSets, SequencesExt

CONSTANTS Nodes,        \* nodes: their PeerIds
          Seeds,        \* --peer: the peers each node is configured with
          DirCap,       \* DEFAULT_PEER_DIRECTORY_CAPACITY of each node's build
          MaxDials,     \* DEFAULT_MAX_CONCURRENT_DIALS
          MaxBackoff,   \* MAX_BACKOFF, in units of INITIAL_BACKOFF
          Cap,          \* OUTGOING_CHANNEL_CAPACITY
          Dialers,      \* bound: the dial loops there may be
          MaxFailures   \* bound: failed or timed out dials and broken links

ASSUME DiscoveryAssumption ==
    /\ Nodes \subseteq Nat
    /\ Seeds \in [Nodes -> SUBSET Nodes]
    /\ DirCap \in [Nodes -> Nat \ {0}]
    /\ {MaxDials, MaxBackoff, Cap} \subseteq Nat \ {0}
    /\ Dialers \subseteq Nodes \X Nodes \X (Nat \ {0})
    /\ \A n \in Nodes : \A m \in Seeds[n] : <<n, m, 1>> \in Dialers
    /\ MaxFailures \in Nat

VARIABLES directory,   \* PeerDirectory.order: known peers, least recently touched first
          evicted,     \* history: how often a peer was evicted from a directory
          discovered,  \* the channel discovered_tx / discovered_rx
          dial,        \* the dial loops
          holding,     \* dialers that hold a permit of dial_semaphore
          ends,        \* the two ends of every dialer's connection
          open,        \* dialers whose connection is open
          queue,       \* what an end has sent and the other has not read
          registered,  \* PeerLinks: ends that are registered
          failures     \* failures so far

discoveryVars == <<directory, evicted, discovered, dial, holding, ends, open, queue,
                   registered, failures>>

Ends == Dialers \X {"dial", "accept"}

NodeOf(e) == IF e[2] = "dial" THEN e[1][1] ELSE e[1][2]
PeerOf(e) == IF e[2] = "dial" THEN e[1][2] ELSE e[1][1]
DialEnd(d) == <<d, "dial">>
AcceptEnd(d) == <<d, "accept">>
Other(e) == IF e[2] = "dial" THEN AcceptEnd(e[1]) ELSE DialEnd(e[1])

Hello == [kind |-> "Hello", peers |-> <<>>]
Announce(peers) == [kind |-> "PeerAnnounce", peers |-> peers]

NotRunning == [pc |-> "off", backoff |-> 1]

DiscoveryInit ==
    /\ directory = [n \in Nodes |-> <<>>]
    /\ evicted = [n \in Nodes |-> [m \in Nodes |-> 0]]
    /\ discovered = [n \in Nodes |-> <<>>]
    /\ dial = [d \in Dialers |-> IF d[2] \in Seeds[d[1]] /\ d[3] = 1
                                 THEN [NotRunning EXCEPT !.pc = "permit"] ELSE NotRunning]
    /\ holding = {}
    /\ ends = [e \in Ends |-> "none"]
    /\ open = {}
    /\ queue = [e \in Ends |-> <<>>]
    /\ registered = {}
    /\ failures = 0
-----------------------------------------------------------------------------
(* PeerDirectory                                                            *)

IsKnown(dir, m) == m \in ToSet(dir)

\* order.retain: a directory without a peer, which it holds once at most.
Without(dir, m) ==
    IF IsKnown(dir, m) THEN RemoveAt(dir, CHOOSE i \in DOMAIN dir : dir[i] = m) ELSE dir

\* A recorded peer becomes the most recently touched one.
Touched(dir, m) == Append(Without(dir, m), m)

\* PeerDirectory::record; over capacity the first in line is forgotten.
Record(n, dir, m) == LET t == Touched(dir, m) IN IF Len(t) > DirCap[n] THEN Tail(t) ELSE t
Evicts(n, dir, m) == {x \in ToSet(dir) : ~IsKnown(Record(n, dir, m), x)}

\* Mutation: a new link hears only of the peers that come after it.
SnapshotNothing(n, m) == <<>>

\* PeerDirectory::snapshot_excluding
SnapshotExcluding(n, m) == Without(directory[n], m)

\* try_send to every link in a set: a full or closed queue loses the message.
SendAll(q, targets, msg) ==
    [e \in Ends |-> IF e \in targets /\ e[1] \in open /\ Len(q[e]) < Cap
                    THEN Append(q[e], msg) ELSE q[e]]

GossipLoops(n, m) == {d \in Dialers : d[1] = n /\ d[2] = m /\ d[3] > 1}
LinksOf(n) == {e \in registered : NodeOf(e) = n}
-----------------------------------------------------------------------------
(* dial_peer_with_reconnect                                                 *)

\* next_backoff
NextBackoff(previous, long) ==
    IF long THEN 1 ELSE IF 2 * previous > MaxBackoff THEN MaxBackoff ELSE 2 * previous

\* dial_peer returns, however it went; the elapsed time is that of the whole
\* attempt, the wait for a permit included.
Retry(d, long) ==
    dial' = [dial EXCEPT ![d] = [pc |-> "sleep", backoff |-> NextBackoff(@.backoff, long)]]

Wake(d) ==
    /\ dial[d].pc = "sleep"
    /\ dial' = [dial EXCEPT ![d].pc = "permit"]
    /\ UNCHANGED <<directory, evicted, discovered, holding, ends, open, queue, registered,
                   failures>>

\* spawn_discovery_dialer
Spawn(n) ==
    /\ discovered[n] # <<>>
    /\ LET free == {d \in GossipLoops(n, Head(discovered[n])) : dial[d].pc = "off"} IN
       /\ free # {}
       /\ dial' = [dial EXCEPT ![CHOOSE d \in free : TRUE].pc = "permit"]
    /\ discovered' = [discovered EXCEPT ![n] = Tail(@)]
    /\ UNCHANGED <<directory, evicted, holding, ends, open, queue, registered, failures>>

\* Semaphore::acquire_owned
Acquire(d) ==
    /\ dial[d].pc = "permit"
    /\ Cardinality({h \in holding : h[1] = d[1]}) < MaxDials
    /\ holding' = holding \cup {d}
    /\ dial' = [dial EXCEPT ![d].pc = "connect"]
    /\ UNCHANGED <<directory, evicted, discovered, ends, open, queue, registered, failures>>

\* The stream is up on both sides; dial_handshake says Hello.
Connect(d) ==
    /\ dial[d].pc = "connect" /\ ends[AcceptEnd(d)] = "none"
    /\ dial' = [dial EXCEPT ![d].pc = "hello"]
    /\ open' = open \cup {d}
    /\ ends' = [ends EXCEPT ![AcceptEnd(d)] = "accepted"]
    /\ queue' = [queue EXCEPT ![DialEnd(d)] = <<Hello>>]
    /\ UNCHANGED <<directory, evicted, discovered, holding, registered, failures>>

Closed(d) ==
    /\ open' = open \ {d}
    /\ queue' = [queue EXCEPT ![DialEnd(d)] = <<>>, ![AcceptEnd(d)] = <<>>]

\* Connecting, TLS or the handshake fails.
DialFails(d) ==
    /\ dial[d].pc \in {"connect", "hello"} /\ failures < MaxFailures
    /\ \E long \in BOOLEAN : Retry(d, long)
    /\ holding' = holding \ {d}
    /\ Closed(d)
    /\ failures' = failures + 1
    /\ UNCHANGED <<directory, evicted, discovered, ends, registered>>

\* Mutation: the permit is not given back.
TimesOutHolding(d) ==
    /\ dial[d].pc \in {"connect", "hello"} /\ failures < MaxFailures
    /\ Retry(d, TRUE)
    /\ Closed(d)
    /\ failures' = failures + 1
    /\ UNCHANGED <<directory, evicted, discovered, holding, ends, registered>>

\* DIAL_TIMEOUT is over, which is longer than MIN_HEALTHY_DURATION.
TimesOut(d) ==
    /\ dial[d].pc \in {"connect", "hello"} /\ failures < MaxFailures
    /\ Retry(d, TRUE)
    /\ holding' = holding \ {d}
    /\ Closed(d)
    /\ failures' = failures + 1
    /\ UNCHANGED <<directory, evicted, discovered, ends, registered>>

\* recv_hello: the first frame has to be a Hello.  The permit is given back
\* before the connection is run.
HelloReply(d) ==
    /\ dial[d].pc = "hello" /\ queue[AcceptEnd(d)] # <<>>
    /\ holding' = holding \ {d}
    /\ IF Head(queue[AcceptEnd(d)]).kind = "Hello"
       THEN /\ dial' = [dial EXCEPT ![d].pc = "run"]
            /\ ends' = [ends EXCEPT ![DialEnd(d)] = "register"]
            /\ queue' = [queue EXCEPT ![AcceptEnd(d)] = Tail(@)]
            /\ UNCHANGED open
       ELSE \E long \in BOOLEAN : Retry(d, long) /\ Closed(d) /\ UNCHANGED ends
    /\ UNCHANGED <<directory, evicted, discovered, registered, failures>>
-----------------------------------------------------------------------------
(* A connection, on either side                                             *)

\* Mutation: the link is registered and caught up before the reply is queued.
RegisterThenReply(d) ==
    /\ ends[AcceptEnd(d)] = "accepted" /\ queue[DialEnd(d)] # <<>>
    /\ queue' = [queue EXCEPT ![DialEnd(d)] = Tail(@),
                              ![AcceptEnd(d)] = <<Announce(directory[d[2]]), Hello>>]
    /\ ends' = [ends EXCEPT ![AcceptEnd(d)] = "register"]
    /\ UNCHANGED <<directory, evicted, discovered, dial, holding, open, registered, failures>>

\* handle_hello: the reply is queued first, then the link is registered.
AcceptHello(d) ==
    /\ ends[AcceptEnd(d)] = "accepted" /\ queue[DialEnd(d)] # <<>>
    /\ queue' = [queue EXCEPT ![DialEnd(d)] = Tail(@), ![AcceptEnd(d)] = Append(@, Hello)]
    /\ ends' = [ends EXCEPT ![AcceptEnd(d)] = "register"]
    /\ UNCHANGED <<directory, evicted, discovered, dial, holding, open, registered, failures>>

\* Evictions are counted for every peer a record pushed out.
WithEvictions(counts, gone) == [m \in Nodes |-> counts[m] + (IF m \in gone THEN 1 ELSE 0)]

\* register_peer_link: the link is registered, its peer recorded and, if it
\* is new, announced to every link, this one included.
Register(e) ==
    /\ ends[e] = "register"
    /\ registered' = registered \cup {e}
    /\ LET n == NodeOf(e)
           m == PeerOf(e)
       IN  /\ directory' = [directory EXCEPT ![n] = Record(n, @, m)]
           /\ evicted' = [evicted EXCEPT ![n] = WithEvictions(@, Evicts(n, directory[n], m))]
           /\ queue' = IF IsKnown(directory[n], m) THEN queue
                       ELSE SendAll(queue, LinksOf(n) \cup {e}, Announce(<<m>>))
    /\ ends' = [ends EXCEPT ![e] = "snapshot"]
    /\ UNCHANGED <<discovered, dial, holding, open, failures>>

\* The new link is told of every other peer this node knows.
CatchUp(e) ==
    /\ ends[e] = "snapshot"
    /\ LET known == SnapshotExcluding(NodeOf(e), PeerOf(e)) IN
       queue' = IF known = <<>> THEN queue ELSE SendAll(queue, {e}, Announce(known))
    /\ ends' = [ends EXCEPT ![e] = "linked"]
    /\ UNCHANGED <<directory, evicted, discovered, dial, holding, open, registered, failures>>

\* we_should_dial
ShouldDial(n, m) == n < m

\* A peer that is not the node itself is recorded; news are what it tells
\* its links, and those it should dial go to spawn_discovery_dialer.
Recorded(acc, m, isNew) ==
    [acc EXCEPT !.dir = Record(acc.node, @, m),
                !.evicted = WithEvictions(@, Evicts(acc.node, acc.dir, m)),
                !.dials = IF isNew /\ ShouldDial(acc.node, m) THEN Append(@, m) ELSE @,
                !.new = IF isNew THEN Append(@, m) ELSE @]

\* Mutation: a peer is news every time it is heard of.
LearnAlways(acc, m) == IF m = acc.node THEN acc ELSE Recorded(acc, m, TRUE)

\* One advert; a node never learns of itself.
Learn(acc, m) == IF m = acc.node THEN acc ELSE Recorded(acc, m, ~IsKnown(acc.dir, m))

\* The loop of learn_peers, over all adverts of a frame.
LearnPeers(acc, peers) ==
    LET after[k \in 0 .. Len(peers)] ==
            IF k = 0 THEN acc ELSE Learn(after[k - 1], peers[k])
    IN  after[Len(peers)]

\* handle_peer_announce
ReceiveAnnounce(e) ==
    /\ ends[e] = "linked" /\ queue[Other(e)] # <<>>
    /\ LET n == NodeOf(e)
           before == [node |-> n, dir |-> directory[n], evicted |-> evicted[n],
                      dials |-> discovered[n], new |-> <<>>]
           rest == [queue EXCEPT ![Other(e)] = Tail(@)]
       IN  \E learnt \in {LearnPeers(before, Head(queue[Other(e)]).peers)} :
              /\ directory' = [directory EXCEPT ![n] = learnt.dir]
              /\ evicted' = [evicted EXCEPT ![n] = learnt.evicted]
              /\ discovered' = [discovered EXCEPT ![n] = learnt.dials]
              /\ queue' = IF learnt.new = <<>> THEN rest
                          ELSE SendAll(rest, LinksOf(n), Announce(learnt.new))
    /\ UNCHANGED <<dial, holding, ends, open, registered, failures>>

\* The stream breaks.
Break(d) ==
    /\ d \in open /\ dial[d].pc = "run" /\ failures < MaxFailures
    /\ Closed(d)
    /\ failures' = failures + 1
    /\ UNCHANGED <<directory, evicted, discovered, dial, holding, ends, registered>>

\* An end reads the end of the stream: it is unregistered, and on the dial
\* side the loop goes on.
EndCloses(e) ==
    /\ e[1] \notin open /\ ends[e] \in {"accepted", "linked"}
    /\ registered' = registered \ {e}
    /\ ends' = [ends EXCEPT ![e] = "none"]
    /\ IF e[2] = "dial" THEN \E long \in BOOLEAN : Retry(e[1], long) ELSE UNCHANGED dial
    /\ UNCHANGED <<directory, evicted, discovered, holding, open, queue, failures>>
-----------------------------------------------------------------------------
DialStep(d) == Wake(d) \/ Acquire(d) \/ Connect(d) \/ HelloReply(d) \/ AcceptHello(d)
EndStep(e) == Register(e) \/ CatchUp(e) \/ ReceiveAnnounce(e) \/ EndCloses(e)
Failure(d) == DialFails(d) \/ TimesOut(d) \/ Break(d)

Progress ==
    \/ \E n \in Nodes : Spawn(n)
    \/ \E d \in Dialers : DialStep(d)
    \/ \E e \in Ends : EndStep(e)

DiscoveryNext == Progress \/ \E d \in Dialers : Failure(d)

DiscoverySpec == DiscoveryInit /\ [][DiscoveryNext]_discoveryVars

\* The runtime runs some task that can go on; no failure is owed.  Which
\* task that is does not matter, because the failures are bounded.
FairDiscoverySpec == DiscoverySpec /\ WF_discoveryVars(Progress)
-----------------------------------------------------------------------------
\* A permit is held exactly while its dial is connecting or shaking hands:
\* a timeout, a failure or a success gives it back, once, and a running
\* connection holds none.  Otherwise 16 stalled peers end all dialing.
PermitsHeld ==
    \A d \in Dialers : d \in holding <=> dial[d].pc \in {"connect", "hello"}

\* The first frame a dialer reads is the Hello reply: no catch-up and no
\* announcement overtakes it, whatever other links register meanwhile.
HelloFirst ==
    \A d \in Dialers : dial[d].pc = "hello" /\ queue[AcceptEnd(d)] # <<>>
                       => Head(queue[AcceptEnd(d)]).kind = "Hello"

\* Gossip starts one dial loop for a peer, and another only after the peer
\* fell out of the directory; the loops never end, so more would pile up.
OneLoopPerPeer ==
    \A n, m \in Nodes :
        Cardinality({d \in GossipLoops(n, m) : dial[d].pc # "off"})
          + Cardinality({k \in DOMAIN discovered[n] : discovered[n][k] = m})
            <= (IF n < m THEN 1 + evicted[n][m] ELSE 0)

Linked(n, m) == \E d \in Dialers : {d[1], d[2]} = {n, m} /\ d \in open
                                   /\ ends[DialEnd(d)] = "linked"
                                   /\ ends[AcceptEnd(d)] = "linked"

\* From one configured peer a node comes to be linked with all nodes that
\* can be reached, and stays so once the failures stop.
MeshConnects == <>[](\A n, m \in Nodes : n # m => Linked(n, m))
=============================================================================
