-------------------------- MODULE DiscoveryProofs --------------------------
(***************************************************************************)
(* Proofs that the permits of dial_semaphore are held by exactly the dials *)
(* that are connecting or shaking hands, that a dialer reads the Hello     *)
(* reply before anything else, and that gossip does not pile up dial loops *)
(* for a peer, for every set of nodes and dial loops and every number of   *)
(* failures.                                                               *)
(***************************************************************************)
EXTENDS Discovery, FiniteSetTheorems, NaturalsInduction, WellFoundedInduction, TLAPS

LoopTypes == dial \in [Dialers -> [pc : {"off", "permit", "connect", "hello", "run", "sleep"},
                                   backoff : Int]]

EndTypes == ends \in [Ends -> {"none", "accepted", "register", "snapshot", "linked"}]

\* The dial end of a connection exists only while its loop runs it: this is
\* what keeps the end of a connection from touching a loop that holds a permit.
EndOfRun ==
    \A d \in Dialers : /\ ends[DialEnd(d)] # "accepted"
                       /\ ends[DialEnd(d)] # "none" => dial[d].pc = "run"

PermitInv == LoopTypes /\ EndTypes /\ EndOfRun /\ PermitsHeld
-----------------------------------------------------------------------------
(* Every dialer has two ends, and they are told apart by their side.        *)
LEMMA EndsOfDialer ==
    ASSUME NEW d \in Dialers
    PROVE  /\ DialEnd(d) \in Ends /\ AcceptEnd(d) \in Ends
           /\ DialEnd(d) # AcceptEnd(d)
           /\ \A c \in Dialers : DialEnd(c) = DialEnd(d) => c = d
           /\ \A c \in Dialers : AcceptEnd(c) = AcceptEnd(d) => c = d
           /\ \A c \in Dialers : DialEnd(c) # AcceptEnd(d)
  BY DEF Ends, DialEnd, AcceptEnd

(* An end belongs to a dialer, and is its dial end or its accept end.       *)
LEMMA DialerOfEnd ==
    ASSUME NEW e \in Ends
    PROVE  /\ e[1] \in Dialers
           /\ e[2] = "dial" => e = DialEnd(e[1])
           /\ e[2] # "dial" => e = AcceptEnd(e[1])
  BY DEF Ends, DialEnd, AcceptEnd

(* next_backoff returns a number.                                           *)
LEMMA NextBackoffType ==
    ASSUME NEW p \in Int, NEW long \in BOOLEAN
    PROVE  NextBackoff(p, long) \in Int
  BY DiscoveryAssumption DEF NextBackoff

(* A returning dial_peer leaves its loop asleep and the others alone.       *)
LEMMA RetryFacts ==
    ASSUME LoopTypes, NEW d \in Dialers, NEW long \in BOOLEAN, Retry(d, long)
    PROVE  /\ LoopTypes'
           /\ dial'[d].pc = "sleep"
           /\ \A c \in Dialers : c # d => dial'[c] = dial[c]
  <1>1. NextBackoff(dial[d].backoff, long) \in Int
    BY NextBackoffType DEF LoopTypes
  <1>. QED  BY <1>1 DEF LoopTypes, Retry

(* Setting the step of one loop changes nothing else about the loops.       *)
LEMMA StepFacts ==
    ASSUME LoopTypes, NEW d \in Dialers,
           NEW p \in {"off", "permit", "connect", "hello", "run", "sleep"},
           dial' = [dial EXCEPT ![d].pc = p]
    PROVE  /\ LoopTypes'
           /\ dial'[d].pc = p
           /\ \A c \in Dialers : c # d => dial'[c] = dial[c]
  BY DEF LoopTypes
-----------------------------------------------------------------------------
(* The steps of a dial loop preserve the invariant.                         *)
LEMMA DialStepPreserves ==
    ASSUME PermitInv, NEW d \in Dialers, DialStep(d)
    PROVE  PermitInv'
  <1>. USE DEF PermitInv
  <1>1. CASE Wake(d)
    <2>1. LoopTypes' /\ dial'[d].pc = "permit" /\ \A c \in Dialers : c # d => dial'[c] = dial[c]
      BY <1>1, StepFacts DEF Wake
    <2>2. dial[d].pc = "sleep" /\ UNCHANGED <<ends, holding>>
      BY <1>1 DEF Wake
    <2>. QED  BY <2>1, <2>2 DEF EndTypes, EndOfRun, PermitsHeld
  <1>2. CASE Acquire(d)
    <2>1. LoopTypes' /\ dial'[d].pc = "connect" /\ \A c \in Dialers : c # d => dial'[c] = dial[c]
      BY <1>2, StepFacts DEF Acquire
    <2>2. dial[d].pc = "permit" /\ UNCHANGED ends /\ holding' = holding \cup {d}
      BY <1>2 DEF Acquire
    <2>. QED  BY <2>1, <2>2 DEF EndTypes, EndOfRun, PermitsHeld
  <1>3. CASE Connect(d)
    <2>1. LoopTypes' /\ dial'[d].pc = "hello" /\ \A c \in Dialers : c # d => dial'[c] = dial[c]
      BY <1>3, StepFacts DEF Connect
    <2>2. dial[d].pc = "connect" /\ UNCHANGED holding
      BY <1>3 DEF Connect
    <2>3. EndTypes' /\ \A c \in Dialers : ends'[DialEnd(c)] = ends[DialEnd(c)]
      BY <1>3, EndsOfDialer DEF Connect, EndTypes
    <2>. QED  BY <2>1, <2>2, <2>3 DEF EndOfRun, PermitsHeld
  <1>4. CASE HelloReply(d)
    <2>1. dial[d].pc = "hello" /\ holding' = holding \ {d}
      BY <1>4 DEF HelloReply
    <2>2. CASE Head(queue[AcceptEnd(d)]).kind = "Hello"
      <3>1. LoopTypes' /\ dial'[d].pc = "run" /\ \A c \in Dialers : c # d => dial'[c] = dial[c]
        BY <1>4, <2>2, StepFacts DEF HelloReply
      <3>2. /\ EndTypes' /\ ends'[DialEnd(d)] = "register"
            /\ \A c \in Dialers : c # d => ends'[DialEnd(c)] = ends[DialEnd(c)]
        BY <1>4, <2>2, EndsOfDialer DEF HelloReply, EndTypes
      <3>. QED  BY <2>1, <3>1, <3>2 DEF EndOfRun, PermitsHeld
    <2>3. CASE Head(queue[AcceptEnd(d)]).kind # "Hello"
      <3>1. PICK long \in BOOLEAN : Retry(d, long) /\ UNCHANGED ends
        BY <1>4, <2>3 DEF HelloReply
      <3>2. LoopTypes' /\ dial'[d].pc = "sleep" /\ \A c \in Dialers : c # d => dial'[c] = dial[c]
        BY <3>1, RetryFacts
      <3>. QED  BY <2>1, <3>1, <3>2 DEF EndTypes, EndOfRun, PermitsHeld
    <2>. QED  BY <2>2, <2>3
  <1>5. CASE AcceptHello(d)
    <2>1. EndTypes' /\ \A c \in Dialers : ends'[DialEnd(c)] = ends[DialEnd(c)]
      BY <1>5, EndsOfDialer DEF AcceptHello, EndTypes
    <2>2. UNCHANGED <<dial, holding>>
      BY <1>5 DEF AcceptHello
    <2>. QED  BY <2>1, <2>2 DEF LoopTypes, EndOfRun, PermitsHeld
  <1>. QED  BY <1>1, <1>2, <1>3, <1>4, <1>5 DEF DialStep

(* The steps of a connection preserve the invariant: the one that ends the  *)
(* dial side finds its loop running, without a permit.                      *)
LEMMA EndStepPreserves ==
    ASSUME PermitInv, NEW e \in Ends, EndStep(e)
    PROVE  PermitInv'
  <1>. USE DEF PermitInv
  <1>1. CASE Register(e) \/ CatchUp(e)
    <2>1. /\ UNCHANGED <<dial, holding>> /\ ends[e] \in {"register", "snapshot"}
          /\ \E s \in {"snapshot", "linked"} : ends' = [ends EXCEPT ![e] = s]
      BY <1>1 DEF Register, CatchUp
    <2>2. EndTypes' /\ \A c \in Ends : ends'[c] = ends[c]
                                       \/ (ends[c] \in {"register", "snapshot"}
                                           /\ ends'[c] \in {"snapshot", "linked"})
      BY <2>1 DEF EndTypes
    <2>. QED  BY <2>1, <2>2, EndsOfDialer DEF LoopTypes, EndOfRun, PermitsHeld
  <1>2. CASE ReceiveAnnounce(e)
    BY <1>2 DEF ReceiveAnnounce, LoopTypes, EndTypes, EndOfRun, PermitsHeld
  <1>3. CASE EndCloses(e)
    <2>1. /\ UNCHANGED holding /\ ends[e] \in {"accepted", "linked"}
          /\ ends' = [ends EXCEPT ![e] = "none"]
      BY <1>3 DEF EndCloses
    <2>2. EndTypes' /\ ends'[e] = "none" /\ \A c \in Ends : c # e => ends'[c] = ends[c]
      BY <2>1 DEF EndTypes
    <2>3. CASE e[2] = "dial"
      <3>1. PICK long \in BOOLEAN : Retry(e[1], long)
        BY <1>3, <2>3 DEF EndCloses
      <3>2. e[1] \in Dialers /\ e = DialEnd(e[1]) /\ dial[e[1]].pc = "run"
        BY <2>1, <2>3, DialerOfEnd DEF EndOfRun
      <3>3. /\ LoopTypes' /\ dial'[e[1]].pc = "sleep"
            /\ \A c \in Dialers : c # e[1] => dial'[c] = dial[c]
        BY <3>1, <3>2, RetryFacts
      <3>. QED  BY <2>1, <2>2, <3>2, <3>3, EndsOfDialer DEF EndOfRun, PermitsHeld
    <2>4. CASE e[2] # "dial"
      <3>1. UNCHANGED dial /\ e[1] \in Dialers /\ e = AcceptEnd(e[1])
        BY <1>3, <2>4, DialerOfEnd DEF EndCloses
      <3>. QED  BY <2>1, <2>2, <3>1, EndsOfDialer DEF LoopTypes, EndOfRun, PermitsHeld
    <2>. QED  BY <2>3, <2>4
  <1>. QED  BY <1>1, <1>2, <1>3 DEF EndStep

(* A failure or a timeout gives the permit back together with the step back *)
(* to sleep, and a broken stream touches neither.                           *)
LEMMA FailurePreserves ==
    ASSUME PermitInv, NEW d \in Dialers, Failure(d)
    PROVE  PermitInv'
  <1>. USE DEF PermitInv
  <1>1. CASE DialFails(d) \/ TimesOut(d)
    <2>1. /\ dial[d].pc \in {"connect", "hello"}
          /\ holding' = holding \ {d} /\ UNCHANGED ends
      BY <1>1 DEF DialFails, TimesOut
    <2>2. PICK long \in BOOLEAN : Retry(d, long)
      BY <1>1 DEF DialFails, TimesOut
    <2>3. LoopTypes' /\ dial'[d].pc = "sleep" /\ \A c \in Dialers : c # d => dial'[c] = dial[c]
      BY <2>2, RetryFacts
    <2>. QED  BY <2>1, <2>3 DEF EndTypes, EndOfRun, PermitsHeld
  <1>2. CASE Break(d)
    BY <1>2 DEF Break, LoopTypes, EndTypes, EndOfRun, PermitsHeld
  <1>. QED  BY <1>1, <1>2 DEF Failure

(* A loop that gossip starts was off, and asks for its permit first.        *)
LEMMA SpawnPreserves ==
    ASSUME PermitInv, NEW n \in Nodes, Spawn(n)
    PROVE  PermitInv'
  <1>. USE DEF PermitInv
  <1>1. PICK d \in Dialers : dial[d].pc = "off" /\ dial' = [dial EXCEPT ![d].pc = "permit"]
    BY DEF Spawn, GossipLoops
  <1>2. LoopTypes' /\ dial'[d].pc = "permit" /\ \A c \in Dialers : c # d => dial'[c] = dial[c]
    BY <1>1, StepFacts
  <1>3. UNCHANGED <<ends, holding>>
    BY DEF Spawn
  <1>. QED  BY <1>1, <1>2, <1>3 DEF EndTypes, EndOfRun, PermitsHeld

LEMMA PermitInvInit == DiscoveryInit => PermitInv
  <1>1. SUFFICES ASSUME DiscoveryInit PROVE PermitInv
    OBVIOUS
  <1>2. LoopTypes /\ \A d \in Dialers : dial[d].pc \in {"off", "permit"}
    BY <1>1 DEF DiscoveryInit, NotRunning, LoopTypes
  <1>3. EndTypes /\ EndOfRun
    BY <1>1, EndsOfDialer DEF DiscoveryInit, EndTypes, EndOfRun
  <1>. QED  BY <1>1, <1>2, <1>3 DEF DiscoveryInit, PermitInv, PermitsHeld

LEMMA PermitInvStep == ASSUME PermitInv, [DiscoveryNext]_discoveryVars PROVE PermitInv'
  <1>1. CASE UNCHANGED discoveryVars
    BY <1>1 DEF discoveryVars, PermitInv, LoopTypes, EndTypes, EndOfRun, PermitsHeld
  <1>. QED  BY <1>1, DialStepPreserves, EndStepPreserves, FailurePreserves, SpawnPreserves
               DEF DiscoveryNext, Progress

(* At any number of dial loops, timeouts, failures and links that end, a    *)
(* permit of dial_semaphore is held exactly while its dial_peer is          *)
(* connecting or shaking hands (peering.rs).                                *)
THEOREM PermitsNeverLeak == DiscoverySpec => []PermitsHeld
  <1>1. PermitInv => PermitsHeld
    BY DEF PermitInv
  <1>. QED  BY <1>1, PermitInvInit, PermitInvStep, PTL DEF DiscoverySpec
-----------------------------------------------------------------------------
(* The Hello reply comes first                                              *)

IsSequence(q) == \E S : q \in Seq(S)

QueueTypes == queue = [e \in Ends |-> queue[e]] /\ \A e \in Ends : IsSequence(queue[e])

\* Only an end that has said its Hello, if it owes one, is in PeerLinks.
RegisteredEnds == \A e \in registered : e \in Ends /\ ends[e] \in {"snapshot", "linked"}

\* An accepted end sends nothing before it was told Hello.
SilentUntilHello ==
    \A d \in Dialers : ends[AcceptEnd(d)] \in {"none", "accepted"} => queue[AcceptEnd(d)] = <<>>

ClosedIsEmpty ==
    \A d \in Dialers : d \notin open => queue[DialEnd(d)] = <<>> /\ queue[AcceptEnd(d)] = <<>>

\* While a dialer waits for the reply, the other end has not been told Hello, or the reply
\* is the first thing it queued and is still there.
ReplyIsNext ==
    \A d \in Dialers : dial[d].pc = "hello" =>
        /\ d \in open
        /\ ends[AcceptEnd(d)] = "accepted"
           \/ (queue[AcceptEnd(d)] # <<>> /\ Head(queue[AcceptEnd(d)]).kind = "Hello")

HelloInv == PermitInv /\ QueueTypes /\ RegisteredEnds /\ SilentUntilHello /\ ClosedIsEmpty
            /\ ReplyIsNext

(* What is appended to a queue goes behind its head.                        *)
LEMMA AppendFacts ==
    ASSUME NEW q, IsSequence(q), NEW x
    PROVE  /\ IsSequence(Append(q, x)) /\ Append(q, x) # <<>>
           /\ q = <<>> => Head(Append(q, x)) = x
           /\ q # <<>> => Head(Append(q, x)) = Head(q)
  <1>1. PICK S : q \in Seq(S)
    BY DEF IsSequence
  <1>2. q \in Seq(S \cup {x})
    BY <1>1
  <1>3. Append(q, x) \in Seq(S \cup {x})
    BY <1>2
  <1>. QED  BY <1>2, <1>3 DEF IsSequence

LEMMA TailFacts ==
    ASSUME NEW q, IsSequence(q), q # <<>> PROVE IsSequence(Tail(q))
  BY DEF IsSequence

LEMMA EmptyIsSequence == IsSequence(<<>>)
  <1>1. <<>> \in Seq({})
    OBVIOUS
  <1>. QED  BY <1>1 DEF IsSequence

(* try_send_all adds at most one message to each queue, behind what is in   *)
(* it, and nothing to a connection that is closed or not among its targets. *)
LEMMA SendAllFacts ==
    ASSUME NEW q, \A e \in Ends : IsSequence(q[e]), NEW targets, NEW msg
    PROVE  LET r == SendAll(q, targets, msg)
           IN  /\ r = [e \in Ends |-> r[e]]
               /\ \A e \in Ends :
                     /\ IsSequence(r[e])
                     /\ e \notin targets \/ e[1] \notin open => r[e] = q[e]
                     /\ q[e] # <<>> => r[e] # <<>> /\ Head(r[e]) = Head(q[e])
  BY AppendFacts DEF SendAll

(* Frames of an end that is told Hello already, or of no end at all.        *)
LEMMA SentKeepsHello ==
    ASSUME HelloInv, PermitInv', UNCHANGED <<dial, open>>, QueueTypes',
           \A d \in Dialers :
               /\ ends'[AcceptEnd(d)] \in {"none", "accepted"} <=>
                      ends[AcceptEnd(d)] \in {"none", "accepted"}
               /\ ends[AcceptEnd(d)] = "accepted" => ends'[AcceptEnd(d)] = "accepted"
               /\ ends[AcceptEnd(d)] \in {"none", "accepted"} =>
                      queue'[AcceptEnd(d)] = queue[AcceptEnd(d)]
               /\ d \notin open => UNCHANGED <<queue[DialEnd(d)], queue[AcceptEnd(d)]>>
               /\ dial[d].pc = "hello" /\ queue[AcceptEnd(d)] # <<>> =>
                      /\ queue'[AcceptEnd(d)] # <<>>
                      /\ Head(queue'[AcceptEnd(d)]) = Head(queue[AcceptEnd(d)]),
           RegisteredEnds'
    PROVE  HelloInv'
  BY DEF HelloInv, SilentUntilHello, ClosedIsEmpty, ReplyIsNext

(* A dial loop that sleeps, wakes, starts or waits for a permit.            *)
LEMMA LoopKeepsHello ==
    ASSUME HelloInv, PermitInv', UNCHANGED <<ends, open, queue, registered>>,
           \A d \in Dialers : dial'[d].pc = "hello" => dial[d].pc = "hello"
    PROVE  HelloInv'
  BY DEF HelloInv, QueueTypes, RegisteredEnds, SilentUntilHello, ClosedIsEmpty, ReplyIsNext,
     IsSequence

(* A connection that is closed has nothing in its queues, and its loop does *)
(* not wait for a reply.                                                    *)
LEMMA ClosedKeepsHello ==
    ASSUME HelloInv, PermitInv', NEW d \in Dialers, Closed(d), UNCHANGED <<ends, registered>>,
           dial'[d].pc # "hello", \A c \in Dialers : c # d => dial'[c] = dial[c]
    PROVE  HelloInv'
  <1>. USE DEF HelloInv
  <1>1. /\ open' = open \ {d}
        /\ queue' = [queue EXCEPT ![DialEnd(d)] = <<>>, ![AcceptEnd(d)] = <<>>]
    BY DEF Closed
  <1>2. /\ queue'[DialEnd(d)] = <<>> /\ queue'[AcceptEnd(d)] = <<>>
        /\ \A e \in Ends : e \notin {DialEnd(d), AcceptEnd(d)} => queue'[e] = queue[e]
        /\ queue' = [e \in Ends |-> queue'[e]]
    BY <1>1, EndsOfDialer DEF QueueTypes
  <1>3. \A c \in Dialers : c # d => /\ queue'[DialEnd(c)] = queue[DialEnd(c)]
                                    /\ queue'[AcceptEnd(c)] = queue[AcceptEnd(c)]
    BY <1>2, EndsOfDialer
  <1>4. QueueTypes'
    <2>1. \A e \in Ends : IsSequence(queue'[e])
      BY <1>2, EmptyIsSequence DEF QueueTypes
    <2>. QED  BY <1>2, <2>1 DEF QueueTypes, IsSequence
  <1>5. SilentUntilHello'
    BY <1>2, <1>3 DEF SilentUntilHello
  <1>6. ClosedIsEmpty'
    BY <1>1, <1>2, <1>3 DEF ClosedIsEmpty
  <1>7. ReplyIsNext'
    <2>. SUFFICES ASSUME NEW c \in Dialers, dial'[c].pc = "hello"
                  PROVE  /\ c \in open'
                         /\ ends[AcceptEnd(c)] = "accepted"
                            \/ (queue'[AcceptEnd(c)] # <<>>
                                /\ Head(queue'[AcceptEnd(c)]).kind = "Hello")
      BY DEF ReplyIsNext
    <2>1. c # d /\ dial[c].pc = "hello"
      OBVIOUS
    <2>2. queue'[AcceptEnd(c)] = queue[AcceptEnd(c)]
      BY <1>3, <2>1
    <2>. QED  BY <1>1, <2>1, <2>2 DEF ReplyIsNext
  <1>. QED  BY <1>4, <1>5, <1>6, <1>7 DEF RegisteredEnds

LEMMA ConnectKeepsHello ==
    ASSUME HelloInv, PermitInv', NEW d \in Dialers, Connect(d) PROVE HelloInv'
  <1>. USE DEF HelloInv
  <1>1. /\ dial[d].pc = "connect" /\ ends[AcceptEnd(d)] = "none"
        /\ open' = open \cup {d} /\ UNCHANGED registered
        /\ ends' = [ends EXCEPT ![AcceptEnd(d)] = "accepted"]
        /\ queue' = [queue EXCEPT ![DialEnd(d)] = <<Hello>>]
        /\ dial' = [dial EXCEPT ![d].pc = "hello"]
    BY DEF Connect
  <1>2. \A c \in Dialers : c # d => dial'[c] = dial[c]
    BY <1>1, StepFacts DEF PermitInv
  <1>3. /\ ends'[AcceptEnd(d)] = "accepted"
        /\ \A e \in Ends : e # AcceptEnd(d) => ends'[e] = ends[e]
    BY <1>1, EndsOfDialer DEF PermitInv, EndTypes
  <1>4. /\ queue' = [e \in Ends |-> queue'[e]]
        /\ \A e \in Ends : e # DialEnd(d) => queue'[e] = queue[e]
        /\ queue'[DialEnd(d)] = <<Hello>>
    BY <1>1, EndsOfDialer DEF QueueTypes
  <1>5. \A c \in Dialers : queue'[AcceptEnd(c)] = queue[AcceptEnd(c)]
    BY <1>4, EndsOfDialer
  <1>6. QueueTypes'
    <2>1. <<Hello>> \in Seq({Hello})
      OBVIOUS
    <2>2. \A e \in Ends : IsSequence(queue'[e])
      BY <1>4, <2>1 DEF QueueTypes, IsSequence
    <2>. QED  BY <1>4, <2>2 DEF QueueTypes, IsSequence
  <1>7. RegisteredEnds'
    BY <1>1, <1>3 DEF RegisteredEnds
  <1>8. SilentUntilHello'
    BY <1>1, <1>3, <1>5, EndsOfDialer DEF SilentUntilHello
  <1>9. ClosedIsEmpty'
    BY <1>1, <1>4, <1>5, EndsOfDialer DEF ClosedIsEmpty
  <1>10. ReplyIsNext'
    BY <1>1, <1>2, <1>3, <1>5, EndsOfDialer DEF ReplyIsNext
  <1>. QED  BY <1>6, <1>7, <1>8, <1>9, <1>10

(* handle_hello queues the reply before the link is in PeerLinks: nothing   *)
(* is in the queue yet.                                                     *)
LEMMA AcceptKeepsHello ==
    ASSUME HelloInv, PermitInv', NEW d \in Dialers, AcceptHello(d) PROVE HelloInv'
  <1>. USE DEF HelloInv
  <1>1. /\ ends[AcceptEnd(d)] = "accepted" /\ queue[DialEnd(d)] # <<>>
        /\ queue' = [queue EXCEPT ![DialEnd(d)] = Tail(@), ![AcceptEnd(d)] = Append(@, Hello)]
        /\ ends' = [ends EXCEPT ![AcceptEnd(d)] = "register"]
        /\ UNCHANGED <<dial, open, registered>>
    BY DEF AcceptHello
  <1>2. d \in open /\ queue[AcceptEnd(d)] = <<>>
    BY <1>1 DEF ClosedIsEmpty, SilentUntilHello
  <1>3. /\ ends'[AcceptEnd(d)] = "register"
        /\ \A e \in Ends : e # AcceptEnd(d) => ends'[e] = ends[e]
    BY <1>1, EndsOfDialer DEF PermitInv, EndTypes
  <1>4. /\ queue' = [e \in Ends |-> queue'[e]]
        /\ \A e \in Ends : e \notin {DialEnd(d), AcceptEnd(d)} => queue'[e] = queue[e]
        /\ queue'[DialEnd(d)] = Tail(queue[DialEnd(d)])
        /\ queue'[AcceptEnd(d)] = Append(queue[AcceptEnd(d)], Hello)
    BY <1>1, EndsOfDialer DEF QueueTypes
  <1>5. \A c \in Dialers : c # d => /\ queue'[DialEnd(c)] = queue[DialEnd(c)]
                                    /\ queue'[AcceptEnd(c)] = queue[AcceptEnd(c)]
    BY <1>4, EndsOfDialer
  <1>6. /\ IsSequence(queue'[AcceptEnd(d)]) /\ queue'[AcceptEnd(d)] # <<>>
        /\ Head(queue'[AcceptEnd(d)]).kind = "Hello"
    <2>1. IsSequence(queue[AcceptEnd(d)])
      BY EndsOfDialer DEF QueueTypes
    <2>2. /\ IsSequence(queue'[AcceptEnd(d)]) /\ queue'[AcceptEnd(d)] # <<>>
          /\ Head(queue'[AcceptEnd(d)]) = Hello
      BY <1>2, <1>4, <2>1, AppendFacts
    <2>3. Hello.kind = "Hello"
      BY DEF Hello
    <2>. QED  BY <2>2, <2>3
  <1>7. QueueTypes'
    <2>1. IsSequence(queue'[DialEnd(d)])
      BY <1>1, <1>4, TailFacts, EndsOfDialer DEF QueueTypes
    <2>2. \A e \in Ends : IsSequence(queue'[e])
      BY <1>4, <1>6, <2>1 DEF QueueTypes
    <2>. QED  BY <1>4, <2>2 DEF QueueTypes, IsSequence
  <1>8. RegisteredEnds'
    BY <1>1, <1>3 DEF RegisteredEnds
  <1>9. SilentUntilHello'
    BY <1>3, <1>5, EndsOfDialer DEF SilentUntilHello
  <1>10. ClosedIsEmpty'
    BY <1>1, <1>2, <1>5 DEF ClosedIsEmpty
  <1>11. ReplyIsNext'
    <2>1. ASSUME NEW c \in Dialers, c # d PROVE ends'[AcceptEnd(c)] = ends[AcceptEnd(c)]
      BY <1>3, <2>1, EndsOfDialer
    <2>. QED  BY <1>1, <1>2, <1>5, <1>6, <2>1 DEF ReplyIsNext
  <1>. QED  BY <1>7, <1>8, <1>9, <1>10, <1>11

(* recv_hello takes the reply out, and the dialer waits no longer.          *)
LEMMA ReplyKeepsHello ==
    ASSUME HelloInv, PermitInv', NEW d \in Dialers, HelloReply(d) PROVE HelloInv'
  <1>. USE DEF HelloInv
  <1>1. dial[d].pc = "hello" /\ queue[AcceptEnd(d)] # <<>> /\ UNCHANGED registered
    BY DEF HelloReply
  <1>2. Head(queue[AcceptEnd(d)]).kind = "Hello" /\ d \in open
    BY <1>1 DEF ReplyIsNext, SilentUntilHello
  <1>3. /\ dial' = [dial EXCEPT ![d].pc = "run"]
        /\ ends' = [ends EXCEPT ![DialEnd(d)] = "register"]
        /\ queue' = [queue EXCEPT ![AcceptEnd(d)] = Tail(@)]
        /\ UNCHANGED open
    BY <1>2 DEF HelloReply
  <1>4. dial'[d].pc = "run" /\ \A c \in Dialers : c # d => dial'[c] = dial[c]
    BY <1>3, StepFacts DEF PermitInv
  <1>5. ends[DialEnd(d)] = "none" /\ ends[AcceptEnd(d)] \notin {"none", "accepted"}
    BY <1>1 DEF PermitInv, EndOfRun, SilentUntilHello
  <1>6. \A e \in Ends : e # DialEnd(d) => ends'[e] = ends[e]
    BY <1>3, EndsOfDialer DEF PermitInv, EndTypes
  <1>7. /\ queue' = [e \in Ends |-> queue'[e]]
        /\ \A e \in Ends : e # AcceptEnd(d) => queue'[e] = queue[e]
        /\ queue'[AcceptEnd(d)] = Tail(queue[AcceptEnd(d)])
    BY <1>3, EndsOfDialer DEF QueueTypes
  <1>8. QueueTypes'
    <2>1. IsSequence(queue'[AcceptEnd(d)])
      BY <1>1, <1>7, TailFacts, EndsOfDialer DEF QueueTypes
    <2>2. \A e \in Ends : IsSequence(queue'[e])
      BY <1>7, <2>1 DEF QueueTypes
    <2>. QED  BY <1>7, <2>2 DEF QueueTypes, IsSequence
  <1>9. RegisteredEnds'
    BY <1>1, <1>5, <1>6 DEF RegisteredEnds
  <1>10. \A c \in Dialers : ends'[AcceptEnd(c)] = ends[AcceptEnd(c)]
    BY <1>6, EndsOfDialer
  <1>11. SilentUntilHello'
    BY <1>5, <1>7, <1>10, EndsOfDialer DEF SilentUntilHello
  <1>12. ClosedIsEmpty'
    BY <1>2, <1>3, <1>7, EndsOfDialer DEF ClosedIsEmpty
  <1>13. ReplyIsNext'
    BY <1>3, <1>4, <1>7, <1>10, EndsOfDialer DEF ReplyIsNext
  <1>. QED  BY <1>8, <1>9, <1>11, <1>12, <1>13

(* What a link sends goes behind the reply, and only ends that have said    *)
(* Hello are sent anything: register_peer_link, the catch-up and relays.    *)
LEMMA LinkKeepsHello ==
    ASSUME HelloInv, PermitInv', NEW e \in Ends, Register(e) \/ CatchUp(e) PROVE HelloInv'
  <1>. USE DEF HelloInv
  <1>1. /\ ends[e] \in {"register", "snapshot"} /\ UNCHANGED <<dial, open>>
        /\ registered' \in {registered, registered \cup {e}}
        /\ \E s \in {"snapshot", "linked"} : ends' = [ends EXCEPT ![e] = s]
    BY DEF Register, CatchUp
  <1>2. /\ ends'[e] \in {"snapshot", "linked"}
        /\ \A c \in Ends : c # e => ends'[c] = ends[c]
    BY <1>1 DEF PermitInv, EndTypes
  <1>3. RegisteredEnds'
    BY <1>1, <1>2 DEF RegisteredEnds
  <1>4. PICK targets, msg :
          /\ targets \subseteq registered \cup {e}
          /\ queue' = queue \/ queue' = SendAll(queue, targets, msg)
    <2>1. CASE Register(e)
      BY <2>1 DEF Register, LinksOf
    <2>2. CASE CatchUp(e)
      BY <2>2 DEF CatchUp
    <2>. QED  BY <2>1, <2>2
  <1>5. /\ queue' = [c \in Ends |-> queue'[c]]
        /\ \A c \in Ends :
              /\ IsSequence(queue'[c])
              /\ c \notin targets \/ c[1] \notin open => queue'[c] = queue[c]
              /\ queue[c] # <<>> => queue'[c] # <<>> /\ Head(queue'[c]) = Head(queue[c])
    <2>1. \A c \in Ends : IsSequence(queue[c])
      BY DEF QueueTypes
    <2>2. CASE queue' = queue
      BY <2>1, <2>2 DEF QueueTypes
    <2>3. CASE queue' = SendAll(queue, targets, msg)
      BY <2>1, <2>3, SendAllFacts
    <2>. QED  BY <1>4, <2>2, <2>3
  <1>6. QueueTypes'
    BY <1>5 DEF QueueTypes, IsSequence
  <1>7. \A c \in Ends : ends[c] \in {"none", "accepted"} => c \notin targets /\ c # e
    BY <1>1, <1>4 DEF RegisteredEnds
  <1>8. ASSUME NEW d \in Dialers
        PROVE  /\ ends'[AcceptEnd(d)] \in {"none", "accepted"} <=>
                      ends[AcceptEnd(d)] \in {"none", "accepted"}
               /\ ends[AcceptEnd(d)] = "accepted" => ends'[AcceptEnd(d)] = "accepted"
               /\ ends[AcceptEnd(d)] \in {"none", "accepted"} =>
                      queue'[AcceptEnd(d)] = queue[AcceptEnd(d)]
               /\ d \notin open => UNCHANGED <<queue[DialEnd(d)], queue[AcceptEnd(d)]>>
               /\ dial[d].pc = "hello" /\ queue[AcceptEnd(d)] # <<>> =>
                      /\ queue'[AcceptEnd(d)] # <<>>
                      /\ Head(queue'[AcceptEnd(d)]) = Head(queue[AcceptEnd(d)])
    <2>1. AcceptEnd(d) \in Ends /\ DialEnd(d) \in Ends /\ AcceptEnd(d)[1] = d /\ DialEnd(d)[1] = d
      BY EndsOfDialer DEF AcceptEnd, DialEnd
    <2>. QED  BY <1>1, <1>2, <1>5, <1>7, <2>1
  <1>. QED  BY <1>1, <1>3, <1>6, <1>8, SentKeepsHello

(* A relay reads from the queue of the other end only once both are linked, *)
(* which no dialer that waits for the reply is.                             *)
LEMMA RelayKeepsHello ==
    ASSUME HelloInv, PermitInv', NEW e \in Ends, ReceiveAnnounce(e) PROVE HelloInv'
  <1>. USE DEF HelloInv
  <1> DEFINE rest == [queue EXCEPT ![Other(e)] = Tail(@)]
  <1>1. /\ ends[e] = "linked" /\ queue[Other(e)] # <<>>
        /\ UNCHANGED <<dial, ends, open, registered>>
    BY DEF ReceiveAnnounce
  <1>2. PICK msg : queue' = rest \/ queue' = SendAll(rest, LinksOf(NodeOf(e)), msg)
    BY DEF ReceiveAnnounce
  <1>3. e[1] \in Dialers /\ Other(e) \in Ends /\ Other(e)[1] = e[1]
        /\ \A d \in Dialers : Other(e) = AcceptEnd(d) => e = DialEnd(d)
    BY DialerOfEnd, EndsOfDialer DEF Other, AcceptEnd, DialEnd, Ends
  <1>4. /\ rest = [c \in Ends |-> rest[c]] /\ rest[Other(e)] = Tail(queue[Other(e)])
        /\ \A c \in Ends : c # Other(e) => rest[c] = queue[c]
    BY <1>3 DEF QueueTypes
  <1>5. \A c \in Ends : IsSequence(rest[c])
    <2>1. IsSequence(rest[Other(e)])
      BY <1>1, <1>3, <1>4, TailFacts DEF QueueTypes
    <2>. QED  BY <1>4, <2>1 DEF QueueTypes
  <1>6. /\ queue' = [c \in Ends |-> queue'[c]]
        /\ \A c \in Ends :
              /\ IsSequence(queue'[c])
              /\ c \notin registered \/ c[1] \notin open => queue'[c] = rest[c]
              /\ rest[c] # <<>> => queue'[c] # <<>> /\ Head(queue'[c]) = Head(rest[c])
    <2>1. CASE queue' = rest
      BY <1>4, <1>5, <2>1
    <2>2. CASE queue' = SendAll(rest, LinksOf(NodeOf(e)), msg)
      <3>1. LinksOf(NodeOf(e)) \subseteq registered
        BY DEF LinksOf
      <3>. HIDE DEF rest
      <3>. QED  BY <1>5, <2>2, <3>1, SendAllFacts
    <2>. QED  BY <1>2, <2>1, <2>2
  <1>7. QueueTypes'
    BY <1>6 DEF QueueTypes, IsSequence
  <1>8. e[1] \in open
    BY <1>1, <1>3, DialerOfEnd DEF ClosedIsEmpty, Other
  <1>9. RegisteredEnds'
    BY <1>1 DEF RegisteredEnds
  <1>10. ASSUME NEW d \in Dialers
         PROVE  /\ ends[AcceptEnd(d)] \in {"none", "accepted"} =>
                      queue'[AcceptEnd(d)] = queue[AcceptEnd(d)]
                /\ d \notin open => UNCHANGED <<queue[DialEnd(d)], queue[AcceptEnd(d)]>>
                /\ dial[d].pc = "hello" /\ queue[AcceptEnd(d)] # <<>> =>
                      /\ queue'[AcceptEnd(d)] # <<>>
                      /\ Head(queue'[AcceptEnd(d)]) = Head(queue[AcceptEnd(d)])
    <2>. HIDE DEF rest
    <2>1. AcceptEnd(d) \in Ends /\ DialEnd(d) \in Ends /\ AcceptEnd(d)[1] = d /\ DialEnd(d)[1] = d
      BY EndsOfDialer DEF AcceptEnd, DialEnd
    <2>2. ends[AcceptEnd(d)] \in {"none", "accepted"} =>
              AcceptEnd(d) \notin registered /\ AcceptEnd(d) # Other(e)
      BY <1>1 DEF RegisteredEnds, SilentUntilHello
    <2>3. d \notin open => AcceptEnd(d) # Other(e) /\ DialEnd(d) # Other(e)
      BY <1>3, <1>8, <2>1
    <2>4. dial[d].pc = "hello" => AcceptEnd(d) # Other(e)
      BY <1>1, <1>3 DEF PermitInv, EndOfRun
    <2>. QED  BY <1>4, <1>6, <2>1, <2>2, <2>3, <2>4
  <1>. QED  BY <1>1, <1>7, <1>9, <1>10, SentKeepsHello

(* An end leaves PeerLinks as it ends, and by then its queue is empty.      *)
LEMMA EndKeepsHello ==
    ASSUME HelloInv, PermitInv', NEW e \in Ends, EndCloses(e) PROVE HelloInv'
  <1>. USE DEF HelloInv
  <1>1. /\ e[1] \notin open /\ registered' = registered \ {e}
        /\ ends[e] \in {"accepted", "linked"} /\ ends' = [ends EXCEPT ![e] = "none"]
        /\ UNCHANGED <<open, queue>>
    BY DEF EndCloses
  <1>2. ends'[e] = "none" /\ \A c \in Ends : c # e => ends'[c] = ends[c]
    BY <1>1 DEF PermitInv, EndTypes
  <1>3. e[1] \in Dialers
    BY DialerOfEnd
  <1>4. /\ \A c \in Dialers : c # e[1] => dial'[c] = dial[c]
        /\ dial'[e[1]].pc # "hello"
    <2>1. CASE e[2] = "dial"
      <3>1. PICK long \in BOOLEAN : Retry(e[1], long)
        BY <2>1 DEF EndCloses
      <3>. QED  BY <1>3, <3>1, RetryFacts DEF PermitInv
    <2>2. CASE e[2] # "dial"
      BY <1>1, <1>3, <2>2 DEF EndCloses, ReplyIsNext
    <2>. QED  BY <2>1, <2>2
  <1>5. QueueTypes'
    BY <1>1 DEF QueueTypes, IsSequence
  <1>6. RegisteredEnds'
    BY <1>1, <1>2 DEF RegisteredEnds
  <1>7. ClosedIsEmpty'
    BY <1>1 DEF ClosedIsEmpty
  <1>8. SilentUntilHello'
    <2>1. SUFFICES ASSUME NEW d \in Dialers, ends'[AcceptEnd(d)] \in {"none", "accepted"}
                   PROVE  queue[AcceptEnd(d)] = <<>>
      BY <1>1 DEF SilentUntilHello
    <2>2. CASE AcceptEnd(d) = e
      <3>1. d = e[1]
        BY <2>2 DEF AcceptEnd
      <3>. QED  BY <1>1, <3>1 DEF ClosedIsEmpty
    <2>3. CASE AcceptEnd(d) # e
      BY <1>2, <2>1, <2>3, EndsOfDialer DEF SilentUntilHello
    <2>. QED  BY <2>2, <2>3
  <1>9. ReplyIsNext'
    <2>1. SUFFICES ASSUME NEW d \in Dialers, dial'[d].pc = "hello"
                   PROVE  /\ d \in open
                          /\ ends'[AcceptEnd(d)] = "accepted"
                             \/ (queue[AcceptEnd(d)] # <<>>
                                 /\ Head(queue[AcceptEnd(d)]).kind = "Hello")
      BY <1>1 DEF ReplyIsNext
    <2>2. d # e[1] /\ dial[d].pc = "hello"
      BY <1>4, <2>1
    <2>3. AcceptEnd(d) # e
      BY <2>2 DEF AcceptEnd
    <2>. QED  BY <1>2, <2>2, <2>3, EndsOfDialer DEF ReplyIsNext
  <1>. QED  BY <1>5, <1>6, <1>7, <1>8, <1>9

(* The first frame a dialer finds in the queue is the Hello reply           *)
(* (dial_handshake, handle_hello, register_peer_link): however links        *)
(* register, catch up, relay, break and time out meanwhile, for every mesh. *)
THEOREM HelloComesFirst == DiscoverySpec => []HelloFirst
  <1>1. DiscoveryInit => HelloInv
    <2>1. SUFFICES ASSUME DiscoveryInit PROVE HelloInv
      OBVIOUS
    <2>2. PermitInv
      BY <2>1, PermitInvInit
    <2>3. \A d \in Dialers : dial[d].pc # "hello"
      BY <2>1 DEF DiscoveryInit, NotRunning
    <2>4. \A e \in Ends : queue[e] = <<>>
      BY <2>1 DEF DiscoveryInit
    <2>5. QueueTypes
      BY <2>1, EmptyIsSequence DEF DiscoveryInit, QueueTypes
    <2>6. SilentUntilHello /\ ClosedIsEmpty
      BY <2>4, EndsOfDialer DEF SilentUntilHello, ClosedIsEmpty
    <2>. QED  BY <2>1, <2>2, <2>3, <2>5, <2>6 DEF DiscoveryInit, HelloInv, RegisteredEnds,
                 ReplyIsNext
  <1>2. HelloInv /\ [DiscoveryNext]_discoveryVars => HelloInv'
    <2>1. SUFFICES ASSUME HelloInv, [DiscoveryNext]_discoveryVars PROVE HelloInv'
      OBVIOUS
    <2>2. PermitInv'
      BY <2>1, PermitInvStep DEF HelloInv
    <2>3. CASE UNCHANGED discoveryVars
      BY <2>1, <2>2, <2>3, LoopKeepsHello DEF discoveryVars
    <2>4. ASSUME NEW n \in Nodes, Spawn(n) PROVE HelloInv'
      <3>1. PICK d \in Dialers : dial' = [dial EXCEPT ![d].pc = "permit"]
        BY <2>4 DEF Spawn, GossipLoops
      <3>2. \A c \in Dialers : dial'[c].pc = "hello" => dial[c].pc = "hello"
        BY <2>1, <3>1, StepFacts DEF HelloInv, PermitInv
      <3>. QED  BY <2>1, <2>2, <2>4, <3>2, LoopKeepsHello DEF Spawn
    <2>5. ASSUME NEW d \in Dialers, DialStep(d) PROVE HelloInv'
      <3>1. CASE Wake(d) \/ Acquire(d)
        <4>1. \A c \in Dialers : dial'[c].pc = "hello" => dial[c].pc = "hello"
          BY <2>1, <3>1, StepFacts DEF Wake, Acquire, HelloInv, PermitInv
        <4>. QED  BY <2>1, <2>2, <3>1, <4>1, LoopKeepsHello DEF Wake, Acquire
      <3>. QED  BY <2>1, <2>2, <2>5, <3>1, ConnectKeepsHello, ReplyKeepsHello, AcceptKeepsHello
                   DEF DialStep
    <2>6. ASSUME NEW e \in Ends, EndStep(e) PROVE HelloInv'
      BY <2>1, <2>2, <2>6, LinkKeepsHello, RelayKeepsHello, EndKeepsHello DEF EndStep
    <2>7. ASSUME NEW d \in Dialers, Failure(d) PROVE HelloInv'
      <3>1. Closed(d) /\ UNCHANGED <<ends, registered>>
        BY <2>7 DEF Failure, DialFails, TimesOut, Break
      <3>2. dial'[d].pc # "hello" /\ \A c \in Dialers : c # d => dial'[c] = dial[c]
        <4>1. CASE DialFails(d) \/ TimesOut(d)
          <5>1. PICK long \in BOOLEAN : Retry(d, long)
            BY <4>1 DEF DialFails, TimesOut
          <5>. QED  BY <2>1, <5>1, RetryFacts DEF HelloInv, PermitInv
        <4>2. CASE Break(d)
          BY <4>2 DEF Break
        <4>. QED  BY <2>7, <4>1, <4>2 DEF Failure
      <3>. QED  BY <2>1, <2>2, <3>1, <3>2, ClosedKeepsHello
    <2>. QED  BY <2>1, <2>3, <2>4, <2>5, <2>6, <2>7 DEF DiscoveryNext, Progress
  <1>3. HelloInv => HelloFirst
    BY DEF HelloInv, ReplyIsNext, SilentUntilHello, HelloFirst
  <1>. QED  BY <1>1, <1>2, <1>3, PTL DEF DiscoverySpec
-----------------------------------------------------------------------------
(* One dial loop per peer                                                   *)

\* The places at which a peer waits to be dialed.
Waiting(s, m) == {k \in DOMAIN s : s[k] = m}

(* Sequences as the mailbox of discovered peers: what is sent is counted    *)
(* once more, what is taken once less.                                      *)
LEMMA WaitingFinite ==
    ASSUME NEW S, NEW s \in Seq(S), NEW m
    PROVE  IsFiniteSet(Waiting(s, m)) /\ Cardinality(Waiting(s, m)) \in Nat
  <1>1. IsFiniteSet(1 .. Len(s)) /\ Waiting(s, m) \in SUBSET (1 .. Len(s))
    BY FS_Interval DEF Waiting
  <1>. QED  BY <1>1, FS_Subset, FS_CardinalityType

LEMMA WaitingAppend ==
    ASSUME NEW S, NEW s \in Seq(S), NEW x \in S, NEW m
    PROVE  Cardinality(Waiting(Append(s, x), m))
             = Cardinality(Waiting(s, m)) + (IF x = m THEN 1 ELSE 0)
  <1>1. IsFiniteSet(Waiting(s, m)) /\ Cardinality(Waiting(s, m)) \in Nat
    BY WaitingFinite
  <1>2. Len(s) + 1 \notin Waiting(s, m)
    BY DEF Waiting
  <1>3. Waiting(Append(s, x), m)
          = IF x = m THEN Waiting(s, m) \cup {Len(s) + 1} ELSE Waiting(s, m)
    BY DEF Waiting
  <1>4. CASE x = m
    BY <1>1, <1>2, <1>3, <1>4, FS_AddElement
  <1>5. CASE x # m
    BY <1>1, <1>3, <1>5
  <1>. QED  BY <1>4, <1>5

LEMMA WaitingTail ==
    ASSUME NEW S, NEW s \in Seq(S), s # <<>>, NEW m
    PROVE  Cardinality(Waiting(Tail(s), m))
             = Cardinality(Waiting(s, m)) - (IF Head(s) = m THEN 1 ELSE 0)
  <1>. DEFINE U == Waiting(s, m) \ {1}
              f == [k \in U |-> k - 1]
              V == Waiting(Tail(s), m)
  <1>1. IsFiniteSet(Waiting(s, m)) /\ Cardinality(Waiting(s, m)) \in Nat
    BY WaitingFinite
  <1>2. IsFiniteSet(U)
        /\ Cardinality(U) = Cardinality(Waiting(s, m)) - (IF Head(s) = m THEN 1 ELSE 0)
    <2>1. 1 \in Waiting(s, m) <=> Head(s) = m
      BY DEF Waiting
    <2>. QED  BY <1>1, <2>1, FS_RemoveElement
  <1>3. Tail(s) \in Seq(S) /\ Len(Tail(s)) = Len(s) - 1
        /\ \A k \in 1 .. Len(s) - 1 : Tail(s)[k] = s[k + 1]
    OBVIOUS
  <1>4. \A k \in U : f[k] \in V
    BY <1>3 DEF Waiting
  <1>5. \A j, k \in U : f[j] = f[k] => j = k
    BY DEF Waiting
  <1>6. \A v \in V : \E k \in U : f[k] = v
    <2>1. SUFFICES ASSUME NEW v \in V PROVE v + 1 \in U /\ f[v + 1] = v
      OBVIOUS
    <2>2. v \in 1 .. Len(s) - 1 /\ s[v + 1] = m
      BY <1>3 DEF Waiting
    <2>3. v + 1 \in U
      BY <2>2 DEF Waiting
    <2>. QED  BY <2>2, <2>3
  <1>7. ExistsBijection(U, V)
    <2>1. f \in [U -> V]
      BY <1>4
    <2>. HIDE DEF U, V, f
    <2>2. f \in Injection(U, V) /\ f \in Surjection(U, V)
      BY <1>5, <1>6, <2>1 DEF Injection, Surjection, IsInjective
    <2>. QED  BY <2>2 DEF ExistsBijection, Bijection
  <1>. HIDE DEF U, V
  <1>8. Cardinality(V) = Cardinality(U)
    BY <1>2, <1>7, FS_Bijection
  <1>. QED  BY <1>2, <1>8 DEF V

(* A recorded peer is known, and a directory holds nothing but peers.       *)
LEMMA RecordFacts ==
    ASSUME NEW n \in Nodes, NEW dir \in Seq(Nodes), NEW m \in Nodes
    PROVE  /\ Without(dir, m) \in Seq(Nodes)
           /\ Record(n, dir, m) \in Seq(Nodes) /\ IsKnown(Record(n, dir, m), m)
  <1>. DEFINE w == Without(dir, m)
              t == Append(w, m)
  <1>1. w \in Seq(Nodes)
    <2>1. CASE ~IsKnown(dir, m)
      BY <2>1 DEF Without
    <2>2. CASE IsKnown(dir, m)
      <3>. DEFINE i == CHOOSE i \in DOMAIN dir : dir[i] = m
      <3>1. i \in 1 .. Len(dir)
        BY <2>2 DEF IsKnown, ToSet
      <3>2. w = SubSeq(dir, 1, i - 1) \o SubSeq(dir, i + 1, Len(dir))
        BY <2>2 DEF Without, RemoveAt
      <3>. HIDE DEF i
      <3>3. SubSeq(dir, 1, i - 1) \in Seq(Nodes) /\ SubSeq(dir, i + 1, Len(dir)) \in Seq(Nodes)
        BY <3>1
      <3>. QED  BY <3>2, <3>3
    <2>. QED  BY <2>1, <2>2
  <1>2. Touched(dir, m) = t
    BY DEF Touched
  <1>. HIDE DEF w
  <1>3. t \in Seq(Nodes) /\ Len(t) = Len(w) + 1 /\ t[Len(t)] = m /\ Len(w) \in Nat
    BY <1>1
  <1>. HIDE DEF t
  <1>4. CASE Len(t) > DirCap[n]
    <2>1. Record(n, dir, m) = Tail(t)
      BY <1>2, <1>4 DEF Record
    <2>2. Len(t) > 1 /\ t # <<>>
      BY <1>3, <1>4, DiscoveryAssumption
    <2>3. Tail(t) \in Seq(Nodes) /\ Len(Tail(t)) = Len(t) - 1 /\ Tail(t)[Len(t) - 1] = t[Len(t)]
      BY <1>3, <2>2
    <2>4. Len(t) - 1 \in DOMAIN Tail(t)
      BY <1>3, <2>2, <2>3
    <2>. QED  BY <1>1, <1>3, <2>1, <2>3, <2>4 DEF IsKnown, ToSet, w
  <1>5. CASE ~(Len(t) > DirCap[n])
    <2>1. Record(n, dir, m) = t
      BY <1>2, <1>5 DEF Record
    <2>2. Len(t) \in DOMAIN t
      BY <1>3
    <2>. QED  BY <1>1, <1>3, <2>1, <2>2 DEF IsKnown, ToSet, w
  <1>. QED  BY <1>4, <1>5

\* What learn_peers works on.
Accs == [node : Nodes, dir : Seq(Nodes), evicted : [Nodes -> Nat], dials : Seq(Nodes),
         new : Seq(Nodes)]

\* How many loops a node n may have started or is to start for m.
Allowed(n, m, dir, counts) ==
    IF n < m THEN counts[m] + (IF IsKnown(dir, m) THEN 1 ELSE 0) ELSE 0

\* Bounded with the loops that run already.
Bounded(acc, loops) ==
    \A m \in Nodes : loops[m] + Cardinality(Waiting(acc.dials, m))
                       <= Allowed(acc.node, m, acc.dir, acc.evicted)

(* A peer that a record pushes out is counted, and one that comes in may be *)
(* dialed: the bound never shrinks, and grows for what is news.             *)
LEMMA RecordBound ==
    ASSUME NEW n \in Nodes, NEW dir \in Seq(Nodes), NEW counts \in [Nodes -> Nat],
           NEW m \in Nodes, NEW x \in Nodes
    PROVE  LET c == WithEvictions(counts, Evicts(n, dir, m))
               a == Allowed(n, x, dir, counts)
               b == Allowed(n, x, Record(n, dir, m), c)
           IN  /\ c \in [Nodes -> Nat] /\ a \in Nat /\ b \in Nat /\ a <= b
               /\ x = m /\ ~IsKnown(dir, m) /\ n < m => a + 1 <= b
  <1>. DEFINE r == Record(n, dir, m)
              c == WithEvictions(counts, Evicts(n, dir, m))
  <1>1. IsKnown(r, m)
    BY RecordFacts
  <1>2. /\ c \in [Nodes -> Nat]
        /\ c[x] = counts[x] + (IF x \in Evicts(n, dir, m) THEN 1 ELSE 0)
    BY DEF WithEvictions
  <1>3. IsKnown(dir, x) /\ ~IsKnown(r, x) => x \in Evicts(n, dir, m)
    BY DEF Evicts, IsKnown
  <1>4. n \in Nat /\ x \in Nat /\ counts[x] \in Nat
    BY DiscoveryAssumption
  <1>. HIDE DEF r, c
  <1>5. /\ Allowed(n, x, dir, counts) \in Nat /\ Allowed(n, x, r, c) \in Nat
        /\ Allowed(n, x, dir, counts) <= Allowed(n, x, r, c)
        /\ x = m /\ ~IsKnown(dir, m) /\ n < m =>
              Allowed(n, x, dir, counts) + 1 <= Allowed(n, x, r, c)
    BY <1>1, <1>2, <1>3, <1>4 DEF Allowed
  <1>. QED  BY <1>2, <1>5 DEF r, c

(* One turn of the loop of learn_peers.                                     *)
LEMMA LearnKeeps ==
    ASSUME NEW acc \in Accs, NEW loops \in [Nodes -> Nat], Bounded(acc, loops), NEW m \in Nodes
    PROVE  /\ Learn(acc, m) \in Accs /\ Learn(acc, m).node = acc.node
           /\ Bounded(Learn(acc, m), loops)
  <1>1. CASE m = acc.node
    BY <1>1 DEF Learn
  <1>2. CASE m # acc.node
    <2>. DEFINE n == acc.node
                isNew == ~IsKnown(acc.dir, m)
                b == Recorded(acc, m, isNew)
                r == Record(n, acc.dir, m)
                c == WithEvictions(acc.evicted, Evicts(n, acc.dir, m))
                dials == IF isNew /\ ShouldDial(n, m) THEN Append(acc.dials, m) ELSE acc.dials
                new == IF isNew THEN Append(acc.new, m) ELSE acc.new
    <2>1. Learn(acc, m) = b
      BY <1>2 DEF Learn
    <2>2. n \in Nodes /\ acc.dir \in Seq(Nodes) /\ acc.evicted \in [Nodes -> Nat]
          /\ acc.dials \in Seq(Nodes) /\ acc.new \in Seq(Nodes)
      BY DEF Accs
    <2>3. r \in Seq(Nodes) /\ c \in [Nodes -> Nat]
      BY <2>2, RecordFacts, RecordBound
    <2>4. b = [acc EXCEPT !.dir = r, !.evicted = c, !.dials = dials, !.new = new]
      BY DEF Recorded
    <2>5. dials \in Seq(Nodes) /\ new \in Seq(Nodes)
      BY <2>2
    <2>6. /\ b \in Accs /\ b.node = n /\ b.dir = r /\ b.evicted = c /\ b.dials = dials
      <3>. HIDE DEF r, c, dials, new, b
      <3>. QED  BY <2>3, <2>4, <2>5 DEF Accs
    <2>. HIDE DEF r, c, b
    <2>7. ASSUME NEW x \in Nodes
          PROVE  loops[x] + Cardinality(Waiting(b.dials, x)) <= Allowed(n, x, b.dir, b.evicted)
      <3>. DEFINE old == Cardinality(Waiting(acc.dials, x))
                  s == Allowed(n, x, acc.dir, acc.evicted)
                  t == Allowed(n, x, r, c)
      <3>1. loops[x] \in Nat /\ old \in Nat /\ loops[x] + old <= s
        BY <2>2, WaitingFinite DEF Bounded
      <3>2. s \in Nat /\ t \in Nat /\ s <= t /\ (x = m /\ isNew /\ n < m => s + 1 <= t)
        BY <2>2, RecordBound DEF r, c
      <3>4. Cardinality(Waiting(b.dials, x))
              = IF isNew /\ n < m /\ x = m THEN old + 1 ELSE old
        <4>1. CASE isNew /\ n < m
          <5>1. b.dials = Append(acc.dials, m)
            BY <2>6, <4>1 DEF ShouldDial
          <5>2. Cardinality(Waiting(b.dials, x)) = old + (IF m = x THEN 1 ELSE 0)
            BY <2>2, <5>1, WaitingAppend
          <5>3. old \in Nat
            BY <3>1
          <5>. HIDE DEF old, isNew
          <5>. QED  BY <4>1, <5>2, <5>3
        <4>2. CASE ~(isNew /\ n < m)
          <5>1. b.dials = acc.dials
            BY <2>6, <4>2 DEF ShouldDial
          <5>. QED  BY <4>2, <5>1
        <4>. QED  BY <4>1, <4>2
      <3>. HIDE DEF old, s, t, isNew
      <3>5. loops[x] + Cardinality(Waiting(b.dials, x)) <= t
        BY <3>1, <3>2, <3>4
      <3>. QED  BY <2>6, <3>5 DEF t
    <2>. QED  BY <2>1, <2>6, <2>7 DEF Bounded
  <1>. QED  BY <1>1, <1>2

(* A set of numbers that is not empty has a least one.                      *)
LEMMA LeastOf ==
    ASSUME NEW T \in SUBSET Nat, T # {}
    PROVE  \E x \in T : \A y \in T : x <= y
  <1>. DEFINE Less == {p \in Nat \X Nat : p[1] < p[2]}
  <1>1. IsWellFoundedOn(Less, Nat)
    BY NatLessThanWellFounded, Zenon DEF OpToRel
  <1>2. PICK x \in T : \A y \in T : ~(<<y, x>> \in Less)
    BY <1>1, WFMin
  <1>3. ASSUME NEW y \in T PROVE x <= y
    <2>1. <<y, x>> \notin Less /\ x \in Nat /\ y \in Nat
      BY <1>2
    <2>. QED  BY <2>1
  <1>. QED  BY <1>3

\* The first turns of the loop: what is learnt after each of the first j adverts.
Turns(g, acc, peers, j) ==
    g = [k \in 0 .. j |-> IF k = 0 THEN acc ELSE Learn(g[k - 1], peers[k])]

(* The loop can be run up to any advert: if there were a first one it could *)
(* not reach, the turn before it would be reached and could be followed.    *)
LEMMA TurnsExist ==
    ASSUME NEW acc, NEW peers, NEW j \in Nat PROVE \E g : Turns(g, acc, peers, j)
  <1>. DEFINE T == {i \in Nat : ~ \E g : Turns(g, acc, peers, i)}
  <1>1. SUFFICES ASSUME T # {} PROVE FALSE
    OBVIOUS
  <1>2. PICK i \in T : \A y \in T : i <= y
    BY <1>1, LeastOf
  <1>3. CASE i = 0
    <2>. DEFINE g == [k \in 0 .. 0 |-> acc]
    <2>1. g = [k \in 0 .. 0 |-> IF k = 0 THEN acc ELSE Learn(g[k - 1], peers[k])]
      OBVIOUS
    <2>2. Turns(g, acc, peers, 0)
      BY <2>1 DEF Turns
    <2>. QED  BY <1>2, <1>3, <2>2
  <1>4. CASE i # 0
    <2>1. i \in Nat /\ i - 1 \in Nat /\ ~(i <= i - 1)
      BY <1>2, <1>4
    <2>2. PICK h : Turns(h, acc, peers, i - 1)
      BY <1>2, <2>1
    <2>. DEFINE g == [k \in 0 .. i |-> IF k = i THEN Learn(h[i - 1], peers[i]) ELSE h[k]]
    <2>3. ASSUME NEW k \in 0 .. i
          PROVE  g[k] = IF k = 0 THEN acc ELSE Learn(g[k - 1], peers[k])
      <3>1. CASE k = i
        <4>1. i - 1 \in 0 .. i /\ i - 1 # i /\ k # 0
          BY <1>4, <2>1, <3>1
        <4>2. g[k - 1] = h[i - 1] /\ g[k] = Learn(h[i - 1], peers[i])
          BY <3>1, <4>1
        <4>. HIDE DEF g
        <4>. QED  BY <3>1, <4>1, <4>2
      <3>2. CASE k # i
        <4>1. k \in 0 .. i - 1 /\ (k # 0 => k - 1 \in 0 .. i /\ k - 1 # i)
          BY <2>1, <3>2
        <4>2. g[k] = h[k] /\ (k # 0 => g[k - 1] = h[k - 1])
          BY <3>2, <4>1
        <4>3. h[k] = IF k = 0 THEN acc ELSE Learn(h[k - 1], peers[k])
          BY <2>2, <4>1 DEF Turns
        <4>. HIDE DEF g
        <4>. QED  BY <4>2, <4>3
      <3>. QED  BY <3>1, <3>2
    <2>4. g = [k \in 0 .. i |-> g[k]]
      OBVIOUS
    <2>. HIDE DEF g
    <2>5. g = [k \in 0 .. i |-> IF k = 0 THEN acc ELSE Learn(g[k - 1], peers[k])]
      BY <2>3, <2>4
    <2>. QED  BY <1>2, <2>5 DEF Turns
  <1>. QED  BY <1>3, <1>4

(* learn_peers is its loop, run to the end.                                 *)
LEMMA LearnPeersTurns ==
    ASSUME NEW acc, NEW peers, Len(peers) \in Nat
    PROVE  \E g : Turns(g, acc, peers, Len(peers)) /\ LearnPeers(acc, peers) = g[Len(peers)]
  <1>. DEFINE g == CHOOSE g : Turns(g, acc, peers, Len(peers))
  <1>1. Turns(g, acc, peers, Len(peers))
    BY TurnsExist
  <1>2. LearnPeers(acc, peers) = g[Len(peers)]
    BY DEF LearnPeers, Turns
  <1>. QED  BY <1>1, <1>2

(* All of an announcement is learnt within the bound.                       *)
LEMMA LearnPeersKeeps ==
    ASSUME NEW acc \in Accs, NEW loops \in [Nodes -> Nat], Bounded(acc, loops),
           NEW peers \in Seq(Nodes)
    PROVE  /\ LearnPeers(acc, peers) \in Accs /\ LearnPeers(acc, peers).node = acc.node
           /\ Bounded(LearnPeers(acc, peers), loops)
  <1>. DEFINE n == Len(peers)
              Good(a) == a \in Accs /\ a.node = acc.node /\ Bounded(a, loops)
  <1>1. n \in Nat /\ \A k \in 1 .. n : peers[k] \in Nodes
    OBVIOUS
  <1>2. PICK g : Turns(g, acc, peers, n) /\ LearnPeers(acc, peers) = g[n]
    BY <1>1, LearnPeersTurns
  <1>3. \A k \in 0 .. n : g[k] = IF k = 0 THEN acc ELSE Learn(g[k - 1], peers[k])
    BY <1>2 DEF Turns
  <1>. HIDE DEF n
  <1>. DEFINE T == {k \in 0 .. n : ~Good(g[k])}
  <1>4. T = {}
    <2>1. SUFFICES ASSUME T # {} PROVE FALSE
      OBVIOUS
    <2>2. T \in SUBSET Nat
      OBVIOUS
    <2>3. PICK k \in T : \A y \in T : k <= y
      BY <2>1, <2>2, LeastOf
    <2>4. k # 0
      BY <1>1, <1>3, <2>3
    <2>5. k \in 1 .. n /\ k - 1 \in 0 .. n /\ ~(k <= k - 1)
      BY <1>1, <2>3, <2>4
    <2>6. Good(g[k - 1])
      BY <2>3, <2>5
    <2>7. g[k] = Learn(g[k - 1], peers[k]) /\ peers[k] \in Nodes
      BY <1>1, <1>3, <2>3, <2>4, <2>5
    <2>8. Good(g[k])
      BY <2>6, <2>7, LearnKeeps
    <2>. QED  BY <2>3, <2>8
  <1>5. n \in 0 .. n
    BY <1>1
  <1>. QED  BY <1>2, <1>4, <1>5

-----------------------------------------------------------------------------
Messages == [kind : {"Hello", "PeerAnnounce"}, peers : Seq(Nodes)]

DirectoryTypes ==
    /\ directory \in [Nodes -> Seq(Nodes)]
    /\ evicted \in [Nodes -> [Nodes -> Nat]]
    /\ discovered \in [Nodes -> Seq(Nodes)]
    /\ queue \in [Ends -> Seq(Messages)]

\* The loops that gossip has started.
Running(n, m) == {d \in GossipLoops(n, m) : dial[d].pc # "off"}

\* The loops of a node for a peer, those it has been told to start included, are no more
\* than the times the peer was news: once for being in the directory now and once
\* for every time it fell out.
LoopsBounded ==
    \A n, m \in Nodes :
        /\ IsFiniteSet(Running(n, m))
        /\ Cardinality(Running(n, m)) + Cardinality(Waiting(discovered[n], m))
             <= Allowed(n, m, directory[n], evicted[n])

LoopInv == PermitInv /\ DirectoryTypes /\ LoopsBounded

LEMMA NodesOfEnd == ASSUME NEW e \in Ends PROVE NodeOf(e) \in Nodes /\ PeerOf(e) \in Nodes
  BY DiscoveryAssumption DEF Ends, NodeOf, PeerOf

(* What is relayed is a message.                                            *)
LEMMA SendAllTypes ==
    ASSUME NEW q \in [Ends -> Seq(Messages)], NEW targets, NEW msg \in Messages
    PROVE  SendAll(q, targets, msg) \in [Ends -> Seq(Messages)]
  BY DEF SendAll

LEMMA AnnounceType == \A peers \in Seq(Nodes) : Announce(peers) \in Messages
  BY DEF Announce, Messages

LEMMA HelloType == Hello \in Messages
  <1>1. <<>> \in Seq(Nodes)
    OBVIOUS
  <1>. QED  BY <1>1 DEF Hello, Messages

LEMMA QueueUpdate ==
    ASSUME NEW q \in [Ends -> Seq(Messages)], NEW e \in Ends, NEW s \in Seq(Messages)
    PROVE  [q EXCEPT ![e] = s] \in [Ends -> Seq(Messages)]
  OBVIOUS

LEMMA ShortQueues == <<>> \in Seq(Messages) /\ <<Hello>> \in Seq(Messages)
  BY HelloType

(* A connection that is closed leaves empty queues.                         *)
LEMMA ClosedTypes ==
    ASSUME NEW d \in Dialers, queue \in [Ends -> Seq(Messages)], Closed(d)
    PROVE  queue' \in [Ends -> Seq(Messages)]
  <1>. DEFINE q == [queue EXCEPT ![DialEnd(d)] = <<>>]
  <1>1. q \in [Ends -> Seq(Messages)]
    BY QueueUpdate, ShortQueues, EndsOfDialer
  <1>2. queue' = [q EXCEPT ![AcceptEnd(d)] = <<>>]
    BY DEF Closed
  <1>. HIDE DEF q
  <1>. QED  BY <1>1, <1>2, QueueUpdate, ShortQueues, EndsOfDialer

(* No loop ends and none is started but by spawn_discovery_dialer.          *)
LEMMA SameLoops ==
    ASSUME LoopInv, PermitInv', DirectoryTypes', UNCHANGED <<directory, evicted, discovered>>,
           \A d \in Dialers : dial'[d].pc = "off" <=> dial[d].pc = "off"
    PROVE  LoopInv'
  <1>1. ASSUME NEW n, NEW m PROVE Running(n, m)' = Running(n, m)
    BY DEF Running, GossipLoops
  <1>2. LoopsBounded'
    BY <1>1 DEF LoopInv, LoopsBounded
  <1>. QED  BY <1>2 DEF LoopInv

(* spawn_discovery_dialer starts one loop for one peer it takes.            *)
LEMMA SpawnKeepsLoops ==
    ASSUME LoopInv, PermitInv', NEW n \in Nodes, Spawn(n) PROVE LoopInv'
  <1>. DEFINE p == Head(discovered[n])
              free == {d \in GossipLoops(n, p) : dial[d].pc = "off"}
              s == CHOOSE d \in free : TRUE
  <1>1. discovered[n] # <<>> /\ free # {} /\ dial' = [dial EXCEPT ![s].pc = "permit"]
        /\ discovered' = [discovered EXCEPT ![n] = Tail(@)]
        /\ UNCHANGED <<directory, evicted, queue>>
    BY DEF Spawn
  <1>2. s \in free
    BY <1>1
  <1>. HIDE DEF s
  <1>3. s \in Dialers /\ s[1] = n /\ s[2] = p /\ s[3] > 1 /\ dial[s].pc = "off"
    BY <1>2 DEF GossipLoops
  <1>4. dial'[s].pc = "permit" /\ \A d \in Dialers : d # s => dial'[d] = dial[d]
    BY <1>1, <1>3, StepFacts DEF LoopInv, PermitInv
  <1>5. discovered[n] \in Seq(Nodes) /\ discovered'[n] = Tail(discovered[n])
        /\ \A i \in Nodes : i # n => discovered'[i] = discovered[i]
    BY <1>1 DEF LoopInv, DirectoryTypes
  <1>6. DirectoryTypes'
    <2>1. Tail(discovered[n]) \in Seq(Nodes)
      BY <1>1, <1>5
    <2>. QED  BY <1>1, <2>1 DEF LoopInv, DirectoryTypes
  <1>7. ASSUME NEW i \in Nodes, NEW m \in Nodes
        PROVE  /\ IsFiniteSet(Running(i, m)')
               /\ Cardinality(Running(i, m)') + Cardinality(Waiting(discovered'[i], m))
                    <= Allowed(i, m, directory[i], evicted[i])
    <2>1. /\ IsFiniteSet(Running(i, m)) /\ Cardinality(Running(i, m)) \in Nat
          /\ Cardinality(Running(i, m)) + Cardinality(Waiting(discovered[i], m))
               <= Allowed(i, m, directory[i], evicted[i])
      BY FS_CardinalityType DEF LoopInv, LoopsBounded
    <2>2. CASE i = n /\ m = p
      <3>1. Running(i, m)' = Running(i, m) \cup {s} /\ s \notin Running(i, m)
        BY <1>3, <1>4, <2>2 DEF Running, GossipLoops
      <3>2. /\ IsFiniteSet(Running(i, m)')
            /\ Cardinality(Running(i, m)') = Cardinality(Running(i, m)) + 1
        BY <2>1, <3>1, FS_AddElement
      <3>3. Cardinality(Waiting(discovered'[i], m)) = Cardinality(Waiting(discovered[i], m)) - 1
        BY <1>1, <1>5, <2>2, WaitingTail
      <3>4. Cardinality(Waiting(discovered[i], m)) \in Nat
        BY <1>5, <2>2, WaitingFinite
      <3>5. Cardinality(Running(i, m)') + Cardinality(Waiting(discovered'[i], m))
              = Cardinality(Running(i, m)) + Cardinality(Waiting(discovered[i], m))
        BY <2>1, <3>2, <3>3, <3>4
      <3>. QED  BY <2>1, <3>2, <3>5
    <2>3. CASE ~(i = n /\ m = p)
      <3>1. Running(i, m)' = Running(i, m)
        BY <1>3, <1>4, <2>3 DEF Running, GossipLoops
      <3>2. Cardinality(Waiting(discovered'[i], m)) = Cardinality(Waiting(discovered[i], m))
        <4>1. CASE i # n
          BY <1>5, <4>1
        <4>2. CASE i = n
          <5>1. Cardinality(Waiting(discovered'[i], m))
                  = Cardinality(Waiting(discovered[i], m)) - 0
            BY <1>1, <1>5, <2>3, <4>2, WaitingTail
          <5>2. Cardinality(Waiting(discovered[i], m)) \in Nat
            BY <1>5, <4>2, WaitingFinite
          <5>. QED  BY <5>1, <5>2
        <4>. QED  BY <4>1, <4>2
      <3>. QED  BY <2>1, <3>1, <3>2
    <2>. QED  BY <2>2, <2>3
  <1>8. LoopsBounded'
    BY <1>1, <1>7 DEF LoopsBounded
  <1>. QED  BY <1>6, <1>8 DEF LoopInv

(* A link that is registered is recorded: the bound of no peer shrinks.     *)
LEMMA RegisterKeepsLoops ==
    ASSUME LoopInv, PermitInv', NEW e \in Ends, Register(e) PROVE LoopInv'
  <1>. DEFINE n == NodeOf(e)
              m == PeerOf(e)
              r == Record(n, directory[n], m)
              c == WithEvictions(evicted[n], Evicts(n, directory[n], m))
  <1>0. n \in Nodes /\ m \in Nodes
    BY NodesOfEnd
  <1>. HIDE DEF n, m
  <1>1. /\ directory' = [directory EXCEPT ![n] = r]
        /\ evicted' = [evicted EXCEPT ![n] = c]
        /\ queue' = IF IsKnown(directory[n], m) THEN queue
                    ELSE SendAll(queue, LinksOf(n) \cup {e}, Announce(<<m>>))
        /\ UNCHANGED <<discovered, dial>>
    BY DEF Register, n, m
  <1>2. directory[n] \in Seq(Nodes) /\ evicted[n] \in [Nodes -> Nat]
    BY <1>0 DEF LoopInv, DirectoryTypes
  <1>3. r \in Seq(Nodes) /\ c \in [Nodes -> Nat]
    BY <1>0, <1>2, RecordFacts, RecordBound
  <1>4. queue' \in [Ends -> Seq(Messages)]
    <2>1. <<m>> \in Seq(Nodes)
      BY <1>0
    <2>2. Announce(<<m>>) \in Messages
      BY <2>1, AnnounceType
    <2>. QED  BY <1>1, <2>2, SendAllTypes DEF LoopInv, DirectoryTypes
  <1>. HIDE DEF r, c
  <1>5. DirectoryTypes'
    BY <1>1, <1>3, <1>4 DEF LoopInv, DirectoryTypes
  <1>6. ASSUME NEW i \in Nodes, NEW x \in Nodes
        PROVE  /\ IsFiniteSet(Running(i, x)')
               /\ Cardinality(Running(i, x)') + Cardinality(Waiting(discovered'[i], x))
                    <= Allowed(i, x, directory'[i], evicted'[i])
    <2>1. Running(i, x)' = Running(i, x) /\ discovered'[i] = discovered[i]
      BY <1>1 DEF Running
    <2>2. /\ IsFiniteSet(Running(i, x)) /\ Cardinality(Running(i, x)) \in Nat
          /\ Cardinality(Running(i, x)) + Cardinality(Waiting(discovered[i], x))
               <= Allowed(i, x, directory[i], evicted[i])
      BY FS_CardinalityType DEF LoopInv, LoopsBounded
    <2>3. CASE i # n
      <3>1. directory'[i] = directory[i] /\ evicted'[i] = evicted[i]
        BY <1>1, <2>3 DEF LoopInv, DirectoryTypes
      <3>. QED  BY <2>1, <2>2, <3>1
    <2>4. CASE i = n
      <3>1. directory'[i] = r /\ evicted'[i] = c
        BY <1>0, <1>1, <2>4 DEF LoopInv, DirectoryTypes
      <3>2. /\ Allowed(i, x, directory[i], evicted[i]) \in Nat
            /\ Allowed(i, x, directory'[i], evicted'[i]) \in Nat
            /\ Allowed(i, x, directory[i], evicted[i]) <= Allowed(i, x, directory'[i], evicted'[i])
        BY <1>0, <1>2, <2>4, <3>1, RecordBound DEF r, c
      <3>3. Cardinality(Waiting(discovered[i], x)) \in Nat
        BY WaitingFinite DEF LoopInv, DirectoryTypes
      <3>. QED  BY <2>1, <2>2, <3>2, <3>3
    <2>. QED  BY <2>3, <2>4
  <1>7. LoopsBounded'
    BY <1>6 DEF LoopsBounded
  <1>. QED  BY <1>5, <1>7 DEF LoopInv

(* handle_peer_announce: learn_peers starts from what the node knows.       *)
LEMMA AnnounceKeepsLoops ==
    ASSUME LoopInv, PermitInv', NEW e \in Ends, ReceiveAnnounce(e) PROVE LoopInv'
  <1>. DEFINE n == NodeOf(e)
              peers == Head(queue[Other(e)]).peers
              before == [node |-> n, dir |-> directory[n], evicted |-> evicted[n],
                         dials |-> discovered[n], new |-> <<>>]
              learnt == LearnPeers(before, peers)
              rest == [queue EXCEPT ![Other(e)] = Tail(@)]
              loops == [m \in Nodes |-> Cardinality(Running(n, m))]
  <1>1. /\ queue[Other(e)] # <<>>
        /\ directory' = [directory EXCEPT ![n] = learnt.dir]
        /\ evicted' = [evicted EXCEPT ![n] = learnt.evicted]
        /\ discovered' = [discovered EXCEPT ![n] = learnt.dials]
        /\ queue' = IF learnt.new = <<>> THEN rest
                    ELSE SendAll(rest, LinksOf(n), Announce(learnt.new))
        /\ UNCHANGED dial
    BY DEF ReceiveAnnounce
  <1>2. n \in Nodes /\ Other(e) \in Ends
    BY NodesOfEnd, DialerOfEnd, EndsOfDialer DEF Other
  <1>3. queue[Other(e)] \in Seq(Messages) /\ peers \in Seq(Nodes)
    <2>1. queue[Other(e)] \in Seq(Messages)
      BY <1>2 DEF LoopInv, DirectoryTypes
    <2>2. Head(queue[Other(e)]) \in Messages
      BY <1>1, <2>1
    <2>. QED  BY <2>1, <2>2 DEF Messages
  <1>4. before \in Accs
    BY <1>2 DEF LoopInv, DirectoryTypes, Accs
  <1>5. loops \in [Nodes -> Nat] /\ Bounded(before, loops)
    <2>1. loops \in [Nodes -> Nat]
      BY <1>2, FS_CardinalityType DEF LoopInv, LoopsBounded
    <2>2. before.dials = discovered[n] /\ before.dir = directory[n]
          /\ before.evicted = evicted[n] /\ before.node = n
      OBVIOUS
    <2>. HIDE DEF before
    <2>3. \A m \in Nodes : loops[m] + Cardinality(Waiting(before.dials, m))
                             <= Allowed(before.node, m, before.dir, before.evicted)
      BY <1>2, <2>2 DEF LoopInv, LoopsBounded
    <2>. QED  BY <2>1, <2>3 DEF Bounded
  <1>6. learnt \in Accs /\ learnt.node = n /\ Bounded(learnt, loops)
    <2>1. before.node = n
      OBVIOUS
    <2>. HIDE DEF before, peers, loops
    <2>. QED  BY <1>3, <1>4, <1>5, <2>1, LearnPeersKeeps
  <1>. HIDE DEF learnt, peers, n
  <1>7. DirectoryTypes'
    <2>1. learnt.dir \in Seq(Nodes) /\ learnt.evicted \in [Nodes -> Nat]
          /\ learnt.dials \in Seq(Nodes) /\ learnt.new \in Seq(Nodes)
      BY <1>6 DEF Accs
    <2>2. rest \in [Ends -> Seq(Messages)]
      BY <1>1, <1>2, <1>3 DEF LoopInv, DirectoryTypes
    <2>3. Announce(learnt.new) \in Messages
      BY <2>1, AnnounceType
    <2>. HIDE DEF rest
    <2>4. queue' \in [Ends -> Seq(Messages)]
      BY <1>1, <2>2, <2>3, SendAllTypes
    <2>. QED  BY <1>1, <2>1, <2>4 DEF LoopInv, DirectoryTypes
  <1>8. ASSUME NEW i \in Nodes, NEW x \in Nodes
        PROVE  /\ IsFiniteSet(Running(i, x)')
               /\ Cardinality(Running(i, x)') + Cardinality(Waiting(discovered'[i], x))
                    <= Allowed(i, x, directory'[i], evicted'[i])
    <2>1. Running(i, x)' = Running(i, x)
      BY <1>1 DEF Running
    <2>2. /\ IsFiniteSet(Running(i, x))
          /\ Cardinality(Running(i, x)) + Cardinality(Waiting(discovered[i], x))
               <= Allowed(i, x, directory[i], evicted[i])
      BY DEF LoopInv, LoopsBounded
    <2>3. CASE i # n
      <3>1. directory'[i] = directory[i] /\ evicted'[i] = evicted[i]
            /\ discovered'[i] = discovered[i]
        BY <1>1, <2>3 DEF LoopInv, DirectoryTypes
      <3>. QED  BY <2>1, <2>2, <3>1
    <2>4. CASE i = n
      <3>1. directory'[i] = learnt.dir /\ evicted'[i] = learnt.evicted
            /\ discovered'[i] = learnt.dials
        BY <1>1, <1>2, <2>4 DEF LoopInv, DirectoryTypes
      <3>2. loops[x] = Cardinality(Running(i, x))
        BY <2>4
      <3>. HIDE DEF loops
      <3>. QED  BY <1>6, <2>1, <2>2, <2>4, <3>1, <3>2 DEF Bounded
    <2>. QED  BY <2>3, <2>4
  <1>9. LoopsBounded'
    BY <1>8 DEF LoopsBounded
  <1>. QED  BY <1>7, <1>9 DEF LoopInv

(* Gossip starts one dial loop for a peer and one more each time the peer   *)
(* fell out of the directory, and none for a peer with a smaller id         *)
(* (learn_peers, PeerDirectory::record, spawn_discovery_dialer), whatever   *)
(* the announcements of a mesh hold and however they repeat.                *)
THEOREM LoopsNeverPileUp == DiscoverySpec => []OneLoopPerPeer
  <1>1. DiscoveryInit => LoopInv
    <2>1. SUFFICES ASSUME DiscoveryInit PROVE LoopInv
      OBVIOUS
    <2>2. DirectoryTypes
      BY <2>1 DEF DiscoveryInit, DirectoryTypes
    <2>3. ASSUME NEW n \in Nodes, NEW m \in Nodes
          PROVE  Running(n, m) = {} /\ Waiting(discovered[n], m) = {}
                 /\ Allowed(n, m, directory[n], evicted[n]) \in Nat
      <3>1. Running(n, m) = {}
        BY <2>1 DEF DiscoveryInit, NotRunning, Running, GossipLoops
      <3>2. Waiting(discovered[n], m) = {}
        BY <2>1 DEF DiscoveryInit, Waiting
      <3>. QED  BY <2>2, <3>1, <3>2, DiscoveryAssumption DEF Allowed, DirectoryTypes
    <2>4. LoopsBounded
      <3>1. SUFFICES ASSUME NEW n \in Nodes, NEW m \in Nodes
                     PROVE  /\ IsFiniteSet(Running(n, m))
                            /\ Cardinality(Running(n, m)) + Cardinality(Waiting(discovered[n], m))
                                 <= Allowed(n, m, directory[n], evicted[n])
        BY DEF LoopsBounded
      <3>2. /\ IsFiniteSet(Running(n, m)) /\ Cardinality(Running(n, m)) = 0
            /\ Cardinality(Waiting(discovered[n], m)) = 0
        BY <2>3, FS_EmptySet
      <3>3. Allowed(n, m, directory[n], evicted[n]) \in Nat
        BY <2>3
      <3>. QED  BY <3>2, <3>3
    <2>. QED  BY <2>1, <2>2, <2>4, PermitInvInit DEF LoopInv
  <1>2. LoopInv /\ [DiscoveryNext]_discoveryVars => LoopInv'
    <2>1. SUFFICES ASSUME LoopInv, [DiscoveryNext]_discoveryVars PROVE LoopInv'
      OBVIOUS
    <2>2. PermitInv' /\ PermitInv
      BY <2>1, PermitInvStep DEF LoopInv
    <2>3. CASE UNCHANGED discoveryVars
      <3>1. DirectoryTypes'
        BY <2>1, <2>3 DEF LoopInv, DirectoryTypes, discoveryVars
      <3>. QED  BY <2>1, <2>2, <2>3, <3>1, SameLoops DEF discoveryVars
    <2>4. ASSUME NEW n \in Nodes, Spawn(n) PROVE LoopInv'
      BY <2>1, <2>2, <2>4, SpawnKeepsLoops
    <2>5. ASSUME NEW d \in Dialers, DialStep(d) PROVE LoopInv'
      <3>1. UNCHANGED <<directory, evicted, discovered>>
        BY <2>5 DEF DialStep, Wake, Acquire, Connect, HelloReply, AcceptHello
      <3>2. queue' \in [Ends -> Seq(Messages)]
        <4>1. CASE Wake(d) \/ Acquire(d)
          BY <2>1, <4>1 DEF Wake, Acquire, LoopInv, DirectoryTypes
        <4>2. CASE Connect(d)
          <5>1. queue' = [queue EXCEPT ![DialEnd(d)] = <<Hello>>]
            BY <4>2 DEF Connect
          <5>. QED  BY <2>1, <5>1, QueueUpdate, ShortQueues, EndsOfDialer DEF LoopInv, DirectoryTypes
        <4>3. CASE HelloReply(d)
          <5>1. queue[AcceptEnd(d)] \in Seq(Messages) /\ queue[AcceptEnd(d)] # <<>>
            BY <2>1, <4>3, EndsOfDialer DEF LoopInv, DirectoryTypes, HelloReply
          <5>2. Tail(queue[AcceptEnd(d)]) \in Seq(Messages)
            BY <5>1
          <5>3. CASE Closed(d)
            BY <2>1, <5>3, ClosedTypes DEF LoopInv, DirectoryTypes
          <5>4. CASE ~Closed(d)
            <6>1. queue' = [queue EXCEPT ![AcceptEnd(d)] = Tail(queue[AcceptEnd(d)])]
              BY <4>3, <5>4 DEF HelloReply
            <6>. QED  BY <2>1, <5>2, <6>1, QueueUpdate, EndsOfDialer DEF LoopInv, DirectoryTypes
          <5>. QED  BY <5>3, <5>4
        <4>4. CASE AcceptHello(d)
          <5>1. /\ queue[DialEnd(d)] \in Seq(Messages) /\ queue[DialEnd(d)] # <<>>
                /\ queue[AcceptEnd(d)] \in Seq(Messages)
            BY <2>1, <4>4, EndsOfDialer DEF LoopInv, DirectoryTypes, AcceptHello
          <5>2. /\ Tail(queue[DialEnd(d)]) \in Seq(Messages)
                /\ Append(queue[AcceptEnd(d)], Hello) \in Seq(Messages)
            BY <5>1, HelloType
          <5>. QED  BY <2>1, <4>4, <5>2, EndsOfDialer DEF AcceptHello, LoopInv, DirectoryTypes
        <4>. QED  BY <2>5, <4>1, <4>2, <4>3, <4>4 DEF DialStep
      <3>3. DirectoryTypes'
        BY <2>1, <3>1, <3>2 DEF LoopInv, DirectoryTypes
      <3>4. /\ dial[d].pc = "off" <=> dial'[d].pc = "off"
            /\ \A c \in Dialers : c # d => dial'[c] = dial[c]
        <4>1. CASE Wake(d) \/ Acquire(d) \/ Connect(d)
          BY <2>2, <4>1, StepFacts DEF Wake, Acquire, Connect, PermitInv
        <4>2. CASE HelloReply(d)
          <5>1. CASE Head(queue[AcceptEnd(d)]).kind = "Hello"
            BY <2>2, <4>2, <5>1, StepFacts DEF HelloReply, PermitInv
          <5>2. CASE Head(queue[AcceptEnd(d)]).kind # "Hello"
            BY <2>2, <4>2, <5>2, RetryFacts DEF HelloReply, PermitInv
          <5>. QED  BY <5>1, <5>2
        <4>3. CASE AcceptHello(d)
          BY <4>3 DEF AcceptHello
        <4>. QED  BY <2>5, <4>1, <4>2, <4>3 DEF DialStep
      <3>. QED  BY <2>1, <2>2, <3>1, <3>3, <3>4, SameLoops
    <2>6. ASSUME NEW e \in Ends, EndStep(e) PROVE LoopInv'
      <3>1. CASE Register(e)
        BY <2>1, <2>2, <3>1, RegisterKeepsLoops
      <3>2. CASE ReceiveAnnounce(e)
        BY <2>1, <2>2, <3>2, AnnounceKeepsLoops
      <3>3. CASE CatchUp(e)
        <4>. DEFINE known == SnapshotExcluding(NodeOf(e), PeerOf(e))
        <4>1. known \in Seq(Nodes)
          BY <2>1, NodesOfEnd, RecordFacts DEF SnapshotExcluding, LoopInv, DirectoryTypes
        <4>2. Announce(known) \in Messages
          BY <4>1, AnnounceType
        <4>3. queue' = queue \/ queue' = SendAll(queue, {e}, Announce(known))
          BY <3>3 DEF CatchUp
        <4>. HIDE DEF known
        <4>4. queue' \in [Ends -> Seq(Messages)]
          <5>1. queue \in [Ends -> Seq(Messages)]
            BY <2>1 DEF LoopInv, DirectoryTypes
          <5>. QED  BY <4>2, <4>3, <5>1, SendAllTypes
        <4>5. UNCHANGED <<directory, evicted, discovered, dial>>
          BY <3>3 DEF CatchUp
        <4>6. DirectoryTypes'
          BY <2>1, <4>4, <4>5 DEF LoopInv, DirectoryTypes
        <4>. QED  BY <2>1, <2>2, <4>5, <4>6, SameLoops
      <3>4. CASE EndCloses(e)
        <4>1. UNCHANGED <<directory, evicted, discovered, queue>>
          BY <3>4 DEF EndCloses
        <4>2. DirectoryTypes'
          BY <2>1, <4>1 DEF LoopInv, DirectoryTypes
        <4>3. \A d \in Dialers : dial'[d].pc = "off" <=> dial[d].pc = "off"
          <5>1. CASE e[2] # "dial"
            BY <3>4, <5>1 DEF EndCloses
          <5>2. CASE e[2] = "dial"
            <6>1. e[1] \in Dialers /\ e = DialEnd(e[1]) /\ ends[e] # "none"
              BY <3>4, <5>2, DialerOfEnd DEF EndCloses
            <6>2. dial[e[1]].pc = "run"
              BY <2>2, <6>1 DEF PermitInv, EndOfRun
            <6>3. PICK long \in BOOLEAN : Retry(e[1], long)
              BY <3>4, <5>2 DEF EndCloses
            <6>. QED  BY <2>2, <6>1, <6>2, <6>3, RetryFacts DEF PermitInv
          <5>. QED  BY <5>1, <5>2
        <4>. QED  BY <2>1, <2>2, <4>1, <4>2, <4>3, SameLoops
      <3>. QED  BY <2>6, <3>1, <3>2, <3>3, <3>4 DEF EndStep
    <2>7. ASSUME NEW d \in Dialers, Failure(d) PROVE LoopInv'
      <3>1. Closed(d) /\ UNCHANGED <<directory, evicted, discovered>>
        BY <2>7 DEF Failure, DialFails, TimesOut, Break
      <3>2. queue' \in [Ends -> Seq(Messages)]
        BY <2>1, <3>1, ClosedTypes DEF LoopInv, DirectoryTypes
      <3>3. DirectoryTypes'
        BY <2>1, <3>1, <3>2 DEF LoopInv, DirectoryTypes
      <3>4. \A c \in Dialers : dial'[c].pc = "off" <=> dial[c].pc = "off"
        <4>1. CASE DialFails(d) \/ TimesOut(d)
          <5>1. PICK long \in BOOLEAN : Retry(d, long)
            BY <4>1 DEF DialFails, TimesOut
          <5>2. dial[d].pc # "off"
            BY <4>1 DEF DialFails, TimesOut
          <5>. QED  BY <2>2, <5>1, <5>2, RetryFacts DEF PermitInv
        <4>2. CASE Break(d)
          BY <4>2 DEF Break
        <4>. QED  BY <2>7, <4>1, <4>2 DEF Failure
      <3>. QED  BY <2>1, <2>2, <3>1, <3>3, <3>4, SameLoops
    <2>. QED  BY <2>1, <2>3, <2>4, <2>5, <2>6, <2>7 DEF DiscoveryNext, Progress
  <1>3. LoopInv => OneLoopPerPeer
    <2>1. SUFFICES ASSUME LoopInv, NEW n \in Nodes, NEW m \in Nodes
                   PROVE  Cardinality(Running(n, m)) + Cardinality(Waiting(discovered[n], m))
                            <= (IF n < m THEN 1 + evicted[n][m] ELSE 0)
      BY DEF OneLoopPerPeer, Running, Waiting
    <2>2. /\ Cardinality(Running(n, m)) \in Nat
          /\ Cardinality(Waiting(discovered[n], m)) \in Nat
          /\ evicted[n][m] \in Nat
      BY <2>1, FS_CardinalityType, WaitingFinite DEF LoopInv, LoopsBounded, DirectoryTypes
    <2>3. Cardinality(Running(n, m)) + Cardinality(Waiting(discovered[n], m))
            <= Allowed(n, m, directory[n], evicted[n])
      BY <2>1 DEF LoopInv, LoopsBounded
    <2>4. /\ Allowed(n, m, directory[n], evicted[n]) \in Nat
          /\ Allowed(n, m, directory[n], evicted[n]) <= (IF n < m THEN 1 + evicted[n][m] ELSE 0)
      BY <2>2, DiscoveryAssumption DEF Allowed
    <2>. QED  BY <2>2, <2>3, <2>4
  <1>. QED  BY <1>1, <1>2, <1>3, PTL DEF DiscoverySpec
=============================================================================
