----------------------------- MODULE AckDelivery -----------------------------
(***************************************************************************)
(* The forwarder of an "ack: true" subscription (spawn_ack_forwarder) with *)
(* its table of pending acknowledgements (PendingAcks), the connection's   *)
(* bounded outgoing queue, the bounded channel handle_ack tells the        *)
(* forwarder through, and a client that reads and acknowledges.            *)
(*                                                                         *)
(* The subscription is to one exact topic without a retained message: a    *)
(* message is its position in the topic's stream, the broker's replay      *)
(* buffer the last ReplayCapacity positions and the broadcast ring the     *)
(* last RingCapacity (Fanout has both in detail).                          *)
(*                                                                         *)
(* An action of the forwarder is what it does between two awaits.          *)
(***************************************************************************)
EXTENDS Naturals, Sequences

CONSTANTS MaxPublished,      \* bound: messages published
          MaxAttempts,       \* DEFAULT_MAX_REDELIVERY_ATTEMPTS
          OutgoingCapacity,  \* OUTGOING_CHANNEL_CAPACITY
          AckCapacity,       \* ACK_CHANNEL_CAPACITY
          RingCapacity,      \* the broadcast channel's capacity
          ReplayCapacity,    \* the replay buffer's capacity
          MaxAcks,           \* bound: Ack frames the client sends
          DeadLetterTopic    \* whether --dead-letter-topic is set

ASSUME AckDeliveryAssumption ==
    /\ MaxPublished \in Nat
    /\ MaxAttempts \in Nat
    /\ OutgoingCapacity \in Nat \ {0}
    /\ AckCapacity \in Nat \ {0}
    /\ RingCapacity \in Nat \ {0}
    /\ ReplayCapacity \in Nat
    /\ MaxAcks \in Nat
    /\ DeadLetterTopic \in BOOLEAN

Msgs == 1 .. MaxPublished

VARIABLES
    published,  \* how many messages the topic has carried
    pc,         \* where the forwarder is; "record": next is sent, not yet in the table
    position,   \* rx: the last position its receiver has moved past
    next, upto, \* the messages it is sending for the first time: next .. upto
    last,       \* last_delivered, 0 for None
    pending,    \* PendingAcks.entries: the keys
    attempts,   \* and their attempts
    expired,    \* entries whose timeout has passed
    letters,    \* given_up_on: still to be dead-lettered in this sweep
    resends,    \* to_resend: still to be sent in this sweep
    outgoing,   \* the connection's outgoing queue
    link,       \* the connection: "open" or "closed"
    acks,       \* the channel from handle_ack to the forwarder
    received,   \* messages the client has read
    ackFrames,  \* Ack frames it has sent
    dead,       \* messages republished to the dead-letter topic
    copies, told, retired, gaveUp   \* history, see AckContract

forwarder == <<pc, position, next, upto, last>>
table     == <<pending, attempts, expired>>
sweeping  == <<letters, resends, dead>>
client    == <<received, ackFrames, told>>
history   == <<copies, retired, gaveUp>>
ackVars   == <<published, forwarder, table, sweeping, outgoing, link, acks, client, history>>

AckInit ==
    /\ published \in 0 .. MaxPublished
    /\ pc = "start"
    /\ position = 0 /\ next = 1 /\ upto = 0 /\ last = 0
    /\ pending = {} /\ attempts = [m \in Msgs |-> 0] /\ expired = {}
    /\ letters = {} /\ resends = {} /\ dead = {}
    /\ outgoing = <<>> /\ link = "open" /\ acks = <<>>
    /\ received = {} /\ ackFrames = 0 /\ told = {}
    /\ copies = [m \in Msgs |-> 0] /\ retired = {} /\ gaveUp = {}
-----------------------------------------------------------------------------
(* The broker, the connection and its client                                *)

Publish ==
    /\ published < MaxPublished
    /\ published' = published + 1
    /\ UNCHANGED <<forwarder, table, sweeping, outgoing, link, acks, client, history>>

\* write_loop takes an envelope and the client reads it.
Read ==
    /\ link = "open"
    /\ outgoing # <<>>
    /\ outgoing' = Tail(outgoing)
    /\ received' = received \cup {Head(outgoing)}
    /\ UNCHANGED <<published, forwarder, table, sweeping, link, acks, ackFrames, told, history>>

\* ack_tx.try_send: a full channel drops the ack.
TriedSend(m) == IF Len(acks) < AckCapacity THEN Append(acks, m) ELSE acks

\* The client acknowledges what it has read, once or more often: handle_ack.
HandleAck(m) ==
    /\ link = "open"
    /\ m \in received
    /\ ackFrames < MaxAcks
    /\ ackFrames' = ackFrames + 1
    /\ acks' = IF pc = "ended" THEN acks ELSE TriedSend(m)
    /\ told' = told \cup {m}
    /\ UNCHANGED <<published, forwarder, table, sweeping, outgoing, link, received, history>>

\* The connection ends, by either side.
Close ==
    /\ link = "open"
    /\ link' = "closed"
    /\ UNCHANGED <<published, forwarder, table, sweeping, outgoing, acks, client, history>>

\* The timeout of an entry passes.
Expire(m) ==
    /\ m \in pending \ expired
    /\ expired' = expired \cup {m}
    /\ UNCHANGED <<published, forwarder, pending, attempts, sweeping, outgoing, link, acks,
                   client, history>>
-----------------------------------------------------------------------------
(* The forwarder                                                            *)

HasRoom == link = "open" /\ Len(outgoing) < OutgoingCapacity

\* The first position still in the replay buffer.
Oldest == IF published > ReplayCapacity THEN published - ReplayCapacity + 1 ELSE 1

\* Starts sending the messages from .. to for the first time.
SendNew(from, to) ==
    /\ next' = from
    /\ upto' = to
    /\ pc' = IF from > to THEN "select" ELSE "new"
    /\ UNCHANGED last

\* Broker::subscribe: the backlog, and a receiver for what comes after it.
Subscribe ==
    /\ pc = "start"
    /\ position' = published
    /\ SendNew(Oldest, published)
    /\ UNCHANGED <<published, table, sweeping, outgoing, link, acks, client, history>>

\* outgoing_tx.send of a message from the backlog, the receiver or a recovery.
Send ==
    /\ pc = "new"
    /\ HasRoom
    /\ outgoing' = Append(outgoing, next)
    /\ copies' = [copies EXCEPT ![next] = @ + 1]
    /\ pc' = "record"
    /\ UNCHANGED <<published, position, next, upto, last, table, sweeping, link, acks,
                   client, retired, gaveUp>>

\* Mutation: the first send already counts as an attempt.
PutRecordCountsFirst(m) ==
    /\ pending' = pending \cup {m}
    /\ attempts' = [attempts EXCEPT ![m] = 1]
    /\ expired' = expired \ {m}

\* PendingAcks::record
PutRecord(m) ==
    /\ pending' = pending \cup {m}
    /\ attempts' = [attempts EXCEPT ![m] = 0]
    /\ expired' = expired \ {m}

Record ==
    /\ pc = "record"
    /\ PutRecord(next)
    /\ last' = next
    /\ next' = next + 1
    /\ pc' = IF next = upto THEN "select" ELSE "new"
    /\ UNCHANGED <<published, position, upto, sweeping, outgoing, link, acks, client, history>>

\* select: ack_rx.recv(), PendingAcks::ack
TakeAck ==
    /\ pc = "select"
    /\ acks # <<>>
    /\ acks' = Tail(acks)
    /\ pending' = pending \ {Head(acks)}
    /\ expired' = expired \ {Head(acks)}
    /\ retired' = retired \cup (pending \cap {Head(acks)})
    /\ UNCHANGED <<published, forwarder, attempts, sweeping, outgoing, link, client, copies,
                   gaveUp>>

\* Mutation: entries without attempts left are passed over.
DueUnlessExhausted == {m \in expired : attempts[m] < MaxAttempts}

\* The entries PendingAcks::sweep takes up.
Due == expired

\* Mutation: one attempt too few.
ExhaustedEarly == {m \in Due : attempts[m] + 1 >= MaxAttempts}

\* Those it gives up on.
Exhausted == {m \in Due : attempts[m] >= MaxAttempts}

\* select: sweep.tick(), PendingAcks::sweep
Sweep ==
    /\ pc = "select"
    /\ Due # {}
    /\ pc' = "sweep"
    /\ letters' = Exhausted
    /\ resends' = Due \ Exhausted
    /\ pending' = pending \ Exhausted
    /\ attempts' = [m \in Msgs |-> IF m \in Due \ Exhausted THEN attempts[m] + 1
                                   ELSE attempts[m]]
    /\ expired' = expired \ Due
    /\ gaveUp' = gaveUp \cup Exhausted
    /\ UNCHANGED <<published, position, next, upto, last, dead, outgoing, link,
                   acks, client, copies, retired>>

\* dead_letter(...).await for one of the given up.
DeadLetter(m) ==
    /\ pc = "sweep"
    /\ m \in letters
    /\ letters' = letters \ {m}
    /\ dead' = IF DeadLetterTopic THEN dead \cup {m} ELSE dead
    /\ UNCHANGED <<published, forwarder, table, resends, outgoing, link, acks, client, history>>

\* outgoing_tx.send of one of the messages to resend.
Resend(m) ==
    /\ pc = "sweep"
    /\ letters = {}
    /\ m \in resends
    /\ HasRoom
    /\ outgoing' = Append(outgoing, m)
    /\ copies' = [copies EXCEPT ![m] = @ + 1]
    /\ resends' = resends \ {m}
    /\ UNCHANGED <<published, forwarder, table, letters, dead, link, acks, client, retired,
                   gaveUp>>

\* Mutation: the sweep ends without its letters.
SweepDoneForgetsLetters ==
    /\ pc = "sweep"
    /\ resends = {}
    /\ pc' = "select"
    /\ letters' = {}
    /\ UNCHANGED <<published, position, next, upto, last, table, resends, dead,
                   outgoing, link, acks, client, history>>

SweepDone ==
    /\ pc = "sweep"
    /\ letters = {}
    /\ resends = {}
    /\ pc' = "select"
    /\ UNCHANGED <<published, position, next, upto, last, table, sweeping, outgoing,
                   link, acks, client, history>>

Lagged == published - position > RingCapacity

\* select: rx.recv() answers Ok
Receive ==
    /\ pc = "select"
    /\ position < published
    /\ ~ Lagged
    /\ position' = position + 1
    /\ SendNew(position + 1, position + 1)
    /\ UNCHANGED <<published, table, sweeping, outgoing, link, acks, client, history>>

\* Where lag recovery goes on: behind last_delivered if the fresh backlog still has
\* it, with the whole backlog if nothing was delivered yet, else nowhere.
RecoverFrom ==
    IF last = 0 THEN Oldest
    ELSE IF last >= Oldest THEN last + 1
    ELSE published + 1

\* select: rx.recv() answers Lagged
Recover ==
    /\ pc = "select"
    /\ Lagged
    /\ position' = published
    /\ SendNew(RecoverFrom, published)
    /\ UNCHANGED <<published, table, sweeping, outgoing, link, acks, client, history>>

\* The task is aborted by Unsubscribe or shut_down, or its send fails: what it holds is
\* dropped, the letters and resends of a sweep included.
Stop ==
    /\ pc # "ended"
    /\ pc' = "ended"
    /\ pending' = {} /\ expired' = {}
    /\ letters' = {} /\ resends' = {}
    /\ acks' = <<>>
    /\ UNCHANGED <<published, position, next, upto, last, attempts, dead, outgoing,
                   link, client, history>>

Selecting == TakeAck \/ Sweep \/ Receive \/ Recover

\* What it does next when it is not in its select.
Proceed ==
    \/ Subscribe \/ Send \/ Record \/ SweepDone
    \/ \E m \in Msgs : DeadLetter(m) \/ Resend(m)

AckNext ==
    \/ Publish \/ Read \/ Close \/ Stop
    \/ \E m \in Msgs : HandleAck(m) \/ Expire(m)
    \/ Selecting \/ Proceed

AckSpec == AckInit /\ [][AckNext]_ackVars

\* The runtime polls a ready task; select! starts with a random branch, so none that is
\* ready again and again is passed over for ever; time passes; a client that stays
\* connected reads; a closed connection is shut down.
AckFairSpec ==
    /\ AckSpec
    /\ WF_ackVars(Proceed)
    /\ SF_ackVars(TakeAck)
    /\ SF_ackVars(Sweep)
    /\ SF_ackVars(Receive \/ Recover)
    /\ WF_ackVars(Read)
    /\ \A m \in Msgs : WF_ackVars(Expire(m))
    /\ WF_ackVars(link = "closed" /\ Stop)
-----------------------------------------------------------------------------
(* Properties                                                               *)

StreamTypes ==
    /\ published \in 0 .. MaxPublished
    /\ pc \in {"start", "new", "record", "select", "sweep", "ended"}
    /\ position \in 0 .. published
    /\ next \in Nat \ {0}
    /\ upto \in 0 .. published
    /\ last \in 0 .. published

TableTypes ==
    /\ pending \subseteq Msgs
    /\ attempts \in [Msgs -> 0 .. MaxAttempts]
    /\ expired \subseteq pending
    /\ letters \subseteq Msgs
    /\ resends \subseteq Msgs
    /\ dead \subseteq Msgs

WireTypes ==
    /\ outgoing \in Seq(Msgs) /\ Len(outgoing) <= OutgoingCapacity
    /\ link \in {"open", "closed"}
    /\ acks \in Seq(Msgs) /\ Len(acks) <= AckCapacity
    /\ received \subseteq Msgs
    /\ ackFrames \in 0 .. MaxAcks

HistoryTypes ==
    /\ copies \in [Msgs -> 0 .. MaxAttempts + 1]
    /\ told \subseteq Msgs
    /\ retired \subseteq Msgs
    /\ gaveUp \subseteq Msgs

\* Types and limits: the outgoing queue and the ack channel never exceed their capacity,
\* no entry of PendingAcks counts more attempts than max_attempts, and no message is sent
\* more often than once and that many times again.
AckTypeOK == StreamTypes /\ TableTypes /\ WireTypes /\ HistoryTypes

\* The sends of a message the forwarder still owes the pending table or the queue.
Owed(m) == IF m \in resends THEN 1 ELSE 0

\* The book-keeping of the redelivery table agrees with what was really sent, however the
\* forwarder was interrupted between a sweep and its sends: a pending message has been
\* sent once more than its attempts, less the resend still to come, and a message that was
\* sent and is neither pending nor about to be recorded was acknowledged or given up on.
LedgerBalances ==
    \A m \in Msgs :
        /\ m \in pending => copies[m] + Owed(m) = attempts[m] + 1
        /\ pc # "ended" /\ copies[m] > 0 =>
              \/ m \in pending
              \/ pc = "record" /\ m = next
              \/ m \in retired
              \/ m \in gaveUp

\* What the contract calls the outcome of a message.
Outcome ==
    [m \in Msgs |-> IF m \in gaveUp THEN "given up" ELSE IF m \in retired THEN "retired" ELSE "open"]

Contract == INSTANCE AckContract WITH outcome <- Outcome

\* The forwarder, for all its queues, sweeps, lags and lost acks, delivers what an
\* "ack: true" subscription promises: in order, again only while unsettled and at most
\* MaxAttempts times, retired only by an ack, given up on only after every attempt
\* (spawn_ack_forwarder, PendingAcks::sweep).
ImplementsContract == Contract!ContractSpec

\* Every message that was sent is settled in the end: its ack is taken in or, after its
\* attempts, it is given up on, unless the forwarder ends. Neither a full queue, nor acks
\* that were dropped, nor a receiver that keeps answering starves the sweep (the select
\* loop of spawn_ack_forwarder).
DeliverySettles ==
    \A m \in Msgs : copies[m] > 0 ~> m \in retired \cup gaveUp \/ pc = "ended"

\* What was given up on reaches the dead-letter topic if there is one, unless the
\* forwarder ends first (the awaits of the sweep branch of spawn_ack_forwarder).
GivenUpReachesDeadLetter ==
    DeadLetterTopic => \A m \in Msgs : m \in gaveUp ~> m \in dead \/ pc = "ended"
=============================================================================
