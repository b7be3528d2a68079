----------------------------- MODULE AckContract -----------------------------
(***************************************************************************)
(* What an "ack: true" subscription promises (ADR-0041): each message is   *)
(* delivered in order, delivered again only while it is neither            *)
(* acknowledged nor given up on, at most MaxAttempts times, retired only   *)
(* by an acknowledgement of its client, and given up on only after every   *)
(* attempt.  AckDelivery implements it.                                    *)
(***************************************************************************)
EXTENDS Naturals

CONSTANTS Msgs,         \* messages, by their position in the topic's stream
          MaxAttempts   \* DEFAULT_MAX_REDELIVERY_ATTEMPTS

VARIABLES copies,   \* how many times each message was sent to the client
          told,     \* messages the client has acknowledged
          outcome   \* what became of each message, as far as the node is concerned

contractVars == <<copies, told, outcome>>

ContractInit ==
    /\ copies = [m \in Msgs |-> 0]
    /\ told = {}
    /\ outcome = [m \in Msgs |-> "open"]

\* The first copy of a message, none of a later one having been sent.
Deliver(m) ==
    /\ \A n \in Msgs : n >= m => copies[n] = 0
    /\ copies' = [copies EXCEPT ![m] = 1]
    /\ UNCHANGED <<told, outcome>>

Redeliver(m) ==
    /\ copies[m] \in 1 .. MaxAttempts
    /\ outcome[m] = "open"
    /\ copies' = [copies EXCEPT ![m] = @ + 1]
    /\ UNCHANGED <<told, outcome>>

Acknowledge(m) ==
    /\ copies[m] > 0
    /\ told' = told \cup {m}
    /\ UNCHANGED <<copies, outcome>>

Retire(m) ==
    /\ m \in told
    /\ outcome[m] = "open"
    /\ outcome' = [outcome EXCEPT ![m] = "retired"]
    /\ UNCHANGED <<copies, told>>

GiveUp(some) ==
    /\ \A m \in some : copies[m] = 1 + MaxAttempts /\ outcome[m] = "open"
    /\ outcome' = [m \in Msgs |-> IF m \in some THEN "given up" ELSE outcome[m]]
    /\ UNCHANGED <<copies, told>>

ContractNext ==
    \/ \E m \in Msgs : Deliver(m) \/ Redeliver(m) \/ Acknowledge(m) \/ Retire(m)
    \/ \E some \in SUBSET Msgs : GiveUp(some)

ContractSpec == ContractInit /\ [][ContractNext]_contractVars
=============================================================================
