---------------------------- MODULE MCAckDelivery ----------------------------
(***************************************************************************)
(* Three messages through queues of one: the outgoing queue fills, acks    *)
(* are dropped, the receiver lags within and beyond the replay buffer.     *)
(***************************************************************************)
EXTENDS AckDelivery
=============================================================================
