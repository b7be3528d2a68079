---------------------------- MODULE MCDurableLog -----------------------------
(***************************************************************************)
(* Three messages, a ring of one, a replay buffer of one, one restart and  *)
(* two sessions of the subscriber.                                         *)
(***************************************************************************)
EXTENDS DurableLog
=============================================================================
