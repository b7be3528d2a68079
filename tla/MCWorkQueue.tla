----------------------------- MODULE MCWorkQueue -----------------------------
(* A group on every topic, joined with either ack mode by two connections   *)
(* whose queues hold one envelope: it gets its own dead letters, and a      *)
(* letter of a letter has no valid destination.                             *)
EXTENDS WorkQueue, TLC

CONSTANTS c1, c2, task, note, jobs

MCFilterOf == jobs :> "#"
MCMatchedBy == [id \in Ids |-> {jobs}]
MCLetter == jobs :> ((task :> note) @@ (note :> NoLetter))
=============================================================================
