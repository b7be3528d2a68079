------------------------------- MODULE SeenIds -------------------------------
(***************************************************************************)
(* The broker's bounded record of recently seen message ids (struct        *)
(* SeenIds of thoth-mesh-broker).  Broker::publish consults it first, so   *)
(* it is what stops an envelope that comes back around a cyclic mesh.      *)
(*                                                                         *)
(* The structure is a hash set for membership and a FIFO queue for         *)
(* eviction.  Both are kept here, because their agreement is what the      *)
(* code relies on and never checks.                                        *)
(***************************************************************************)
EXTENDS Naturals, Sequences

CONSTANTS Ids,           \* message ids
          SeenCapacity,  \* the dedup window, DEFAULT_DEDUP_CAPACITY
          MaxAccepted    \* bound: how many ids are accepted in a behaviour

ASSUME SeenCapacityAssumption == SeenCapacity \in Nat \ {0}
ASSUME MaxAcceptedAssumption == MaxAccepted \in Nat

VARIABLES seen,      \* the structure: [order: queue of ids, set: set of ids]
          accepted   \* history: every id record() answered true for, in order

seenVars == <<seen, accepted>>
-----------------------------------------------------------------------------
\* SeenIds::new
SeenNew == [order |-> <<>>, set |-> {}]

\* The answer of SeenIds::record: whether the caller should go on.
IsNew(s, id) == id \notin s.set

\* Mutation: eviction one id too early.
RecordedEvictsEarly(s, id) ==
    LET order == Append(s.order, id)
        set   == s.set \cup {id}
    IN  IF id \in s.set THEN s
        ELSE IF Len(order) >= SeenCapacity
        THEN [order |-> Tail(order), set |-> set \ {Head(order)}]
        ELSE [order |-> order, set |-> set]

\* The structure after SeenIds::record(id).
Recorded(s, id) ==
    LET order == Append(s.order, id)
        set   == s.set \cup {id}
    IN  IF ~ IsNew(s, id) THEN s
        ELSE IF Len(order) > SeenCapacity
        THEN [order |-> Tail(order), set |-> set \ {Head(order)}]
        ELSE [order |-> order, set |-> set]

SeenInit ==
    /\ seen = SeenNew
    /\ accepted = <<>>

\* One call of SeenIds::record that answers true.
Accept(id) ==
    /\ IsNew(seen, id)
    /\ Len(accepted) < MaxAccepted
    /\ seen' = Recorded(seen, id)
    /\ accepted' = Append(accepted, id)

\* One call that answers false: a repeat, and nothing changes.
Repeat(id) ==
    /\ ~ IsNew(seen, id)
    /\ UNCHANGED seenVars

SeenNext == \E id \in Ids : Accept(id) \/ Repeat(id)

SeenSpec == SeenInit /\ [][SeenNext]_seenVars
-----------------------------------------------------------------------------
\* Every component has its type and the queue never outgrows the window it
\* was built with (SeenIds::record evicts in the same call that inserts).
SeenTypeOK ==
    /\ seen \in [order : Seq(Ids), set : SUBSET Ids]
    /\ accepted \in Seq(Ids)
    /\ Len(seen.order) <= SeenCapacity

(***************************************************************************)
(* The queue and the set always hold the same ids, each once.  An id in    *)
(* the set but not in the queue would be refused for ever and never        *)
(* evicted; the reverse would be accepted twice inside the window          *)
(* (SeenIds::record).                                                      *)
(***************************************************************************)
SeenAgree ==
    /\ seen.set = {seen.order[i] : i \in 1 .. Len(seen.order)}
    /\ \A i, j \in 1 .. Len(seen.order) :
          seen.order[i] = seen.order[j] => i = j

(***************************************************************************)
(* Loop prevention: an id is accepted a second time only when at least     *)
(* SeenCapacity other ids were accepted in between.  This is the whole     *)
(* promise Broker::publish can make about a looping envelope.              *)
(***************************************************************************)
DedupWindow ==
    \A i, j \in 1 .. Len(accepted) :
        i < j /\ accepted[i] = accepted[j] => j - i > SeenCapacity
=============================================================================
