--------------------------- MODULE MCSubscriptions ---------------------------
(* Two connections and two filters; a reload takes one filter from both      *)
(* connections or everything from one, or changes nothing.                   *)
EXTENDS Subscriptions, TLC

CONSTANTS c1, c2, f1, f2

MCFirstAcl == [c \in Conns |-> Filters]
MCAcls == {MCFirstAcl, [c \in Conns |-> {f2}], [MCFirstAcl EXCEPT ![c1] = {}]}
=============================================================================
