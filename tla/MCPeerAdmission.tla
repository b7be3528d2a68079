--------------------------- MODULE MCPeerAdmission ---------------------------
(* Two connections of one peer, one of them dialed, and a third connection.   *)
EXTENDS PeerAdmission

CONSTANTS c1, c2, c3, alpha, beta

MCDialed == {c1}
MCClaims == [c \in Conns |-> IF c = c3 THEN {beta} ELSE {alpha}]
MCPrincipalOf == [c \in Conns |-> CHOOSE p \in Claims[c] : TRUE]
MCAllowLists == {{alpha, beta}, {beta}}
MCFirstAllowList == {alpha, beta}
=============================================================================
