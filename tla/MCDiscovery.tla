---------------------------- MODULE MCDiscovery ----------------------------
(* Three nodes; the first and the last are configured with the middle one.   *)
(* The first node's directory holds one peer, so that it forgets peers it is *)
(* linked with and hears of them again.                                      *)
EXTENDS Discovery, TLC

MCDialers == {<<1, 2, 1>>, <<3, 2, 1>>, <<1, 3, 2>>}
MCDirCap == [n \in Nodes |-> IF n = 1 THEN 1 ELSE 2]
MCSeeds == [n \in Nodes |-> IF n = 2 THEN {} ELSE {2}]
=============================================================================
