--------------------------- MODULE MCMeshInterest ---------------------------
(* Two linked nodes, two clients on one of them and a literal topic.         *)
EXTENDS MeshInterest, TLC

CONSTANTS a, b, c1, c2, t

MCLinks == {{a, b}}
MCHome == [c \in Clients |-> a]
MCPeerFilters == {Unrestricted, {}}
=============================================================================
