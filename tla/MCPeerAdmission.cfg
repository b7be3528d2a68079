SPECIFICATION FairPeerAdmissionSpec
CONSTANTS
    c1 = c1 c2 = c2 c3 = c3 alpha = alpha beta = beta
    Conns = {c1, c2, c3}
    Dialed <- MCDialed
    Peers = {alpha, beta}
    NoPeer = NoPeer
    Claims <- MCClaims
    Principals = {alpha, beta}
    PrincipalOf <- MCPrincipalOf
    AllowLists <- MCAllowLists
    FirstAllowList <- MCFirstAllowList
    DownCapacity = 1
    MaxHellos = 3
    MaxReloads = 1
INVARIANTS LinksExact RevokedIsNotified MembershipAgrees
PROPERTY NotifiedLeaves
CHECK_DEADLOCK FALSE
