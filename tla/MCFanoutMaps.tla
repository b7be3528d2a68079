---------------------------- MODULE MCFanoutMaps -----------------------------
(* Two topics in a map that holds one, so that every publish and every      *)
(* subscribe may evict, with an exact and a wildcard subscriber and         *)
(* retained messages that are set and cleared.  The ring holds every        *)
(* message: nobody lags.                                                    *)
EXTENDS Fanout

CONSTANTS a, b, w, p1, p2, s1, s2

MCTopicOf == <<a, b, a>>
MCRetainOf == <<"set", "set", "clear">>
MCFilterOf == (s1 :> a) @@ (s2 :> w)
MCMatches == w :> {a, b}

\* Publishers are told apart by nothing else.
MCSymmetry == Permutations(Publishers)

\* Two live subscribers of different topics.
MCExactFilterOf == (s1 :> a) @@ (s2 :> b)
=============================================================================
