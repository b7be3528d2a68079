---------------------------- MODULE TopicFilters ----------------------------
(***************************************************************************)
(* Topics and the filters that match them.  Both are sequences of          *)
(* segments, as the code sees them after it split the name at the dots;    *)
(* the characters of a segment and the limit on a name's length are left   *)
(* to the test that a name is valid.                                       *)
(***************************************************************************)
EXTENDS Integers, Sequences

SingleLevelWildcard == "+"
MultiLevelWildcard == "#"

\* TopicFilter::validate: a "#" comes last, if at all.
ValidFilter(f) ==
    /\ f # <<>>
    /\ \A i \in DOMAIN f : f[i] = MultiLevelWildcard => i = Len(f)

IsLiteral(f) ==
    \A i \in DOMAIN f : f[i] \notin {SingleLevelWildcard, MultiLevelWildcard}

\* Topic::validate knows no wildcards.
ValidTopic(t) == t # <<>> /\ IsLiteral(t)

\* TopicFilter::matches: one loop over both, since each turn of it takes a
\* segment of either.
Matches(f, t) ==
    LET from[i \in 1 .. Len(f) + 1] ==
            IF i > Len(f) THEN i = Len(t) + 1
            ELSE \/ f[i] = MultiLevelWildcard
                 \/ i <= Len(t) /\ f[i] \in {SingleLevelWildcard, t[i]} /\ from[i + 1]
    IN  from[1]

\* What a filter means: its fixed part agrees with the topic segment by
\* segment, and only a "#" leaves the rest of the topic open.
Covers(f, t) ==
    LET open == f[Len(f)] = MultiLevelWildcard
        fixed == IF open THEN Len(f) - 1 ELSE Len(f)
    IN  /\ IF open THEN Len(t) >= fixed ELSE Len(t) = fixed
        /\ \A i \in 1 .. fixed : f[i] = SingleLevelWildcard \/ f[i] = t[i]
=============================================================================
