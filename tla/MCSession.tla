------------------------------ MODULE MCSession ------------------------------
(* Four commands at a time, in scenarios that each bring one part of the    *)
(* node's dispatch to bear.                                                  *)
EXTENDS Session

CONSTANTS c1, c2, c3, c4, k1

ab == <<"a", "b">>
Identified == {"tls_ca", "tls_cert", "tls_key"}

Do(kind) == [kind |-> kind, filters |-> <<>>, topic |-> ab, ack |-> FALSE, group |-> FALSE,
             durable |-> FALSE, flags |-> {}, file |-> {}, certificate |-> k1]
SubscribeTo(filters) == [Do("subscribe") EXCEPT !.filters = filters]
PublishTo(topic) == [Do("publish") EXCEPT !.topic = topic]

Scenario(w, x, y, z) ==
    [commands |-> [c \in Clients |-> CASE c = c1 -> w [] c = c2 -> x [] c = c3 -> y [] c = c4 -> z],
     topicAcl |-> NoAcl, peerAcl |-> NoAcl, rated |-> FALSE, store |-> TRUE]

\* Overlapping wildcards, with Acks.
Wildcards == Scenario([SubscribeTo(<<<<"a", "+">>, <<"a", "b", "#">>>>) EXCEPT !.ack = TRUE],
                      PublishTo(ab), PublishTo(<<"a">>), SubscribeTo(<<ab>>))

\* An ACL, and a topic only a certificate may use.
Restricted ==
    [Scenario(SubscribeTo(<<ab, <<"#">>>>), PublishTo(<<"s">>),
              [PublishTo(<<"s">>) EXCEPT !.flags = {"tls_ca"}, !.file = Identified],
              Do("topics"))
        EXCEPT !.topicAcl = {<<Anonymous, "sub", ab>>, <<k1, "pub", <<"s">>>>}]

\* Two requests and the program that answers them.
Requests == Scenario(Do("request"), [Do("respond") EXCEPT !.filters = <<ab>>],
                     Do("completions"), [Do("request") EXCEPT !.flags = Identified])

\* Connections of one principal, and of two, with a member of a group.
Flood == [Scenario(Do("publish"), Do("publish"), Do("publish"),
                  SubscribeTo(<<<<"#">>>>)) EXCEPT !.rated = TRUE]
TwoPrincipals ==
    [Scenario(Do("publish"), [Do("publish") EXCEPT !.flags = Identified], Do("publish"),
              [SubscribeTo(<<ab>>) EXCEPT !.group = TRUE])
        EXCEPT !.rated = TRUE]

\* A peer's relay, a query, and a durable subscription that is refused.
Mixed == [Scenario(Do("status"), Do("relay"),
                   [SubscribeTo(<<ab>>) EXCEPT !.durable = TRUE],
                   [SubscribeTo(<<ab>>) EXCEPT !.durable = TRUE, !.flags = Identified]) EXCEPT !.peerAcl = {}]
Offline == Scenario(Do("completions"), [Do("topics") EXCEPT !.file = {"tls_cert"}],
                    SubscribeTo(<<<<"#", "a">>>>), Do("topics"))

MCScenarios == {Wildcards, Restricted, Requests, Flood, TwoPrincipals, Mixed, Offline}
=============================================================================
