------------------------------- MODULE TopicMap -------------------------------
(***************************************************************************)
(* The broker's TopicMap: a map from a key (an exact topic, or a wildcard  *)
(* filter) to its channel, with a queue of the keys in the order they were *)
(* last touched, from which the least recently touched key without a live  *)
(* subscriber is reclaimed once the map is over its capacity (ADR-0025).   *)
(* A value is a record [map, order]; a channel is a number.                *)
(***************************************************************************)
EXTENDS Naturals, FiniteSets, SequencesExt

CONSTANT MapCapacity     \* DEFAULT_TOPIC_MAP_CAPACITY

ASSUME MapCapacityAssumption == MapCapacity \in Nat \ {0}

\* TopicMap::default
EmptyMap == [map |-> <<>>, order |-> <<>>]

\* Mutation: touching an entry queues its key again without removing it.
TouchDuplicates(order, k) == Append(order, k)

\* TopicMap::touch: move k to the back of the queue, if it is there.
Touch(order, k) ==
    LET positions == {i \in 1 .. Len(order) : order[i] = k}
    IN  IF positions = {} THEN order
        ELSE Append(RemoveAt(order, Min(positions)), k)

\* TopicMap::evict_over_capacity.  live is the set of channels on which some
\* receiver is registered (receiver_count() > 0).
EvictOverCapacity(m, live) ==
    LET dead == {i \in 1 .. Len(m.order) : m.map[m.order[i]] \notin live}
    IN  IF Cardinality(DOMAIN m.map) <= MapCapacity \/ dead = {} THEN m
        ELSE [map   |-> Restrict(m.map, DOMAIN m.map \ {m.order[Min(dead)]}),
              order |-> RemoveAt(m.order, Min(dead))]

\* TopicMap::get_or_insert: the map afterwards.  c is the channel a missing
\* key is given; nobody can be listening on it yet.
GetOrInsert(m, k, c, live) ==
    IF k \in DOMAIN m.map
    THEN [m EXCEPT !.order = Touch(m.order, k)]
    ELSE EvictOverCapacity([map   |-> [x \in DOMAIN m.map \cup {k} |->
                                         IF x = k THEN c ELSE m.map[x]],
                            order |-> Append(m.order, k)], live)

\* TopicMap::get_or_insert: the channel it returns.
ChannelFor(m, k, c) == IF k \in DOMAIN m.map THEN m.map[k] ELSE c

(***************************************************************************)
(* What a TopicMap must always be: the queue holds exactly the keys of the *)
(* map, each once.  The capacity is a soft cap and not part of it.         *)
(***************************************************************************)
MapConsistent(m) ==
    /\ \A i, j \in 1 .. Len(m.order) : m.order[i] = m.order[j] => i = j
    /\ DOMAIN m.map = {m.order[i] : i \in 1 .. Len(m.order)}
=============================================================================
