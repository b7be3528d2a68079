SPECIFICATION FanoutSpec
CONSTANTS
    a = a
    b = b
    w = w
    p1 = p1
    p2 = p2
    s1 = s1
    s2 = s2
    Ids = {1, 2, 3}
    SeenCapacity = 3
    MaxAccepted = 3
    MapCapacity = 1
    Topics = {a, b}
    Patterns = {w}
    Matches <- MCMatches
    TopicOf <- MCTopicOf
    RetainOf <- MCRetainOf
    Publishers = {p1, p2}
    Subscribers = {s1, s2}
    FilterOf <- MCFilterOf
    BufferCapacity = 1
    RingCapacity = 3
    OutCapacity = 1
INVARIANTS
    MapsConsistent
    CurrentValueReaches
SYMMETRY MCSymmetry
CHECK_DEADLOCK FALSE
