SPECIFICATION FairFanoutSpec
CONSTANTS
    a = a
    p1 = p1
    s1 = s1
    Ids = {1, 2, 3, 4}
    SeenCapacity = 2
    MaxAccepted = 5
    MapCapacity = 1
    Topics = {a}
    Patterns = {}
    Matches <- MCMatches
    TopicOf <- MCTopicOf
    RetainOf <- MCRetainOf
    Publishers = {p1}
    Subscribers = {s1}
    FilterOf <- MCFilterOf
    BufferCapacity = 3
    RingCapacity = 1
    OutCapacity = 1
INVARIANTS
    DedupWindow
    ExactInOrderOnce
    NoSilentGap
PROPERTIES
    EventuallyForwarded
CHECK_DEADLOCK FALSE
