SPECIFICATION AckFairSpec
CONSTANTS
    MaxPublished = 3
    MaxAttempts = 1
    OutgoingCapacity = 1
    AckCapacity = 1
    RingCapacity = 1
    ReplayCapacity = 2
    MaxAcks = 2
    DeadLetterTopic = TRUE
INVARIANT LedgerBalances
PROPERTIES ImplementsContract DeliverySettles GivenUpReachesDeadLetter
CHECK_DEADLOCK FALSE
