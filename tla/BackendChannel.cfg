\* The pending map, the tombstones and the delivery tasks; every call ends.
SPECIFICATION FairSpec
CONSTANTS
    c1 = c1
    c2 = c2
    Calls <- MCCalls
    TimedCalls <- MCTimedCalls
    PipeCapacity = 3
    MaxProgress = 1
    MaxStray = 1
CHECK_DEADLOCK FALSE
INVARIANTS
    ChannelTypeOK
    NoLostWaiter
    MapExclusive
    LateAnswerAbsorbed
    ProgressBeforeAnswer
PROPERTIES
    ChannelServiceSpec
    ExitReleasesCallers
    TimeoutBoundsCall
