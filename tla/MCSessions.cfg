SPECIFICATION FairSessionsSpec
CONSTANTS
    MaxPackets = 4
    MaxPendingWriteMessages = 2
    MaxPendingWriteBytes = 3
    ResponseSizes <- MCResponseSizes
    SizeModulus = 8
INVARIANTS
    ClosedIsForgotten
    NeverAbandoned
    WriteQueueAccounted
    LateTimeoutHarmless
PROPERTIES
    ClosedIsReleased
CHECK_DEADLOCK FALSE
