SPECIFICATION FairLifecycleSpec
CONSTANTS
    Sessions = {s1, s2}
    Leaders = {s1}
    Channels = {c1}
    MaxPlayers = 1
    None = None
    TickInterval = 2
    MaxCatchUpTicks = 2
    MaxTime = 14
INVARIANTS
    ShutdownComplete
    ChannelsExact
    TicksCaughtUp
PROPERTIES
    StopReturns
CHECK_DEADLOCK FALSE
