SPECIFICATION FairServerSpec
CONSTANTS
    s1 = s1
    s2 = s2
    Sessions = {s1, s2}
    p1 = p1
    Players = {p1}
    None = None
    MaxParties = 1
    MaxDungeons = 1
    MaxPartyMembers = 2
    ReconnectGrace = 1
    MaxDungeonLifetime = 2
    ReadyTimeout = 1
    FinishedBroadcast = 1
PROPERTIES
    EverythingEnds
