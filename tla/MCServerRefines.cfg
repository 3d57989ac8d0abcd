SPECIFICATION ServerSpec
CONSTANTS
    s1 = s1
    s2 = s2
    Sessions = {s1, s2}
    p1 = p1
    Players = {p1}
    None = None
    MaxParties = 2
    MaxDungeons = 2
    MaxPartyMembers = 2
    ReconnectGrace = 1
    MaxDungeonLifetime = 1
    ReadyTimeout = 1
    FinishedBroadcast = 1
SYMMETRY ServerSymmetry
INVARIANTS
    UdpSessionPerDungeon
    PartiesConsistent
PROPERTIES
    LeadershipStable
    ImplementsManagers
