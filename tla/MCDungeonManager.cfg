SPECIFICATION DungeonSpec
CONSTANTS
    s1 = s1
    s2 = s2
    s3 = s3
    s4 = s4
    Sessions = {s1, s2, s3, s4}
    p1 = p1
    p2 = p2
    Players = {p1, p2}
    None = None
    MaxParties = 1
    MaxDungeons = 1
    ReconnectGrace = 2
    MaxDungeonLifetime = 3
SYMMETRY ConnectionSymmetry
INVARIANTS
    SeatsExclusive
    SeatBookkeeping
PROPERTIES
    SeatMovesOnlyAfterDisconnect
