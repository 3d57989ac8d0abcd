SPECIFICATION SimSpec
CONSTANTS
    s1 = s1
    s2 = s2
    s3 = s3
    p1 = p1
    p2 = p2
    MaxPartyMembers = 4
    Contents <- MCContents
    Players = {p1, p2}
    Sessions = {s1, s2, s3}
    Owner <- MCOwner
    FirstSeats = {s1, s2}
    Spots = {1, 2, 3, 4}
    MaxMp = 2
    BaseAttack = 40
    Scale = 10
    MaxWave = 3
    None = None
INVARIANTS
    NoEnemyLeftBehind
    FinishedIsComplete
    SkillStrikesOnce
CHECK_DEADLOCK FALSE
