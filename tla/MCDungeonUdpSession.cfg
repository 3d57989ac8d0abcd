SPECIFICATION UdpSessionSpec
CONSTANTS
    s1 = s1
    s2 = s2
    Sessions = {s1, s2}
    t1 = t1
    t2 = t2
    Tokens = {t1, t2}
    a1 = a1
    a2 = a2
    Addresses = {a1, a2}
    Kinds = {"Movement"}
    None = None
    HalfRange = 4
    MaxPending = 2
    IdleTimeout = 2
    Window = 3
    MaxInput = 10
SYMMETRY UdpSymmetry
INVARIANTS
    RuntimeStateClean
PROPERTIES
    InputsOnceInOrder
    ImplementsManager
