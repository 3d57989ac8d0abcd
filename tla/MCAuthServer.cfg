SPECIFICATION AuthSpec
CONSTANTS
    r1 = r1  r2 = r2  r3 = r3
    s1 = s1  s2 = s2
    ip1 = ip1  ip2 = ip2
    acc1 = acc1  acc2 = acc2  pl1 = pl1
    None = None
    Tasks = {r1, r2, r3}
    Sessions = {s1, s2}
    SessionOf <- MCSessionOf
    KindsOf <- MCKindsOf
    AddressOf <- MCAddressOf
    Addresses = {ip1, ip2}
    LoginIds = {acc1, acc2}
    Registered = {acc1, acc2}
    Players = {pl1}
    Stoppers <- MCStoppers
    MaxQueuedTasks = 1
    WorkerCount = 1
    IoThreads = 2
    MaxAttemptsPerIp = 1
    MaxAttemptsPerAccount = 1
    MaxTrackedIps = 2
    MaxTrackedAccounts = 1
    MaxConcurrentPasswordJobs = 1
    AttemptWindow = 1
    MaxTime = 1
INVARIANTS
    PermitsExact
    AttemptsBounded
    TicketsForOwners
    EveryCharacterOwned
    NoRequestLost
SYMMETRY MCSymmetry
CHECK_DEADLOCK FALSE
