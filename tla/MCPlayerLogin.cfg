SPECIFICATION FairLoginSpec
CONSTANTS
    t1 = t1
    t2 = t2
    t3 = t3
    s1 = s1
    s2 = s2
    Tasks = {t1, t2, t3}
    Sessions = {s1, s2}
    SessionOf <- MCSessionOf
    Tickets = {k1}
    None = None
    MaxQueuedTasks = 1
    WorkerCount = 2
    Stoppers = {x1, x2}
INVARIANTS
    TicketUsedOnce
    DrainLosesNothing
PROPERTIES
    LoginAnswered
    DrainReturns
CHECK_DEADLOCK FALSE
