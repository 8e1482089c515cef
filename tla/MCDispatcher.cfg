CONSTANTS
    a1 = a1
    a2 = a2
    c1 = c1
    c2 = c2
    None = None
    Accounts = {a1, a2}
    Callers = {c1, c2}
    Stubborn = {a1}
    QueueSize = 2
    MaxEvents = 4
SPECIFICATION FairSpec
INVARIANTS
    TypeOK
    Conserved
    JoinedMeansQuiet
    ShutdownDrains
PROPERTIES
    ImplementsOrderedDelivery
    StopReturns
    AcceptedGetsHandled
