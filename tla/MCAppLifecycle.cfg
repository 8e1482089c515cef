CONSTANTS
    main = main
    other = other
    handler = handler
    Stoppers = {main, handler}
    Handlers = {handler}
    MaxStarts = 2
    Watched = {1}
SPECIFICATION FairSpec
INVARIANTS
    TypeOK
    LockCoversSidecar
    NothingLeft
    LogComplete
PROPERTIES
    AllEnd
CHECK_DEADLOCK FALSE
