CONSTANTS
    main = main
    other = other
    handler = handler
    Stoppers = {main, handler}
    Handlers = {handler}
    MaxStarts = 2
    Watched = {1}
SPECIFICATION Spec
INVARIANTS
    SubprocessTornDown
CHECK_DEADLOCK FALSE
