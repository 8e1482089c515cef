CONSTANTS
    root = root
    s1 = s1
    s2 = s2
    a = a
    b = b
    h1 = h1
    h2 = h2
    h3 = h3
    h4 = h4
    h5 = h5
    h6 = h6
    cmd = cmd
    dm = dm
    group = group
    either = either
    both = both
    maybe = maybe
    text = text
    image = image
    receipt = receipt
    future = future
    None = None
    NoMatch = NoMatch
    Root = root
    Routers <- MCRouters
    Mounts <- MCMounts
    Exprs <- MCExprs
    node <- MCNode
    Handlers = {h1, h2, h3, h4, h5, h6}
    decl <- MCDecl
    Callables = {maybe}
    Accounts = {a, b}
    Msgs = {text, image, receipt, future}
    wire <- MCWire
    Hanging = {b}
SPECIFICATION FairSpec
INVARIANTS
    TypeOK
    Acyclic
PROPERTIES
    FirstMatchWins
    SoftOnDemand
    EventsConclude
CHECK_DEADLOCK FALSE
