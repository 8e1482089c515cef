CONSTANTS
    t1 = t1
    t2 = t2
    g1 = g1
    g2 = g2
    k1 = k1
    None = None
    Fresh = Fresh
    Tasks = {t1, t2}
    Slots = {g1, g2}
    Keys = {k1}
    Methods = {"reply", "reply_react", "join_group"}
    Capacity = 2
    TTL = 1
SPECIFICATION Spec
INVARIANTS
    TypeOK
    OutcomesAreTrue
    CacheIsTrue
SYMMETRY Symmetric
