CONSTANTS
    u1 = u1
    u2 = u2
    d1 = d1
    a1 = a1
    None = None
    Old = Old
    Gone = Gone
    Uploads = {u1, u2}
    Foreign = {u2}
    Downloads = {d1}
    Accounts = {a1}
    GlobalLimit = 1
    MaxBytes = 1
    MaxSource = 2
    MediaSize = 1
    MaxStarted = 2
SPECIFICATION FairSpec
INVARIANTS
    TypeOK
    Quotas
    RefusedMeansNotSent
    ReturnedMeansWhole
PROPERTIES
    SentWhole
    TransfersEnd
CHECK_DEADLOCK FALSE
