CONSTANTS
    a1 = a1
    a2 = a2
    j1 = j1
    j2 = j2
    NoJid = NoJid
    Accounts = {a1}
    Jids = {j1}
    Batches <- OneBatch
    BufferSize = 1
    MaxEvents = 2
    MaxPairings = 1
SPECIFICATION Spec
INVARIANTS
    CloseMakesSinkNoOp
