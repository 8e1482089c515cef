CONSTANTS
    a1 = a1
    j1 = j1
    NoJid = NoJid
    Accounts = {a1}
    Jids = {j1}
    Batches <- MCBatches
    BufferSize = 1
    MaxEvents = 2
    MaxPairings = 1
SPECIFICATION FairSpec
INVARIANTS
    TypeOK
    Accounting
PROPERTIES
    PairedEventsCarryJid
    Progress
    ImplementsNumberedStream
