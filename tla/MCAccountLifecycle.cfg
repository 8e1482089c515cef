CONSTANTS
    j1 = j1
    j2 = j2
    NoJid = NoJid
    Absent = Absent
    Jids = {j1, j2}
    User <- ManyUsers
    Removals = {"logout", "disconnect"}
    Hazards = {"rpc", "remote_logout", "fresh", "jid", "crash"}
    MaxHandles = 2
    MaxQueue = 1
SPECIFICATION Spec
INVARIANTS
    TypeOK
    PairingIsRemembered
    ReadyIsAnswered
    OneClient
SYMMETRY Swaps
