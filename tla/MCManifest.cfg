CONSTANTS
    k1 = k1
    k2 = k2
    j1 = j1
    j2 = j2
    t1 = t1
    t2 = t2
    Absent = Absent
    Unpaired = Unpaired
    Keys = {k1}
    Jids = {j1, j2}
    Tasks = {t1, t2}
    MaxFaults = 2
SPECIFICATION FairSpec
INVARIANTS
    TypeOK
    QuietMeansSaved
PROPERTIES
    CallsReturn
    ImplementsDurableMap
