\* Two processes over one directory, epochs up to exhaustion, a client with
\* three calls; the record is damaged from outside at most once.
CONSTANTS
    p1 = p1
    p2 = p2
    c1 = c1
    Procs = {p1, p2}
    NoProc = NoProc
    Clients = {c1}
    MaxEpoch = 3
    MaxDamage = 1
    MaxCalls = 3
SPECIFICATION SessionSpec
INVARIANTS
    OneIncarnation
    EpochsIncrease
    FenceSound
    
    OwnAnswer
    ExecutedOnce
PROPERTY CallsComeBack
