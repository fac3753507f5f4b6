\* One process, every call, a store that fills up.
CONSTANTS
    p1 = p1
    d1 = d1
    d2 = d2
    d3 = d3
    Procs = {p1}
    Digests = {d1, d2, d3}
    NoDigest = NoDigest
    MaxPlans = 2
    Verifiers = {p1}
    OldTemp = OldTemp
    Calls = {"put", "get", "list", "remove"}
    MaxFaults = 1
SPECIFICATION FairSpec
PROPERTIES
    TamperEvident
    ImplementsShelf
    
