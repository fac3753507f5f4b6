\* Two processes, one of them verifying, share a root with room for one plan.
CONSTANTS
    p1 = p1
    p2 = p2
    d1 = d1
    d2 = d2
    d3 = d3
    Procs = {p1, p2}
    Digests = {d1, d2, d3}
    NoDigest = NoDigest
    MaxPlans = 1
    Verifiers = {p1}
    OldTemp = OldTemp
    Calls = {"put", "get", "remove"}
    MaxFaults = 1
SPECIFICATION Spec
INVARIANTS
    NoTornArtifact
    AckedPublished
    CapacityBound
SYMMETRY SymDigests
