\* Two workers, no kill, no short write.
CONSTANTS
    w1 = w1
    w2 = w2
    s1 = s1
    s2 = s2
    i1 = i1
    i2 = i2
    i3 = i3
    t1 = t1
    Workers = {w1, w2}
    Snaps = {s1, s2}
    NoSnap = NoSnap
    Inodes = {i1, i2, i3}
    NoFile = NoFile
    Tokens = {t1}
    MaxCrashes = 0
    MaxFails = 0
SPECIFICATION Spec
INVARIANT CancellationIsReal
