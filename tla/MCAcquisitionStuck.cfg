SPECIFICATION Spec
CONSTANTS
    p1 = p1
    p2 = p2
    m1 = m1
    m2 = m2
    r1 = r1
    r2 = r2
    r3 = r3
    v1 = v1
    v2 = v2
    z1 = z1
    z2 = z2
    Procs = {p1, p2}
    Models = {m1}
    Releases = {r1, r2}
    Versions = {v1, v2}
    Zips = {z1, z2}
    ModelOf <- MCModelOf2
    Served <- MCServed2
    AutoExtract = TRUE
    AppendCompleted = TRUE
    None = None
    Bad = Bad
    MayCrash = TRUE
    MayFault = FALSE
    MayRemove = FALSE
SYMMETRY Symmetry
INVARIANTS
    RetryableCanBeRetried
