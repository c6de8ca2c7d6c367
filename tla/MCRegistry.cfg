SPECIFICATION FairSpec
CONSTANTS
    p1 = p1
    p2 = p2
    t1 = t1
    t2 = t2
    s1 = s1
    a1 = a1
    c1 = c1
    c2 = c2
    d1 = d1
    z1 = z1
    Procs = {p1, p2}
    Targets = {t1, t2}
    Wanted = {t1}
    Sources = {s1}
    Versions <- MCVersions
    Answers <- MCAnswers
    Digests = {z1}
    NScripts = 2
    None = None
    MayFault = TRUE
    MayKill = TRUE
INVARIANTS
    TypeOK
    MigrationsApplyOnce
    OpenedOnFullSchema
    ReleasesAreCanonical
    EveryReleaseObserved
    ColumnsAgree
    TargetsPointHome
    
PROPERTIES
    
    ReportedIsStored
    RestartsGetIn
