SPECIFICATION FairSpec
CONSTANTS
    s1 = s1
    s2 = s2
    a1 = a1
    a2 = a2
    b1 = b1
    ma = ma
    mb = mb
    Sources = {s1, s2}
    Rank <- MCRank
    Targets = {a1, a2, b1}
    Models = {ma, mb}
    Others = {mb}
    ModelOf <- MCModelOf
    Answers <- MCAnswers
    Ages = {0, 1, 2, 3}
    Lookback = 2
    Limits = {2}
    Counts = {2}
    Automatic = TRUE
    AutoExtract = TRUE
    AppendCompleted = TRUE
    None = None
    MayCrash = TRUE
    MayFault = TRUE
INVARIANTS
    TypeOK
    OrderIndependent
    MostRecentFirst
    LastRunMatchesCheckpoints
    DownloadsWereSelectable
    ExitZeroIsComplete
PROPERTIES
    ImplementsArchive
    RetriesReachEveryModel
