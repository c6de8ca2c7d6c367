SPECIFICATION Spec
CONSTANTS
    MaxPieces = 6
    Texts <- MCTexts
    Chunk = 3
    Overlap = 8
    Rewind = 8
    MinRun = 3
    MaxRun = 5
    MaxText = 12
    MaxMember = 9
    NoOffset = NoOffset
INVARIANTS
    TypeOK
    EveryModelFound
    FoundWhereItStands
    AcceptsExactlyJson
    SpliceIsJson
CHECK_DEADLOCK FALSE
