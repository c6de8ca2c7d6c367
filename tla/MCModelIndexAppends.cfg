SPECIFICATION Spec
CONSTANTS
    Installs = {i1, i2}
    Appenders = {i1, i2}
    Models = {a, b}
    Inodes = {n1, n2, n3, n4}
    Reuse = TRUE
    Texts <- MCTexts
    MaxLength = 1
    Edits = {}
    Overlap = 1
    MaxEdits = 0
    MayCrash = TRUE
    None = None
SYMMETRY Symmetry
INVARIANTS
    TypeOK
    NothingSkippedWrongly
PROPERTIES
    CatalogOnlyGrows
