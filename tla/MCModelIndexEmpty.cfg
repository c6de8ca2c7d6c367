SPECIFICATION Spec
CONSTANTS
    Installs = {i1}
    Appenders = {i1}
    Models = {a, b}
    Inodes = {n1, n2}
    Reuse = FALSE
    Texts <- MCTexts
    MaxLength = 1
    Edits = {}
    Overlap = 1
    MaxEdits = 0
    MayCrash = TRUE
    None = None
SYMMETRY Symmetry
INVARIANTS
    InitializedSafely
