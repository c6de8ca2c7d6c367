SPECIFICATION Spec
CONSTANTS
    Installs = {i1}
    Appenders = {}
    Models = {a, b, c}
    Inodes = {n1, n2, n3, n4}
    Reuse = FALSE
    Texts <- MCTexts
    MaxLength = 3
    Edits = {"grow", "replace"}
    Overlap = 1
    MaxEdits = 2
    MayCrash = TRUE
    None = None
SYMMETRY Symmetry
INVARIANTS
    IndexIsExact
