SPECIFICATION Spec
CONSTANTS
    Installs = {i1}
    Appenders = {i1}
    Models = {a, b, c}
    Inodes = {n1, n2, n3}
    Reuse = FALSE
    Texts <- MCTexts
    MaxLength = 2
    Edits = {"grow"}
    Overlap = 1
    MaxEdits = 2
    MayCrash = FALSE
    None = None
SYMMETRY Symmetry
INVARIANTS
    ListedModelsAreSkipped
