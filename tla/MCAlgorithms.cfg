SPECIFICATION Spec
CONSTANTS
    None = None
    Fold <- MCFold
    Noise = ""
    Lowered <- MCLower
    LegalForm = {"GMBH", "AB"}
    Short = {"AB", "5", "7"}
    Street <- MCStreet
    HouseNumber = {"5", "7"}
    Letters <- MCLetters
    Infinity = 98
    Undefined = 99
    NotANumber = {97}
    ValidCode = {1, 2}
    DefaultLimit = 3
    MaxLimit = 4
    PageSize = 2
    MaxPageSize = 3
    Node <- Nodes
    Straight <- Distance
INVARIANTS
    CandidatesRight
    ScoresRight
    MapsAndFilesRight
    RowsRight
    StatementsRight
    GatesRight
    RoutesRight
CHECK_DEADLOCK FALSE
