SPECIFICATION Spec
CONSTANTS
    PathList <- MCPathList
    Labels <- MCLabels
    Exclude <- MCExclude
    PrivateDirs = {"vendor"}
    BuildInputs = {"api_key=1.txt"}
    Documents <- MCDocuments
    MaxBytes = 4
    MaxChanges = 3
INVARIANT TypeOK
INVARIANT SentIsTheTurn
INVARIANT NothingPrivateLeaves
INVARIANT SkippedForCause
CHECK_DEADLOCK FALSE
