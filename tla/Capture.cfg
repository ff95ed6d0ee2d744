SPECIFICATION Spec
CONSTANTS
    Paths = {1, 2, 3}
    QueryFiles = {3}
    Bytes <- MCBytes
    FirstTree <- MCFirst
    BaseTree <- MCBase
    Writes <- MCWrites
    Kinds = {"review", "snapshot"}
    ReviewSources = {"staged", "unstaged", "branch"}
    EditedPaths = {1, 3}
    MaxChanged = 1
    MaxRecords = 3
    MaxRecordBytes = 2
    FileLimit = 3
    TotalLimit = 3
    ShotFiles = 2
    ShotBytes = 3
    MaxEdits = 3
CHECK_DEADLOCK FALSE
INVARIANT ReleasedIsOfItsScope
INVARIANT BytesAreAsCaptured
INVARIANT NothingIsCutSilently
