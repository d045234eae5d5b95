SPECIFICATION Spec
CONSTANTS
    MaxHunkBytes = 8
    NoEdit = NoEdit
    Paths = {a, t}
    GoPaths = {a, t}
    TestPaths = {t}
    Dir <- DirOf
    Texts <- ManyTexts
    Lines = {1, 3}
    QueryTokens <- ManyTokens
    MaxEditsPerFile = 2
    MaxEditsPerProject = 2
    MaxPromptEdits = 2
    MergeWindow = 1
    NearbyLineThreshold = 0
    CursorJumpThreshold = 1
    MaxNow = 4
    NoLine = NoLine
    NoText = NoText
    NoAnswer = NoAnswer
INVARIANTS
    TypeOK
    Limits
    Chronological
    FlushOrderIrrelevant
    AnswerIsBest
PROPERTIES
    NewestSurvive
    HunkFits
CHECK_DEADLOCK FALSE
