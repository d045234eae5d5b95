\* A stdin that fails for good.
SPECIFICATION FairSpec
CONSTANTS
    Keys <- MCKeys
    Windows <- MCWindows
    Around <- MCAround
    Texts = {t1}
    NoText = NoText
    MaxEntries = 1
    TTL = 1
    Paths = {p1}
    NoPath = NoPath
    Ids = {i1, noId}
    EmptyId = noId
    Contents = {c1}
    NoDocument = NoDocument
    Offsets = {o1}
    Failure = Failure
    MaxRequests = 2
    MaxInputs = 3
    MaxNow = 0
    InputMayFail = TRUE
    OutputMayBreak = FALSE
PROPERTY ErrorsAreRecoverable
