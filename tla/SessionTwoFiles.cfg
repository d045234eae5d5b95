\* Two files that share state ids, with a stdin and a stdout that may fail at
\* any step.
SPECIFICATION Spec
CONSTANTS
    Keys <- MCKeys
    Windows <- MCWindows
    Around <- MCAround
    Texts = {t1}
    NoText = NoText
    MaxEntries = 1
    TTL = 1
    Paths = {p1, p2}
    NoPath = NoPath
    Ids = {i1, noId}
    EmptyId = noId
    Contents = {c1}
    NoDocument = NoDocument
    Offsets = {o1}
    Failure = Failure
    MaxRequests = 2
    MaxInputs = 4
    MaxNow = 0
    InputMayFail = TRUE
    OutputMayBreak = TRUE
INVARIANTS
    PendingIsRegistered
    VanishesOnlyCancelled
    CleanEnd
SYMMETRY Symmetric
