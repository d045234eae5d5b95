\* One file with two contents, five inputs: enough to accept and to dismiss a
\* suggestion before its context is asked for again, and to change the text
\* or ask again at every step of a worker.
SPECIFICATION Spec
CONSTANTS
    Keys <- MCKeys
    Windows <- MCWindows
    Around <- MCAround
    Texts = {t1}
    NoText = NoText
    MaxEntries = 1
    TTL = 1
    Paths = {p1}
    NoPath = NoPath
    Ids = {i1, noId}
    EmptyId = noId
    Contents = {c1, c2}
    NoDocument = NoDocument
    Offsets = {o1}
    Failure = Failure
    MaxRequests = 2
    MaxInputs = 5
    MaxNow = 0
    InputMayFail = FALSE
    OutputMayBreak = FALSE
INVARIANTS
    TypeOK
    PendingSeesDocument
    DismissedStaysHidden
PROPERTIES
    ImplementsLifecycle
SYMMETRY Symmetric
