SPECIFICATION Spec
CONSTANTS
    Buffers = {b1, b2}
    Nothing = Nothing
    AutoStart = TRUE
    MaxWords = 2
    MaxChanges = 2
    MaxScheduled = 1
    MaxSeq = 2
    MaxStarts = 2
INVARIANTS
    TypeOK
    SentIsKnown
    TypedTextIsPending
PROPERTIES
    SendsAfterQuiet
SYMMETRY Symmetric
