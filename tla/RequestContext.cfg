SPECIFICATION Spec
CONSTANTS
    Nil = Nil
    Current = 1
    TestPaths = {5}
    CursorReach = 4
    Starts <- MCStarts
    Versions <- MCVersions
    WindowBytes = 16
    Budget = 2
    DefaultBudget = 3
    Openings <- MCOpenings
    EchoBytes = 3
INVARIANTS
    BufferIsSource
    PromptIgnoresMapOrder
    OwnFileSurvivesBudget
    NamesInScope
    InnermostShown
    PromptKeepsText
PROPERTIES
    EchoAddsNothing
