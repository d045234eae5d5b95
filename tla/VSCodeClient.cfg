\* Three processes, so that one can end while its successor is held and the
\* next is started; two requests of each kind.
SPECIFICATION FairSpec
CONSTANTS
    AutoStart = TRUE
    MaxCores = 3
    MaxCompletions = 2
    MaxHealths = 2
INVARIANTS
    WaitsForItsCore
    NobodyForgotten
PROPERTIES
    PromisesSettle
CHECK_DEADLOCK FALSE
