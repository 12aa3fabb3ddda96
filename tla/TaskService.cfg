SPECIFICATION FairSpec
CONSTANTS
    Tasks = {t1}
    Callers = {c1, c2}
    RetryBudgets = {0, 1}
    Outputs = {o1}
    MaxCalls = 2
    MaxDirect = 1
    MaxLost = 1
INVARIANTS
    TypeOK
    CompletedIsTrue
PROPERTY OnlyFailedLingers
CHECK_DEADLOCK FALSE
