SPECIFICATION Spec
CONSTANTS
    Tasks = {t1}
    Callers = {c1}
    RetryBudgets = {0, 1}
    Outputs = {o1}
    MaxCalls = 2
    MaxDirect = 0
    MaxLost = 0
INVARIANT ApprovedOnce
CHECK_DEADLOCK FALSE
