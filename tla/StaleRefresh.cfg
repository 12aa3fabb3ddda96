SPECIFICATION Spec
CONSTANTS
    Tasks = {t1}
    Callers = {c1, c2}
    RetryBudgets = {0, 1}
    Outputs = {o1}
    MaxCalls = 1
    MaxDirect = 0
    MaxLost = 0
SYMMETRY Symmetry
INVARIANT TerminalIsFinal
CHECK_DEADLOCK FALSE
