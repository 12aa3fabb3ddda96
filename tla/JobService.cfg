SPECIFICATION Spec
CONSTANTS
    Jobs = {j1, j2}
    Pods = {p1, p2}
    LeaseTicks = 1
    AttemptBudgets = {1, 2}
    RetryBudgets = {0, 1}
    BatchSize = 1
    MaxRequeues = 1
SYMMETRY Symmetry
INVARIANTS
    TypeOK
    LeaseMatchesStatus
    ManualBudgetKept
    ClaimsDisjoint
    RunsWithinBudget
PROPERTY ImplementsLifecycle
