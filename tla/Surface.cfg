SPECIFICATION Spec
CONSTANTS
    Tenants = {n1, n2}
    NoTenant = NoTenant
    Ids = {i1}
    Agents = {a1}
    Tools = {k1}
    Callers = {c1, c2}
    PlanLength = 2
    MaxCalls = 4
SYMMETRY Symmetry
INVARIANTS
    TypeOK
    Isolation
    AnswersTellTruth
    OwnTaskIsFound
    OnlyConfigured
PROPERTY PercentNeverDrops
CHECK_DEADLOCK FALSE
