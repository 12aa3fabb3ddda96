SPECIFICATION MCSpec
CONSTANTS
    Agents = {a1, a2}
    Tools = {t1, t2}
    Names = {n1, n2}
    FirstTool = t1
    FirstName = n1
    NoName = NoName
    MaxWrites = 2
    Chats = {c1}
    MaxMessages = 3
    Planner = Planner
    Nobody = Nobody
CHECK_DEADLOCK FALSE
INVARIANTS TypeOK GrantsMatchUpdate GateOfRecord PlanIsPlanners SomebodySpeaks
PROPERTIES ImplementsChatLifecycle ChatEnds
