SPECIFICATION MCSpec
CONSTANTS
    Agents = {a1, a2}
    Tools = {t1, t2}
    Names = {"http_request", "query_database"}
    HttpTool = t1
    QueryTool = t2
    NoName = NoName
    MaxWrites = 0
    Chats = {c1, c2}
    MaxMessages = 3
    Planner = Planner
    Nobody = Nobody
    Selector = Selector
    Missing = Missing
SYMMETRY AgentSymmetry
CHECK_DEADLOCK FALSE
INVARIANTS OwnWordsPass
