SPECIFICATION Spec
CONSTANTS
    Pods = {p1, p2}
    Jobs = {1, 2}
    LeaseTicks = 3
    HeartbeatTicks = 1
    Plans = {1}
    PlanLength = 2
    Gated = {}
    NoPrompt = {}
    NoRunner = {}
    MaxAttempts = 2
    MaxRetries = 1
    BatchSize = 2
    Calls = {}
    Stoppable = {}
    MaxCalls = 0
    MaxCrashes = 0
    MaxChatErrors = 0
    MaxDbErrors = 0
SYMMETRY Symmetry
INVARIANT SingleRunner
