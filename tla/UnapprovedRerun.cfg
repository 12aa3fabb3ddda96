SPECIFICATION Spec
CONSTANTS
    Pods = {p1}
    Jobs = {1}
    LeaseTicks = 3
    HeartbeatTicks = 1
    Plans = {1}
    PlanLength = 2
    Gated = {1}
    NoPrompt = {}
    NoRunner = {}
    MaxAttempts = 2
    MaxRetries = 1
    BatchSize = 1
    Calls = {"approve"}
    Stoppable = {}
    MaxCalls = 1
    MaxCrashes = 1
    MaxChatErrors = 0
    MaxDbErrors = 0
INVARIANT ApprovalIsHuman
