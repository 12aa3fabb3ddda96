SPECIFICATION FairSpec
CONSTANTS
    Pods = {p1}
    Jobs = {1, 2, 3}
    LeaseTicks = 3
    HeartbeatTicks = 1
    Plans = {1}
    PlanLength = 2
    Gated = {2}
    NoPrompt = {2}
    NoRunner = {3}
    MaxAttempts = 2
    MaxRetries = 1
    BatchSize = 3
    Calls = {"approve", "requeue", "cancel", "retry"}
    Stoppable = {p1}
    MaxCalls = 2
    MaxCrashes = 0
    MaxChatErrors = 1
    MaxDbErrors = 0
 
PROPERTIES
    KeepsLifecycle
    StepsRunOnce
    Drains
