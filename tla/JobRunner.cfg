SPECIFICATION FairSpec
CONSTANTS
    Pods = {p1, p2}
    Jobs = {1}
    LeaseTicks = 3
    HeartbeatTicks = 1
    Plans = {1, 2}
    PlanLength = 2
    Gated = {2}
    NoPrompt = {}
    NoRunner = {}
    MaxAttempts = 2
    MaxRetries = 1
    BatchSize = 1
    Calls = {"approve", "retry", "requeue"}
    Stoppable = {}
    MaxCalls = 3
    MaxCrashes = 2
    MaxChatErrors = 2
    MaxDbErrors = 2
INVARIANTS
    TypeOK
    OwnerRuns
    NoRedo
    StepsInOrder
    SucceededIsComplete
PROPERTIES
    CheckpointKept
    Settles
