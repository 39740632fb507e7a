\* A reward for a database the agent never produced, with the default number of
\* calls per message.
CONSTANTS
    addressA = addressA
    addressB = addressB
    cancel = cancel
    transfer = transfer
    malformed = malformed
    refund = refund
    Writes <- MCWrites
    Reads = {}
    Transfer = transfer
    Malformed = malformed
    Refusals <- MCRefusals
    Overwrites <- MCOverwrites
    GoalActions <- MCGoalActions
    Outputs = {refund}
    Calls <- MCCalls
    MaxCalls = 3
    MaxParallelCalls = 1
    MaxAssistantTurns = 0
    MaxUserTurns = 0
    MaxTurns = 3
    ResponseLength = 8
    PromptLength = 1
    GenLens <- MCLens
    ObsLens <- MCObs
    Credits = {0}
    HasLogProbs = TRUE
SPECIFICATION RolloutSpec
INVARIANT RewardNeedsChanges
\* run returns once the state is "terminated".
CHECK_DEADLOCK FALSE
