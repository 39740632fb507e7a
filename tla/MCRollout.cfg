\* The agent loop with its tools, its customer and their environment.
CONSTANTS
    addressA = addressA
    addressB = addressB
    cancel = cancel
    transfer = transfer
    malformed = malformed
    refund = refund
    Writes <- MCWrites
    Reads = {}
    Transfer = transfer
    Malformed = malformed
    Refusals <- MCRefusals
    Overwrites <- MCOverwrites
    GoalActions <- MCGoalActions
    Outputs = {refund}
    Calls <- MCCalls
    MaxCalls = 3
    MaxParallelCalls = 2
    MaxAssistantTurns = 0
    MaxUserTurns = 0
    MaxTurns = 3
    ResponseLength = 8
    PromptLength = 1
    GenLens <- MCLens
    ObsLens <- MCObs
    Credits = {0}
    HasLogProbs = TRUE
SPECIFICATION FairRolloutSpec
INVARIANTS
    SpansAccepted
    OnlyPolicyTrained
    LogProbsAligned
    ScoreExact
    CreditTelescopes
PROPERTY Terminates
\* run returns once the state is "terminated".
CHECK_DEADLOCK FALSE
