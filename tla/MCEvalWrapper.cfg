\* One evaluated trajectory.
CONSTANTS
    cancel = cancel
    exchange = exchange
    read = read
    unknownWrite = unknownWrite
    unknownRead = unknownRead
    transfer = transfer
    Writes <- MCWrites
    Reads <- MCReads
    Transfer = transfer
    Malformed = malformed
    Refusals <- MCRefusals
    Overwrites <- MCOverwrites
    GoalActions <- MCGoalActions
    Outputs = {refund}
    MaxTurns = 3
    MaxCalls = 2
    LoopWindow = 4
    LoopLimit = 3
SPECIFICATION FairSpec
INVARIANTS
    AuditConsistent
    ErrorIsNoSuccess
PROPERTIES
    EpisodeSpec
    Returns
\* run_single_task returns.
CHECK_DEADLOCK FALSE
