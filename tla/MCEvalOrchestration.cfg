\* Candidates one after the other, with everything that may happen to a script
\* and to its server.
CONSTANTS
    N = 3
    CandidateOf <- MatrixCandidates
    Follows <- MatrixFollows
    MaxFaults <- MCMaxFaults
SPECIFICATION FairScriptsSpec
INVARIANTS
    CompletedIsGenuine
    NeverRefusedByPredecessor
    NoServerLeft
PROPERTY InvocationsEnd
\* The last script ends.
CHECK_DEADLOCK FALSE
