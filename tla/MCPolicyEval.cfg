\* The pool, its failures, the report and its gate.
CONSTANTS
    TaskIds <- MCTaskIds
    Samples = 3
    Workers = 2
    Ks = {1, 2, 3}
    PolicyBase = 100
    UserBase = 200
SPECIFICATION FairSpec
INVARIANTS
    ReportPassesGate
    ReportIsTheOutcomes
    PassAtKUnbiased
    AllOrNothing
    NoJobOutlives
PROPERTY Ends
\* run_eval returns.
CHECK_DEADLOCK FALSE
