\* The estimator against the claim made for pass^4.
CONSTANTS
    TaskIds <- MCOneTask
    Samples = 4
    Workers = 2
    Ks = {1, 4, 8}
    PolicyBase = 100
    UserBase = 200
SPECIFICATION Spec
INVARIANT PassHatIsStability
\* run_eval returns.
CHECK_DEADLOCK FALSE
