\* Every batch of three of thirteen trajectories, in every order.
CONSTANTS
    Size = 3
    Length = 3
    p1 = p1
    p2 = p2
    Prompts = {p1, p2}
    Trajectories <- MCAll
    Scale = 6
SPECIFICATION Spec
INVARIANTS
    RefusedIffUnsound
    AdvantageOfTrajectory
\* The advantages are computed, or training has ended.
CHECK_DEADLOCK FALSE
