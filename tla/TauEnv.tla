-------------------------------- MODULE TauEnv --------------------------------
(***************************************************************************)
(* tau_bench.envs.base.Env as its two drivers use it: the rollout of       *)
(* training (Rollout) and the evaluation wrapper (EvalWrapper).  A step is *)
(* never refused: the environment does not remember that it is done.       *)
(***************************************************************************)
EXTENDS RetailTask

VARIABLES
    data,      \* Env.data
    told,      \* Env.actions, of which only the outputs told are ever read
    built,     \* history: the database as the agent's own calls made it
    ended      \* history: some step has returned done = True

envVars == <<data, told, built, ended>>

\* Env.reset
EnvInit == data = {} /\ told = {} /\ built = {} /\ ended = FALSE

\* Mutant: the outputs are not checked.
RewardDataOnly(d, t) == IF d = GoalData THEN 1 ELSE 0

\* Env.calculate_reward compares with the ground truth, which stays in Env.data.
Reward(d, t) == IF Matches(d, t) THEN 1 ELSE 0

AfterReward(d, done) == IF done THEN GoalData ELSE d

\* Env.step of a tool call: reward, done and whether the observation is an
\* "Error: ..." string are the fields the drivers read.
StepDone(call) == call = Transfer
StepReward(call) == IF StepDone(call) THEN Reward(data, told) ELSE 0
StepError(call) == Refused(data, call)

EnvStep(call) ==
    /\ data' = AfterReward(Invoke(data, call), StepDone(call))
    /\ built' = Invoke(built, call)
    /\ ended' = (ended \/ StepDone(call))
    /\ UNCHANGED told

\* Env.step of a respond action: some outputs are told, and the simulated
\* customer may answer "###STOP###".
RespondReward(outs, stop) == IF stop THEN Reward(data, told \cup outs) ELSE 0

EnvRespond(outs, stop) ==
    /\ told' = told \cup outs
    /\ data' = AfterReward(data, stop)
    /\ ended' = (ended \/ stop)
    /\ UNCHANGED built
===============================================================================
