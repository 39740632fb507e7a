-------------------------------- MODULE Rollout -------------------------------
(***************************************************************************)
(* One training trajectory: the agent loop (ToolAgentLoop) whose tools     *)
(* (tau_bench_tools.py) and whose customer (tau_bench_interaction.py) step *)
(* the same environment (TauEnv) and share the trajectory's state.  Step   *)
(* credit is the one of State-GRPO: the progress towards the goal, counted *)
(* in goal leaves, with no weight on constraints, errors and repetitions.  *)
(* The calls of a batch never wait, so asyncio.gather runs them in order.  *)
(***************************************************************************)
EXTENDS ToolAgentLoop, TauEnv

CONSTANTS
    Malformed,      \* a call of an unknown tool, or whose arguments do not parse
    MaxTurns        \* TauBenchInteraction.max_turns

ASSUME RolloutAssumptions ==
    /\ Calls = EnvCalls \cup {Malformed}
    /\ Malformed \notin EnvCalls
    /\ MaxTurns \in Nat \ {0}

VARIABLES
    ran,            \* calls of the present batch that have run
    credit,         \* step rewards of the present batch, summed
    totalReward,    \* state["total_reward"]
    numTurns,       \* state["num_user_turns"] + state["num_tool_calls"]
    flags           \* the true ones of state["done"], ["contaminated"] and
                    \* ["transferred_to_human"]

taskVars == <<ran, credit, totalReward, numTurns, flags>>
rolloutVars == <<loopVars, envVars, taskVars>>

RolloutInit ==
    /\ Init /\ EnvInit
    /\ ran = 0 /\ credit = 0 /\ totalReward = 0 /\ numTurns = 0 /\ flags = {}

-------------------------------------------------------------------------------
\* start_interaction, which has reset the environment, then _handle_pending_state.
Start == Prepare /\ UNCHANGED <<envVars, taskVars>>

PolicyTurn(n, found) ==
    /\ Generate(n, found)
    /\ ran' = 0 /\ credit' = 0
    /\ UNCHANGED <<envVars, totalReward, numTurns, flags>>

\* _call_tool turns every exception into a response without reward.
CallFails ==
    /\ state = "processing_tools" /\ ran < Running
    /\ toolCalls[ran + 1] = Malformed
    /\ ran' = ran + 1
    /\ UNCHANGED <<loopVars, envVars, credit, totalReward, numTurns, flags>>

\* Mutant: progress never falls.
ProgressGained(before, after) ==
    IF MatchedLeaves(after) > MatchedLeaves(before)
    THEN MatchedLeaves(after) - MatchedLeaves(before) ELSE 0
\* compute_step_credit, in leaves.
ProgressDelta(before, after) == MatchedLeaves(after) - MatchedLeaves(before)

\* TauBenchToolBase.execute: the progress is measured on Env.data before and after.
Execute ==
    /\ state = "processing_tools" /\ ran < Running
    /\ LET call == toolCalls[ran + 1] IN
         /\ call \in EnvCalls
         /\ EnvStep(call)
         /\ totalReward' = totalReward + StepReward(call)
         /\ flags' = flags \cup (IF StepDone(call) THEN {"done"} ELSE {})
                           \cup (IF call = Transfer THEN {"transferred"} ELSE {})
    /\ credit' = credit + ProgressDelta(data, data')
    /\ ran' = ran + 1
    /\ numTurns' = numTurns + 1
    /\ UNCHANGED loopVars

\* Mutant: all parsed calls are waited for, those that never started too.
BatchRunAll == ran = Len(toolCalls)
BatchRun == ran = Running

CloseBatch(n) ==
    /\ BatchRun
    /\ ProcessTools(credit, n)
    /\ ran' = 0 /\ credit' = 0
    /\ UNCHANGED <<envVars, totalReward, numTurns, flags>>

\* generate_response refuses an answer with a token of the chat template in it.
Contaminated(n) ==
    /\ Interact(TRUE, n)
    /\ flags' = flags \cup {"done", "contaminated"}
    /\ UNCHANGED <<envVars, ran, credit, totalReward, numTurns>>

\* The simulated customer raises: Env.actions has the answer, and nothing else.
RespondFails(outs, n) ==
    /\ Interact(TRUE, n)
    /\ told' = told \cup outs
    /\ flags' = flags \cup {"done"}
    /\ UNCHANGED <<data, built, ended, ran, credit, totalReward, numTurns>>

\* The customer answers; the limit on turns is looked at only here.
Respond(outs, stop, n) ==
    LET last == stop \/ numTurns + 1 >= MaxTurns IN
    /\ Interact(last, n)
    /\ EnvRespond(outs, stop)
    /\ totalReward' = totalReward + RespondReward(outs, stop)
    /\ numTurns' = numTurns + 1
    /\ flags' = flags \cup (IF last THEN {"done"} ELSE {})
    /\ UNCHANGED <<ran, credit>>

RolloutNext ==
    \/ Start
    \/ \E n \in GenLens, found \in Batches : PolicyTurn(n, found)
    \/ CallFails
    \/ Execute
    \/ \E n \in ObsLens : CloseBatch(n)
    \/ \E n \in ObsLens : Contaminated(n)
    \/ \E outs \in SUBSET Outputs, n \in ObsLens : RespondFails(outs, n)
    \/ \E outs \in SUBSET Outputs, stop \in BOOLEAN, n \in ObsLens : Respond(outs, stop, n)

RolloutSpec == RolloutInit /\ [][RolloutNext]_rolloutVars

\* The event loop keeps calling the handlers, and the servers of the policy and
\* of the customer answer: the loop has no timeout of its own.
FairRolloutSpec == RolloutSpec /\ WF_rolloutVars(RolloutNext)

\* calculate_score
Score == IF totalReward >= 1 THEN 1 ELSE 0

-------------------------------------------------------------------------------
\* A trajectory without a transfer scores 1 exactly when the customer ended it
\* and what the agent did to the database and told the customer is the goal.
ScoreExact ==
    state = "terminated" /\ "transferred" \notin flags
        => (Score = 1 <=> ended /\ Matches(built, told))

Earned == SumFunction([k \in DOMAIN records |-> records[k].reward]) + credit

\* The credit given so far adds up to the progress made so far, whatever order
\* and however often calls undo each other, and even when the last observation
\* did not fit.  (The customer's STOP replaces Env.data outside of any call.)
CreditTelescopes ==
    state # "terminated" \/ ~ended => Earned = MatchedLeaves(data)

\* Every trajectory ends, in spite of answers that never stop and of batches
\* longer than max_parallel_calls.
Terminates == <>(state = "terminated")

\* base.py, calculate_reward: "Check if the database changes are correct.  If
\* they are not correct, then we set the reward to 0."
RewardNeedsChanges == Score = 1 => Matches(built, told)

===============================================================================
