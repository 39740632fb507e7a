------------------------------ MODULE EvalWrapper -----------------------------
(***************************************************************************)
(* TauBenchWrapper.run_single_task: one evaluated trajectory.  The policy  *)
(* and the environment take turns until the environment is done, a limit   *)
(* is met, the policy repeats itself, or something raises.                 *)
(***************************************************************************)
EXTENDS TauEnv

CONSTANTS
    Malformed,     \* a call whose arguments do not parse or cannot be checked
    MaxTurns,      \* max_turns
    MaxCalls,      \* bound on the tool calls of one message
    LoopWindow,    \* calls remembered by the loop detection: 20 in the code
    LoopLimit      \* repetitions it tolerates no more: 3 in the code

ASSUME WrapperAssumptions ==
    /\ Malformed \notin EnvCalls
    /\ MaxTurns \in Nat /\ MaxCalls \in Nat
    /\ LoopWindow \in Nat /\ LoopLimit \in Nat \ {0}

VARIABLES
    pc,            \* "policy", "tools" (within a batch) or "returned"
    turn,          \* turn_idx
    batch,         \* the tool calls of the message that have not run yet
    recent,        \* recent_tool_calls
    total,         \* total_reward
    failed,        \* error_msg is not None
    taintedFrom,   \* was_contaminated_from_turn; NoTurn for None
    errors,        \* tool_error_count
    pending,       \* pending_tool_errors
    recovered,     \* recovered_tool_errors
    highRisk,      \* high_risk_tool_calls
    riskErrors,    \* high_risk_tool_errors
    violating      \* constraint_violation_count

audit == <<errors, pending, recovered, highRisk, riskErrors, violating>>
run == <<pc, turn, batch, recent, total, failed, taintedFrom>>
wrapperVars == <<envVars, run, audit>>

NoTurn == -1
Messages == UNION {[1..n -> EnvCalls \cup {Malformed}] : n \in 1..MaxCalls}

Init ==
    /\ EnvInit
    /\ pc = IF MaxTurns > 0 THEN "policy" ELSE "returned"
    /\ turn = 0 /\ batch = <<>> /\ recent = <<>> /\ total = 0
    /\ failed = FALSE /\ taintedFrom = NoTurn
    /\ errors = 0 /\ pending = 0 /\ recovered = 0
    /\ highRisk = 0 /\ riskErrors = 0 /\ violating = 0

-------------------------------------------------------------------------------
\* Mutant: a done environment does not leave the loop.
EndTurnUndone(done) ==
    /\ turn' = turn + 1
    /\ pc' = IF turn + 1 >= MaxTurns THEN "returned" ELSE "policy"
\* turn_idx += 1 and the condition of the loop.
EndTurn(done) ==
    /\ turn' = turn + 1
    /\ pc' = IF done \/ turn + 1 >= MaxTurns THEN "returned" ELSE "policy"

\* Mutant: the break leaves an inner loop only.
AbortInner == pc' = "policy" /\ failed' = TRUE /\ batch' = <<>> /\ UNCHANGED turn
\* Leaving the loop by break or by an exception does not end the turn.
Abort == pc' = "returned" /\ failed' = TRUE /\ batch' = <<>> /\ UNCHANGED turn

Taint(truncated) ==
    taintedFrom' = IF truncated /\ taintedFrom = NoTurn THEN turn ELSE taintedFrom

Remember(message) ==
    LET all == recent \o message IN
    SubSeq(all, IF Len(all) > LoopWindow THEN Len(all) - LoopWindow + 1 ELSE 1, Len(all))

Loops(calls) ==
    \E call \in EnvCalls \cup {Malformed} :
        Cardinality({k \in 1..Len(calls) : calls[k] = call}) >= LoopLimit

PolicyFails ==
    /\ pc = "policy"
    /\ Abort
    /\ UNCHANGED <<envVars, recent, total, taintedFrom, audit>>

\* A message with tool calls; repeated ones are found before any of them runs.
AskTools(message, truncated) ==
    /\ pc = "policy"
    /\ Taint(truncated)
    /\ recent' = Remember(message)
    /\ IF Loops(recent')
         THEN Abort
         ELSE pc' = "tools" /\ batch' = message /\ UNCHANGED <<turn, failed>>
    /\ UNCHANGED <<envVars, total, audit>>

\* Mutant: an error that follows an error recovers it.
CountErrorsEagerly(call) ==
    /\ errors' = errors + (IF StepError(call) THEN 1 ELSE 0)
    /\ pending' = IF StepError(call) THEN 1 ELSE 0
    /\ recovered' = recovered + (IF StepError(call) THEN 0 ELSE pending)
\* A success recovers all the errors before it.
CountErrors(call) ==
    /\ errors' = errors + (IF StepError(call) THEN 1 ELSE 0)
    /\ pending' = IF StepError(call) THEN pending + 1 ELSE 0
    /\ recovered' = recovered + (IF StepError(call) THEN 0 ELSE pending)

\* The audit of a write tool; whether check_retail_constraints finds a violation
\* is left open.
CountRisk(call, violates) ==
    /\ highRisk' = highRisk + (IF call \in Writes THEN 1 ELSE 0)
    /\ riskErrors' = riskErrors + (IF call \in Writes /\ StepError(call) THEN 1 ELSE 0)
    /\ violating' = violating + (IF call \in Writes /\ violates THEN 1 ELSE 0)

\* Mutant: the calls after the one that ended the episode still run.
RestOfAll(done) == Tail(batch)
\* What is left of the batch: done breaks out of it.
RestOf(done) == IF done THEN <<>> ELSE Tail(batch)

\* json.loads raises within the batch, or check_retail_constraints does on
\* arguments it cannot look up: the call of a write tool is counted by then.
CallFails ==
    /\ pc = "tools"
    /\ Head(batch) = Malformed
    /\ Abort
    /\ highRisk' \in {highRisk, highRisk + 1}
    /\ UNCHANGED <<envVars, recent, total, taintedFrom, errors, pending, recovered,
                   riskErrors, violating>>

RunTool(violates) ==
    /\ pc = "tools"
    /\ LET call == Head(batch) IN
         /\ call \in EnvCalls
         /\ EnvStep(call)
         /\ total' = total + StepReward(call)
         /\ CountErrors(call) /\ CountRisk(call, violates)
         /\ batch' = RestOf(StepDone(call))
         /\ IF batch' = <<>> THEN EndTurn(StepDone(call)) ELSE UNCHANGED <<turn, pc>>
    /\ UNCHANGED <<recent, failed, taintedFrom>>

Respond(outs, stop, truncated) ==
    /\ pc = "policy"
    /\ Taint(truncated)
    /\ EnvRespond(outs, stop)
    /\ total' = total + RespondReward(outs, stop)
    /\ EndTurn(stop)
    /\ UNCHANGED <<batch, recent, failed, audit>>

\* The simulated customer raises; Env.actions already has the answer.
RespondFails(outs, truncated) ==
    /\ pc = "policy"
    /\ Taint(truncated)
    /\ told' = told \cup outs
    /\ Abort
    /\ UNCHANGED <<data, built, ended, recent, total, audit>>

Next ==
    \/ PolicyFails
    \/ \E message \in Messages, truncated \in BOOLEAN : AskTools(message, truncated)
    \/ CallFails
    \/ \E violates \in BOOLEAN : RunTool(violates)
    \/ \E outs \in SUBSET Outputs, stop, truncated \in BOOLEAN : Respond(outs, stop, truncated)
    \/ \E outs \in SUBSET Outputs, truncated \in BOOLEAN : RespondFails(outs, truncated)

Spec == Init /\ [][Next]_wrapperVars

\* The loop is sequential code; the policy's and the customer's servers answer or
\* their client raises.
FairSpec == Spec /\ WF_wrapperVars(Next)

Success == total >= 1

-------------------------------------------------------------------------------
\* The environment is left alone once it is done, so an evaluated trajectory is
\* an episode, judged once on what the agent itself did.
Judged == IF ~ended THEN "open" ELSE IF Success THEN "success" ELSE "failure"
Promised == INSTANCE Episode WITH db <- built, outcome <- Judged
EpisodeSpec == Promised!EpisodeSpec

\* Every tool error is recovered by a later success or still pending, and the
\* rates the report is made of are rates: their parts never exceed the whole.
AuditConsistent ==
    /\ errors = recovered + pending
    /\ violating <= highRisk
    /\ riskErrors <= highRisk /\ riskErrors <= errors

\* A trajectory that reports an error is never a success too.
ErrorIsNoSuccess == failed => ~Success

\* The loop ends: by its turns, or because the calls repeat.
Returns == <>(pc = "returned")
===============================================================================
