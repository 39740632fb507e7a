----------------------------- MODULE ToolAgentLoop ----------------------------
(***************************************************************************)
(* The agent loop that produces one training trajectory: a state machine   *)
(* that lets the policy generate tokens, runs the tool calls it finds in   *)
(* them, or shows them to the simulated customer, and keeps beside the     *)
(* tokens a loss mask and, for every batch of tools run, the span of the   *)
(* tokens that asked for it.  Step credit is later added to those spans    *)
(* (compute_grpo_cs_advantage), which fails hard on a bad one.             *)
(* Tokens are represented by where they come from.  What tools and the     *)
(* customer answer is left open here; Rollout joins the environment.       *)
(***************************************************************************)
EXTENDS Integers, Sequences, StepSpans

CONSTANTS
    Calls,             \* the tool calls a policy can write
    MaxCalls,          \* bound on the tool calls parsed from one generation
    MaxParallelCalls,  \* multi_turn.max_parallel_calls: how many of them run
    MaxAssistantTurns, MaxUserTurns,   \* 0 stands for no limit
    ResponseLength,    \* rollout.response_length
    PromptLength,      \* tokens of the initial prompt
    GenLens, ObsLens,  \* bounds: lengths of a generation and of an observation
    Credits,           \* bound: step rewards a batch of tools can earn
    HasLogProbs        \* sampling_params["logprobs"]

ASSUME LoopAssumptions ==
    /\ MaxCalls \in Nat /\ MaxParallelCalls \in Nat \ {0}
    /\ MaxAssistantTurns \in Nat /\ MaxUserTurns \in Nat
    /\ ResponseLength \in Nat \ {0} /\ PromptLength \in Nat \ {0}
    /\ GenLens \subseteq Nat \ {0}   \* at least the token that stopped it
    /\ ObsLens \subseteq Nat
    /\ Credits \subseteq Int
    /\ HasLogProbs \in BOOLEAN

VARIABLES
    state,             \* AgentState
    promptIds,         \* agent_data.prompt_ids
    responseMask,      \* agent_data.response_mask
    logProbs,          \* len(agent_data.response_logprobs)
    assistantTurns, userTurns,
    toolCalls,         \* agent_data.tool_calls
    pendingSpan,       \* agent_data.pending_tool_call_span
    records            \* agent_data.tool_step_records

loopVars == <<state, promptIds, responseMask, logProbs, assistantTurns,
              userTurns, toolCalls, pendingSpan, records>>

-------------------------------------------------------------------------------
AgentStates == {"pending", "generating", "processing_tools", "interacting", "terminated"}
Origins == {"prompt", "policy", "observation"}
NoSpan == [start |-> 0, end |-> 0]
Marks == {0, 1}     \* of the loss mask: 1 is trained on
Batches == UNION {[1..n -> Calls] : n \in 0..MaxCalls}

Record == [start : Nat, end : Nat, tools : Nat, reward : Int]

\* n copies of one mark: [1] * n, [0] * n and the origins of n tokens.
Copies(n, mark) == [k \in 1..n |-> mark]

MinOf(a, b) == IF a <= b THEN a ELSE b

\* How many of the parsed calls run: tool_calls[:max_parallel_calls].
Running == MinOf(Len(toolCalls), MaxParallelCalls)

TypeOK ==
    /\ state \in AgentStates
    /\ promptIds \in Seq(Origins)
    /\ responseMask \in Seq(Marks)
    /\ logProbs \in Nat
    /\ assistantTurns \in Nat /\ userTurns \in Nat
    /\ toolCalls \in Seq(Calls)
    /\ pendingSpan \in Spans
    /\ records \in Seq(Record)

-------------------------------------------------------------------------------
(* The handlers.                                                           *)

Init ==
    /\ state = "pending"
    /\ promptIds = <<>> /\ responseMask = <<>> /\ logProbs = 0
    /\ assistantTurns = 0 /\ userTurns = 0
    /\ toolCalls = <<>> /\ pendingSpan = NoSpan /\ records = <<>>

\* _handle_pending_state
Prepare ==
    /\ state = "pending"
    /\ state' = "generating"
    /\ promptIds' = Copies(PromptLength, "prompt")
    /\ UNCHANGED <<responseMask, logProbs, assistantTurns, userTurns, toolCalls,
                   pendingSpan, records>>

\* Tokens the policy wrote, and tokens the environment answered with.
AppendPolicy(n) ==
    /\ promptIds' = promptIds \o Copies(n, "policy")
    /\ responseMask' = responseMask \o Copies(n, 1)
    /\ logProbs' = IF HasLogProbs THEN logProbs + n ELSE logProbs

\* Mutants: an observation is trained on; its log-probs are forgotten.
AppendTrained(n) ==
    /\ promptIds' = promptIds \o Copies(n, "observation")
    /\ responseMask' = responseMask \o Copies(n, 1)
    /\ logProbs' = IF logProbs > 0 THEN logProbs + n ELSE logProbs

AppendUnaligned(n) ==
    /\ promptIds' = promptIds \o Copies(n, "observation")
    /\ responseMask' = responseMask \o Copies(n, 0)
    /\ UNCHANGED logProbs

AppendObservation(n) ==
    /\ promptIds' = promptIds \o Copies(n, "observation")
    /\ responseMask' = responseMask \o Copies(n, 0)
    /\ logProbs' = IF logProbs > 0 THEN logProbs + n ELSE logProbs

\* Mutant: the length of the response is not looked at.
LimitTurnsOnly(n) ==
    \/ MaxAssistantTurns > 0 /\ assistantTurns + 1 >= MaxAssistantTurns
    \/ MaxUserTurns > 0 /\ userTurns >= MaxUserTurns

\* The limits looked at after a generation of n tokens, before it is parsed.
LimitReached(n) ==
    \/ Len(responseMask) + n >= ResponseLength
    \/ MaxAssistantTurns > 0 /\ assistantTurns + 1 >= MaxAssistantTurns
    \/ MaxUserTurns > 0 /\ userTurns >= MaxUserTurns

\* The span of the generation about to be appended.
SpanOf(n) == [start |-> Len(responseMask), end |-> Len(responseMask) + n]

\* _handle_generating_state: n tokens, in which the parser finds "found".
Generate(n, found) ==
    /\ state = "generating"
    /\ AppendPolicy(n)
    /\ assistantTurns' = assistantTurns + 1
    /\ IF LimitReached(n)
         THEN /\ state' = "terminated"
              /\ UNCHANGED <<toolCalls, pendingSpan>>
         ELSE /\ toolCalls' = found
              /\ pendingSpan' = IF found = <<>> THEN NoSpan ELSE SpanOf(n)
              /\ state' = IF found = <<>> THEN "interacting" ELSE "processing_tools"
    /\ UNCHANGED <<userTurns, records>>

\* build_tool_step_record for the batch that ran, with its summed rewards.
StepRecord(credit) == [start |-> pendingSpan.start, end |-> pendingSpan.end,
                       tools |-> Running, reward |-> credit]

\* _handle_processing_tools_state, its calls having run: the record is kept
\* even when the observation, of n tokens, no longer fits.
ProcessTools(credit, n) ==
    /\ state = "processing_tools"
    /\ records' = Append(records, StepRecord(credit))
    /\ pendingSpan' = NoSpan
    /\ IF Len(responseMask) + n >= ResponseLength
         THEN /\ state' = "terminated"
              /\ UNCHANGED <<promptIds, responseMask, logProbs, userTurns>>
         ELSE /\ state' = "generating"
              /\ AppendObservation(n)
              /\ userTurns' = userTurns + 1
    /\ UNCHANGED <<assistantTurns, toolCalls>>

\* _handle_interacting_state: the answer is appended whatever its length.
Interact(terminate, n) ==
    /\ state = "interacting"
    /\ AppendObservation(n)
    /\ userTurns' = userTurns + 1
    /\ state' = IF terminate THEN "terminated" ELSE "generating"
    /\ UNCHANGED <<assistantTurns, toolCalls, pendingSpan, records>>

Next ==
    \/ Prepare
    \/ \E n \in GenLens, found \in Batches : Generate(n, found)
    \/ \E credit \in Credits, n \in ObsLens : ProcessTools(credit, n)
    \/ \E terminate \in BOOLEAN, n \in ObsLens : Interact(terminate, n)

Spec == Init /\ [][Next]_loopVars

-------------------------------------------------------------------------------
(* The output of run, and what must be true of it.                         *)

\* response_ids, response_mask and prompt_ids of AgentLoopOutput.
Kept == MinOf(Len(responseMask), ResponseLength)
OutputMask == SubSeq(responseMask, 1, Kept)
OutputIds == SubSeq(promptIds, Len(promptIds) - Len(responseMask) + 1,
                    Len(promptIds) - Len(responseMask) + Kept)
OutputPrompt == SubSeq(promptIds, 1, Len(promptIds) - Len(responseMask))

\* Every record the loop keeps passes the checks of the estimator that uses it,
\* and the span a batch of tools is about to be recorded with passes those of
\* build_tool_step_record: neither ever raises.
SpansAccepted ==
    /\ state = "processing_tools" => Builds(pendingSpan, Running)
    /\ state = "terminated" => Accepted(records, OutputMask, ResponseLength)

\* RETAIL_EXPERIMENT_GUIDE.md: tokens of the system, of the customer and of the
\* tools take no part in the policy loss.  The ids are cut out of prompt_ids by
\* the length of the mask, so the two must stay aligned over every handler.
OnlyPolicyTrained ==
    state = "terminated" =>
        /\ OutputPrompt = Copies(PromptLength, "prompt")
        /\ \A k \in 1..Kept : OutputMask[k] = 1 <=> OutputIds[k] = "policy"

\* The log-probs returned with the tokens are one per token, or none at all.
LogProbsAligned == logProbs = IF HasLogProbs THEN Len(responseMask) ELSE 0

\* The limits on turns hold although they are looked at after a generation only,
\* the two kinds of turns alternate, and at most one batch runs per turn, so the
\* ordinal of a record says the same of every trajectory of a group.
TurnLimits ==
    /\ MaxAssistantTurns > 0 => assistantTurns <= MaxAssistantTurns
    /\ MaxUserTurns > 0 => userTurns <= MaxUserTurns
    /\ assistantTurns - userTurns \in {0, 1}
    /\ Len(records) <= assistantTurns

===============================================================================
