-------------------------- MODULE MCEvalOrchestration -------------------------
\* A matrix of two candidates, and a retry of the second one by hand.
EXTENDS EvalOrchestration

MatrixCandidates == <<"sft", "state_step_8", "state_step_8">>
MatrixFollows == <<"nothing", "success", "end">>

\* Two of each fault, so that a fault hits what another one left behind.
MCMaxFaults == [kind \in Faults |-> 2]
===============================================================================
