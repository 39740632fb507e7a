------------------------------ MODULE RetailTask ------------------------------
(***************************************************************************)
(* A task of the retail environment and what solving it means.  A database *)
(* is represented by the set of write calls whose effect it shows; the     *)
(* calls themselves are modelled in RetailStore.  Refusals and Overwrites  *)
(* say how calls interact: a closed order refuses further writes, and of   *)
(* two addresses given to an order the last one stands.                    *)
(***************************************************************************)
EXTENDS Integers, Sequences, FiniteSets, SequencesExt

CONSTANTS
    Writes,        \* calls of write tools, with their arguments
    Reads,         \* calls of read tools and of "think" and "calculate"
    Transfer,      \* the call of transfer_to_human_agents
    Refusals,      \* [SUBSET Writes -> SUBSET EnvCalls]: the calls that answer
                   \* "Error: ..." in a database
    Overwrites,    \* [Writes -> SUBSET Writes]: the calls whose effect w replaces
    GoalActions,   \* task.actions, replayed to obtain the ground truth
    Outputs        \* task.outputs, to be told to the customer

EnvCalls == Writes \cup Reads \cup {Transfer}

ASSUME TaskAssumptions ==
    /\ Transfer \notin Writes \cup Reads
    /\ Writes \cap Reads = {}
    /\ Refusals \in [SUBSET Writes -> SUBSET EnvCalls]
    /\ Overwrites \in [Writes -> SUBSET Writes]
    /\ GoalActions \in Seq(EnvCalls)

\* The observation is an "Error: ...": a write the database refuses, a read that
\* finds nothing, or any call whose tool raises.
Refused(d, call) == call \in Refusals[d]

\* tool.invoke(data, ...): a write refused, like any other call, leaves the data
\* alone, since the tools check everything before they write.
Invoke(d, call) ==
    IF call \in Writes /\ ~Refused(d, call) THEN (d \ Overwrites[call]) \cup {call} ELSE d

\* The goal: the target actions replayed on a fresh database, refused ones
\* being skipped, and the outputs told.
GoalData == FoldLeft(Invoke, {}, GoalActions)

Matches(d, told) == d = GoalData /\ Outputs \subseteq told

\* RetailStateSnapshot.matched_goal_leaves.
MatchedLeaves(d) == Cardinality(d \cap GoalData)
===============================================================================
