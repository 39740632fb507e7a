-------------------------------- MODULE GrpoCs --------------------------------
(***************************************************************************)
(* From the trajectories of a batch to the advantages of their tokens: the *)
(* workers place each score in a row of token rewards, the trainer reorders *)
(* the rows to balance its ranks, and compute_grpo_cs_advantage adds the   *)
(* credit of tool steps to the advantage of the outcome.                   *)
(*                                                                         *)
(* Rewards are integers, and advantages are multiplied by Scale so that    *)
(* means are integers.  The division by the standard deviation of a group, *)
(* positive and common to its members, is left out, and beta is 1.         *)
(***************************************************************************)
EXTENDS StepSpans, FiniteSetsExt, Functions

CONSTANTS
    Size,              \* rows of a batch
    Length,            \* response_length, that of the padded tensors
    Prompts,           \* values of uid
    Trajectories,      \* what the agent loops may return: see TrajectoryType
    Scale              \* a common multiple of the sizes of groups

Rows == 1..Size
Tokens == 1..Length
Records == [start : Int, end : Int, finite : BOOLEAN, reward : Int]

\* tokens: how many the response has; mask: 1 for those the policy generated.
TrajectoryType ==
    [score : Int, tokens : 0..Length, mask : [Tokens -> {0, 1}], recs : Seq(Records)]

ASSUME GrpoAssumptions ==
    /\ Size \in Nat \ {0} /\ Length \in Nat \ {0} /\ Scale \in Nat \ {0}
    /\ \A t \in Trajectories :
          /\ t.score \in Int /\ t.tokens \in 0..Length
          /\ t.mask \in [Tokens -> {0, 1}] /\ t.recs \in Seq(Records)

VARIABLES
    stage,             \* "rollout", "rewards", "outcome", "steps", "done", "raised"
    index,             \* row -> uid
    row_of,            \* row -> the trajectory of data.batch in it
    token_rewards,     \* token_level_rewards
    outcome,           \* row -> trajectory advantage of its tokens
    scan,              \* <<row, ordinal>> of the next record
    occupied,          \* row -> tokens of the spans read so far
    grouped,           \* grouped_steps: [key, row, reward, start, end]
    advantages,        \* row -> token -> advantage
    order,             \* history: row -> its place before the rows were balanced
    asked              \* history: what the manager returned, in the order of the prompts

batchVars == <<index, row_of, token_rewards, order, asked>>
grpoVars == <<stage, batchVars, outcome, scan, occupied, grouped, advantages>>

Zeros == [row \in Rows |-> [k \in Tokens |-> 0]]

Init ==
    /\ stage = "rollout"
    /\ index \in [Rows -> Prompts] /\ row_of \in [Rows -> Trajectories]
    /\ order = [row \in Rows |-> row]
    /\ asked = [row \in Rows |-> [uid |-> index[row], trajectory |-> row_of[row]]]
    /\ token_rewards = Zeros /\ outcome = [row \in Rows |-> 0]
    /\ scan = <<1, 1>> /\ occupied = [row \in Rows |-> {}] /\ grouped = {}
    /\ advantages = Zeros

-------------------------------------------------------------------------------
(* The batch *)

\* The column of the last token; that of an empty response is -1, the last one.
ScoreColumn(t) == IF t.tokens = 0 THEN Length ELSE t.tokens

\* AgentLoopWorkerBase._postprocess
Postprocess ==
    /\ stage = "rollout" /\ stage' = "rewards"
    /\ token_rewards' = [row \in Rows |->
          [k \in Tokens |-> IF k = ScoreColumn(row_of[row]) THEN row_of[row].score ELSE 0]]
    /\ UNCHANGED <<index, row_of, order, asked, outcome, scan, occupied, grouped, advantages>>

Bijections == {f \in [Rows -> Rows] : \A i, j \in Rows : f[i] = f[j] => i = j}

\* Mutant: only the tensors are reordered.
BalanceBatchTensors ==
    /\ stage = "rewards" /\ stage' = "outcome"
    /\ \E to \in Bijections :
          /\ row_of' = [row \in Rows |-> row_of[to[row]]]
          /\ token_rewards' = [row \in Rows |-> token_rewards[to[row]]]
          /\ order' = to
    /\ UNCHANGED <<index, asked, outcome, scan, occupied, grouped, advantages>>
\* _balance_batch: any order, whatever the lengths of the responses make of it.
BalanceBatch ==
    /\ stage = "rewards" /\ stage' = "outcome"
    /\ \E to \in Bijections :
          /\ index' = [row \in Rows |-> index[to[row]]]
          /\ row_of' = [row \in Rows |-> row_of[to[row]]]
          /\ token_rewards' = [row \in Rows |-> token_rewards[to[row]]]
          /\ order' = to
    /\ UNCHANGED <<asked, outcome, scan, occupied, grouped, advantages>>

-------------------------------------------------------------------------------
(* compute_grpo_outcome_advantage *)

TotalReward(row) == SumFunction(token_rewards[row])
PeersOf(row) == {peer \in Rows : index[peer] = index[row]}
\* The mean of one trajectory alone is taken to be 0.
ScaledMean(group) ==
    IF Cardinality(group) = 1 THEN 0
    ELSE (Scale * SumFunction([row \in group |-> TotalReward(row)])) \div Cardinality(group)

OutcomeAdvantage ==
    /\ stage = "outcome" /\ stage' = "steps"
    /\ outcome' = [row \in Rows |-> Scale * TotalReward(row) - ScaledMean(PeersOf(row))]
    /\ UNCHANGED <<batchVars, scan, occupied, grouped, advantages>>

-------------------------------------------------------------------------------
(* compute_grpo_cs_advantage *)

Span(rec) == (rec.start + 1)..rec.end
RecsAt(row) == row_of[row].recs
AtRecord == stage = "steps" /\ scan[1] \in Rows /\ scan[2] <= Len(RecsAt(scan[1]))
Current == RecsAt(scan[1])[scan[2]]

\* Mutant: a span may begin inside another one.
ReadableLoose(row, rec) ==
    /\ InBounds(rec, Length) /\ Trained(rec, row_of[row].mask)
    /\ rec.end \notin occupied[row] /\ rec.finite
\* What a record has to pass; torch.any sees the spans read before it.
Readable(row, rec) ==
    /\ InBounds(rec, Length) /\ Trained(rec, row_of[row].mask)
    /\ Span(rec) \cap occupied[row] = {} /\ rec.finite

\* Mutant: steps are compared over all prompts.
KeyByOrdinal(row, ordinal) == <<"any", ordinal>>
Key(row, ordinal) == <<index[row], ordinal>>
StepOf(row, ordinal) ==
    LET rec == RecsAt(row)[ordinal]
    IN [key |-> Key(row, ordinal), row |-> row, reward |-> rec.reward,
        start |-> rec.start, end |-> rec.end]

ReadRecord ==
    /\ AtRecord /\ Readable(scan[1], Current)
    /\ occupied' = [occupied EXCEPT ![scan[1]] = @ \cup Span(Current)]
    /\ grouped' = grouped \cup {StepOf(scan[1], scan[2])}
    /\ scan' = <<scan[1], scan[2] + 1>>
    /\ UNCHANGED <<stage, batchVars, outcome, advantages>>

\* ValueError, which ends training.
RaiseOnRecord ==
    /\ AtRecord /\ ~Readable(scan[1], Current) /\ stage' = "raised"
    /\ UNCHANGED <<batchVars, outcome, scan, occupied, grouped, advantages>>

NextRow ==
    /\ stage = "steps" /\ scan[1] \in Rows /\ scan[2] > Len(RecsAt(scan[1]))
    /\ scan' = <<scan[1] + 1, 1>>
    /\ UNCHANGED <<stage, batchVars, outcome, occupied, grouped, advantages>>

Members(key) == {s \in grouped : s.key = key}
\* A group of one is passed over.
StepCredit(s) ==
    LET group == Members(s.key)
    IN IF Cardinality(group) < 2 THEN 0
       ELSE Scale * s.reward
            - (Scale * SumFunction([m \in group |-> m.reward])) \div Cardinality(group)

StepAdvantage(row, k) ==
    LET covering == {s \in grouped : s.row = row /\ k \in Span(s)}
    IN SumFunction([s \in covering |-> StepCredit(s)])

AddSteps ==
    /\ stage = "steps" /\ scan[1] > Size /\ stage' = "done"
    /\ advantages' = [row \in Rows |-> [k \in Tokens |->
          (outcome[row] + StepAdvantage(row, k)) * row_of[row].mask[k]]]
    /\ UNCHANGED <<batchVars, outcome, scan, occupied, grouped>>

-------------------------------------------------------------------------------
Next ==
    \/ Postprocess \/ BalanceBatch \/ OutcomeAdvantage
    \/ ReadRecord \/ RaiseOnRecord \/ NextRow \/ AddSteps

Spec == Init /\ [][Next]_grpoVars

-------------------------------------------------------------------------------
(* Properties *)

\* The records read so far are those the agent loop promises (Accepted), and
\* training stops at the first that is not.
ReadRecs(row) ==
    IF row < scan[1] THEN RecsAt(row)
    ELSE IF row = scan[1] THEN SubSeq(RecsAt(row), 1, scan[2] - 1) ELSE <<>>
AllFinite(recs) == \A k \in DOMAIN recs : recs[k].finite
Sound(row, recs) == Accepted(recs, row_of[row].mask, Length) /\ AllFinite(recs)
\* "Add group-relative step credit only to matching assistant tool spans": the
\* one pass over the records with the marked tokens raises for every row whose
\* spans leave the response, cover what the policy did not write, or overlap in
\* pairs, and for no other row.
RefusedIffUnsound ==
    /\ \A row \in Rows : Sound(row, ReadRecs(row))
    /\ stage = "raised" =>
          ~Sound(scan[1], SubSeq(RecsAt(scan[1]), 1, scan[2]))

-------------------------------------------------------------------------------
(* The advantage of a trajectory, defined without rows or a pass over them *)

\* Where trajectory p, in the order of the prompts, is after balancing.
PlaceAfter(p) == CHOOSE row \in Rows : order[row] = p
Uid(p) == asked[p].uid
Trajectory(p) == asked[p].trajectory
Siblings(p) == {q \in Rows : Uid(q) = Uid(p)}
Reached(p, n) == {q \in Siblings(p) : Len(Trajectory(q).recs) >= n}
\* A value of p against the mean of a group's.
RelativeTo(values, p) ==
    Scale * values[p] - (Scale * SumFunction(values)) \div Cardinality(DOMAIN values)

ExpectedOutcome(p) ==
    IF Siblings(p) = {p} THEN Scale * Trajectory(p).score
    ELSE RelativeTo([q \in Siblings(p) |-> Trajectory(q).score], p)
ExpectedStep(p, n) ==
    IF Reached(p, n) = {p} THEN 0
    ELSE RelativeTo([q \in Reached(p, n) |-> Trajectory(q).recs[n].reward], p)
StepsAt(p, k) == {n \in DOMAIN Trajectory(p).recs : k \in Span(Trajectory(p).recs[n])}
Expected(p, k) ==
    IF Trajectory(p).mask[k] = 0 THEN 0
    ELSE ExpectedOutcome(p) + SumFunction([n \in StepsAt(p, k) |-> ExpectedStep(p, n)])

\* "This usually changes the order of data in the batch, which won't affect the
\* advantage calculation (since it's based on uid)": every token has the
\* advantage that its trajectory, its prompt's other trajectories and their
\* steps of the same ordinal give it, wherever balancing puts its row, also
\* when its score was placed in the padding of an empty response.
AdvantageOfTrajectory ==
    stage = "done" => \A p \in Rows : \A k \in Tokens :
        advantages[PlaceAfter(p)][k] = Expected(p, k)

===============================================================================
