------------------------------- MODULE PolicyEval ------------------------------
(***************************************************************************)
(* run_eval: every (task, sample) pair is a job of a thread pool; the main *)
(* thread takes results as they complete and turns them into a report,     *)
(* which summarize_evaluation checks before a run counts.                  *)
(***************************************************************************)
EXTENDS PassK, SequencesExt

CONSTANTS
    TaskIds,       \* task_ids, in the order of the configuration
    Samples,       \* num_samples_per_task
    Workers,       \* num_workers
    Ks,            \* the k of the pass^k that are reported: 1, 4 and 8
    PolicyBase,    \* policy_seed_base
    UserBase       \* user_seed_base

\* What run_eval and ThreadPoolExecutor raise a ValueError for is excluded.
ASSUME EvalAssumptions ==
    /\ TaskIds \in Seq(Nat) /\ TaskIds # <<>> /\ IsInjective(TaskIds)
    /\ Samples \in Nat \ {0} /\ Workers \in Nat \ {0}
    /\ PolicyBase \in Nat /\ UserBase \in Nat
    /\ Ks \subseteq Nat \ {0} /\ 1 \in Ks

VARIABLES
    waiting,       \* jobs submitted to the pool that no worker has taken; a worker
                   \* takes any of them here, the oldest in ThreadPoolExecutor
    running,       \* jobs a worker is at
    future,        \* job -> its outcome, for the jobs that ended
    results,       \* task -> the trajectories, in the order they were taken
    phase,         \* of the main thread
    report         \* eval_report.json: a sequence of rows; <<>> if not written

evalVars == <<waiting, running, future, results, phase, report>>

Tasks == Range(TaskIds)
Jobs == Tasks \X (0..(Samples - 1))
Outcomes == {"success", "failure", "raised"}
Returned == phase \in {"reported", "raised"}

\* The seed rule of the configuration, "base + task_id * 1000 + sample_id".
SeedFor(base, t, s) == base + t * 1000 + s

Trajectories == [sample : 0..(Samples - 1), user_seed : Nat, success : BOOLEAN]

EvalTypeOK ==
    /\ waiting \cup running \cup DOMAIN future = Jobs
    /\ waiting \cap running = {} /\ (waiting \cup running) \cap DOMAIN future = {}
    /\ future \in [DOMAIN future -> Outcomes]
    /\ Cardinality(running) <= Workers
    /\ results \in [Tasks -> Seq(Trajectories)]
    /\ phase \in {"collecting", "unwinding", "reported", "raised"}

Init ==
    /\ waiting = Jobs /\ running = {} /\ future = [job \in {} |-> "raised"]
    /\ results = [t \in Tasks |-> <<>>]
    /\ phase = "collecting" /\ report = <<>>

-------------------------------------------------------------------------------
(* The workers *)

TakeJob(job) ==
    /\ job \in waiting /\ Cardinality(running) < Workers
    /\ running' = running \cup {job}
    /\ waiting' = waiting \ {job}
    /\ UNCHANGED <<future, results, phase, report>>

\* run_single_task returns, with an error or without; building the policy or
\* the environment is outside its try and raises.
EndJob(job) ==
    /\ job \in running
    /\ \E o \in Outcomes :
         future' = [j \in DOMAIN future \cup {job} |-> IF j = job THEN o ELSE future[j]]
    /\ running' = running \ {job}
    /\ UNCHANGED <<waiting, results, phase, report>>

-------------------------------------------------------------------------------
(* The main thread *)

Taken(t) == {results[t][k].sample : k \in DOMAIN results[t]}
Untaken == {job \in DOMAIN future : job[2] \notin Taken(job[1])}
\* Mutant: a result is taken for the sample whose turn it would be.
TrajectoryByTurn(t, s) ==
    [sample |-> Len(results[t]), user_seed |-> SeedFor(UserBase, t, Len(results[t])),
     success |-> future[<<t, s>>] = "success"]
TrajectoryOf(t, s) ==
    [sample |-> s, user_seed |-> SeedFor(UserBase, t, s), success |-> future[<<t, s>>] = "success"]

\* Mutant: a job that raised is taken for one that failed.
CollectAny(t, s) ==
    /\ phase = "collecting" /\ <<t, s>> \in Untaken
    /\ results' = [results EXCEPT ![t] = Append(@, TrajectoryOf(t, s))]
    /\ UNCHANGED <<waiting, running, future, phase, report>>
\* One turn of the loop over as_completed: fut.result() raises what the job
\* raised, which leaves the loop for the end of the with block.
Collect(t, s) ==
    /\ phase = "collecting" /\ <<t, s>> \in Untaken
    /\ IF future[<<t, s>>] = "raised"
       THEN phase' = "unwinding" /\ UNCHANGED results
       ELSE /\ results' = [results EXCEPT ![t] = Append(@, TrajectoryOf(t, s))]
            /\ UNCHANGED phase
    /\ UNCHANGED <<waiting, running, future, report>>

\* Mutants: the pool is not waited for; the results are waited for that nobody
\* takes any more.
PoolIdleAlways == TRUE
PoolIdleTaken == waiting = {} /\ running = {} /\ Untaken = {}
\* shutdown(wait=True): the pool runs what was submitted to its end.
PoolIdle == waiting = {} /\ running = {}

Unwind ==
    /\ phase = "unwinding" /\ PoolIdle
    /\ phase' = "raised"
    /\ UNCHANGED <<waiting, running, future, results, report>>

\* sorted() by sample id.
SortedBySample(trajs) ==
    LET order == CHOOSE p \in Bijection(DOMAIN trajs, DOMAIN trajs) :
          \A i, j \in DOMAIN trajs : i < j => trajs[p[i]].sample <= trajs[p[j]].sample
    IN [k \in DOMAIN trajs |-> trajs[order[k]]]

\* What is written of a trajectory of task t.
Written(t, tr) ==
    [sample |-> tr.sample, user_seed |-> tr.user_seed, success |-> tr.success,
     policy_seed |-> SeedFor(PolicyBase, t, tr.sample)]

\* pass^1, and every other k that as many trajectories were sampled for.
PassKs(n, c) == [k \in {k \in Ks : k <= n} |-> PassAtK(n, c, k)]
RowOf(t, trajs) ==
    LET c == Cardinality({k \in DOMAIN trajs : trajs[k].success})
    IN [task_id |-> t, success_count |-> c, pass_hat |-> PassKs(Len(trajs), c),
        trajectories |-> [k \in DOMAIN trajs |-> Written(t, trajs[k])]]
\* Mutant: the trajectories stay in the order they were taken in.
RowUnsorted(t) == RowOf(t, results[t])
\* The row of one task.
Row(t) == RowOf(t, SortedBySample(results[t]))

Report ==
    /\ phase = "collecting"
    /\ \A t \in Tasks : Len(results[t]) = Samples
    /\ report' = [k \in DOMAIN TaskIds |-> Row(TaskIds[k])]
    /\ phase' = "reported"
    /\ UNCHANGED <<waiting, running, future, results>>

Next ==
    \/ \E job \in Jobs : TakeJob(job) \/ EndJob(job) \/ Collect(job[1], job[2])
    \/ Unwind \/ Report

Spec == Init /\ [][Next]_evalVars

\* A worker is a thread of its own that does not wait for others, and every
\* trajectory ends (Returns of EvalWrapper).
Fairness ==
    /\ WF_evalVars(\E job \in Jobs : TakeJob(job))
    /\ \A job \in Jobs : WF_evalVars(EndJob(job)) /\ WF_evalVars(Collect(job[1], job[2]))
    /\ WF_evalVars(Unwind) /\ WF_evalVars(Report)

FairSpec == Spec /\ Fairness

-------------------------------------------------------------------------------
(* summarize_evaluation: what the gate asks of a report *)

AddFractions(x, y) == <<x[1] * y[2] + y[1] * x[2], x[2] * y[2]>>
SumFractions(f) == FoldSeq(AddFractions, <<0, 1>>, f)

RowPasses(row) ==
    /\ Len(row.trajectories) = Samples
    /\ \A k \in 1..Samples : LET tr == row.trajectories[k] IN
         /\ tr.sample = k - 1
         /\ tr.policy_seed = SeedFor(PolicyBase, row.task_id, k - 1)
         /\ tr.user_seed = SeedFor(UserBase, row.task_id, k - 1)

SuccessRate(row) ==
    <<Cardinality({k \in DOMAIN row.trajectories : row.trajectories[k].success}),
      Len(row.trajectories)>>

Gate(rows) ==
    /\ [k \in DOMAIN rows |-> rows[k].task_id] = TaskIds
    /\ \A k \in DOMAIN rows : RowPasses(rows[k])
    /\ SameFraction(SumFractions([k \in DOMAIN rows |-> rows[k].pass_hat[1]]),
                    SumFractions([k \in DOMAIN rows |-> SuccessRate(rows[k])]))

-------------------------------------------------------------------------------
(* Properties *)

\* Whatever order the jobs end in, the report that run_eval writes is one that
\* summarize_evaluation accepts, seeds, order and pass^1 included.
ReportPassesGate == report # <<>> => Gate(report)

\* The report says of each job what the job did: no result is attributed to
\* another sample or task, lost or counted twice.
ReportIsTheOutcomes == report # <<>> =>
    \A k \in DOMAIN TaskIds, s \in 0..(Samples - 1) :
        /\ <<TaskIds[k], s>> \in DOMAIN future
        /\ report[k].trajectories[s + 1].success <=> future[<<TaskIds[k], s>>] = "success"

Attempted(row) == DOMAIN row.trajectories
Successes(row) == {s \in Attempted(row) : row.trajectories[s].success}
ShareOfAttempts(row, k, attempts) ==
    <<Cardinality(attempts), Cardinality(kSubset(k, Attempted(row)))>>

\* Every pass^k of the report is an unbiased estimate, as the comment on the
\* formula has it: the share of k attempts at the task that include a success.
PassAtKUnbiased == \A i \in DOMAIN report : \A k \in DOMAIN report[i].pass_hat :
    LET row == report[i] IN
    SameFraction(row.pass_hat[k],
        ShareOfAttempts(row, k, {a \in kSubset(k, Attempted(row)) : a \cap Successes(row) # {}}))

\* pass^4 is "the chance that k attempts in a row all succeed", says the comment
\* above the formula, and the field of the report it is stored in.
PassHatIsStability == \A i \in DOMAIN report : 4 \in DOMAIN report[i].pass_hat =>
    LET row == report[i] IN
    SameFraction(row.pass_hat[4], ShareOfAttempts(row, 4, kSubset(4, Successes(row))))

\* A job that raises costs the evaluation its report, so a report has no holes,
\* and only such a job does.
AllOrNothing == Returned =>
    (phase = "reported" <=> \A job \in Jobs : job \in DOMAIN future /\ future[job] # "raised")

\* When run_eval returns or raises no worker is still at a trajectory: the
\* caller may reuse or shut down the model server.
NoJobOutlives == Returned => running = {} /\ DOMAIN future = Jobs

\* run_eval ends, with a report or with the exception of a job.
Ends == <>Returned

===============================================================================
