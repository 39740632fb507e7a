# Verification of the retail agent project

The repository trains a customer-service agent on the retail domain of
tau-bench with GRPO and variants of it, and evaluates it. This directory holds
TLA+ models of the parts whose correctness does not show in a unit test, the TLC
configurations that check them, and TLAPS proofs about them.

Paths below are relative to `src/`; `A/` stands for `agentic-grpo-longhorizon/`,
`T/` for `tau-bench/tau_bench/envs/`, `V/` for `verl/verl/`.

## Inventory

| part | source | state it keeps | operations | status |
|---|---|---|---|---|
| retail database and write tools | `T/retail/tools/*.py` | orders (status, items, payment history, address, requests), gift card balances, addresses | the seven tools that write | modelled: `RetailStore` |
| environment | `T/base.py` | `data`, `actions`, the task | `reset`, `step`, `calculate_reward` | modelled: `RetailTask`, `TauEnv` |
| agent loop of a rollout | `V/experimental/agent_loop/tool_agent_loop.py`, `tool_step_spans.py` | tokens, loss mask, log-probs, turns, step records | the handlers of its state machine | modelled: `ToolAgentLoop`, `StepSpans` |
| tools, interaction and credit of a rollout | `A/src/envs/tau_bench_tools.py`, `tau_bench_interaction.py`, `tau_bench_context.py` | the trajectory's state dictionary | `execute`, `start_interaction`, `generate_response`, `calculate_score` | modelled: `Rollout` |
| evaluation of one trajectory | `A/src/envs/tau_bench_wrapper.py` | messages, counters of the audit | `run_single_task` | modelled: `EvalWrapper` |
| step credit | `A/src/envs/retail_cs_grpo.py` | snapshots of progress; evidence (who is authenticated, what was read, successful writes) | `snapshot`, `compute_step_credit`, `check_retail_constraints`, `observe_retail_tool_result` | modelled: `Rollout` (progress), `RetailCredit` (rules and evidence) |
| GRPO advantages | `V/trainer/ppo/core_algos.py`, `ray_trainer.py`, `agent_loop.py` | the rows of a batch, marked tokens, grouped steps | `_postprocess`, `_balance_batch`, `compute_grpo_outcome_advantage`, `compute_grpo_cs_advantage` | modelled: `GrpoCs`, `StepSpans` |
| evaluation and report | `A/src/evaluation/pass_k_eval.py`, `A/scripts/eval/summarize_retail_confirmatory.py` | futures, results per task, the report | a thread pool of jobs, the pass^k estimate, the report and its gate | partly: `PolicyEval`, `PassK` |
| collection of SFT data | `A/scripts/train/sft/collect_sft_data.py` | three files per task, the split, two merged files | collect, resume, split, merge | partly: `CollectSft` (not the validator) |
| agent loop workers and servers | `V/experimental/agent_loop/agent_loop.py` | requests per server, sticky sessions, sleeping servers | choose a server, run a batch, put its parts together | partly: `RolloutBatch` |
| orchestration | `A/scripts/eval/*.sh`, `A/scripts/train/grpo/*.sh` | run directories and completion markers, servers, port and GPU | serve, evaluate, gate, mark | partly: `EvalOrchestration` (evaluation, not training) |
| SFT dataset and trainer, policy client, data preparation, rest of verl, airline archive | see `PROJECT.json` | | | not modelled |

How they interact. In training, one asyncio task per trajectory runs the agent
loop. The interaction (the customer) and the tools (the database) are called by
its handlers, and share one environment and one state dictionary through context
variables. A manager splits a batch of trajectories over workers, wakes and sleeps
the servers, and puts the rows together in the order of the prompts; the trainer
reorders them and hands masks and step records to the advantage estimator. In
evaluation, `run_single_task` is the driver, in a thread of a pool with an
environment of its own. Both drivers step the same `Env`. `run_eval` turns the
trajectories into a report, shell scripts start one model server after the other
for it, and the collection of SFT data runs the same driver and leaves files that
it resumes from.

What is hard. The environment does not remember that it is done, and judging an
episode replaces its data by the ground truth: what a driver does after `done`
decides whether the verdict means anything. The agent loop keeps four parallel
lists aligned over three handlers, with limits that are looked at in one of them,
and its records are refused by the estimator, which ends the training, if a span is
off by one. Tools of the store rely on the shape of a payment history that other
tools write. Failures of the policy's server, of a call and of the customer's
simulator can come at any point. Results arrive in the order in which trajectories
end, and are identified by position later on. Scripts that are killed leave files
and servers that the next start meets. `PROJECT.json` lists every such hazard at its
line, with the properties that cover it.

What makes each part correct:

* store: no sequence of calls overdraws a card, payments match items, a closed
  order is frozen;
* environment and drivers: a trajectory is judged once, on the agent's own work;
* agent loop: spans, masks and log-probs fit the tokens; limits hold; it ends;
* credit: it adds up to the progress made, and what changes nothing earns nothing;
* rules of the credit: they agree with the checks of the tools on every call;
* audit: its counters fit together, an error is not a success;
* batch: rows stay with their prompts, a turn goes to the server that has its
  prefix, servers stay awake under a trajectory;
* advantages: every token gets what its trajectory, its siblings and their steps
  give it, wherever balancing puts its row; unsound records, and only they, end
  training;
* report: it says of each job what the job did, or is not written;
* collection: resumption trusts only complete files, and only clean successes of
  seen tasks are taught;
* orchestration: results are filed under the weights that produced them.

## The models

### `RetailStore`, refining `OrderLifecycle`

One variable per field of an order, plus gift card balances and user addresses. Each
write tool is an action whose guard is the conjunction of the tool's checks; a call
that is refused changes nothing and is a stuttering step. Money is in whole cents, so
what floating point would add is not modelled (the code rounds the difference of an
exchange, not that of a modification). Prices of items are the catalogue's, as in the
data files, and item lists of a request are stored as counts, since the code sorts
them. `StoreAssumptions` is what the data files satisfy: every order was paid by one
payment that covers its items, and a cancelled one was refunded; there are finitely
many orders. What an order paid and what its items cost are totals of `SumFunction`.
`OrderLifecycle` says that an order is open while it is pending or delivered, that one
call closes it, and that a closed order does not change; the refinement maps
`contents` to items and request and `terms` to history and address.

### `RetailTask` and `TauEnv`

For the drivers a database matters as far as it equals the goal, so it is the set
of write calls whose effect it shows. `Refusals` says which calls answer
`Error: ...` in a database: a write to an order that an earlier write closed, but
also a write the fresh database refuses, a read that finds nothing, and a call
whose tool raises (`Env.step` turns any exception into such a text), that of the
transfer included. `Overwrites` says which effects a write replaces (the last of
two addresses stands). Both are parameters, and the individual calls are in
`RetailStore`. `GoalData` is the
task's actions replayed on a fresh database. `TauEnv` has `Env.step` for tools
(`EnvStep`) and for answers (`EnvRespond`), both with the replacement of the data
by the ground truth (`AfterReward`). `built` and `ended` are history variables:
the database as the agent's own calls made it, and whether the environment has
ever said done. A call of an unknown tool is, for the environment, a read.

### `ToolAgentLoop` and `StepSpans`

The state machine of `run`: `Prepare`, `Generate`, `ProcessTools` and `Interact`
are its four handlers, with all their returns. Tokens are represented by their
origin (prompt, policy or observation), which is all that masks are about. A
generation has at least one token, the one that stops it. `LimitReached` is looked
at after a generation only, a batch is recorded even when its observation does
not fit, and an answer of the customer is appended whatever its length, as in the
code. `StepSpans` has what `build_tool_step_record` demands of a span and what
`compute_grpo_cs_advantage` demands of the records of a trajectory. Images and
videos, which the project does not use, are left out.

### `Rollout`

`ToolAgentLoop` joined with `TauEnv`: each action of the joint model is a handler,
or a part of one, together with what it does to the environment and to the state
dictionary. A batch is run call by call (`Execute`, `CallFails`) and then closed
(`CloseBatch`); the tools of the project never wait, so `asyncio.gather` runs them
in order, and never more than `max_parallel_calls` of them. The customer's answer
is `Respond`, with its failure `RespondFails` and its refusal of template tokens
`Contaminated`. Credit is State-GRPO's: progress in goal leaves, no weight on
constraints, errors and repetitions.

### `RetailCredit`

`RetailStore` with the evidence that `observe_retail_tool_result` and the
interaction collect, and `check_retail_constraints` as the set `Broken(c)` of the
rules that a call breaks. A call is a record; `Write(c)` changes the database as
the tool does, or is refused, and observes the result. The rules were written
independently of the tools, so the properties relate two implementations of the
same policy. Every rule costs 1; the weights of the code are left out.
`Transfer` is the judgement that `transfer_to_human_agents` brings about: the
database is loaded anew and the target actions are replayed in it (`ReplayGoal`,
between which the agent does nothing), while the evidence keeps what was recorded
before and the training loop goes on. `standing`, a history variable, has the
writes recorded since the database was loaded, which are the ones that the
database shows; both properties about the history say what a transfer changes.

### `EvalWrapper`, refining `Episode`

`run_single_task`: a message of the policy is an answer (`Respond`) or a batch of
calls (`AskTools`, then one `RunTool` per call). `Abort` is the break of a detected
loop and the exception handler. The counters of the audit are variables; what
`check_retail_constraints` finds is left open. `Episode` is what a driver
promises: calls and answers until the environment says done, one verdict on the
agent's own work, nothing afterwards. It is mapped with `db <- built` and the
verdict read off the reward. The training loop does not implement it (below).

### `RolloutBatch`

The manager (`Dispatch`, `Collect`, `Fail`), its workers (`End` of an agent loop,
`WorkerReturns`) and the choice of a server (`Generate`, by `Reuse` or `Assign`).
An agent loop is reduced to its generations and its end, which may be an
exception: then `ray.get` raises while the other loops go on, with the servers
awake. The cache is a sequence, the least recently used entry first; the heap is
the set of servers of least load, and `used` is a history variable.
`BatchAssumptions` has a worker's trajectories fit its cache (10000 entries in the
code).

### `GrpoCs`

From the trajectories of a batch to the advantages of their tokens, in the order
of the code: `Postprocess` places scores (that of an empty response in the last
column), `BalanceBatch` applies any permutation, `OutcomeAdvantage` subtracts the
mean of the group, and the scan of the records (`ReadRecord`, `RaiseOnRecord`,
`NextRow`) marks the tokens it has seen, as `occupied` does in the code, before
`AddSteps` adds what each step earned relative to the steps of the same ordinal.
Rewards are integers and advantages are scaled to stay so; the division by a
standard deviation is left out. `Expected` defines the same advantage from what
the manager returned, without rows or a scan.

### `PolicyEval` and `PassK`

`run_eval`: workers of a thread pool (`TakeJob`, `EndJob`), the main thread that
takes results as they complete (`Collect`), an exception that leaves the loop and
then waits for the pool (`Unwind`), and the report: a row per task (`RowOf`), of its
trajectories sorted by sample id (`SortedBySample`). `Gate` is what
`summarize_evaluation` demands of a report. `PassK` has the estimator as a
fraction, `PassAtKUnbiased` its definition over subsets of the trajectories.

### `CollectSft`

The collection, its three files per task, the split and the merge. A row is a
trajectory, whole or torn, with or without its newline. A file that is open may
hold any prefix of what it will hold, the last row torn or without its newline
(`WrittenParts`). The merge copies the files as they are, so what follows a row
without a newline is on the same line as it; `Readable` has the rows that are a
line of their own. The samples of a task are put, as they are drawn, into the list of
its successes or into that of its contaminated ones. `Crash` may come at any step,
after which another start, maybe over another range of tasks and with another
`holdout_size`, finds the files as
they are. No range names a task twice (`CollectAssumptions`).

### `EvalOrchestration`

`run_retail_confirmatory_eval.sh`, invoked by a matrix that waits for port and GPU
or by hand, and the life of the vLLM server each invocation starts. A server
loads, listens, and lets port and memory go some time after it was killed; every
server answers under the same name. Faults are SIGKILL of a script, SIGTERM (the
trap kills the server and returns, so the script goes on), a server that dies, an
evaluation that raises. What a script needs beside port, memory and directory (the
simulator of the customer, the commands between `mkdir` and the trap) may fail at
any time. A `curl` that never returns is left out: it has no `--max-time`, so a
server that accepts a connection and does not answer hangs the script. Invocations come one after the other
(`OrchestrationAssumptions`); what two at a time would do is said below.

Operators marked as mutants are not part of the models: each is a bug a property
must catch, listed in `PROJECT.json`.

## Runs

| run | checks | bounds and why they are enough |
|---|---|---|
| `store_ledger` | `NoOverdraft`, `PaidInFull`, `CardsMatchLedgers`, `PendingLedger`, `SwapsExactly`, `LifecycleSpec` | two pending orders of one customer and a delivered one, two gift cards, one of them empty, one order with a duplicate item; lists of up to two items, so that replacements can chain; two addresses |
| `store_cancel` | `CancelRefundsTotal`, violated | see Findings |
| `rollout` | `SpansAccepted`, `OnlyPolicyTrained`, `LogProbsAligned`, `ScoreExact`, `CreditTelescopes`, `Terminates` | a task with an address that is overwritten and a cancellation that closes the order; up to three calls in a message, of which two run; generations of 2 and observations of 1-2 tokens in a response of 8, so that some generations cross its end; no limit on turns, so that only the length ends a trajectory |
| `rollout_score` | `RewardNeedsChanges`, violated | as `rollout`, with one call in a message, the default of verl; see Findings |
| `eval_wrapper` | `AuditConsistent`, `ErrorIsNoSuccess`, `EpisodeSpec`, `Returns` | three turns of two calls; a read, a write and the transfer that fail from the start, beside a write that another one closes the order for; the loop detection remembers 4 calls instead of 20, so that it also forgets |
| `credit_rules` | `ImpossibleIsRefused`, `CleanIsAccepted`, `RepeatIsRefused` | a pending and a delivered order, lists of up to one item, a card that covers the price difference of one of them; every call is tried in every state, also with an unknown order or user; messages with and without an affirmation; the target moves a payment, and after a transfer at most one write is on record (`MaxWrites`), made before it and repeated after it, or made after it; before a transfer any number are |
| `rollout_batch` | `Aligned`, `AwakeWhileRunning`, `Sticky`, `Balanced`, `BatchEnds` | two batches, two workers of two trajectories, two servers, a cache of two: the second batch evicts the entries of the first while its own trajectories come back for a second generation |
| `grpo_advantages` | `RefusedIffUnsound`, `AdvantageOfTrajectory` | three rows over two prompts, every permutation; 13 trajectories with no, one and two steps and every reason to refuse a record |
| `policy_eval` | `ReportPassesGate`, `ReportIsTheOutcomes`, `PassAtKUnbiased`, `AllOrNothing`, `NoJobOutlives`, `Ends` | two tasks out of order, three samples, two workers: jobs wait, end in every order and raise; k is 1, 2 and 3 instead of 1, 4 and 8 |
| `pass_k_stability` | `PassHatIsStability`, violated | one task, four samples, the k of the code; see Findings |
| `collect_sft` | `MetaMatchesFiles`, `OnlyCleanRows`, `ReportAddsUp`, `CollectionEnds` | two tasks, one sample each; two starts over three lists of tasks, each killed anywhere, which hold the first task out or merge both into one file, so that a torn file that the first start leaves runs on into the one after it |
| `eval_orchestration` | `CompletedIsGenuine`, `NeverRefusedByPredecessor`, `NoServerLeft`, `InvocationsEnd` | a matrix of two candidates and a retry by hand; two of each fault |

Deadlock is not checked where the program returns: the agent loop, the wrapper,
the evaluation, the last batch, the last start. A model of them that stopped
anywhere else would fail its liveness property.

Fairness. `rollout` and `eval_wrapper` have weak fairness of the whole next-state
relation: both drivers are sequential code that goes on as long as the servers of
the policy and of the customer answer or their clients raise; a server that never
answers hangs them, for neither has a timeout of its own. `policy_eval`,
`collect_sft` and `rollout_batch` have weak fairness of each thread, actor or
asyncio task, which do not wait for one another except where the model says so;
that a trajectory ends is what `Returns` and `Terminates` show. In
`eval_orchestration` the scripts are fair and the servers are not: a server need
never come up, since the script counts its tries. No fairness is assumed of a
crash, of a fault, or of a person who starts a script.

## Findings

* `store_cancel`. `modify_pending_order_payment` leaves a payment history of
  payment, payment and refund; `cancel_pending_order` refunds every entry of it.
  The customer gets three times the price for two payments. The policy says that
  the total is refunded via the original payment method (`T/retail/wiki.md:39`).
* `rollout_score`. `transfer_to_human_agents` ends an episode and has it judged,
  which leaves the ground truth in `Env.data` (`T/base.py:139`). The training loop
  does not look at `done` and goes on. In TLC's trace the only call of the
  trajectory is a transfer, which is judged with reward 0; the policy then gives an
  answer with the output in it, the customer says STOP, and this second judgement
  compares the ground truth with itself: reward 1 for work never done. The comment
  in `base.py:137` says that incorrect database changes give reward 0.
  `tau_bench_tools.py:106` expects that stepping a done environment raises. The run
  has one call per message, verl's default; with several, a second transfer in the
  message of the first is rewarded in the same way.
  `ScoreExact` shows that trajectories without a transfer are scored correctly,
  and `EpisodeSpec` that the evaluation is not affected.
* `pass_k_stability`. The formula is that of pass@k, the chance that one of k
  attempts succeeds, and `PassAtKUnbiased` shows it to be exactly that. The comments
  at `A/src/evaluation/pass_k_eval.py:58` and `:135` and the names `pass_hat_4` and
  `pass_hat_8` speak of the chance that all k succeed. One success in four makes
  `pass_hat_4` equal to 1.

Also seen while modelling, and not run:

* For the same reason as in `rollout_score` the progress measured after a transfer
  is complete, so a call that writes nothing earns all the progress still missing,
  where `test_retail_cs_grpo.py:48` says that a no-op leaves progress unchanged.
  `CreditTelescopes` still holds, for it compares with `Env.data`.
* After a transfer the evidence speaks of a database that is gone. A second write of
  a one-shot tool is accepted, and charged as repeated, if the ground truth has the
  order open; a change of payment that breaks no rule is refused if the target has
  moved that payment already. `RepeatIsRefused` and `CleanIsAccepted` allow exactly
  that.
* A task that fails in a restarted collection may have left a torn file by the start
  before. It is merged as it is, without a newline at its end, so the first row of
  the next task is on the same line: neither can be parsed, a success is missing
  from `train.jsonl`, and `n_train_trajectories` counts two rows. `ReportAddsUp`
  allows that case and no other. A file that ends within a character makes the
  merge raise, which the model has as a crash.
* The trap of `run_retail_confirmatory_eval.sh:82` returns on SIGTERM, so the script
  goes on without a server. The gate counts system errors but refuses none
  (`check_retail_confirmatory_eval.py`), and `COMPLETED` is written for an
  evaluation that nobody answered. `CompletedIsGenuine` allows that: it asks only
  that no other weights answered.
* `CompletedIsGenuine` leaves out SIGKILL, and the model has no two invocations at
  once: in both cases a server that is still starting passes the checks of port and
  memory, comes up later and answers for another candidate. The directory is
  checked long before it is made, too. The matrix for the 7B user does not wait
  for port and GPU, so its second candidate may be refused.
* A crash between `split.json` and `train.jsonl`, in a start with another
  `--task-range`, leaves training data with tasks that the new split calls unseen,
  until a later start finishes. A task whose rows are on the disk is sampled again
  if its meta file is not, where `collect_sft_data.py:11` says it is skipped when its
  jsonl exists; that is the safe choice, as `MetaMatchesFiles` shows.
* After a second successful `find_user` the constraint rules judge by the second
  user alone, so writes for two users break no rule in one conversation, which
  `T/retail/wiki.md:9` forbids.

## Proofs

All theorems hold for every value of the constants that satisfies the named
assumptions of the modules; TLC evaluates those on every run. Every safety
invariant that a passing run checks, and both refinements, are proved.

`FoldLemmas` has what the others need of the operators of the community modules:

* Induction over the natural numbers and over the parts of a finite set, stated for
  a set of numbers or of parts instead of a predicate (`Induction`,
  `SubsetInduction`), from the well-foundedness of `<`.
* `SumFunctionOnSet` picks its elements in an unspecified order. `SumTake` says that
  any element may be taken first; from it follow sums of unions, of changes, of
  renamings, of differences, and `Total(w, s)`, the weight of a sequence. The same
  for `ProductSet` (`ProductTake`).
* `FoldRuns`: what a fold that takes a sequence from left to right makes of every
  prefix, for steps that stay within a set.
* `Ways(k, S)`, the number of subsets of size k: `AlwaysWaysGrow` and `WaysWithout`
  relate those of sets that differ by an element.

`RetailProofs` (from `StoreAssumptions`, and `CreditAssumption` for the rules):

* `RecordsTypes`, `NeverOverdrawn`, `PendingPaidOnce`. The inductive invariant is
  `LedgerInv`, the conjunction of `RecordsOK`, `NoOverdraft` and `PendingLedger`. The
  three need one another: cancelling is safe because the amounts of a pending
  order's history are naturals, changing the payment because that history has one
  entry.
* `AlwaysPaidInFull`, `CardsBalance` and `SwapsAreExact`, by `MoneyInv`, which adds the
  types of the item lists. Payments, prices and counts of an item are all totals
  along a sequence. `Replace` is a fold; each of its steps changes the total by what
  the new item weighs more than the old one (`SwapStep`), provided the old one is
  found. It is, because a call names an item no more often than the order has it,
  and what the steps before replaced is subtracted. The refunds of a cancellation
  are the opposite of the credits, entry by entry; and one changed history changes
  `NetOnCard` by its own difference.
* `ImplementsLifecycle`: each tool is a step of `OrderLifecycle` on the mapped
  state.
* `RepeatsAreRefused`: with `LedgerInv`, by `WritesLeaveMarks`: every write of a
  one-shot tool recorded since the database was loaded has left its mark on the
  order, and no tool removes it. A transfer empties both sides; `HistoryOK` says
  that without one these are all the writes on record, and that nothing but the
  target is replayed. The target's own actions only add marks.
* `ImpossibleAreRefused` and `CleanAlwaysAccepted`, by cases on the tool: each
  condition of the rules is, or is not, one of the tool's checks; that a payment
  without a recorded change is a single one holds until a transfer, by the same
  invariant. The lookup of
  old items and of their prices is where the two implementations differ most.

`RolloutProofs` (from `LoopAssumptions`). What is said of the loop is proved of
`ToolAgentLoop` and of `Rollout` at once: each step of either is one of the handlers
of `HandlerSpec`, in which what a batch earned is left open.

* `LoopTypes`: `TypeOK` is inductive.
* `SpansNeverRefused`, by `SpanInv`: every record, and the pending span, lies
  within the mask, over ones, and each starts after the one before has ended;
  `response_length` bounds all of them because a generation that reaches it is
  never parsed.
* `TurnsAreLimited`, by `TurnInv`: the two counters of turns differ by at most
  one, according to the state, so that one check bounds both.
* `OnlyPolicyIsTrained`, by `AlignInv`: the last `Len(responseMask)` ids carry
  exactly the marks of the mask, and what is before them is the prompt. The slices
  of `run` then cut where the prompt ends.
* `LogProbsStayAligned`, by `LogInv`: a handler that appends an observation always
  has a generation before it, so there are log-probs to extend if there ever are.
* `ScoredExactly`, by `ScoreInv`: without a transfer only the customer's STOP has
  the work judged, and it ends the trajectory. It is the invariant of the wrapper
  with the exception that the finding `rollout_score` needs.
* `CreditAddsUp`, by `CreditInv`: outside a batch nothing is earned that no record
  holds, so closing a batch moves the credit into the sum of the records.

`EvalWrapperProofs`:

* `ErrorsAreFailures` and `ImplementsEpisode`, by `WInv`: as long as the loop goes
  on nobody has judged the work, so `data = built` and the reward is 0; and a step
  with `done` leaves the loop. Each action then is one `Call` or `Answer` of
  `Episode`, or a stutter.
* `AuditAddsUp`: `AuditConsistent` is inductive with the types of the counters, for
  any calls that fail, reads and transfers included, which the audit does not all
  count as risks.

`EvaluationProofs` (from `EvalAssumptions` and `OrchestrationAssumptions`):

* `PoolTypes`, `NothingOutlives` and `ReportedIffComplete`, by `EvalInv`: jobs are
  partitioned into waiting, running and ended ones, and the results of a task are
  of pairwise different samples of jobs that ended, so that as many results as
  samples are all of them.
* `ReportedAsItWas` and `GateAccepts`, by `ReportInv`: what was taken is what the jobs
  did, and a report is made of all of it. `SortedIs`: trajectories with all the
  samples below n are sorted in one way only, the one that the positions of the
  report and the gate presuppose, since numbers below n that only grow are all of
  them. pass^1 and the rate of successes are different fractions of the same value,
  and so are their sums.
* `AlwaysUnbiased`: the product of `pass_at_k` starts at the number of failures plus
  one. Adding the successes to the failures one at a time multiplies the number of
  sets of k attempts by exactly the inverse of each of its factors (`WaysDrawn`), so
  that it is the share of the sets without a success. This holds for every number
  of samples and successes, where the run has three samples.
* `SeedsDiffer`: the seed rule is injective for up to a thousand samples.
* `ServersGone`, `ReportsGenuine` and `NotRefused`, by `ScriptsInv`: a script has a
  server only while it serves, or left one when it was killed; the scripts before
  one that was started have ended; and one that found the port free has it for
  itself until it has ended, because nobody else starts a server meanwhile. Without
  SIGKILL, then, who answers is its own server; and a candidate of the matrix
  starts with port and GPU free, which they stay until it serves.

`RolloutBatchProofs` (from `BatchAssumptions`):

* `AlwaysBalanced`: giving a request to a least loaded server keeps any two loads
  within one of each other.
* `AlwaysAligned`: by the arithmetic of `chunk()` and `concat()`, for any number of
  workers and rows.
* `AwakeAtWork`: a batch collects its parts only when every loop has ended.
* `AlwaysSticky`, by `StickyInv`: a cache lists its requests by batch, the older
  first, each once. An entry of this batch goes only if the cache is full of
  requests of this batch, of which a worker has no more than fit.

`GrpoCsProofs` (from `GrpoAssumptions`):

* `RefusedExactlyIfUnsound`, by `ScanInv`: the marked tokens of a row are exactly
  those of the spans read, so that a new span meets them if and only if it is not
  disjoint from one of these. The one pass of the code therefore decides the
  pairwise definition `Accepted`.
* `PromisedNeverRaises`: if the trajectories are as `SpansNeverRefused` has those of
  the agent loop, no batch ends training. The two theorems together are the
  composition of the agent loop with the estimator.
* `AdvantagesFollow`, by `AdvantageInv`: the rows are the trajectories in another
  order, the outcome of a row is its score against its peers, and `grouped` holds
  exactly the steps read. Balancing is a bijection of rows, and one of the members
  of each group of scores or of steps, so the sums are those of the trajectories
  (`SumRenamed`, `SizeRenamed`).

`CollectSftProofs` (from `CollectAssumptions`):

* `MetaTrusted`, `CleanlyTaught` and `Reconciled`, by `CollectInv`: for each task, what
  its files hold according to the stage its worker is in, and that a meta file
  that can be read was written after the other two were closed; for the main
  thread, that no worker is at work after the collection, and what it has split
  and merged. `Reconciled` adds that the files of tasks that did not fail are whole
  (`WholeFiles`), so that a row is joined to another one by the file of a failed
  task only (`ReadableRows`). A crash leaves every file a prefix, which is why the order in which
  the three are written matters: a complete meta file vouches for the others.

Only model-checked: liveness, which is out of the prover's reach, in every run that
has it; and that the three findings violate what the documents say.

## Plan

What would come next, in this order:

1. Proofs: that a trajectory which the estimator accepts is one the agent loop can
   return, with the two modules composed; the measure by which a rollout ends, as a
   quantity that every step of it lowers.
2. Two invocations at once and SIGKILL in `EvalOrchestration`, once the scripts
   decide whether they are to be safe under them; the gate's treatment of errors.
3. Truncation of messages in the policy client, as the source of the flag that
   `EvalWrapper` and `CollectSft` take as an input.
4. `run_retail_confirmatory.sh`, which claims a directory as the evaluation does.

## Not modelled, and why

* Validation of the SFT data and the inspection tool: pure passes over the merged
  file. Bootstrap intervals and averages of a report: statistics on floats.
* The training scripts: one process after a directory is claimed.
* SFT dataset: its loss mask compares two renderings of a chat template, which is
  a matter of text. SFT trainer, LoRA merge, conversions of checkpoints and
  parquet files: straight-line calls of libraries.
* The policy client: its truncation flag is an input of `EvalWrapper`.
* The numbers of the estimators: floating point.
* The simulated customer: its answers are inputs, any of which may stop the
  conversation.
* The rest of verl and of tau-bench, vendored, and the airline archive.
