------------------------------- MODULE CollectSft ------------------------------
(***************************************************************************)
(* collect_sft_data.py: workers collect the trajectories of the tasks, each *)
(* task leaving three files, and the main thread then splits the tasks and *)
(* merges their files.  The script may be killed at any step and started   *)
(* again over the same directory, also for another range of tasks.         *)
(*                                                                         *)
(* A text is a sequence of rows, each a trajectory of a task: Torn when     *)
(* only the beginning of the row was written, and ended when its newline   *)
(* was.  A file that is open for writing may hold any part of what it will *)
(* hold, and a crash leaves it so.                                         *)
(***************************************************************************)
EXTENDS Integers, FiniteSetsExt, SequencesExt

CONSTANTS
    Tasks,             \* task_idx of the environment
    Ranges,            \* the lists of tasks that --task-range selects
    BestOf,            \* best_of_n
    Workers,           \* num_workers
    HoldoutSizes,      \* what holdout_size is configured to be
    MaxStarts          \* bound on the starts of the script

ASSUME CollectAssumptions ==
    /\ Tasks \subseteq Nat
    \* No task is asked for twice in one start.
    /\ \A ids \in Ranges : ids \in Seq(Tasks) /\ IsInjective(ids)
    /\ BestOf \in Nat \ {0} /\ Workers \in Nat \ {0}
    /\ HoldoutSizes \subseteq Nat /\ MaxStarts \in Nat

VARIABLES
    pc,                \* of the main thread: "down", "collect", "split", "merge", "write"
                       \* or "finished"
    starts,            \* starts of the script so far
    task_ids,          \* the tasks of this start, and how many of them
    holdout_size,      \* are to be held out
    stage,             \* task -> where its worker is: "none", "queued", "attempting",
                       \* "out", "dirty" or "meta" (that file is open), "returned", "failed"
    attempts,          \* task -> how many of its samples were drawn; as long as the
    successes,         \* script runs, the two lists they are sorted into
    contaminated,
    all_meta,          \* task -> meta returned by its worker, or Absent
    out, dirty, meta,  \* files of a task: task_X.jsonl, _contaminated.jsonl, .meta.json
    split,             \* split.json
    train, holdout     \* train.jsonl and holdout_train.jsonl

args == <<task_ids, holdout_size>>
samples == <<attempts, successes, contaminated>>
taskFiles == <<out, dirty, meta>>
merged == <<split, train, holdout>>
collectVars == <<pc, starts, args, stage, samples, all_meta, taskFiles, merged>>

Outcomes == [success : BOOLEAN, contaminated : BOOLEAN]
Absent == [file |-> "absent"]
Torn == [file |-> "torn"]
Metas == [num_successes : 0..BestOf, num_contaminated : 0..BestOf]
IdsOf(ids) == {ids[k] : k \in DOMAIN ids}

\* What the script holds in memory before it starts and when it is killed.
NoSamples ==
    /\ attempts' = [t \in Tasks |-> 0]
    /\ successes' = [t \in Tasks |-> <<>>] /\ contaminated' = [t \in Tasks |-> <<>>]

Init ==
    /\ pc = "down" /\ starts = 0 /\ task_ids = <<>> /\ holdout_size = 0
    /\ stage = [t \in Tasks |-> "none"] /\ attempts = [t \in Tasks |-> 0]
    /\ successes = [t \in Tasks |-> <<>>] /\ contaminated = [t \in Tasks |-> <<>>]
    /\ all_meta = [t \in Tasks |-> Absent] /\ meta = [t \in Tasks |-> Absent]
    /\ out = [t \in Tasks |-> <<>>] /\ dirty = [t \in Tasks |-> <<>>]
    /\ split = Absent /\ train = <<>> /\ holdout = <<>>

-------------------------------------------------------------------------------
(* Files *)

Row(t, traj, ended) == [task |-> t, traj |-> traj, ended |-> ended]

\* What a file that is being written may hold: some rows, and of the next one
\* the beginning or all but its newline.
WrittenParts(rows) ==
    {SubSeq(rows, 1, k) : k \in 0..Len(rows)}
    \cup UNION {{Append(SubSeq(rows, 1, k - 1), Row(rows[k].task, traj, FALSE)) :
                   traj \in {Torn, rows[k].traj}} : k \in 1..Len(rows)}

RowsOf(t, trajs) == [k \in DOMAIN trajs |-> Row(t, trajs[k], TRUE)]

\* The rows of a text that are a line of their own: what follows a row without
\* a newline is on the same line, and no such line parses.
Readable(text) == {k \in DOMAIN text : /\ text[k].traj # Torn
                                       /\ k > 1 => text[k - 1].ended
                                       /\ k < Len(text) => text[k].ended}

-------------------------------------------------------------------------------
(* collect_one_task *)

Active == {t \in Tasks : stage[t] \in {"attempting", "out", "dirty", "meta"}}

\* A worker takes a task up: it is skipped when its meta file exists, and fails
\* when that file cannot be parsed.
Begin(t) ==
    /\ pc = "collect" /\ stage[t] = "queued" /\ Cardinality(Active) < Workers
    /\ \/ meta[t] \in Metas /\ all_meta' = [all_meta EXCEPT ![t] = meta[t]]
          /\ stage' = [stage EXCEPT ![t] = "returned"]
       \/ meta[t] = Torn /\ stage' = [stage EXCEPT ![t] = "failed"] /\ UNCHANGED all_meta
       \/ meta[t] = Absent /\ stage' = [stage EXCEPT ![t] = "attempting"]
          /\ UNCHANGED all_meta
    /\ UNCHANGED <<pc, starts, args, samples, taskFiles, merged>>

\* Mutant: a trajectory that succeeded is a success, contaminated or not.
SortBySuccess(t, traj) ==
    /\ successes' = IF traj.success THEN [successes EXCEPT ![t] = Append(@, traj)] ELSE successes
    /\ contaminated' = IF traj.contaminated /\ ~traj.success
                       THEN [contaminated EXCEPT ![t] = Append(@, traj)] ELSE contaminated
\* A contaminated trajectory is kept apart, whether it succeeded or not.
Sort(t, traj) ==
    /\ successes' = IF traj.success /\ ~traj.contaminated
                    THEN [successes EXCEPT ![t] = Append(@, traj)] ELSE successes
    /\ contaminated' = IF traj.contaminated
                       THEN [contaminated EXCEPT ![t] = Append(@, traj)] ELSE contaminated

\* run_single_task; an exception is recorded as an attempt without success.
Attempt(t) ==
    /\ stage[t] = "attempting" /\ attempts[t] < BestOf
    /\ attempts' = [attempts EXCEPT ![t] = @ + 1]
    /\ \E traj \in Outcomes : Sort(t, traj)
    /\ UNCHANGED <<pc, starts, args, stage, all_meta, taskFiles, merged>>

\* make_policy is outside of the try and fails the task.
PolicyFails(t) ==
    /\ stage[t] = "attempting" /\ attempts[t] < BestOf
    /\ stage' = [stage EXCEPT ![t] = "failed"]
    /\ UNCHANGED <<pc, starts, args, samples, all_meta, taskFiles, merged>>

OpenOut(t) ==
    /\ stage[t] = "attempting" /\ attempts[t] = BestOf
    /\ stage' = [stage EXCEPT ![t] = "out"]
    /\ out' \in {[out EXCEPT ![t] = rows] : rows \in WrittenParts(RowsOf(t, successes[t]))}
    /\ UNCHANGED <<pc, starts, args, samples, all_meta, dirty, meta, merged>>

OpenDirty(t) ==
    /\ stage[t] = "out" /\ stage' = [stage EXCEPT ![t] = "dirty"]
    /\ out' = [out EXCEPT ![t] = RowsOf(t, successes[t])]
    /\ dirty' \in {[dirty EXCEPT ![t] = rows] : rows \in WrittenParts(RowsOf(t, contaminated[t]))}
    /\ UNCHANGED <<pc, starts, args, samples, all_meta, meta, merged>>

MetaOf(t) == [num_successes |-> Len(successes[t]), num_contaminated |-> Len(contaminated[t])]

\* Mutant: the meta file is written before the rows are on the disk.
OpenMetaEarly(t) ==
    /\ stage[t] = "out" /\ stage' = [stage EXCEPT ![t] = "meta"]
    /\ meta' = [meta EXCEPT ![t] = MetaOf(t)]
    /\ UNCHANGED <<pc, starts, args, samples, all_meta, out, dirty, merged>>
OpenMeta(t) ==
    /\ stage[t] = "dirty" /\ stage' = [stage EXCEPT ![t] = "meta"]
    /\ dirty' = [dirty EXCEPT ![t] = RowsOf(t, contaminated[t])]
    /\ meta' = [meta EXCEPT ![t] = Torn]
    /\ UNCHANGED <<pc, starts, args, samples, all_meta, out, merged>>

ReturnMeta(t) ==
    /\ stage[t] = "meta" /\ stage' = [stage EXCEPT ![t] = "returned"]
    /\ meta' = [meta EXCEPT ![t] = MetaOf(t)]
    /\ all_meta' = [all_meta EXCEPT ![t] = MetaOf(t)]
    /\ UNCHANGED <<pc, starts, args, samples, out, dirty, merged>>

-------------------------------------------------------------------------------
(* main *)

Start(ids, size) ==
    /\ pc \in {"down", "finished"} /\ starts < MaxStarts
    /\ pc' = "collect" /\ starts' = starts + 1
    /\ task_ids' = ids /\ holdout_size' = size
    /\ stage' = [t \in Tasks |-> IF t \in IdsOf(ids) THEN "queued" ELSE "none"]
    /\ NoSamples /\ all_meta' = [t \in Tasks |-> Absent]
    /\ UNCHANGED <<taskFiles, merged>>

\* Mutant: a task that failed is waited for.
AllReturned == \A t \in IdsOf(task_ids) : stage[t] = "returned"
AllEnded == \A t \in IdsOf(task_ids) : stage[t] \in {"returned", "failed"}

\* as_completed is exhausted; split.json is opened.
OpenSplit ==
    /\ pc = "collect" /\ AllEnded
    /\ pc' = "split" /\ split' = Torn
    /\ UNCHANGED <<starts, args, stage, samples, all_meta, taskFiles, train, holdout>>

\* One task of every stride; nothing is held out of too few tasks.
HoldoutIds ==
    IF holdout_size > 0 /\ Len(task_ids) > holdout_size
    THEN {task_ids[((k * Len(task_ids)) \div holdout_size) + 1] : k \in 0..(holdout_size - 1)}
    ELSE {}
SeenIds == IdsOf(task_ids) \ HoldoutIds

\* Mutant: every file of the directory is merged.
MergeAll(ids) == FlattenSeq([k \in 1..Cardinality(Tasks) |-> out[SetToSortSeq(Tasks, <)[k]]])
\* The files of the tasks of this start, in its order, copied as they are: a
\* file without a newline at its end runs on into the next one.
Merge(ids) == FlattenSeq([k \in DOMAIN task_ids |->
                            IF task_ids[k] \in ids THEN out[task_ids[k]] ELSE <<>>])

CloseSplit ==
    /\ pc = "split" /\ pc' = "merge"
    /\ split' = [seen |-> SeenIds, unseen |-> HoldoutIds]
    /\ UNCHANGED <<starts, args, stage, samples, all_meta, taskFiles, train, holdout>>

\* Opening the two targets empties them.
OpenMerged ==
    /\ pc = "merge" /\ pc' = "write"
    /\ train' \in WrittenParts(Merge(SeenIds)) /\ holdout' \in WrittenParts(Merge(HoldoutIds))
    /\ UNCHANGED <<starts, args, stage, samples, all_meta, taskFiles, split>>

Finish ==
    /\ pc = "write" /\ pc' = "finished"
    /\ train' = Merge(SeenIds) /\ holdout' = Merge(HoldoutIds)
    /\ UNCHANGED <<starts, args, stage, samples, all_meta, taskFiles, split>>

\* The process is killed, or the main thread raises, as it may on a file that
\* ends within a character: what its threads held is gone.
Crash ==
    /\ pc \in {"collect", "split", "merge", "write"} /\ pc' = "down"
    /\ stage' = [t \in Tasks |-> "none"] /\ NoSamples
    /\ all_meta' = [t \in Tasks |-> Absent]
    /\ UNCHANGED <<starts, args, taskFiles, merged>>

-------------------------------------------------------------------------------
Work(t) ==
    \/ Begin(t) \/ Attempt(t) \/ OpenOut(t) \/ OpenDirty(t) \/ OpenMeta(t) \/ ReturnMeta(t)

Next ==
    \/ \E ids \in Ranges, size \in HoldoutSizes : Start(ids, size)
    \/ \E t \in Tasks : Work(t) \/ PolicyFails(t)
    \/ OpenSplit \/ CloseSplit \/ OpenMerged \/ Finish \/ Crash

Spec == Init /\ [][Next]_collectVars

\* A started script runs on: threads are scheduled and run_single_task returns
\* (Ends of EvalWrapper).  Nobody has to start it, and nothing has to fail.
Fairness ==
    /\ \A t \in Tasks : WF_collectVars(Work(t))
    /\ WF_collectVars(OpenSplit) /\ WF_collectVars(CloseSplit)
    /\ WF_collectVars(OpenMerged) /\ WF_collectVars(Finish)

FairSpec == Spec /\ Fairness

-------------------------------------------------------------------------------
(* Properties *)

\* Resumption trusts a meta file: whenever one can be read, both files of its
\* task hold every row it counts, each on a line, whatever crash happened on
\* the way.
MetaMatchesFiles ==
    \A t \in Tasks : meta[t] \in Metas =>
        /\ Len(out[t]) = meta[t].num_successes
        /\ Len(dirty[t]) = meta[t].num_contaminated
        /\ \A k \in DOMAIN out[t] : out[t][k].traj # Torn /\ out[t][k].ended

\* "contaminated ... never enters train.jsonl": no row of the training data, also
\* of an interrupted merge, comes from a contaminated or failed trajectory.
OnlyCleanRows ==
    \A row \in IdsOf(train) \cup IdsOf(holdout) :
        row.traj # Torn => row.traj.success /\ ~row.traj.contaminated

FailedIds == {t \in IdsOf(task_ids) : stage[t] = "failed"}
Reported == SumFunction([t \in IdsOf(task_ids) \ FailedIds |-> all_meta[t].num_successes])
Unreported == SumFunction([t \in FailedIds |-> Len(out[t])])

\* The row before k ends in the torn file of a task that failed.
RunsOn(text, k) == k > 1 /\ ~text[k - 1].ended /\ text[k - 1].task \in FailedIds

\* Every row of a task that did not fail can be read, but for one that a torn
\* file in front of it runs on into.
ReadableButRunOn(text) ==
    \A k \in DOMAIN text :
        text[k].task \in FailedIds \/ k \in Readable(text) \/ RunsOn(text, k)

\* A script that came to its end leaves training data of seen tasks alone; the
\* rows it says it copied are the successes it reported and rows of tasks that
\* failed in this start; a reported success can be read from the merged files
\* unless such a task stands before it; so none is lost when no task failed.
ReportAddsUp ==
    pc = "finished" =>
        /\ \A row \in IdsOf(train) : row.task \in split.seen
        /\ \A row \in IdsOf(holdout) : row.task \in split.unseen
        /\ Len(train) + Len(holdout) = Reported + Unreported
        /\ ReadableButRunOn(train) /\ ReadableButRunOn(holdout)
        /\ FailedIds = {} =>
             Cardinality(Readable(train)) + Cardinality(Readable(holdout)) = Reported

\* Tasks that fail do not keep the others from being merged.
CollectionEnds == pc = "collect" ~> pc \in {"finished", "down"}

===============================================================================
