---------------------------- MODULE CollectSftProofs ---------------------------
(***************************************************************************)
(* The collection of training data, for any number of tasks, samples,      *)
(* workers and starts, killed anywhere: a meta file that can be read       *)
(* matches the files it speaks of, only clean successes are taught, and a  *)
(* script that came to its end has copied what it reported and what it had *)
(* written of tasks that failed, whose torn files alone spoil other rows.  *)
(***************************************************************************)
EXTENDS CollectSft, FoldLemmas

Stages == {"none", "queued", "attempting", "out", "dirty", "meta", "returned", "failed"}
CleanOutcomes == {traj \in Outcomes : traj.success /\ ~traj.contaminated}
RowsBy(T, S) == [task : T, traj : S, ended : BOOLEAN]
CleanRows(t) == RowsBy({t}, CleanOutcomes \cup {Torn})
TrainingRows == RowsBy(Tasks, CleanOutcomes \cup {Torn})

TaskTypes(t) ==
    /\ stage[t] \in Stages /\ attempts[t] \in 0..BestOf
    /\ successes[t] \in Seq(CleanOutcomes) /\ contaminated[t] \in Seq(Outcomes)
    /\ Len(successes[t]) + Len(contaminated[t]) <= attempts[t]
    /\ out[t] \in Seq(CleanRows(t))
    /\ meta[t] \in Metas \cup {Absent, Torn} /\ all_meta[t] \in Metas \cup {Absent}

Domains ==
    /\ DOMAIN stage = Tasks /\ DOMAIN attempts = Tasks /\ DOMAIN successes = Tasks
    /\ DOMAIN contaminated = Tasks /\ DOMAIN out = Tasks /\ DOMAIN dirty = Tasks
    /\ DOMAIN meta = Tasks /\ DOMAIN all_meta = Tasks

MetaMatches(t) ==
    meta[t] \in Metas =>
        /\ Len(out[t]) = meta[t].num_successes
        /\ Len(dirty[t]) = meta[t].num_contaminated
        /\ \A k \in DOMAIN out[t] : out[t][k].traj # Torn /\ out[t][k].ended

\* What the files of a task hold, by the place of its worker.
FilesOK(t) ==
    /\ stage[t] \in {"attempting", "out", "dirty"} => meta[t] = Absent
    /\ stage[t] \in {"dirty", "meta"} => out[t] = RowsOf(t, successes[t])
    /\ stage[t] = "meta" => dirty[t] = RowsOf(t, contaminated[t]) /\ meta[t] = Torn
    /\ stage[t] = "returned" => all_meta[t] \in Metas /\ all_meta[t] = meta[t]
    /\ MetaMatches(t)

\* Where the main thread is, and what it has written.
MainOK ==
    /\ pc \in {"down", "collect", "split", "merge", "write", "finished"}
    /\ task_ids \in Seq(Tasks) /\ IsInjective(task_ids)
    /\ \A t \in Tasks : t \notin IdsOf(task_ids) => stage[t] = "none"
    /\ pc # "collect" => \A t \in Tasks : stage[t] \in {"none", "returned", "failed"}
    /\ pc \in {"split", "merge", "write", "finished"} => AllEnded
    /\ pc \in {"merge", "write", "finished"} => split = [seen |-> SeenIds, unseen |-> HoldoutIds]
    /\ pc = "finished" => train = Merge(SeenIds) /\ holdout = Merge(HoldoutIds)
    /\ train \in Seq(TrainingRows) /\ holdout \in Seq(TrainingRows)

CollectInv ==
    /\ Domains /\ MainOK
    /\ \A t \in Tasks : TaskTypes(t) /\ FilesOK(t)

-------------------------------------------------------------------------------
(* The operators *)

LEMMA MetaTypes ==
  /\ Torn \notin Metas /\ Absent \notin Metas /\ Torn # Absent /\ Torn \notin Outcomes
  /\ \A a, b \in 0..BestOf :
       LET m == [num_successes |-> a, num_contaminated |-> b]
       IN m \in Metas /\ m.num_successes = a /\ m.num_contaminated = b
  <1>1. Torn # Absent
    BY DEF Torn, Absent
  <1>2. \A m \in Metas : DOMAIN m = {"num_successes", "num_contaminated"}
    BY DEF Metas
  <1>3. DOMAIN Torn = {"file"} /\ DOMAIN Absent = {"file"}
    BY DEF Torn, Absent
  <1>4. \A traj \in Outcomes : DOMAIN traj = {"success", "contaminated"}
    BY DEF Outcomes
  <1>5. Torn \notin Metas /\ Absent \notin Metas /\ Torn \notin Outcomes
    BY <1>2, <1>3, <1>4
  <1> QED BY <1>1, <1>5 DEF Metas

LEMMA RowTypes ==
  ASSUME NEW T, NEW S, NEW t \in T, NEW traj \in S, NEW ended \in BOOLEAN
  PROVE  /\ Row(t, traj, ended) \in RowsBy(T, S) /\ Row(t, traj, ended).task = t
         /\ Row(t, traj, ended).traj = traj /\ Row(t, traj, ended).ended = ended
  BY DEF Row, RowsBy

LEMMA RowsTypes ==
  ASSUME NEW S, NEW trajs \in Seq(S), NEW t
  PROVE  /\ RowsOf(t, trajs) \in Seq(RowsBy({t}, S)) /\ Len(RowsOf(t, trajs)) = Len(trajs)
         /\ \A k \in 1..Len(trajs) : RowsOf(t, trajs)[k] = Row(t, trajs[k], TRUE)
  <1>1. \A k \in 1..Len(trajs) : Row(t, trajs[k], TRUE) \in RowsBy({t}, S)
    BY DEF Row, RowsBy
  <1>0. DOMAIN trajs = 1..Len(trajs) /\ Len(trajs) \in Nat
    OBVIOUS
  <1>2. RowsOf(t, trajs) = [k \in 1..Len(trajs) |-> Row(t, trajs[k], TRUE)]
    BY <1>0, Zenon DEF RowsOf
  <1>3. RowsOf(t, trajs) \in [1..Len(trajs) -> RowsBy({t}, S)]
    BY <1>1, <1>2, Zenon
  <1>4. RowsOf(t, trajs) \in Seq(RowsBy({t}, S)) /\ Len(RowsOf(t, trajs)) = Len(trajs)
    <2>1. \A X : \A n \in Nat : \A f \in [1..n -> X] : f \in Seq(X) /\ Len(f) = n
      OBVIOUS
    <2> QED BY <1>0, <1>3, <2>1, Zenon
  <1> QED BY <1>2, <1>4

LEMMA PartsTypes ==
  ASSUME NEW T, NEW S, NEW rows \in Seq(RowsBy(T, S)), Torn \in S,
         NEW part \in WrittenParts(rows)
  PROVE  part \in Seq(RowsBy(T, S))
  <1>0. Len(rows) \in Nat /\ \A k \in 1..Len(rows) : rows[k] \in RowsBy(T, S)
    OBVIOUS
  <1>1. \A k \in 0..Len(rows) : SubSeq(rows, 1, k) \in Seq(RowsBy(T, S))
    <2> SUFFICES ASSUME NEW k \in 0..Len(rows) PROVE SubSeq(rows, 1, k) \in Seq(RowsBy(T, S))
      OBVIOUS
    <2>1. \A i \in 1..k : rows[i] \in RowsBy(T, S)
      BY <1>0
    <2> QED BY <2>1, SubSeqProperties
  <1>2. ASSUME NEW k \in 1..Len(rows), NEW traj \in {Torn, rows[k].traj}
        PROVE  Append(SubSeq(rows, 1, k - 1), Row(rows[k].task, traj, FALSE)) \in Seq(RowsBy(T, S))
    <2>1. SubSeq(rows, 1, k - 1) \in Seq(RowsBy(T, S))
      BY <1>0, <1>1
    <2>2. rows[k].task \in T /\ traj \in S
      BY <1>0 DEF RowsBy
    <2>3. Row(rows[k].task, traj, FALSE) \in RowsBy(T, S)
      BY <2>2, RowTypes
    <2> QED BY <2>1, <2>3, AppendProperties
  <1>3. \/ \E k \in 0..Len(rows) : part = SubSeq(rows, 1, k)
        \/ \E k \in 1..Len(rows) : \E traj \in {Torn, rows[k].traj} :
             part = Append(SubSeq(rows, 1, k - 1), Row(rows[k].task, traj, FALSE))
    BY DEF WrittenParts
  <1> QED BY <1>1, <1>2, <1>3

LEMMA CleanTypes ==
  ASSUME NEW t \in Tasks
  PROVE  /\ Torn \in CleanOutcomes \cup {Torn}
         /\ \A trajs \in Seq(CleanOutcomes) :
              /\ RowsOf(t, trajs) \in Seq(CleanRows(t))
              /\ \A part \in WrittenParts(RowsOf(t, trajs)) : part \in Seq(CleanRows(t))
  <1> SUFFICES ASSUME NEW trajs \in Seq(CleanOutcomes)
               PROVE  /\ RowsOf(t, trajs) \in Seq(CleanRows(t))
                      /\ \A part \in WrittenParts(RowsOf(t, trajs)) : part \in Seq(CleanRows(t))
    OBVIOUS
  <1>1. trajs \in Seq(CleanOutcomes \cup {Torn})
    OBVIOUS
  <1>2. RowsOf(t, trajs) \in Seq(RowsBy({t}, CleanOutcomes \cup {Torn}))
    BY <1>1, RowsTypes
  <1> QED BY <1>2, PartsTypes DEF CleanRows

\* The rows of some tasks, in the order of this start.
Files(ids) == [k \in DOMAIN task_ids |-> IF task_ids[k] \in ids THEN out[task_ids[k]] ELSE <<>>]

LEMMA FilesTypes ==
  ASSUME task_ids \in Seq(Tasks), \A t \in Tasks : out[t] \in Seq(CleanRows(t)), NEW ids
  PROVE  /\ Files(ids) \in Seq(Seq(TrainingRows)) /\ Len(Files(ids)) = Len(task_ids)
         /\ DOMAIN task_ids = 1..Len(task_ids) /\ Len(task_ids) \in Nat
         /\ Merge(ids) = FlattenSeq(Files(ids))
  <1>1. ASSUME NEW t \in Tasks PROVE out[t] \in Seq(TrainingRows)
    <2>1. CleanRows(t) \subseteq TrainingRows
      BY DEF CleanRows, TrainingRows, RowsBy
    <2>2. out[t] \in Seq(CleanRows(t))
      OBVIOUS
    <2> QED BY <2>1, <2>2
  <1>2. DOMAIN task_ids = 1..Len(task_ids) /\ Len(task_ids) \in Nat
        /\ \A k \in 1..Len(task_ids) : task_ids[k] \in Tasks
    OBVIOUS
  <1>3. \A k \in DOMAIN task_ids :
          (IF task_ids[k] \in ids THEN out[task_ids[k]] ELSE <<>>) \in Seq(TrainingRows)
    BY <1>1, <1>2
  <1>4. Files(ids) \in [1..Len(task_ids) -> Seq(TrainingRows)]
    BY <1>2, <1>3 DEF Files
  <1>5. Files(ids) \in Seq(Seq(TrainingRows)) /\ Len(Files(ids)) = Len(task_ids)
    BY <1>2, <1>4
  <1> QED BY <1>2, <1>5 DEF Merge, Files

LEMMA MergeTypes ==
  ASSUME task_ids \in Seq(Tasks), \A t \in Tasks : out[t] \in Seq(CleanRows(t)), NEW ids
  PROVE  /\ Merge(ids) \in Seq(TrainingRows)
         /\ \A part \in WrittenParts(Merge(ids)) : part \in Seq(TrainingRows)
  <1>1. Files(ids) \in Seq(Seq(TrainingRows)) /\ Merge(ids) = FlattenSeq(Files(ids))
    BY FilesTypes
  <1> DEFINE lens == [k \in 1..Len(Files(ids)) |-> Len(Files(ids)[k])]
  <1>2. \A k \in 1..Len(Files(ids)) : lens[k] = Len(Files(ids)[k])
    OBVIOUS
  <1> HIDE DEF lens
  <1>3. Merge(ids) \in Seq(TrainingRows)
    BY <1>1, <1>2, FlattenedSeq
  <1>4. Torn \in CleanOutcomes \cup {Torn}
    OBVIOUS
  <1> QED BY <1>3, <1>4, PartsTypes DEF TrainingRows

-------------------------------------------------------------------------------
(* Steps of the workers *)

\* A worker changes what belongs to its task, and nothing of the main thread.
OnlyTask(t) ==
    /\ \A u \in Tasks \ {t} :
         /\ stage'[u] = stage[u] /\ attempts'[u] = attempts[u] /\ successes'[u] = successes[u]
         /\ contaminated'[u] = contaminated[u] /\ out'[u] = out[u] /\ dirty'[u] = dirty[u]
         /\ meta'[u] = meta[u] /\ all_meta'[u] = all_meta[u]
    /\ UNCHANGED <<pc, task_ids, merged>>

WorkOrFail(t) == Work(t) \/ PolicyFails(t)

LEMMA AttemptKeeps ==
  ASSUME CollectInv, NEW t \in Tasks, Attempt(t)
  PROVE  Domains' /\ OnlyTask(t) /\ TaskTypes(t)' /\ FilesOK(t)'
  <1>0. Domains /\ TaskTypes(t) /\ FilesOK(t)
    BY DEF CollectInv
  <1>1. PICK traj \in Outcomes : Sort(t, traj)
    BY DEF Attempt
  <1> DEFINE ss == Append(successes[t], traj)
             cs == Append(contaminated[t], traj)
  <1>2. \/ UNCHANGED <<successes, contaminated>>
        \/ /\ traj.success /\ ~traj.contaminated /\ contaminated' = contaminated
           /\ successes' = [successes EXCEPT ![t] = ss]
        \/ successes' = successes /\ contaminated' = [contaminated EXCEPT ![t] = cs]
    BY <1>1 DEF Sort
  <1>3. /\ successes[t] \in Seq(CleanOutcomes) /\ contaminated[t] \in Seq(Outcomes)
        /\ Len(successes[t]) \in Nat /\ Len(contaminated[t]) \in Nat
        /\ Len(successes[t]) + Len(contaminated[t]) <= attempts[t]
    <2>1. successes[t] \in Seq(CleanOutcomes) /\ contaminated[t] \in Seq(Outcomes)
      BY <1>0 DEF TaskTypes
    <2>2. Len(successes[t]) \in Nat /\ Len(contaminated[t]) \in Nat
      BY <2>1
    <2>3. Len(successes[t]) + Len(contaminated[t]) <= attempts[t]
      BY <1>0 DEF TaskTypes
    <2> QED BY <2>1, <2>2, <2>3
  <1>4. /\ cs \in Seq(Outcomes) /\ Len(cs) = Len(contaminated[t]) + 1
        /\ traj \in CleanOutcomes => ss \in Seq(CleanOutcomes) /\ Len(ss) = Len(successes[t]) + 1
    BY <1>3, AppendProperties
  <1> HIDE DEF ss, cs
  <1>5. /\ attempts' = [attempts EXCEPT ![t] = attempts[t] + 1] /\ attempts[t] < BestOf
        /\ stage[t] = "attempting" /\ UNCHANGED <<stage, out, dirty, meta, all_meta>>
        /\ UNCHANGED <<pc, task_ids, split, train, holdout>>
    BY DEF Attempt, args, taskFiles, merged
  <1>6. attempts'[t] = attempts[t] + 1 /\ attempts[t] \in 0..BestOf
    BY <1>0, <1>5 DEF Domains, TaskTypes
  <1>7. /\ DOMAIN successes' = Tasks /\ DOMAIN contaminated' = Tasks
        /\ \A u \in Tasks \ {t} : successes'[u] = successes[u] /\ contaminated'[u] = contaminated[u]
        /\ successes'[t] \in Seq(CleanOutcomes) /\ contaminated'[t] \in Seq(Outcomes)
        /\ Len(successes'[t]) + Len(contaminated'[t]) <= attempts[t] + 1
    <2>0. DOMAIN successes = Tasks /\ DOMAIN contaminated = Tasks /\ attempts[t] \in Nat
      BY <1>0, <1>6, CollectAssumptions DEF Domains
    <2>1. CASE UNCHANGED <<successes, contaminated>>
      BY <1>3, <2>0, <2>1
    <2>2. CASE /\ traj.success /\ ~traj.contaminated /\ contaminated' = contaminated
               /\ successes' = [successes EXCEPT ![t] = ss]
      <3>1. traj \in CleanOutcomes
        BY <2>2 DEF CleanOutcomes
      <3>2. successes'[t] = ss /\ contaminated'[t] = contaminated[t]
        BY <2>2, <2>0
      <3>3. Len(successes'[t]) + Len(contaminated'[t]) <= attempts[t] + 1
        BY <1>3, <1>4, <2>0, <3>1, <3>2
      <3> QED BY <1>3, <1>4, <2>0, <2>2, <3>1, <3>2, <3>3
    <2>3. CASE successes' = successes /\ contaminated' = [contaminated EXCEPT ![t] = cs]
      <3>1. contaminated'[t] = cs /\ successes'[t] = successes[t]
        BY <2>3, <2>0
      <3>2. Len(successes'[t]) + Len(contaminated'[t]) <= attempts[t] + 1
        BY <1>3, <1>4, <2>0, <3>1
      <3> QED BY <1>3, <1>4, <2>0, <2>3, <3>1, <3>2
    <2> QED BY <1>2, <2>1, <2>2, <2>3
  <1>8. Domains' /\ OnlyTask(t)
    BY <1>0, <1>5, <1>7 DEF Domains, OnlyTask, merged
  <1>9. Len(successes'[t]) + Len(contaminated'[t]) <= attempts'[t] /\ attempts'[t] \in 0..BestOf
    BY <1>5, <1>6, <1>7, CollectAssumptions
  <1>10. TaskTypes(t)'
    BY <1>0, <1>5, <1>7, <1>9 DEF TaskTypes
  <1>11. FilesOK(t)'
    BY <1>0, <1>5 DEF FilesOK, MetaMatches
  <1> QED BY <1>8, <1>10, <1>11

\* Stages whose step leaves the files alone, or writes one of them.
LEMMA BeginKeeps ==
  ASSUME CollectInv, NEW t \in Tasks, Begin(t) \/ PolicyFails(t)
  PROVE  Domains' /\ OnlyTask(t) /\ TaskTypes(t)' /\ FilesOK(t)'
  <1>0. Domains /\ TaskTypes(t) /\ FilesOK(t)
    BY DEF CollectInv
  <1>1. UNCHANGED <<attempts, successes, contaminated, out, dirty, meta, pc, task_ids, split, train, holdout>>
    BY DEF Begin, PolicyFails, args, samples, taskFiles, merged
  <1>2. \/ /\ stage' = [stage EXCEPT ![t] = "returned"] /\ meta[t] \in Metas
           /\ all_meta' = [all_meta EXCEPT ![t] = meta[t]]
        \/ stage' = [stage EXCEPT ![t] = "failed"] /\ all_meta' = all_meta
        \/ stage' = [stage EXCEPT ![t] = "attempting"] /\ all_meta' = all_meta /\ meta[t] = Absent
    BY DEF Begin, PolicyFails
  <1>3. Domains' /\ OnlyTask(t)
    BY <1>0, <1>1, <1>2 DEF Domains, OnlyTask, merged
  <1>4. TaskTypes(t)'
    BY <1>0, <1>1, <1>2 DEF TaskTypes, Domains, Stages
  <1>5. FilesOK(t)'
    BY <1>0, <1>1, <1>2 DEF FilesOK, MetaMatches, Domains
  <1> QED BY <1>3, <1>4, <1>5

LEMMA OpenOutKeeps ==
  ASSUME CollectInv, NEW t \in Tasks, OpenOut(t)
  PROVE  Domains' /\ OnlyTask(t) /\ TaskTypes(t)' /\ FilesOK(t)'
  <1>0. Domains /\ TaskTypes(t) /\ FilesOK(t)
    BY DEF CollectInv
  <1>1. /\ stage[t] = "attempting" /\ stage' = [stage EXCEPT ![t] = "out"]
        /\ UNCHANGED <<attempts, successes, contaminated, dirty, meta, all_meta>>
        /\ UNCHANGED <<pc, task_ids, split, train, holdout>>
    BY DEF OpenOut, args, samples, merged
  <1>2. PICK rows \in WrittenParts(RowsOf(t, successes[t])) : out' = [out EXCEPT ![t] = rows]
    BY DEF OpenOut
  <1>3. out'[t] \in Seq(CleanRows(t))
    <2>1. rows \in Seq(CleanRows(t))
      BY <1>0, CleanTypes DEF TaskTypes
    <2> QED BY <1>0, <1>2, <2>1 DEF Domains
  <1>4. Domains' /\ OnlyTask(t)
    BY <1>0, <1>1, <1>2 DEF Domains, OnlyTask, merged
  <1>5. TaskTypes(t)'
    BY <1>0, <1>1, <1>3 DEF TaskTypes, Domains, Stages
  <1>6. FilesOK(t)'
    BY <1>0, <1>1, MetaTypes DEF FilesOK, MetaMatches, Domains
  <1> QED BY <1>4, <1>5, <1>6

LEMMA OpenDirtyKeeps ==
  ASSUME CollectInv, NEW t \in Tasks, OpenDirty(t)
  PROVE  Domains' /\ OnlyTask(t) /\ TaskTypes(t)' /\ FilesOK(t)'
  <1>0. Domains /\ TaskTypes(t) /\ FilesOK(t)
    BY DEF CollectInv
  <1>1. /\ stage[t] = "out" /\ stage' = [stage EXCEPT ![t] = "dirty"]
        /\ out' = [out EXCEPT ![t] = RowsOf(t, successes[t])]
        /\ UNCHANGED <<attempts, successes, contaminated, meta, all_meta>>
        /\ UNCHANGED <<pc, task_ids, split, train, holdout>>
    BY DEF OpenDirty, args, samples, merged
  <1>2. PICK rows : dirty' = [dirty EXCEPT ![t] = rows]
    BY DEF OpenDirty
  <1>3. out'[t] = RowsOf(t, successes[t]) /\ out'[t] \in Seq(CleanRows(t))
    BY <1>0, <1>1, CleanTypes DEF TaskTypes, Domains
  <1>4. Domains' /\ OnlyTask(t)
    BY <1>0, <1>1, <1>2 DEF Domains, OnlyTask, merged
  <1>5. TaskTypes(t)'
    BY <1>0, <1>1, <1>3 DEF TaskTypes, Domains, Stages
  <1>6. FilesOK(t)'
    BY <1>0, <1>1, <1>3, MetaTypes DEF FilesOK, MetaMatches, Domains, RowsOf
  <1> QED BY <1>4, <1>5, <1>6

LEMMA OpenMetaKeeps ==
  ASSUME CollectInv, NEW t \in Tasks, OpenMeta(t)
  PROVE  Domains' /\ OnlyTask(t) /\ TaskTypes(t)' /\ FilesOK(t)'
  <1>0. Domains /\ TaskTypes(t) /\ FilesOK(t)
    BY DEF CollectInv
  <1>1. /\ stage[t] = "dirty" /\ stage' = [stage EXCEPT ![t] = "meta"]
        /\ dirty' = [dirty EXCEPT ![t] = RowsOf(t, contaminated[t])]
        /\ meta' = [meta EXCEPT ![t] = Torn]
        /\ UNCHANGED <<attempts, successes, contaminated, out, all_meta>>
        /\ UNCHANGED <<pc, task_ids, split, train, holdout>>
    BY DEF OpenMeta, args, samples, merged
  <1>2. Domains' /\ OnlyTask(t)
    BY <1>0, <1>1 DEF Domains, OnlyTask, merged
  <1>3. stage'[t] = "meta" /\ dirty'[t] = RowsOf(t, contaminated[t]) /\ meta'[t] = Torn
    BY <1>0, <1>1 DEF Domains
  <1>4. TaskTypes(t)'
    BY <1>0, <1>1, <1>3 DEF TaskTypes, Stages
  <1>5. FilesOK(t)'
    <2>1. RowsOf(t, successes[t])' = RowsOf(t, successes[t])
          /\ RowsOf(t, contaminated[t])' = RowsOf(t, contaminated[t])
      BY <1>1 DEF RowsOf
    <2> QED BY <1>0, <1>1, <1>3, <2>1, MetaTypes DEF FilesOK, MetaMatches
  <1> QED BY <1>2, <1>4, <1>5

LEMMA ReturnKeeps ==
  ASSUME CollectInv, NEW t \in Tasks, ReturnMeta(t)
  PROVE  Domains' /\ OnlyTask(t) /\ TaskTypes(t)' /\ FilesOK(t)'
  <1>0. Domains /\ TaskTypes(t) /\ FilesOK(t)
    BY DEF CollectInv
  <1>1. /\ stage[t] = "meta" /\ stage' = [stage EXCEPT ![t] = "returned"]
        /\ meta' = [meta EXCEPT ![t] = MetaOf(t)]
        /\ all_meta' = [all_meta EXCEPT ![t] = MetaOf(t)]
        /\ UNCHANGED <<attempts, successes, contaminated, out, dirty>>
        /\ UNCHANGED <<pc, task_ids, split, train, holdout>>
    BY DEF ReturnMeta, args, samples, merged
  <1>2. Domains' /\ OnlyTask(t)
    BY <1>0, <1>1 DEF Domains, OnlyTask, merged
  <1>3. stage'[t] = "returned" /\ meta'[t] = MetaOf(t) /\ all_meta'[t] = MetaOf(t)
    BY <1>0, <1>1 DEF Domains
  <1>4. successes[t] \in Seq(CleanOutcomes) /\ contaminated[t] \in Seq(Outcomes)
    BY <1>0 DEF TaskTypes
  <1>5. Len(successes[t]) \in 0..BestOf /\ Len(contaminated[t]) \in 0..BestOf
    <2>1. Len(successes[t]) \in Nat /\ Len(contaminated[t]) \in Nat
      BY <1>4
    <2>2. attempts[t] \in 0..BestOf /\ Len(successes[t]) + Len(contaminated[t]) <= attempts[t]
      BY <1>0 DEF TaskTypes
    <2>3. BestOf \in Nat /\ attempts[t] \in Nat /\ attempts[t] <= BestOf
      BY <2>2, CollectAssumptions
    <2>4. \A a, b, c, n \in Nat : a + b <= c /\ c <= n => a \in 0..n /\ b \in 0..n
      OBVIOUS
    <2> QED BY <2>1, <2>2, <2>3, <2>4, Zenon
  <1>6. /\ MetaOf(t) \in Metas /\ MetaOf(t).num_successes = Len(successes[t])
        /\ MetaOf(t).num_contaminated = Len(contaminated[t])
    BY <1>5, MetaTypes, Zenon DEF MetaOf
  <1>7. out[t] = RowsOf(t, successes[t]) /\ dirty[t] = RowsOf(t, contaminated[t])
    BY <1>0, <1>1 DEF FilesOK
  <1>8. /\ Len(out[t]) = Len(successes[t]) /\ Len(dirty[t]) = Len(contaminated[t])
        /\ \A k \in DOMAIN out[t] : out[t][k].traj # Torn /\ out[t][k].ended
    <2>1. Len(RowsOf(t, contaminated[t])) = Len(contaminated[t])
      BY <1>4, RowsTypes
    <2>2. /\ RowsOf(t, successes[t]) \in Seq(RowsBy({t}, CleanOutcomes))
          /\ Len(RowsOf(t, successes[t])) = Len(successes[t])
          /\ \A k \in 1..Len(successes[t]) :
               RowsOf(t, successes[t])[k] = Row(t, successes[t][k], TRUE)
      <3>1. \A trajs \in Seq(CleanOutcomes) :
              /\ RowsOf(t, trajs) \in Seq(RowsBy({t}, CleanOutcomes))
              /\ Len(RowsOf(t, trajs)) = Len(trajs)
              /\ \A k \in 1..Len(trajs) : RowsOf(t, trajs)[k] = Row(t, trajs[k], TRUE)
        BY RowsTypes
      <3> QED BY <1>4, <3>1, Zenon
    <2>3. ASSUME NEW k \in DOMAIN out[t] PROVE out[t][k].traj # Torn /\ out[t][k].ended
      <3>1. k \in 1..Len(successes[t])
        BY <1>7, <2>2
      <3>2. out[t][k] = Row(t, successes[t][k], TRUE) /\ successes[t][k] \in CleanOutcomes
        <4>1. successes[t][k] \in CleanOutcomes
          BY <1>4, <3>1
        <4> QED BY <1>7, <2>2, <3>1, <4>1, Zenon
      <3>3. successes[t][k] \in Outcomes
        BY <3>2 DEF CleanOutcomes
      <3>4. out[t][k].traj = successes[t][k] /\ out[t][k].ended = TRUE
        BY <3>2 DEF Row
      <3> QED BY <3>3, <3>4, MetaTypes
    <2> QED BY <1>7, <2>1, <2>2, <2>3
  <1>9. TaskTypes(t)'
    BY <1>0, <1>1, <1>3, <1>6 DEF TaskTypes, Stages
  <1>10. MetaMatches(t)'
    BY <1>1, <1>3, <1>6, <1>8 DEF MetaMatches
  <1>11. FilesOK(t)'
    BY <1>3, <1>6, <1>10 DEF FilesOK
  <1> QED BY <1>2, <1>9, <1>11

\* Steps of a worker happen while the main thread collects.
LEMMA WorkKeeps ==
  ASSUME CollectInv, NEW t \in Tasks, WorkOrFail(t)
  PROVE  CollectInv'
  <1>1. Domains' /\ OnlyTask(t) /\ TaskTypes(t)' /\ FilesOK(t)'
    BY AttemptKeeps, BeginKeeps, OpenOutKeeps, OpenDirtyKeeps, OpenMetaKeeps, ReturnKeeps
       DEF WorkOrFail, Work
  <1>2. ASSUME NEW u \in Tasks, u # t PROVE TaskTypes(u)' /\ FilesOK(u)'
    <2>1. TaskTypes(u) /\ FilesOK(u)
      BY DEF CollectInv
    <2>2. u \in Tasks \ {t}
      BY <1>2
    <2>3. TaskTypes(u)'
      BY <1>1, <2>1, <2>2 DEF OnlyTask, TaskTypes
    <2>4. RowsOf(u, successes[u])' = RowsOf(u, successes[u])
          /\ RowsOf(u, contaminated[u])' = RowsOf(u, contaminated[u])
      BY <1>1, <2>2 DEF OnlyTask, RowsOf
    <2>5. FilesOK(u)'
      BY <1>1, <2>1, <2>2, <2>4 DEF OnlyTask, FilesOK, MetaMatches
    <2> QED BY <2>3, <2>5
  <1>3. stage[t] \notin {"none", "returned", "failed"}
    BY DEF WorkOrFail, Work, Begin, Attempt, PolicyFails, OpenOut, OpenDirty, OpenMeta, ReturnMeta
  <1>4. pc = "collect" /\ t \in IdsOf(task_ids)
    BY <1>3 DEF CollectInv, MainOK
  <1>5. pc' = "collect" /\ UNCHANGED <<task_ids, train, holdout>>
    BY <1>1, <1>4 DEF OnlyTask, merged
  <1>6. MainOK'
    BY <1>1, <1>4, <1>5 DEF CollectInv, MainOK, OnlyTask, IdsOf, IsInjective
  <1> QED BY <1>1, <1>2, <1>6 DEF CollectInv

-------------------------------------------------------------------------------
(* Steps of the main thread *)

LEMMA SameFiles ==
  ASSUME CollectInv, UNCHANGED <<stage, samples, all_meta, taskFiles>>
  PROVE  Domains' /\ \A t \in Tasks : TaskTypes(t)' /\ FilesOK(t)'
  <1>1. UNCHANGED <<stage, attempts, successes, contaminated, all_meta, out, dirty, meta>>
    BY DEF samples, taskFiles
  <1>2. Domains'
    BY <1>1 DEF CollectInv, Domains
  <1>3. ASSUME NEW t \in Tasks PROVE TaskTypes(t)' /\ FilesOK(t)'
    <2>1. TaskTypes(t)'
      BY <1>1 DEF CollectInv, TaskTypes
    <2>2. FilesOK(t)'
      BY <1>1 DEF CollectInv, FilesOK, MetaMatches, RowsOf
    <2> QED BY <2>1, <2>2
  <1> QED BY <1>2, <1>3

\* Nothing is in memory yet, or any more, and the files are as they were left.
LEMMA NothingInMemory ==
  ASSUME CollectInv, NoSamples, UNCHANGED taskFiles,
         all_meta' = [t \in Tasks |-> Absent], DOMAIN stage' = Tasks,
         \A t \in Tasks : stage'[t] \in {"none", "queued"}
  PROVE  Domains' /\ \A t \in Tasks : TaskTypes(t)' /\ FilesOK(t)'
  <1>1. UNCHANGED <<out, dirty, meta>>
    BY DEF taskFiles
  <1>2. Domains'
    BY <1>1 DEF CollectInv, Domains, NoSamples
  <1>3. ASSUME NEW t \in Tasks PROVE TaskTypes(t)' /\ FilesOK(t)'
    <2>1. TaskTypes(t) /\ FilesOK(t)
      BY DEF CollectInv
    <2>2. /\ attempts'[t] = 0 /\ successes'[t] = <<>> /\ contaminated'[t] = <<>>
          /\ all_meta'[t] = Absent
      BY DEF NoSamples
    <2>3. 0 \in 0..BestOf /\ Len(<<>>) + Len(<<>>) <= 0
      BY CollectAssumptions
    <2>4. TaskTypes(t)'
      BY <1>1, <2>1, <2>2, <2>3 DEF TaskTypes, Stages
    <2>5. FilesOK(t)'
      BY <1>1, <2>1 DEF FilesOK, MetaMatches
    <2> QED BY <2>4, <2>5
  <1> QED BY <1>2, <1>3

LEMMA StartKeeps ==
  ASSUME CollectInv, NEW ids \in Ranges, NEW size \in HoldoutSizes, Start(ids, size)
  PROVE  CollectInv'
  <1>1. /\ pc' = "collect" /\ task_ids' = ids /\ UNCHANGED <<taskFiles, split, train, holdout>>
        /\ stage' = [t \in Tasks |-> IF t \in IdsOf(ids) THEN "queued" ELSE "none"]
        /\ NoSamples /\ all_meta' = [t \in Tasks |-> Absent]
    BY DEF Start, merged
  <1>2. DOMAIN stage' = Tasks /\ \A t \in Tasks : stage'[t] \in {"none", "queued"}
    BY <1>1
  <1>3. Domains' /\ \A t \in Tasks : TaskTypes(t)' /\ FilesOK(t)'
    BY <1>1, <1>2, NothingInMemory
  <1>4. task_ids' \in Seq(Tasks) /\ IsInjective(task_ids')
    BY <1>1, CollectAssumptions
  <1>5. \A t \in Tasks : t \notin IdsOf(task_ids') => stage'[t] = "none"
    BY <1>1
  <1>6. train' \in Seq(TrainingRows) /\ holdout' \in Seq(TrainingRows)
    BY <1>1 DEF CollectInv, MainOK
  <1>7. MainOK'
    BY <1>1, <1>4, <1>5, <1>6 DEF MainOK
  <1> QED BY <1>3, <1>7 DEF CollectInv

LEMMA CrashKeeps ==
  ASSUME CollectInv, Crash
  PROVE  CollectInv'
  <1>1. /\ pc' = "down" /\ UNCHANGED <<task_ids, taskFiles, split, train, holdout>>
        /\ stage' = [t \in Tasks |-> "none"]
        /\ NoSamples /\ all_meta' = [t \in Tasks |-> Absent]
    BY DEF Crash, args, merged
  <1>2. DOMAIN stage' = Tasks /\ \A t \in Tasks : stage'[t] = "none"
    BY <1>1
  <1>3. Domains' /\ \A t \in Tasks : TaskTypes(t)' /\ FilesOK(t)'
    BY <1>1, <1>2, NothingInMemory
  <1>4. MainOK'
    BY <1>1, <1>2 DEF CollectInv, MainOK, IsInjective
  <1> QED BY <1>3, <1>4 DEF CollectInv

LEMMA SameIds ==
  ASSUME UNCHANGED args
  PROVE  SeenIds' = SeenIds /\ HoldoutIds' = HoldoutIds
  BY DEF args, SeenIds, HoldoutIds, IdsOf

LEMMA MainKeeps ==
  ASSUME CollectInv, OpenSplit \/ CloseSplit \/ OpenMerged \/ Finish
  PROVE  CollectInv'
  <1>1. UNCHANGED <<args, task_ids, stage, samples, all_meta, taskFiles>>
    BY DEF OpenSplit, CloseSplit, OpenMerged, Finish, args
  <1>2. Domains' /\ \A t \in Tasks : TaskTypes(t)' /\ FilesOK(t)'
    BY <1>1, SameFiles
  <1>3. /\ MainOK /\ SeenIds' = SeenIds /\ HoldoutIds' = HoldoutIds /\ AllEnded' = AllEnded
        /\ task_ids \in Seq(Tasks) /\ train \in Seq(TrainingRows) /\ holdout \in Seq(TrainingRows)
    BY <1>1, SameIds DEF CollectInv, MainOK, AllEnded, IdsOf
  <1>4. \A t \in Tasks : out[t] \in Seq(CleanRows(t))
    BY DEF CollectInv, TaskTypes
  <1>5. Merge(SeenIds)' = Merge(SeenIds) /\ Merge(HoldoutIds)' = Merge(HoldoutIds)
    BY <1>1, <1>3 DEF Merge, taskFiles
  <1>6. /\ task_ids' \in Seq(Tasks) /\ IsInjective(task_ids')
        /\ \A t \in Tasks : t \notin IdsOf(task_ids)' => stage'[t] = "none"
    BY <1>1, <1>3 DEF MainOK, IdsOf, IsInjective
  <1>7. AllEnded => \A t \in Tasks : stage[t] \in {"none", "returned", "failed"}
    BY <1>3 DEF MainOK, AllEnded
  <1>8. CASE OpenSplit
    <2>1. pc' = "split" /\ AllEnded /\ UNCHANGED <<train, holdout>>
      BY <1>8 DEF OpenSplit
    <2> QED BY <1>1, <1>2, <1>3, <1>6, <1>7, <2>1 DEF MainOK, CollectInv
  <1>9. CASE CloseSplit
    <2>1. /\ pc' = "merge" /\ pc = "split" /\ UNCHANGED <<train, holdout>>
          /\ split' = [seen |-> SeenIds, unseen |-> HoldoutIds]
      BY <1>9 DEF CloseSplit
    <2> QED BY <1>1, <1>2, <1>3, <1>6, <2>1 DEF MainOK, CollectInv
  <1>10. CASE OpenMerged
    <2>1. /\ pc' = "write" /\ pc = "merge" /\ split' = split
          /\ train' \in WrittenParts(Merge(SeenIds)) /\ holdout' \in WrittenParts(Merge(HoldoutIds))
      BY <1>10 DEF OpenMerged
    <2>2. train' \in Seq(TrainingRows) /\ holdout' \in Seq(TrainingRows)
      BY <1>3, <1>4, <2>1, MergeTypes
    <2> QED BY <1>1, <1>2, <1>3, <1>6, <2>1, <2>2 DEF MainOK, CollectInv
  <1>11. CASE Finish
    <2>1. /\ pc' = "finished" /\ pc = "write" /\ split' = split
          /\ train' = Merge(SeenIds) /\ holdout' = Merge(HoldoutIds)
      BY <1>11 DEF Finish
    <2>2. train' \in Seq(TrainingRows) /\ holdout' \in Seq(TrainingRows)
      BY <1>3, <1>4, <2>1, MergeTypes
    <2> QED BY <1>1, <1>2, <1>3, <1>5, <1>6, <2>1, <2>2 DEF MainOK, CollectInv
  <1> QED BY <1>8, <1>9, <1>10, <1>11

LEMMA InitCollect == Init => CollectInv
  <1> SUFFICES ASSUME Init PROVE CollectInv
    OBVIOUS
  <1>1. Domains
    BY DEF Init, Domains
  <1>2. ASSUME NEW t \in Tasks PROVE TaskTypes(t) /\ FilesOK(t)
    <2>1. /\ stage[t] = "none" /\ attempts[t] = 0 /\ successes[t] = <<>> /\ contaminated[t] = <<>>
          /\ all_meta[t] = Absent /\ meta[t] = Absent /\ out[t] = <<>> /\ dirty[t] = <<>>
      BY DEF Init
    <2>2. 0 \in 0..BestOf /\ Len(<<>>) + Len(<<>>) <= 0
      BY CollectAssumptions
    <2>3. TaskTypes(t)
      BY <2>1, <2>2 DEF TaskTypes, Stages
    <2>4. FilesOK(t)
      BY <2>1, MetaTypes DEF FilesOK, MetaMatches
    <2> QED BY <2>3, <2>4
  <1>3. MainOK
    <2>1. task_ids = <<>> /\ train = <<>> /\ holdout = <<>> /\ pc = "down"
      BY DEF Init
    <2>2. \A t \in Tasks : stage[t] = "none"
      BY DEF Init
    <2>3. IsInjective(task_ids)
      BY <2>1 DEF IsInjective
    <2> QED BY <2>1, <2>2, <2>3 DEF MainOK
  <1> QED BY <1>1, <1>2, <1>3 DEF CollectInv

THEOREM AlwaysCollect == Spec => []CollectInv
  <1>1. CollectInv /\ [Next]_collectVars => CollectInv'
    <2> SUFFICES ASSUME CollectInv, [Next]_collectVars PROVE CollectInv'
      OBVIOUS
    <2>1. ASSUME NEW ids \in Ranges, NEW size \in HoldoutSizes, Start(ids, size)
          PROVE  CollectInv'
      BY <2>1, StartKeeps
    <2>2. ASSUME NEW t \in Tasks, Work(t) \/ PolicyFails(t) PROVE CollectInv'
      BY <2>2, WorkKeeps DEF WorkOrFail
    <2>3. CASE OpenSplit \/ CloseSplit \/ OpenMerged \/ Finish
      BY <2>3, MainKeeps
    <2>4. CASE Crash
      BY <2>4, CrashKeeps
    <2>5. CASE UNCHANGED collectVars
      <3>1. UNCHANGED <<pc, args, task_ids, stage, samples, all_meta, taskFiles, split, train, holdout>>
        BY <2>5 DEF collectVars, args, merged
      <3>2. Domains' /\ \A t \in Tasks : TaskTypes(t)' /\ FilesOK(t)'
        BY <3>1, SameFiles
      <3>3. SeenIds' = SeenIds /\ HoldoutIds' = HoldoutIds /\ AllEnded' = AllEnded
        BY <3>1, SameIds DEF AllEnded, IdsOf
      <3>4. Merge(SeenIds)' = Merge(SeenIds) /\ Merge(HoldoutIds)' = Merge(HoldoutIds)
        BY <3>1, <3>3 DEF Merge, taskFiles
      <3>5. MainOK'
        BY <3>1, <3>3, <3>4 DEF CollectInv, MainOK, IdsOf, IsInjective
      <3> QED BY <3>2, <3>5 DEF CollectInv
    <2> QED BY <2>1, <2>2, <2>3, <2>4, <2>5 DEF Next
  <1> QED BY <1>1, InitCollect, PTL DEF Spec

-------------------------------------------------------------------------------
(* What the invariant promises *)

\* A meta file that can be read speaks of complete files of its task, whatever
\* was killed and started again: skipping the task loses no row.
THEOREM MetaTrusted == Spec => []MetaMatchesFiles
  <1>1. CollectInv => MetaMatchesFiles
    BY DEF CollectInv, FilesOK, MetaMatches, MetaMatchesFiles
  <1> QED BY <1>1, AlwaysCollect, PTL

\* No contaminated and no failed trajectory is taught, not even by a merge that
\* was interrupted.
THEOREM CleanlyTaught == Spec => []OnlyCleanRows
  <1>1. CollectInv => OnlyCleanRows
    <2> SUFFICES ASSUME CollectInv, NEW row \in IdsOf(train) \cup IdsOf(holdout), row.traj # Torn
                 PROVE  row.traj.success /\ ~row.traj.contaminated
      BY DEF OnlyCleanRows
    <2>1. train \in Seq(TrainingRows) /\ holdout \in Seq(TrainingRows)
      BY DEF CollectInv, MainOK
    <2>2. row \in TrainingRows
      BY <2>1 DEF IdsOf
    <2>3. row.traj \in CleanOutcomes
      BY <2>2 DEF TrainingRows, RowsBy
    <2> QED BY <2>3 DEF CleanOutcomes
  <1> QED BY <1>1, AlwaysCollect, PTL

\* Tasks of this start that did not fail have whole files.
WholeFiles ==
    \A t \in IdsOf(task_ids) \ FailedIds :
        \A k \in DOMAIN out[t] : out[t][k].traj # Torn /\ out[t][k].ended

\* A merge takes rows of the tasks it is for, whole ones of those that did not fail.
Wanted(ids) ==
    {row \in TrainingRows : /\ row.task \in ids
                            /\ row.task \in FailedIds \/ (row.traj # Torn /\ row.ended)}

LEMMA MergedRows ==
  ASSUME task_ids \in Seq(Tasks), \A t \in Tasks : out[t] \in Seq(CleanRows(t)), WholeFiles, NEW ids
  PROVE  Merge(ids) \in Seq(Wanted(ids))
  <1> DEFINE wanted == Wanted(ids)
  <1>1. ASSUME NEW t \in ids, t \in IdsOf(task_ids), t \in Tasks PROVE out[t] \in Seq(wanted)
    <2>1. out[t] \in Seq(CleanRows(t))
      BY <1>1
    <2>2. ASSUME NEW k \in DOMAIN out[t] PROVE out[t][k] \in wanted
      <3>1. out[t][k] \in CleanRows(t)
        BY <2>1
      <3>2. out[t][k].task = t /\ out[t][k] \in TrainingRows
        BY <1>1, <3>1 DEF CleanRows, TrainingRows, RowsBy
      <3>3. t \in FailedIds \/ (out[t][k].traj # Torn /\ out[t][k].ended)
        BY <1>1 DEF WholeFiles
      <3> QED BY <3>2, <3>3 DEF Wanted
    <2> HIDE DEF wanted
    <2> QED BY <2>1, <2>2
  <1>2. /\ Len(Files(ids)) = Len(task_ids) /\ Merge(ids) = FlattenSeq(Files(ids))
        /\ DOMAIN task_ids = 1..Len(task_ids) /\ Len(task_ids) \in Nat
        /\ \A k \in 1..Len(task_ids) : task_ids[k] \in Tasks
    BY FilesTypes
  <1>3. \A k \in DOMAIN task_ids :
          (IF task_ids[k] \in ids THEN out[task_ids[k]] ELSE <<>>) \in Seq(wanted)
    BY <1>1, <1>2 DEF IdsOf
  <1>4. Files(ids) \in [1..Len(task_ids) -> Seq(wanted)]
    BY <1>2, <1>3 DEF Files
  <1>5. Files(ids) \in Seq(Seq(wanted))
    BY <1>2, <1>4
  <1> DEFINE lens == [k \in 1..Len(Files(ids)) |-> Len(Files(ids)[k])]
  <1>6. \A k \in 1..Len(Files(ids)) : lens[k] = Len(Files(ids)[k])
    OBVIOUS
  <1> HIDE DEF lens
  <1>7. Merge(ids) \in Seq(wanted)
    BY <1>2, <1>5, <1>6, FlattenedSeq
  <1> QED BY <1>7

\* What the rows of a merge promise of it.
LEMMA ReadableRows ==
  ASSUME NEW ids, NEW text \in Seq(Wanted(ids))
  PROVE  /\ \A row \in IdsOf(text) : row.task \in ids
         /\ ReadableButRunOn(text)
         /\ FailedIds = {} => Cardinality(Readable(text)) = Len(text)
  <1>1. DOMAIN text = 1..Len(text) /\ Len(text) \in Nat
    OBVIOUS
  <1>2. ASSUME NEW k \in 1..Len(text)
        PROVE  /\ text[k].task \in ids
               /\ text[k].task \in FailedIds \/ (text[k].traj # Torn /\ text[k].ended)
    <2>1. text[k] \in Wanted(ids)
      BY <1>1
    <2> QED BY <2>1 DEF Wanted
  <1>3. \A row \in IdsOf(text) : row.task \in ids
    BY <1>1, <1>2 DEF IdsOf
  <1>4. ASSUME NEW k \in 1..Len(text), text[k].task \notin FailedIds, k \notin Readable(text)
        PROVE  RunsOn(text, k)
    <2>1. text[k].traj # Torn /\ text[k].ended
      BY <1>2, <1>4
    <2>2. k > 1 /\ ~text[k - 1].ended
      BY <1>1, <1>4, <2>1 DEF Readable
    <2>3. k - 1 \in 1..Len(text)
      BY <1>1, <2>2
    <2> QED BY <1>2, <2>2, <2>3 DEF RunsOn
  <1>5. ReadableButRunOn(text)
    BY <1>1, <1>4 DEF ReadableButRunOn
  <1>6. ASSUME FailedIds = {} PROVE Cardinality(Readable(text)) = Len(text)
    <2>1. ASSUME NEW k \in 1..Len(text) PROVE k \in Readable(text)
      <3>1. ~RunsOn(text, k) /\ text[k].task \notin FailedIds
        BY <1>6 DEF RunsOn
      <3> QED BY <1>4, <3>1
    <2>2. Readable(text) = 1..Len(text)
      BY <1>1, <2>1 DEF Readable
    <2>3. Cardinality(1..Len(text)) = Len(text)
      BY <1>1, FS_Interval
    <2> QED BY <2>2, <2>3
  <1> QED BY <1>3, <1>5, <1>6

\* Rows of the k-th task of this start that a merge for ids takes.
Taken(ids) == [k \in 1..Len(task_ids) |-> IF task_ids[k] \in ids THEN Len(out[task_ids[k]]) ELSE 0]

LEMMA MergedLength ==
  ASSUME task_ids \in Seq(Tasks), \A t \in Tasks : out[t] \in Seq(CleanRows(t)), NEW ids
  PROVE  Len(Merge(ids)) = SumFunctionOnSet(Taken(ids), 1..Len(task_ids))
  <1>1. /\ Files(ids) \in Seq(Seq(TrainingRows)) /\ Len(Files(ids)) = Len(task_ids)
        /\ DOMAIN task_ids = 1..Len(task_ids) /\ Merge(ids) = FlattenSeq(Files(ids))
    BY FilesTypes
  <1>2. \A k \in 1..Len(Files(ids)) : Taken(ids)[k] = Len(Files(ids)[k])
    BY <1>1 DEF Taken, Files
  <1> QED BY <1>1, <1>2, FlattenedSeq

\* At its end, the rows the script has copied are what it has reported and what
\* earlier starts had written of tasks that failed in this one; a reported
\* success is a line of its own unless the torn file of such a task is copied
\* in front of it, and every one is when no task failed.
THEOREM Reconciled == Spec => []ReportAddsUp
  <1>1. CollectInv => ReportAddsUp
    <2> SUFFICES ASSUME CollectInv, pc = "finished"
                 PROVE  /\ \A row \in IdsOf(train) : row.task \in split.seen
                        /\ \A row \in IdsOf(holdout) : row.task \in split.unseen
                        /\ Len(train) + Len(holdout) = Reported + Unreported
                        /\ ReadableButRunOn(train) /\ ReadableButRunOn(holdout)
                        /\ FailedIds = {} =>
                             Cardinality(Readable(train)) + Cardinality(Readable(holdout)) = Reported
      BY DEF ReportAddsUp
    <2>1. /\ task_ids \in Seq(Tasks) /\ IsInjective(task_ids) /\ AllEnded
          /\ split = [seen |-> SeenIds, unseen |-> HoldoutIds]
          /\ train = Merge(SeenIds) /\ holdout = Merge(HoldoutIds)
      BY DEF CollectInv, MainOK
    <2>2. \A t \in Tasks : out[t] \in Seq(CleanRows(t))
      BY DEF CollectInv, TaskTypes
    <2>3. split.seen = SeenIds /\ split.unseen = HoldoutIds
      BY <2>1
    <2> DEFINE n == Len(task_ids)
               rows == [t \in Tasks |-> Len(out[t])]
               taken == [k \in 1..n |-> Len(out[task_ids[k]])]
               report == [t \in IdsOf(task_ids) \ FailedIds |-> all_meta[t].num_successes]
               silent == [t \in FailedIds |-> Len(out[t])]
    <2>4. /\ n \in Nat /\ DOMAIN task_ids = 1..n /\ \A k \in 1..n : task_ids[k] \in Tasks
          /\ \A t \in Tasks : Len(out[t]) \in Nat
          /\ IsFiniteSet(1..n)
      <3>1. n \in Nat /\ DOMAIN task_ids = 1..n /\ \A k \in 1..n : task_ids[k] \in Tasks
        BY <2>1
      <3>2. \A t \in Tasks : Len(out[t]) \in Nat
        BY <2>2
      <3> QED BY <3>1, <3>2, FS_Interval
    <2>5. Len(train) + Len(holdout) = SumFunctionOnSet(taken, 1..n)
      <3>1. \A k \in 1..n : /\ Taken(SeenIds)[k] \in Int /\ Taken(HoldoutIds)[k] \in Int
                            /\ taken[k] = Taken(SeenIds)[k] + Taken(HoldoutIds)[k]
        <4> SUFFICES ASSUME NEW k \in 1..n
                     PROVE  /\ Taken(SeenIds)[k] \in Int /\ Taken(HoldoutIds)[k] \in Int
                            /\ taken[k] = Taken(SeenIds)[k] + Taken(HoldoutIds)[k]
          OBVIOUS
        <4>1. task_ids[k] \in SeenIds <=> task_ids[k] \notin HoldoutIds
          BY <2>4 DEF SeenIds, IdsOf
        <4>2. Len(out[task_ids[k]]) \in Nat
          BY <2>4
        <4>3. /\ Taken(SeenIds)[k] = IF task_ids[k] \in SeenIds THEN Len(out[task_ids[k]]) ELSE 0
              /\ Taken(HoldoutIds)[k] = IF task_ids[k] \in HoldoutIds THEN Len(out[task_ids[k]]) ELSE 0
              /\ taken[k] = Len(out[task_ids[k]])
          BY DEF Taken
        <4> HIDE DEF taken, n
        <4>4. CASE task_ids[k] \in SeenIds
          <5>1. Taken(SeenIds)[k] = taken[k] /\ Taken(HoldoutIds)[k] = 0 /\ taken[k] \in Nat
            BY <4>1, <4>2, <4>3, <4>4
          <5> QED BY <5>1
        <4>5. CASE task_ids[k] \notin SeenIds
          <5>1. Taken(SeenIds)[k] = 0 /\ Taken(HoldoutIds)[k] = taken[k] /\ taken[k] \in Nat
            BY <4>1, <4>2, <4>3, <4>5
          <5> QED BY <5>1
        <4> QED BY <4>4, <4>5
      <3> HIDE DEF taken
      <3>2. SumFunctionOnSet(taken, 1..n)
              = SumFunctionOnSet(Taken(SeenIds), 1..n) + SumFunctionOnSet(Taken(HoldoutIds), 1..n)
        BY <2>4, <3>1, SumPlus
      <3>3. /\ Len(train) = SumFunctionOnSet(Taken(SeenIds), 1..n)
            /\ Len(holdout) = SumFunctionOnSet(Taken(HoldoutIds), 1..n)
        BY <2>1, <2>2, MergedLength
      <3> QED BY <3>2, <3>3
    <2>6. SumFunctionOnSet(taken, 1..n) = SumFunctionOnSet(rows, IdsOf(task_ids))
      <3> DEFINE places == 1..n
                 ids == IdsOf(task_ids)
      <3>1. \A k \in places : taken[k] \in Int /\ taken[k] = rows[task_ids[k]]
        BY <2>4
      <3>2. \A j, k \in places : task_ids[j] = task_ids[k] => j = k
        BY <2>1, <2>4 DEF IsInjective
      <3>3. \A t \in ids : \E k \in places : task_ids[k] = t
        BY <2>4 DEF IdsOf
      <3>4. task_ids \in [places -> ids]
        <4>1. \A k \in places : task_ids[k] \in ids
          BY <2>4 DEF IdsOf
        <4>2. task_ids \in [places -> Tasks]
          BY <2>1
        <4> HIDE DEF places, ids
        <4> QED BY <4>1, <4>2
      <3>5. IsFiniteSet(places)
        BY <2>4
      <3> HIDE DEF taken, rows, places, ids
      <3>6. SumFunctionOnSet(taken, places) = SumFunctionOnSet(rows, ids)
        BY <3>1, <3>2, <3>3, <3>4, <3>5, SumRenamed
      <3> QED BY <3>6 DEF places, ids
    <2>7. /\ IdsOf(task_ids) = (IdsOf(task_ids) \ FailedIds) \cup FailedIds
          /\ (IdsOf(task_ids) \ FailedIds) \cap FailedIds = {} /\ IdsOf(task_ids) \subseteq Tasks
      BY <2>4 DEF FailedIds, IdsOf
    <2>8. IsFiniteSet(IdsOf(task_ids) \ FailedIds) /\ IsFiniteSet(FailedIds)
      <3>1. IsFiniteSet({task_ids[k] : k \in 1..n})
        BY <2>4, FiniteImage
      <3>2. IsFiniteSet(IdsOf(task_ids))
        BY <2>4, <3>1 DEF IdsOf
      <3> QED BY <2>7, <3>2, FS_Subset
    <2>9. SumFunctionOnSet(rows, IdsOf(task_ids))
            = SumFunctionOnSet(rows, IdsOf(task_ids) \ FailedIds) + SumFunctionOnSet(rows, FailedIds)
      <3>1. \A t \in (IdsOf(task_ids) \ FailedIds) \cup FailedIds : rows[t] \in Int
        BY <2>4, <2>7
      <3> HIDE DEF rows
      <3> QED BY <2>7, <2>8, <3>1, SumUnion
    <2>10. SumFunctionOnSet(rows, IdsOf(task_ids) \ FailedIds) = Reported
      <3>1. ASSUME NEW t \in IdsOf(task_ids) \ FailedIds PROVE rows[t] = report[t]
        <4>1. t \in Tasks /\ stage[t] = "returned"
          BY <2>1, <2>7 DEF AllEnded, FailedIds
        <4>2. all_meta[t] \in Metas /\ all_meta[t] = meta[t] /\ Len(out[t]) = meta[t].num_successes
          BY <4>1 DEF CollectInv, FilesOK, MetaMatches
        <4> QED BY <4>1, <4>2
      <3>2. DOMAIN report = IdsOf(task_ids) \ FailedIds
        OBVIOUS
      <3>3. Reported = SumFunction(report)
        BY DEF Reported
      <3> HIDE DEF rows, report
      <3>4. SumFunctionOnSet(rows, IdsOf(task_ids) \ FailedIds)
              = SumFunctionOnSet(report, IdsOf(task_ids) \ FailedIds)
        BY <2>8, <3>1, SumSame
      <3> QED BY <3>2, <3>3, <3>4 DEF SumFunction
    <2>11. SumFunctionOnSet(rows, FailedIds) = Unreported
      <3>1. \A t \in FailedIds : rows[t] = silent[t]
        BY <2>7
      <3>2. DOMAIN silent = FailedIds
        OBVIOUS
      <3>3. Unreported = SumFunction(silent)
        BY DEF Unreported
      <3> HIDE DEF rows, silent
      <3>4. SumFunctionOnSet(rows, FailedIds) = SumFunctionOnSet(silent, FailedIds)
        BY <2>8, <3>1, SumSame
      <3> QED BY <3>2, <3>3, <3>4 DEF SumFunction
    <2>12. WholeFiles
      <3> SUFFICES ASSUME NEW t \in IdsOf(task_ids) \ FailedIds
                   PROVE  \A k \in DOMAIN out[t] : out[t][k].traj # Torn /\ out[t][k].ended
        BY DEF WholeFiles
      <3>1. t \in Tasks /\ stage[t] = "returned"
        BY <2>1, <2>7 DEF AllEnded, FailedIds
      <3>2. meta[t] \in Metas
        BY <3>1 DEF CollectInv, FilesOK
      <3> QED BY <3>1, <3>2 DEF CollectInv, FilesOK, MetaMatches
    <2>13. train \in Seq(Wanted(SeenIds)) /\ holdout \in Seq(Wanted(HoldoutIds))
      BY <2>1, <2>2, <2>12, MergedRows
    <2>14. /\ \A row \in IdsOf(train) : row.task \in split.seen
           /\ \A row \in IdsOf(holdout) : row.task \in split.unseen
           /\ ReadableButRunOn(train) /\ ReadableButRunOn(holdout)
           /\ FailedIds = {} => /\ Cardinality(Readable(train)) = Len(train)
                                /\ Cardinality(Readable(holdout)) = Len(holdout)
      BY <2>3, <2>13, ReadableRows
    <2>15. FailedIds = {} => Unreported = 0
      BY <2>11, SumOverNothing
    <2>16. Reported \in Int
      <3>1. \A t \in IdsOf(task_ids) \ FailedIds : rows[t] \in Int
        BY <2>4, <2>7
      <3> HIDE DEF rows
      <3> QED BY <2>8, <2>10, <3>1, SumType
    <2> HIDE DEF n, rows, taken, report, silent
    <2>17. Len(train) + Len(holdout) = Reported + Unreported
      BY <2>5, <2>6, <2>9, <2>10, <2>11
    <2>18. FailedIds = {} =>
             Cardinality(Readable(train)) + Cardinality(Readable(holdout)) = Reported
      BY <2>14, <2>15, <2>16, <2>17
    <2> QED BY <2>14, <2>17, <2>18
  <1> QED BY <1>1, AlwaysCollect, PTL

===============================================================================
