---------------------------- MODULE EvaluationProofs ---------------------------
(***************************************************************************)
(* The evaluation of a policy, for every configuration: the pool loses no  *)
(* job and outlives no evaluation, and a report is written exactly when no *)
(* job raised.  The scripts around it, for any number of candidates: they  *)
(* leave no server behind, file every report under the candidate that      *)
(* produced it, and refuse none over what the one before still holds.      *)
(***************************************************************************)
EXTENDS PolicyEval, EvalOrchestration, FoldLemmas, FiniteSetTheorems, TLAPS

(* The pool of PolicyEval *)

SampleIds == 0..(Samples - 1)

\* Where the jobs are, and what the main thread has taken.
Partition ==
    /\ waiting \cup running \cup DOMAIN future = Jobs
    /\ waiting \cap running = {}
    /\ (waiting \cup running) \cap DOMAIN future = {}
    /\ IsFiniteSet(running) /\ Cardinality(running) <= Workers
    /\ future \in [DOMAIN future -> Outcomes]

ResultsOK ==
    /\ results \in [Tasks -> Seq(Trajectories)]
    /\ \A t \in Tasks :
         /\ Taken(t) \subseteq SampleIds
         /\ IsFiniteSet(Taken(t)) /\ Cardinality(Taken(t)) = Len(results[t])
         /\ \A s \in Taken(t) : <<t, s>> \in DOMAIN future /\ future[<<t, s>>] # "raised"

PhaseOK ==
    /\ phase \in {"collecting", "unwinding", "reported", "raised"}
    /\ phase \in {"unwinding", "raised"} => \E job \in DOMAIN future : future[job] = "raised"
    /\ phase = "reported" => \A job \in Jobs : job \in DOMAIN future /\ future[job] # "raised"
    /\ phase = "raised" => waiting = {} /\ running = {}

EvalInv == Partition /\ ResultsOK /\ PhaseOK

LEMMA TaskTypes == Tasks \subseteq Nat /\ Jobs = Tasks \X SampleIds /\ Samples \in Nat /\ Workers \in Nat
  BY EvalAssumptions DEF Tasks, Range, Jobs, SampleIds

\* The domain and the elements of a longer sequence.
LEMMA Longer ==
  ASSUME NEW S, NEW rs \in Seq(S), NEW x \in S
  PROVE  /\ Append(rs, x) \in Seq(S) /\ Len(Append(rs, x)) = Len(rs) + 1 /\ Len(rs) \in Nat
         /\ DOMAIN Append(rs, x) = DOMAIN rs \cup {Len(rs) + 1}
         /\ Append(rs, x)[Len(rs) + 1] = x
         /\ \A k \in DOMAIN rs : Append(rs, x)[k] = rs[k]
  <1>1. Append(rs, x) \in Seq(S) /\ Len(Append(rs, x)) = Len(rs) + 1 /\ Len(rs) \in Nat
    OBVIOUS
  <1>2. DOMAIN rs = 1..Len(rs) /\ DOMAIN Append(rs, x) = 1..(Len(rs) + 1)
    OBVIOUS
  <1> QED BY <1>1, <1>2

SamplesIn(rs) == {rs[k].sample : k \in DOMAIN rs}

\* A trajectory that is appended is the one more that has been taken.
LEMMA TakeOne ==
  ASSUME NEW rs \in Seq(Trajectories), NEW tr \in Trajectories,
         IsFiniteSet(SamplesIn(rs)), Cardinality(SamplesIn(rs)) = Len(rs),
         tr.sample \notin SamplesIn(rs)
  PROVE  /\ Append(rs, tr) \in Seq(Trajectories)
         /\ SamplesIn(Append(rs, tr)) = SamplesIn(rs) \cup {tr.sample}
         /\ IsFiniteSet(SamplesIn(Append(rs, tr)))
         /\ Cardinality(SamplesIn(Append(rs, tr))) = Len(Append(rs, tr))
  <1> DEFINE more == Append(rs, tr)
  <1>1. /\ more \in Seq(Trajectories) /\ Len(more) = Len(rs) + 1 /\ Len(rs) \in Nat
        /\ DOMAIN more = DOMAIN rs \cup {Len(rs) + 1}
        /\ more[Len(rs) + 1] = tr
        /\ \A k \in DOMAIN rs : more[k] = rs[k]
    BY Longer
  <1> HIDE DEF more
  <1>2. SamplesIn(more) = SamplesIn(rs) \cup {tr.sample}
    <2>1. \A k \in DOMAIN rs : k \in DOMAIN more /\ more[k].sample = rs[k].sample
      BY <1>1, Zenon
    <2>2. Len(rs) + 1 \in DOMAIN more /\ more[Len(rs) + 1].sample = tr.sample
      BY <1>1, Zenon
    <2>3. \A k \in DOMAIN more : k \in DOMAIN rs \/ k = Len(rs) + 1
      BY <1>1, Zenon
    <2>4. ASSUME NEW x PROVE x \in SamplesIn(more) <=> x \in SamplesIn(rs) \/ x = tr.sample
      <3>1. x \in SamplesIn(more) => x \in SamplesIn(rs) \/ x = tr.sample
        BY <2>1, <2>2, <2>3, Zenon DEF SamplesIn
      <3>2. x \in SamplesIn(rs) => x \in SamplesIn(more)
        BY <2>1, Zenon DEF SamplesIn
      <3>3. x = tr.sample => x \in SamplesIn(more)
        BY <2>2, Zenon DEF SamplesIn
      <3> QED BY <3>1, <3>2, <3>3
    <2> QED BY <2>4
  <1>3. IsFiniteSet(SamplesIn(more)) /\ Cardinality(SamplesIn(more)) = Cardinality(SamplesIn(rs)) + 1
    BY <1>2, FS_AddElement
  <1> QED BY <1>1, <1>2, <1>3 DEF more

LEMMA InitEval == Init => EvalInv
  <1> SUFFICES ASSUME Init PROVE EvalInv
    OBVIOUS
  <1> USE DEF Init
  <1>1. Partition
    BY FS_EmptySet, TaskTypes DEF Partition
  <1>2. ResultsOK
    <2>1. \A t \in Tasks : results[t] = <<>>
      OBVIOUS
    <2>2. DOMAIN <<>> = {} /\ Len(<<>>) = 0
      OBVIOUS
    <2>3. \A t \in Tasks : Taken(t) = {} /\ Len(results[t]) = 0
      BY <2>1, <2>2, Zenon DEF Taken
    <2>4. IsFiniteSet({}) /\ Cardinality({}) = 0
      BY FS_EmptySet
    <2>5. results \in [Tasks -> Seq(Trajectories)]
      OBVIOUS
    <2> QED BY <2>3, <2>4, <2>5, Zenon DEF ResultsOK
  <1>3. PhaseOK
    BY DEF PhaseOK
  <1> QED BY <1>1, <1>2, <1>3 DEF EvalInv

LEMMA TakeJobKeeps == ASSUME EvalInv, NEW job \in Jobs, TakeJob(job) PROVE EvalInv'
  <1> USE DEF TakeJob
  <1>1. Partition'
    <2>1. job \notin running /\ job \notin DOMAIN future
      BY DEF EvalInv, Partition
    <2>2. IsFiniteSet(running') /\ Cardinality(running') = Cardinality(running) + 1
      BY <2>1, FS_AddElement DEF EvalInv, Partition
    <2>3. Cardinality(running) \in Nat
      BY FS_CardinalityType DEF EvalInv, Partition
    <2>4. Cardinality(running') <= Workers
      BY <2>2, <2>3, TaskTypes
    <2>5. /\ waiting' \cup running' \cup DOMAIN future = Jobs
          /\ waiting' \cap running' = {}
          /\ (waiting' \cup running') \cap DOMAIN future = {}
      BY <2>1 DEF EvalInv, Partition
    <2> QED BY <2>2, <2>4, <2>5 DEF EvalInv, Partition
  <1>2. ResultsOK'
    BY DEF EvalInv, ResultsOK, Taken
  <1>3. PhaseOK'
    BY DEF EvalInv, PhaseOK
  <1> QED BY <1>1, <1>2, <1>3 DEF EvalInv

LEMMA EndJobKeeps == ASSUME EvalInv, NEW job \in Jobs, EndJob(job) PROVE EvalInv'
  <1> USE DEF EndJob
  <1>1. PICK o \in Outcomes : future' = [j \in DOMAIN future \cup {job} |-> IF j = job THEN o ELSE future[j]]
    OBVIOUS
  <1>2. job \in running /\ job \notin DOMAIN future /\ job \notin waiting
    BY DEF EvalInv, Partition
  <1>3. /\ DOMAIN future' = DOMAIN future \cup {job} /\ future'[job] = o
        /\ \A j \in DOMAIN future : future'[j] = future[j]
        /\ future' \in [DOMAIN future' -> Outcomes]
    BY <1>1, <1>2 DEF EvalInv, Partition
  <1>4. Partition'
    <2>1. IsFiniteSet(running') /\ Cardinality(running') <= Cardinality(running)
      BY FS_Subset DEF EvalInv, Partition
    <2>2. Cardinality(running) \in Nat /\ Cardinality(running') \in Nat
      BY <2>1, FS_CardinalityType DEF EvalInv, Partition
    <2>3. Cardinality(running') <= Workers
      BY <2>1, <2>2, TaskTypes DEF EvalInv, Partition
    <2> QED BY <1>2, <1>3, <2>1, <2>3 DEF EvalInv, Partition
  <1>5. ResultsOK'
    BY <1>3 DEF EvalInv, ResultsOK, Taken
  <1>6. PhaseOK'
    <2>1. phase \notin {"reported", "raised"}
      BY <1>2 DEF EvalInv, PhaseOK
    <2> QED BY <1>3, <2>1 DEF EvalInv, PhaseOK
  <1> QED BY <1>4, <1>5, <1>6 DEF EvalInv

LEMMA CollectKeeps ==
  ASSUME EvalInv, NEW t \in Tasks, NEW s \in SampleIds, Collect(t, s) PROVE EvalInv'
  <1> USE DEF Collect
  <1>1. <<t, s>> \in DOMAIN future /\ s \notin Taken(t)
    BY DEF Untaken
  <1>2. Partition'
    BY DEF EvalInv, Partition
  <1>3. CASE future[<<t, s>>] = "raised"
    <2>1. ResultsOK'
      BY <1>3 DEF EvalInv, ResultsOK, Taken
    <2>2. PhaseOK'
      BY <1>3, <1>1 DEF EvalInv, PhaseOK
    <2> QED BY <1>2, <2>1, <2>2 DEF EvalInv
  <1>4. CASE future[<<t, s>>] # "raised"
    <2> DEFINE tr == TrajectoryOf(t, s)
    <2>1. tr.sample = s /\ tr \in Trajectories
      BY TaskTypes, EvalAssumptions DEF TrajectoryOf, Trajectories, SeedFor, SampleIds
    <2> HIDE DEF tr
    <2>2. results' = [results EXCEPT ![t] = Append(@, tr)] /\ results \in [Tasks -> Seq(Trajectories)]
      BY <1>4 DEF tr, EvalInv, ResultsOK
    <2>3. results'[t] = Append(results[t], tr) /\ \A u \in Tasks \ {t} : results'[u] = results[u]
      BY <2>2
    <2>4. /\ results'[t] \in Seq(Trajectories)
          /\ Taken(t)' = Taken(t) \cup {s}
          /\ IsFiniteSet(Taken(t)') /\ Cardinality(Taken(t)') = Len(results'[t])
      <3>1. results[t] \in Seq(Trajectories) /\ IsFiniteSet(Taken(t)) /\ Cardinality(Taken(t)) = Len(results[t])
        BY DEF EvalInv, ResultsOK
      <3>2. Taken(t) = SamplesIn(results[t]) /\ Taken(t)' = SamplesIn(results'[t])
        BY Zenon DEF Taken, SamplesIn
      <3>3. tr.sample \notin SamplesIn(results[t])
        BY <1>1, <2>1, <3>2
      <3>4. IsFiniteSet(SamplesIn(results[t])) /\ Cardinality(SamplesIn(results[t])) = Len(results[t])
        BY <3>1, <3>2
      <3>5. /\ Append(results[t], tr) \in Seq(Trajectories)
            /\ SamplesIn(Append(results[t], tr)) = SamplesIn(results[t]) \cup {tr.sample}
            /\ IsFiniteSet(SamplesIn(Append(results[t], tr)))
            /\ Cardinality(SamplesIn(Append(results[t], tr))) = Len(Append(results[t], tr))
        BY <3>1, <3>3, <3>4, <2>1, TakeOne
      <3> QED BY <3>2, <3>5, <2>1, <2>3
    <2>5. ResultsOK'
      <3>1. results' \in [Tasks -> Seq(Trajectories)]
        BY <2>2, <2>4, <2>3
      <3>2. \A u \in Tasks \ {t} : Taken(u)' = Taken(u)
        BY <2>3 DEF Taken
      <3>3. /\ Taken(t)' \subseteq SampleIds
            /\ \A r \in Taken(t)' : <<t, r>> \in DOMAIN future /\ future[<<t, r>>] # "raised"
        BY <2>4, <1>1, <1>4 DEF EvalInv, ResultsOK
      <3>4. ASSUME NEW u \in Tasks
            PROVE  /\ Taken(u)' \subseteq SampleIds
                   /\ IsFiniteSet(Taken(u)') /\ Cardinality(Taken(u)') = Len(results'[u])
                   /\ \A r \in Taken(u)' : <<u, r>> \in DOMAIN future /\ future[<<u, r>>] # "raised"
        <4>1. CASE u = t
          BY <4>1, <3>3, <2>4
        <4>2. CASE u # t
          <5>1. Taken(u)' = Taken(u) /\ results'[u] = results[u]
            BY <4>2, <3>2, <2>3
          <5> QED BY <5>1 DEF EvalInv, ResultsOK
        <4> QED BY <4>1, <4>2
      <3> QED BY <3>1, <3>4 DEF ResultsOK
    <2>6. PhaseOK'
      BY <1>4 DEF EvalInv, PhaseOK
    <2> QED BY <1>2, <2>5, <2>6 DEF EvalInv
  <1> QED BY <1>3, <1>4

\* Whoever writes the report has taken every sample of every task.
LEMMA AllTaken == ASSUME EvalInv, Report PROVE \A t \in Tasks : Taken(t) = SampleIds
  <1> SUFFICES ASSUME NEW t \in Tasks PROVE Taken(t) = SampleIds
    OBVIOUS
  <1>1. Cardinality(Taken(t)) = Samples /\ Taken(t) \subseteq SampleIds
    BY DEF Report, EvalInv, ResultsOK
  <1>2. IsFiniteSet(SampleIds) /\ Cardinality(SampleIds) = Samples
    BY FS_Interval, EvalAssumptions DEF SampleIds
  <1> QED BY <1>1, <1>2, FS_Subset

LEMMA ReportKeeps == ASSUME EvalInv, Report PROVE EvalInv'
  <1> USE DEF Report
  <1>1. Partition' /\ ResultsOK'
    BY DEF EvalInv, Partition, ResultsOK, Taken
  <1>2. \A t \in Tasks : Taken(t) = SampleIds
    BY AllTaken
  <1>3. ASSUME NEW job \in Jobs PROVE job \in DOMAIN future /\ future[job] # "raised"
    <2>1. job \in Tasks \X SampleIds
      BY TaskTypes
    <2>2. job[1] \in Tasks /\ job[2] \in SampleIds /\ job = <<job[1], job[2]>>
      BY <2>1
    <2>3. job[2] \in Taken(job[1])
      BY <2>2, <1>2
    <2> QED BY <2>2, <2>3 DEF EvalInv, ResultsOK
  <1>4. PhaseOK'
    BY <1>3 DEF EvalInv, PhaseOK
  <1> QED BY <1>1, <1>4 DEF EvalInv

LEMMA UnwindKeeps == ASSUME EvalInv, Unwind PROVE EvalInv'
  BY DEF Unwind, PoolIdle, EvalInv, Partition, ResultsOK, Taken, PhaseOK

LEMMA NextKeeps == EvalInv /\ [Next]_evalVars => EvalInv'
  <1> SUFFICES ASSUME EvalInv, [Next]_evalVars PROVE EvalInv'
    OBVIOUS
  <1>1. ASSUME NEW job \in Jobs, TakeJob(job) PROVE EvalInv'
    BY <1>1, TakeJobKeeps
  <1>2. ASSUME NEW job \in Jobs, EndJob(job) PROVE EvalInv'
    BY <1>2, EndJobKeeps
  <1>3. ASSUME NEW job \in Jobs, Collect(job[1], job[2]) PROVE EvalInv'
    <2>1. job[1] \in Tasks /\ job[2] \in SampleIds
      BY TaskTypes
    <2> QED BY <1>3, <2>1, CollectKeeps
  <1>4. CASE Unwind
    BY <1>4, UnwindKeeps
  <1>5. CASE Report
    BY <1>5, ReportKeeps
  <1>6. CASE UNCHANGED evalVars
    BY <1>6 DEF evalVars, EvalInv, Partition, ResultsOK, Taken, PhaseOK
  <1> QED BY <1>1, <1>2, <1>3, <1>4, <1>5, <1>6 DEF Next

LEMMA AlwaysEval == Spec => []EvalInv
  BY InitEval, NextKeeps, PTL DEF Spec

\* The jobs are partitioned among the pool's queue, its workers and the futures,
\* and the results and phases keep their types.
THEOREM PoolTypes == Spec => []EvalTypeOK
  <1>1. EvalInv => EvalTypeOK
    BY DEF EvalInv, Partition, ResultsOK, PhaseOK, EvalTypeOK
  <1> QED BY <1>1, AlwaysEval, PTL

\* For any number of tasks, samples and workers run_eval returns or raises only
\* after every job has ended.
THEOREM NothingOutlives == Spec => []NoJobOutlives
  <1>1. EvalInv => NoJobOutlives
    <2> SUFFICES ASSUME EvalInv, Returned PROVE running = {} /\ DOMAIN future = Jobs
      BY DEF NoJobOutlives
    <2>1. CASE phase = "reported"
      BY <2>1 DEF EvalInv, PhaseOK, Partition
    <2>2. CASE phase = "raised"
      BY <2>2 DEF EvalInv, PhaseOK, Partition
    <2> QED BY <2>1, <2>2 DEF Returned
  <1> QED BY <1>1, AlwaysEval, PTL

\* For any number of tasks, samples and workers a report is written exactly when
\* every job has a trajectory.
THEOREM ReportedIffComplete == Spec => []AllOrNothing
  <1>1. EvalInv => AllOrNothing
    <2> SUFFICES ASSUME EvalInv, Returned
                 PROVE phase = "reported" <=> \A job \in Jobs : job \in DOMAIN future /\ future[job] # "raised"
      BY DEF AllOrNothing
    <2>1. CASE phase = "reported"
      BY <2>1 DEF EvalInv, PhaseOK
    <2>2. CASE phase = "raised"
      BY <2>2 DEF EvalInv, PhaseOK, Partition
    <2> QED BY <2>1, <2>2 DEF Returned
  <1> QED BY <1>1, AlwaysEval, PTL

\* Two trajectories of a configuration share a seed only if they are the same
\* one, as long as a task has at most a thousand samples.
THEOREM SeedsDiffer ==
  ASSUME NEW base \in Nat, NEW t \in Nat, NEW u \in Nat,
         NEW r \in 0..999, NEW s \in 0..999,
         SeedFor(base, t, r) = SeedFor(base, u, s)
  PROVE  t = u /\ r = s
  BY DEF SeedFor

-------------------------------------------------------------------------------
(* Sorting *)

\* Numbers below n that only grow are all of them.
Climbs(f, n) == \A i, j \in Positions(n) : i < j => f[i] < f[j]
Below(n) == 0..(n - 1)

LEMMA ClimbsToItself ==
  ASSUME NEW n \in Nat, NEW f \in [Positions(n) -> Below(n)], Climbs(f, n)
  PROVE  \A i \in Positions(n) : f[i] = i - 1
  <1> USE DEF Positions, Below, Climbs
  <1> DEFINE T == {i \in Nat : i \in 1..n => f[i] >= i - 1}
             U == {j \in Nat : j < n => f[n - j] <= (n - j) - 1}
  <1>1. \A i \in 1..n : f[i] \in 0..(n - 1)
    OBVIOUS
  <1>2. \A i \in Nat : i \in T
    <2>1. 0 \in T
      OBVIOUS
    <2>2. ASSUME NEW i \in Nat, i \in T PROVE i + 1 \in T
      <3>1. CASE i = 0
        BY <3>1, <1>1
      <3>2. CASE i \in 1..n /\ i + 1 \in 1..n
        <4>1. f[i] < f[i + 1] /\ f[i] >= i - 1 /\ f[i] \in Int /\ f[i + 1] \in Int
          BY <3>2, <2>2, <1>1
        <4> QED BY <4>1
      <3>3. CASE i + 1 \notin 1..n
        BY <3>3
      <3> QED BY <3>1, <3>2, <3>3
    <2> HIDE DEF T
    <2> QED BY <2>1, <2>2, Induction
  <1>3. \A j \in Nat : j \in U
    <2>1. 0 \in U
      BY <1>1
    <2>2. ASSUME NEW j \in Nat, j \in U PROVE j + 1 \in U
      <3> SUFFICES ASSUME j + 1 < n PROVE f[n - (j + 1)] <= (n - (j + 1)) - 1
        OBVIOUS
      <3> DEFINE i == n - (j + 1)
      <3>1. i \in 1..n /\ i + 1 \in 1..n /\ i + 1 = n - j
        OBVIOUS
      <3>2. f[i] < f[i + 1] /\ f[i + 1] <= (n - j) - 1 /\ f[i] \in Int /\ f[i + 1] \in Int
        BY <3>1, <2>2, <1>1
      <3> QED BY <3>1, <3>2
    <2> HIDE DEF U
    <2> QED BY <2>1, <2>2, Induction
  <1>4. ASSUME NEW i \in 1..n PROVE f[i] = i - 1
    <2>1. f[i] >= i - 1
      BY <1>2
    <2>2. n - i \in Nat /\ n - (n - i) = i /\ n - i < n
      OBVIOUS
    <2>3. f[i] <= i - 1
      <3>1. n - i \in U
        BY <2>2, <1>3
      <3> QED BY <3>1, <2>2
    <2> QED BY <2>1, <2>3, <1>1
  <1> QED BY <1>4

\* n trajectories that have all the samples below n are sorted in one way.
LEMMA SortedIs ==
  ASSUME NEW n \in Nat, NEW rs \in Seq(Trajectories), Len(rs) = n, SamplesIn(rs) = Below(n)
  PROVE  /\ SortedBySample(rs) \in Seq(Trajectories) /\ DOMAIN SortedBySample(rs) = Positions(n)
         /\ Len(SortedBySample(rs)) = n
         /\ \A k \in Positions(n) :
              SortedBySample(rs)[k].sample = k - 1 /\ \E j \in DOMAIN rs : SortedBySample(rs)[k] = rs[j]
  <1> DEFINE D == Positions(n)
             key == [k \in D |-> rs[k].sample]
             Ordered(p) == \A i, j \in D : i < j => key[p[i]] <= key[p[j]]
             place == [i \in D |-> CHOOSE k \in D : key[k] = i - 1]
  <1>1. DOMAIN rs = D /\ \A k \in D : rs[k] \in Trajectories
    BY ElementOfSeq DEF Positions
  <1>2. IsFiniteSet(D) /\ Cardinality(D) = n /\ IsFiniteSet(Below(n)) /\ Cardinality(Below(n)) = n
    BY FS_Interval DEF Positions, Below
  <1>3. key \in [D -> Below(n)] /\ \A s \in Below(n) : \E k \in D : key[k] = s
    <2>1. \A k \in D : rs[k].sample \in Below(n)
      BY <1>1 DEF SamplesIn
    <2>2. \A s \in Below(n) : \E k \in D : rs[k].sample = s
      BY <1>1 DEF SamplesIn
    <2> QED BY <2>1, <2>2
  <1>4. \A j, k \in D : key[j] = key[k] => j = k
    <2> HIDE DEF key, D
    <2>1. key \in Surjection(D, Below(n))
      BY <1>3 DEF Surjection
    <2>2. key \in Injection(D, Below(n))
      BY <1>2, <2>1, FS_SurjSameCardinalityImpliesInj
    <2> QED BY <2>2 DEF Injection, IsInjective
  <1> HIDE DEF key
  <1>5. place \in [D -> D] /\ \A i \in D : key[place[i]] = i - 1
    <2>1. \A i \in D : i - 1 \in Below(n)
      BY DEF Positions, Below
    <2>2. \A i \in D : \E k \in D : key[k] = i - 1
      BY <1>3, <2>1
    <2> HIDE DEF D
    <2>3. \A i \in D : place[i] \in D /\ key[place[i]] = i - 1
      BY <2>2
    <2>4. place = [i \in D |-> place[i]]
      OBVIOUS
    <2> HIDE DEF place
    <2> QED BY <2>3, <2>4
  <1>6. place \in Bijection(D, D)
    <2>1. \A i, j \in D : place[i] = place[j] => i = j
      <3> SUFFICES ASSUME NEW i \in D, NEW j \in D, place[i] = place[j] PROVE i = j
        OBVIOUS
      <3>1. i - 1 = j - 1 /\ i \in Int /\ j \in Int
        <4>1. i \in Int /\ j \in Int
          BY DEF Positions
        <4> HIDE DEF place
        <4> QED BY <1>5, <4>1
      <3> QED BY <3>1
    <2> HIDE DEF place
    <2>2. \A k \in D : \E i \in D : place[i] = k
      <3> SUFFICES ASSUME NEW k \in D PROVE \E i \in D : place[i] = k
        OBVIOUS
      <3> DEFINE i == key[k] + 1
      <3>1. i \in D /\ i - 1 = key[k]
        <4>1. key[k] \in 0..(n - 1)
          <5> HIDE DEF D
          <5> QED BY <1>3 DEF Below
        <4>2. \A a \in 0..(n - 1) : a + 1 \in 1..n /\ (a + 1) - 1 = a
          OBVIOUS
        <4> QED BY <4>1, <4>2, Zenon DEF Positions
      <3>2. place[i] \in D /\ key[place[i]] = key[k]
        <4> HIDE DEF i, D
        <4> QED BY <3>1, <1>5
      <3> QED BY <3>1, <3>2, <1>4
    <2>3. place \in Injection(D, D) /\ place \in Surjection(D, D)
      <3> HIDE DEF D
      <3> QED BY <1>5, <2>1, <2>2 DEF Injection, Surjection, IsInjective
    <2> QED BY <2>3 DEF Bijection
  <1>7. Ordered(place)
    <2> SUFFICES ASSUME NEW i \in D, NEW j \in D, i < j PROVE key[place[i]] <= key[place[j]]
      OBVIOUS
    <2>1. i \in Int /\ j \in Int
      BY DEF Positions
    <2>2. key[place[i]] = i - 1 /\ key[place[j]] = j - 1
      <3> HIDE DEF place, D
      <3> QED BY <1>5
    <2> HIDE DEF place
    <2> QED BY <2>1, <2>2
  <1> DEFINE order == CHOOSE p \in Bijection(D, D) : Ordered(p)
  <1>8. order \in Bijection(D, D) /\ Ordered(order)
    <2> HIDE DEF place, Ordered, D
    <2> QED BY <1>6, <1>7
  <1>9. SortedBySample(rs) = [k \in D |-> rs[order[k]]]
    <2>1. \A p \in Bijection(D, D) : \A i \in D : p[i] \in D
      BY DEF Bijection, Injection
    <2>2. \A p \in Bijection(D, D) :
            Ordered(p) <=> \A i, j \in D : i < j => rs[p[i]].sample <= rs[p[j]].sample
      <3> HIDE DEF D
      <3> QED BY <2>1 DEF key
    <2>3. order = CHOOSE p \in Bijection(D, D) :
                    \A i, j \in D : i < j => rs[p[i]].sample <= rs[p[j]].sample
      <3> HIDE DEF D, Ordered
      <3> QED BY <2>2
    <2> HIDE DEF order, D
    <2> QED BY <1>1, <2>3 DEF SortedBySample
  <1> HIDE DEF order, place
  <1> DEFINE f == [k \in D |-> key[order[k]]]
  <1>10. order \in [D -> D] /\ \A i, j \in D : order[i] = order[j] => i = j
    BY <1>8 DEF Bijection, Injection, IsInjective
  <1>11. f \in [D -> Below(n)] /\ Climbs(f, n)
    <2>1. f \in [D -> Below(n)]
      <3> HIDE DEF D
      <3> QED BY <1>10, <1>3
    <2>2. ASSUME NEW i \in D, NEW j \in D, i < j PROVE f[i] < f[j]
      <3>1. f[i] <= f[j]
        BY <1>8, <2>2
      <3>2. f[i] # f[j]
        <4>1. order[i] # order[j]
          <5>1. i # j
            BY <2>2 DEF Positions
          <5> QED BY <5>1, <1>10
        <4> QED BY <4>1, <1>4, <1>10
      <3>3. f[i] \in Int /\ f[j] \in Int
        BY <2>1 DEF Below
      <3> HIDE DEF f
      <3> QED BY <3>1, <3>2, <3>3
    <2> QED BY <2>1, <2>2 DEF Climbs
  <1>12. \A i \in D : f[i] = i - 1
    <2> HIDE DEF f
    <2> QED BY <1>11, ClimbsToItself
  <1>13. \A k \in D : SortedBySample(rs)[k] = rs[order[k]] /\ order[k] \in DOMAIN rs
    BY <1>1, <1>9, <1>10
  <1>14. \A k \in D : SortedBySample(rs)[k].sample = k - 1 /\ SortedBySample(rs)[k] \in Trajectories
    <2> SUFFICES ASSUME NEW k \in D
                 PROVE  SortedBySample(rs)[k].sample = k - 1 /\ SortedBySample(rs)[k] \in Trajectories
      OBVIOUS
    <2>1. SortedBySample(rs)[k] = rs[order[k]] /\ order[k] \in D
      BY <1>13, <1>10
    <2>2. rs[order[k]].sample = key[order[k]]
      BY <2>1 DEF key
    <2>3. key[order[k]] = f[k]
      OBVIOUS
    <2> QED BY <2>1, <2>2, <2>3, <1>12, <1>1
  <1>15. SortedBySample(rs) \in Seq(Trajectories) /\ Len(SortedBySample(rs)) = n
         /\ DOMAIN SortedBySample(rs) = D
    <2>1. SortedBySample(rs) \in [1..n -> Trajectories]
      BY <1>9, <1>14 DEF Positions
    <2> QED BY <2>1 DEF Positions
  <1> QED BY <1>13, <1>14, <1>15

-------------------------------------------------------------------------------
(* Fractions, and pass_at_k *)

Fractions == Int \X (Nat \ {0})

LEMMA FractionParts ==
  ASSUME NEW x \in Fractions
  PROVE  x[1] \in Int /\ x[2] \in Nat /\ x[2] # 0 /\ x = <<x[1], x[2]>>
  BY DEF Fractions

LEMMA AddIsFraction ==
  ASSUME NEW x \in Fractions, NEW y \in Fractions
  PROVE  AddFractions(x, y) \in Fractions
  <1> DEFINE a == x[1]
             b == x[2]
             c == y[1]
             d == y[2]
  <1>1. a \in Int /\ b \in Nat /\ b # 0 /\ c \in Int /\ d \in Nat /\ d # 0
    BY FractionParts
  <1>2. AddFractions(x, y) = <<a * d + c * b, b * d>>
    BY DEF AddFractions
  <1> HIDE DEF a, b, c, d
  <1>3. b * d \in Nat \ {0} /\ a * d + c * b \in Int
    BY <1>1
  <1> QED BY <1>2, <1>3 DEF Fractions

LEMMA AddSame ==
  ASSUME NEW x \in Fractions, NEW y \in Fractions, NEW u \in Fractions, NEW v \in Fractions,
         SameFraction(x, y), SameFraction(u, v)
  PROVE  SameFraction(AddFractions(x, u), AddFractions(y, v))
  <1> DEFINE a == x[1]
             b == x[2]
             c == y[1]
             d == y[2]
             p == u[1]
             q == u[2]
             r == v[1]
             s == v[2]
  <1>1. /\ a \in Int /\ b \in Int /\ c \in Int /\ d \in Int
        /\ p \in Int /\ q \in Int /\ r \in Int /\ s \in Int
    BY FractionParts
  <1>2. a * d = c * b /\ p * s = r * q
    BY DEF SameFraction
  <1>3. AddFractions(x, u) = <<a * q + p * b, b * q>> /\ AddFractions(y, v) = <<c * s + r * d, d * s>>
    BY DEF AddFractions
  <1> HIDE DEF a, b, c, d, p, q, r, s
  <1>4. (a * q + p * b) * (d * s) = (a * d) * (q * s) + (p * s) * (b * d)
    BY <1>1
  <1>5. (c * s + r * d) * (b * q) = (c * b) * (q * s) + (r * q) * (b * d)
    BY <1>1
  <1>6. (a * q + p * b) * (d * s) = (c * s + r * d) * (b * q)
    BY <1>2, <1>4, <1>5, Zenon
  <1> QED BY <1>3, <1>6 DEF SameFraction

\* Sums of as many fractions, one by one the same, are the same.
FractionStep(g, f, s) == IF s = {} THEN <<0, 1>> ELSE AddFractions(f[Picked(s)], g[s \ {Picked(s)}])
IsFractionSum(g, f, D) == g = [s \in D |-> FractionStep(g, f, s)]

LEMMA FractionSumExists ==
  ASSUME NEW S, IsFiniteSet(S), NEW f, \A x \in S : f[x] \in Fractions
  PROVE  \E g : IsFractionSum(g, f, SUBSET S)
  <1> DEFINE step == [p \in S \X Fractions |-> AddFractions(f[p[1]], p[2])]
  <1>1. step \in PickSteps(S, Fractions) /\ <<0, 1>> \in Fractions
    <2>1. \A p \in S \X Fractions : f[p[1]] \in Fractions /\ p[2] \in Fractions
      OBVIOUS
    <2>2. \A p \in S \X Fractions : AddFractions(f[p[1]], p[2]) \in Fractions
      BY <2>1, AddIsFraction
    <2>3. <<0, 1>> \in Fractions
      BY DEF Fractions
    <2> QED BY <2>2, <2>3 DEF PickSteps
  <1>2. \A x \in S, v \in Fractions : step[<<x, v>>] = AddFractions(f[x], v)
    OBVIOUS
  <1> HIDE DEF step
  <1>3. PICK g : PicksIn(g, step, <<0, 1>>, S, Fractions)
    BY <1>1, PickTyped
  <1> USE <1>3 DEF PicksIn
  <1>4. ASSUME NEW s \in SUBSET S PROVE g[s] = FractionStep(g, f, s)
    <2>1. CASE s = {}
      BY <1>3, <2>1 DEF PickStep, FractionStep
    <2>2. CASE s # {}
      <3>1. Picked(s) \in S /\ g[s \ {Picked(s)}] \in Fractions
        BY <2>2, PickedIn
      <3>2. g[s] = step[<<Picked(s), g[s \ {Picked(s)}]>>]
        BY <1>3, <2>2 DEF PickStep
      <3>3. g[s] = AddFractions(f[Picked(s)], g[s \ {Picked(s)}])
        BY <1>2, <3>1, <3>2
      <3> QED BY <2>2, <3>3 DEF FractionStep
    <2> QED BY <2>1, <2>2
  <1>5. g = [s \in SUBSET S |-> FractionStep(g, f, s)]
    <2>1. g = [s \in SUBSET S |-> g[s]]
      OBVIOUS
    <2> QED BY <1>4, <2>1
  <1> QED BY <1>5 DEF IsFractionSum

LEMMA SumsSame ==
  ASSUME NEW D, IsFiniteSet(D), NEW f, DOMAIN f = D, NEW h, DOMAIN h = D,
         \A x \in D : f[x] \in Fractions /\ h[x] \in Fractions /\ SameFraction(f[x], h[x])
  PROVE  SameFraction(SumFractions(f), SumFractions(h))
  <1>1. PICK g : IsFractionSum(g, f, SUBSET D) /\ SumFractions(f) = g[D]
    <2>1. SumFractions(f) = (CHOOSE g : IsFractionSum(g, f, SUBSET D))[D]
      BY DEF SumFractions, FoldSeq, FoldFunction, FoldFunctionOnSet, MapThenFoldSet, IsFractionSum,
             FractionStep, Picked
    <2>2. \E g : IsFractionSum(g, f, SUBSET D)
      BY FractionSumExists
    <2> QED BY <2>1, <2>2
  <1>2. PICK e : IsFractionSum(e, h, SUBSET D) /\ SumFractions(h) = e[D]
    <2>1. SumFractions(h) = (CHOOSE i : IsFractionSum(i, h, SUBSET D))[D]
      BY DEF SumFractions, FoldSeq, FoldFunction, FoldFunctionOnSet, MapThenFoldSet, IsFractionSum,
             FractionStep, Picked
    <2>2. \E i : IsFractionSum(i, h, SUBSET D)
      BY FractionSumExists
    <2> QED BY <2>1, <2>2
  <1> DEFINE W == {s \in SUBSET D : g[s] \in Fractions /\ e[s] \in Fractions /\ SameFraction(g[s], e[s])}
  <1>3. \A s \in SUBSET D : g[s] = FractionStep(g, f, s) /\ e[s] = FractionStep(e, h, s)
    BY <1>1, <1>2 DEF IsFractionSum
  <1>4. {} \in W
    <2>1. g[{}] = <<0, 1>> /\ e[{}] = <<0, 1>>
      BY <1>3 DEF FractionStep
    <2>2. <<0, 1>> \in Fractions /\ SameFraction(<<0, 1>>, <<0, 1>>)
      BY DEF Fractions, SameFraction
    <2> QED BY <2>1, <2>2
  <1>5. ASSUME NEW s \in SUBSET D, s # {}, \A x \in s : s \ {x} \in W PROVE s \in W
    <2> DEFINE x == Picked(s)
               r == s \ {x}
    <2>1. x \in s /\ r \in W
      BY <1>5, PickedIn
    <2>2. g[s] = AddFractions(f[x], g[r]) /\ e[s] = AddFractions(h[x], e[r])
      BY <1>3, <1>5 DEF FractionStep
    <2>3. /\ f[x] \in Fractions /\ h[x] \in Fractions /\ SameFraction(f[x], h[x])
          /\ g[r] \in Fractions /\ e[r] \in Fractions /\ SameFraction(g[r], e[r])
      BY <2>1
    <2> HIDE DEF x, r
    <2>4. g[s] \in Fractions /\ e[s] \in Fractions
      BY <2>2, <2>3, AddIsFraction
    <2>5. SameFraction(g[s], e[s])
      BY <2>2, <2>3, AddSame
    <2> QED BY <2>4, <2>5
  <1>6. SUBSET D \subseteq W
    <2> HIDE DEF W
    <2> QED BY <1>4, <1>5, SubsetInduction
  <1>7. D \in W
    BY <1>6
  <1> QED BY <1>1, <1>2, <1>7

\* The sets of k attempts that include one of C.
Hitting(k, S, C) == {a \in kSubset(k, S) : a \cap C # {}}

LEMMA HittingCount ==
  ASSUME NEW S, IsFiniteSet(S), NEW C \in SUBSET S, NEW k
  PROVE  Cardinality(Hitting(k, S, C)) = Ways(k, S) - Ways(k, S \ C)
  <1> DEFINE A == kSubset(k, S)
             M == kSubset(k, S \ C)
             H == Hitting(k, S, C)
  <1>1. IsFiniteSet(S \ C)
    BY FS_Subset
  <1>2. IsFiniteSet(A) /\ IsFiniteSet(M) /\ Ways(k, S) \in Nat /\ Ways(k, S \ C) \in Nat
    BY <1>1, WaysType
  <1>3. H = A \ M /\ A \cap M = M
    BY DEF kSubset, Hitting
  <1>4. Cardinality(A \ M) = Cardinality(A) - Cardinality(A \cap M)
    <2> HIDE DEF A, M
    <2> QED BY <1>2, FS_Difference
  <1> QED BY <1>3, <1>4 DEF Ways

\* pass_at_k for any number of samples, successes and attempts.
LEMMA PassAtKIs ==
  ASSUME NEW S, IsFiniteSet(S), NEW C \in SUBSET S, NEW k \in Nat, k <= Cardinality(S)
  PROVE  /\ PassAtK(Cardinality(S), Cardinality(C), k) \in Fractions
         /\ SameFraction(PassAtK(Cardinality(S), Cardinality(C), k),
                         <<Ways(k, S) - Ways(k, S \ C), Ways(k, S)>>)
  <1> DEFINE n == Cardinality(S)
             c == Cardinality(C)
             F == S \ C
             a == Cardinality(F)
             w == Ways(k, S)
             v == Ways(k, F)
  <1>1. IsFiniteSet(C) /\ IsFiniteSet(F) /\ F \cap C = {} /\ F \cup C = S
    BY FS_Subset
  <1>2. n \in Nat /\ c \in Nat /\ a \in Nat /\ w \in Nat /\ v \in Nat
    BY <1>1, FS_CardinalityType, WaysType
  <1>3. n - c = a /\ n = a + c
    <2>1. a = n - Cardinality(S \cap C) /\ S \cap C = C
      BY FS_Difference
    <2>2. a = n - c
      BY <2>1
    <2> HIDE DEF n, c, a
    <2> QED BY <2>2, <1>2
  <1>4. CASE a < k
    <2>1. PassAtK(n, c, k) = <<1, 1>>
      BY <1>3, <1>4 DEF PassAtK
    <2>2. v = 0
      BY <1>1, <1>4, WaysAtEnds
    <2> HIDE DEF n, c, w, v
    <2>3. <<1, 1>> \in Fractions /\ SameFraction(<<1, 1>>, <<w - v, w>>)
      BY <1>2, <2>2 DEF Fractions, SameFraction
    <2> QED BY <2>1, <2>3 DEF n, c, w, v
  <1>5. CASE ~(a < k)
    <2> DEFINE all == ProductSet(Drawn(a, c))
               less == ProductSet(DrawnLess(a, c, k))
    <2>1. PassAtK(n, c, k) = <<all - less, all>>
      <3>1. (n - c + 1)..n = Drawn(a, c)
        BY <1>3 DEF Drawn
      <3> HIDE DEF n, c, a
      <3> QED BY <3>1, <1>3, <1>5 DEF PassAtK, DrawnLess
    <2>2. all \in Nat \ {0} /\ less \in Int
      <3>1. \A i, j \in Nat : ProductSet(Drawn(i, j)) \in Nat \ {0} /\ ProductSet(DrawnLess(i, j, k)) \in Int
        BY DrawnProducts
      <3> HIDE DEF a, c
      <3> QED BY <1>2, <3>1
    <2>3. less * w = all * v
      BY <1>1, WaysDrawn
    <2> HIDE DEF n, c, a, all, less, w, v
    <2>4. <<all - less, all>> \in Fractions
      BY <2>2 DEF Fractions
    <2>5. (all - less) * w = (w - v) * all
      <3>1. (all - less) * w = all * w - less * w
        BY <2>2, <1>2
      <3>2. (w - v) * all = all * w - all * v
        BY <2>2, <1>2
      <3> QED BY <3>1, <3>2, <2>3
    <2>6. SameFraction(<<all - less, all>>, <<w - v, w>>)
      BY <2>5 DEF SameFraction
    <2> QED BY <2>1, <2>4, <2>6 DEF n, c, w, v, F
  <1> QED BY <1>4, <1>5

\* pass^1 is the share of successes.
LEMMA PassAtOneIs ==
  ASSUME NEW S, IsFiniteSet(S), S # {}, NEW C \in SUBSET S
  PROVE  SameFraction(PassAtK(Cardinality(S), Cardinality(C), 1), <<Cardinality(C), Cardinality(S)>>)
  <1> DEFINE n == Cardinality(S)
             c == Cardinality(C)
             F == S \ C
  <1>1. IsFiniteSet(C) /\ IsFiniteSet(F) /\ n \in Nat /\ c \in Nat /\ n # 0
    BY FS_Subset, FS_CardinalityType, FS_EmptySet
  <1>2. \A T : IsFiniteSet(T) => Ways(1, T) = Cardinality(T)
    <2> SUFFICES ASSUME NEW T, IsFiniteSet(T) PROVE Ways(1, T) = Cardinality(T)
      OBVIOUS
    <2>1. (0 + 1) * Ways(0 + 1, T) = (Cardinality(T) - 0) * Ways(0, T)
      BY AlwaysWaysGrow DEF WaysGrow
    <2>2. Ways(0, T) = 1 /\ Ways(1, T) \in Nat /\ Cardinality(T) \in Nat
      BY WaysAtEnds, WaysType, FS_CardinalityType
    <2> QED BY <2>1, <2>2
  <1>3. Cardinality(F) = n - c
    <2>1. Cardinality(F) = n - Cardinality(S \cap C) /\ S \cap C = C
      BY FS_Difference
    <2> QED BY <2>1
  <1>4. Ways(1, S) - Ways(1, F) = c /\ Ways(1, S) = n
    <2>1. Ways(1, S) = n /\ Ways(1, F) = n - c
      BY <1>1, <1>2, <1>3
    <2> HIDE DEF n, c
    <2> QED BY <2>1, <1>1
  <1>5. SameFraction(PassAtK(n, c, 1), <<Ways(1, S) - Ways(1, F), Ways(1, S)>>)
    <2>1. 1 \in Nat /\ 1 <= Cardinality(S)
      BY <1>1
    <2> QED BY <2>1, PassAtKIs
  <1> QED BY <1>4, <1>5

-------------------------------------------------------------------------------
(* The report of PolicyEval *)

\* What the main thread has taken is what the jobs did, and a report is written
\* once, of all of it.
Faithful ==
    \A t \in Tasks : \A k \in DOMAIN results[t] :
        results[t][k] = TrajectoryOf(t, results[t][k].sample)

ReportOK == report # <<>> =>
    /\ phase = "reported"
    /\ report = [k \in DOMAIN TaskIds |-> Row(TaskIds[k])]
    /\ \A t \in Tasks : Taken(t) = SampleIds

ReportInv == EvalInv /\ Faithful /\ ReportOK

LEMMA CollectIsFaithful ==
  ASSUME EvalInv, Faithful, NEW t \in Tasks, NEW s \in SampleIds, Collect(t, s) PROVE Faithful'
  <1> USE DEF Collect
  <1> DEFINE tr == TrajectoryOf(t, s)
  <1>1. CASE UNCHANGED results
    BY <1>1 DEF Faithful, TrajectoryOf
  <1>2. CASE results' = [results EXCEPT ![t] = Append(@, tr)]
    <2>1. tr.sample = s /\ tr \in Trajectories
      BY TaskTypes, EvalAssumptions DEF TrajectoryOf, Trajectories, SeedFor, SampleIds
    <2>2. results \in [Tasks -> Seq(Trajectories)] /\ results[t] \in Seq(Trajectories)
      BY DEF EvalInv, ResultsOK
    <2>3. UNCHANGED future
      OBVIOUS
    <2> HIDE DEF tr
    <2>4. results'[t] = Append(results[t], tr) /\ \A u \in Tasks \ {t} : results'[u] = results[u]
      BY <1>2, <2>2
    <2>5. /\ DOMAIN results'[t] = DOMAIN results[t] \cup {Len(results[t]) + 1}
          /\ results'[t][Len(results[t]) + 1] = tr
          /\ \A k \in DOMAIN results[t] : results'[t][k] = results[t][k]
      BY <2>1, <2>2, <2>4, Longer
    <2>6. ASSUME NEW u \in Tasks, NEW k \in DOMAIN results'[u]
          PROVE  results'[u][k] = TrajectoryOf(u, results'[u][k].sample)
      <3>1. CASE u # t
        BY <3>1, <2>4, <2>6 DEF Faithful
      <3>2. CASE u = t /\ k \in DOMAIN results[t]
        BY <3>2, <2>5 DEF Faithful
      <3>3. CASE u = t /\ k = Len(results[t]) + 1
        BY <3>3, <2>1, <2>5 DEF tr
      <3> QED BY <3>1, <3>2, <3>3, <2>5, <2>6
    <2> QED BY <2>3, <2>6 DEF Faithful, TrajectoryOf
  <1> QED BY <1>1, <1>2

LEMMA EndIsFaithful ==
  ASSUME EvalInv, Faithful, NEW job \in Jobs, EndJob(job) PROVE Faithful'
  <1> USE DEF EndJob
  <1>1. PICK o \in Outcomes : future' = [j \in DOMAIN future \cup {job} |-> IF j = job THEN o ELSE future[j]]
    OBVIOUS
  <1>2. job \notin DOMAIN future
    BY DEF EvalInv, Partition
  <1>3. \A j \in DOMAIN future : future'[j] = future[j]
    BY <1>1, <1>2
  <1>4. ASSUME NEW t \in Tasks, NEW k \in DOMAIN results[t]
        PROVE  TrajectoryOf(t, results[t][k].sample)' = results[t][k]
    <2> DEFINE s == results[t][k].sample
    <2>1. <<t, s>> \in DOMAIN future
      BY DEF EvalInv, ResultsOK, Taken
    <2>2. future'[<<t, s>>] = future[<<t, s>>]
      BY <1>3, <2>1
    <2>3. results[t][k] = TrajectoryOf(t, s)
      BY DEF Faithful
    <2>4. s' = s
      OBVIOUS
    <2> HIDE DEF s
    <2> QED BY <2>2, <2>3, <2>4 DEF TrajectoryOf, s
  <1> QED BY <1>4 DEF Faithful

LEMMA NextReport == ReportInv /\ [Next]_evalVars => ReportInv'
  <1> SUFFICES ASSUME ReportInv, [Next]_evalVars PROVE ReportInv'
    OBVIOUS
  <1> USE DEF ReportInv
  <1>1. EvalInv'
    BY NextKeeps
  <1>2. ASSUME UNCHANGED <<results, future>> PROVE Faithful'
    BY <1>2 DEF Faithful, TrajectoryOf
  <1>3. ASSUME UNCHANGED <<results, phase, report>> PROVE ReportOK'
    BY <1>3 DEF ReportOK, Row, Taken
  <1>4. ASSUME report = <<>>, UNCHANGED report PROVE ReportOK'
    BY <1>4 DEF ReportOK
  <1>5. phase # "reported" => report = <<>>
    BY DEF ReportOK
  <1>6. ASSUME NEW job \in Jobs, TakeJob(job) PROVE Faithful' /\ ReportOK'
    BY <1>6, <1>2, <1>3 DEF TakeJob
  <1>7. ASSUME NEW job \in Jobs, EndJob(job) PROVE Faithful' /\ ReportOK'
    BY <1>7, <1>3, EndIsFaithful DEF EndJob
  <1>8. ASSUME NEW job \in Jobs, Collect(job[1], job[2]) PROVE Faithful' /\ ReportOK'
    <2>1. job[1] \in Tasks /\ job[2] \in SampleIds
      BY TaskTypes
    <2>2. Faithful'
      BY <1>8, <2>1, CollectIsFaithful
    <2>3. report = <<>> /\ UNCHANGED report
      BY <1>8, <1>5 DEF Collect
    <2> QED BY <2>2, <2>3, <1>4
  <1>9. CASE Unwind
    <2>1. report = <<>> /\ UNCHANGED <<results, future, report>>
      BY <1>9, <1>5 DEF Unwind
    <2> QED BY <1>1, <2>1, <1>2, <1>4
  <1>10. CASE Report
    <2>1. UNCHANGED <<results, future>> /\ phase' = "reported"
          /\ report' = [k \in DOMAIN TaskIds |-> Row(TaskIds[k])]
      BY <1>10 DEF Report
    <2>2. \A t \in Tasks : Taken(t) = SampleIds
      BY <1>10, AllTaken
    <2>3. ReportOK'
      BY <2>1, <2>2 DEF ReportOK, Row, Taken
    <2> QED BY <1>1, <2>1, <2>3, <1>2
  <1>11. CASE UNCHANGED evalVars
    BY <1>11, <1>1, <1>2, <1>3 DEF evalVars
  <1> QED BY <1>1, <1>6, <1>7, <1>8, <1>9, <1>10, <1>11 DEF Next

LEMMA InitReport == Init => ReportInv
  <1> SUFFICES ASSUME Init PROVE ReportInv
    OBVIOUS
  <1>1. Faithful
    <2>1. \A t \in Tasks : results[t] = <<>>
      BY DEF Init
    <2>2. DOMAIN <<>> = {}
      OBVIOUS
    <2> QED BY <2>1, <2>2 DEF Faithful
  <1>2. ReportOK
    BY DEF Init, ReportOK
  <1> QED BY <1>1, <1>2, InitEval DEF ReportInv

LEMMA AlwaysReport == Spec => []ReportInv
  BY InitReport, NextReport, PTL DEF Spec

\* The row of a task all of whose samples have been taken.
LEMMA RowIs ==
  ASSUME EvalInv, Faithful, NEW t \in Tasks, Taken(t) = SampleIds
  PROVE  /\ Row(t).task_id = t /\ Len(Row(t).trajectories) = Samples
         /\ Attempted(Row(t)) = Positions(Samples)
         /\ \A k \in Positions(Samples) :
              Row(t).trajectories[k] = Written(t, TrajectoryOf(t, k - 1))
         /\ Row(t).pass_hat = PassKs(Samples, Cardinality(Successes(Row(t))))
  <1> DEFINE rs == results[t]
             ss == SortedBySample(rs)
             D == Positions(Samples)
             C == {k \in DOMAIN ss : ss[k].success}
             trajs == [k \in DOMAIN ss |-> Written(t, ss[k])]
  <1>1. rs \in Seq(Trajectories) /\ Cardinality(Taken(t)) = Len(rs)
    BY DEF EvalInv, ResultsOK
  <1>2. SamplesIn(rs) = Below(Samples) /\ Len(rs) = Samples /\ Samples \in Nat
    <2>1. SamplesIn(rs) = Taken(t) /\ SampleIds = Below(Samples)
      BY DEF SamplesIn, Taken, SampleIds, Below
    <2>2. Cardinality(SampleIds) = Samples
      BY FS_Interval, EvalAssumptions DEF SampleIds
    <2> QED BY <1>1, <2>1, <2>2, TaskTypes
  <1>3. \A k \in DOMAIN rs : rs[k] = TrajectoryOf(t, rs[k].sample)
    BY DEF Faithful
  <1>4. Row(t) = RowOf(t, ss)
    BY DEF Row
  <1> HIDE DEF rs
  <1>5. /\ ss \in Seq(Trajectories) /\ DOMAIN ss = D /\ Len(ss) = Samples
        /\ \A k \in D : ss[k].sample = k - 1 /\ \E j \in DOMAIN rs : ss[k] = rs[j]
    BY <1>1, <1>2, SortedIs
  <1>6. \A k \in D : ss[k] = TrajectoryOf(t, k - 1)
    BY <1>3, <1>5
  <1> HIDE DEF ss
  <1>7. /\ Row(t).task_id = t /\ Row(t).pass_hat = PassKs(Len(ss), Cardinality(C))
        /\ Row(t).trajectories = trajs
    BY <1>4 DEF RowOf
  <1>8. \A k \in D : trajs[k] = Written(t, TrajectoryOf(t, k - 1)) /\ trajs[k].success = ss[k].success
    BY <1>5, <1>6 DEF Written
  <1>9. DOMAIN trajs = D /\ Len(trajs) = Samples
    <2>1. DOMAIN trajs = 1..Samples
      BY <1>5 DEF Positions
    <2>2. Len(trajs) = Samples
      <3> HIDE DEF trajs
      <3>1. DOMAIN trajs = 1..Samples /\ Samples \in Nat
        BY <2>1, <1>2
      <3>2. trajs \in Seq({trajs[k] : k \in 1..Samples})
        <4> SUFFICES trajs = [k \in 1..Samples |-> trajs[k]]
          BY <1>2
        <4> QED BY <3>1 DEF trajs
      <3> QED BY <3>1, <3>2
    <2> QED BY <2>1, <2>2 DEF Positions
  <1>10. Successes(Row(t)) = C /\ Attempted(Row(t)) = D
    <2> HIDE DEF trajs
    <2>1. Attempted(Row(t)) = D
      BY <1>7, <1>9 DEF Attempted
    <2>2. Successes(Row(t)) = {s \in D : trajs[s].success}
      BY <1>7, <2>1 DEF Successes
    <2> QED BY <2>1, <2>2, <1>5, <1>8
  <1> HIDE DEF trajs, C
  <1> QED BY <1>5, <1>7, <1>8, <1>9, <1>10

LEMMA RowsOf ==
  ASSUME ReportInv, report # <<>>
  PROVE  /\ DOMAIN report = DOMAIN TaskIds /\ IsFiniteSet(DOMAIN report)
         /\ \A k \in DOMAIN TaskIds :
              TaskIds[k] \in Tasks /\ report[k] = Row(TaskIds[k]) /\ Taken(TaskIds[k]) = SampleIds
  <1>1. DOMAIN TaskIds = 1..Len(TaskIds) /\ Len(TaskIds) \in Nat
    BY EvalAssumptions
  <1>2. IsFiniteSet(DOMAIN TaskIds)
    BY <1>1, FS_Interval
  <1>3. \A k \in DOMAIN TaskIds : TaskIds[k] \in Tasks
    BY DEF Tasks, Range
  <1>4. report = [k \in DOMAIN TaskIds |-> Row(TaskIds[k])] /\ \A t \in Tasks : Taken(t) = SampleIds
    BY DEF ReportInv, ReportOK
  <1> QED BY <1>2, <1>3, <1>4

\* The report attributes to every job of every task what that job did.
THEOREM ReportedAsItWas == Spec => []ReportIsTheOutcomes
  <1>1. ReportInv => ReportIsTheOutcomes
    <2> SUFFICES ASSUME ReportInv, report # <<>>, NEW k \in DOMAIN TaskIds, NEW s \in 0..(Samples - 1)
                 PROVE  /\ <<TaskIds[k], s>> \in DOMAIN future
                        /\ report[k].trajectories[s + 1].success <=> future[<<TaskIds[k], s>>] = "success"
      BY DEF ReportIsTheOutcomes
    <2> DEFINE t == TaskIds[k]
    <2>1. t \in Tasks /\ report[k] = Row(t) /\ Taken(t) = SampleIds
      BY RowsOf
    <2>2. s \in Taken(t) /\ s + 1 \in Positions(Samples) /\ (s + 1) - 1 = s
      BY <2>1, TaskTypes DEF SampleIds, Positions
    <2> HIDE DEF t
    <2>3. <<t, s>> \in DOMAIN future
      BY <2>1, <2>2 DEF ReportInv, EvalInv, ResultsOK
    <2>4. Row(t).trajectories[s + 1] = Written(t, TrajectoryOf(t, (s + 1) - 1))
      BY <2>1, <2>2, RowIs DEF ReportInv
    <2>5. Written(t, TrajectoryOf(t, s)).success <=> future[<<t, s>>] = "success"
      BY DEF Written, TrajectoryOf
    <2> QED BY <2>1, <2>2, <2>3, <2>4, <2>5 DEF t
  <1> QED BY <1>1, AlwaysReport, PTL

LEMMA PassHats ==
  ASSUME EvalInv, Faithful, NEW t \in Tasks, Taken(t) = SampleIds
  PROVE  /\ IsFiniteSet(Attempted(Row(t))) /\ Cardinality(Attempted(Row(t))) = Samples
         /\ Successes(Row(t)) \in SUBSET Attempted(Row(t))
         /\ DOMAIN Row(t).pass_hat = {k \in Ks : k <= Samples}
         /\ \A k \in DOMAIN Row(t).pass_hat :
              Row(t).pass_hat[k] = PassAtK(Samples, Cardinality(Successes(Row(t))), k)
  <1>1. IsFiniteSet(Positions(Samples)) /\ Cardinality(Positions(Samples)) = Samples
    BY FS_Interval, EvalAssumptions DEF Positions
  <1>2. /\ Attempted(Row(t)) = Positions(Samples)
        /\ Row(t).pass_hat = PassKs(Samples, Cardinality(Successes(Row(t))))
    BY RowIs
  <1>3. Successes(Row(t)) \in SUBSET Attempted(Row(t))
    BY DEF Successes
  <1> QED BY <1>1, <1>2, <1>3 DEF PassKs

\* For any number of samples every pass^k that is reported is the share of the
\* sets of k attempts that include a success.
THEOREM AlwaysUnbiased == Spec => []PassAtKUnbiased
  <1>1. ReportInv => PassAtKUnbiased
    <2> SUFFICES ASSUME ReportInv, NEW i \in DOMAIN report, NEW k \in DOMAIN report[i].pass_hat
                 PROVE  SameFraction(report[i].pass_hat[k],
                          ShareOfAttempts(report[i], k, Hitting(k, Attempted(report[i]), Successes(report[i]))))
      BY DEF PassAtKUnbiased, Hitting
    <2>1. report # <<>>
      <3>1. DOMAIN <<>> = {}
        OBVIOUS
      <3> QED BY <3>1
    <2> DEFINE t == TaskIds[i]
               row == Row(t)
               S == Attempted(row)
               C == Successes(row)
    <2>2. t \in Tasks /\ report[i] = row /\ Taken(t) = SampleIds
      BY <2>1, RowsOf
    <2> HIDE DEF t
    <2>3. /\ IsFiniteSet(S) /\ Cardinality(S) = Samples /\ C \in SUBSET S
          /\ k \in Ks /\ k <= Samples /\ row.pass_hat[k] = PassAtK(Samples, Cardinality(C), k)
      BY <2>2, PassHats DEF ReportInv
    <2>4. k \in Nat
      BY <2>3, EvalAssumptions
    <2> HIDE DEF row, S, C
    <2>5. SameFraction(PassAtK(Samples, Cardinality(C), k), <<Ways(k, S) - Ways(k, S \ C), Ways(k, S)>>)
      BY <2>3, <2>4, PassAtKIs
    <2>6. Cardinality(Hitting(k, S, C)) = Ways(k, S) - Ways(k, S \ C)
      BY <2>3, HittingCount
    <2>7. ShareOfAttempts(row, k, Hitting(k, S, C)) = <<Ways(k, S) - Ways(k, S \ C), Ways(k, S)>>
      BY <2>6 DEF ShareOfAttempts, Ways, S
    <2> QED BY <2>2, <2>3, <2>5, <2>7 DEF S, C
  <1> QED BY <1>1, AlwaysReport, PTL

\* Whatever order the jobs end in, the gate accepts the report.
THEOREM GateAccepts == Spec => []ReportPassesGate
  <1>1. ReportInv => ReportPassesGate
    <2> SUFFICES ASSUME ReportInv, report # <<>> PROVE Gate(report)
      BY DEF ReportPassesGate
    <2> DEFINE D == DOMAIN report
               f == [k \in D |-> report[k].pass_hat[1]]
               h == [k \in D |-> SuccessRate(report[k])]
    <2>1. /\ D = DOMAIN TaskIds /\ IsFiniteSet(D)
          /\ \A k \in D : TaskIds[k] \in Tasks /\ report[k] = Row(TaskIds[k]) /\ Taken(TaskIds[k]) = SampleIds
      BY RowsOf
    <2>2. EvalInv /\ Faithful
      BY DEF ReportInv
    <2>3. [k \in D |-> report[k].task_id] = TaskIds
      <3>1. \A k \in D : report[k].task_id = TaskIds[k]
        BY <2>1, <2>2, RowIs
      <3>2. TaskIds = [k \in DOMAIN TaskIds |-> TaskIds[k]]
        BY EvalAssumptions
      <3> QED BY <2>1, <3>1, <3>2
    <2>4. ASSUME NEW k \in D PROVE RowPasses(report[k])
      <3> DEFINE t == TaskIds[k]
                 row == Row(t)
      <3>1. t \in Tasks /\ report[k] = row /\ Taken(t) = SampleIds
        BY <2>1
      <3> HIDE DEF t
      <3>2. /\ row.task_id = t /\ Len(row.trajectories) = Samples
            /\ \A j \in Positions(Samples) : row.trajectories[j] = Written(t, TrajectoryOf(t, j - 1))
        BY <2>2, <3>1, RowIs
      <3>3. ASSUME NEW j \in 1..Samples
            PROVE  LET tr == row.trajectories[j] IN
                     /\ tr.sample = j - 1
                     /\ tr.policy_seed = SeedFor(PolicyBase, row.task_id, j - 1)
                     /\ tr.user_seed = SeedFor(UserBase, row.task_id, j - 1)
        <4>1. row.trajectories[j] = Written(t, TrajectoryOf(t, j - 1)) /\ row.task_id = t
          BY <3>2 DEF Positions
        <4> HIDE DEF row
        <4> QED BY <4>1 DEF Written, TrajectoryOf
      <3> HIDE DEF row
      <3> QED BY <3>1, <3>2, <3>3 DEF RowPasses
    <2>5. ASSUME NEW k \in D
          PROVE  f[k] \in Fractions /\ h[k] \in Fractions /\ SameFraction(f[k], h[k])
      <3> DEFINE t == TaskIds[k]
                 row == Row(t)
                 S == Attempted(row)
                 C == Successes(row)
      <3>1. t \in Tasks /\ report[k] = row /\ Taken(t) = SampleIds
        BY <2>1
      <3> HIDE DEF t
      <3>2. 1 \in Ks /\ 1 <= Samples /\ Samples \in Nat \ {0}
        BY EvalAssumptions
      <3>3. /\ IsFiniteSet(S) /\ Cardinality(S) = Samples /\ C \in SUBSET S
            /\ row.pass_hat[1] = PassAtK(Samples, Cardinality(C), 1)
        BY <2>2, <3>1, <3>2, PassHats
      <3>4. Len(row.trajectories) = Samples
        BY <2>2, <3>1, RowIs
      <3>5. SuccessRate(row) = <<Cardinality(C), Samples>>
        BY <3>4 DEF SuccessRate, Successes, Attempted
      <3> HIDE DEF row, S, C
      <3>6. S # {} /\ Cardinality(C) \in Nat
        <4>1. IsFiniteSet(C)
          BY <3>3, FS_Subset
        <4> QED BY <4>1, <3>2, <3>3, FS_EmptySet, FS_CardinalityType
      <3>7. SameFraction(PassAtK(Samples, Cardinality(C), 1), <<Cardinality(C), Samples>>)
        <4>1. SameFraction(PassAtK(Cardinality(S), Cardinality(C), 1), <<Cardinality(C), Cardinality(S)>>)
          BY <3>3, <3>6, PassAtOneIs
        <4> QED BY <4>1, <3>3
      <3>8. PassAtK(Samples, Cardinality(C), 1) \in Fractions
        <4>1. 1 \in Nat /\ 1 <= Cardinality(S)
          BY <3>2, <3>3
        <4>2. PassAtK(Cardinality(S), Cardinality(C), 1) \in Fractions
          BY <3>3, <4>1, PassAtKIs
        <4> QED BY <4>2, <3>3
      <3>9. <<Cardinality(C), Samples>> \in Fractions
        BY <3>2, <3>6 DEF Fractions
      <3> QED BY <3>1, <3>3, <3>5, <3>7, <3>8, <3>9
    <2>6. SameFraction(SumFractions(f), SumFractions(h))
      <3>1. DOMAIN f = D /\ DOMAIN h = D
        OBVIOUS
      <3> HIDE DEF f, h, D
      <3> QED BY <2>1, <2>5, <3>1, SumsSame
    <2> QED BY <2>3, <2>4, <2>6 DEF Gate
  <1> QED BY <1>1, AlwaysReport, PTL

-------------------------------------------------------------------------------
(* The scripts of EvalOrchestration *)

Waiting == {"ready", "dir", "port", "gpu"}
Serving == {"poll", "seen", "unseen_dev", "gate", "cleanup"}
ServerStates == {"none", "gone"} \cup Alive \cup HoldsMemory

ScriptsTypeOK ==
    /\ pc \in [Invocations -> {"ready"} \cup Running \cup Ended]
    /\ server \in [Invocations -> ServerStates]
    /\ faults \in [Faults -> Nat]
    /\ reports \in [Candidates -> [Splits -> SUBSET Candidates]]

\* A script has a server only while it serves, or left one when it was killed.
ServerOf(i) ==
    /\ server[i] \in Alive => pc[i] \in Serving \cup {"killed"}
    /\ pc[i] \in Waiting \cup {"given_up", "refused"} => server[i] = "none"

\* Those before a script that was started have ended.
OneByOne(i) == pc[i] # "ready" => \A j \in 1..(i - 1) : pc[j] \in Ended

\* A script that found the port free has it for itself.
OwnPort(i) ==
    pc[i] \in {"gpu"} \cup Trapped => \A j \in Invocations \ {i} : server[j] \notin HoldsPort

\* A candidate of the matrix starts with port and GPU free, and they stay so.
QuietStart(i) ==
    Follows[i] = "success" /\ pc[i] \in {"dir", "port", "gpu"}
    /\ (\A j \in 1..(i - 1) : pc[j] # "killed")
        => \A j \in Invocations : server[j] \notin HoldsMemory

MadeBy(c) == c \in made => \E i \in Invocations : CandidateOf[i] = c /\ pc[i] \notin Waiting

NotKilled == faults["kill"] = 0 => \A i \in Invocations : pc[i] # "killed" /\ OwnPort(i)

AnsweredByOwn == faults["kill"] = 0 => \A c \in Candidates, s \in Splits : reports[c][s] \subseteq {c}

ScriptsInv ==
    /\ ScriptsTypeOK
    /\ \A i \in Invocations : ServerOf(i)
    /\ \A i \in Invocations : OneByOne(i)
    /\ \A i \in Invocations : QuietStart(i)
    /\ NotKilled /\ AnsweredByOwn /\ completed \subseteq Candidates
    /\ \A c \in Candidates : MadeBy(c)
    /\ NeverRefusedByPredecessor



USE DEF Splits, Alive, HoldsMemory, HoldsPort, Ended, Trapped, Running, Waiting, Serving,
        ServerStates

AnyStep(i) ==
    \/ Start(i) \/ GiveUp(i) \/ Step(i)
    \/ EvaluationRaises(i) \/ Kill(i) \/ Terminate(i)
    \/ Load(i) \/ Listen(i) \/ Release(i) \/ Die(i)

Looking == {"dir", "port", "gpu"}

\* What a step of invocation i does to its script, whichever step it is.
ScriptMoves(i) ==
    /\ pc' = [pc EXCEPT ![i] = pc'[i]] /\ pc'[i] \in {"ready"} \cup Running \cup Ended
    /\ pc[i] \in Ended => pc'[i] = pc[i]
    /\ pc[i] = "ready" /\ pc'[i] # "ready" => Start(i) \/ GiveUp(i)
    /\ pc[i] # "ready" => pc'[i] # "ready"
    /\ pc'[i] \in Looking => pc[i] \in Looking \/ Start(i)
    /\ pc'[i] \in {"gpu"} \cup Trapped => pc[i] \in {"gpu"} \cup Trapped \/ ~PortTaken
    /\ pc'[i] = "refused" =>
         \/ pc[i] = "refused"
         \/ pc[i] \in Looking /\ (CandidateOf[i] \in made \/ PortTaken \/ MemoryTaken)
    /\ pc[i] \notin Waiting => pc'[i] \notin Waiting
    /\ pc'[i] = "killed" => pc[i] = "killed" \/ faults'["kill"] > 0

\* ... and to its server, which takes port or memory only while it comes up.
ServerMoves(i) ==
    /\ server' = [server EXCEPT ![i] = server'[i]] /\ server'[i] \in ServerStates
    /\ server'[i] \in HoldsMemory => server[i] \in HoldsMemory \cup Alive
    /\ server'[i] \in HoldsPort => server[i] \in HoldsPort \cup Alive
    /\ ServerOf(i) => ServerOf(i)'

FilesMove(i) ==
    /\ made' = made \/ (made' = made \cup {CandidateOf[i]} /\ pc'[i] \notin Waiting)
    /\ completed' \subseteq completed \cup {CandidateOf[i]}
    /\ \/ reports' = reports
       \/ \E split \in Splits : Request(i, split)
    /\ faults' \in [Faults -> Nat] /\ (faults'["kill"] = 0 => faults["kill"] = 0)

LEMMA Moves ==
  ASSUME ScriptsTypeOK, NEW i \in Invocations, AnyStep(i)
  PROVE  ScriptMoves(i) /\ ServerMoves(i) /\ FilesMove(i)
  <1> USE DEF ScriptsTypeOK, ScriptMoves, ServerMoves, FilesMove, ServerOf, Looking, Goto, Fault,
              Faults, disk
  <1>1. CASE Start(i)
    BY <1>1 DEF Start
  <1>2. CASE GiveUp(i)
    BY <1>2 DEF GiveUp
  <1>3. CASE CheckDir(i)
    BY <1>3 DEF CheckDir
  <1>4. CASE CheckPort(i)
    BY <1>4 DEF CheckPort
  <1>5. CASE CheckGpu(i)
    BY <1>5 DEF CheckGpu
  <1>6. CASE StartServer(i)
    BY <1>6 DEF StartServer
  <1>7. CASE PollReady(i)
    BY <1>7 DEF PollReady
  <1>8. CASE PollFails(i)
    BY <1>8 DEF PollFails, KilledServer
  <1>9. CASE Request(i, "seen")
    BY <1>9 DEF Request
  <1>10. CASE EndEvaluation(i, "seen", "unseen_dev")
    BY <1>10 DEF EndEvaluation
  <1>11. CASE Request(i, "unseen_dev")
    BY <1>11 DEF Request
  <1>12. CASE EndEvaluation(i, "unseen_dev", "gate")
    BY <1>12 DEF EndEvaluation
  <1>13. CASE CheckResult(i)
    BY <1>13 DEF CheckResult, KilledServer
  <1>14. CASE CleanupAndComplete(i)
    BY <1>14 DEF CleanupAndComplete, KilledServer
  <1>15. CASE EvaluationRaises(i)
    <2>1. ScriptMoves(i)
      BY <1>15 DEF EvaluationRaises
    <2>2. ServerMoves(i)
      BY <1>15 DEF EvaluationRaises, KilledServer
    <2>3. FilesMove(i)
      BY <1>15 DEF EvaluationRaises
    <2> QED BY <2>1, <2>2, <2>3
  <1>16. CASE Kill(i)
    BY <1>16 DEF Kill
  <1>17. CASE Terminate(i)
    BY <1>17 DEF Terminate, KilledServer
  <1>18. CASE Load(i)
    BY <1>18 DEF Load
  <1>19. CASE Listen(i)
    BY <1>19 DEF Listen
  <1>20. CASE Release(i)
    BY <1>20 DEF Release
  <1>21. CASE Die(i)
    BY <1>21 DEF Die
  <1> QED BY <1>1, <1>2, <1>3, <1>4, <1>5, <1>6, <1>7, <1>8, <1>9, <1>10, <1>11, <1>12, <1>13, <1>14, <1>15, <1>16, <1>17, <1>18, <1>19, <1>20, <1>21 DEF AnyStep, Step

\* A script that runs is the only one that does, and the servers of the others
\* go down, unless a script was killed.
LEMMA Alone ==
  ASSUME ScriptsInv, NEW i \in Invocations, NEW j \in Invocations \ {i}, pc[i] \in Running
  PROVE  /\ pc[j] \in Ended \cup {"ready"}
         /\ pc[j] # "killed" => server[j] \notin Alive
  <1>1. CASE j < i
    <2>1. j \in 1..(i - 1)
      BY <1>1 DEF Invocations
    <2>2. pc[j] \in Ended
      BY <2>1 DEF ScriptsInv, OneByOne
    <2> QED BY <2>2 DEF ScriptsInv, ServerOf
  <1>2. CASE i < j
    <2>1. i \in 1..(j - 1)
      BY <1>2 DEF Invocations
    <2>2. pc[j] = "ready"
      BY <2>1 DEF ScriptsInv, OneByOne
    <2> QED BY <2>2 DEF ScriptsInv, ServerOf
  <1> QED BY <1>1, <1>2 DEF Invocations

\* What the lemmas below take a step to be.
LEMMA StepFacts ==
  ASSUME ScriptsInv, NEW i \in Invocations, AnyStep(i)
  PROVE  /\ ScriptsTypeOK /\ ScriptMoves(i) /\ ServerMoves(i) /\ FilesMove(i)
         /\ \A j \in Invocations \ {i} : pc'[j] = pc[j] /\ server'[j] = server[j]
         /\ \A j \in Invocations : pc[j] \in Ended => pc'[j] = pc[j]
  <1>1. ScriptsTypeOK /\ ScriptMoves(i) /\ ServerMoves(i) /\ FilesMove(i)
    BY Moves DEF ScriptsInv
  <1> QED BY <1>1 DEF ScriptsTypeOK, ScriptMoves, ServerMoves

\* The invocation before one that starts or is given up has ended.
LEMMA Predecessor ==
  ASSUME NEW j \in Invocations, j # 1, Start(j) \/ GiveUp(j)
  PROVE  j - 1 \in Invocations /\ pc[j - 1] \in Ended
  <1>1. j - 1 \in Invocations /\ Follows[j] \in {"success", "end"}
    BY OrchestrationAssumptions DEF Invocations
  <1> QED BY <1>1 DEF Start, GiveUp, MayStart

LEMMA OrderKeeps ==
  ASSUME ScriptsInv, NEW i \in Invocations, AnyStep(i), NEW j \in Invocations
  PROVE  OneByOne(j)'
  <1>1. \A k \in Invocations : pc[k] \in Ended => pc'[k] \in Ended
    BY StepFacts
  <1>2. SUFFICES ASSUME pc'[j] # "ready" PROVE \A k \in 1..(j - 1) : pc[k] \in Ended
    <2>1. 1..(j - 1) \subseteq Invocations
      BY OrchestrationAssumptions DEF Invocations
    <2> QED BY <1>1, <1>2, <2>1 DEF OneByOne
  <1>3. CASE pc[j] # "ready"
    BY <1>3 DEF ScriptsInv, OneByOne
  <1>4. CASE pc[j] = "ready" /\ j = 1
    BY <1>4
  <1>5. CASE pc[j] = "ready" /\ j # 1
    <2>1. Start(j) \/ GiveUp(j)
      BY <1>2, <1>5, StepFacts DEF ScriptMoves
    <2>2. j - 1 \in Invocations /\ pc[j - 1] \in Ended /\ OneByOne(j - 1)
      BY <1>5, <2>1, Predecessor DEF ScriptsInv
    <2>3. ASSUME NEW k \in 1..(j - 1) PROVE k = j - 1 \/ k \in 1..((j - 1) - 1)
      BY DEF Invocations
    <2> QED BY <2>2, <2>3 DEF OneByOne
  <1> QED BY <1>3, <1>4, <1>5

LEMMA PortKeeps ==
  ASSUME ScriptsInv, NEW i \in Invocations, AnyStep(i), faults'["kill"] = 0
  PROVE  \A k \in Invocations : pc'[k] # "killed" /\ OwnPort(k)'
  <1> SUFFICES ASSUME NEW k \in Invocations PROVE pc'[k] # "killed" /\ OwnPort(k)'
    OBVIOUS
  <1>1. pc[k] # "killed" /\ pc[i] # "killed" /\ OwnPort(k)
    BY StepFacts DEF ScriptsInv, NotKilled, FilesMove
  <1>2. pc'[k] # "killed"
    BY <1>1, StepFacts DEF ScriptMoves
  <1>3. ASSUME NEW j \in Invocations \ {k}, pc'[k] \in {"gpu"} \cup Trapped
        PROVE  server'[j] \notin HoldsPort
    <2>1. pc[k] \in {"gpu"} \cup Trapped \/ ~PortTaken
      BY <1>3, StepFacts DEF ScriptMoves
    <2>2. server[j] \notin HoldsPort
      BY <1>1, <2>1 DEF OwnPort, PortTaken
    <2>3. j # i => server'[j] = server[j]
      BY StepFacts
    <2>4. j = i => server[j] \notin Alive
      <3>1. SUFFICES ASSUME j = i PROVE server[j] \notin Alive
        OBVIOUS
      <3>2. pc[k] \in Running
        BY <1>3, <3>1, StepFacts
      <3> QED BY <1>1, <3>1, <3>2, Alone
    <2> QED BY <2>2, <2>3, <2>4, StepFacts DEF ServerMoves
  <1> QED BY <1>2, <1>3 DEF OwnPort

LEMMA QuietKeeps ==
  ASSUME ScriptsInv, NEW i \in Invocations, AnyStep(i), NEW k \in Invocations
  PROVE  QuietStart(k)'
  <1> SUFFICES ASSUME Follows[k] = "success", pc'[k] \in Looking,
                      \A j \in 1..(k - 1) : pc'[j] # "killed", NEW j \in Invocations
               PROVE  server'[j] \notin HoldsMemory
    BY DEF QuietStart, Looking
  <1>1. \A l \in 1..(k - 1) : pc[l] # "killed"
    <2>1. 1..(k - 1) \subseteq Invocations
      BY OrchestrationAssumptions DEF Invocations
    <2> QED BY <2>1, StepFacts
  <1>2. CASE pc[k] \in Looking
    <2>1. server[j] \notin HoldsMemory
      BY <1>1, <1>2 DEF ScriptsInv, QuietStart, Looking
    <2>2. server[j] \notin Alive
      <3>1. CASE j = k
        BY <1>2, <3>1 DEF ScriptsInv, ServerOf, Looking
      <3>2. CASE j # k
        <4>1. pc[j] # "killed"
          <5>1. CASE j < k
            BY <1>1, <5>1 DEF Invocations
          <5>2. CASE k < j
            <6>1. k \in 1..(j - 1) /\ pc[k] \notin Ended
              BY <1>2, <5>2 DEF Invocations, Looking
            <6> QED BY <6>1 DEF ScriptsInv, OneByOne
          <5> QED BY <3>2, <5>1, <5>2 DEF Invocations
        <4> QED BY <1>2, <3>2, <4>1, Alone DEF Looking
      <3> QED BY <3>1, <3>2
    <2> QED BY <2>1, <2>2, StepFacts DEF ServerMoves
  <1>3. CASE pc[k] \notin Looking
    <2>1. k = i /\ Start(i)
      BY <1>3, StepFacts DEF ScriptMoves
    <2>2. ~MemoryTaken /\ server' = server
      BY <2>1 DEF Start, MayStart
    <2> QED BY <2>2 DEF MemoryTaken
  <1> QED BY <1>2, <1>3

LEMMA AnswersKeep ==
  ASSUME ScriptsInv, NEW i \in Invocations, AnyStep(i), faults'["kill"] = 0
  PROVE  \A c \in Candidates, s \in Splits : reports'[c][s] \subseteq {c}
  <1>1. \A c \in Candidates, s \in Splits : reports[c][s] \subseteq {c}
    BY StepFacts DEF FilesMove, ScriptsInv, AnsweredByOwn
  <1>2. CASE reports' = reports
    BY <1>1, <1>2
  <1>3. ASSUME NEW split \in Splits, Request(i, split)
        PROVE  \A c \in Candidates, s \in Splits : reports'[c][s] \subseteq {c}
    <2>1. Answering \subseteq {CandidateOf[i]}
      <3>1. OwnPort(i)
        BY StepFacts DEF FilesMove, ScriptsInv, NotKilled
      <3>2. \A j \in Invocations \ {i} : server[j] \notin HoldsPort
        BY <1>3, <3>1 DEF OwnPort, Request
      <3> QED BY <3>2 DEF Answering
    <2>2. reports' = [reports EXCEPT ![CandidateOf[i]][split] = @ \cup Answering]
      BY <1>3 DEF Request
    <2>3. ASSUME NEW c \in Candidates, NEW s \in Splits
          PROVE  \/ reports'[c][s] = reports[c][s]
                 \/ c = CandidateOf[i] /\ reports'[c][s] = reports[c][s] \cup Answering
      BY <2>2, StepFacts DEF ScriptsTypeOK
    <2> QED BY <1>1, <2>1, <2>3
  <1> QED BY <1>2, <1>3, StepFacts DEF FilesMove

\* Directories are made by scripts that went past their checks.
LEMMA MadeKeeps ==
  ASSUME ScriptsInv, NEW i \in Invocations, AnyStep(i), NEW c \in Candidates
  PROVE  MadeBy(c)'
  <1>1. MadeBy(c) /\ \A j \in Invocations : pc[j] \notin Waiting => pc'[j] \notin Waiting
    BY StepFacts DEF ScriptsInv, ScriptMoves
  <1> QED BY <1>1, StepFacts DEF MadeBy, FilesMove

LEMMA RefusalKeeps ==
  ASSUME ScriptsInv, NEW i \in Invocations, AnyStep(i)
  PROVE  NeverRefusedByPredecessor'
  <1> SUFFICES ASSUME NEW k \in Invocations, Follows[k] = "success", pc'[k] = "refused"
               PROVE  \E j \in 1..(k - 1) : pc'[j] = "killed" \/ CandidateOf[j] = CandidateOf[k]
    BY DEF NeverRefusedByPredecessor
  <1>1. 1..(k - 1) \subseteq Invocations
    BY OrchestrationAssumptions DEF Invocations
  <1>2. \A j \in Invocations : pc[j] = "killed" => pc'[j] = "killed"
    BY StepFacts
  <1> SUFFICES \E j \in 1..(k - 1) : pc[j] = "killed" \/ CandidateOf[j] = CandidateOf[k]
    BY <1>1, <1>2
  <1>3. CASE pc[k] = "refused"
    BY <1>3 DEF ScriptsInv, NeverRefusedByPredecessor
  <1>4. CASE pc[k] \in Looking /\ CandidateOf[k] \in made
    <2>1. PICK j \in Invocations : CandidateOf[j] = CandidateOf[k] /\ pc[j] \notin Waiting
      BY <1>4 DEF ScriptsInv, MadeBy, Candidates
    <2>2. j # k /\ ~(k < j)
      <3>1. j # k
        BY <1>4, <2>1 DEF Looking
      <3>2. ASSUME k < j PROVE FALSE
        <4>1. k \in 1..(j - 1)
          BY <3>2 DEF Invocations
        <4> QED BY <1>4, <2>1, <4>1 DEF ScriptsInv, OneByOne, Looking
      <3> QED BY <3>1, <3>2
    <2>3. j \in 1..(k - 1)
      BY <2>2 DEF Invocations
    <2> QED BY <2>1, <2>3
  <1>5. CASE pc[k] \in Looking /\ (PortTaken \/ MemoryTaken)
    <2>1. \E j \in Invocations : server[j] \in HoldsMemory
      BY <1>5 DEF PortTaken, MemoryTaken
    <2> QED BY <1>5, <2>1 DEF ScriptsInv, QuietStart, Looking
  <1>6. k # i => pc[k] = "refused"
    BY StepFacts
  <1> QED BY <1>3, <1>4, <1>5, <1>6, StepFacts DEF ScriptMoves

LEMMA TypeKeeps ==
  ASSUME ScriptsInv, NEW i \in Invocations, AnyStep(i)
  PROVE  ScriptsTypeOK' /\ completed' \subseteq Candidates
  <1>1. pc' \in [Invocations -> {"ready"} \cup Running \cup Ended]
    BY StepFacts DEF ScriptsTypeOK, ScriptMoves
  <1>2. server' \in [Invocations -> ServerStates]
    BY StepFacts DEF ScriptsTypeOK, ServerMoves
  <1>3. faults' \in [Faults -> Nat] /\ completed' \subseteq Candidates
    BY StepFacts DEF FilesMove, ScriptsInv, Candidates
  <1>4. reports' \in [Candidates -> [Splits -> SUBSET Candidates]]
    <2>1. CASE reports' = reports
      BY <2>1, StepFacts DEF ScriptsTypeOK
    <2>2. ASSUME NEW split \in Splits, Request(i, split)
          PROVE  reports' \in [Candidates -> [Splits -> SUBSET Candidates]]
      <3>1. Answering \subseteq Candidates
        BY DEF Answering, Candidates
      <3>2. reports' = [reports EXCEPT ![CandidateOf[i]][split] = @ \cup Answering]
        BY <2>2 DEF Request
      <3> QED BY <3>1, <3>2, StepFacts DEF ScriptsTypeOK
    <2> QED BY <2>1, <2>2, StepFacts DEF FilesMove
  <1> QED BY <1>1, <1>2, <1>3, <1>4 DEF ScriptsTypeOK

LEMMA StepKeeps ==
  ASSUME ScriptsInv, NEW i \in Invocations, AnyStep(i)
  PROVE  ScriptsInv'
  <1>1. ScriptsTypeOK' /\ completed' \subseteq Candidates
    BY TypeKeeps
  <1>2. \A j \in Invocations : ServerOf(j)'
    BY StepFacts DEF ScriptsInv, ServerOf, ServerMoves
  <1>3. \A j \in Invocations : OneByOne(j)' /\ QuietStart(j)'
    BY OrderKeeps, QuietKeeps
  <1>4. NotKilled' /\ AnsweredByOwn'
    BY PortKeeps, AnswersKeep DEF NotKilled, AnsweredByOwn
  <1>5. \A c \in Candidates : MadeBy(c)'
    BY MadeKeeps
  <1>6. NeverRefusedByPredecessor'
    BY RefusalKeeps
  <1> QED BY <1>1, <1>2, <1>3, <1>4, <1>5, <1>6 DEF ScriptsInv

LEMMA InitScripts == ScriptsInit => ScriptsInv
  <1> SUFFICES ASSUME ScriptsInit PROVE ScriptsInv
    OBVIOUS
  <1>1. ScriptsTypeOK
    BY DEF ScriptsInit, ScriptsTypeOK
  <1>2. \A i \in Invocations : ServerOf(i) /\ OneByOne(i) /\ QuietStart(i) /\ OwnPort(i)
    BY DEF ScriptsInit, ServerOf, OneByOne, QuietStart, OwnPort
  <1>3. NotKilled /\ AnsweredByOwn /\ completed \subseteq Candidates
    BY <1>2 DEF ScriptsInit, NotKilled, AnsweredByOwn
  <1>4. (\A c \in Candidates : MadeBy(c)) /\ NeverRefusedByPredecessor
    BY DEF ScriptsInit, MadeBy, NeverRefusedByPredecessor
  <1> QED BY <1>1, <1>2, <1>3, <1>4 DEF ScriptsInv

LEMMA AlwaysScripts == ScriptsSpec => []ScriptsInv
  <1>1. ScriptsInv /\ ScriptsNext => ScriptsInv'
    BY StepKeeps DEF ScriptsNext, AnyStep
  <1>2. ScriptsInv /\ UNCHANGED orchVars => ScriptsInv'
    BY DEF orchVars, disk, ScriptsInv, ScriptsTypeOK, ServerOf, OneByOne, QuietStart, NotKilled,
           OwnPort, AnsweredByOwn, MadeBy, NeverRefusedByPredecessor
  <1> QED BY InitScripts, <1>1, <1>2, PTL DEF ScriptsSpec

\* However many candidates are evaluated one after the other, a script that ends
\* leaves no server that is alive, unless it was killed by SIGKILL.
THEOREM ServersGone == ScriptsSpec => []NoServerLeft
  <1>1. ScriptsInv => NoServerLeft
    BY DEF ScriptsInv, ServerOf, NoServerLeft
  <1> QED BY <1>1, AlwaysScripts, PTL

\* Without SIGKILL every report was answered by the candidate it is filed under,
\* for any number of candidates, deaths and signals.
THEOREM ReportsGenuine == ScriptsSpec => []CompletedIsGenuine
  <1>1. ScriptsInv => CompletedIsGenuine
    BY DEF ScriptsInv, AnsweredByOwn, CompletedIsGenuine
  <1> QED BY <1>1, AlwaysScripts, PTL

\* In a matrix of any length no candidate is refused over what the one before
\* still holds.
THEOREM NotRefused == ScriptsSpec => []NeverRefusedByPredecessor
  <1>1. ScriptsInv => NeverRefusedByPredecessor
    BY DEF ScriptsInv
  <1> QED BY <1>1, AlwaysScripts, PTL

===============================================================================
