------------------------------ MODULE RolloutBatch -----------------------------
(***************************************************************************)
(* The generation of one training batch after the other: AgentLoopManager  *)
(* wakes the servers, splits the batch over its workers and puts the parts *)
(* together; a worker runs the trajectories of its part concurrently, and  *)
(* its AsyncLLMServerManager chooses a server for every generation.        *)
(***************************************************************************)
EXTENDS Integers, FiniteSets, SequencesExt

CONSTANTS
    Workers,       \* number of agent loop workers
    Servers,       \* server_handles
    Share,         \* trajectories of a worker: chunk() splits in equal parts
    CacheSize,     \* max_cache_size: 10000 in the code
    MaxGens,       \* bound on the generations of the trajectory of each row
    MaxBatches     \* bound on the batches

\* A worker's trajectories fit its cache, as in every configuration of the project.
ASSUME BatchAssumptions ==
    /\ Workers \in Nat \ {0} /\ Share \in Nat \ {0}
    /\ IsFiniteSet(Servers) /\ Servers # {}
    /\ CacheSize \in Nat /\ Share <= CacheSize
    /\ MaxGens \in [1..(Workers * Share) -> Nat] /\ MaxBatches \in Nat

VARIABLES
    batch,         \* number of the batch; its rows are the trajectories
    phase,         \* of the manager: "idle", "waiting" or "failed"
    awake,         \* the servers hold weights and caches
    loop,          \* row -> state of its agent loop
    gens,          \* row -> generations so far
    weights,       \* worker -> server -> requests given to it: weighted_serveres
    cache,         \* worker -> request_id_to_server: <<request, server>>, the
                   \* least recently used one first
    parts,         \* worker -> the trajectories it returned; <<>> until then
    output,        \* the batch that generate_sequences returned
    used           \* history: row -> servers its generations went to

batchVars == <<batch, phase, awake, loop, gens, weights, cache, parts, output, used>>

WorkerIds == 1..Workers
Rows == 1..(Workers * Share)
RowsOf(w) == ((w - 1) * Share + 1)..(w * Share)
WorkerOf(row) == ((row - 1) \div Share) + 1
PlaceOf(row) == ((row - 1) % Share) + 1
\* The uuid of a row's agent loop, and the trajectory it stands for.
RequestOf(row) == <<batch, row>>

Init ==
    /\ batch = 0 /\ phase = "idle" /\ awake = FALSE
    /\ loop = [row \in Rows |-> "none"] /\ gens = [row \in Rows |-> 0]
    /\ weights = [w \in WorkerIds |-> [s \in Servers |-> 0]]
    /\ cache = [w \in WorkerIds |-> <<>>]
    /\ parts = [w \in WorkerIds |-> <<>>] /\ output = <<>>
    /\ used = [row \in Rows |-> {}]

-------------------------------------------------------------------------------
(* AgentLoopManager.generate_sequences *)

Dispatch ==
    /\ phase = "idle" /\ batch < MaxBatches
    /\ batch' = batch + 1 /\ phase' = "waiting" /\ awake' = TRUE
    /\ loop' = [row \in Rows |-> "running"] /\ gens' = [row \in Rows |-> 0]
    /\ used' = [row \in Rows |-> {}] /\ parts' = [w \in WorkerIds |-> <<>>]
    /\ output' = <<>>
    /\ UNCHANGED <<weights, cache>>

\* Every worker returned: DataProto.concat, then the servers are put to sleep.
Collect ==
    /\ phase = "waiting" /\ \A w \in WorkerIds : parts[w] # <<>>
    /\ output' = [row \in Rows |-> parts[WorkerOf(row)][PlaceOf(row)]]
    /\ phase' = "idle" /\ awake' = FALSE
    /\ UNCHANGED <<batch, loop, gens, weights, cache, parts, used>>

\* Mutant: the failure is noticed when every trajectory of a worker has failed.
RaisedAll(w) == \A row \in RowsOf(w) : loop[row] = "raised"
Raised(w) == \E row \in RowsOf(w) : loop[row] = "raised"

\* Mutant: the servers are put to sleep in a finally block.
FailAsleep ==
    /\ phase = "waiting" /\ \E w \in WorkerIds : Raised(w)
    /\ phase' = "failed" /\ awake' = FALSE
    /\ UNCHANGED <<batch, loop, gens, weights, cache, parts, output, used>>
\* ray.get raises what one worker raised.  Nothing is put to sleep, and the
\* agent loops that still run are not cancelled.
Fail ==
    /\ phase = "waiting" /\ \E w \in WorkerIds : Raised(w)
    /\ phase' = "failed"
    /\ UNCHANGED <<batch, awake, loop, gens, weights, cache, parts, output, used>>

-------------------------------------------------------------------------------
(* AgentLoopWorker.generate_sequences *)

\* One task of asyncio.gather ends.
End(row) ==
    /\ loop[row] = "running"
    /\ \E how \in {"done", "raised"} : loop' = [loop EXCEPT ![row] = how]
    /\ UNCHANGED <<batch, phase, awake, gens, weights, cache, parts, output, used>>

\* Mutant: the chunks overlap.
WorkerReturnsShifted(w) ==
    /\ parts[w] = <<>> /\ \A row \in RowsOf(w) : loop[row] = "done"
    /\ parts' = [parts EXCEPT ![w] = [k \in 1..Share |-> RequestOf((w - 1) + k)]]
    /\ UNCHANGED <<batch, phase, awake, loop, gens, weights, cache, output, used>>
\* gather puts the results in the order of the tasks, not of their ends.
WorkerReturns(w) ==
    /\ parts[w] = <<>> /\ \A row \in RowsOf(w) : loop[row] = "done"
    /\ parts' = [parts EXCEPT ![w] = [k \in 1..Share |-> RequestOf((w - 1) * Share + k)]]
    /\ UNCHANGED <<batch, phase, awake, loop, gens, weights, cache, output, used>>

-------------------------------------------------------------------------------
(* AsyncLLMServerManager *)

Cached(w, request) == \E k \in DOMAIN cache[w] : cache[w][k][1] = request
PlaceInCache(w, request) == CHOOSE k \in DOMAIN cache[w] : cache[w][k][1] = request

\* Mutant: the entry used last is evicted.
EvictLast(entries) == IF Len(entries) < CacheSize THEN entries ELSE Front(entries)
\* A new key evicts the least recently used one when the cache is full.
Evict(entries) == IF Len(entries) < CacheSize THEN entries ELSE Tail(entries)

\* Mutant: the counter of the root is raised and the heap left as it was.
LeastLoadedStale(w, s) == \A other \in Servers : weights[w][s] >= weights[w][other]
\* The root of the heap; a tie is decided by a hash.
LeastLoaded(w, s) == \A other \in Servers : weights[w][s] <= weights[w][other]

Reuse(w, request, s) ==
    /\ Cached(w, request) /\ s = cache[w][PlaceInCache(w, request)][2]
    /\ cache' = [cache EXCEPT ![w] =
                    Append(RemoveAt(@, PlaceInCache(w, request)), <<request, s>>)]
    /\ UNCHANGED weights

Assign(w, request, s) ==
    /\ ~Cached(w, request) /\ LeastLoaded(w, s)
    /\ weights' = [weights EXCEPT ![w][s] = @ + 1]
    /\ cache' = [cache EXCEPT ![w] = Append(Evict(@), <<request, s>>)]

\* The agent loop of a row asks for a generation.
Generate(row, s) ==
    /\ loop[row] = "running" /\ gens[row] < MaxGens[row]
    /\ \/ Reuse(WorkerOf(row), RequestOf(row), s)
       \/ Assign(WorkerOf(row), RequestOf(row), s)
    /\ gens' = [gens EXCEPT ![row] = @ + 1]
    /\ used' = [used EXCEPT ![row] = @ \cup {s}]
    /\ UNCHANGED <<batch, phase, awake, loop, parts, output>>

-------------------------------------------------------------------------------
Next ==
    \/ Dispatch \/ Collect \/ Fail
    \/ \E row \in Rows : End(row) \/ \E s \in Servers : Generate(row, s)
    \/ \E w \in WorkerIds : WorkerReturns(w)

Spec == Init /\ [][Next]_batchVars

\* Every agent loop ends (Terminates of Rollout); actors and ray.get go on.
Fairness ==
    /\ \A row \in Rows : WF_batchVars(End(row))
    /\ \A w \in WorkerIds : WF_batchVars(WorkerReturns(w))
    /\ WF_batchVars(Collect) /\ WF_batchVars(Fail)

FairSpec == Spec /\ Fairness

-------------------------------------------------------------------------------
(* Properties *)

\* "Sticky session: send multi-turn chat completions to same server", so that its
\* prefix cache serves every turn: eviction never hits a running trajectory.
Sticky == \A row \in Rows : Cardinality(used[row]) <= 1

\* "Load balance": requests are spread evenly over the servers of a worker.
Balanced == \A w \in WorkerIds, s, t \in Servers : weights[w][s] <= weights[w][t] + 1

\* The trainer joins the output to the prompts by position: row k is the
\* trajectory of prompt k of this batch, in whatever order the loops end.
Aligned == phase = "idle" /\ batch > 0 =>
    output = [k \in Rows |-> <<batch, k>>]

\* Servers that gave their memory back serve no trajectory, a failure included.
AwakeWhileRunning == (\E row \in Rows : loop[row] = "running") => awake

\* A batch is returned, or the failure of one of its trajectories reported.
BatchEnds == phase = "waiting" ~> phase # "waiting"

===============================================================================
