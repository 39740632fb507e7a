--------------------------- MODULE RolloutBatchProofs --------------------------
(***************************************************************************)
(* For any number of workers, servers, trajectories and batches: requests  *)
(* are balanced, the servers are awake while a trajectory runs, and the    *)
(* output is in the order of the prompts.                                  *)
(***************************************************************************)
EXTENDS RolloutBatch, FiniteSetTheorems, SequenceTheorems, TLAPS

LEMMA Sizes == /\ Workers \in Nat /\ Workers > 0 /\ Share \in Nat /\ Share > 0
               /\ MaxBatches \in Nat
  BY BatchAssumptions

LEMMA Division ==
  ASSUME NEW a \in Nat, NEW s \in Nat, s > 0
  PROVE  a = s * (a \div s) + (a % s) /\ (a % s) \in 0..(s - 1) /\ (a \div s) \in Nat
  OBVIOUS

LEMMA Quotient ==
  ASSUME NEW n \in Nat, NEW s \in Nat, s > 0, NEW q \in Nat, NEW r \in Nat,
         s * q + r < n * s
  PROVE  q < n
  OBVIOUS

\* chunk() and concat() agree on where a row is.
LEMMA RowPlaces ==
  ASSUME NEW row \in Rows
  PROVE  /\ WorkerOf(row) \in WorkerIds /\ PlaceOf(row) \in 1..Share
         /\ (WorkerOf(row) - 1) * Share + PlaceOf(row) = row
         /\ row \in RowsOf(WorkerOf(row))
  <1> DEFINE a == row - 1
             q == a \div Share
             r == a % Share
  <1>1. a \in Nat /\ a < Workers * Share /\ row = a + 1
    BY Sizes DEF Rows
  <1>2. a = Share * q + r /\ r \in 0..(Share - 1) /\ q \in Nat
    BY <1>1, Sizes, Division
  <1>3. WorkerOf(row) = q + 1 /\ PlaceOf(row) = r + 1
    BY DEF WorkerOf, PlaceOf
  <1> HIDE DEF a, q, r
  <1>4. q < Workers
    BY <1>1, <1>2, Sizes, Quotient
  <1>5. WorkerOf(row) \in WorkerIds /\ PlaceOf(row) \in 1..Share
    BY <1>2, <1>3, <1>4, Sizes DEF WorkerIds
  <1>6. (WorkerOf(row) - 1) * Share + PlaceOf(row) = row
    BY <1>1, <1>2, <1>3, Sizes
  <1>7. row \in RowsOf(WorkerOf(row))
    <2> DEFINE w == WorkerOf(row)
               p == PlaceOf(row)
    <2>1. w \in Nat /\ p \in 1..Share /\ row = (w - 1) * Share + p
      BY <1>5, <1>6 DEF WorkerIds
    <2> HIDE DEF w, p
    <2>2. w * Share = (w - 1) * Share + Share
      BY <2>1, Sizes
    <2>3. (w - 1) * Share \in Int
      BY <2>1, Sizes
    <2>4. row \in ((w - 1) * Share + 1)..(w * Share)
      BY <2>1, <2>2, <2>3, Sizes
    <2> QED BY <2>4 DEF RowsOf, w
  <1> QED BY <1>5, <1>6, <1>7

-------------------------------------------------------------------------------
PhaseOK ==
    /\ batch \in 0..MaxBatches
    /\ phase \in {"idle", "waiting", "failed"}
    /\ loop \in [Rows -> {"none", "running", "done", "raised"}]
    /\ phase = "idle" => \A row \in Rows : loop[row] # "running"
    /\ phase # "idle" => awake

PartOf(w) == [k \in 1..Share |-> <<batch, (w - 1) * Share + k>>]

PartsOK ==
    /\ DOMAIN parts = WorkerIds
    /\ \A w \in WorkerIds : parts[w] # <<>> =>
         /\ parts[w] = PartOf(w)
         /\ \A row \in RowsOf(w) : loop[row] \in {"done", "none"}
    /\ Aligned

WeightsOK ==
    /\ weights \in [WorkerIds -> [Servers -> Nat]]
    /\ Balanced

BatchInv == PhaseOK /\ PartsOK /\ WeightsOK

LEMMA InitBatch == Init => BatchInv
  <1> SUFFICES ASSUME Init PROVE BatchInv
    OBVIOUS
  <1>1. PhaseOK
    BY Sizes DEF Init, PhaseOK
  <1>2. PartsOK
    BY DEF Init, PartsOK, Aligned
  <1>3. WeightsOK
    BY DEF Init, WeightsOK, Balanced
  <1> QED BY <1>1, <1>2, <1>3 DEF BatchInv

LEMMA DispatchKeeps == ASSUME BatchInv, Dispatch PROVE BatchInv'
  <1> USE DEF Dispatch, BatchInv
  <1>1. PhaseOK'
    BY Sizes DEF PhaseOK
  <1>2. PartsOK'
    BY DEF PartsOK, Aligned, PhaseOK
  <1>3. WeightsOK'
    BY DEF WeightsOK, Balanced
  <1> QED BY <1>1, <1>2, <1>3

LEMMA CollectKeeps == ASSUME BatchInv, Collect PROVE BatchInv'
  <1> USE DEF Collect, BatchInv
  <1>1. ASSUME NEW row \in Rows PROVE loop[row] # "running" /\ output'[row] = <<batch, row>>
    <2> DEFINE w == WorkerOf(row)
               k == PlaceOf(row)
    <2>1. w \in WorkerIds /\ k \in 1..Share /\ (w - 1) * Share + k = row /\ row \in RowsOf(w)
      BY RowPlaces
    <2>2. output'[row] = parts[w][k]
      OBVIOUS
    <2> HIDE DEF w, k
    <2>3. parts[w] = PartOf(w) /\ loop[row] \in {"done", "none"}
      BY <2>1 DEF PartsOK
    <2>4. PartOf(w)[k] = <<batch, (w - 1) * Share + k>>
      BY <2>1 DEF PartOf
    <2> QED BY <2>1, <2>2, <2>3, <2>4
  <1>2. PhaseOK'
    BY <1>1 DEF PhaseOK
  <1>3. PartsOK'
    <2>1. output' = [row \in Rows |-> <<batch, row>>]
      BY <1>1
    <2>2. Aligned'
      BY <2>1 DEF Aligned
    <2> QED BY <2>2 DEF PartsOK, PartOf
  <1>4. WeightsOK'
    BY DEF WeightsOK, Balanced
  <1> QED BY <1>2, <1>3, <1>4

LEMMA FailKeeps == ASSUME BatchInv, Fail PROVE BatchInv'
  <1> USE DEF Fail, BatchInv
  <1>1. PhaseOK'
    BY DEF PhaseOK
  <1>2. PartsOK'
    BY DEF PartsOK, PartOf, Aligned
  <1>3. WeightsOK'
    BY DEF WeightsOK, Balanced
  <1> QED BY <1>1, <1>2, <1>3

LEMMA EndKeeps == ASSUME BatchInv, NEW row \in Rows, End(row) PROVE BatchInv'
  <1> USE DEF End, BatchInv
  <1>1. PhaseOK'
    BY DEF PhaseOK
  <1>2. PartsOK'
    <2>1. ASSUME NEW w \in WorkerIds, parts[w] # <<>>, NEW r \in RowsOf(w) PROVE loop'[r] \in {"done", "none"}
      <3>1. loop[r] \in {"done", "none"}
        BY <2>1 DEF PartsOK
      <3>2. CASE r = row
        BY <3>1, <3>2
      <3>3. CASE r # row
        BY <3>1, <3>3 DEF PhaseOK
      <3> QED BY <3>2, <3>3
    <2> QED BY <2>1 DEF PartsOK, PartOf, Aligned
  <1>3. WeightsOK'
    BY DEF WeightsOK, Balanced
  <1> QED BY <1>1, <1>2, <1>3

LEMMA ReturnKeeps == ASSUME BatchInv, NEW w \in WorkerIds, WorkerReturns(w) PROVE BatchInv'
  <1> USE DEF WorkerReturns, BatchInv
  <1>1. PhaseOK'
    BY DEF PhaseOK
  <1>2. PartsOK'
    <2>1. parts' = [parts EXCEPT ![w] = PartOf(w)] /\ DOMAIN parts = WorkerIds /\ PartOf(w)' = PartOf(w)
      BY DEF PartOf, RequestOf, PartsOK
    <2>2. parts'[w] = PartOf(w) /\ \A v \in WorkerIds \ {w} : parts'[v] = parts[v]
      BY <2>1
    <2>3. ASSUME NEW v \in WorkerIds, parts'[v] # <<>>
          PROVE  parts'[v] = PartOf(v)' /\ \A row \in RowsOf(v) : loop'[row] \in {"done", "none"}
      <3>1. CASE v = w
        BY <3>1, <2>1, <2>2
      <3>2. CASE v # w
        BY <3>2, <2>2, <2>3 DEF PartsOK, PartOf
      <3> QED BY <3>1, <3>2
    <2>4. Aligned'
      BY DEF PartsOK, Aligned
    <2> QED BY <2>1, <2>3, <2>4 DEF PartsOK
  <1>3. WeightsOK'
    BY DEF WeightsOK, Balanced
  <1> QED BY <1>1, <1>2, <1>3

LEMMA GenerateKeeps ==
  ASSUME BatchInv, NEW row \in Rows, NEW s \in Servers, Generate(row, s) PROVE BatchInv'
  <1> USE DEF Generate, BatchInv
  <1>1. PhaseOK'
    BY DEF PhaseOK
  <1>2. PartsOK'
    BY DEF PartsOK, PartOf, Aligned
  <1>3. WeightsOK'
    <2> DEFINE w == WorkerOf(row)
    <2>1. CASE UNCHANGED weights
      BY <2>1 DEF WeightsOK, Balanced
    <2>2. CASE LeastLoaded(w, s) /\ weights' = [weights EXCEPT ![w][s] = @ + 1]
      <3>1. w \in WorkerIds
        BY RowPlaces
      <3> HIDE DEF w
      <3>2. weights \in [WorkerIds -> [Servers -> Nat]] /\ weights' \in [WorkerIds -> [Servers -> Nat]]
        BY <2>2, <3>1 DEF WeightsOK
      <3>3. /\ weights'[w][s] = weights[w][s] + 1
            /\ \A t \in Servers \ {s} : weights'[w][t] = weights[w][t]
            /\ \A v \in WorkerIds \ {w} : weights'[v] = weights[v]
        BY <2>2, <3>1, <3>2
      <3>4. ASSUME NEW v \in WorkerIds, NEW t \in Servers, NEW u \in Servers
            PROVE  weights'[v][t] <= weights'[v][u] + 1
        <4>1. weights[v][t] \in Nat /\ weights[v][u] \in Nat /\ weights[v][t] <= weights[v][u] + 1
          BY <3>2 DEF WeightsOK, Balanced
        <4>2. CASE v # w
          BY <4>1, <4>2, <3>3
        <4>3. CASE v = w /\ t = s
          <5>1. weights[v][t] <= weights[v][u]
            BY <2>2, <4>3 DEF LeastLoaded
          <5> QED BY <4>1, <4>3, <5>1, <3>3
        <4>4. CASE v = w /\ t # s
          BY <4>1, <4>4, <3>3
        <4> QED BY <4>2, <4>3, <4>4
      <3> QED BY <3>2, <3>4 DEF WeightsOK, Balanced
    <2> QED BY <2>1, <2>2 DEF Reuse, Assign
  <1> QED BY <1>1, <1>2, <1>3

LEMMA NextKeeps == BatchInv /\ [Next]_batchVars => BatchInv'
  <1> SUFFICES ASSUME BatchInv, [Next]_batchVars PROVE BatchInv'
    OBVIOUS
  <1>1. CASE Dispatch
    BY <1>1, DispatchKeeps
  <1>2. CASE Collect
    BY <1>2, CollectKeeps
  <1>3. CASE Fail
    BY <1>3, FailKeeps
  <1>4. ASSUME NEW row \in Rows, End(row) PROVE BatchInv'
    BY <1>4, EndKeeps
  <1>5. ASSUME NEW row \in Rows, NEW s \in Servers, Generate(row, s) PROVE BatchInv'
    BY <1>5, GenerateKeeps
  <1>6. ASSUME NEW w \in WorkerIds, WorkerReturns(w) PROVE BatchInv'
    BY <1>6, ReturnKeeps
  <1>7. CASE UNCHANGED batchVars
    <2>1. PhaseOK' /\ PartsOK' /\ WeightsOK'
      BY <1>7 DEF batchVars, BatchInv, PhaseOK, PartsOK, PartOf, Aligned, WeightsOK, Balanced
    <2> QED BY <2>1 DEF BatchInv
  <1> QED BY <1>1, <1>2, <1>3, <1>4, <1>5, <1>6, <1>7 DEF Next

-------------------------------------------------------------------------------
(* Sticky sessions *)

Requests == Nat \X Rows
Entry(entries, k) == entries[k][1]
BatchOfEntry(entries, k) == entries[k][1][1]
RowOfEntry(entries, k) == entries[k][1][2]

\* No request has two entries, and those of older batches come first.
InOrder(entries) ==
    \A k, l \in 1..Len(entries) : k < l =>
        /\ Entry(entries, k) # Entry(entries, l)
        /\ BatchOfEntry(entries, k) <= BatchOfEntry(entries, l)

CacheOK(w) ==
    /\ cache[w] \in Seq(Requests \X Servers)
    /\ InOrder(cache[w])
    /\ \A k \in 1..Len(cache[w]) :
         BatchOfEntry(cache[w], k) <= batch /\ RowOfEntry(cache[w], k) \in RowsOf(w)

\* A row that has been served is in the cache, with its one server.
ServedBy(entries, request, s) == \E k \in 1..Len(entries) : entries[k] = <<request, s>>
UsedOK(row) ==
    \/ used[row] = {}
    \/ \E s \in Servers : used[row] = {s} /\ ServedBy(cache[WorkerOf(row)], RequestOf(row), s)

StickyInv ==
    /\ BatchInv /\ DOMAIN cache = WorkerIds /\ DOMAIN used = Rows
    /\ \A w \in WorkerIds : CacheOK(w)
    /\ \A row \in Rows : UsedOK(row)

LEMMA InOrderOfPart ==
  ASSUME NEW s, NEW t, Len(s) \in Nat, Len(t) \in Nat,
         NEW g \in [1..Len(t) -> 1..Len(s)], \A k \in 1..Len(t) : t[k] = s[g[k]],
         \A k, l \in 1..Len(t) : k < l => g[k] < g[l],
         InOrder(s)
  PROVE  InOrder(t)
  BY DEF InOrder, Entry, BatchOfEntry

LEMMA InOrderWithMore ==
  ASSUME NEW S, NEW t \in Seq(S), NEW e \in S, InOrder(t),
         \A k \in 1..Len(t) : Entry(t, k) # e[1] /\ BatchOfEntry(t, k) <= e[1][1]
  PROVE  InOrder(Append(t, e))
  <1> DEFINE more == Append(t, e)
  <1>1. /\ Len(t) \in Nat /\ Len(more) = Len(t) + 1
        /\ \A k \in 1..Len(t) : more[k] = t[k]
        /\ more[Len(t) + 1] = e
    BY AppendProperties
  <1> HIDE DEF more
  <1>2. ASSUME NEW k \in 1..Len(more), NEW l \in 1..Len(more), k < l
        PROVE  Entry(more, k) # Entry(more, l) /\ BatchOfEntry(more, k) <= BatchOfEntry(more, l)
    <2>1. k \in 1..Len(t) /\ more[k] = t[k]
      BY <1>1, <1>2
    <2>2. CASE l \in 1..Len(t)
      BY <1>1, <1>2, <2>1, <2>2 DEF InOrder, Entry, BatchOfEntry
    <2>3. CASE l = Len(t) + 1
      BY <1>1, <2>1, <2>3 DEF Entry, BatchOfEntry
    <2> QED BY <1>1, <2>2, <2>3
  <1>3. InOrder(more)
    BY <1>2 DEF InOrder
  <1> QED BY <1>3 DEF more

LEMMA Removed ==
  ASSUME NEW S, NEW s \in Seq(S), NEW i \in 1..Len(s)
  PROVE  /\ RemoveAt(s, i) \in Seq(S) /\ Len(RemoveAt(s, i)) = Len(s) - 1
         /\ \A k \in 1..(Len(s) - 1) : RemoveAt(s, i)[k] = s[IF k < i THEN k ELSE k + 1]
  <1> DEFINE a == SubSeq(s, 1, i - 1)
             b == SubSeq(s, i + 1, Len(s))
  <1>0. Len(s) \in Nat /\ i \in Int /\ \A k \in 1..Len(s) : s[k] \in S
    OBVIOUS
  <1>1. a \in Seq(S) /\ Len(a) = i - 1 /\ \A k \in 1..(i - 1) : a[k] = s[k]
    <2>1. \A k \in 1..(i - 1) : s[k] \in S
      BY <1>0
    <2>2. /\ a \in Seq(S) /\ Len(a) = (IF 1 <= i - 1 THEN (i - 1) - 1 + 1 ELSE 0)
          /\ \A k \in 1..((i - 1) - 1 + 1) : a[k] = s[1 + k - 1]
      BY <1>0, <2>1, SubSeqProperties
    <2> HIDE DEF a
    <2> QED BY <1>0, <2>2
  <1>2. b \in Seq(S) /\ Len(b) = Len(s) - i /\ \A k \in 1..(Len(s) - i) : b[k] = s[i + k]
    <2>1. \A k \in (i + 1)..Len(s) : s[k] \in S
      BY <1>0
    <2>2. /\ b \in Seq(S) /\ Len(b) = (IF i + 1 <= Len(s) THEN Len(s) - (i + 1) + 1 ELSE 0)
          /\ \A k \in 1..(Len(s) - (i + 1) + 1) : b[k] = s[(i + 1) + k - 1]
      BY <1>0, <2>1, SubSeqProperties
    <2> HIDE DEF b
    <2> QED BY <1>0, <2>2
  <1>3. RemoveAt(s, i) = a \o b
    BY DEF RemoveAt
  <1> HIDE DEF a, b
  <1>4. /\ a \o b \in Seq(S) /\ Len(a \o b) = Len(a) + Len(b)
        /\ \A k \in 1..(Len(a) + Len(b)) : (a \o b)[k] = IF k <= Len(a) THEN a[k] ELSE b[k - Len(a)]
    BY <1>1, <1>2, ConcatProperties
  <1>5. ASSUME NEW k \in 1..(Len(s) - 1)
        PROVE  (a \o b)[k] = s[IF k < i THEN k ELSE k + 1]
    <2>1. CASE k < i
      <3>1. k \in 1..(i - 1) /\ k <= Len(a) /\ k \in 1..(Len(a) + Len(b))
        BY <1>0, <1>1, <1>2, <2>1
      <3> QED BY <1>1, <1>4, <2>1, <3>1
    <2>2. CASE ~(k < i)
      <3>1. (a \o b)[k] = b[k - (i - 1)] /\ k - (i - 1) \in 1..(Len(s) - i)
        BY <1>0, <1>1, <1>2, <1>4, <2>2
      <3>2. b[k - (i - 1)] = s[i + (k - (i - 1))]
        BY <1>2, <3>1
      <3>3. i + (k - (i - 1)) = k + 1
        BY <1>0
      <3> QED BY <2>2, <3>1, <3>2, <3>3
    <2> QED BY <2>1, <2>2
  <1>6. Len(a \o b) = Len(s) - 1
    BY <1>0, <1>1, <1>2, <1>4
  <1> QED BY <1>3, <1>4, <1>5, <1>6

\* What is left of a cache when a request is taken out of it, or the oldest entry.
LeftOver(t, entries, request) ==
    /\ t \in Seq(Requests \X Servers) /\ InOrder(t)
    /\ \A k \in 1..Len(t) : Entry(t, k) # request /\ \E l \in 1..Len(entries) : t[k] = entries[l]
    /\ \A l \in 1..Len(entries) : BatchOfEntry(entries, l) = batch /\ Entry(entries, l) # request =>
         \E k \in 1..Len(t) : t[k] = entries[l]

LEMMA LeftByReuse ==
  ASSUME NEW c \in Seq(Requests \X Servers), InOrder(c), NEW request,
         NEW i \in 1..Len(c), Entry(c, i) = request
  PROVE  LeftOver(RemoveAt(c, i), c, request)
  <1> DEFINE t == RemoveAt(c, i)
             g == [k \in 1..(Len(c) - 1) |-> IF k < i THEN k ELSE k + 1]
  <1>1. /\ t \in Seq(Requests \X Servers) /\ Len(t) = Len(c) - 1 /\ Len(c) \in Nat
        /\ \A k \in 1..(Len(c) - 1) : t[k] = c[IF k < i THEN k ELSE k + 1]
    BY Removed
  <1>2. /\ g \in [1..Len(t) -> 1..Len(c)] /\ \A k \in 1..Len(t) : t[k] = c[g[k]]
        /\ \A k, l \in 1..Len(t) : k < l => g[k] < g[l]
        /\ \A k \in 1..Len(t) : g[k] # i
        /\ Len(t) \in Nat
    BY <1>1
  <1>3. \A l \in 1..Len(c) : l # i => \E k \in 1..Len(t) : g[k] = l
    <2> SUFFICES ASSUME NEW l \in 1..Len(c), l # i PROVE \E k \in 1..Len(t) : g[k] = l
      OBVIOUS
    <2>1. CASE l < i
      <3>1. l \in 1..Len(t) /\ g[l] = l
        BY <1>1, <2>1
      <3> QED BY <3>1
    <2>2. CASE i < l
      <3>1. l - 1 \in 1..Len(t) /\ g[l - 1] = l
        BY <1>1, <2>2
      <3> QED BY <3>1
    <2>3. l < i \/ i < l
      OBVIOUS
    <2> QED BY <2>1, <2>2, <2>3
  <1> HIDE DEF t, g
  <1>4. InOrder(t)
    BY <1>1, <1>2, InOrderOfPart
  <1>5. \A k \in 1..Len(t) : Entry(t, k) # request
    <2> SUFFICES ASSUME NEW k \in 1..Len(t) PROVE Entry(c, g[k]) # request
      BY <1>2 DEF Entry
    <2>1. g[k] \in 1..Len(c) /\ g[k] # i
      BY <1>2
    <2> QED BY <2>1 DEF InOrder
  <1>6. \A k \in 1..Len(t) : \E l \in 1..Len(c) : t[k] = c[l]
    BY <1>2
  <1>7. \A l \in 1..Len(c) : Entry(c, l) # request => \E k \in 1..Len(t) : t[k] = c[l]
    <2> SUFFICES ASSUME NEW l \in 1..Len(c), l # i PROVE \E k \in 1..Len(t) : t[k] = c[l]
      OBVIOUS
    <2>1. PICK k \in 1..Len(t) : g[k] = l
      BY <1>3
    <2> QED BY <1>2, <2>1
  <1>8. LeftOver(t, c, request)
    BY <1>1, <1>4, <1>5, <1>6, <1>7 DEF LeftOver
  <1> QED BY <1>8 DEF t

LEMMA LeftByAssign ==
  ASSUME NEW c \in Seq(Requests \X Servers), InOrder(c), NEW request,
         \A k \in 1..Len(c) : Entry(c, k) # request,
         ~(Len(c) < CacheSize) => Len(c) > 0 /\ BatchOfEntry(c, 1) # batch
  PROVE  LeftOver(Evict(c), c, request)
  <1>1. CASE Len(c) < CacheSize
    BY <1>1 DEF LeftOver, Evict
  <1>2. CASE ~(Len(c) < CacheSize)
    <2> DEFINE t == Tail(c)
               g == [k \in 1..(Len(c) - 1) |-> k + 1]
    <2>1. c # <<>> /\ Len(c) \in Nat
      BY <1>2
    <2>2. /\ t \in Seq(Requests \X Servers) /\ Len(t) = Len(c) - 1
          /\ \A k \in 1..Len(t) : t[k] = c[k + 1]
      BY <2>1, HeadTailProperties
    <2>3. /\ g \in [1..Len(t) -> 1..Len(c)] /\ \A k \in 1..Len(t) : t[k] = c[g[k]]
          /\ \A k, l \in 1..Len(t) : k < l => g[k] < g[l]
          /\ Len(t) \in Nat
      <3> HIDE DEF t
      <3> QED BY <1>2, <2>1, <2>2
    <2> HIDE DEF t, g
    <2>4. InOrder(t)
      BY <2>1, <2>3, InOrderOfPart
    <2>5. \A k \in 1..Len(t) : Entry(t, k) # request /\ \E l \in 1..Len(c) : t[k] = c[l]
      BY <2>3 DEF Entry
    <2>6. \A l \in 1..Len(c) : BatchOfEntry(c, l) = batch => \E k \in 1..Len(t) : t[k] = c[l]
      <3> SUFFICES ASSUME NEW l \in 1..Len(c), l # 1 PROVE \E k \in 1..Len(t) : t[k] = c[l]
        BY <1>2
      <3>1. l - 1 \in 1..Len(t) /\ t[l - 1] = c[(l - 1) + 1] /\ (l - 1) + 1 = l
        BY <2>1, <2>2
      <3> QED BY <3>1
    <2>7. LeftOver(t, c, request)
      BY <2>2, <2>4, <2>5, <2>6 DEF LeftOver
    <2> QED BY <1>2, <2>7 DEF t, Evict
  <1> QED BY <1>1, <1>2

\* A full cache has room for a trajectory that is not in it: its worker has no
\* more trajectories than it has entries, so that the oldest one is of a batch
\* before.
LEMMA OldestIsOld ==
  ASSUME StickyInv, NEW row \in Rows, ~Cached(WorkerOf(row), RequestOf(row)),
         ~(Len(cache[WorkerOf(row)]) < CacheSize)
  PROVE  /\ Len(cache[WorkerOf(row)]) > 0
         /\ BatchOfEntry(cache[WorkerOf(row)], 1) # batch
  <1> DEFINE w == WorkerOf(row)
             c == cache[w]
             rows == RowsOf(w) \ {row}
             f == [k \in 1..Len(c) |-> RowOfEntry(c, k)]
  <1>1. w \in WorkerIds /\ row \in RowsOf(w)
    BY RowPlaces
  <1>2. CacheOK(w)
    BY <1>1 DEF StickyInv
  <1>3. Len(c) \in Nat /\ Len(c) >= Share /\ DOMAIN c = 1..Len(c)
    BY <1>2, BatchAssumptions DEF CacheOK
  <1>4. IsFiniteSet(rows) /\ Cardinality(rows) = Share - 1
    <2> DEFINE lo == (w - 1) * Share + 1
               hi == w * Share
    <2>1. lo \in Int /\ hi \in Int /\ hi - lo + 1 = Share /\ ~(lo > hi)
      <3> HIDE DEF w
      <3>1. w * Share = (w - 1) * Share + Share /\ (w - 1) * Share \in Int
        BY <1>1, Sizes DEF WorkerIds
      <3> QED BY <3>1, Sizes
    <2>2. RowsOf(w) = lo..hi
      BY DEF RowsOf
    <2> HIDE DEF lo, hi
    <2>3. IsFiniteSet(lo..hi) /\ Cardinality(lo..hi) = Share
      BY <2>1, FS_Interval
    <2> QED BY <1>1, <2>2, <2>3, FS_RemoveElement
  <1>5. ASSUME BatchOfEntry(c, 1) = batch PROVE FALSE
    <2>1. \A k \in 1..Len(c) : BatchOfEntry(c, k) = batch
      <3> SUFFICES ASSUME NEW k \in 1..Len(c) PROVE BatchOfEntry(c, k) = batch
        OBVIOUS
      <3>1. BatchOfEntry(c, k) <= batch /\ (1 < k => BatchOfEntry(c, 1) <= BatchOfEntry(c, k))
        BY <1>2, <1>3 DEF CacheOK, InOrder
      <3>2. BatchOfEntry(c, k) \in Nat
        BY <1>2 DEF CacheOK, Requests, BatchOfEntry
      <3>3. batch \in Nat
        BY Sizes DEF StickyInv, BatchInv, PhaseOK
      <3>4. k = 1 \/ 1 < k
        BY <1>3
      <3> HIDE DEF c
      <3> QED BY <1>5, <3>1, <3>2, <3>3, <3>4
    <2>2. \A k \in 1..Len(c) : Entry(c, k) = <<batch, RowOfEntry(c, k)>>
      <3> SUFFICES ASSUME NEW k \in 1..Len(c) PROVE Entry(c, k) = <<batch, RowOfEntry(c, k)>>
        OBVIOUS
      <3>1. c[k] \in Requests \X Servers
        BY <1>2, <1>3 DEF CacheOK
      <3>2. c[k][1] \in Nat \X Rows /\ c[k][1][1] = batch
        BY <2>1, <3>1 DEF Requests, BatchOfEntry
      <3> HIDE DEF c
      <3>3. c[k][1] = <<c[k][1][1], c[k][1][2]>>
        BY <3>2
      <3> QED BY <3>2, <3>3 DEF Entry, RowOfEntry
    <2>3. \A k \in 1..Len(c) : Entry(c, k) # <<batch, row>>
      BY <1>3 DEF Cached, RequestOf, Entry
    <2>4. f \in [1..Len(c) -> rows]
      <3> SUFFICES ASSUME NEW k \in 1..Len(c) PROVE RowOfEntry(c, k) \in rows
        OBVIOUS
      <3>1. RowOfEntry(c, k) \in RowsOf(w)
        BY <1>2 DEF CacheOK
      <3> QED BY <2>2, <2>3, <3>1
    <2>5. IsFiniteSet(1..Len(c)) /\ Cardinality(1..Len(c)) = Len(c)
      BY <1>3, FS_Interval
    <2>6. Cardinality(rows) < Cardinality(1..Len(c))
      BY <1>3, <1>4, <2>5, Sizes
    <2> HIDE DEF rows, f
    <2>7. \E x, y \in 1..Len(c) : x # y /\ f[x] = f[y]
      BY <1>4, <2>4, <2>5, <2>6, FS_PigeonHole
    <2>8. PICK x, y \in 1..Len(c) : x # y /\ RowOfEntry(c, x) = RowOfEntry(c, y)
      BY <2>7 DEF f
    <2>9. Entry(c, x) = Entry(c, y)
      BY <2>2, <2>8
    <2>10. x < y \/ y < x
      BY <2>8
    <2> QED BY <1>2, <2>8, <2>9, <2>10 DEF CacheOK, InOrder
  <1> QED BY <1>3, <1>5, Sizes

\* The cache of a worker after one of its rows was given a server.
LEMMA CacheGrows ==
  ASSUME StickyInv, NEW row \in Rows, NEW s \in Servers, NEW t,
         LeftOver(t, cache[WorkerOf(row)], RequestOf(row)),
         cache' = [cache EXCEPT ![WorkerOf(row)] = Append(t, <<RequestOf(row), s>>)],
         batch' = batch, used[row] = {} \/ used[row] = {s},
         used' = [used EXCEPT ![row] = @ \cup {s}]
  PROVE  (\A w \in WorkerIds : CacheOK(w)') /\ (\A r \in Rows : UsedOK(r)')
  <1> DEFINE w == WorkerOf(row)
             c == cache[w]
             e == <<RequestOf(row), s>>
             more == Append(t, e)
  <1>1. w \in WorkerIds /\ row \in RowsOf(w) /\ CacheOK(w) /\ batch \in Nat /\ DOMAIN cache = WorkerIds
    BY RowPlaces, Sizes DEF StickyInv, BatchInv, PhaseOK
  <1>2. e \in Requests \X Servers /\ e[1] = <<batch, row>> /\ e[2] = s
    BY <1>1 DEF RequestOf, Requests
  <1>3. /\ t \in Seq(Requests \X Servers) /\ InOrder(t)
        /\ \A k \in 1..Len(t) : Entry(t, k) # RequestOf(row) /\ \E l \in 1..Len(c) : t[k] = c[l]
        /\ \A l \in 1..Len(c) : BatchOfEntry(c, l) = batch /\ Entry(c, l) # RequestOf(row) =>
             \E k \in 1..Len(t) : t[k] = c[l]
    BY DEF LeftOver
  <1>4. cache'[w] = more /\ \A v \in WorkerIds \ {w} : cache'[v] = cache[v]
    BY <1>1
  <1> HIDE DEF w, e
  <1>5. /\ more \in Seq(Requests \X Servers) /\ Len(more) = Len(t) + 1 /\ Len(t) \in Nat
        /\ \A k \in 1..Len(t) : more[k] = t[k]
        /\ more[Len(t) + 1] = e
    BY <1>2, <1>3, AppendProperties
  <1>6. \A k \in 1..Len(t) : /\ BatchOfEntry(t, k) <= batch /\ RowOfEntry(t, k) \in RowsOf(w)
                             /\ Entry(t, k) # e[1]
    <2> SUFFICES ASSUME NEW k \in 1..Len(t)
                 PROVE  /\ BatchOfEntry(t, k) <= batch /\ RowOfEntry(t, k) \in RowsOf(w)
                        /\ Entry(t, k) # e[1]
      OBVIOUS
    <2>1. PICK l \in 1..Len(c) : t[k] = c[l]
      BY <1>3
    <2>2. BatchOfEntry(c, l) <= batch /\ RowOfEntry(c, l) \in RowsOf(w)
      BY <1>1 DEF CacheOK
    <2>3. Entry(t, k) # e[1]
      BY <1>2, <1>3 DEF RequestOf
    <2> QED BY <2>1, <2>2, <2>3 DEF BatchOfEntry, RowOfEntry
  <1>7. InOrder(more)
    <2>1. \A k \in 1..Len(t) : Entry(t, k) # e[1] /\ BatchOfEntry(t, k) <= e[1][1]
      BY <1>2, <1>6
    <2> QED BY <1>2, <1>3, <2>1, InOrderWithMore
  <1>8. \A k \in 1..Len(more) : BatchOfEntry(more, k) <= batch /\ RowOfEntry(more, k) \in RowsOf(w)
    <2> SUFFICES ASSUME NEW k \in 1..Len(more)
                 PROVE  BatchOfEntry(more, k) <= batch /\ RowOfEntry(more, k) \in RowsOf(w)
      OBVIOUS
    <2>1. CASE k \in 1..Len(t)
      <3>1. more[k] = t[k] /\ BatchOfEntry(t, k) <= batch /\ RowOfEntry(t, k) \in RowsOf(w)
        BY <1>5, <1>6, <2>1
      <3> HIDE DEF more
      <3> QED BY <3>1 DEF BatchOfEntry, RowOfEntry
    <2>2. CASE k = Len(t) + 1
      <3>1. more[k][1] = <<batch, row>>
        BY <1>2, <1>5, <2>2
      <3> HIDE DEF more
      <3> QED BY <3>1, <1>1 DEF BatchOfEntry, RowOfEntry
    <2>3. k \in 1..Len(t) \/ k = Len(t) + 1
      BY <1>5
    <2> QED BY <2>1, <2>2, <2>3
  <1> HIDE DEF more
  <1>9. ASSUME NEW v \in WorkerIds PROVE CacheOK(v)'
    <2>1. CASE v = w
      BY <2>1, <1>4, <1>5, <1>7, <1>8 DEF CacheOK
    <2>2. CASE v # w
      <3>1. CacheOK(v) /\ cache'[v] = cache[v]
        BY <2>2, <1>4 DEF StickyInv
      <3> QED BY <3>1 DEF CacheOK
    <2> QED BY <2>1, <2>2
  <1>10. ServedBy(more, <<batch, row>>, s)
    <2>1. e = <<<<batch, row>>, s>>
      BY DEF e, RequestOf
    <2>2. Len(t) + 1 \in 1..Len(more) /\ more[Len(t) + 1] = e
      BY <1>5
    <2> QED BY <2>1, <2>2 DEF ServedBy
  <1>11. ASSUME NEW r \in Rows, r # row, WorkerOf(r) = w, NEW q, ServedBy(c, <<batch, r>>, q)
         PROVE  ServedBy(more, <<batch, r>>, q)
    <2>1. PICK l \in 1..Len(c) : c[l] = <<<<batch, r>>, q>>
      BY <1>11 DEF ServedBy
    <2>2. BatchOfEntry(c, l) = batch /\ Entry(c, l) # RequestOf(row)
      BY <1>11, <2>1 DEF BatchOfEntry, Entry, RequestOf
    <2>3. PICK k \in 1..Len(t) : t[k] = c[l]
      BY <1>3, <2>2
    <2>4. k \in 1..Len(more) /\ more[k] = c[l]
      <3>1. k \in 1..Len(more) /\ more[k] = t[k]
        BY <1>5
      <3> QED BY <2>3, <3>1
    <2> QED BY <2>1, <2>4 DEF ServedBy
  <1>12. ASSUME NEW r \in Rows PROVE UsedOK(r)'
    <2>1. CASE r = row
      <3>1. used'[row] = {s}
        BY DEF StickyInv
      <3>2. RequestOf(row)' = <<batch, row>> /\ cache'[WorkerOf(row)] = more
        BY <1>4 DEF RequestOf, w
      <3> QED BY <2>1, <3>1, <3>2, <1>10 DEF UsedOK
    <2>2. CASE r # row
      <3>1. UsedOK(r) /\ used'[r] = used[r] /\ WorkerOf(r) \in WorkerIds
        BY <2>2, RowPlaces DEF StickyInv
      <3>2. RequestOf(r) = <<batch, r>> /\ RequestOf(r)' = <<batch, r>>
        BY DEF RequestOf
      <3>3. CASE used[r] = {}
        BY <3>1, <3>3 DEF UsedOK
      <3>4. CASE used[r] # {}
        <4>1. PICK q \in Servers : used[r] = {q} /\ ServedBy(cache[WorkerOf(r)], <<batch, r>>, q)
          BY <3>1, <3>2, <3>4 DEF UsedOK
        <4>2. ServedBy(cache'[WorkerOf(r)], <<batch, r>>, q)
          <5>1. CASE WorkerOf(r) = w
            BY <5>1, <4>1, <1>4, <1>11, <2>2
          <5>2. CASE WorkerOf(r) # w
            BY <5>2, <3>1, <4>1, <1>4
          <5> QED BY <5>1, <5>2
        <4> QED BY <3>1, <3>2, <4>1, <4>2 DEF UsedOK
      <3> QED BY <3>3, <3>4
    <2> QED BY <2>1, <2>2
  <1> QED BY <1>9, <1>12

LEMMA ReuseSticks ==
  ASSUME StickyInv, NEW row \in Rows, NEW s \in Servers, batch' = batch,
         Reuse(WorkerOf(row), RequestOf(row), s), used' = [used EXCEPT ![row] = @ \cup {s}]
  PROVE  (\A w \in WorkerIds : CacheOK(w)') /\ (\A r \in Rows : UsedOK(r)')
  <1> DEFINE w == WorkerOf(row)
             c == cache[w]
             request == RequestOf(row)
             i == PlaceInCache(w, request)
  <1>1. w \in WorkerIds /\ CacheOK(w) /\ UsedOK(row) /\ DOMAIN cache = WorkerIds
    BY RowPlaces DEF StickyInv
  <1>2. c \in Seq(Requests \X Servers) /\ InOrder(c) /\ DOMAIN c = 1..Len(c) /\ Len(c) \in Nat
    BY <1>1 DEF CacheOK
  <1>3. i \in 1..Len(c) /\ Entry(c, i) = request
    BY <1>2 DEF Reuse, Cached, PlaceInCache, Entry
  <1>4. s = c[i][2] /\ cache' = [cache EXCEPT ![w] = Append(RemoveAt(c, i), <<request, s>>)]
    BY <1>1 DEF Reuse
  <1> HIDE DEF i, request
  <1>5. LeftOver(RemoveAt(c, i), c, request)
    BY <1>2, <1>3, LeftByReuse
  <1>6. used[row] = {} \/ used[row] = {s}
    <2>1. SUFFICES ASSUME NEW q \in Servers, used[row] = {q}, ServedBy(c, request, q) PROVE q = s
      BY <1>1 DEF UsedOK, request
    <2>2. PICK k \in 1..Len(c) : c[k] = <<request, q>>
      BY <2>1 DEF ServedBy
    <2>3. k = i
      <3>1. Entry(c, k) = Entry(c, i)
        BY <1>3, <2>2 DEF Entry
      <3>2. k < i \/ k = i \/ i < k
        BY <1>2, <1>3
      <3> QED BY <1>2, <1>3, <3>1, <3>2 DEF InOrder
    <2> QED BY <1>4, <2>2, <2>3
  <1> QED BY <1>4, <1>5, <1>6, CacheGrows DEF request

LEMMA AssignSticks ==
  ASSUME StickyInv, NEW row \in Rows, NEW s \in Servers, batch' = batch,
         Assign(WorkerOf(row), RequestOf(row), s), used' = [used EXCEPT ![row] = @ \cup {s}]
  PROVE  (\A w \in WorkerIds : CacheOK(w)') /\ (\A r \in Rows : UsedOK(r)')
  <1> DEFINE w == WorkerOf(row)
             c == cache[w]
             request == RequestOf(row)
  <1>1. w \in WorkerIds /\ CacheOK(w) /\ UsedOK(row) /\ DOMAIN cache = WorkerIds
    BY RowPlaces DEF StickyInv
  <1>2. c \in Seq(Requests \X Servers) /\ InOrder(c) /\ DOMAIN c = 1..Len(c)
    BY <1>1 DEF CacheOK
  <1>3. \A k \in 1..Len(c) : Entry(c, k) # request
    BY <1>2 DEF Assign, Cached, Entry
  <1>4. cache' = [cache EXCEPT ![w] = Append(Evict(c), <<request, s>>)]
    BY <1>1 DEF Assign
  <1>5. ~(Len(c) < CacheSize) => Len(c) > 0 /\ BatchOfEntry(c, 1) # batch
    BY OldestIsOld DEF Assign
  <1>6. LeftOver(Evict(c), c, request)
    <2> HIDE DEF request, c
    <2> QED BY <1>2, <1>3, <1>5, LeftByAssign
  <1>7. used[row] = {}
    BY <1>1, <1>3 DEF UsedOK, ServedBy, Entry
  <1> HIDE DEF c
  <1> QED BY <1>4, <1>6, <1>7, CacheGrows DEF c

LEMMA InitSticky == Init => StickyInv
  <1> SUFFICES ASSUME Init PROVE StickyInv
    OBVIOUS
  <1>1. \A w \in WorkerIds : CacheOK(w)
    BY DEF Init, CacheOK, InOrder
  <1>2. \A row \in Rows : UsedOK(row)
    BY DEF Init, UsedOK
  <1> QED BY <1>1, <1>2, InitBatch DEF Init, StickyInv

LEMMA NextSticky == StickyInv /\ [Next]_batchVars => StickyInv'
  <1> SUFFICES ASSUME StickyInv, [Next]_batchVars PROVE StickyInv'
    OBVIOUS
  <1>1. BatchInv'
    BY NextKeeps DEF StickyInv
  <1>2. ASSUME UNCHANGED <<batch, cache, used>> PROVE StickyInv'
    BY <1>1, <1>2 DEF StickyInv, CacheOK, UsedOK, RequestOf
  <1>3. CASE Dispatch
    <2>1. batch' = batch + 1 /\ cache' = cache /\ used' = [row \in Rows |-> {}] /\ batch \in Nat
      BY <1>3, Sizes DEF Dispatch, StickyInv, BatchInv, PhaseOK
    <2>2. ASSUME NEW w \in WorkerIds PROVE CacheOK(w)'
      <3>1. CacheOK(w)
        BY DEF StickyInv
      <3>2. ASSUME NEW k \in 1..Len(cache[w]) PROVE BatchOfEntry(cache[w], k) <= batch + 1
        <4>1. BatchOfEntry(cache[w], k) \in Nat /\ BatchOfEntry(cache[w], k) <= batch
          BY <3>1 DEF CacheOK, Requests, BatchOfEntry
        <4> QED BY <2>1, <4>1
      <3> QED BY <2>1, <3>1, <3>2 DEF CacheOK
    <2>3. \A row \in Rows : UsedOK(row)'
      BY <2>1 DEF UsedOK
    <2> QED BY <1>1, <2>1, <2>2, <2>3 DEF StickyInv
  <1>4. ASSUME NEW row \in Rows, NEW s \in Servers, Generate(row, s) PROVE StickyInv'
    <2>1. /\ batch' = batch /\ used' = [used EXCEPT ![row] = @ \cup {s}]
          /\ Reuse(WorkerOf(row), RequestOf(row), s) \/ Assign(WorkerOf(row), RequestOf(row), s)
      BY <1>4 DEF Generate
    <2>2. (\A w \in WorkerIds : CacheOK(w)') /\ (\A r \in Rows : UsedOK(r)')
      BY <2>1, ReuseSticks, AssignSticks
    <2>3. DOMAIN cache' = WorkerIds /\ DOMAIN used' = Rows
      BY <2>1 DEF Reuse, Assign, StickyInv
    <2> QED BY <1>1, <2>2, <2>3 DEF StickyInv
  <1>5. CASE Collect \/ Fail
    BY <1>2, <1>5 DEF Collect, Fail
  <1>6. ASSUME NEW row \in Rows, End(row) PROVE StickyInv'
    BY <1>2, <1>6 DEF End
  <1>7. ASSUME NEW w \in WorkerIds, WorkerReturns(w) PROVE StickyInv'
    BY <1>2, <1>7 DEF WorkerReturns
  <1>8. CASE UNCHANGED batchVars
    BY <1>2, <1>8 DEF batchVars
  <1> QED BY <1>3, <1>4, <1>5, <1>6, <1>7, <1>8 DEF Next

LEMMA AlwaysStickyInv == Spec => []StickyInv
  BY InitSticky, NextSticky, PTL DEF Spec

-------------------------------------------------------------------------------
LEMMA AlwaysBatch == Spec => []BatchInv
  BY InitBatch, NextKeeps, PTL DEF Spec

\* However many servers and requests there are, no server of a worker has been
\* given two more than another.
THEOREM AlwaysBalanced == Spec => []Balanced
  <1>1. BatchInv => Balanced
    BY DEF BatchInv, WeightsOK
  <1> QED BY <1>1, AlwaysBatch, PTL

\* For any split of a batch the output is in the order of the prompts.
THEOREM AlwaysAligned == Spec => []Aligned
  <1>1. BatchInv => Aligned
    BY DEF BatchInv, PartsOK
  <1> QED BY <1>1, AlwaysBatch, PTL

\* A trajectory that runs, a failed batch's included, has its servers awake.
THEOREM AwakeAtWork == Spec => []AwakeWhileRunning
  <1>1. BatchInv => AwakeWhileRunning
    BY DEF BatchInv, PhaseOK, AwakeWhileRunning
  <1> QED BY <1>1, AlwaysBatch, PTL

\* With a cache that has room for the trajectories of its worker, every turn of a
\* trajectory goes to the same server, for any number of batches and servers.
THEOREM AlwaysSticky == Spec => []Sticky
  <1>1. StickyInv => Sticky
    <2> SUFFICES ASSUME StickyInv, NEW row \in Rows PROVE Cardinality(used[row]) <= 1
      BY DEF Sticky
    <2>1. UsedOK(row)
      BY DEF StickyInv
    <2>2. CASE used[row] = {}
      BY <2>2, FS_EmptySet
    <2>3. ASSUME NEW s \in Servers, used[row] = {s} PROVE Cardinality(used[row]) <= 1
      <3>1. Cardinality({s}) = 1
        BY FS_Singleton
      <3> QED BY <2>3, <3>1
    <2> QED BY <2>1, <2>2, <2>3 DEF UsedOK
  <1> QED BY <1>1, AlwaysStickyInv, PTL

===============================================================================
