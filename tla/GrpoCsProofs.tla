------------------------------ MODULE GrpoCsProofs -----------------------------
(***************************************************************************)
(* For any batch: compute_grpo_cs_advantage, which reads each record once  *)
(* and marks its tokens, raises exactly for the batches in which the       *)
(* records of some trajectory are not those that the agent loop promises.  *)
(***************************************************************************)
EXTENDS GrpoCs, FoldLemmas

NoStepYet == {"rollout", "rewards", "outcome"}

\* How many records of a row have been read.
NRead(row) ==
    IF row < scan[1] THEN Len(RecsAt(row)) ELSE IF row = scan[1] THEN scan[2] - 1 ELSE 0

\* The first n records of a row are sound, and their tokens those occupied.
RowRead(row, n) ==
    LET recs == RecsAt(row)
    IN /\ n \in Nat /\ n <= Len(recs)
       /\ \A k \in 1..n : InBounds(recs[k], Length) /\ Trained(recs[k], row_of[row].mask)
                          /\ recs[k].finite
       /\ \A i, j \in 1..n : i # j => Disjoint(recs[i], recs[j])
       /\ \A k \in 1..n : Span(recs[k]) \subseteq occupied[row]
       /\ \A token \in occupied[row] : \E k \in 1..n : token \in Span(recs[k])

BatchType ==
    /\ row_of \in [Rows -> Trajectories]
    /\ occupied \in [Rows -> SUBSET Int]
    /\ scan \in Nat \X Nat /\ scan[1] > 0 /\ scan[2] > 0

\* What the scan has established; a batch is raised at a record that is refused.
ScanInv ==
    /\ BatchType
    /\ stage \in NoStepYet => scan = <<1, 1>>
    /\ \A row \in Rows : RowRead(row, NRead(row))
    /\ stage = "raised" =>
          scan[1] \in Rows /\ scan[2] <= Len(RecsAt(scan[1])) /\ ~Readable(scan[1], Current)

LEMMA TrajectoryRecs ==
  ASSUME NEW t \in Trajectories
  PROVE  t.recs \in Seq(Records)
  BY GrpoAssumptions

LEMMA RecsOfRow ==
  ASSUME BatchType, NEW row \in Rows
  PROVE  /\ RecsAt(row) \in Seq(Records) /\ Len(RecsAt(row)) \in Nat
         /\ \A k \in 1..Len(RecsAt(row)) :
               RecsAt(row)[k].start \in Int /\ RecsAt(row)[k].end \in Int
  <1>1. row_of[row] \in Trajectories
    BY DEF BatchType
  <1>2. RecsAt(row) \in Seq(Records)
    BY <1>1, TrajectoryRecs DEF RecsAt
  <1>3. \A k \in 1..Len(RecsAt(row)) : RecsAt(row)[k] \in Records
    BY <1>2
  <1>4. \A r \in Records : r.start \in Int /\ r.end \in Int
    BY DEF Records
  <1> QED BY <1>2, <1>3, <1>4

\* Two spans within the response share a token exactly when they are not disjoint.
LEMMA SpansMeet ==
  ASSUME NEW r, NEW s, r.start \in Int, r.end \in Int, s.start \in Int, s.end \in Int,
         r.end > r.start, s.end > s.start
  PROVE  Disjoint(r, s) <=> Span(r) \cap Span(s) = {}
  <1>1. Disjoint(r, s) => Span(r) \cap Span(s) = {}
    BY DEF Disjoint, Span
  <1>2. CASE ~Disjoint(r, s) /\ r.start <= s.start
    BY <1>2, s.start + 1 \in Span(r) /\ s.start + 1 \in Span(s) DEF Disjoint, Span
  <1>3. CASE ~Disjoint(r, s) /\ s.start < r.start
    BY <1>3, r.start + 1 \in Span(r) /\ r.start + 1 \in Span(s) DEF Disjoint, Span
  <1> QED BY <1>1, <1>2, <1>3

LEMMA DisjointSymmetric ==
  ASSUME NEW r, NEW s, Disjoint(r, s)
  PROVE  Disjoint(s, r)
  BY DEF Disjoint

LEMMA RowsAreIntegers == Rows \subseteq Int /\ Length \in Nat /\ Size \in Nat
  BY GrpoAssumptions DEF Rows

-------------------------------------------------------------------------------

LEMMA ScanInit == Init => ScanInv
  <1> SUFFICES ASSUME Init PROVE ScanInv
    OBVIOUS
  <1>1. BatchType
    BY DEF Init, BatchType
  <1>2. scan = <<1, 1>> /\ stage = "rollout"
    BY DEF Init
  <1>3. ASSUME NEW row \in Rows PROVE RowRead(row, NRead(row))
    <2>1. occupied[row] = {}
      BY DEF Init
    <2>2. NRead(row) = 0
      BY <1>2, RowsAreIntegers DEF NRead, Rows
    <2> QED BY <2>1, <2>2, <1>1, RecsOfRow DEF RowRead
  <1> QED BY <1>1, <1>2, <1>3 DEF ScanInv

\* Before the records are read their rows may be reordered.
LEMMA ReorderedRows ==
  ASSUME ScanInv, stage \in NoStepYet, row_of' \in [Rows -> Trajectories],
         UNCHANGED <<scan, occupied>>, stage' # "raised"
  PROVE  ScanInv'
  <1>1. BatchType'
    BY DEF ScanInv, BatchType
  <1>2. scan = <<1, 1>> /\ scan' = <<1, 1>>
    BY DEF ScanInv
  <1>3. ASSUME NEW row \in Rows PROVE RowRead(row, NRead(row))'
    <2>1. NRead(row) = 0 /\ NRead(row)' = 0
      BY <1>2, RowsAreIntegers DEF NRead, Rows
    <2>2. RowRead(row, 0)
      BY <2>1 DEF ScanInv
    <2>3. occupied'[row] = {}
      BY <2>2 DEF RowRead
    <2>4. Len(RecsAt(row))' \in Nat
      <3>1. row_of'[row] \in Trajectories
        OBVIOUS
      <3> QED BY <3>1, TrajectoryRecs DEF RecsAt
    <2> QED BY <2>1, <2>3, <2>4 DEF RowRead
  <1> QED BY <1>1, <1>2, <1>3 DEF ScanInv

\* A record that passes the checks extends what is known of its row.
LEMMA RecordRead ==
  ASSUME ScanInv, ReadRecord, NEW r, NEW n, scan = <<r, n>>
  PROVE  ScanInv'
  <1> DEFINE recs == RecsAt(r)
  <1>1. r \in Rows /\ n <= Len(recs) /\ n \in Nat /\ n > 0
    BY DEF ReadRecord, AtRecord, ScanInv, BatchType
  <1>2. scan' = <<r, n + 1>> /\ row_of' = row_of /\ stage' = "steps"
    BY DEF ReadRecord, AtRecord, batchVars
  <1>3. BatchType /\ BatchType'
    <2>1. Span(Current) \subseteq Int
      BY <1>1, RecsOfRow DEF Span, Current, ScanInv
    <2>2. occupied' \in [Rows -> SUBSET Int]
      BY <2>1, <1>1 DEF ReadRecord, ScanInv, BatchType
    <2>3. scan' \in Nat \X Nat /\ scan'[1] > 0 /\ scan'[2] > 0
      BY <1>1, <1>2 DEF ScanInv, BatchType
    <2> QED BY <2>2, <2>3, <1>2 DEF ScanInv, BatchType
  <1>4. /\ Current = recs[n] /\ InBounds(recs[n], Length)
        /\ Trained(recs[n], row_of[r].mask) /\ recs[n].finite
        /\ Span(recs[n]) \cap occupied[r] = {}
    BY DEF ReadRecord, Readable, Current
  <1>5. RowRead(r, n - 1)
    <2>1. NRead(r) = n - 1
      BY <1>1, RowsAreIntegers DEF NRead
    <2> QED BY <1>1, <2>1 DEF ScanInv
  <1>6. occupied'[r] = occupied[r] \cup Span(recs[n])
    BY <1>1, <1>3, <1>4 DEF ReadRecord, BatchType
  <1>7. \A row \in Rows \ {r} : occupied'[row] = occupied[row]
    BY <1>3 DEF ReadRecord, BatchType
  <1>8. ASSUME NEW row \in Rows PROVE RecsAt(row)' = RecsAt(row)
    BY <1>2 DEF RecsAt
  <1>9. ASSUME NEW k \in 1..(n - 1) PROVE Disjoint(recs[k], recs[n])
    <2>1. Span(recs[k]) \subseteq occupied[r] /\ InBounds(recs[k], Length)
      BY <1>5 DEF RowRead
    <2>2. k \in 1..Len(recs) /\ n \in 1..Len(recs)
      BY <1>1, <1>3, RecsOfRow
    <2>3. Span(recs[k]) \cap Span(recs[n]) = {}
      BY <2>1, <1>4
    <2>4. recs[k].end > recs[k].start /\ recs[n].end > recs[n].start
      BY <2>1, <1>4 DEF InBounds
    <2>5. /\ recs[k].start \in Int /\ recs[k].end \in Int
          /\ recs[n].start \in Int /\ recs[n].end \in Int
      BY <2>2, <1>1, <1>3, RecsOfRow
    <2> HIDE DEF recs
    <2> QED BY <2>3, <2>4, <2>5, SpansMeet
  <1>10. RowRead(r, n)'
    <2>1. n \in Nat /\ n <= Len(recs)
      BY <1>1
    <2>2. \A k \in 1..n : k \in 1..(n - 1) \/ k = n
      BY <1>1
    <2>3. \A k \in 1..n : InBounds(recs[k], Length) /\ Trained(recs[k], row_of[r].mask)
                           /\ recs[k].finite
      BY <2>2, <1>4, <1>5 DEF RowRead
    <2>4. ASSUME NEW i \in 1..n, NEW j \in 1..n, i # j PROVE Disjoint(recs[i], recs[j])
      <3>1. CASE i \in 1..(n - 1) /\ j \in 1..(n - 1)
        BY <3>1, <2>4, <1>5 DEF RowRead
      <3>2. CASE i = n /\ j \in 1..(n - 1)
        BY <3>2, <1>9, DisjointSymmetric
      <3>3. CASE j = n /\ i \in 1..(n - 1)
        BY <3>3, <1>9
      <3> QED BY <2>2, <2>4, <3>1, <3>2, <3>3
    <2>5. \A k \in 1..n : Span(recs[k]) \subseteq occupied'[r]
      BY <2>2, <1>5, <1>6 DEF RowRead
    <2>6. \A token \in occupied'[r] : \E k \in 1..n : token \in Span(recs[k])
      <3>1. \A token \in occupied[r] : \E k \in 1..(n - 1) : token \in Span(recs[k])
        BY <1>5 DEF RowRead
      <3>2. n \in 1..n /\ 1..(n - 1) \subseteq 1..n
        BY <1>1
      <3> QED BY <3>1, <3>2, <1>6
    <2>7. recs' = recs /\ row_of'[r] = row_of[r]
      BY <1>1, <1>2, <1>8 DEF RecsAt
    <2>8. \A k \in 1..n : InBounds(recs'[k], Length) /\ Trained(recs'[k], row_of'[r].mask)
                           /\ recs'[k].finite
      BY <2>3, <2>7
    <2> HIDE DEF recs
    <2>9. \A i, j \in 1..n : i # j => Disjoint(recs'[i], recs'[j])
      BY <2>4, <2>7
    <2>10. \A k \in 1..n : Span(recs'[k]) \subseteq occupied'[r]
      BY <2>5, <2>7
    <2>11. \A token \in occupied'[r] : \E k \in 1..n : token \in Span(recs'[k])
      BY <2>6, <2>7
    <2>12. n \in Nat /\ n <= Len(recs')
      BY <2>1, <2>7
    <2> QED BY <2>8, <2>9, <2>10, <2>11, <2>12 DEF RowRead, recs
  <1>11. ASSUME NEW row \in Rows PROVE RowRead(row, NRead(row))'
    <2>1. CASE row = r
      <3>1. NRead(row)' = n
        BY <2>1, <1>1, <1>2, RowsAreIntegers DEF NRead
      <3> QED BY <3>1, <2>1, <1>10
    <2>2. CASE row # r
      <3>1. NRead(row)' = NRead(row)
        BY <2>2, <1>1, <1>2, <1>8, RowsAreIntegers DEF NRead
      <3>2. RowRead(row, NRead(row))
        BY DEF ScanInv
      <3> QED BY <3>1, <3>2, <2>2, <1>2, <1>7, <1>8 DEF RowRead
    <2> QED BY <2>1, <2>2
  <1> QED BY <1>2, <1>3, <1>11 DEF ScanInv, NoStepYet

-------------------------------------------------------------------------------

\* A step that leaves rows, scan and marked tokens alone.
LEMMA ScanKept ==
  ASSUME ScanInv, UNCHANGED <<row_of, scan, occupied>>,
         stage' \in NoStepYet => stage \in NoStepYet,
         stage' = "raised" => stage = "raised"
                              \/ (scan[1] \in Rows /\ scan[2] <= Len(RecsAt(scan[1]))
                                  /\ ~Readable(scan[1], Current))
  PROVE  ScanInv'
  <1>1. BatchType' /\ (stage' \in NoStepYet => scan' = <<1, 1>>)
    BY DEF ScanInv, BatchType
  <1>2. ASSUME NEW row \in Rows PROVE RowRead(row, NRead(row))'
    <2>1. RowRead(row, NRead(row))
      BY DEF ScanInv
    <2>2. RecsAt(row)' = RecsAt(row) /\ NRead(row)' = NRead(row)
      BY DEF RecsAt, NRead
    <2> QED BY <2>1, <2>2 DEF RowRead
  <1>3. stage' = "raised" =>
          scan'[1] \in Rows /\ scan'[2] <= Len(RecsAt(scan[1]))' /\ ~Readable(scan[1], Current)'
    BY DEF ScanInv, RecsAt, Current, Readable
  <1> QED BY <1>1, <1>2, <1>3 DEF ScanInv

\* All records of a row have been read.
LEMMA RowEnds ==
  ASSUME ScanInv, NextRow, NEW r, NEW n, scan = <<r, n>>
  PROVE  ScanInv'
  <1>1. r \in Rows /\ n > Len(RecsAt(r)) /\ n \in Nat /\ BatchType
    BY DEF NextRow, ScanInv, BatchType
  <1>2. scan' = <<r + 1, 1>> /\ row_of' = row_of /\ occupied' = occupied /\ stage' = "steps"
    BY DEF NextRow, batchVars
  <1>3. BatchType'
    BY <1>1, <1>2, RowsAreIntegers DEF BatchType, Rows
  <1>4. Len(RecsAt(r)) = n - 1
    <2>1. NRead(r) = n - 1
      BY <1>1, RowsAreIntegers DEF NRead
    <2>2. NRead(r) <= Len(RecsAt(r)) /\ Len(RecsAt(r)) \in Nat
      BY <1>1, RecsOfRow DEF ScanInv, RowRead
    <2> QED BY <1>1, <2>1, <2>2
  <1>5. ASSUME NEW row \in Rows PROVE RowRead(row, NRead(row))'
    <2>1. RecsAt(row)' = RecsAt(row)
      BY <1>2 DEF RecsAt
    <2>2. NRead(row)' = NRead(row)
      BY <1>1, <1>2, <1>4, <2>1, RowsAreIntegers DEF NRead
    <2>3. RowRead(row, NRead(row))
      BY DEF ScanInv
    <2> QED BY <1>2, <2>1, <2>2, <2>3 DEF RowRead
  <1> QED BY <1>2, <1>3, <1>5 DEF ScanInv, NoStepYet

LEMMA ScanStep == ScanInv /\ [Next]_grpoVars => ScanInv'
  <1> SUFFICES ASSUME ScanInv, [Next]_grpoVars PROVE ScanInv'
    OBVIOUS
  <1>1. scan = <<scan[1], scan[2]>>
    BY DEF ScanInv, BatchType
  <1>2. CASE Postprocess
    BY <1>2, ScanKept DEF Postprocess, NoStepYet
  <1>3. CASE BalanceBatch
    <2>1. row_of' \in [Rows -> Trajectories]
      BY <1>3 DEF BalanceBatch, Bijections, ScanInv, BatchType
    <2> QED BY <1>3, <2>1, ReorderedRows DEF BalanceBatch, NoStepYet
  <1>4. CASE OutcomeAdvantage
    BY <1>4, ScanKept DEF OutcomeAdvantage, NoStepYet, batchVars
  <1>5. CASE ReadRecord
    BY <1>1, <1>5, RecordRead
  <1>6. CASE RaiseOnRecord
    BY <1>6, ScanKept DEF RaiseOnRecord, AtRecord, NoStepYet, batchVars
  <1>7. CASE NextRow
    BY <1>1, <1>7, RowEnds
  <1>8. CASE AddSteps
    BY <1>8, ScanKept DEF AddSteps, NoStepYet, batchVars
  <1>9. CASE UNCHANGED grpoVars
    BY <1>9, ScanKept DEF grpoVars, batchVars
  <1> QED BY <1>2, <1>3, <1>4, <1>5, <1>6, <1>7, <1>8, <1>9 DEF Next

-------------------------------------------------------------------------------

\* The records that RefusedIffUnsound takes of a row are its first NRead.
LEMMA PrefixOf ==
  ASSUME BatchType, NEW row \in Rows, NEW n \in Nat, n <= Len(RecsAt(row))
  PROVE  /\ Len(SubSeq(RecsAt(row), 1, n)) = n
         /\ \A k \in 1..n : SubSeq(RecsAt(row), 1, n)[k] = RecsAt(row)[k]
         /\ DOMAIN SubSeq(RecsAt(row), 1, n) = 1..n
  <1>1. RecsAt(row) \in Seq(Records)
    BY RecsOfRow
  <1> QED BY <1>1, SubSeqProperties

LEMMA ReadRecsAre ==
  ASSUME ScanInv, NEW row \in Rows
  PROVE  /\ Len(ReadRecs(row)) = NRead(row) /\ DOMAIN ReadRecs(row) = 1..NRead(row)
         /\ \A k \in 1..NRead(row) : ReadRecs(row)[k] = RecsAt(row)[k]
  <1>1. BatchType /\ NRead(row) \in Nat /\ NRead(row) <= Len(RecsAt(row))
    BY DEF ScanInv, RowRead
  <1>2. CASE row < scan[1]
    BY <1>1, <1>2, RecsOfRow DEF ReadRecs, NRead
  <1>3. CASE row = scan[1]
    <2>1. NRead(row) = scan[2] - 1 /\ ~(row < scan[1])
      BY <1>3, RowsAreIntegers DEF NRead
    <2>2. ReadRecs(row) = SubSeq(RecsAt(row), 1, NRead(row))
      BY <1>3, <2>1 DEF ReadRecs
    <2> QED BY <1>1, <2>2, PrefixOf
  <1>4. CASE ~(row < scan[1]) /\ row # scan[1]
    BY <1>4 DEF ReadRecs, NRead
  <1> QED BY <1>2, <1>3, <1>4

LEMMA ReadAreSound == ScanInv => \A row \in Rows : Sound(row, ReadRecs(row))
  <1> SUFFICES ASSUME ScanInv, NEW row \in Rows PROVE Sound(row, ReadRecs(row))
    OBVIOUS
  <1> DEFINE recs == ReadRecs(row)  n == NRead(row)
  <1>1. RowRead(row, n)
    BY DEF ScanInv
  <1>2. Len(recs) = n /\ DOMAIN recs = 1..n /\ \A k \in 1..n : recs[k] = RecsAt(row)[k]
    BY ReadRecsAre
  <1> HIDE DEF recs, n
  <1>3. \A k \in 1..n : InBounds(recs[k], Length) /\ Trained(recs[k], row_of[row].mask)
                        /\ recs[k].finite
    BY <1>1, <1>2 DEF RowRead
  <1>4. \A i, j \in 1..n : i # j => Disjoint(recs[i], recs[j])
    BY <1>1, <1>2 DEF RowRead
  <1> QED BY <1>2, <1>3, <1>4 DEF Sound, Accepted, AllFinite, recs

LEMMA RaisedIsUnsound ==
  ScanInv /\ stage = "raised" => ~Sound(scan[1], SubSeq(RecsAt(scan[1]), 1, scan[2]))
  <1> SUFFICES ASSUME ScanInv, stage = "raised", NEW r, NEW n, scan = <<r, n>>,
                      Sound(r, SubSeq(RecsAt(r), 1, n))
               PROVE  FALSE
    BY DEF ScanInv, BatchType
  <1> DEFINE recs == RecsAt(r)  prefix == SubSeq(recs, 1, n)
  <1>1. /\ r \in Rows /\ n \in Nat /\ n > 0 /\ n <= Len(recs) /\ BatchType
        /\ ~Readable(r, recs[n])
    BY DEF ScanInv, BatchType, Current
  <1>2. Len(prefix) = n /\ DOMAIN prefix = 1..n /\ \A k \in 1..n : prefix[k] = recs[k]
    BY <1>1, PrefixOf
  <1>3. RowRead(r, n - 1)
    <2>1. NRead(r) = n - 1
      BY <1>1, RowsAreIntegers DEF NRead
    <2> QED BY <1>1, <2>1 DEF ScanInv
  <1>4. \A k \in 1..n : recs[k].start \in Int /\ recs[k].end \in Int
    BY <1>1, RecsOfRow
  <1> HIDE DEF recs
  <1>5. Accepted(prefix, row_of[r].mask, Length) /\ AllFinite(prefix)
    BY DEF Sound, recs
  <1> HIDE DEF prefix
  <1>6. \A k \in 1..n : InBounds(recs[k], Length) /\ Trained(recs[k], row_of[r].mask)
                        /\ recs[k].finite
    BY <1>2, <1>5 DEF Accepted, AllFinite
  <1>7. \A i, j \in 1..n : i # j => Disjoint(recs[i], recs[j])
    BY <1>2, <1>5 DEF Accepted
  <1>8. n \in 1..n
    BY <1>1
  <1>9. PICK token \in occupied[r] : token \in Span(recs[n])
    BY <1>1, <1>6, <1>8 DEF Readable
  <1>10. PICK k \in 1..(n - 1) : token \in Span(recs[k])
    BY <1>3 DEF RowRead, recs
  <1>11. k \in 1..n /\ k # n
    BY <1>1
  <1>12. Disjoint(recs[k], recs[n])
    BY <1>7, <1>8, <1>11
  <1>13. recs[k].end > recs[k].start /\ recs[n].end > recs[n].start
    BY <1>6, <1>8, <1>11 DEF InBounds
  <1>14. Span(recs[k]) \cap Span(recs[n]) = {}
    BY <1>4, <1>8, <1>11, <1>12, <1>13, SpansMeet
  <1> QED BY <1>9, <1>10, <1>14

\* For every batch, in every order of its rows and for every number of records:
\* the estimator reads sound records only, and training ends with a ValueError
\* only at a record that makes the records of its trajectory unsound.
THEOREM RefusedExactlyIfUnsound == Spec => []RefusedIffUnsound
  <1>1. ScanInv => RefusedIffUnsound
    BY ReadAreSound, RaisedIsUnsound DEF RefusedIffUnsound
  <1> QED BY <1>1, ScanInit, ScanStep, PTL DEF Spec

-------------------------------------------------------------------------------

\* What the agent loop promises of its trajectories: SpansNeverRefused, with
\* finite credits.
Promised == \A t \in Trajectories : Accepted(t.recs, t.mask, Length) /\ AllFinite(t.recs)

\* With the promise of the agent loop no batch ends training.
THEOREM PromisedNeverRaises == ASSUME Promised PROVE Spec => [](stage # "raised")
  <1>1. ScanInv => stage # "raised"
    <2> SUFFICES ASSUME ScanInv, stage = "raised", NEW r, NEW n, scan = <<r, n>> PROVE FALSE
      BY DEF ScanInv, BatchType
    <2> DEFINE recs == RecsAt(r)  prefix == SubSeq(recs, 1, n)
    <2>1. r \in Rows /\ n \in Nat /\ n > 0 /\ n <= Len(recs) /\ BatchType
      BY DEF ScanInv, BatchType
    <2>2. Len(prefix) = n /\ DOMAIN prefix = 1..n /\ \A k \in 1..n : prefix[k] = recs[k]
      BY <2>1, PrefixOf
    <2>3. Accepted(recs, row_of[r].mask, Length) /\ AllFinite(recs)
      BY <2>1 DEF Promised, RecsAt, BatchType
    <2>4. Len(recs) \in Nat /\ DOMAIN recs = 1..Len(recs)
      BY <2>1, RecsOfRow
    <2>5. ~Sound(r, prefix)
      BY RaisedIsUnsound
    <2> HIDE DEF recs, prefix
    <2>6. \A k \in 1..n : k \in 1..Len(recs)
      BY <2>1, <2>4
    <2>7. AllFinite(prefix)
      BY <2>2, <2>3, <2>4, <2>6 DEF AllFinite
    <2>8. Accepted(prefix, row_of[r].mask, Length)
      BY <2>2, <2>3, <2>6 DEF Accepted
    <2> QED BY <2>5, <2>7, <2>8 DEF Sound
  <1> QED BY <1>1, ScanInit, ScanStep, PTL DEF Spec

-------------------------------------------------------------------------------
(* Which advantage every token gets *)

ScoreRow(t) == [k \in Tokens |-> IF k = ScoreColumn(t) THEN t.score ELSE 0]

\* Where the rows are, as against the order of the prompts.
RowsMoved ==
    /\ order \in Bijections
    /\ stage \in {"rollout", "rewards"} => order = [row \in Rows |-> row]
    /\ \A p \in Rows : Trajectory(p) \in Trajectories
    /\ \A row \in Rows : index[row] = Uid(order[row]) /\ row_of[row] = Trajectory(order[row])

Scored == stage # "rollout" => \A row \in Rows : token_rewards[row] = ScoreRow(row_of[row])

Centred ==
    stage \notin NoStepYet =>
        \A row \in Rows : outcome[row] = Scale * TotalReward(row) - ScaledMean(PeersOf(row))

\* The steps grouped so far are those of the records read so far.
Grouped ==
    /\ \A s \in grouped : \E row \in Rows : \E n \in 1..NRead(row) : s = StepOf(row, n)
    /\ \A row \in Rows : \A n \in 1..NRead(row) : StepOf(row, n) \in grouped

Added ==
    stage = "done" =>
        /\ scan[1] > Size
        /\ \A row \in Rows : \A k \in Tokens :
              advantages[row][k] = (outcome[row] + StepAdvantage(row, k)) * row_of[row].mask[k]

AdvantageInv == ScanInv /\ RowsMoved /\ Scored /\ Centred /\ Grouped /\ Added

LEMMA NothingRead ==
  ASSUME ScanInv, stage \in NoStepYet, NEW row \in Rows
  PROVE  NRead(row) = 0
  BY RowsAreIntegers DEF NRead, Rows, ScanInv

\* Steps after which the same rows are in the same places.
LEMMA SamePlaces ==
  ASSUME AdvantageInv, UNCHANGED batchVars, stage' \notin {"rollout", "rewards"},
         stage # "rollout"
  PROVE  /\ RowsMoved' /\ Scored'
         /\ \A row : /\ RecsAt(row)' = RecsAt(row) /\ TotalReward(row)' = TotalReward(row)
                    /\ ScaledMean(PeersOf(row))' = ScaledMean(PeersOf(row))
         /\ \A row, n : StepOf(row, n)' = StepOf(row, n)
  <1>1. UNCHANGED <<index, row_of, token_rewards, order, asked>>
    BY DEF batchVars
  <1>2. RowsMoved' /\ Scored'
    BY <1>1 DEF AdvantageInv, RowsMoved, Scored, Uid, Trajectory
  <1>3. \A row : RecsAt(row)' = RecsAt(row) /\ TotalReward(row)' = TotalReward(row)
    BY <1>1 DEF RecsAt, TotalReward
  <1>4. \A row : ScaledMean(PeersOf(row))' = ScaledMean(PeersOf(row))
    BY <1>1, <1>3 DEF ScaledMean, PeersOf
  <1>5. \A row, n : StepOf(row, n)' = StepOf(row, n)
    BY <1>1 DEF StepOf, Key, RecsAt
  <1> QED BY <1>2, <1>3, <1>4, <1>5

LEMMA AdvantageInit == Init => AdvantageInv
  <1> SUFFICES ASSUME Init PROVE AdvantageInv
    OBVIOUS
  <1>1. ScanInv
    BY ScanInit
  <1>2. order = [row \in Rows |-> row] /\ order \in Bijections
    BY DEF Init, Bijections
  <1>3. \A p \in Rows : Uid(p) = index[p] /\ Trajectory(p) = row_of[p] /\ order[p] = p
    BY <1>2 DEF Init, Uid, Trajectory
  <1>4. RowsMoved
    BY <1>2, <1>3 DEF RowsMoved, Init
  <1>5. stage = "rollout" /\ grouped = {}
    BY DEF Init
  <1>6. Grouped
    BY <1>1, <1>5, NothingRead DEF Grouped, NoStepYet
  <1>7. Scored /\ Centred /\ Added
    BY <1>5 DEF Scored, Centred, Added, NoStepYet
  <1> QED BY <1>1, <1>4, <1>6, <1>7 DEF AdvantageInv

\* Before the records are read, no step is grouped.
LEMMA StillUngrouped ==
  ASSUME AdvantageInv, ScanInv', stage \in NoStepYet, UNCHANGED <<scan, grouped>>
  PROVE  Grouped'
  <1>1. \A row \in Rows : NRead(row) = 0
    BY NothingRead DEF AdvantageInv
  <1>2. grouped' = {}
    BY <1>1 DEF AdvantageInv, Grouped
  <1>3. \A row \in Rows : NRead(row)' = 0
    <2>1. scan' = <<1, 1>>
      BY DEF AdvantageInv, ScanInv
    <2> QED BY <2>1, RowsAreIntegers DEF NRead, Rows
  <1> QED BY <1>2, <1>3 DEF Grouped

LEMMA PostprocessKeeps ==
  ASSUME AdvantageInv, ScanInv', Postprocess
  PROVE  AdvantageInv'
  <1>1. /\ UNCHANGED <<index, row_of, order, asked, scan, grouped>>
        /\ stage = "rollout" /\ stage' = "rewards"
    BY DEF Postprocess
  <1>2. RowsMoved'
    BY <1>1 DEF AdvantageInv, RowsMoved, Uid, Trajectory
  <1>3. Scored'
    BY <1>1 DEF Postprocess, Scored, ScoreRow
  <1>4. Grouped'
    BY <1>1, StillUngrouped DEF NoStepYet
  <1> QED BY <1>1, <1>2, <1>3, <1>4 DEF AdvantageInv, Centred, Added, NoStepYet

LEMMA BalanceKeeps ==
  ASSUME AdvantageInv, ScanInv', BalanceBatch
  PROVE  AdvantageInv'
  <1>1. /\ stage = "rewards" /\ stage' = "outcome" /\ UNCHANGED <<asked, scan, grouped>>
    BY DEF BalanceBatch
  <1>2. PICK to \in Bijections :
          /\ index' = [row \in Rows |-> index[to[row]]]
          /\ row_of' = [row \in Rows |-> row_of[to[row]]]
          /\ token_rewards' = [row \in Rows |-> token_rewards[to[row]]]
          /\ order' = to
    BY DEF BalanceBatch
  <1>3. \A row \in Rows : to[row] \in Rows /\ order[to[row]] = to[row]
    <2>1. order = [row \in Rows |-> row]
      BY <1>1 DEF AdvantageInv, RowsMoved
    <2>2. to \in [Rows -> Rows]
      BY DEF Bijections
    <2> QED BY <2>1, <2>2
  <1>4. RowsMoved'
    <2>1. \A p : Uid(p)' = Uid(p) /\ Trajectory(p)' = Trajectory(p)
      BY <1>1 DEF Uid, Trajectory
    <2>2. \A row \in Rows : index'[row] = Uid(to[row]) /\ row_of'[row] = Trajectory(to[row])
      BY <1>2, <1>3 DEF AdvantageInv, RowsMoved
    <2> QED BY <1>1, <1>2, <2>1, <2>2 DEF AdvantageInv, RowsMoved
  <1>5. Scored'
    <2>1. \A row \in Rows : token_rewards'[row] = ScoreRow(row_of'[row])
      BY <1>1, <1>2, <1>3 DEF AdvantageInv, Scored
    <2> QED BY <2>1 DEF Scored, ScoreRow, ScoreColumn
  <1>6. Grouped'
    BY <1>1, StillUngrouped DEF NoStepYet
  <1> QED BY <1>1, <1>4, <1>5, <1>6 DEF AdvantageInv, Centred, Added, NoStepYet

LEMMA OutcomeKeeps ==
  ASSUME AdvantageInv, ScanInv', OutcomeAdvantage
  PROVE  AdvantageInv'
  <1>1. /\ UNCHANGED batchVars /\ UNCHANGED <<scan, grouped>>
        /\ stage = "outcome" /\ stage' = "steps"
        /\ outcome' = [row \in Rows |-> Scale * TotalReward(row) - ScaledMean(PeersOf(row))]
    BY DEF OutcomeAdvantage
  <1>2. /\ RowsMoved' /\ Scored'
        /\ \A row : /\ TotalReward(row)' = TotalReward(row)
                   /\ ScaledMean(PeersOf(row))' = ScaledMean(PeersOf(row))
    BY <1>1, SamePlaces
  <1>3. Centred'
    BY <1>1, <1>2 DEF Centred
  <1>4. Grouped'
    BY <1>1, StillUngrouped DEF NoStepYet
  <1> QED BY <1>1, <1>2, <1>3, <1>4 DEF AdvantageInv, Added

\* A step that reads records: what it groups is what it has read.
LEMMA ReadingKeeps ==
  ASSUME AdvantageInv, ScanInv', UNCHANGED <<batchVars, outcome>>, stage = "steps",
         stage' \in {"steps", "raised"}, Grouped'
  PROVE  AdvantageInv'
  <1>1. UNCHANGED batchVars /\ stage' \notin {"rollout", "rewards"} /\ stage # "rollout"
    OBVIOUS
  <1>2. /\ RowsMoved' /\ Scored'
        /\ \A row : /\ TotalReward(row)' = TotalReward(row)
                   /\ ScaledMean(PeersOf(row))' = ScaledMean(PeersOf(row))
    BY <1>1, SamePlaces
  <1>3. Centred'
    BY <1>2 DEF AdvantageInv, Centred, NoStepYet
  <1> QED BY <1>2, <1>3 DEF AdvantageInv, Added

LEMMA ReadRecordKeeps ==
  ASSUME AdvantageInv, ScanInv', ReadRecord
  PROVE  AdvantageInv'
  <1>1. /\ stage = "steps" /\ stage' = "steps" /\ UNCHANGED batchVars /\ outcome' = outcome
        /\ scan[1] \in Rows /\ scan' = <<scan[1], scan[2] + 1>>
        /\ grouped' = grouped \cup {StepOf(scan[1], scan[2])}
    BY DEF ReadRecord, AtRecord
  <1>2. /\ \A row : RecsAt(row)' = RecsAt(row)
        /\ \A row, m : StepOf(row, m)' = StepOf(row, m)
    BY <1>1, SamePlaces
  <1>3. PICK r \in Nat, n \in Nat : scan = <<r, n>> /\ n > 0
    BY DEF AdvantageInv, ScanInv, BatchType
  <1>4. /\ NRead(r) = n - 1 /\ NRead(r)' = n
        /\ \A row \in Rows \ {r} : NRead(row)' = NRead(row)
    BY <1>1, <1>2, <1>3, RowsAreIntegers DEF NRead
  <1>5. grouped' = grouped \cup {StepOf(r, n)}
    BY <1>1, <1>3
  <1>6. r \in Rows /\ n \in 1..n /\ 1..(n - 1) \subseteq 1..n
        /\ \A m \in 1..n : m \in 1..(n - 1) \/ m = n
    BY <1>1, <1>3
  <1>7. \A s \in grouped' : \E row \in Rows : \E m \in 1..NRead(row)' : s = StepOf(row, m)
    <2>1. \A s \in grouped : \E row \in Rows : \E m \in 1..NRead(row) : s = StepOf(row, m)
      BY DEF AdvantageInv, Grouped
    <2> DEFINE Before(row) == 1..NRead(row)
               After(row) == 1..NRead(row)'
    <2>2. ASSUME NEW row \in Rows PROVE Before(row) \subseteq After(row)
      <3>1. CASE row = r
        BY <3>1, <1>4, <1>6
      <3>2. CASE row # r
        BY <3>2, <1>4
      <3> QED BY <3>1, <3>2
    <2>3. n \in After(r)
      BY <1>4, <1>6
    <2>4. \A s \in grouped : \E row \in Rows : \E m \in Before(row) : s = StepOf(row, m)
      BY <2>1
    <2> HIDE DEF Before, After
    <2>5. \A s \in grouped' : \E row \in Rows : \E m \in After(row) : s = StepOf(row, m)
      BY <1>5, <1>6, <2>2, <2>3, <2>4
    <2> QED BY <2>5 DEF After
  <1>8. \A row \in Rows : \A m \in 1..NRead(row)' : StepOf(row, m) \in grouped'
    <2>1. \A row \in Rows : \A m \in 1..NRead(row) : StepOf(row, m) \in grouped
      BY DEF AdvantageInv, Grouped
    <2> SUFFICES ASSUME NEW row \in Rows, NEW m \in 1..NRead(row)' PROVE StepOf(row, m) \in grouped'
      OBVIOUS
    <2>2. CASE row = r
      <3>1. m \in 1..NRead(r) \/ m = n
        BY <1>4, <1>6, <2>2
      <3> QED BY <1>5, <2>1, <2>2, <3>1
    <2>3. CASE row # r
      <3>1. m \in 1..NRead(row)
        BY <1>4, <2>3
      <3> QED BY <1>5, <2>1, <3>1
    <2> QED BY <2>2, <2>3
  <1>9. Grouped'
    BY <1>2, <1>7, <1>8 DEF Grouped
  <1> QED BY <1>1, <1>9, ReadingKeeps

LEMMA RowEndsKeeps ==
  ASSUME AdvantageInv, ScanInv', NextRow \/ RaiseOnRecord
  PROVE  AdvantageInv'
  <1>1. /\ stage = "steps" /\ stage' \in {"steps", "raised"} /\ UNCHANGED batchVars
        /\ UNCHANGED <<outcome, grouped>>
    BY DEF NextRow, RaiseOnRecord, AtRecord
  <1>2. /\ \A row : RecsAt(row)' = RecsAt(row)
        /\ \A row, m : StepOf(row, m)' = StepOf(row, m)
    BY <1>1, SamePlaces
  <1>3. \A row \in Rows : NRead(row)' = NRead(row)
    <2>1. CASE NextRow
      <3>1. PICK r \in Nat, n \in Nat : scan = <<r, n>> /\ n > 0
        BY DEF AdvantageInv, ScanInv, BatchType
      <3>2. /\ r \in Rows /\ n > Len(RecsAt(r)) /\ scan' = <<r + 1, 1>> /\ BatchType
        BY <2>1, <3>1 DEF NextRow, AdvantageInv, ScanInv
      <3>3. NRead(r) = n - 1
        BY <3>1, RowsAreIntegers DEF NRead
      <3>4. Len(RecsAt(r)) = n - 1
        <4>1. NRead(r) <= Len(RecsAt(r)) /\ Len(RecsAt(r)) \in Nat
          BY <3>2, RecsOfRow DEF AdvantageInv, ScanInv, RowRead
        <4> QED BY <3>1, <3>2, <3>3, <4>1
      <3> QED BY <1>2, <3>1, <3>2, <3>3, <3>4, RowsAreIntegers DEF NRead
    <2>2. CASE RaiseOnRecord
      BY <2>2, <1>2 DEF RaiseOnRecord, NRead
    <2> QED BY <2>1, <2>2
  <1>4. Grouped'
    BY <1>1, <1>2, <1>3 DEF AdvantageInv, Grouped
  <1> QED BY <1>1, <1>4, ReadingKeeps

LEMMA AddStepsKeeps ==
  ASSUME AdvantageInv, ScanInv', AddSteps
  PROVE  AdvantageInv'
  <1>1. /\ stage = "steps" /\ stage' = "done" /\ UNCHANGED batchVars /\ scan[1] > Size
        /\ UNCHANGED <<outcome, scan, grouped>>
        /\ advantages' = [row \in Rows |-> [k \in Tokens |->
              (outcome[row] + StepAdvantage(row, k)) * row_of[row].mask[k]]]
    BY DEF AddSteps
  <1>2. /\ RowsMoved' /\ Scored'
        /\ \A row : /\ RecsAt(row)' = RecsAt(row) /\ TotalReward(row)' = TotalReward(row)
                   /\ ScaledMean(PeersOf(row))' = ScaledMean(PeersOf(row))
        /\ \A row, n : StepOf(row, n)' = StepOf(row, n)
    BY <1>1, SamePlaces
  <1>3. Centred'
    BY <1>1, <1>2 DEF AdvantageInv, Centred, NoStepYet
  <1>4. \A row : NRead(row)' = NRead(row)
    BY <1>1, <1>2 DEF NRead
  <1>5. Grouped'
    BY <1>1, <1>2, <1>4 DEF AdvantageInv, Grouped
  <1>6. Added'
    <2>1. \A s : StepCredit(s)' = StepCredit(s)
      BY <1>1 DEF StepCredit, Members
    <2>2. \A row, k : StepAdvantage(row, k)' = StepAdvantage(row, k)
      BY <1>1, <2>1 DEF StepAdvantage
    <2>3. row_of' = row_of
      BY <1>1 DEF batchVars
    <2> QED BY <1>1, <2>2, <2>3 DEF Added
  <1> QED BY <1>2, <1>3, <1>5, <1>6 DEF AdvantageInv

LEMMA AdvantageStutters ==
  ASSUME AdvantageInv, ScanInv', UNCHANGED grpoVars
  PROVE  AdvantageInv'
  <1>1. UNCHANGED <<stage, index, row_of, token_rewards, order, asked, outcome, scan, grouped, advantages>>
    BY DEF grpoVars, batchVars
  <1>2. RowsMoved' /\ Scored'
    BY <1>1 DEF AdvantageInv, RowsMoved, Scored, Uid, Trajectory
  <1>3. Centred'
    BY <1>1 DEF AdvantageInv, Centred, TotalReward, ScaledMean, PeersOf
  <1>4. Grouped'
    <2>1. /\ \A row : NRead(row)' = NRead(row)
          /\ \A row, n : StepOf(row, n)' = StepOf(row, n)
      BY <1>1 DEF NRead, RecsAt, StepOf, Key
    <2> QED BY <1>1, <2>1 DEF AdvantageInv, Grouped
  <1>5. Added'
    <2>1. \A s : StepCredit(s)' = StepCredit(s)
      BY <1>1 DEF StepCredit, Members
    <2>2. \A row, k : StepAdvantage(row, k)' = StepAdvantage(row, k)
      BY <1>1, <2>1 DEF StepAdvantage
    <2> QED BY <1>1, <2>2 DEF AdvantageInv, Added
  <1> QED BY <1>2, <1>3, <1>4, <1>5 DEF AdvantageInv

THEOREM AlwaysAdvantage == Spec => []AdvantageInv
  <1>1. AdvantageInv /\ [Next]_grpoVars => AdvantageInv'
    <2> SUFFICES ASSUME AdvantageInv, [Next]_grpoVars PROVE AdvantageInv'
      OBVIOUS
    <2>1. ScanInv'
      BY ScanStep DEF AdvantageInv
    <2> QED BY <2>1, PostprocessKeeps, BalanceKeeps, OutcomeKeeps, ReadRecordKeeps, RowEndsKeeps,
               AddStepsKeeps, AdvantageStutters DEF Next
  <1> QED BY <1>1, AdvantageInit, PTL DEF Spec

-------------------------------------------------------------------------------
(* The advantage, once the rows are back in the order of the prompts *)

LEMMA FiniteRows == IsFiniteSet(Rows) /\ IsFiniteSet(Tokens)
  BY GrpoAssumptions, FS_Interval DEF Rows, Tokens

LEMMA Placed ==
  ASSUME AdvantageInv
  PROVE  /\ \A p \in Rows : PlaceAfter(p) \in Rows /\ order[PlaceAfter(p)] = p
         /\ \A row \in Rows : order[row] \in Rows /\ PlaceAfter(order[row]) = row
  <1>1. order \in [Rows -> Rows] /\ \A i, j \in Rows : order[i] = order[j] => i = j
    BY DEF AdvantageInv, RowsMoved, Bijections
  <1>2. order \in Injection(Rows, Rows)
    BY <1>1 DEF Injection, IsInjective
  <1>3. order \in Surjection(Rows, Rows)
    BY <1>2, FiniteRows, FS_Injection
  <1>4. \A p \in Rows : \E row \in Rows : order[row] = p
    BY <1>3 DEF Surjection
  <1>5. \A p \in Rows : PlaceAfter(p) \in Rows /\ order[PlaceAfter(p)] = p
    BY <1>4 DEF PlaceAfter
  <1> QED BY <1>1, <1>5

LEMMA AtPlace ==
  ASSUME AdvantageInv, NEW p \in Rows, NEW r, r = PlaceAfter(p)
  PROVE  /\ r \in Rows /\ order[r] = p /\ index[r] = Uid(p) /\ row_of[r] = Trajectory(p)
         /\ RecsAt(r) = Trajectory(p).recs /\ Trajectory(p) \in Trajectories
  BY Placed DEF AdvantageInv, RowsMoved, RecsAt

LEMMA TotalIsScore ==
  ASSUME AdvantageInv, stage # "rollout", NEW row \in Rows
  PROVE  TotalReward(row) = row_of[row].score /\ row_of[row].score \in Int
  <1>1. PICK t \in Trajectories : row_of[row] = t
    BY DEF AdvantageInv, ScanInv, BatchType
  <1>2. t.score \in Int /\ ScoreColumn(t) \in Tokens
    BY GrpoAssumptions DEF ScoreColumn, Tokens
  <1>3. token_rewards[row] = ScoreRow(t)
    BY <1>1 DEF AdvantageInv, Scored
  <1>4. /\ DOMAIN ScoreRow(t) = Tokens /\ ScoreRow(t)[ScoreColumn(t)] = t.score
        /\ \A k \in Tokens \ {ScoreColumn(t)} : ScoreRow(t)[k] = 0
    BY <1>2 DEF ScoreRow
  <1>5. SumFunctionOnSet(ScoreRow(t), Tokens) = t.score
    BY <1>2, <1>4, FiniteRows, SumOfOne
  <1> QED BY <1>1, <1>2, <1>3, <1>4, <1>5 DEF TotalReward, SumFunction

Scores(p) == [q \in Siblings(p) |-> Trajectory(q).score]
Totals(group) == [row \in group |-> TotalReward(row)]

\* The rows of a uid are the trajectories of a prompt.
LEMMA PeersAre ==
  ASSUME AdvantageInv, stage # "rollout", NEW p \in Rows, NEW r, r = PlaceAfter(p)
  PROVE  /\ IsFiniteSet(Siblings(p)) /\ Cardinality(Siblings(p)) = Cardinality(PeersOf(r))
         /\ SumFunction(Totals(PeersOf(r))) = SumFunction(Scores(p))
         /\ SumFunction(Scores(p)) \in Int
  <1> DEFINE peers == PeersOf(r)
             h == [row \in peers |-> order[row]]
  <1>1. r \in Rows /\ index[r] = Uid(p)
    BY AtPlace
  <1>2. peers \subseteq Rows /\ IsFiniteSet(peers)
    BY FiniteRows, FS_Subset DEF PeersOf
  <1>3. \A row \in Rows : /\ order[row] \in Rows /\ index[row] = Uid(order[row])
                          /\ row_of[row] = Trajectory(order[row])
    BY Placed DEF AdvantageInv, RowsMoved
  <1>4. h \in [peers -> Siblings(p)]
    BY <1>1, <1>2, <1>3 DEF PeersOf, Siblings
  <1>5. \A x, y \in peers : h[x] = h[y] => x = y
    BY <1>2 DEF AdvantageInv, RowsMoved, Bijections
  <1>6. ASSUME NEW q \in Siblings(p) PROVE \E x \in peers : h[x] = q
    <2>1. q \in Rows /\ Uid(q) = Uid(p)
      BY DEF Siblings
    <2>2. /\ PlaceAfter(q) \in Rows /\ order[PlaceAfter(q)] = q /\ index[PlaceAfter(q)] = Uid(q)
      BY <2>1, AtPlace
    <2>3. PlaceAfter(q) \in peers
      BY <1>1, <2>1, <2>2 DEF PeersOf
    <2> QED BY <2>2, <2>3
  <1>7. \A x \in peers : /\ Totals(peers)[x] \in Int /\ Totals(peers)[x] = Scores(p)[h[x]]
    <2> SUFFICES ASSUME NEW x \in peers
                 PROVE  Totals(peers)[x] \in Int /\ Totals(peers)[x] = Scores(p)[h[x]]
      OBVIOUS
    <2>1. x \in Rows /\ h[x] = order[x] /\ h[x] \in Siblings(p)
      BY <1>2, <1>4
    <2>2. TotalReward(x) = row_of[x].score /\ row_of[x].score \in Int
      BY <2>1, TotalIsScore
    <2>3. Scores(p)[h[x]] = Trajectory(order[x]).score
      BY <2>1 DEF Scores
    <2>4. Totals(peers)[x] = TotalReward(x)
      BY DEF Totals
    <2> QED BY <1>3, <2>1, <2>2, <2>3, <2>4
  <1>8. DOMAIN Totals(peers) = peers /\ DOMAIN Scores(p) = Siblings(p)
    BY DEF Totals, Scores
  <1> HIDE DEF peers, h
  <1>9. IsFiniteSet(Siblings(p)) /\ Cardinality(Siblings(p)) = Cardinality(peers)
    BY <1>2, <1>4, <1>5, <1>6, SizeRenamed
  <1>10. SumFunctionOnSet(Totals(peers), peers) = SumFunctionOnSet(Scores(p), Siblings(p))
    BY <1>2, <1>4, <1>5, <1>6, <1>7, SumRenamed
  <1>11. SumFunction(Totals(peers)) = SumFunction(Scores(p))
    BY <1>8, <1>10 DEF SumFunction
  <1>12. SumFunction(Totals(peers)) \in Int
    BY <1>2, <1>7, <1>8, SumType DEF SumFunction
  <1> QED BY <1>9, <1>11, <1>12 DEF peers

LEMMA OneOnly ==
  ASSUME NEW S, IsFiniteSet(S), NEW p \in S
  PROVE  Cardinality(S) \in Nat /\ Cardinality(S) > 0 /\ (Cardinality(S) = 1 <=> S = {p})
  <1>1. Cardinality(S) \in Nat /\ Cardinality(S) # 0
    BY FS_CardinalityType, FS_EmptySet
  <1>2. Cardinality(S) = 1 <=> \E x : S = {x}
    BY FS_Singleton
  <1> QED BY <1>1, <1>2

LEMMA OutcomeIs ==
  ASSUME AdvantageInv, stage = "done", NEW p \in Rows, NEW r, r = PlaceAfter(p)
  PROVE  outcome[r] = ExpectedOutcome(p) /\ ExpectedOutcome(p) \in Int
  <1>1. r \in Rows /\ row_of[r] = Trajectory(p)
    BY AtPlace
  <1>2. outcome[r] = Scale * TotalReward(r) - ScaledMean(PeersOf(r))
    BY <1>1 DEF AdvantageInv, Centred, NoStepYet
  <1>3. TotalReward(r) = Trajectory(p).score /\ Trajectory(p).score \in Int
    BY <1>1, TotalIsScore
  <1>4. /\ IsFiniteSet(Siblings(p)) /\ Cardinality(Siblings(p)) = Cardinality(PeersOf(r))
        /\ SumFunction(Totals(PeersOf(r))) = SumFunction(Scores(p)) /\ SumFunction(Scores(p)) \in Int
    BY PeersAre
  <1>5. p \in Siblings(p)
    BY DEF Siblings
  <1>6. /\ Cardinality(Siblings(p)) \in Nat /\ Cardinality(Siblings(p)) > 0
        /\ Cardinality(Siblings(p)) = 1 <=> Siblings(p) = {p}
    BY <1>4, <1>5, OneOnly
  <1>7. CASE Siblings(p) = {p}
    <2>1. ScaledMean(PeersOf(r)) = 0
      BY <1>4, <1>6, <1>7 DEF ScaledMean
    <2>2. Scale * Trajectory(p).score \in Int
      BY <1>3, GrpoAssumptions
    <2> QED BY <1>2, <1>3, <1>7, <2>1, <2>2 DEF ExpectedOutcome
  <1>8. CASE Siblings(p) # {p}
    <2>1. ScaledMean(PeersOf(r)) = (Scale * SumFunction(Scores(p))) \div Cardinality(Siblings(p))
      BY <1>4, <1>6, <1>8 DEF ScaledMean, Totals
    <2>2. ExpectedOutcome(p) = RelativeTo(Scores(p), p)
      BY <1>8 DEF ExpectedOutcome, Scores
    <2>3. DOMAIN Scores(p) = Siblings(p) /\ Scores(p)[p] = Trajectory(p).score
      BY <1>5 DEF Scores
    <2>4. ExpectedOutcome(p) = Scale * Trajectory(p).score - ScaledMean(PeersOf(r))
      BY <2>1, <2>2, <2>3 DEF RelativeTo
    <2>5. ScaledMean(PeersOf(r)) \in Int /\ Scale * Trajectory(p).score \in Int
      <3>1. Scale * SumFunction(Scores(p)) \in Int /\ Scale * Trajectory(p).score \in Int
        BY <1>3, <1>4, GrpoAssumptions
      <3>2. \A x \in Int, c \in Nat : c > 0 => x \div c \in Int
        OBVIOUS
      <3> QED BY <1>6, <2>1, <3>1, <3>2, Zenon
    <2>6. \A x, y \in Int : x - y \in Int
      OBVIOUS
    <2> QED BY <1>2, <1>3, <2>4, <2>5, <2>6, Zenon
  <1> QED BY <1>7, <1>8

\* At the end all records have been read.
LEMMA AllRead ==
  ASSUME AdvantageInv, stage = "done", NEW row \in Rows
  PROVE  NRead(row) = Len(RecsAt(row))
  BY RowsAreIntegers DEF AdvantageInv, Added, NRead, ScanInv, BatchType, Rows

LEMMA StepFields ==
  ASSUME NEW row, NEW n
  PROVE  /\ StepOf(row, n).key = <<index[row], n>> /\ StepOf(row, n).row = row
         /\ StepOf(row, n).reward = RecsAt(row)[n].reward
         /\ Span(StepOf(row, n)) = Span(RecsAt(row)[n])
  BY DEF StepOf, Key, Span

LEMMA RewardTypes ==
  ASSUME AdvantageInv, NEW p \in Rows, NEW n \in 1..Len(Trajectory(p).recs)
  PROVE  Trajectory(p).recs[n].reward \in Int
  <1>1. Trajectory(p).recs \in Seq(Records)
    BY GrpoAssumptions DEF AdvantageInv, RowsMoved
  <1>2. Trajectory(p).recs[n] \in Records
    BY <1>1
  <1> QED BY <1>2 DEF Records

StepRewards(p, n) == [q \in Reached(p, n) |-> Trajectory(q).recs[n].reward]
RewardsIn(group) == [m \in group |-> m.reward]

\* The steps compared with a step are the steps of the same ordinal of the
\* trajectories of its prompt.
LEMMA MembersAre ==
  ASSUME AdvantageInv, stage = "done", NEW p \in Rows, NEW n \in 1..Len(Trajectory(p).recs)
  PROVE  /\ IsFiniteSet(Reached(p, n))
         /\ Cardinality(Members(<<Uid(p), n>>)) = Cardinality(Reached(p, n))
         /\ SumFunction(RewardsIn(Members(<<Uid(p), n>>))) = SumFunction(StepRewards(p, n))
  <1> DEFINE reached == Reached(p, n)
             group == Members(<<Uid(p), n>>)
             h == [q \in reached |-> StepOf(PlaceAfter(q), n)]
  <1>0. Trajectory(p).recs \in Seq(Records) /\ n \in Nat /\ n > 0
    <2>1. Trajectory(p).recs \in Seq(Records)
      BY GrpoAssumptions DEF AdvantageInv, RowsMoved
    <2> QED BY <2>1
  <1>1. reached \subseteq Rows /\ IsFiniteSet(reached)
    BY FiniteRows, FS_Subset DEF Reached, Siblings
  <1>2. ASSUME NEW q \in reached
        PROVE  /\ h[q] = StepOf(PlaceAfter(q), n) /\ h[q] \in group
               /\ h[q].row = PlaceAfter(q) /\ h[q].reward = Trajectory(q).recs[n].reward
               /\ n \in 1..Len(Trajectory(q).recs)
    <2>1. q \in Rows /\ Uid(q) = Uid(p) /\ Len(Trajectory(q).recs) >= n
      BY DEF Reached, Siblings
    <2>2. /\ PlaceAfter(q) \in Rows /\ index[PlaceAfter(q)] = Uid(q)
          /\ RecsAt(PlaceAfter(q)) = Trajectory(q).recs /\ Trajectory(q) \in Trajectories
      BY <2>1, AtPlace
    <2>3. Len(Trajectory(q).recs) \in Nat
      <3>1. Trajectory(q).recs \in Seq(Records)
        BY <2>2, GrpoAssumptions
      <3> QED BY <3>1
    <2>4. n \in 1..Len(Trajectory(q).recs)
      BY <1>0, <2>1, <2>3
    <2>5. n \in 1..NRead(PlaceAfter(q))
      BY <2>2, <2>4, AllRead
    <2>6. StepOf(PlaceAfter(q), n) \in grouped
      BY <2>2, <2>5 DEF AdvantageInv, Grouped
    <2>7. StepOf(PlaceAfter(q), n).key = <<Uid(p), n>>
      BY <2>1, <2>2, StepFields
    <2>8. h[q] = StepOf(PlaceAfter(q), n)
      OBVIOUS
    <2> HIDE DEF h
    <2>9. h[q] \in group
      BY <2>6, <2>7, <2>8 DEF Members
    <2>10. h[q].row = PlaceAfter(q) /\ h[q].reward = Trajectory(q).recs[n].reward
      BY <2>2, <2>8, StepFields
    <2> QED BY <2>4, <2>8, <2>9, <2>10
  <1>3. h \in [reached -> group]
    BY <1>2
  <1>4. ASSUME NEW x \in reached, NEW y \in reached, h[x] = h[y] PROVE x = y
    <2>1. PlaceAfter(x) = PlaceAfter(y)
      <3>1. h[x].row = PlaceAfter(x) /\ h[y].row = PlaceAfter(y)
        BY <1>2
      <3> HIDE DEF h
      <3> QED BY <1>4, <3>1
    <2> QED BY <1>1, <2>1, Placed
  <1>5. ASSUME NEW s \in group PROVE \E q \in reached : h[q] = s
    <2>1. s \in grouped /\ s.key = <<Uid(p), n>>
      BY DEF Members
    <2>2. PICK row \in Rows : \E m \in 1..NRead(row) : s = StepOf(row, m)
      BY <2>1 DEF AdvantageInv, Grouped
    <2>3. PICK m \in 1..NRead(row) : s = StepOf(row, m)
      BY <2>2
    <2>4. index[row] = Uid(p) /\ m = n
      BY <2>1, <2>3, StepFields
    <2>5. order[row] \in Rows /\ PlaceAfter(order[row]) = row
      BY Placed
    <2>6. Uid(order[row]) = Uid(p) /\ RecsAt(row) = Trajectory(order[row]).recs
      BY <2>4 DEF AdvantageInv, RowsMoved, RecsAt
    <2>7. m \in 1..Len(RecsAt(row)) /\ Len(RecsAt(row)) \in Nat
      BY AllRead, RecsOfRow DEF AdvantageInv, ScanInv
    <2>8. order[row] \in reached
      BY <2>4, <2>5, <2>6, <2>7 DEF Reached, Siblings
    <2>9. h[order[row]] = s
      BY <2>3, <2>4, <2>5, <2>8, <1>2
    <2> QED BY <2>8, <2>9
  <1>6. ASSUME NEW q \in reached
        PROVE  StepRewards(p, n)[q] \in Int /\ StepRewards(p, n)[q] = RewardsIn(group)[h[q]]
    <2>1. q \in Rows /\ n \in 1..Len(Trajectory(q).recs) /\ h[q] \in group
          /\ h[q].reward = Trajectory(q).recs[n].reward
      BY <1>1, <1>2
    <2>2. Trajectory(q).recs[n].reward \in Int
      BY <2>1, RewardTypes
    <2>3. StepRewards(p, n)[q] = Trajectory(q).recs[n].reward
      BY DEF StepRewards
    <2> HIDE DEF h, group
    <2>4. RewardsIn(group)[h[q]] = h[q].reward
      BY <2>1 DEF RewardsIn
    <2> QED BY <2>1, <2>2, <2>3, <2>4
  <1>7. DOMAIN StepRewards(p, n) = reached /\ DOMAIN RewardsIn(group) = group
    BY DEF StepRewards, RewardsIn
  <1> HIDE DEF reached, group, h
  <1>8. Cardinality(group) = Cardinality(reached)
    BY <1>1, <1>3, <1>4, <1>5, SizeRenamed
  <1>9. SumFunctionOnSet(StepRewards(p, n), reached) = SumFunctionOnSet(RewardsIn(group), group)
    BY <1>1, <1>3, <1>4, <1>5, <1>6, SumRenamed
  <1>10. SumFunction(RewardsIn(group)) = SumFunction(StepRewards(p, n))
    BY <1>7, <1>9 DEF SumFunction
  <1> QED BY <1>1, <1>8, <1>10 DEF reached, group

LEMMA CreditIs ==
  ASSUME AdvantageInv, stage = "done", NEW p \in Rows, NEW n \in 1..Len(Trajectory(p).recs)
  PROVE  /\ StepCredit(StepOf(PlaceAfter(p), n)) = ExpectedStep(p, n)
         /\ ExpectedStep(p, n) \in Int
  <1> DEFINE step == StepOf(PlaceAfter(p), n)
             group == Members(<<Uid(p), n>>)
  <1>1. /\ index[PlaceAfter(p)] = Uid(p) /\ RecsAt(PlaceAfter(p)) = Trajectory(p).recs
        /\ Trajectory(p).recs \in Seq(Records)
    BY AtPlace, GrpoAssumptions
  <1>2. step.key = <<Uid(p), n>> /\ step.reward = Trajectory(p).recs[n].reward
    BY <1>1, StepFields
  <1>3. Trajectory(p).recs[n].reward \in Int
    BY RewardTypes
  <1>4. p \in Reached(p, n)
    <2>1. Len(Trajectory(p).recs) >= n
      BY <1>1
    <2> QED BY <2>1 DEF Reached, Siblings
  <1>5. /\ IsFiniteSet(Reached(p, n)) /\ Cardinality(group) = Cardinality(Reached(p, n))
        /\ SumFunction(RewardsIn(group)) = SumFunction(StepRewards(p, n))
    BY MembersAre
  <1>6. /\ Cardinality(Reached(p, n)) \in Nat /\ Cardinality(Reached(p, n)) > 0
        /\ Cardinality(Reached(p, n)) = 1 <=> Reached(p, n) = {p}
    BY <1>4, <1>5, OneOnly
  <1>7. Scale * Trajectory(p).recs[n].reward \in Int /\ Scale \in Int
    BY <1>3, GrpoAssumptions
  <1>8. StepCredit(step) =
          IF Cardinality(group) < 2 THEN 0
          ELSE Scale * step.reward - (Scale * SumFunction(RewardsIn(group))) \div Cardinality(group)
    <2> HIDE DEF step
    <2> QED BY <1>2 DEF StepCredit, RewardsIn
  <1> HIDE DEF step, group
  <1>9. CASE Reached(p, n) = {p}
    <2>1. ExpectedStep(p, n) = 0
      BY <1>9 DEF ExpectedStep
    <2>2. Cardinality(group) < 2
      BY <1>5, <1>6, <1>9
    <2> QED BY <1>8, <2>1, <2>2 DEF step
  <1>10. CASE Reached(p, n) # {p}
    <2>1. ~(Cardinality(group) < 2)
      BY <1>5, <1>6, <1>10
    <2>2. ExpectedStep(p, n) = RelativeTo(StepRewards(p, n), p)
      BY <1>10 DEF ExpectedStep, StepRewards
    <2>3. /\ DOMAIN StepRewards(p, n) = Reached(p, n)
          /\ StepRewards(p, n)[p] = Trajectory(p).recs[n].reward
      BY <1>4 DEF StepRewards
    <2>4. SumFunction(StepRewards(p, n)) \in Int
      <3>1. \A q \in Reached(p, n) : StepRewards(p, n)[q] \in Int
        <4> SUFFICES ASSUME NEW q \in Reached(p, n) PROVE StepRewards(p, n)[q] \in Int
          OBVIOUS
        <4>1. q \in Rows /\ Len(Trajectory(q).recs) >= n
          BY DEF Reached, Siblings
        <4>2. Trajectory(q).recs \in Seq(Records)
          BY <4>1, GrpoAssumptions DEF AdvantageInv, RowsMoved
        <4>3. n \in 1..Len(Trajectory(q).recs)
          BY <1>1, <4>1, <4>2
        <4> QED BY <4>1, <4>3, RewardTypes DEF StepRewards
      <3> QED BY <1>5, <2>3, <3>1, SumType DEF SumFunction
    <2>5. (Scale * SumFunction(StepRewards(p, n))) \div Cardinality(Reached(p, n)) \in Int
      <3>1. Scale * SumFunction(StepRewards(p, n)) \in Int
        BY <1>7, <2>4
      <3>2. \A x \in Int, c \in Nat : c > 0 => x \div c \in Int
        OBVIOUS
      <3> QED BY <1>6, <3>1, <3>2, Zenon
    <2>6. ExpectedStep(p, n) = Scale * Trajectory(p).recs[n].reward
                                 - (Scale * SumFunction(StepRewards(p, n))) \div Cardinality(Reached(p, n))
      BY <2>2, <2>3 DEF RelativeTo
    <2>7. ExpectedStep(p, n) \in Int
      <3>1. \A x, y \in Int : x - y \in Int
        OBVIOUS
      <3> QED BY <1>7, <2>5, <2>6, <3>1, Zenon
    <2>8. StepCredit(step) = ExpectedStep(p, n)
      BY <1>2, <1>5, <1>8, <2>1, <2>6
    <2> QED BY <2>7, <2>8 DEF step
  <1> QED BY <1>9, <1>10

Credits(p, k) == [n \in StepsAt(p, k) |-> ExpectedStep(p, n)]

LEMMA StepAdvantageIs ==
  ASSUME AdvantageInv, stage = "done", NEW p \in Rows, NEW k \in Tokens
  PROVE  /\ StepAdvantage(PlaceAfter(p), k) = SumFunction(Credits(p, k))
         /\ SumFunction(Credits(p, k)) \in Int
  <1> DEFINE r == PlaceAfter(p)
             steps == StepsAt(p, k)
             covering == {s \in grouped : s.row = r /\ k \in Span(s)}
             given == [s \in covering |-> StepCredit(s)]
             h == [n \in steps |-> StepOf(r, n)]
  <1>1. /\ r \in Rows /\ RecsAt(r) = Trajectory(p).recs /\ Trajectory(p).recs \in Seq(Records)
        /\ NRead(r) = Len(Trajectory(p).recs)
    BY AtPlace, GrpoAssumptions, AllRead
  <1>2. Len(Trajectory(p).recs) \in Nat /\ DOMAIN Trajectory(p).recs = 1..Len(Trajectory(p).recs)
    BY <1>1
  <1> HIDE DEF r
  <1>3. steps \subseteq 1..Len(Trajectory(p).recs)
    BY <1>2 DEF StepsAt
  <1>4. IsFiniteSet(steps)
    <2>1. IsFiniteSet(1..Len(Trajectory(p).recs))
      BY <1>2, FS_Interval
    <2> HIDE DEF steps
    <2> QED BY <1>3, <2>1, FS_Subset
  <1>5. ASSUME NEW n \in steps
        PROVE  h[n] = StepOf(r, n) /\ h[n] \in covering /\ h[n].key = <<index[r], n>>
    <2>1. n \in 1..NRead(r) /\ k \in Span(RecsAt(r)[n])
      BY <1>1, <1>3 DEF StepsAt
    <2>2. StepOf(r, n) \in grouped
      BY <1>1, <2>1 DEF AdvantageInv, Grouped
    <2>3. StepOf(r, n) \in covering
      BY <2>1, <2>2, StepFields
    <2>4. StepOf(r, n).key = <<index[r], n>>
      BY StepFields
    <2> QED BY <2>3, <2>4
  <1>6. h \in [steps -> covering]
    BY <1>5
  <1>7. ASSUME NEW x \in steps, NEW y \in steps, h[x] = h[y] PROVE x = y
    <2>1. h[x].key = <<index[r], x>> /\ h[y].key = <<index[r], y>>
      BY <1>5
    <2> HIDE DEF h
    <2> QED BY <1>7, <2>1
  <1>8. ASSUME NEW s \in covering PROVE \E n \in steps : h[n] = s
    <2>1. s \in grouped /\ s.row = r /\ k \in Span(s)
      OBVIOUS
    <2>2. PICK row \in Rows : \E n \in 1..NRead(row) : s = StepOf(row, n)
      BY <2>1 DEF AdvantageInv, Grouped
    <2>3. PICK n \in 1..NRead(row) : s = StepOf(row, n)
      BY <2>2
    <2>4. row = r /\ k \in Span(RecsAt(r)[n])
      BY <2>1, <2>3, StepFields
    <2>5. n \in steps
      BY <1>1, <1>2, <2>4 DEF StepsAt
    <2> QED BY <2>3, <2>4, <2>5
  <1>9. ASSUME NEW n \in steps
        PROVE  Credits(p, k)[n] \in Int /\ Credits(p, k)[n] = given[h[n]]
    <2>1. Credits(p, k)[n] = ExpectedStep(p, n)
      BY DEF Credits
    <2>2. StepCredit(StepOf(r, n)) = ExpectedStep(p, n) /\ ExpectedStep(p, n) \in Int
      BY <1>3, CreditIs DEF r
    <2>3. h[n] = StepOf(r, n) /\ h[n] \in covering
      BY <1>5
    <2> HIDE DEF h, covering
    <2>4. given[h[n]] = StepCredit(h[n])
      BY <2>3
    <2> QED BY <2>1, <2>2, <2>3, <2>4
  <1>10. DOMAIN Credits(p, k) = steps /\ DOMAIN given = covering
    BY DEF Credits
  <1>11. StepAdvantage(r, k) = SumFunction(given)
    BY DEF StepAdvantage
  <1> HIDE DEF steps, covering, given, h
  <1>12. SumFunctionOnSet(Credits(p, k), steps) = SumFunctionOnSet(given, covering)
    BY <1>4, <1>6, <1>7, <1>8, <1>9, SumRenamed
  <1>13. SumFunction(given) = SumFunction(Credits(p, k))
    BY <1>10, <1>12 DEF SumFunction
  <1>14. SumFunction(Credits(p, k)) \in Int
    BY <1>4, <1>9, <1>10, SumType DEF SumFunction
  <1> QED BY <1>11, <1>13, <1>14 DEF r

\* For any batch, any number of records and any order of the rows: what the
\* estimator gives a token is what its trajectory, the other trajectories of the
\* prompt and their steps of the same ordinal define.
THEOREM AdvantagesFollow == Spec => []AdvantageOfTrajectory
  <1>1. AdvantageInv => AdvantageOfTrajectory
    <2> SUFFICES ASSUME AdvantageInv, stage = "done", NEW p \in Rows, NEW k \in Tokens
                 PROVE  advantages[PlaceAfter(p)][k] = Expected(p, k)
      BY DEF AdvantageOfTrajectory
    <2> DEFINE r == PlaceAfter(p)
    <2>1. r \in Rows /\ row_of[r] = Trajectory(p) /\ Trajectory(p) \in Trajectories
      BY AtPlace
    <2>2. advantages[r][k] = (outcome[r] + StepAdvantage(r, k)) * Trajectory(p).mask[k]
      BY <2>1 DEF AdvantageInv, Added
    <2>3. outcome[r] = ExpectedOutcome(p) /\ ExpectedOutcome(p) \in Int
      BY OutcomeIs
    <2>4. /\ StepAdvantage(r, k) = SumFunction(Credits(p, k))
          /\ SumFunction(Credits(p, k)) \in Int
      BY StepAdvantageIs
    <2>5. Trajectory(p).mask[k] = 0 \/ Trajectory(p).mask[k] = 1
      <3>1. Trajectory(p).mask \in [Tokens -> {0, 1}]
        BY <2>1, GrpoAssumptions
      <3> QED BY <3>1
    <2>6. Expected(p, k) = IF Trajectory(p).mask[k] = 0 THEN 0
                           ELSE ExpectedOutcome(p) + SumFunction(Credits(p, k))
      BY DEF Expected, Credits
    <2> HIDE DEF r
    <2>7. ExpectedOutcome(p) + SumFunction(Credits(p, k)) \in Int
      BY <2>3, <2>4
    <2>8. \A x \in Int : x * 0 = 0 /\ x * 1 = x
      OBVIOUS
    <2> QED BY <2>2, <2>3, <2>4, <2>5, <2>6, <2>7, <2>8 DEF r
  <1> QED BY <1>1, AlwaysAdvantage, PTL

===============================================================================
