---------------------------- MODULE RolloutProofs -----------------------------
(***************************************************************************)
(* Proofs about ToolAgentLoop, for every length of generations, answers    *)
(* and responses and every limit on turns; and about Rollout: a training   *)
(* trajectory without a transfer to a human agent is scored on the agent's *)
(* own work, for every task.                                               *)
(***************************************************************************)
EXTENDS Rollout, SequenceTheorems, FoldLemmas

-------------------------------------------------------------------------------
(* Growing a sequence of tokens.                                           *)

\* Appending n copies of a mark keeps what is there ...
LEMMA Extension ==
    ASSUME NEW S, NEW s \in Seq(S), NEW n \in Nat, NEW mark \in S
    PROVE  /\ s \o Copies(n, mark) \in Seq(S)
           /\ Len(s \o Copies(n, mark)) = Len(s) + n
           /\ \A k \in 1..Len(s) : (s \o Copies(n, mark))[k] = s[k]
<1> DEFINE c == Copies(n, mark)
<1>1. c \in [1..n -> S]
  BY DEF Copies
<1>2. c \in Seq(S) /\ Len(c) = n
  BY <1>1, SeqDef
<1>3. QED
  BY <1>2, ConcatProperties, LenProperties

\* ... and adds only the mark.
LEMMA ExtensionMark ==
    ASSUME NEW S, NEW s \in Seq(S), NEW n \in Nat, NEW mark \in S,
           NEW k \in Nat, Len(s) < k, k <= Len(s) + n
    PROVE  (s \o Copies(n, mark))[k] = mark
<1> DEFINE c == Copies(n, mark)
<1>1. c \in [1..n -> S] /\ \A i \in 1..n : c[i] = mark
  BY DEF Copies
<1>2. c \in Seq(S) /\ Len(c) = n
  BY <1>1, SeqDef
<1>3. QED
  BY <1>1, <1>2, ConcatProperties, LenProperties

\* What appending n tokens of the policy does to the ids and to the mask.
LEMMA PolicyAppended ==
    ASSUME TypeOK, NEW n \in Nat, AppendPolicy(n)
    PROVE  /\ promptIds' \in Seq(Origins)
           /\ Len(promptIds') = Len(promptIds) + n
           /\ \A k \in 1..Len(promptIds) : promptIds'[k] = promptIds[k]
           /\ \A k \in Nat : Len(promptIds) < k /\ k <= Len(promptIds) + n
                            => promptIds'[k] = "policy"
           /\ responseMask' \in Seq(Marks)
           /\ Len(responseMask') = Len(responseMask) + n
           /\ \A k \in 1..Len(responseMask) : responseMask'[k] = responseMask[k]
           /\ \A k \in Nat : Len(responseMask) < k /\ k <= Len(responseMask) + n
                            => responseMask'[k] = 1
           /\ logProbs' \in Nat
<1>1. /\ promptIds \in Seq(Origins) /\ responseMask \in Seq(Marks) /\ logProbs \in Nat
      /\ "policy" \in Origins /\ 1 \in Marks
  BY DEF TypeOK, Origins, Marks
<1>2. /\ promptIds' = promptIds \o Copies(n, "policy")
      /\ responseMask' = responseMask \o Copies(n, 1)
      /\ logProbs' \in Nat
  BY <1>1 DEF AppendPolicy
<1>3. /\ promptIds' \in Seq(Origins)
      /\ Len(promptIds') = Len(promptIds) + n
      /\ \A k \in 1..Len(promptIds) : promptIds'[k] = promptIds[k]
  BY <1>1, <1>2, Extension
<1>4. ASSUME NEW k \in Nat, Len(promptIds) < k, k <= Len(promptIds) + n
      PROVE  promptIds'[k] = "policy"
  BY <1>1, <1>2, <1>4, ExtensionMark
<1>5. /\ responseMask' \in Seq(Marks)
      /\ Len(responseMask') = Len(responseMask) + n
      /\ \A k \in 1..Len(responseMask) : responseMask'[k] = responseMask[k]
  BY <1>1, <1>2, Extension
<1>6. ASSUME NEW k \in Nat, Len(responseMask) < k, k <= Len(responseMask) + n
      PROVE  responseMask'[k] = 1
  BY <1>1, <1>2, <1>6, ExtensionMark
<1>7. QED
  BY <1>2, <1>3, <1>4, <1>5, <1>6

\* The same of n tokens of an observation.
LEMMA ObservationAppended ==
    ASSUME TypeOK, NEW n \in Nat, AppendObservation(n)
    PROVE  /\ promptIds' \in Seq(Origins)
           /\ Len(promptIds') = Len(promptIds) + n
           /\ \A k \in 1..Len(promptIds) : promptIds'[k] = promptIds[k]
           /\ \A k \in Nat : Len(promptIds) < k /\ k <= Len(promptIds) + n
                            => promptIds'[k] = "observation"
           /\ responseMask' \in Seq(Marks)
           /\ Len(responseMask') = Len(responseMask) + n
           /\ \A k \in 1..Len(responseMask) : responseMask'[k] = responseMask[k]
           /\ \A k \in Nat : Len(responseMask) < k /\ k <= Len(responseMask) + n
                            => responseMask'[k] = 0
           /\ logProbs' \in Nat
<1>1. /\ promptIds \in Seq(Origins) /\ responseMask \in Seq(Marks) /\ logProbs \in Nat
      /\ "observation" \in Origins /\ 0 \in Marks
  BY DEF TypeOK, Origins, Marks
<1>2. /\ promptIds' = promptIds \o Copies(n, "observation")
      /\ responseMask' = responseMask \o Copies(n, 0)
      /\ logProbs' \in Nat
  BY <1>1 DEF AppendObservation
<1>3. /\ promptIds' \in Seq(Origins)
      /\ Len(promptIds') = Len(promptIds) + n
      /\ \A k \in 1..Len(promptIds) : promptIds'[k] = promptIds[k]
  BY <1>1, <1>2, Extension
<1>4. ASSUME NEW k \in Nat, Len(promptIds) < k, k <= Len(promptIds) + n
      PROVE  promptIds'[k] = "observation"
  BY <1>1, <1>2, <1>4, ExtensionMark
<1>5. /\ responseMask' \in Seq(Marks)
      /\ Len(responseMask') = Len(responseMask) + n
      /\ \A k \in 1..Len(responseMask) : responseMask'[k] = responseMask[k]
  BY <1>1, <1>2, Extension
<1>6. ASSUME NEW k \in Nat, Len(responseMask) < k, k <= Len(responseMask) + n
      PROVE  responseMask'[k] = 0
  BY <1>1, <1>2, <1>6, ExtensionMark
<1>7. QED
  BY <1>2, <1>3, <1>4, <1>5, <1>6

\* Lengths and counts are natural numbers.
LEMMA Lengths ==
    ASSUME TypeOK
    PROVE  /\ Len(promptIds) \in Nat /\ Len(responseMask) \in Nat
           /\ Len(toolCalls) \in Nat /\ Len(records) \in Nat
           /\ Running \in Nat
           /\ toolCalls # <<>> => Running > 0
<1>1. /\ Len(promptIds) \in Nat /\ Len(responseMask) \in Nat
      /\ Len(toolCalls) \in Nat /\ Len(records) \in Nat
  BY LenProperties DEF TypeOK
<1>2. toolCalls # <<>> => Len(toolCalls) > 0
  BY <1>1, EmptySeq DEF TypeOK
<1>3. QED
  BY <1>1, <1>2, LoopAssumptions DEF LoopAssumptions, Running, MinOf

\* The calls parsed from a generation are a sequence of calls.
LEMMA BatchType == ASSUME NEW found \in Batches PROVE found \in Seq(Calls)
<1>1. PICK n \in 0..MaxCalls : found \in [1..n -> Calls]
  BY DEF Batches
<1>2. n \in Nat
  BY LoopAssumptions DEF LoopAssumptions
<1>3. QED
  BY <1>1, <1>2, SeqDef

\* The record of a batch and the sequence it is appended to.
LEMMA RecordAppended ==
    ASSUME TypeOK, NEW earned \in Int, records' = Append(records, StepRecord(earned))
    PROVE  /\ StepRecord(earned) \in Record
           /\ StepRecord(earned).start = pendingSpan.start
           /\ StepRecord(earned).end = pendingSpan.end
           /\ records' \in Seq(Record)
           /\ Len(records') = Len(records) + 1
           /\ \A i \in 1..Len(records) : records'[i] = records[i]
           /\ records'[Len(records) + 1] = StepRecord(earned)
<1>1. StepRecord(earned) \in Record
  BY Lengths DEF StepRecord, Record, TypeOK, Spans
<1>2. /\ StepRecord(earned).start = pendingSpan.start
      /\ StepRecord(earned).end = pendingSpan.end
  BY DEF StepRecord
<1>3. records \in Seq(Record)
  BY DEF TypeOK
<1>4. QED
  BY <1>1, <1>2, <1>3, AppendProperties

-------------------------------------------------------------------------------
(* The loop alone lets a batch earn one of Credits, the rollout whatever   *)
(* its calls earned: what holds of handlers for any credit holds of both.  *)

Handler ==
    \/ Prepare
    \/ \E n \in GenLens, found \in Batches : Generate(n, found)
    \/ \E earned \in Int, n \in ObsLens : ProcessTools(earned, n)
    \/ \E terminate \in BOOLEAN, n \in ObsLens : Interact(terminate, n)

HandlerSpec == Init /\ [][Handler]_loopVars

LEMMA LoopHandled == Spec => HandlerSpec
<1>1. [Next]_loopVars => [Handler]_loopVars
  BY LoopAssumptions DEF LoopAssumptions, Next, Handler
<1> QED BY <1>1, PTL DEF Spec, HandlerSpec

-------------------------------------------------------------------------------
(* The goal is finite: it is built by replaying a sequence of calls, and   *)
(* with it the progress of a database towards it is a number.              *)

ReplayFrom(h, s) == IF s = {} THEN {} ELSE Invoke(h[s \ {Max(s)}], GoalActions[Max(s)])
IsReplay(h) == h = [s \in SUBSET DOMAIN GoalActions |-> ReplayFrom(h, s)]

LEMMA GoalFinite == IsFiniteSet(GoalData)
<1> DEFINE n == Len(GoalActions)
           V == {d \in SUBSET EnvCalls : IsFiniteSet(d)}
           step == [p \in V \X Positions(n) |-> Invoke(p[1], GoalActions[p[2]])]
<1>1. /\ n \in Nat /\ DOMAIN GoalActions = Positions(n)
      /\ \A k \in Positions(n) : GoalActions[k] \in EnvCalls
  BY TaskAssumptions DEF TaskAssumptions, Positions
<1>2. {} \in V
  BY FS_EmptySet
<1>3. ASSUME NEW d \in V, NEW k \in Positions(n) PROVE Invoke(d, GoalActions[k]) \in V
  <2> DEFINE call == GoalActions[k]
  <2>1. call \in EnvCalls /\ d \in SUBSET EnvCalls /\ IsFiniteSet(d)
    BY <1>1
  <2> HIDE DEF call
  <2>2. IsFiniteSet(d \ Overwrites[call])
    BY <2>1, FS_Difference
  <2>3. IsFiniteSet((d \ Overwrites[call]) \cup {call})
    BY <2>2, FS_AddElement
  <2>4. Invoke(d, call) \in V
    BY <2>1, <2>3 DEF Invoke
  <2> QED BY <2>4 DEF call
<1> HIDE DEF n, V
<1>4. /\ step \in FoldSteps(V, n)
      /\ \A d \in V, k \in Positions(n) : step[<<d, k>>] = Invoke(d, GoalActions[k])
  BY <1>3 DEF FoldSteps
<1> HIDE DEF step
<1>5. PICK g : IsFold(g, step, {}, SUBSET Positions(n))
  BY <1>1, FoldExists
<1>6. /\ \A s \in SUBSET Positions(n) : g[s] \in V
      /\ \A s \in SUBSET Positions(n) : s # {} => Max(s) \in s
  BY <1>1, <1>2, <1>4, <1>5, FoldType, LargestIn
<1>7. IsReplay(g)
  <2>1. ASSUME NEW s \in SUBSET Positions(n) PROVE Folded(step, {}, g, s) = ReplayFrom(g, s)
    BY <1>4, <1>6 DEF Folded, ReplayFrom
  <2> QED BY <1>1, <1>5, <2>1 DEF IsFold, IsReplay
<1>8. GoalData = (CHOOSE h : IsReplay(h))[Positions(n)]
  BY <1>1 DEF GoalData, FoldLeft, MapThenFoldSet, IsReplay, ReplayFrom
<1>9. PICK h : IsReplay(h) /\ GoalData = h[Positions(n)]
  BY <1>7, <1>8
<1>10. FoldsAlike(h, step, {}, V, n)
  <2>1. \A s \in SUBSET Positions(n) : h[s] = ReplayFrom(h, s)
    BY <1>1, <1>9 DEF IsReplay
  <2> QED BY <1>4, <1>6, <2>1 DEF ReplayFrom, FoldsAlike
<1>11. h[Positions(n)] = g[Positions(n)]
  BY <1>1, <1>2, <1>4, <1>5, <1>10, FoldUnique
<1>12. GoalData \in V
  BY <1>6, <1>9, <1>11
<1> QED BY <1>12 DEF V

LEMMA ProgressType == \A d : MatchedLeaves(d) \in Nat
<1> SUFFICES ASSUME NEW d PROVE MatchedLeaves(d) \in Nat
  OBVIOUS
<1>1. IsFiniteSet(d \cap GoalData)
  BY GoalFinite, FS_Intersection
<1> QED BY <1>1, FS_CardinalityType DEF MatchedLeaves

\* What a batch has earned is a number, and so each step of the rollout is one
\* of a handler, or none of the loop.
CreditType == credit \in Int

LEMMA NextCreditType == CreditType /\ [RolloutNext]_rolloutVars => CreditType'
<1> SUFFICES ASSUME credit \in Int, [RolloutNext]_rolloutVars PROVE credit' \in Int
  BY DEF CreditType
<1>1. CASE Execute
  <2>1. credit' = credit + ProgressDelta(data, data')
    BY <1>1 DEF Execute
  <2>2. ProgressDelta(data, data') \in Int
    BY ProgressType DEF ProgressDelta
  <2> QED BY <2>1, <2>2
<1>2. CASE ~Execute
  <2>1. credit' = credit \/ credit' = 0
    BY <1>2 DEF RolloutNext, rolloutVars, taskVars, Start, PolicyTurn, CallFails, CloseBatch,
                Contaminated, RespondFails, Respond
  <2> QED BY <2>1
<1> QED BY <1>1, <1>2

LEMMA RolloutSteps == CreditType /\ [RolloutNext]_rolloutVars => [Handler]_loopVars
<1> SUFFICES ASSUME credit \in Int, [RolloutNext]_rolloutVars PROVE [Handler]_loopVars
  BY DEF CreditType
<1>1. CASE Start
  BY <1>1 DEF Start, Handler
<1>2. ASSUME NEW n \in GenLens, NEW found \in Batches, PolicyTurn(n, found)
      PROVE Handler
  BY <1>2 DEF PolicyTurn, Handler
<1>3. CASE CallFails \/ Execute
  BY <1>3 DEF CallFails, Execute
<1>4. ASSUME NEW n \in ObsLens, CloseBatch(n)
      PROVE Handler
  BY <1>4 DEF CloseBatch, Handler
<1>5. ASSUME NEW n \in ObsLens, Contaminated(n)
      PROVE Handler
  BY <1>5 DEF Contaminated, Handler
<1>6. ASSUME NEW outs \in SUBSET Outputs, NEW n \in ObsLens, RespondFails(outs, n)
      PROVE Handler
  BY <1>6 DEF RespondFails, Handler
<1>7. ASSUME NEW outs \in SUBSET Outputs, NEW stop \in BOOLEAN, NEW n \in ObsLens,
             Respond(outs, stop, n)
      PROVE Handler
  <2>1. (stop \/ numTurns + 1 >= MaxTurns) \in BOOLEAN
    OBVIOUS
  <2> QED BY <1>7, <2>1 DEF Respond, Handler
<1>8. CASE UNCHANGED rolloutVars
  BY <1>8 DEF rolloutVars
<1> QED BY <1>1, <1>2, <1>3, <1>4, <1>5, <1>6, <1>7, <1>8 DEF RolloutNext

LEMMA RolloutHandled == RolloutSpec => HandlerSpec
<1>1. RolloutInit => Init /\ CreditType
  BY DEF RolloutInit, CreditType
<1> QED BY <1>1, NextCreditType, RolloutSteps, PTL DEF RolloutSpec, HandlerSpec

-------------------------------------------------------------------------------
(* Types.                                                                  *)

LEMMA InitTypeOK == Init => TypeOK
BY EmptySeq DEF Init, TypeOK, AgentStates, Spans, NoSpan

LEMMA SpanOfType == ASSUME TypeOK, NEW n \in Nat PROVE SpanOf(n) \in Spans
BY Lengths DEF SpanOf, Spans

LEMMA NextTypeOK == TypeOK /\ [Handler]_loopVars => TypeOK'
<1> SUFFICES ASSUME TypeOK, [Handler]_loopVars PROVE TypeOK'
  OBVIOUS
<1>0. NoSpan \in Spans
  BY DEF NoSpan, Spans
<1>1. CASE Prepare
  <2>1. <<>> \in Seq(Origins) /\ "prompt" \in Origins /\ PromptLength \in Nat
    BY EmptySeq, LoopAssumptions DEF Origins, LoopAssumptions
  <2>2. promptIds' \in [1..PromptLength -> Origins]
    BY <1>1, <2>1 DEF Prepare, Copies
  <2>3. promptIds' \in Seq(Origins)
    BY <2>1, <2>2, SeqDef
  <2>4. QED
    BY <1>1, <2>3 DEF Prepare, TypeOK, AgentStates
<1>2. ASSUME NEW n \in GenLens, NEW found \in Batches, Generate(n, found)
      PROVE  TypeOK'
  <2>1. n \in Nat
    BY LoopAssumptions DEF LoopAssumptions
  <2>2. found \in Seq(Calls) /\ SpanOf(n) \in Spans
    BY <2>1, BatchType, SpanOfType
  <2>3. promptIds' \in Seq(Origins) /\ responseMask' \in Seq(Marks) /\ logProbs' \in Nat
    BY <1>2, <2>1, PolicyAppended DEF Generate
  <2>4. toolCalls' \in Seq(Calls) /\ pendingSpan' \in Spans /\ state' \in AgentStates
    BY <1>0, <1>2, <2>2 DEF Generate, TypeOK, AgentStates
  <2>5. QED
    BY <1>2, <2>3, <2>4 DEF Generate, TypeOK
<1>3. ASSUME NEW earned \in Int, NEW n \in ObsLens, ProcessTools(earned, n)
      PROVE  TypeOK'
  <2>1. n \in Nat /\ earned \in Int
    BY LoopAssumptions DEF LoopAssumptions
  <2>2. records' \in Seq(Record)
    BY <1>3, <2>1, RecordAppended DEF ProcessTools
  <2>3. CASE AppendObservation(n)
    <3>1. promptIds' \in Seq(Origins) /\ responseMask' \in Seq(Marks) /\ logProbs' \in Nat
      BY <2>1, <2>3, ObservationAppended
    <3>2. QED
      BY <1>0, <1>3, <2>2, <3>1 DEF ProcessTools, TypeOK, AgentStates
  <2>4. CASE UNCHANGED <<promptIds, responseMask, logProbs, userTurns>>
    BY <1>0, <1>3, <2>2, <2>4 DEF ProcessTools, TypeOK, AgentStates
  <2>5. QED
    BY <1>3, <2>3, <2>4 DEF ProcessTools
<1>4. ASSUME NEW terminate \in BOOLEAN, NEW n \in ObsLens, Interact(terminate, n)
      PROVE  TypeOK'
  <2>1. n \in Nat
    BY LoopAssumptions DEF LoopAssumptions
  <2>2. promptIds' \in Seq(Origins) /\ responseMask' \in Seq(Marks) /\ logProbs' \in Nat
    BY <1>4, <2>1, ObservationAppended DEF Interact
  <2>3. QED
    BY <1>4, <2>2 DEF Interact, TypeOK, AgentStates
<1>5. CASE UNCHANGED loopVars
  BY <1>5 DEF loopVars, TypeOK
<1>6. QED
  BY <1>1, <1>2, <1>3, <1>4, <1>5 DEF Handler

\* The agent data keeps its types for all lengths and limits, in the loop alone
\* and in the rollout, where a batch earns what its calls earned.
THEOREM LoopTypes == Spec \/ RolloutSpec => []TypeOK
<1>1. QED
  BY LoopHandled, RolloutHandled, InitTypeOK, NextTypeOK, PTL DEF HandlerSpec

-------------------------------------------------------------------------------
(* Spans.  A span lies within the response length because a generation     *)
(* that reaches it is never parsed; it stays trained because the mask only *)
(* grows; and it lies after the spans before it because it starts where    *)
(* the mask ended.                                                         *)

Good(a, b) ==
    /\ a < b /\ b < ResponseLength /\ b <= Len(responseMask)
    /\ \A k \in (a + 1)..b : responseMask[k] = 1

SpanInv ==
    /\ \A i \in 1..Len(records) : Good(records[i].start, records[i].end)
    /\ \A i, j \in 1..Len(records) : i < j => records[i].end <= records[j].start
    /\ state = "processing_tools" =>
         /\ toolCalls # <<>>
         /\ Good(pendingSpan.start, pendingSpan.end)
         /\ \A i \in 1..Len(records) : records[i].end <= pendingSpan.start

\* The ends of a record and of the pending span are natural numbers.
LEMMA SpanFields ==
    ASSUME TypeOK
    PROVE  /\ \A i \in 1..Len(records) : records[i].start \in Nat /\ records[i].end \in Nat
           /\ pendingSpan.start \in Nat /\ pendingSpan.end \in Nat
<1>1. ASSUME NEW i \in 1..Len(records)
      PROVE  records[i].start \in Nat /\ records[i].end \in Nat
  <2>1. records[i] \in Record
    BY ElementOfSeq DEF TypeOK
  <2>2. QED
    BY <2>1 DEF Record
<1>2. QED
  BY <1>1 DEF TypeOK, Spans

\* A good span stays good when the mask grows.
LEMMA GoodStable ==
    ASSUME TypeOK, Len(responseMask)' \in Nat, Len(responseMask) <= Len(responseMask)',
           \A k \in 1..Len(responseMask) : responseMask'[k] = responseMask[k],
           NEW a \in Nat, NEW b \in Nat, Good(a, b)
    PROVE  Good(a, b)'
<1>1. Len(responseMask) \in Nat /\ b <= Len(responseMask)
  BY Lengths DEF Good
<1>2. ASSUME NEW k \in (a + 1)..b PROVE responseMask'[k] = 1
  <2>1. k \in 1..Len(responseMask)
    BY <1>1
  <2>2. QED
    BY <2>1 DEF Good
<1>3. QED
  BY <1>1, <1>2 DEF Good

\* A step that grows the mask and keeps the records keeps what is known of them.
LEMMA RecordsStable ==
    ASSUME TypeOK, SpanInv, Len(responseMask)' \in Nat, Len(responseMask) <= Len(responseMask)',
           \A k \in 1..Len(responseMask) : responseMask'[k] = responseMask[k],
           UNCHANGED records
    PROVE  /\ \A i \in 1..Len(records)' : Good(records[i].start, records[i].end)'
           /\ \A i, j \in 1..Len(records)' : i < j => records'[i].end <= records'[j].start
<1>1. ASSUME NEW i \in 1..Len(records)
      PROVE  Good(records[i].start, records[i].end)'
  <2>1. records[i].start \in Nat /\ records[i].end \in Nat
    BY SpanFields
  <2>2. Good(records[i].start, records[i].end)
    BY DEF SpanInv
  <2>3. \A a, b \in Nat : Good(a, b) => Good(a, b)'
    BY GoodStable
  <2>4. QED
    BY <2>1, <2>2, <2>3 DEF Good
<1>2. QED
  BY <1>1 DEF SpanInv

LEMMA InitSpanInv == Init => SpanInv
BY EmptySeq DEF Init, SpanInv

LEMMA NextSpanInv == TypeOK /\ TypeOK' /\ SpanInv /\ [Handler]_loopVars => SpanInv'
<1> SUFFICES ASSUME TypeOK, TypeOK', SpanInv, [Handler]_loopVars PROVE SpanInv'
  OBVIOUS
<1>0. Len(responseMask) \in Nat /\ Len(records) \in Nat
  BY Lengths
<1>1. CASE Prepare
  BY <1>1 DEF Prepare, SpanInv, Good
<1>2. ASSUME NEW n \in GenLens, NEW found \in Batches, Generate(n, found)
      PROVE  SpanInv'
  <2>1. n \in Nat /\ n > 0 /\ ResponseLength \in Nat
    BY LoopAssumptions DEF LoopAssumptions
  <2>2. /\ Len(responseMask)' = Len(responseMask) + n
        /\ \A k \in 1..Len(responseMask) : responseMask'[k] = responseMask[k]
        /\ \A k \in Nat : Len(responseMask) < k /\ k <= Len(responseMask) + n
                         => responseMask'[k] = 1
    BY <1>2, <2>1, PolicyAppended DEF Generate
  <2>3. /\ \A i \in 1..Len(records)' : Good(records[i].start, records[i].end)'
        /\ \A i, j \in 1..Len(records)' : i < j => records'[i].end <= records'[j].start
    BY <1>0, <1>2, <2>1, <2>2, RecordsStable DEF Generate
  <2>4. ASSUME state' = "processing_tools"
        PROVE  /\ toolCalls' # <<>>
               /\ Good(pendingSpan.start, pendingSpan.end)'
               /\ \A i \in 1..Len(records)' : records'[i].end <= pendingSpan'.start
    <3>1. /\ ~LimitReached(n) /\ found # <<>> /\ toolCalls' = found
          /\ pendingSpan' = SpanOf(n) /\ records' = records
      BY <1>2, <2>4 DEF Generate
    <3>2. /\ pendingSpan'.start = Len(responseMask)
          /\ pendingSpan'.end = Len(responseMask) + n
      BY <3>1 DEF SpanOf
    <3>3. Len(responseMask) + n < ResponseLength
      BY <1>0, <2>1, <3>1 DEF LimitReached
    <3>4. Good(pendingSpan.start, pendingSpan.end)'
      BY <1>0, <2>1, <2>2, <3>2, <3>3 DEF Good
    <3>5. ASSUME NEW i \in 1..Len(records) PROVE records[i].end <= Len(responseMask)
      BY DEF SpanInv, Good
    <3>6. QED
      BY <3>1, <3>2, <3>4, <3>5
  <2>5. QED
    BY <2>3, <2>4 DEF SpanInv
<1>3. ASSUME NEW earned \in Int, NEW n \in ObsLens, ProcessTools(earned, n)
      PROVE  SpanInv'
  <2>1. n \in Nat /\ earned \in Int
    BY LoopAssumptions DEF LoopAssumptions
  <2>2. /\ Len(responseMask)' \in Nat /\ Len(responseMask) <= Len(responseMask)'
        /\ \A k \in 1..Len(responseMask) : responseMask'[k] = responseMask[k]
    <3>1. CASE AppendObservation(n)
      BY <1>0, <2>1, <3>1, ObservationAppended
    <3>2. CASE UNCHANGED responseMask
      BY <1>0, <3>2
    <3>3. QED
      BY <1>3, <3>1, <3>2 DEF ProcessTools
  <2>3. /\ Len(records') = Len(records) + 1
        /\ \A i \in 1..Len(records) : records'[i] = records[i]
        /\ records'[Len(records) + 1].start = pendingSpan.start
        /\ records'[Len(records) + 1].end = pendingSpan.end
    BY <1>3, <2>1, RecordAppended DEF ProcessTools
  <2>4. /\ Good(pendingSpan.start, pendingSpan.end)
        /\ \A i \in 1..Len(records) : records[i].end <= pendingSpan.start
    BY <1>3 DEF ProcessTools, SpanInv
  <2>5. \A a, b \in Nat : Good(a, b) => Good(a, b)'
    BY <2>2, GoodStable
  <2>6. ASSUME NEW i \in 1..Len(records')
        PROVE  Good(records[i].start, records[i].end)'
    <3>1. CASE i \in 1..Len(records)
      <4>1. Good(records[i].start, records[i].end)
        BY <3>1 DEF SpanInv
      <4>2. records[i].start \in Nat /\ records[i].end \in Nat
        BY <3>1, SpanFields
      <4>3. QED
        BY <2>3, <2>5, <3>1, <4>1, <4>2 DEF Good
    <3>2. CASE i = Len(records) + 1
      BY <2>3, <2>4, <2>5, <3>2, SpanFields DEF Good
    <3>3. QED
      BY <1>0, <2>3, <3>1, <3>2
  <2>7. ASSUME NEW i \in 1..Len(records'), NEW j \in 1..Len(records'), i < j
        PROVE  records'[i].end <= records'[j].start
    <3>1. i \in 1..Len(records) /\ records'[i] = records[i]
      BY <1>0, <2>3, <2>7
    <3>2. CASE j \in 1..Len(records)
      BY <2>3, <2>7, <3>1, <3>2 DEF SpanInv
    <3>3. CASE j = Len(records) + 1
      BY <2>3, <2>4, <3>1, <3>3
    <3>4. QED
      BY <1>0, <2>3, <3>2, <3>3
  <2>8. state' # "processing_tools"
    BY <1>3 DEF ProcessTools
  <2>9. QED
    BY <2>6, <2>7, <2>8 DEF SpanInv
<1>4. ASSUME NEW terminate \in BOOLEAN, NEW n \in ObsLens, Interact(terminate, n)
      PROVE  SpanInv'
  <2>1. n \in Nat
    BY LoopAssumptions DEF LoopAssumptions
  <2>2. /\ Len(responseMask)' \in Nat /\ Len(responseMask) <= Len(responseMask)'
        /\ \A k \in 1..Len(responseMask) : responseMask'[k] = responseMask[k]
    BY <1>0, <1>4, <2>1, ObservationAppended DEF Interact
  <2>3. UNCHANGED records /\ state' # "processing_tools"
    BY <1>4 DEF Interact
  <2>4. QED
    BY <2>2, <2>3, RecordsStable DEF SpanInv
<1>5. CASE UNCHANGED loopVars
  BY <1>5 DEF loopVars, SpanInv, Good
<1>6. QED
  BY <1>1, <1>2, <1>3, <1>4, <1>5 DEF Handler

\* What the output keeps of the mask is its beginning.
LEMMA OutputMaskProperties ==
    ASSUME TypeOK
    PROVE  /\ Kept \in Nat /\ Kept <= Len(responseMask)
           /\ Len(responseMask) < ResponseLength => Kept = Len(responseMask)
           /\ Len(responseMask) >= ResponseLength => Kept = ResponseLength
           /\ Len(OutputMask) = Kept
           /\ \A k \in 1..Kept : OutputMask[k] = responseMask[k]
<1>1. Len(responseMask) \in Nat /\ ResponseLength \in Nat
  BY Lengths, LoopAssumptions DEF LoopAssumptions
<1>2. /\ Kept \in Nat /\ Kept <= Len(responseMask)
      /\ Len(responseMask) < ResponseLength => Kept = Len(responseMask)
      /\ Len(responseMask) >= ResponseLength => Kept = ResponseLength
  BY <1>1 DEF Kept, MinOf
<1>3. \A k \in 1..Kept : responseMask[k] \in Marks
  BY <1>1, <1>2, ElementOfSeq DEF TypeOK
<1>4. /\ Len(OutputMask) = Kept
      /\ \A k \in 1..Kept : OutputMask[k] = responseMask[k]
  BY <1>2, <1>3, SubSeqProperties DEF OutputMask
<1>5. QED
  BY <1>2, <1>4

LEMMA SpanInvAccepted == TypeOK /\ SpanInv => SpansAccepted
<1> SUFFICES ASSUME TypeOK, SpanInv PROVE SpansAccepted
  OBVIOUS
<1>1. ASSUME state = "processing_tools" PROVE Builds(pendingSpan, Running)
  <2>1. Running > 0 /\ Good(pendingSpan.start, pendingSpan.end)
    BY <1>1, Lengths DEF SpanInv
  <2>2. QED
    BY <2>1, SpanFields DEF Builds, Good
<1>2. ASSUME NEW i \in 1..Len(records)
      PROVE  InBounds(records[i], ResponseLength) /\ Trained(records[i], OutputMask)
  <2>1. /\ Good(records[i].start, records[i].end)
        /\ records[i].start \in Nat /\ records[i].end \in Nat
    BY SpanFields DEF SpanInv
  <2>2. Len(responseMask) \in Nat /\ ResponseLength \in Nat
    BY Lengths, LoopAssumptions DEF LoopAssumptions
  <2>3. InBounds(records[i], ResponseLength)
    BY <2>1, <2>2 DEF InBounds, Good
  <2>4. ASSUME NEW k \in (records[i].start + 1)..records[i].end
        PROVE  k \in 1..Len(OutputMask) /\ OutputMask[k] = 1
    <3>1. responseMask[k] = 1 /\ k \in Nat /\ k >= 1
      BY <2>1 DEF Good
    <3>2. k <= Kept
      BY <2>1, <2>2, OutputMaskProperties DEF Good
    <3>3. QED
      BY <3>1, <3>2, OutputMaskProperties
  <2>5. QED
    BY <2>3, <2>4 DEF Trained
<1>3. ASSUME NEW i \in 1..Len(records), NEW j \in 1..Len(records), i # j
      PROVE  Disjoint(records[i], records[j])
  <2>1. i < j \/ j < i
    BY <1>3
  <2>2. QED
    BY <2>1 DEF SpanInv, Disjoint
<1>4. QED
  BY <1>1, <1>2, <1>3 DEF SpansAccepted, Accepted

\* Whatever is generated and answered, the records of a trajectory pass every
\* check of the advantage estimator.
THEOREM SpansNeverRefused == Spec \/ RolloutSpec => []SpansAccepted
<1>1. Init => TypeOK /\ SpanInv
  BY InitTypeOK, InitSpanInv
<1>2. TypeOK /\ SpanInv /\ [Handler]_loopVars => (TypeOK /\ SpanInv)'
  BY NextTypeOK, NextSpanInv
<1>3. TypeOK /\ SpanInv => SpansAccepted
  BY SpanInvAccepted
<1>4. QED
  BY LoopHandled, RolloutHandled, <1>1, <1>2, <1>3, PTL DEF HandlerSpec

-------------------------------------------------------------------------------
(* Turns.                                                                  *)

TurnInv ==
    /\ state \in {"pending", "generating"} =>
         /\ assistantTurns = userTurns
         /\ MaxAssistantTurns > 0 => assistantTurns < MaxAssistantTurns
    /\ state \in {"processing_tools", "interacting"} =>
         /\ assistantTurns = userTurns + 1
         /\ MaxAssistantTurns > 0 => assistantTurns < MaxAssistantTurns
         /\ MaxUserTurns > 0 => userTurns < MaxUserTurns
         /\ Len(records) < assistantTurns
    /\ TurnLimits

LEMMA InitTurnInv == Init => TurnInv
BY EmptySeq, LoopAssumptions DEF Init, TurnInv, TurnLimits, LoopAssumptions

LEMMA NextTurnInv == TypeOK /\ TurnInv /\ [Handler]_loopVars => TurnInv'
<1> SUFFICES ASSUME TypeOK, TurnInv, [Handler]_loopVars PROVE TurnInv'
  OBVIOUS
<1>0. /\ assistantTurns \in Nat /\ userTurns \in Nat /\ Len(records) \in Nat
      /\ state \in AgentStates
      /\ MaxAssistantTurns \in Nat /\ MaxUserTurns \in Nat
  BY Lengths, LoopAssumptions DEF TypeOK, LoopAssumptions
<1>1. CASE Prepare
  BY <1>0, <1>1 DEF Prepare, TurnInv, TurnLimits
<1>2. ASSUME NEW n \in GenLens, NEW found \in Batches, Generate(n, found)
      PROVE  TurnInv'
  <2>1. /\ assistantTurns' = assistantTurns + 1
        /\ UNCHANGED <<userTurns, records>>
        /\ assistantTurns = userTurns
        /\ MaxAssistantTurns > 0 => assistantTurns < MaxAssistantTurns
        /\ TurnLimits
    BY <1>2 DEF Generate, TurnInv
  <2>2. TurnLimits'
    BY <1>0, <2>1 DEF TurnLimits
  <2>3. CASE LimitReached(n)
    BY <1>2, <2>2, <2>3 DEF Generate, TurnInv
  <2>4. CASE ~LimitReached(n)
    <3>1. state' \in {"processing_tools", "interacting"}
      BY <1>2, <2>4 DEF Generate
    <3>2. /\ MaxAssistantTurns > 0 => assistantTurns' < MaxAssistantTurns
          /\ MaxUserTurns > 0 => userTurns' < MaxUserTurns
      BY <1>0, <2>1, <2>4 DEF LimitReached
    <3>3. assistantTurns' = userTurns' + 1 /\ Len(records') < assistantTurns'
      BY <1>0, <2>1 DEF TurnLimits
    <3>4. QED
      BY <2>2, <3>1, <3>2, <3>3 DEF TurnInv
  <2>5. QED
    BY <2>3, <2>4
<1>3. ASSUME NEW earned \in Int, NEW n \in ObsLens, ProcessTools(earned, n)
      PROVE  TurnInv'
  <2>1. Len(records') = Len(records) + 1
    BY <1>3, RecordAppended, LoopAssumptions DEF ProcessTools, LoopAssumptions
  <2>2. /\ assistantTurns' = assistantTurns
        /\ \/ state' = "terminated" /\ userTurns' = userTurns
           \/ state' = "generating" /\ userTurns' = userTurns + 1
    BY <1>3 DEF ProcessTools
  <2>3. /\ assistantTurns = userTurns + 1
        /\ MaxAssistantTurns > 0 => assistantTurns < MaxAssistantTurns
        /\ MaxUserTurns > 0 => userTurns < MaxUserTurns
        /\ Len(records) < assistantTurns
    BY <1>3 DEF ProcessTools, TurnInv
  <2>4. QED
    BY <1>0, <2>1, <2>2, <2>3 DEF TurnInv, TurnLimits
<1>4. ASSUME NEW terminate \in BOOLEAN, NEW n \in ObsLens, Interact(terminate, n)
      PROVE  TurnInv'
  <2>1. /\ UNCHANGED <<assistantTurns, records>>
        /\ userTurns' = userTurns + 1
        /\ state' \in {"terminated", "generating"}
    BY <1>4 DEF Interact
  <2>2. /\ assistantTurns = userTurns + 1
        /\ MaxAssistantTurns > 0 => assistantTurns < MaxAssistantTurns
        /\ MaxUserTurns > 0 => userTurns < MaxUserTurns
        /\ Len(records) < assistantTurns
    BY <1>4 DEF Interact, TurnInv
  <2>3. QED
    BY <1>0, <2>1, <2>2 DEF TurnInv, TurnLimits
<1>5. CASE UNCHANGED loopVars
  BY <1>5 DEF loopVars, TurnInv, TurnLimits
<1>6. QED
  BY <1>1, <1>2, <1>3, <1>4, <1>5 DEF Handler

\* The limits on turns hold although only generations look at them.
THEOREM TurnsAreLimited == Spec \/ RolloutSpec => []TurnLimits
<1>1. TurnInv => TurnLimits
  BY DEF TurnInv
<1>2. QED
  BY LoopHandled, RolloutHandled, <1>1, InitTypeOK, NextTypeOK, InitTurnInv, NextTurnInv, PTL DEF HandlerSpec

-------------------------------------------------------------------------------
(* Alignment of the ids and the mask.                                      *)

Aligned ==
    /\ Len(promptIds) = PromptLength + Len(responseMask)
    /\ \A k \in 1..PromptLength : promptIds[k] = "prompt"
    /\ \A k \in 1..Len(responseMask) :
         responseMask[k] = 1 <=> promptIds[PromptLength + k] = "policy"

AlignInv ==
    /\ state = "pending" => responseMask = <<>>
    /\ state # "pending" => Aligned

\* Appending to both sequences keeps them aligned.
LEMMA PolicyAligned ==
    ASSUME TypeOK, Aligned, NEW n \in Nat, AppendPolicy(n)
    PROVE  Aligned'
<1>1. PromptLength \in Nat /\ Len(responseMask) \in Nat
  BY Lengths, LoopAssumptions DEF LoopAssumptions
<1>2. /\ Len(promptIds') = Len(promptIds) + n
      /\ \A k \in 1..Len(promptIds) : promptIds'[k] = promptIds[k]
      /\ \A k \in Nat : Len(promptIds) < k /\ k <= Len(promptIds) + n
                       => promptIds'[k] = "policy"
      /\ Len(responseMask') = Len(responseMask) + n
      /\ \A k \in 1..Len(responseMask) : responseMask'[k] = responseMask[k]
      /\ \A k \in Nat : Len(responseMask) < k /\ k <= Len(responseMask) + n
                       => responseMask'[k] = 1
  BY PolicyAppended
<1>3. ASSUME NEW k \in 1..PromptLength PROVE promptIds'[k] = "prompt"
  BY <1>1, <1>2 DEF Aligned
<1>4. ASSUME NEW k \in 1..Len(responseMask')
      PROVE  responseMask'[k] = 1 <=> promptIds'[PromptLength + k] = "policy"
  <2>1. CASE k <= Len(responseMask)
    <3>1. k \in 1..Len(responseMask) /\ PromptLength + k \in 1..Len(promptIds)
      BY <1>1, <2>1 DEF Aligned
    <3>2. QED
      BY <1>2, <3>1 DEF Aligned
  <2>2. CASE Len(responseMask) < k
    <3>1. /\ k <= Len(responseMask) + n /\ PromptLength + k \in Nat
          /\ Len(promptIds) < PromptLength + k
          /\ PromptLength + k <= Len(promptIds) + n
      BY <1>1, <1>2, <2>2 DEF Aligned
    <3>2. QED
      BY <1>2, <2>2, <3>1
  <2>3. QED
    BY <1>1, <2>1, <2>2
<1>5. QED
  BY <1>1, <1>2, <1>3, <1>4 DEF Aligned

LEMMA ObservationAligned ==
    ASSUME TypeOK, Aligned, NEW n \in Nat, AppendObservation(n)
    PROVE  Aligned'
<1>1. PromptLength \in Nat /\ Len(responseMask) \in Nat
  BY Lengths, LoopAssumptions DEF LoopAssumptions
<1>2. /\ Len(promptIds') = Len(promptIds) + n
      /\ \A k \in 1..Len(promptIds) : promptIds'[k] = promptIds[k]
      /\ \A k \in Nat : Len(promptIds) < k /\ k <= Len(promptIds) + n
                       => promptIds'[k] = "observation"
      /\ Len(responseMask') = Len(responseMask) + n
      /\ \A k \in 1..Len(responseMask) : responseMask'[k] = responseMask[k]
      /\ \A k \in Nat : Len(responseMask) < k /\ k <= Len(responseMask) + n
                       => responseMask'[k] = 0
  BY ObservationAppended
<1>3. ASSUME NEW k \in 1..PromptLength PROVE promptIds'[k] = "prompt"
  BY <1>1, <1>2 DEF Aligned
<1>4. ASSUME NEW k \in 1..Len(responseMask')
      PROVE  responseMask'[k] = 1 <=> promptIds'[PromptLength + k] = "policy"
  <2>1. CASE k <= Len(responseMask)
    <3>1. k \in 1..Len(responseMask) /\ PromptLength + k \in 1..Len(promptIds)
      BY <1>1, <2>1 DEF Aligned
    <3>2. QED
      BY <1>2, <3>1 DEF Aligned
  <2>2. CASE Len(responseMask) < k
    <3>1. /\ k <= Len(responseMask) + n /\ PromptLength + k \in Nat
          /\ Len(promptIds) < PromptLength + k
          /\ PromptLength + k <= Len(promptIds) + n
      BY <1>1, <1>2, <2>2 DEF Aligned
    <3>2. responseMask'[k] = 0 /\ promptIds'[PromptLength + k] = "observation"
      BY <1>2, <2>2, <3>1
    <3>3. QED
      BY <3>2
  <2>3. QED
    BY <1>1, <2>1, <2>2
<1>5. QED
  BY <1>1, <1>2, <1>3, <1>4 DEF Aligned

LEMMA NextAlignInv == TypeOK /\ AlignInv /\ [Handler]_loopVars => AlignInv'
<1> SUFFICES ASSUME TypeOK, AlignInv, [Handler]_loopVars PROVE AlignInv'
  OBVIOUS
<1>1. CASE Prepare
  <2>1. PromptLength \in Nat
    BY LoopAssumptions DEF LoopAssumptions
  <2>2. /\ promptIds' \in [1..PromptLength -> Origins]
        /\ \A k \in 1..PromptLength : promptIds'[k] = "prompt"
    BY <1>1 DEF Prepare, Copies, Origins
  <2>3. Len(promptIds') = PromptLength
    BY <2>1, <2>2, SeqDef
  <2>4. responseMask' = <<>> /\ Len(responseMask') = 0 /\ state' # "pending"
    BY <1>1 DEF Prepare, AlignInv
  <2>5. QED
    BY <2>1, <2>2, <2>3, <2>4 DEF AlignInv, Aligned
<1>2. ASSUME NEW n \in GenLens, NEW found \in Batches, Generate(n, found)
      PROVE  AlignInv'
  <2>1. n \in Nat
    BY LoopAssumptions DEF LoopAssumptions
  <2>2. Aligned /\ AppendPolicy(n)
    BY <1>2 DEF Generate, AlignInv
  <2>3. Aligned'
    BY <2>1, <2>2, PolicyAligned
  <2>4. state' # "pending"
    BY <1>2 DEF Generate
  <2>5. QED
    BY <2>3, <2>4 DEF AlignInv
<1>3. ASSUME NEW earned \in Int, NEW n \in ObsLens, ProcessTools(earned, n)
      PROVE  AlignInv'
  <2>1. n \in Nat
    BY LoopAssumptions DEF LoopAssumptions
  <2>2. Aligned /\ state' # "pending"
    BY <1>3 DEF ProcessTools, AlignInv
  <2>3. CASE AppendObservation(n)
    BY <2>1, <2>2, <2>3, ObservationAligned DEF AlignInv
  <2>4. CASE UNCHANGED <<promptIds, responseMask>>
    BY <2>2, <2>4 DEF AlignInv, Aligned
  <2>5. QED
    BY <1>3, <2>3, <2>4 DEF ProcessTools
<1>4. ASSUME NEW terminate \in BOOLEAN, NEW n \in ObsLens, Interact(terminate, n)
      PROVE  AlignInv'
  <2>1. n \in Nat
    BY LoopAssumptions DEF LoopAssumptions
  <2>2. Aligned /\ AppendObservation(n) /\ state' # "pending"
    BY <1>4 DEF Interact, AlignInv
  <2>3. Aligned'
    BY <2>1, <2>2, ObservationAligned
  <2>4. QED
    BY <2>2, <2>3 DEF AlignInv
<1>5. CASE UNCHANGED loopVars
  BY <1>5 DEF loopVars, AlignInv, Aligned
<1>6. QED
  BY <1>1, <1>2, <1>3, <1>4, <1>5 DEF Handler

\* The output of an aligned trajectory: the prompt, and the tokens of the policy
\* where the mask is 1.
LEMMA AlignedOutput == TypeOK /\ AlignInv => OnlyPolicyTrained
<1> SUFFICES ASSUME TypeOK, AlignInv, state = "terminated"
             PROVE  /\ OutputPrompt = Copies(PromptLength, "prompt")
                    /\ \A k \in 1..Kept : OutputMask[k] = 1 <=> OutputIds[k] = "policy"
  BY DEF OnlyPolicyTrained
<1>1. /\ PromptLength \in Nat /\ Len(responseMask) \in Nat
      /\ Kept \in Nat /\ Kept <= Len(responseMask)
      /\ \A k \in 1..Kept : OutputMask[k] = responseMask[k]
  BY Lengths, LoopAssumptions, OutputMaskProperties DEF LoopAssumptions
<1>2. Aligned
  BY DEF AlignInv
<1>3. Len(promptIds) - Len(responseMask) = PromptLength
  BY <1>1, <1>2 DEF Aligned
<1>4. \A k \in 1..Len(promptIds) : promptIds[k] \in Origins
  BY ElementOfSeq DEF TypeOK
<1>5. OutputPrompt = Copies(PromptLength, "prompt")
  <2>1. OutputPrompt = SubSeq(promptIds, 1, PromptLength)
    BY <1>3 DEF OutputPrompt
  <2>2. \A k \in 1..PromptLength : promptIds[k] \in Origins
    BY <1>1, <1>2, <1>4 DEF Aligned
  <2>3. /\ OutputPrompt \in Seq(Origins)
        /\ Len(OutputPrompt) = PromptLength
        /\ \A k \in 1..PromptLength : OutputPrompt[k] = promptIds[k]
    BY <1>1, <2>1, <2>2, SubSeqProperties
  <2>4. /\ Copies(PromptLength, "prompt") \in [1..PromptLength -> Origins]
        /\ \A k \in 1..PromptLength : Copies(PromptLength, "prompt")[k] = "prompt"
    BY DEF Copies, Origins
  <2>5. Copies(PromptLength, "prompt") \in Seq(Origins) /\ Len(Copies(PromptLength, "prompt")) = PromptLength
    BY <1>1, <2>4, SeqDef
  <2>6. \A k \in 1..PromptLength : OutputPrompt[k] = Copies(PromptLength, "prompt")[k]
    BY <1>2, <2>3, <2>4 DEF Aligned
  <2>7. QED
    BY <2>3, <2>5, <2>6, SeqEqual
<1>6. ASSUME NEW k \in 1..Kept PROVE OutputIds[k] = promptIds[PromptLength + k]
  <2>1. OutputIds = SubSeq(promptIds, PromptLength + 1, PromptLength + Kept)
    BY <1>3 DEF OutputIds
  <2>2. \A i \in (PromptLength + 1)..(PromptLength + Kept) : promptIds[i] \in Origins
    BY <1>1, <1>2, <1>4 DEF Aligned
  <2>3. \A i \in 1..((PromptLength + Kept) - (PromptLength + 1) + 1) :
          OutputIds[i] = promptIds[(PromptLength + 1) + i - 1]
    BY <1>1, <2>1, <2>2, SubSeqProperties
  <2>4. PromptLength \in Nat /\ Kept \in Nat /\ k \in Nat
    BY <1>1
  <2>5. /\ k \in 1..((PromptLength + Kept) - (PromptLength + 1) + 1)
        /\ (PromptLength + 1) + k - 1 = PromptLength + k
    BY <2>4
  <2>6. QED
    BY <2>3, <2>5
<1>7. ASSUME NEW k \in 1..Kept PROVE OutputMask[k] = 1 <=> OutputIds[k] = "policy"
  <2>1. k \in 1..Len(responseMask)
    BY <1>1
  <2>2. QED
    BY <1>1, <1>2, <1>6, <2>1 DEF Aligned
<1>8. QED
  BY <1>5, <1>7

\* No token of the prompt, of a tool or of the customer is ever trained on, and
\* every token of the policy that is kept is.
THEOREM OnlyPolicyIsTrained == Spec \/ RolloutSpec => []OnlyPolicyTrained
<1>1. Init => TypeOK /\ AlignInv
  BY InitTypeOK DEF Init, AlignInv
<1>2. TypeOK /\ AlignInv /\ [Handler]_loopVars => (TypeOK /\ AlignInv)'
  BY NextTypeOK, NextAlignInv
<1>3. QED
  BY LoopHandled, RolloutHandled, <1>1, <1>2, AlignedOutput, PTL DEF HandlerSpec

-------------------------------------------------------------------------------
(* Log-probs.                                                              *)

\* Log-probs are extended for an observation only when there already are some:
\* a handler that appends one always has a generation before it.
LogInv ==
    /\ LogProbsAligned
    /\ state \in {"processing_tools", "interacting"} => Len(responseMask) > 0

LEMMA ObservationLogged ==
    ASSUME TypeOK, LogProbsAligned, Len(responseMask) > 0, NEW n \in Nat, AppendObservation(n)
    PROVE  LogProbsAligned'
<1>1. Len(responseMask') = Len(responseMask) + n
  BY ObservationAppended
<1>2. logProbs' = IF logProbs > 0 THEN logProbs + n ELSE logProbs
  BY DEF AppendObservation
<1>3. QED
  BY <1>1, <1>2, Lengths DEF LogProbsAligned

LEMMA NextLogInv == TypeOK /\ LogInv /\ [Handler]_loopVars => LogInv'
<1> SUFFICES ASSUME TypeOK, LogInv, [Handler]_loopVars PROVE LogInv'
  OBVIOUS
<1>1. CASE Prepare
  BY <1>1 DEF Prepare, LogInv, LogProbsAligned
<1>2. ASSUME NEW n \in GenLens, NEW found \in Batches, Generate(n, found)
      PROVE  LogInv'
  <2>1. n \in Nat \ {0} /\ AppendPolicy(n)
    BY <1>2, LoopAssumptions DEF Generate, LoopAssumptions
  <2>2. Len(responseMask') = Len(responseMask) + n
    BY <2>1, PolicyAppended
  <2>3. logProbs' = IF HasLogProbs THEN logProbs + n ELSE logProbs
    BY <2>1 DEF AppendPolicy
  <2>4. QED
    BY <2>1, <2>2, <2>3, Lengths DEF LogInv, LogProbsAligned
<1>3. ASSUME NEW earned \in Int, NEW n \in ObsLens, ProcessTools(earned, n)
      PROVE  LogInv'
  <2>1. n \in Nat /\ Len(responseMask) > 0 /\ state' \in {"terminated", "generating"}
    BY <1>3, LoopAssumptions DEF ProcessTools, LogInv, LoopAssumptions
  <2>2. UNCHANGED <<responseMask, logProbs>> \/ AppendObservation(n)
    BY <1>3 DEF ProcessTools
  <2>3. LogProbsAligned'
    BY <2>1, <2>2, ObservationLogged DEF LogInv, LogProbsAligned
  <2>4. QED
    BY <2>1, <2>3 DEF LogInv
<1>4. ASSUME NEW terminate \in BOOLEAN, NEW n \in ObsLens, Interact(terminate, n)
      PROVE  LogInv'
  <2>1. n \in Nat /\ Len(responseMask) > 0 /\ state' \in {"terminated", "generating"}
    BY <1>4, LoopAssumptions DEF Interact, LogInv, LoopAssumptions
  <2>2. LogProbsAligned'
    BY <1>4, <2>1, ObservationLogged DEF Interact, LogInv
  <2>3. QED
    BY <2>1, <2>2 DEF LogInv
<1>5. CASE UNCHANGED loopVars
  BY <1>5 DEF loopVars, LogInv, LogProbsAligned
<1>6. QED
  BY <1>1, <1>2, <1>3, <1>4, <1>5 DEF Handler

\* The log-probs returned with a trajectory are one per token, or none.
THEOREM LogProbsStayAligned == Spec \/ RolloutSpec => []LogProbsAligned
<1>1. Init => LogInv
  BY EmptySeq DEF Init, LogInv, LogProbsAligned
<1>2. LogInv => LogProbsAligned
  BY DEF LogInv
<1>3. QED
  BY LoopHandled, RolloutHandled, <1>1, <1>2, InitTypeOK, NextTypeOK, NextLogInv, PTL DEF HandlerSpec

-------------------------------------------------------------------------------
(* The rollout over the loop *)

\* Without a transfer only the customer's STOP has the work judged, and it ends
\* the trajectory: until then Env.data is what the agent made of it.
Untransferred ==
    "transferred" \notin flags =>
        /\ ~ended => data = built /\ totalReward = 0
        /\ ended => /\ state = "terminated"
                    /\ totalReward \in {0, 1}
                    /\ totalReward = 1 <=> Matches(built, told)

ScoreInv == ended \in BOOLEAN /\ Untransferred

-------------------------------------------------------------------------------
LEMMA RewardType == \A d, t : Reward(d, t) \in {0, 1} /\ (Reward(d, t) = 1 <=> Matches(d, t))
BY DEF Reward

LEMMA InitScoreInv == RolloutInit => ScoreInv
BY DEF RolloutInit, EnvInit, ScoreInv, Untransferred

\* Handlers that touch neither the environment nor the reward.
LEMMA QuietStep ==
    ASSUME ScoreInv, UNCHANGED <<data, built, ended, totalReward>>,
           flags \subseteq flags', state # "terminated" \/ UNCHANGED <<told, state>>
    PROVE ScoreInv'
BY DEF ScoreInv, Untransferred

LEMMA ExecuteStep == ASSUME ScoreInv, Execute PROVE ScoreInv'
<1> DEFINE call == toolCalls[ran + 1]
<1>1. /\ state = "processing_tools" /\ EnvStep(call)
      /\ totalReward' = totalReward + StepReward(call)
      /\ flags \subseteq flags' /\ (call = Transfer => "transferred" \in flags')
  BY DEF Execute
<1>2. ended' = (ended \/ call = Transfer)
  BY <1>1 DEF EnvStep, StepDone
<1>3. ended' \in BOOLEAN
  BY <1>2
<1>4. CASE "transferred" \in flags'
  BY <1>3, <1>4 DEF ScoreInv, Untransferred
<1>5. CASE "transferred" \notin flags'
  <2>1. call # Transfer /\ ~ended /\ data = built /\ totalReward = 0
    BY <1>1, <1>5 DEF ScoreInv, Untransferred
  <2>2. ~ StepDone(call)
    BY <2>1 DEF StepDone
  <2>3. data' = built'
    BY <1>1, <2>1, <2>2 DEF EnvStep, AfterReward
  <2>4. totalReward' = 0
    BY <1>1, <2>1, <2>2 DEF StepReward
  <2> QED BY <1>2, <1>3, <2>1, <2>3, <2>4 DEF ScoreInv, Untransferred
<1> QED BY <1>4, <1>5

LEMMA RespondStep ==
    ASSUME ScoreInv, NEW outs \in SUBSET Outputs, NEW stop \in BOOLEAN, NEW n \in ObsLens,
           Respond(outs, stop, n)
    PROVE ScoreInv'
<1>1. /\ state = "interacting" /\ (stop => state' = "terminated")
      /\ EnvRespond(outs, stop)
      /\ totalReward' = totalReward + RespondReward(outs, stop)
      /\ flags \subseteq flags'
  BY DEF Respond, Interact
<1>2. ended' = (ended \/ stop) /\ ended' \in BOOLEAN
  BY <1>1 DEF EnvRespond
<1>3. CASE "transferred" \in flags'
  BY <1>2, <1>3 DEF ScoreInv, Untransferred
<1>4. CASE "transferred" \notin flags'
  <2>1. ~ended /\ data = built /\ totalReward = 0
    BY <1>1, <1>4 DEF ScoreInv, Untransferred
  <2>2. CASE stop
    <3>1. state' = "terminated" /\ ended'
      BY <1>1, <1>2, <2>2
    <3>2. built' = built /\ told' = told \cup outs
      BY <1>1 DEF EnvRespond
    <3>3. RespondReward(outs, stop) = Reward(built', told')
      BY <2>1, <2>2, <3>2 DEF RespondReward
    <3>4. /\ totalReward' \in {0, 1}
          /\ totalReward' = 1 <=> Matches(built', told')
      BY <1>1, <2>1, <3>3, RewardType
    <3> QED BY <1>2, <3>1, <3>4 DEF ScoreInv, Untransferred
  <2>3. CASE ~stop
    <3>1. data' = built' /\ ~ended' /\ totalReward' = 0
      BY <1>1, <1>2, <2>1, <2>3 DEF EnvRespond, AfterReward, RespondReward
    <3> QED BY <1>2, <3>1 DEF ScoreInv, Untransferred
  <2> QED BY <2>2, <2>3
<1> QED BY <1>3, <1>4

LEMMA NextScoreInv == ScoreInv /\ [RolloutNext]_rolloutVars => ScoreInv'
<1> SUFFICES ASSUME ScoreInv, [RolloutNext]_rolloutVars PROVE ScoreInv'
  OBVIOUS
<1>1. CASE Start
  BY <1>1, QuietStep DEF Start, Prepare, envVars, taskVars
<1>2. ASSUME NEW n \in GenLens, NEW found \in Batches, PolicyTurn(n, found)
      PROVE ScoreInv'
  BY <1>2, QuietStep DEF PolicyTurn, Generate, envVars
<1>3. CASE CallFails
  BY <1>3, QuietStep DEF CallFails, envVars
<1>4. CASE Execute
  BY <1>4, ExecuteStep
<1>5. ASSUME NEW n \in ObsLens, CloseBatch(n)
      PROVE ScoreInv'
  BY <1>5, QuietStep DEF CloseBatch, ProcessTools, envVars
<1>6. ASSUME NEW n \in ObsLens, Contaminated(n)
      PROVE ScoreInv'
  BY <1>6, QuietStep DEF Contaminated, Interact, envVars
<1>7. ASSUME NEW outs \in SUBSET Outputs, NEW n \in ObsLens, RespondFails(outs, n)
      PROVE ScoreInv'
  BY <1>7, QuietStep DEF RespondFails, Interact
<1>8. ASSUME NEW outs \in SUBSET Outputs, NEW stop \in BOOLEAN, NEW n \in ObsLens,
             Respond(outs, stop, n)
      PROVE ScoreInv'
  BY <1>8, RespondStep
<1>9. CASE UNCHANGED rolloutVars
  BY <1>9, QuietStep DEF rolloutVars, loopVars, envVars, taskVars
<1> QED BY <1>1, <1>2, <1>3, <1>4, <1>5, <1>6, <1>7, <1>8, <1>9 DEF RolloutNext

\* A trajectory that never transferred the customer is scored 1 exactly when the
\* customer ended it and the agent's own work is the goal.
THEOREM ScoredExactly == RolloutSpec => []ScoreExact
<1>1. ScoreInv => ScoreExact
  BY DEF ScoreInv, Untransferred, ScoreExact, Score
<1> QED BY <1>1, InitScoreInv, NextScoreInv, PTL DEF RolloutSpec

-------------------------------------------------------------------------------
(* Credit *)

\* Between batches nothing is earned that a record does not hold, and only the
\* customer's STOP, which ends the trajectory, parts credit and progress.
CreditInv ==
    /\ credit \in Int
    /\ state # "processing_tools" => credit = 0
    /\ CreditTelescopes

Rewards(recs) == [k \in DOMAIN recs |-> recs[k].reward]

LEMMA RewardsType ==
    ASSUME NEW recs \in Seq(Record)
    PROVE  /\ DOMAIN Rewards(recs) = 1..Len(recs) /\ IsFiniteSet(1..Len(recs))
           /\ \A k \in 1..Len(recs) : Rewards(recs)[k] \in Int
           /\ SumFunction(Rewards(recs)) \in Int
           /\ SumFunction(Rewards(recs)) = SumFunctionOnSet(Rewards(recs), 1..Len(recs))
<1>1. DOMAIN Rewards(recs) = 1..Len(recs) /\ Len(recs) \in Nat
  BY DEF Rewards
<1>2. IsFiniteSet(1..Len(recs))
  BY <1>1, FS_Interval
<1>3. ASSUME NEW k \in 1..Len(recs) PROVE Rewards(recs)[k] \in Int
  <2>1. recs[k] \in Record
    BY ElementOfSeq
  <2>2. recs[k].reward \in Int
    BY <2>1 DEF Record
  <2> QED BY <1>1, <2>2 DEF Rewards
<1>4. SumFunctionOnSet(Rewards(recs), 1..Len(recs)) \in Int
  BY <1>2, <1>3, SumType
<1> QED BY <1>1, <1>2, <1>3, <1>4 DEF SumFunction

\* A new record adds its reward to the sum.
LEMMA RewardsAppended ==
    ASSUME NEW recs \in Seq(Record), NEW rec \in Record
    PROVE  SumFunction(Rewards(Append(recs, rec))) = SumFunction(Rewards(recs)) + rec.reward
<1> DEFINE more == Append(recs, rec)
           n == Len(recs)
<1>1. /\ more \in Seq(Record) /\ Len(more) = n + 1 /\ n \in Nat
      /\ \A k \in 1..n : more[k] = recs[k]
      /\ more[n + 1] = rec
  BY AppendProperties
<1> HIDE DEF more
<1>2. DOMAIN more = 1..(n + 1) /\ DOMAIN recs = 1..n
  BY <1>1
<1>3. /\ 1..(n + 1) = (1..n) \cup {n + 1} /\ n + 1 \notin 1..n
      /\ n + 1 \in 1..(n + 1) /\ 1..n \subseteq 1..(n + 1)
  BY <1>1
<1>4. \A k \in 1..n : Rewards(recs)[k] = Rewards(more)[k]
  <2> SUFFICES ASSUME NEW k \in 1..n PROVE Rewards(recs)[k] = Rewards(more)[k]
    OBVIOUS
  <2>1. Rewards(recs)[k] = recs[k].reward
    BY <1>2 DEF Rewards
  <2>2. k \in DOMAIN more
    BY <1>2, <1>3
  <2>3. Rewards(more)[k] = more[k].reward
    BY <2>2 DEF Rewards
  <2> QED BY <1>1, <2>1, <2>3
<1>5. Rewards(more)[n + 1] = rec.reward
  <2>1. n + 1 \in DOMAIN more
    BY <1>2, <1>3
  <2> QED BY <1>1, <2>1 DEF Rewards
<1>6. /\ IsFiniteSet(1..n)
      /\ SumFunction(Rewards(recs)) = SumFunctionOnSet(Rewards(recs), 1..n)
      /\ SumFunction(Rewards(recs)) \in Int
  BY RewardsType
<1>7. /\ \A k \in 1..(n + 1) : Rewards(more)[k] \in Int
      /\ SumFunction(Rewards(more)) = SumFunctionOnSet(Rewards(more), 1..(n + 1))
  BY <1>1, RewardsType
<1> HIDE DEF n
<1>8. SumFunctionOnSet(Rewards(more), 1..(n + 1))
        = Rewards(more)[n + 1] + SumFunctionOnSet(Rewards(more), 1..n)
  BY <1>3, <1>6, <1>7, SumAdd
<1>9. SumFunctionOnSet(Rewards(more), 1..n) = SumFunctionOnSet(Rewards(recs), 1..n)
  BY <1>4, <1>6, SumSame
<1>10. rec.reward \in Int
  BY DEF Record
<1>11. SumFunction(Rewards(more)) = rec.reward + SumFunction(Rewards(recs))
  BY <1>5, <1>6, <1>7, <1>8, <1>9
<1>12. SumFunction(Rewards(more)) = SumFunction(Rewards(recs)) + rec.reward
  BY <1>6, <1>10, <1>11
<1> QED BY <1>12 DEF more

LEMMA EarnedIs == Earned = SumFunction(Rewards(records)) + credit
  BY DEF Earned, Rewards

LEMMA InitCreditInv == RolloutInit => CreditInv
<1> SUFFICES ASSUME RolloutInit PROVE CreditInv
  OBVIOUS
<1>1. records = <<>> /\ credit = 0 /\ data = {}
  BY DEF RolloutInit, Init, EnvInit
<1>2. DOMAIN Rewards(records) = {}
  BY <1>1 DEF Rewards
<1>3. SumFunction(Rewards(records)) = 0
  BY <1>2, SumOverNothing DEF SumFunction
<1>4. MatchedLeaves(data) = 0
  <2>1. data \cap GoalData = {}
    BY <1>1
  <2> QED BY <2>1, FS_EmptySet DEF MatchedLeaves
<1> QED BY <1>1, <1>3, <1>4, EarnedIs DEF CreditInv, CreditTelescopes

\* Handlers that keep records, credit and database.
LEMMA QuietCredit ==
    ASSUME CreditInv, UNCHANGED <<records, credit, data>>, state # "terminated",
           state = "processing_tools" => state' = "processing_tools"
    PROVE  CreditInv'
<1>1. Earned = MatchedLeaves(data) /\ Earned' = Earned
  BY DEF CreditInv, CreditTelescopes, Earned
<1> QED BY <1>1 DEF CreditInv, CreditTelescopes

LEMMA NextCreditInv == TypeOK /\ CreditInv /\ [RolloutNext]_rolloutVars => CreditInv'
<1> SUFFICES ASSUME TypeOK, CreditInv, [RolloutNext]_rolloutVars PROVE CreditInv'
  OBVIOUS
<1>0. TypeOK' /\ credit \in Int /\ (state # "terminated" => Earned = MatchedLeaves(data))
  <2>1. [Handler]_loopVars
    BY RolloutSteps DEF CreditInv, CreditType
  <2>2. TypeOK'
    BY <2>1, NextTypeOK
  <2> QED BY <2>2 DEF CreditInv, CreditTelescopes
<1>1. CASE Start
  BY <1>1, QuietCredit DEF Start, Prepare, envVars, taskVars
<1>2. ASSUME NEW n \in GenLens, NEW found \in Batches, PolicyTurn(n, found)
      PROVE  CreditInv'
  <2>1. /\ state = "generating" /\ credit' = 0 /\ credit = 0
        /\ UNCHANGED <<records, data>>
    BY <1>2 DEF PolicyTurn, Generate, envVars, CreditInv
  <2>2. Earned = MatchedLeaves(data) /\ Earned' = Earned
    BY <1>0, <2>1 DEF Earned
  <2> QED BY <2>1, <2>2 DEF CreditInv, CreditTelescopes
<1>3. CASE CallFails
  BY <1>3, QuietCredit DEF CallFails, loopVars, envVars
<1>4. CASE Execute
  <2>1. /\ state = "processing_tools" /\ state' = state /\ records' = records
        /\ credit' = credit + ProgressDelta(data, data')
    BY <1>4 DEF Execute, loopVars
  <2>2. MatchedLeaves(data) \in Int /\ MatchedLeaves(data') \in Int
    BY ProgressType
  <2>3. SumFunction(Rewards(records)) \in Int
    BY RewardsType DEF TypeOK
  <2>4. Earned = SumFunction(Rewards(records)) + credit
        /\ Earned' = SumFunction(Rewards(records)) + credit'
    BY <2>1 DEF Earned, Rewards
  <2>5. credit' = credit + (MatchedLeaves(data') - MatchedLeaves(data))
    BY <2>1 DEF ProgressDelta
  <2>6. Earned' = MatchedLeaves(data') /\ credit' \in Int
    BY <1>0, <2>1, <2>2, <2>3, <2>4, <2>5
  <2>7. Earned' = MatchedLeaves(data)'
    BY <2>6 DEF MatchedLeaves
  <2> QED BY <2>1, <2>6, <2>7 DEF CreditInv, CreditTelescopes
<1>5. ASSUME NEW n \in ObsLens, CloseBatch(n)
      PROVE  CreditInv'
  <2>1. /\ state = "processing_tools" /\ state' # "processing_tools"
        /\ records' = Append(records, StepRecord(credit))
        /\ credit' = 0 /\ data' = data
    BY <1>5 DEF CloseBatch, ProcessTools, envVars
  <2>2. StepRecord(credit) \in Record /\ StepRecord(credit).reward = credit
    BY <1>0, <2>1, RecordAppended DEF StepRecord
  <2>3. SumFunction(Rewards(records')) = SumFunction(Rewards(records)) + credit
    BY <2>1, <2>2, RewardsAppended DEF TypeOK
  <2>4. SumFunction(Rewards(records)) \in Int
    BY RewardsType DEF TypeOK
  <2>5. Earned = SumFunction(Rewards(records)) + credit
        /\ Earned' = SumFunction(Rewards(records')) + credit'
    BY DEF Earned, Rewards
  <2>6. Earned' = Earned
    BY <1>0, <2>1, <2>3, <2>4, <2>5
  <2>7. MatchedLeaves(data)' = MatchedLeaves(data)
    BY <2>1 DEF MatchedLeaves
  <2> QED BY <1>0, <2>1, <2>6, <2>7 DEF CreditInv, CreditTelescopes
<1>6. ASSUME NEW n \in ObsLens, Contaminated(n)
      PROVE  CreditInv'
  BY <1>6, QuietCredit DEF Contaminated, Interact, envVars
<1>7. ASSUME NEW outs \in SUBSET Outputs, NEW n \in ObsLens, RespondFails(outs, n)
      PROVE  CreditInv'
  BY <1>7, QuietCredit DEF RespondFails, Interact
<1>8. ASSUME NEW outs \in SUBSET Outputs, NEW stop \in BOOLEAN, NEW n \in ObsLens,
             Respond(outs, stop, n)
      PROVE  CreditInv'
  <2>1. /\ state = "interacting" /\ state' # "processing_tools"
        /\ UNCHANGED <<records, credit>>
        /\ stop => state' = "terminated"
        /\ EnvRespond(outs, stop)
    BY <1>8 DEF Respond, Interact
  <2>2. CASE stop
    <3>1. state' = "terminated" /\ ended'
      BY <2>1, <2>2 DEF EnvRespond
    <3> QED BY <2>1, <3>1 DEF CreditInv, CreditTelescopes
  <2>3. CASE ~stop
    <3>1. data' = data
      BY <2>1, <2>3 DEF EnvRespond, AfterReward
    <3> QED BY <2>1, <3>1, QuietCredit
  <2> QED BY <2>2, <2>3
<1>9. CASE UNCHANGED rolloutVars
  BY <1>9 DEF rolloutVars, loopVars, envVars, taskVars, CreditInv, CreditTelescopes, Earned, MatchedLeaves
<1> QED BY <1>1, <1>2, <1>3, <1>4, <1>5, <1>6, <1>7, <1>8, <1>9 DEF RolloutNext

\* Step credit adds up to progress in every trajectory of every task, whatever
\* the calls, the batches and the lengths.
THEOREM CreditAddsUp == RolloutSpec => []CreditTelescopes
<1>1. CreditInv => CreditTelescopes
  BY DEF CreditInv
<1> QED BY <1>1, LoopTypes, InitCreditInv, NextCreditInv, PTL DEF RolloutSpec

===============================================================================
