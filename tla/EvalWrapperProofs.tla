--------------------------- MODULE EvalWrapperProofs --------------------------
(***************************************************************************)
(* The evaluation wrapper implements Episode, its audit adds up and an     *)
(* error is never a success, for every task and every value of the limits. *)
(***************************************************************************)
EXTENDS EvalWrapper, TLAPS

\* The types the arguments below need.
Kinds ==
    /\ told \subseteq Outputs
    /\ ended \in BOOLEAN /\ failed \in BOOLEAN
    /\ pc \in {"policy", "tools", "returned"}
    /\ total \in Nat

\* What the loop knows of the environment: as long as it goes on nobody has
\* judged the work, so Env.data is what the agent made of it.
Unjudged ==
    /\ ~ended => data = built /\ total = 0
    /\ ended => pc = "returned" /\ ~failed
    /\ pc # "returned" => ~failed

WInv == Kinds /\ Unjudged

\* The counters of the audit.
Counters ==
    /\ errors \in Nat /\ pending \in Nat /\ recovered \in Nat
    /\ highRisk \in Nat /\ riskErrors \in Nat /\ violating \in Nat

AInv == Counters /\ AuditConsistent

-------------------------------------------------------------------------------
(* The operators of the task and of the environment.                       *)

\* The environment has judged the work exactly when the step is the last one.
LEMMA RewardType == \A d, t : Reward(d, t) \in {0, 1} /\ (Reward(d, t) = 1 <=> Matches(d, t))
BY DEF Reward

\* A tool step that is not the last gives nothing and works on the data.
LEMMA ToolStep ==
    ASSUME NEW call \in EnvCalls, EnvStep(call), data = built
    PROVE /\ built' = Invoke(built, call) /\ told' = told
          /\ ended' = (ended \/ call = Transfer)
          /\ call # Transfer => data' = built' /\ StepReward(call) = 0
          /\ call = Transfer => StepReward(call) = Reward(built, told)
BY DEF EnvStep, AfterReward, StepDone, StepReward

LEMMA AnswerStep ==
    ASSUME NEW outs \in SUBSET Outputs, NEW stop \in BOOLEAN,
           EnvRespond(outs, stop), data = built
    PROVE /\ built' = built /\ told' = told \cup outs
          /\ ended' = (ended \/ stop)
          /\ ~stop => data' = built' /\ RespondReward(outs, stop) = 0
          /\ stop => RespondReward(outs, stop) = Reward(built, told')
BY DEF EnvRespond, AfterReward, RespondReward

-------------------------------------------------------------------------------
(* Nobody judges the work before the loop is left.                         *)

LEMMA InitWInv == Init => WInv
<1> SUFFICES ASSUME Init PROVE WInv
  OBVIOUS
<1>1. data = {} /\ told = {} /\ built = {} /\ ended = FALSE /\ failed = FALSE /\ total = 0
  BY DEF Init, EnvInit
<1>2. pc \in {"policy", "tools", "returned"}
  BY DEF Init
<1> QED BY <1>1, <1>2 DEF WInv, Kinds, Unjudged

LEMMA StepWInv == WInv /\ [Next]_wrapperVars => WInv'
<1> SUFFICES ASSUME WInv, [Next]_wrapperVars PROVE WInv'
  OBVIOUS
<1> USE DEF WInv, Kinds, Unjudged
<1>1. CASE PolicyFails
  BY <1>1 DEF PolicyFails, Abort, envVars
<1>2. ASSUME NEW message \in Messages, NEW truncated \in BOOLEAN, AskTools(message, truncated)
      PROVE WInv'
  BY <1>2 DEF AskTools, Abort, envVars
<1>3. CASE CallFails
  BY <1>3 DEF CallFails, Abort, envVars
<1>4. ASSUME NEW violates \in BOOLEAN, RunTool(violates)
      PROVE WInv'
  <2> DEFINE call == Head(batch)
  <2>1. pc = "tools" /\ ~ended /\ data = built /\ total = 0 /\ ~failed /\ failed' = failed
    BY <1>4 DEF RunTool
  <2>2. call \in EnvCalls /\ EnvStep(call) /\ total' = total + StepReward(call)
    BY <1>4 DEF RunTool
  <2>3. /\ told' = told /\ ended' = (call = Transfer)
        /\ call # Transfer => data' = built' /\ total' = 0
        /\ total' \in Nat
    BY <2>1, <2>2, ToolStep, RewardType
  <2>4. pc' \in {"policy", "tools", "returned"} /\ (call = Transfer => pc' = "returned")
    BY <1>4, <2>1 DEF RunTool, EndTurn, StepDone, RestOf
  <2> QED BY <2>1, <2>3, <2>4
<1>5. ASSUME NEW outs \in SUBSET Outputs, NEW stop \in BOOLEAN, NEW truncated \in BOOLEAN,
             Respond(outs, stop, truncated)
      PROVE WInv'
  <2>1. /\ pc = "policy" /\ ~ended /\ data = built /\ total = 0 /\ ~failed /\ failed' = failed
        /\ EnvRespond(outs, stop) /\ total' = total + RespondReward(outs, stop)
    BY <1>5 DEF Respond
  <2>2. /\ told' = told \cup outs /\ ended' = stop
        /\ ~stop => data' = built' /\ total' = 0
        /\ total' \in Nat
    BY <2>1, AnswerStep, RewardType
  <2>3. pc' \in {"policy", "returned"} /\ (stop => pc' = "returned")
    BY <1>5 DEF Respond, EndTurn
  <2> QED BY <2>1, <2>2, <2>3
<1>6. ASSUME NEW outs \in SUBSET Outputs, NEW truncated \in BOOLEAN,
             RespondFails(outs, truncated)
      PROVE WInv'
  BY <1>6 DEF RespondFails, Abort
<1>7. CASE UNCHANGED wrapperVars
  BY <1>7 DEF wrapperVars, envVars, run
<1> QED BY <1>1, <1>2, <1>3, <1>4, <1>5, <1>6, <1>7 DEF Next

\* A trajectory that reports an error of the policy, of a call or of the
\* customer's simulator, or a loop, is never counted as a success.
THEOREM ErrorsAreFailures == Spec => []ErrorIsNoSuccess
<1>1. WInv => ErrorIsNoSuccess
  BY DEF WInv, Unjudged, Kinds, ErrorIsNoSuccess, Success
<1> QED BY <1>1, InitWInv, StepWInv, PTL DEF Spec

-------------------------------------------------------------------------------
(* The wrapper implements Episode.                                         *)

LEMMA InitEpisode == Init => Promised!Init
BY DEF Init, EnvInit, Promised!Init, Judged

LEMMA StepEpisode ==
    WInv /\ WInv' /\ [Next]_wrapperVars => [Promised!Next]_<<built, told, Judged>>
<1> SUFFICES ASSUME WInv, WInv', [Next]_wrapperVars
             PROVE [Promised!Next]_<<built, told, Judged>>
  OBVIOUS
<1> USE DEF WInv, Kinds, Unjudged
<1>1. ASSUME UNCHANGED envVars, total' = total PROVE UNCHANGED <<built, told, Judged>>
  BY <1>1 DEF envVars, Judged, Success
<1>2. ASSUME NEW violates \in BOOLEAN, RunTool(violates)
      PROVE Promised!Next
  <2> DEFINE call == Head(batch)
  <2>1. ~ended /\ data = built /\ total = 0
    BY <1>2 DEF RunTool
  <2>2. call \in EnvCalls /\ EnvStep(call) /\ total' = total + StepReward(call)
    BY <1>2 DEF RunTool
  <2>3. /\ built' = Invoke(built, call) /\ told' = told /\ ended' = (call = Transfer)
        /\ call = Transfer => total' = Reward(built, told)
    BY <2>1, <2>2, ToolStep, RewardType
  <2>4. Judged = "open"
    BY <2>1 DEF Judged
  <2>5. Judged' = IF call = Transfer THEN Promised!Verdict(built, told) ELSE "open"
    <3>1. CASE call = Transfer
      <4>1. ended' /\ total' = Reward(built, told)
        BY <2>3, <3>1
      <4>2. total' >= 1 <=> Matches(built, told)
        BY <4>1, RewardType
      <4> QED BY <3>1, <4>1, <4>2 DEF Judged, Success, Promised!Verdict
    <3>2. CASE call # Transfer
      BY <2>3, <3>2 DEF Judged
    <3> QED BY <3>1, <3>2
  <2> QED BY <2>2, <2>3, <2>4, <2>5 DEF Promised!Next, Promised!Call
<1>3. ASSUME NEW outs \in SUBSET Outputs, NEW stop \in BOOLEAN, NEW truncated \in BOOLEAN,
             Respond(outs, stop, truncated)
      PROVE Promised!Next
  <2>1. /\ ~ended /\ data = built /\ total = 0
        /\ EnvRespond(outs, stop) /\ total' = total + RespondReward(outs, stop)
    BY <1>3 DEF Respond
  <2>2. /\ built' = built /\ told' = told \cup outs /\ ended' = stop
        /\ stop => total' = Reward(built, told')
    BY <2>1, AnswerStep, RewardType
  <2>3. Judged = "open" /\ Judged' \in {"open", Promised!Verdict(built, told')}
    BY <2>1, <2>2, RewardType DEF Judged, Success, Promised!Verdict
  <2> QED BY <2>2, <2>3 DEF Promised!Next, Promised!Answer
<1>4. ASSUME NEW outs \in SUBSET Outputs, NEW truncated \in BOOLEAN,
             RespondFails(outs, truncated)
      PROVE Promised!Next
  BY <1>4 DEF RespondFails, Promised!Next, Promised!Answer, Judged
<1>5. CASE PolicyFails
  BY <1>1, <1>5 DEF PolicyFails
<1>6. ASSUME NEW message \in Messages, NEW truncated \in BOOLEAN, AskTools(message, truncated)
      PROVE UNCHANGED <<built, told, Judged>>
  BY <1>1, <1>6 DEF AskTools
<1>7. CASE CallFails
  BY <1>1, <1>7 DEF CallFails
<1>8. CASE UNCHANGED wrapperVars
  BY <1>1, <1>8 DEF wrapperVars, run
<1> QED BY <1>2, <1>3, <1>4, <1>5, <1>6, <1>7, <1>8 DEF Next

\* An evaluated trajectory is an episode: once the environment has judged the
\* agent's own work the wrapper touches neither the data nor the verdict.
THEOREM ImplementsEpisode == Spec => EpisodeSpec
<1>1. Spec => []WInv
  BY InitWInv, StepWInv, PTL DEF Spec
<1> QED BY <1>1, InitEpisode, StepEpisode, PTL DEF Spec, EpisodeSpec, Promised!EpisodeSpec

-------------------------------------------------------------------------------
(* The audit.                                                              *)

LEMMA InitAInv == Init => AInv
BY DEF Init, AInv, Counters, AuditConsistent

LEMMA StepAInv == AInv /\ [Next]_wrapperVars => AInv'
<1> SUFFICES ASSUME AInv, [Next]_wrapperVars PROVE AInv'
  OBVIOUS
<1> USE DEF AInv, Counters, AuditConsistent
<1>1. ASSUME UNCHANGED audit PROVE AInv'
  BY <1>1 DEF audit
<1>2. CASE CallFails
  BY <1>2 DEF CallFails
<1>3. ASSUME NEW violates \in BOOLEAN, RunTool(violates)
      PROVE AInv'
  <2> DEFINE call == Head(batch)
  <2>1. CountErrors(call) /\ CountRisk(call, violates)
    BY <1>3 DEF RunTool
  <2>2. errors' = recovered' + pending' /\ errors' >= errors
        /\ errors' \in Nat /\ pending' \in Nat /\ recovered' \in Nat
    BY <2>1 DEF CountErrors
  <2>3. highRisk' \in Nat /\ riskErrors' \in Nat /\ violating' \in Nat
        /\ violating' <= highRisk' /\ riskErrors' <= highRisk'
    BY <2>1 DEF CountRisk
  <2>4. riskErrors' <= errors'
    BY <2>1 DEF CountErrors, CountRisk
  <2> QED BY <2>2, <2>3, <2>4
<1> QED BY <1>1, <1>2, <1>3
        DEF Next, PolicyFails, AskTools, Respond, RespondFails, wrapperVars

\* Every tool error is recovered or pending, and the parts of the audit's rates
\* never exceed their wholes, whatever ends the trajectory.
THEOREM AuditAddsUp == Spec => []AuditConsistent
<1>1. AInv => AuditConsistent
  BY DEF AInv
<1> QED BY <1>1, InitAInv, StepAInv, PTL DEF Spec
===============================================================================
