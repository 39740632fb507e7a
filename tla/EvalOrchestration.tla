--------------------------- MODULE EvalOrchestration --------------------------
(***************************************************************************)
(* run_retail_confirmatory_eval.sh, invoked for one candidate after the    *)
(* other by a matrix script or by hand: it claims a directory, starts a    *)
(* vLLM server for the candidate's weights on the one policy port and GPU, *)
(* evaluates over that port, gates the two reports and marks the directory *)
(* COMPLETED.  A server lives in a session of its own: it loads weights    *)
(* before it listens, and lets port and memory go some time after it was   *)
(* killed.  Every server presents itself under the same model name.        *)
(* A script may be killed, or be sent SIGTERM, which it survives: its trap *)
(* kills the server and returns.                                           *)
(***************************************************************************)
EXTENDS Integers, FiniteSets

CONSTANTS
    N,                 \* number of invocations, in the order they are asked for
    CandidateOf,       \* invocation -> candidate: the run directory
    Follows,           \* invocation -> "success" or "end" of the one before, or "nothing"
    MaxFaults          \* "kill", "term", "death", "raise" -> bound on their number

Invocations == 1..N
Candidates == {CandidateOf[i] : i \in Invocations}
Splits == {"seen", "unseen_dev"}
Faults == {"kill", "term", "death", "raise"}

ASSUME OrchestrationAssumptions ==
    /\ N \in Nat
    /\ Follows \in [Invocations -> {"success", "end", "nothing"}]
    /\ DOMAIN CandidateOf = Invocations
    /\ MaxFaults \in [Faults -> Nat]
    \* One after the other: what two scripts at a time would do is not modelled.
    /\ \A i \in Invocations : Follows[i] = "nothing" <=> i = 1

VARIABLES
    pc,                \* invocation -> where its script is
    server,            \* invocation -> the server it started
    made,              \* candidates whose directory exists
    reports,           \* candidate -> split -> those whose weights answered in it
    gated,             \* candidates with a gate_result.json that says passed
    completed,         \* candidates with COMPLETED in their directory
    faults             \* how many of each kind have happened

disk == <<made, reports, gated, completed>>
orchVars == <<pc, server, disk, faults>>

Alive == {"starting", "loading", "listening"}
HoldsMemory == {"loading", "listening", "closing", "unloading"}
HoldsPort == {"listening", "closing"}
Ended == {"completed", "refused", "failed", "killed", "given_up"}
Trapped == {"serve", "poll", "seen", "unseen_dev", "gate", "cleanup"}
Running == {"dir", "port", "gpu"} \cup Trapped

PortTaken == \E i \in Invocations : server[i] \in HoldsPort
MemoryTaken == \E i \in Invocations : server[i] \in HoldsMemory

ScriptsInit ==
    /\ pc = [i \in Invocations |-> "ready"] /\ server = [i \in Invocations |-> "none"]
    /\ made = {} /\ gated = {} /\ completed = {}
    /\ reports = [c \in Candidates |-> [s \in Splits |-> {}]]
    /\ faults = [kind \in Faults |-> 0]

Goto(i, label) == pc' = [pc EXCEPT ![i] = label]
Fault(kind) == faults[kind] < MaxFaults[kind] /\ faults' = [faults EXCEPT ![kind] = @ + 1]

-------------------------------------------------------------------------------
(* Who starts an invocation *)

\* Mutant: the next candidate does not wait for port and GPU.
MayStartAtOnce(i) ==
    CASE Follows[i] = "nothing" -> TRUE
      [] Follows[i] = "success" -> pc[i - 1] = "completed"
      [] Follows[i] = "end" -> pc[i - 1] \in Ended
\* The matrix of 72b_user goes on after a success, once port and GPU are free; a
\* person starts a script when they like.
MayStart(i) ==
    CASE Follows[i] = "nothing" -> TRUE
      [] Follows[i] = "success" -> pc[i - 1] = "completed" /\ ~PortTaken /\ ~MemoryTaken
      [] Follows[i] = "end" -> pc[i - 1] \in Ended

Start(i) ==
    /\ pc[i] = "ready" /\ MayStart(i) /\ Goto(i, "dir")
    /\ UNCHANGED <<server, disk, faults>>

\* The 180 tries of the matrix are over, or its script failed (set -e).
GiveUp(i) ==
    /\ pc[i] = "ready" /\ Follows[i] = "success"
    /\ \/ pc[i - 1] \in Ended \ {"completed"}
       \/ pc[i - 1] = "completed" /\ (PortTaken \/ MemoryTaken)
    /\ Goto(i, "given_up")
    /\ UNCHANGED <<server, disk, faults>>

-------------------------------------------------------------------------------
(* The script *)

CheckDir(i) ==
    /\ pc[i] = "dir"
    /\ Goto(i, IF CandidateOf[i] \in made THEN "refused" ELSE "port")
    /\ UNCHANGED <<server, disk, faults>>

\* With the port free, the simulator of the customer has to answer too.
CheckPort(i) ==
    /\ pc[i] = "port"
    /\ \/ PortTaken /\ Goto(i, "refused")
       \/ ~PortTaken /\ Goto(i, "gpu")
       \/ ~PortTaken /\ Goto(i, "failed")
    /\ UNCHANGED <<server, disk, faults>>

\* The memory is free, and mkdir -p makes the directory or finds it.  It may
\* fail, and so may the commands after it, under set -e and without a trap.
CheckGpu(i) ==
    /\ pc[i] = "gpu"
    /\ \/ MemoryTaken /\ Goto(i, "refused") /\ UNCHANGED made
       \/ ~MemoryTaken /\ Goto(i, "serve")
          /\ made' = made \cup {CandidateOf[i]}
       \/ ~MemoryTaken /\ Goto(i, "failed")
          /\ made' \in {made, made \cup {CandidateOf[i]}}
    /\ UNCHANGED <<server, reports, gated, completed, faults>>

StartServer(i) ==
    /\ pc[i] = "serve" /\ Goto(i, "poll") /\ server' = [server EXCEPT ![i] = "starting"]
    /\ UNCHANGED <<disk, faults>>

\* kill of the session, if its leader lives; wait returns with the leader.
KilledServer(i) ==
    CASE server[i] = "starting" -> [server EXCEPT ![i] = "gone"]
      [] server[i] = "loading" -> [server EXCEPT ![i] = "unloading"]
      [] server[i] = "listening" -> [server EXCEPT ![i] = "closing"]
      [] OTHER -> server

\* Whoever answers on the port makes the script go on.
PollReady(i) ==
    /\ pc[i] = "poll" /\ PortTaken /\ Goto(i, "seen")
    /\ UNCHANGED <<server, disk, faults>>

\* Mutant: the trap is not set, so that a server given up still comes up.
PollFailsUntrapped(i) ==
    /\ pc[i] = "poll" /\ ~PortTaken /\ Goto(i, "failed")
    /\ UNCHANGED <<server, disk, faults>>
\* Mutant: the loop has no last try.
PollFailsDead(i) ==
    /\ pc[i] = "poll" /\ ~PortTaken /\ server[i] \notin Alive /\ Goto(i, "failed")
    /\ server' = KilledServer(i)
    /\ UNCHANGED <<disk, faults>>
\* The own server is dead, or the last try is over; the trap cleans up.
PollFails(i) ==
    /\ pc[i] = "poll" /\ ~PortTaken /\ Goto(i, "failed")
    /\ server' = KilledServer(i)
    /\ UNCHANGED <<disk, faults>>

Answering == {CandidateOf[i] : i \in {j \in Invocations : server[j] \in HoldsPort}}

\* eval_sft.py sends its requests to the port, whoever listens there.  A request
\* that nobody answers is an error of its trajectory, and no more.
Request(i, split) ==
    /\ pc[i] = split
    /\ reports' = [reports EXCEPT ![CandidateOf[i]][split] = @ \cup Answering]
    /\ UNCHANGED <<pc, server, made, gated, completed, faults>>

\* It ends with all its requests made: without answers, nobody listened.
EndEvaluation(i, split, next) ==
    /\ pc[i] = split /\ (reports[CandidateOf[i]][split] # {} \/ Answering = {})
    /\ Goto(i, next)
    /\ UNCHANGED <<server, disk, faults>>

\* An exception that eval_sft.py does not catch, under set -e and pipefail.
EvaluationRaises(i) ==
    /\ pc[i] \in Splits /\ Goto(i, "failed") /\ server' = KilledServer(i)
    /\ Fault("raise") /\ UNCHANGED disk

\* check_retail_confirmatory_eval.py refuses a second result, and reports of
\* another task suite; the errors of the trajectories it only counts.
CheckResult(i) ==
    /\ pc[i] = "gate"
    /\ IF CandidateOf[i] \in gated
       THEN Goto(i, "failed") /\ server' = KilledServer(i) /\ UNCHANGED gated
       ELSE /\ Goto(i, "cleanup") /\ gated' = gated \cup {CandidateOf[i]}
            /\ UNCHANGED server
    /\ UNCHANGED <<made, reports, completed, faults>>

\* Mutant: the server is left to the exit trap, which no longer knows its pid.
CompleteOnly(i) ==
    /\ pc[i] = "cleanup" /\ Goto(i, "completed")
    /\ completed' = completed \cup {CandidateOf[i]}
    /\ UNCHANGED <<server, made, reports, gated, faults>>
CleanupAndComplete(i) ==
    /\ pc[i] = "cleanup" /\ Goto(i, "completed")
    /\ server' = KilledServer(i)
    /\ completed' = completed \cup {CandidateOf[i]}
    /\ UNCHANGED <<made, reports, gated, faults>>

\* SIGKILL runs no trap: the server outlives its script.
Kill(i) ==
    /\ pc[i] \in Running /\ Goto(i, "killed")
    /\ Fault("kill") /\ UNCHANGED <<server, disk>>

\* SIGTERM ends a script that has no trap yet; the trap kills the server after
\* the running command and goes on with the next one.
Terminate(i) ==
    /\ \/ pc[i] \in Running \ Trapped /\ Goto(i, "failed") /\ UNCHANGED server
       \/ pc[i] \in Trapped /\ server' = KilledServer(i) /\ UNCHANGED pc
    /\ Fault("term") /\ UNCHANGED disk

-------------------------------------------------------------------------------
(* The servers *)

\* vLLM refuses to start without the memory it was promised.
Load(i) ==
    /\ server[i] = "starting"
    /\ server' = [server EXCEPT ![i] = IF MemoryTaken THEN "gone" ELSE "loading"]
    /\ UNCHANGED <<pc, disk, faults>>

Listen(i) ==
    /\ server[i] = "loading" /\ server' = [server EXCEPT ![i] = "listening"]
    /\ UNCHANGED <<pc, disk, faults>>

Release(i) ==
    /\ server[i] \in {"closing", "unloading"}
    /\ server' = [server EXCEPT ![i] = IF @ = "closing" THEN "unloading" ELSE "gone"]
    /\ UNCHANGED <<pc, disk, faults>>

Die(i) ==
    /\ server[i] \in Alive /\ server' = [server EXCEPT ![i] = "gone"]
    /\ Fault("death") /\ UNCHANGED <<pc, disk>>

-------------------------------------------------------------------------------
Step(i) ==
    \/ CheckDir(i) \/ CheckPort(i) \/ CheckGpu(i) \/ StartServer(i)
    \/ PollReady(i) \/ PollFails(i)
    \/ Request(i, "seen") \/ EndEvaluation(i, "seen", "unseen_dev")
    \/ Request(i, "unseen_dev") \/ EndEvaluation(i, "unseen_dev", "gate")
    \/ CheckResult(i) \/ CleanupAndComplete(i)

ScriptsNext ==
    \E i \in Invocations :
        \/ Start(i) \/ GiveUp(i) \/ Step(i)
        \/ EvaluationRaises(i) \/ Kill(i) \/ Terminate(i)
        \/ Load(i) \/ Listen(i) \/ Release(i) \/ Die(i)

ScriptsSpec == ScriptsInit /\ [][ScriptsNext]_orchVars

\* A script goes on by itself: its waits are bounded (120 tries; an evaluation
\* ends, see Ends of PolicyEval).  A server need not come up or go down.
ScriptsFairness == \A i \in Invocations : WF_orchVars(Step(i))

FairScriptsSpec == ScriptsSpec /\ ScriptsFairness

-------------------------------------------------------------------------------
(* Properties *)

\* Unless a script was killed by SIGKILL, reports in a directory marked COMPLETED
\* were answered by the weights of the candidate they are filed under and by no
\* others, although every server has the same name and readiness asks only for an
\* answer: servers come up late, die, and are still closing when the next starts.
CompletedIsGenuine ==
    faults["kill"] = 0 =>
        \A c \in completed : \A s \in Splits : reports[c][s] \subseteq {c}

\* A candidate of the matrix is never refused because the server of the one
\* before still holds the port or the GPU: it had its directory already, or a
\* script killed earlier left a server.
NeverRefusedByPredecessor ==
    \A i \in Invocations : Follows[i] = "success" /\ pc[i] = "refused" =>
        \E j \in 1..(i - 1) : pc[j] = "killed" \/ CandidateOf[j] = CandidateOf[i]

\* A script that ends, however, leaves no server behind; only SIGKILL does.
NoServerLeft ==
    \A i \in Invocations : pc[i] \in Ended \ {"killed"} => server[i] \notin Alive

\* Every invocation ends, also when its server never comes up.
InvocationsEnd == \A i \in Invocations : pc[i] = "dir" ~> pc[i] \in Ended

===============================================================================
