------------------------------- MODULE MCRollout ------------------------------
(***************************************************************************)
(* An order that is to get a new address and then be cancelled: a second   *)
(* address replaces the first, and a cancelled order refuses all three     *)
(* writes.  Doing it in the wrong order, or to the wrong address, fails.   *)
(* Generations of two tokens cross the end of the response, and no limit   *)
(* on turns is set, so that only that end stops a policy.                  *)
(***************************************************************************)
EXTENDS Rollout

CONSTANTS addressA, addressB, cancel, transfer, malformed, refund

MCWrites == {addressA, addressB, cancel}
MCCalls == MCWrites \cup {transfer, malformed}
MCRefusals == [d \in SUBSET MCWrites |-> IF cancel \in d THEN MCWrites ELSE {}]
MCOverwrites == [w \in MCWrites |-> CASE w = addressA -> {addressB}
                                      [] w = addressB -> {addressA}
                                      [] w = cancel -> {}]
MCGoalActions == <<addressA, cancel, addressB>>
MCLens == {2}
MCObs == 1..2
===============================================================================
