----------------------------- MODULE MCEvalWrapper ----------------------------
(***************************************************************************)
(* An order to be cancelled and a wrong write, whichever comes first       *)
(* closing the order, and an output to be told.  A read and a write name   *)
(* what is not in the data, and the transfer is called without arguments:  *)
(* these fail from the start.                                              *)
(***************************************************************************)
EXTENDS EvalWrapper

CONSTANTS cancel, exchange, unknownWrite, read, unknownRead, transfer

MCWrites == {cancel, exchange, unknownWrite}
MCReads == {read, unknownRead}
MCRefusals == [d \in SUBSET MCWrites |->
    {unknownWrite, unknownRead, transfer} \cup IF d = {} THEN {} ELSE MCWrites]
MCOverwrites == [w \in MCWrites |-> {}]
MCGoalActions == <<read, cancel>>
===============================================================================
