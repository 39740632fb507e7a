------------------------------ MODULE MCCollectSft -----------------------------
(***************************************************************************)
(* Two tasks, both, in either order, or the second alone.  Starts also     *)
(* differ in whether the first of the list is held out: when it is not,    *)
(* both files are merged into train.jsonl, and a torn one runs on into the *)
(* file after it.                                                          *)
(***************************************************************************)
EXTENDS CollectSft

MCRanges == {<<1, 2>>, <<2, 1>>, <<2>>}
===============================================================================
