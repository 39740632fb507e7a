------------------------------- MODULE MCGrpoCs -------------------------------
(***************************************************************************)
(* Three rows of up to three tokens and every order of them.  Trajectories *)
(* cover both scores, no step, one and two steps, steps of two lengths,    *)
(* and every reason to refuse a record.                                    *)
(***************************************************************************)
EXTENDS GrpoCs

Rec(a, b, r) == [start |-> a, end |-> b, finite |-> TRUE, reward |-> r]
Full == <<1, 1, 1>>
Turns == <<1, 0, 1>>

MCTrajectories ==
    LET t(score, tokens, mask, recs) ==
            [score |-> score, tokens |-> tokens, mask |-> mask, recs |-> recs]
    IN { t(1, 0, <<0, 0, 0>>, <<>>),
         t(0, 3, Full, <<Rec(0, 1, 2)>>),
         t(1, 3, Turns, <<Rec(0, 1, 1), Rec(2, 3, -1)>>),
         t(0, 3, Turns, <<Rec(0, 1, 0), Rec(2, 3, 1)>>),
         t(1, 2, <<1, 1, 0>>, <<Rec(0, 2, 1)>>) }
MCRefused ==
    LET t(mask, recs) == [score |-> 1, tokens |-> 3, mask |-> mask, recs |-> recs]
    IN { t(Full, <<Rec(0, 2, 1), Rec(1, 3, 1)>>),
         t(Full, <<Rec(0, 3, 1), Rec(1, 2, 1)>>),
         t(Full, <<Rec(1, 2, 1), Rec(0, 3, 1)>>),
         t(Turns, <<Rec(0, 1, 1), Rec(1, 3, 1)>>),
         t(Full, <<Rec(2, 4, 1)>>), t(Full, <<Rec(1, 1, 1)>>), t(Full, <<Rec(-1, 1, 1)>>),
         t(Full, <<Rec(0, 1, 1), [Rec(1, 2, 1) EXCEPT !.finite = FALSE]>>) }
MCAll == MCTrajectories \cup MCRefused
===============================================================================
