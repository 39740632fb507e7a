--------------------------------- MODULE PassK --------------------------------
(***************************************************************************)
(* pass_at_k of run_eval: the estimate of the report from n trajectories   *)
(* of a task of which c succeeded.  A value between 0 and 1 is a fraction  *)
(* <<numerator, denominator>>, compared by cross-multiplication; the code  *)
(* computes in floats.                                                     *)
(***************************************************************************)
EXTENDS Integers, FiniteSets, FiniteSetsExt

SameFraction(x, y) == x[1] * y[2] = y[1] * x[2]

\* Mutant: one sample is missing in the product.
PassAtKShort(n, c, k) ==
    IF n - c < k THEN <<1, 1>>
    ELSE LET drawn == (n - c + 2)..n
             all == ProductSet(drawn)
         IN <<all - ProductSet({i - k : i \in drawn}), all>>
\* 1 - prod (1 - k / i) for i from n - c + 1 to n.
PassAtK(n, c, k) ==
    IF n - c < k THEN <<1, 1>>
    ELSE LET drawn == (n - c + 1)..n
             all == ProductSet(drawn)
         IN <<all - ProductSet({i - k : i \in drawn}), all>>

===============================================================================
