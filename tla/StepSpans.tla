------------------------------- MODULE StepSpans ------------------------------
(***************************************************************************)
(* The token spans that step credit is attached to: what the helper that   *)
(* builds a record demands of a span, and what the advantage estimator     *)
(* that consumes the records demands of them and of the loss mask.         *)
(* Token positions count from 0, as in the code; a mask is a sequence, so  *)
(* the mark of token k is mask[k + 1].                                     *)
(***************************************************************************)
EXTENDS Integers, Sequences

Spans == [start : Nat, end : Nat]

\* build_tool_step_record raises a ValueError otherwise.
Builds(span, tools) == span.start >= 0 /\ span.end > span.start /\ tools > 0

InBounds(rec, length) == rec.start >= 0 /\ rec.end > rec.start /\ rec.end <= length

\* Beyond its end a mask is padded with 0.
Trained(rec, mask) ==
    \A k \in (rec.start + 1)..rec.end : k \in 1..Len(mask) /\ mask[k] = 1

Disjoint(r, s) == r.end <= s.start \/ s.end <= r.start

\* compute_grpo_cs_advantage raises a ValueError otherwise, which ends training.
Accepted(recs, mask, length) ==
    /\ \A i \in 1..Len(recs) : InBounds(recs[i], length) /\ Trained(recs[i], mask)
    /\ \A i, j \in 1..Len(recs) : i # j => Disjoint(recs[i], recs[j])
===============================================================================
