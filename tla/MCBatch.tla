------------------------------- MODULE MCBatch -------------------------------
(***************************************************************************)
(* Bounds for Batch: two batches at a time; a storm larger than the three  *)
(* winners, with ties among its scores; a healthy size within and one      *)
(* beyond NORMAL_MAX_CHILDREN; null and negative numbers; both scenarios.  *)
(***************************************************************************)
EXTENDS Batch

Off == [storm |-> FALSE, bloat |-> FALSE, children |-> 4, iterations |-> 2]
Storm(n) == [Off EXCEPT !.storm = TRUE, !.children = n]
Bloat(n) == [Off EXCEPT !.bloat = TRUE, !.iterations = n]

UiSettings ==
  {Off, Storm(4), Storm(Null), Storm(-1), Bloat(2),
   [Storm(4) EXCEPT !.bloat = TRUE]}

SomeSizes == {1, 3}
Scores == [i \in 0 .. 3 |-> IF i = 1 THEN 1 ELSE 2]
=============================================================================
