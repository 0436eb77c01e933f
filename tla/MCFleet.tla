------------------------------ MODULE MCFleet ------------------------------
(***************************************************************************)
(* Small instances of Fleet for TLC.                                       *)
(***************************************************************************)
EXTENDS Fleet

\* A degradation changes when a region answers and whether it hands over.
\* Both are free here, so MaxFlips is 0 and Dispatch checks the flips.
MCDegrs == {[suspend |-> TRUE, inflate |-> TRUE]}

Plain == [timeout |-> FALSE, slow |-> FALSE, fail |-> FALSE, track |-> TRUE]

MCInputs ==
  {Plain,
   [Plain EXCEPT !.timeout = TRUE],
   [Plain EXCEPT !.slow = TRUE],
   [Plain EXCEPT !.fail = TRUE]}

=============================================================================
