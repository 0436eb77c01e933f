----------------------------- MODULE MCDispatch -----------------------------
(***************************************************************************)
(* Small instances of Dispatch for TLC.                                    *)
(***************************************************************************)
EXTENDS Dispatch

\* What the relay sends (static/index.html:191), its reset, and a degraded
\* region that does not inflate (POST /api/scenarios can ask for it).
MCDegrs ==
  {Healthy, [suspend |-> TRUE, inflate |-> TRUE], [suspend |-> TRUE, inflate |-> FALSE]}

OrderSymmetry == Permutations(Orders)
=============================================================================
