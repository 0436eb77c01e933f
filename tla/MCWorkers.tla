------------------------------ MODULE MCWorkers ------------------------------
(***************************************************************************)
(* Bounds for Workers: two queues, and one process more than there are     *)
(* queues, so that a second worker or an orphan can appear.                *)
(***************************************************************************)
EXTENDS Workers
=============================================================================
