------------------------------ MODULE MCRelay ------------------------------
(***************************************************************************)
(* Small instances of Relay for TLC.  The dashboard always sends both      *)
(* flags of entity_history as true (static/index.html:191); BadSettings    *)
(* adds a rate that the page has turned into null.                         *)
(***************************************************************************)
EXTENDS Relay

Dashboard(r) == [region |-> r, suspend |-> TRUE, inflate |-> TRUE, rate |-> TRUE]

UiSettings == {Dashboard(r) : r \in Regions}

\* The cleared number input, for one region.
BadSettings ==
  UiSettings \cup {[Dashboard(r) EXCEPT !.rate = FALSE] : r \in {CHOOSE x \in Regions : TRUE}}
=============================================================================
