--------------------------- MODULE MCDemoControl ---------------------------
(***************************************************************************)
(* Small instance of DemoControl for TLC: one default scenario with one    *)
(* parameter, the "_actions" entry, one command of each handler and one    *)
(* partial update.                                                         *)
(***************************************************************************)
EXTENDS DemoControl, TLC

MCNames == {"entity_history", "_actions"}
MCKeys == {"region", "inflate_rate", "s6"}
MCValues == {1, 2}
MCDefaults ==
  "entity_history" :> [enabled |-> FALSE, params |-> "region" :> 1]
MCCommands ==
  {[kind |-> "set", name |-> "entity_history", enabled |-> TRUE,
    params |-> ("region" :> 2) @@ ("inflate_rate" :> 1)],
   [kind |-> "set", name |-> "entity_history", enabled |-> TRUE,
    params |-> "region" :> 1],
   [kind |-> "reset"],
   [kind |-> "record", name |-> "s6", when |-> 1]}
=============================================================================
