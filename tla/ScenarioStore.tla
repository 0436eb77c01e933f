--------------------------- MODULE ScenarioStore ---------------------------
(***************************************************************************)
(* What demo-control promises, without its mailbox, counters or event      *)
(* history.  The scenario map changes only because one command takes       *)
(* effect on it, whole, in the order the commands were accepted.  A        *)
(* hand-over to a new run (continue-as-new) happens with an empty queue    *)
(* and leaves the map alone.  The one weakness is explicit: while the new  *)
(* run has not executed its first workflow task (fresh), an accepted       *)
(* command may be void, that is, dequeued without an effect.               *)
(***************************************************************************)
EXTENDS Sequences

CONSTANTS Commands,      \* the signals the dashboard can send
          InitialMap,    \* default_scenarios()
          Effect(_, _)   \* Effect(map, cmd): the map after the command

VARIABLES map,     \* the scenario map as readers see it
          queue,   \* accepted commands that have not taken effect
          fresh    \* a run exists that has executed no workflow task yet

storeVars == <<map, queue, fresh>>

Init ==
  /\ map = InitialMap
  /\ queue = <<>>
  /\ fresh = TRUE

Accept(cmd) ==
  /\ queue' = Append(queue, cmd)
  /\ UNCHANGED <<map, fresh>>

TakeEffect ==
  /\ queue # <<>>
  /\ map' = Effect(map, Head(queue))
  /\ queue' = Tail(queue)
  /\ UNCHANGED fresh

Void ==
  /\ fresh
  /\ queue # <<>>
  /\ queue' = Tail(queue)
  /\ UNCHANGED <<map, fresh>>

FirstTask ==
  /\ fresh
  /\ queue = <<>>
  /\ fresh' = FALSE
  /\ UNCHANGED <<map, queue>>

HandOver ==
  /\ queue = <<>>
  /\ fresh' = TRUE
  /\ UNCHANGED <<map, queue>>

Next ==
  \/ \E cmd \in Commands : Accept(cmd)
  \/ TakeEffect
  \/ Void
  \/ FirstTask
  \/ HandOver

Spec == Init /\ [][Next]_storeVars
=============================================================================
