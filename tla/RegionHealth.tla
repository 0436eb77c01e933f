---------------------------- MODULE RegionHealth ----------------------------
(***************************************************************************)
(* What the rest of the system may rely on of the dispatch entities        *)
(* (workflows/dispatch.py) as far as their health goes: per region, the    *)
(* degradation it acts on, the degradation signals waiting for it and the  *)
(* FleetStatus that visibility shows.                                      *)
(*                                                                         *)
(* A new run of the workflow (launched, or handed over by continue-as-new) *)
(* is fresh until its first task has run.  Signals delivered with the      *)
(* first task are void, because `run` then overwrites _degr with what its  *)
(* argument carries (dispatch.py:101).                                     *)
(***************************************************************************)
EXTENDS Integers, Sequences

CONSTANT Regions  \* REGIONS, the keys of the dispatch entities

Degradations == [suspend : BOOLEAN, inflate : BOOLEAN]
Healthy == [suspend |-> FALSE, inflate |-> FALSE]   \* Degradation()

VARIABLES
  alive,   \* alive[r]: dispatch-r is running
  degr,    \* degr[r]: what the run acts on, or opens with while fresh
  queue,   \* queue[r]: set_degradation signals no handler has seen
  fresh,   \* fresh[r]: the first task of the current run has not ended
  shown    \* shown[r]: FleetStatus in visibility

regionVars == <<alive, degr, queue, fresh, shown>>

\* _status()
Status(d) == IF d.suspend \/ d.inflate THEN "degraded" ELSE "healthy"

RegionTypeOK ==
  /\ alive \in [Regions -> BOOLEAN]
  /\ degr \in [Regions -> Degradations]
  /\ queue \in [Regions -> Seq(Degradations)]
  /\ fresh \in [Regions -> BOOLEAN]
  /\ shown \in [Regions -> {"healthy", "degraded"}]

RegionInit ==
  /\ alive = [r \in Regions |-> FALSE]
  /\ degr = [r \in Regions |-> Healthy]
  /\ queue = [r \in Regions |-> <<>>]
  /\ fresh = [r \in Regions |-> FALSE]
  /\ shown = [r \in Regions |-> "healthy"]

\* A client signals dispatch-r.  The server refuses a closed workflow and
\* _safe_signal swallows the refusal.
Deliver(r, d) ==
  /\ queue' = IF alive[r] THEN [queue EXCEPT ![r] = Append(@, d)] ELSE queue
  /\ UNCHANGED <<alive, degr, fresh, shown>>

\* The handler of set_degradation, once `run` has begun.
Take(r) ==
  /\ alive[r] /\ ~fresh[r] /\ queue[r] # <<>>
  /\ degr' = [degr EXCEPT ![r] = Head(queue[r])]
  /\ queue' = [queue EXCEPT ![r] = Tail(@)]
  /\ UNCHANGED <<alive, fresh, shown>>

\* The handler ran in the first task; its effect is overwritten.
Void(r) ==
  /\ alive[r] /\ fresh[r] /\ queue[r] # <<>>
  /\ queue' = [queue EXCEPT ![r] = Tail(@)]
  /\ UNCHANGED <<alive, degr, fresh, shown>>

\* `run` begins.  Signals that arrived while the first task was running are
\* still queued.
Begin(r) ==
  /\ alive[r] /\ fresh[r]
  /\ fresh' = [fresh EXCEPT ![r] = FALSE]
  /\ UNCHANGED <<alive, degr, queue, shown>>

\* Mutant: the status is published when the region degrades, never when it
\* heals.
PublishDegradedOnly(r) ==
  /\ alive[r] /\ ~fresh[r]
  /\ shown[r] # Status(degr[r])
  /\ Status(degr[r]) = "degraded"
  /\ shown' = [shown EXCEPT ![r] = Status(degr[r])]
  /\ UNCHANGED <<alive, degr, queue, fresh>>

\* _publish_status() on a flip.
Publish(r) ==
  /\ alive[r] /\ ~fresh[r]
  /\ shown[r] # Status(degr[r])
  /\ shown' = [shown EXCEPT ![r] = Status(degr[r])]
  /\ UNCHANGED <<alive, degr, queue, fresh>>

\* continue_as_new: never while suspended, never with a signal undelivered;
\* the degradation is carried and the status stamped on the new run.
HandOver(r) ==
  /\ alive[r] /\ ~fresh[r] /\ queue[r] = <<>>
  /\ ~degr[r].suspend
  /\ fresh' = [fresh EXCEPT ![r] = TRUE]
  /\ shown' = [shown EXCEPT ![r] = Status(degr[r])]
  /\ UNCHANGED <<alive, degr, queue>>

\* S6: the operator terminates the entity (dashboard/app.py).
Terminate(r) ==
  /\ alive[r]
  /\ alive' = [alive EXCEPT ![r] = FALSE]
  /\ fresh' = [fresh EXCEPT ![r] = FALSE]
  /\ queue' = [queue EXCEPT ![r] = <<>>]
  /\ UNCHANGED <<degr, shown>>

\* Mutant: a launch that stamps no FleetStatus.
LaunchUnstamped(r) ==
  /\ ~alive[r]
  /\ alive' = [alive EXCEPT ![r] = TRUE]
  /\ fresh' = [fresh EXCEPT ![r] = TRUE]
  /\ degr' = [degr EXCEPT ![r] = Healthy]
  /\ shown' = [shown EXCEPT ![r] = "unset"]
  /\ UNCHANGED queue

\* ensure_entities starts what is not running, healthy.
Launch(r) ==
  /\ ~alive[r]
  /\ alive' = [alive EXCEPT ![r] = TRUE]
  /\ fresh' = [fresh EXCEPT ![r] = TRUE]
  /\ degr' = [degr EXCEPT ![r] = Healthy]
  /\ shown' = [shown EXCEPT ![r] = "healthy"]
  /\ UNCHANGED queue

Work(r) == Take(r) \/ Void(r) \/ Begin(r) \/ Publish(r)

RegionNext ==
  \E r \in Regions :
    \/ \E d \in Degradations : Deliver(r, d)
    \/ Work(r)
    \/ HandOver(r)
    \/ Terminate(r)
    \/ Launch(r)

RegionSpec == RegionInit /\ [][RegionNext]_regionVars
=============================================================================
