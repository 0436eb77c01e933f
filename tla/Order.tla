------------------------------- MODULE Order -------------------------------
(***************************************************************************)
(* OrderWorkflow (workflows/order.py): the saga of one delivery, for a set *)
(* of orders.  place[o] is the await the coroutine is at; each activity    *)
(* place is one try of that activity at a time, under the retry policy of  *)
(* common/retry.py.  A handler of courier_assigned may run at every await  *)
(* of an open order.  A step of the coroutine needs an empty mailbox:      *)
(* handlers of a task run before it, and a signal that comes later in the  *)
(* task is as good as one that comes after it.                             *)
(*                                                                         *)
(* The signal to the region and its answer are steps of two parties:       *)
(* Notify and Answer are joined with the region's in Fleet.                *)
(***************************************************************************)
EXTENDS Integers, Sequences

CONSTANTS
  Orders,
  CourierIds,   \* what courier_assigned may carry
  OwnFallback,  \* f"synthetic-{order_id[:8]}", the order's own fallback
  NoCourier,    \* self._courier_id is None; an attribute that is not set
  Inputs,       \* what the generator starts orders with
  DefaultTries, \* DEFAULT_RETRY.maximum_attempts
  StormTries    \* STORM_RETRY.maximum_attempts

\* timeout: force_timeout, with the execution timeout of 10 seconds that the
\* generator gives such an order; slow: slow_validate; fail:
\* fail_at_restaurant; track: track_stages.
AllInputs == [timeout : BOOLEAN, slow : BOOLEAN, fail : BOOLEAN, track : BOOLEAN]

ASSUME InputsAssumption == Inputs \subseteq AllInputs
ASSUME TriesAssumption == DefaultTries \in Nat \ {0} /\ StormTries \in Nat \ {0}
ASSUME FallbackAssumption ==
  OwnFallback \notin CourierIds /\ NoCourier \notin CourierIds \cup {OwnFallback}

VARIABLES
  place,    \* place[o]: where the saga is
  input,    \* input[o]: the argument of `run`
  tries,    \* tries[o]: failed tries of the current activity
  courier,  \* courier[o]: self._courier_id
  mailbox,  \* mailbox[o]: courier_assigned signals no handler has seen
  stage,    \* stage[o]: the OrderStage attribute
  carrier,  \* carrier[o]: the CourierId attribute
  settled   \* settled[o]: courier_id of the settlement child, if started

orderVars == <<place, input, tries, courier, mailbox, stage, carrier, settled>>

Activities == {"validate", "authorize", "send", "accept", "pickup", "deliver"}
Open == Activities \cup {"stall", "prep", "notified", "await", "settle"}
Closed == {"completed", "failed", "timed_out"}
Stages == {"placed", "preparing", "awaiting_courier", "in_transit"}
Names == CourierIds \cup {OwnFallback, NoCourier}

Started(o) == place[o] # "idle"

OrderInit ==
  /\ place = [o \in Orders |-> "idle"]
  /\ input \in [Orders -> Inputs]
  /\ tries = [o \in Orders |-> 0]
  /\ courier = [o \in Orders |-> NoCourier]
  /\ mailbox = [o \in Orders |-> <<>>]
  /\ stage = [o \in Orders |-> "placed"]
  /\ carrier = [o \in Orders |-> NoCourier]
  /\ settled = [o \in Orders |-> NoCourier]

Move(o, to) ==
  /\ place' = [place EXCEPT ![o] = to]
  /\ tries' = [tries EXCEPT ![o] = 0]
  /\ UNCHANGED <<input, mailbox>>

\* _stage: one upsert, or none when the order does not track its stages.
SetStage(o, s) ==
  stage' = IF input[o].track THEN [stage EXCEPT ![o] = s] ELSE stage

\* order_loop starts the workflow; `run` goes to its first await.
StartOrder(o) ==
  /\ place[o] = "idle"
  /\ Move(o, IF input[o].timeout THEN "stall" ELSE "validate")
  /\ UNCHANGED <<courier, stage, carrier, settled>>

\* The sleep of 30 seconds outlasts the execution timeout.
TimeOut(o) ==
  /\ place[o] = "stall"
  /\ Move(o, "timed_out")
  /\ UNCHANGED <<courier, stage, carrier, settled>>

\* Mutant: the handler stores the arguments instead of the courier.
TakeArguments(o) ==
  /\ place[o] \in Open
  /\ mailbox[o] # <<>>
  /\ courier' = [courier EXCEPT ![o] = mailbox[o]]
  /\ mailbox' = [mailbox EXCEPT ![o] = Tail(@)]
  /\ UNCHANGED <<place, input, tries, stage, carrier, settled>>

\* The handler of courier_assigned.
TakeAssignment(o) ==
  /\ place[o] \in Open
  /\ mailbox[o] # <<>>
  /\ courier' = [courier EXCEPT ![o] = Head(mailbox[o])]
  /\ mailbox' = [mailbox EXCEPT ![o] = Tail(@)]
  /\ UNCHANGED <<place, input, tries, stage, carrier, settled>>

-----------------------------------------------------------------------------
(* Activities.                                                             *)

Ready(o, a) == place[o] = a /\ mailbox[o] = <<>>

MaxTries(a) == IF a = "authorize" THEN StormTries ELSE DefaultTries

\* A try fails: its worker died, the storm raised, validation overslept.
\* The workflow fails with the last one.
TryFails(o) ==
  /\ place[o] \in Activities /\ mailbox[o] = <<>>
  /\ IF tries[o] + 1 < MaxTries(place[o])
     THEN /\ tries' = [tries EXCEPT ![o] = @ + 1]
          /\ UNCHANGED <<place, input, mailbox>>
     ELSE Move(o, "failed")
  /\ UNCHANGED <<courier, stage, carrier, settled>>

\* S4: an error that is not retried.
Reject(o) ==
  /\ Ready(o, "send") /\ input[o].fail
  /\ Move(o, "failed")
  /\ UNCHANGED <<courier, stage, carrier, settled>>

\* The activities before the restaurant has the order.
Advance(o) ==
  /\ \/ Ready(o, "validate") /\ ~input[o].slow /\ Move(o, "authorize")
     \/ Ready(o, "authorize") /\ Move(o, "send")
     \/ Ready(o, "send") /\ ~input[o].fail /\ Move(o, "accept")
  /\ UNCHANGED <<courier, stage, carrier, settled>>

\* The poll succeeded; the preparation timer starts.
Accepted(o) ==
  /\ Ready(o, "accept")
  /\ Move(o, "prep")
  /\ SetStage(o, "preparing")
  /\ UNCHANGED <<courier, carrier, settled>>

\* The order signals order_ready to its region.
Notify(o) ==
  /\ Ready(o, "prep")
  /\ Move(o, "notified")
  /\ UNCHANGED <<courier, stage, carrier, settled>>

\* The server acknowledged or refused the signal.
Notified(o) ==
  /\ Ready(o, "notified")
  /\ Move(o, "await")
  /\ SetStage(o, "awaiting_courier")
  /\ UNCHANGED <<courier, carrier, settled>>

\* wait_condition: a courier is there.
Assigned(o) ==
  /\ Ready(o, "await") /\ courier[o] # NoCourier
  /\ Move(o, "pickup")
  /\ UNCHANGED <<courier, stage, carrier, settled>>

\* Mutant: the wait starts again when its thirty seconds are over.
FallbackRetries(o) ==
  /\ Ready(o, "await") /\ courier[o] = NoCourier
  /\ UNCHANGED orderVars

\* wait_condition: thirty seconds are over.
Fallback(o) ==
  /\ Ready(o, "await") /\ courier[o] = NoCourier
  /\ courier' = [courier EXCEPT ![o] = OwnFallback]
  /\ Move(o, "pickup")
  /\ UNCHANGED <<stage, carrier, settled>>

\* Mutant: the carrier does not ride along with the stage.
PickedUpUnset(o) ==
  /\ Ready(o, "pickup")
  /\ Move(o, "deliver")
  /\ SetStage(o, "in_transit")
  /\ UNCHANGED <<courier, carrier, settled>>

\* Picked up; the stage and the carrier are one upsert.
PickedUp(o) ==
  /\ Ready(o, "pickup")
  /\ Move(o, "deliver")
  /\ SetStage(o, "in_transit")
  /\ carrier' = IF input[o].track THEN [carrier EXCEPT ![o] = courier[o]] ELSE carrier
  /\ UNCHANGED <<courier, settled>>

\* Delivered; the settlement child is started with the order's courier.
Delivered(o) ==
  /\ Ready(o, "deliver")
  /\ Move(o, "settle")
  /\ settled' = [settled EXCEPT ![o] = courier[o]]
  /\ UNCHANGED <<courier, stage, carrier>>

\* The child has started; `run` returns.
Return(o) ==
  /\ Ready(o, "settle")
  /\ Move(o, "completed")
  /\ UNCHANGED <<courier, stage, carrier, settled>>

\* The region signals the order back; a closed order refuses.
Answer(o, c) ==
  /\ mailbox' = IF place[o] \in Open
                THEN [mailbox EXCEPT ![o] = Append(@, c)] ELSE mailbox
  /\ UNCHANGED <<place, input, tries, courier, stage, carrier, settled>>

\* Everything an order does without its region.
OrderStep(o) ==
  \/ StartOrder(o)
  \/ TimeOut(o)
  \/ TakeAssignment(o)
  \/ TryFails(o)
  \/ Reject(o)
  \/ Advance(o)
  \/ Accepted(o)
  \/ Notified(o)
  \/ Assigned(o)
  \/ Fallback(o)
  \/ PickedUp(o)
  \/ Delivered(o)
  \/ Return(o)

\* The types of the orders' variables.
OrderTypeOK ==
  /\ place \in [Orders -> Open \cup Closed \cup {"idle"}]
  /\ input \in [Orders -> Inputs]
  /\ tries \in [Orders -> Nat]
  /\ courier \in [Orders -> Names]
  /\ mailbox \in [Orders -> Seq(CourierIds)]
  /\ stage \in [Orders -> Stages]
  /\ carrier \in [Orders -> Names]
  /\ settled \in [Orders -> Names]
=============================================================================
