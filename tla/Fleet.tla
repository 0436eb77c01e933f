------------------------------- MODULE Fleet -------------------------------
(***************************************************************************)
(* Orders and the dispatch entity of their region together.  An order asks *)
(* with the external signal order_ready, which a closed region refuses;    *)
(* the region answers with courier_assigned, which a closed order refuses. *)
(* Neither waits for the other for ever: the region goes on after a        *)
(* refusal, the order after thirty seconds.                                *)
(***************************************************************************)
EXTENDS Order

CONSTANTS Couriers, Degrs, Nobody, Synthetic,
          MaxProcessed, MaxHistory, MaxCarried, HistoryCap, MaxFlips, MaxRestarts

ASSUME CourierIdsAssumption == CourierIds = Couriers \cup {Synthetic}

VARIABLES inbox, pc, pending, couriers, processed, degr, shown, hist, cur,
          sent, announced, answered, lost, flips, restarts

Region == INSTANCE Dispatch

ASSUME RegionAssumption ==
  /\ MaxProcessed \in Nat \ {0}
  /\ MaxHistory \in Nat /\ HistoryCap \in Nat /\ MaxHistory < HistoryCap
  /\ MaxCarried \in Nat /\ MaxFlips \in Nat /\ MaxRestarts \in Nat
  /\ Synthetic \notin Couriers
  /\ Degrs \subseteq [suspend : BOOLEAN, inflate : BOOLEAN]

dispatchVars == <<inbox, pc, pending, couriers, processed, degr, shown, hist, cur,
                  sent, announced, answered, lost, flips, restarts>>
vars == <<orderVars, dispatchVars>>

Init == OrderInit /\ Region!Init

\* Mutant: the region's reply goes to the next order in its queue.
AnswerNext ==
  /\ Region!Assigned
  /\ Answer(IF pending = <<>> THEN cur.order ELSE Head(pending), cur.courier)

\* order_ready: the order's step and its effect on the region.
Ask(o) == Notify(o) /\ Region!Ready(o)

\* courier_assigned: the region's step and its effect on the order.
Reply == Region!Assigned /\ Answer(cur.order, cur.courier)

\* The steps of the region and its other clients that no order sees.
RegionStep ==
  \/ \E c \in Couriers : Region!Announce(c)
  \/ \E d \in Degrs : Region!Degrade(d)
  \/ Region!Terminate
  \/ Region!Launch
  \/ Region!Handle
  \/ Region!HandleVoid
  \/ Region!Open \/ Region!Wake \/ Region!Inflated \/ Region!Replied

Next ==
  \/ \E o \in Orders : Ask(o)
  \/ \E o \in Orders : OrderStep(o) /\ UNCHANGED dispatchVars
  \/ Reply
  \/ RegionStep /\ UNCHANGED orderVars

\* Workers of order-tq poll, so every started order makes its steps.  No
\* fairness is asked of the region: its worker may be down for good.
Fairness ==
  \A o \in Orders :
    /\ WF_vars(Ask(o))
    /\ WF_vars(OrderStep(o) /\ UNCHANGED dispatchVars)

Spec == Init /\ [][Next]_vars
FairSpec == Spec /\ Fairness

-----------------------------------------------------------------------------
(* Properties.                                                             *)

\* The types of both parties' variables.
TypeOK == OrderTypeOK /\ Region!TypeOK

\* What the region has assigned to an order.
AssignedTo(o) ==
  {answered[i].courier : i \in {j \in DOMAIN answered : answered[j].order = o}}

\* An order is carried by its own fallback or by the courier the region
\* assigned to THIS order, whichever of timeout, reply, termination and
\* hand-over came first; and settlement never pays "unknown"
\* (order.py:153, 175).
RightCourier ==
  \A o \in Orders :
    /\ courier[o] \in {NoCourier, OwnFallback} \cup AssignedTo(o)
    /\ place[o] \in {"pickup", "deliver", "settle", "completed"} => courier[o] # NoCourier
    /\ place[o] \in {"settle", "completed"} <=> settled[o] # NoCourier

\* No real courier is paid for two orders that it announced itself once for.
PaidOnce ==
  \A o1, o2 \in Orders :
    settled[o1] = settled[o2] /\ settled[o1] \in Couriers => o1 = o2

\* What visibility says of who carries an order differs from who is paid
\* only if the order had given up waiting and the reply came after all.
CarrierChangesOnlyAfterFallback ==
  \A o \in Orders :
    settled[o] # NoCourier /\ carrier[o] # settled[o] /\ input[o].track
      => carrier[o] = OwnFallback /\ settled[o] \in AssignedTo(o)

\* "orders always drain even when the region's dispatch is degraded"
\* (order.py:131-132), terminated, between two runs or without a worker.
EveryOrderCloses ==
  \A o \in Orders : Started(o) ~> place[o] \in Closed
=============================================================================
