------------------------------ MODULE Dispatch ------------------------------
(***************************************************************************)
(* DispatchWorkflow (workflows/dispatch.py) of one region.  A workflow     *)
(* task runs the handlers of the signals delivered with it and then        *)
(* resumes the coroutine `run`, which goes on to its next await (wait,     *)
(* inflate, assign, reply) without interruption: a step of the coroutine   *)
(* is such a segment, and pc is the await it waits at.  The server refuses *)
(* a continue-as-new while a signal is undelivered, and the task is tried  *)
(* again with the signal: its handler runs first, and then the segment,    *)
(* from its beginning.  So every segment finds the inbox empty.            *)
(*                                                                         *)
(* While pc = "new" the state is the one the run will open with: handlers  *)
(* that run in the first task write fields that `run` then overwrites      *)
(* (lines 97-101), so they have no effect.                                 *)
(*                                                                         *)
(* History is measured in handled orders: a served order costs about       *)
(* twelve events, and so does one unit of an inflate round.                *)
(***************************************************************************)
EXTENDS Integers, SequencesExt, Filter

CONSTANTS
  Orders,        \* orders of the region
  Couriers,      \* courier shifts that announce themselves
  Degrs,         \* degradations that set_degradation may carry
  Nobody,        \* cur when no order is being assigned
  Synthetic,     \* f"synthetic-{region}-{n}"
  MaxProcessed,  \* _MAX_PROCESSED
  MaxHistory,    \* _MAX_HISTORY
  MaxCarried,    \* couriers kept by _carry: 50
  HistoryCap,    \* BOUND: longer histories are not told apart
  MaxFlips,      \* BOUND: set_degradation signals in a behaviour
  MaxRestarts    \* BOUND: terminations in a behaviour

Degradations == [suspend : BOOLEAN, inflate : BOOLEAN]
Healthy == [suspend |-> FALSE, inflate |-> FALSE]

ASSUME LimitsAssumption ==
  /\ MaxProcessed \in Nat \ {0}
  /\ MaxHistory \in Nat /\ HistoryCap \in Nat /\ MaxHistory < HistoryCap
  /\ MaxCarried \in Nat /\ MaxFlips \in Nat /\ MaxRestarts \in Nat
ASSUME ValuesAssumption ==
  /\ Synthetic \notin Couriers
  /\ Degrs \subseteq Degradations

OrderReady == [kind : {"order"}, body : Orders]
CourierAvailable == [kind : {"courier"}, body : Couriers]
SetDegradation == [kind : {"degr"}, body : Degradations]
Signals == OrderReady \cup CourierAvailable \cup SetDegradation
Assignments == [order : Orders, courier : Couriers \cup {Synthetic}]

Awaits == {"wait", "inflate", "assign", "reply"}

VARIABLES
  inbox,      \* signals no handler has seen
  pc,         \* where the coroutine is; "closed" when there is no run
  pending,    \* self._pending
  couriers,   \* self._couriers
  processed,  \* self._processed, up to MaxProcessed
  degr,       \* self._degr
  shown,      \* self._published_status and FleetStatus in visibility
  hist,       \* get_current_history_length(), in orders, up to HistoryCap
  cur,        \* the order and courier of _drain's current pass
  sent,       \* orders whose order_ready the server accepted, in order
  announced,  \* couriers whose courier_available the server accepted
  answered,   \* assignments signalled back, in order
  lost,       \* orders whose order_ready had no effect, or died with a run
  flips,      \* set_degradation signals so far
  restarts    \* terminations so far

runVars == <<pending, couriers, processed, degr, shown, hist, cur>>
clientVars == <<sent, announced, flips, restarts>>
vars == <<inbox, pc, runVars, clientVars, answered, lost>>

Status(d) == IF d.suspend \/ d.inflate THEN "degraded" ELSE "healthy"

Init ==
  /\ inbox = <<>> /\ pc = "closed"
  /\ pending = <<>> /\ couriers = <<>> /\ processed = 0
  /\ degr = Healthy /\ shown = "healthy" /\ hist = 0 /\ cur = Nobody
  /\ sent = <<>> /\ announced = {} /\ answered = <<>> /\ lost = {}
  /\ flips = 0 /\ restarts = 0

-----------------------------------------------------------------------------
(* Clients: orders, couriers, the relay, the keepalive loop, S6.           *)

Post(signal) ==
  /\ inbox' = IF pc = "closed" THEN inbox ELSE Append(inbox, signal)
  /\ UNCHANGED <<pc, runVars, answered>>

\* An order asks for a courier; at a closed region the signal raises and
\* the order goes on without (order.py:128-129).
Ready(o) ==
  /\ o \notin ToSet(sent)
  /\ sent' = Append(sent, o)
  /\ lost' = IF pc = "closed" THEN lost \cup {o} ELSE lost
  /\ Post([kind |-> "order", body |-> o])
  /\ UNCHANGED <<announced, flips, restarts>>

Announce(c) ==
  /\ c \notin announced
  /\ announced' = announced \cup {c}
  /\ Post([kind |-> "courier", body |-> c])
  /\ UNCHANGED <<sent, lost, flips, restarts>>

Degrade(d) ==
  /\ flips < MaxFlips
  /\ flips' = flips + 1
  /\ Post([kind |-> "degr", body |-> d])
  /\ UNCHANGED <<sent, announced, lost, restarts>>

\* The orders of a sequence of signals.
ReadyOrders(s) == Bodies(s, OrderReady)

Terminate ==
  /\ pc # "closed"
  /\ restarts < MaxRestarts
  /\ restarts' = restarts + 1
  /\ pc' = "closed"
  /\ inbox' = <<>> /\ cur' = Nobody
  /\ pending' = <<>> /\ couriers' = <<>>
  /\ lost' = lost \cup ToSet(ReadyOrders(inbox)) \cup ToSet(pending)
                  \cup (IF pc = "assign" THEN {cur.order} ELSE {})
  /\ UNCHANGED <<processed, degr, shown, hist, sent, announced, answered, flips>>

Launch ==
  /\ pc = "closed"
  /\ pc' = "new"
  /\ processed' = 0 /\ degr' = Healthy /\ shown' = "healthy" /\ hist' = 0
  /\ UNCHANGED <<inbox, pending, couriers, cur, clientVars, answered, lost>>

-----------------------------------------------------------------------------
(* Handlers.                                                               *)

\* Mutant: order_ready puts the order at the front.
HandleToFront ==
  /\ pc \in Awaits
  /\ inbox # <<>>
  /\ LET s == Head(inbox) IN
       /\ pending'  = IF s.kind = "order" THEN <<s.body>> \o pending ELSE pending
       /\ couriers' = IF s.kind = "courier" THEN Append(couriers, s.body) ELSE couriers
       /\ degr'     = IF s.kind = "degr" THEN s.body ELSE degr
  /\ inbox' = Tail(inbox)
  /\ UNCHANGED <<pc, processed, shown, hist, cur, clientVars, answered, lost>>

\* order_ready, courier_available and set_degradation.
Handle ==
  /\ pc \in Awaits
  /\ inbox # <<>>
  /\ LET s == Head(inbox) IN
       /\ pending'  = IF s.kind = "order" THEN Append(pending, s.body) ELSE pending
       /\ couriers' = IF s.kind = "courier" THEN Append(couriers, s.body) ELSE couriers
       /\ degr'     = IF s.kind = "degr" THEN s.body ELSE degr
  /\ inbox' = Tail(inbox)
  /\ UNCHANGED <<pc, processed, shown, hist, cur, clientVars, answered, lost>>

\* The same handlers in the first task of a run.
HandleVoid ==
  /\ pc = "new"
  /\ inbox # <<>>
  /\ lost' = lost \cup ToSet(ReadyOrders(<<Head(inbox)>>))
  /\ inbox' = Tail(inbox)
  /\ UNCHANGED <<pc, runVars, clientVars, answered>>

-----------------------------------------------------------------------------
(* The coroutine.                                                          *)

\* It goes on from an await.
Resume(place) ==
  /\ pc = place /\ inbox = <<>>
  /\ UNCHANGED <<inbox, degr, clientVars, lost>>

\* Mutant: the courier stays in the pool.
TakeOrderKeepsCourier ==
  /\ pending # <<>>
  /\ cur' = [order |-> Head(pending),
             courier |-> IF couriers = <<>> THEN Synthetic ELSE Head(couriers)]
  /\ pending' = Tail(pending)
  /\ pc' = "assign"
  /\ UNCHANGED couriers

\* A pass of _drain: the next order takes the next courier, or an invented
\* one, and the assign activity starts.
TakeOrder ==
  /\ pending # <<>>
  /\ cur' = [order |-> Head(pending),
             courier |-> IF couriers = <<>> THEN Synthetic ELSE Head(couriers)]
  /\ pending' = Tail(pending)
  /\ couriers' = IF couriers = <<>> THEN <<>> ELSE Tail(couriers)
  /\ pc' = "assign"

\* Mutant: continue-as-new whatever the degradation.
DueIgnoresSuspend(n, h) == n >= MaxProcessed \/ h > MaxHistory

\* Mutant: only the number of processed orders is tested.
DueCountOnly(n, h) == ~degr.suspend /\ n >= MaxProcessed

\* Continue-as-new is due after n orders and a history of h.
Due(n, h) == ~degr.suspend /\ (n >= MaxProcessed \/ h > MaxHistory)

LastOf(s, n) == IF Len(s) <= n THEN s ELSE SubSeq(s, Len(s) - n + 1, Len(s))

\* continue_as_new with _carry().
ContinueAsNew ==
  /\ couriers' = LastOf(couriers, MaxCarried)
  /\ processed' = 0 /\ hist' = 0 /\ shown' = Status(degr)
  /\ pc' = "new"

\* From the loop of _drain to the next await, after n orders and with a
\* history of h and FleetStatus status: the next order; or continue-as-new;
\* or around to the inflate round or the wait, whose predicate lets a status
\* that is not published yet pass, once.
Drain(status, n, h) ==
  \/ TakeOrder /\ shown' = status /\ processed' = n /\ hist' = h
  \/ /\ pending = <<>> /\ cur' = Nobody /\ UNCHANGED pending
     /\ \/ Due(n, h) /\ ContinueAsNew
        \/ /\ ~Due(n, h)
           /\ pc' = IF degr.inflate THEN "inflate" ELSE "wait"
           /\ shown' = IF degr.inflate THEN status ELSE Status(degr)
           /\ processed' = n /\ hist' = h
           /\ UNCHANGED couriers

\* `run` begins.  Its argument brings no order and its status is stamped, so
\* the first wait lasts until a signal.
Open ==
  /\ Resume("new")
  /\ pc' = IF degr.inflate THEN "inflate" ELSE "wait"
  /\ UNCHANGED <<pending, couriers, processed, shown, hist, cur, answered>>

\* Mutant: the wait without its health term (line 130).
WakeConditionNoHealth ==
  \/ pending # <<>>
  \/ degr.inflate
  \/ ~degr.suspend /\ hist > MaxHistory

\* Mutant: the wait without its work term (line 128).
WakeConditionNoWork ==
  \/ degr.inflate
  \/ Status(degr) # shown
  \/ ~degr.suspend /\ hist > MaxHistory

\* The predicate of wait_condition.
WakeCondition ==
  \/ pending # <<>>
  \/ degr.inflate
  \/ Status(degr) # shown
  \/ ~degr.suspend /\ hist > MaxHistory

\* The wait ends, and _publish_status publishes a flip.
Wake ==
  /\ Resume("wait")
  /\ WakeCondition
  /\ Drain(Status(degr), processed, hist)
  /\ UNCHANGED answered

\* The markers and the sleep of an inflate round are over.
Inflated ==
  /\ Resume("inflate")
  /\ Drain(Status(degr), processed, Min({hist + 1, HistoryCap}))
  /\ UNCHANGED answered

\* assign_courier completed; the reply is on its way.
Assigned ==
  /\ Resume("assign")
  /\ answered' = Append(answered, cur)
  /\ pc' = "reply"
  /\ UNCHANGED <<pending, couriers, processed, shown, hist, cur>>

\* The reply was delivered, or refused because the order has closed.
Replied ==
  /\ Resume("reply")
  /\ Drain(shown, Min({processed + 1, MaxProcessed}), Min({hist + 1, HistoryCap}))
  /\ UNCHANGED answered

Coroutine == Open \/ Wake \/ Inflated \/ Assigned \/ Replied

Next ==
  \/ \E o \in Orders : Ready(o)
  \/ \E c \in Couriers : Announce(c)
  \/ \E d \in Degrs : Degrade(d)
  \/ Terminate
  \/ Launch
  \/ Handle
  \/ HandleVoid
  \/ Coroutine

\* A worker polls dispatch-tq (docker and the dashboard restart it),
\* activities without a retry limit complete, the keepalive loop runs.
Fairness ==
  /\ WF_vars(Handle) /\ WF_vars(HandleVoid)
  /\ WF_vars(Coroutine)
  /\ WF_vars(Launch)

Spec == Init /\ [][Next]_vars
FairSpec == Spec /\ Fairness

-----------------------------------------------------------------------------
(* Properties.                                                             *)

\* The types of the workflow's and its clients' variables.
TypeOK ==
  /\ inbox \in Seq(Signals)
  /\ pc \in Awaits \cup {"new", "closed"}
  /\ pending \in Seq(Orders)
  /\ couriers \in Seq(Couriers)
  /\ processed \in 0..MaxProcessed
  /\ degr \in Degradations
  /\ shown \in {"healthy", "degraded"}
  /\ hist \in 0..HistoryCap
  /\ cur \in Assignments \cup {Nobody}
  /\ answered \in Seq(Assignments)
  /\ sent \in Seq(Orders) /\ announced \subseteq Couriers /\ lost \subseteq Orders
  /\ flips \in 0..MaxFlips /\ restarts \in 0..MaxRestarts

\* The order whose assign activity is running.
InAssign == IF pc = "assign" THEN <<cur.order>> ELSE <<>>

AnsweredOrders == [i \in 1..Len(answered) |-> answered[i].order]

\* Every order the region accepted is in exactly one place and is answered
\* once, in the order of arrival, across drains that signals interrupt,
\* continue-as-new hand-overs and rejected ones, unless it was voided by a
\* first task or died with a terminated run.
EachOrderOnceInOrder ==
  Only(sent, Orders \ lost)
    = AnsweredOrders \o InAssign \o pending \o ReadyOrders(inbox)

\* A shift that announced itself once is given to at most one order, also
\* when a hand-over carries the pool (line 186).
CourierServesOnce ==
  \A i, j \in DOMAIN answered :
    answered[i].courier = answered[j].courier /\ answered[i].courier # Synthetic
      => i = j

\* What the relay relies on: the region is a RegionHealth.  It hands over
\* only when not suspended, voids signals only in a first task, and what
\* visibility shows is a status it had.
OneRegion == {"region"}
Health == INSTANCE RegionHealth WITH
  Regions <- OneRegion,
  alive <- [r \in OneRegion |-> pc # "closed"],
  degr  <- [r \in OneRegion |-> degr],
  queue <- [r \in OneRegion |-> Bodies(inbox, SetDegradation)],
  fresh <- [r \in OneRegion |-> pc = "new"],
  shown <- [r \in OneRegion |-> shown]
ImplementsRegionHealth == Health!RegionSpec

\* Orders drain "even when the region's dispatch is degraded"
\* (order.py:131-134): an accepted order is answered unless it is lost.
OrdersAnswered ==
  \A o \in Orders :
    (o \in ToSet(sent)) ~> (o \in lost \/ \E i \in DOMAIN answered : answered[i].order = o)

\* "a reversed S2 can shed its accumulated history even with no pending
\* work" (lines 121-124): a continue-as-new that is due happens.
ShedsHistory ==
  (pc # "closed" /\ ~degr.suspend /\ (processed >= MaxProcessed \/ hist > MaxHistory))
    ~> (pc \in {"new", "closed"} \/ degr.suspend)

\* A health flip is published (lines 125-126, 137), also when the region is
\* degraded without inflating its history and has no work.
FlipPublished ==
  (pc # "closed" /\ Status(degr) # shown) ~> (pc = "closed" \/ Status(degr) = shown)
=============================================================================
