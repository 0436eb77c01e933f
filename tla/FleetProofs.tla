----------------------------- MODULE FleetProofs ----------------------------
(***************************************************************************)
(* Orders and a region joined by their signals, for any number of orders   *)
(* and couriers: who carries an order, and who is paid for it.  The        *)
(* region's part of the invariant is taken over from DispatchProofs,       *)
(* because its variables change here as they do there; the orders' part    *)
(* relates what each order holds to what the region has answered it.       *)
(***************************************************************************)
EXTENDS Fleet, TLAPS

\* What is proved of a region alone.
RP == INSTANCE DispatchProofs

\* The constants of the region satisfy its assumptions.
LEMMA RegionAssumptions == RP!LimitsAssumption /\ RP!ValuesAssumption
BY RegionAssumption DEF RP!Degradations

\* The region's invariant.
RegionInv == RP!Types /\ RP!OrdersInv /\ RP!SharesInv

\* It holds at first.
LEMMA InitRegion == Init => RegionInv
<1>1. Init => RP!Init
  BY DEF Init, Region!Init, RP!Init, Region!Healthy, RP!Healthy
<1> QED
  BY <1>1, RegionAssumptions, RP!InitTypes, RP!InitOrders, RP!InitShares DEF RegionInv

\* A step of the fleet is a step of the region or leaves it alone.
LEMMA RegionMoves ==
  ASSUME [Next]_vars  PROVE [RP!Next]_(RP!vars)
<1>1. ASSUME UNCHANGED dispatchVars  PROVE UNCHANGED RP!vars
  BY <1>1 DEF dispatchVars, RP!vars, RP!runVars, RP!clientVars
<1>2. ASSUME NEW o \in Orders, Ask(o)  PROVE RP!Next
  <2>1. RP!Ready(o)
    BY <1>2 DEF Ask, Region!Ready, RP!Ready, Region!ToSet, RP!ToSet, Region!Post, RP!Post, Region!runVars, RP!runVars
  <2> QED  BY <2>1 DEF RP!Next
<1>3. CASE Reply
  <2>1. RP!Assigned
    BY <1>3 DEF Reply, Region!Assigned, RP!Assigned, Region!Resume, RP!Resume,
        Region!clientVars, RP!clientVars
  <2> QED  BY <2>1 DEF RP!Next, RP!Coroutine
<1>4. CASE RegionStep
  <2>1. ASSUME NEW c \in Couriers, Region!Announce(c)  PROVE RP!Announce(c)
    BY <2>1 DEF Region!Announce, RP!Announce, Region!Post, RP!Post, Region!runVars, RP!runVars
  <2>2. ASSUME NEW d \in Degrs, Region!Degrade(d)  PROVE RP!Degrade(d)
    BY <2>2 DEF Region!Degrade, RP!Degrade, Region!Post, RP!Post, Region!runVars, RP!runVars
  <2>3. Region!Terminate => RP!Terminate
    BY DEF Region!Terminate, RP!Terminate, Region!ReadyOrders, RP!ReadyOrders,
       Region!OrderReady, RP!OrderReady, Region!Bodies, RP!Bodies, Region!Only, RP!Only,
       Region!Kept, RP!Kept, Region!ToSet, RP!ToSet
  <2>4. Region!Launch => RP!Launch
    BY DEF Region!Launch, RP!Launch, Region!Healthy, RP!Healthy, Region!clientVars, RP!clientVars
  <2>5. Region!Handle => RP!Handle
    BY DEF Region!Handle, RP!Handle, Region!Awaits, RP!Awaits,
       Region!clientVars, RP!clientVars
  <2>6. Region!HandleVoid => RP!HandleVoid
    BY DEF Region!HandleVoid, RP!HandleVoid, Region!ReadyOrders, RP!ReadyOrders,
       Region!runVars, RP!runVars, Region!clientVars, RP!clientVars,
       Region!OrderReady, RP!OrderReady, Region!Bodies, RP!Bodies, Region!Only, RP!Only,
       Region!Kept, RP!Kept, Region!ToSet, RP!ToSet
  <2>7. \A status, n, h : Region!Drain(status, n, h) => RP!Drain(status, n, h)
    BY DEF Region!Drain, RP!Drain, Region!TakeOrder, RP!TakeOrder, Region!Due, RP!Due,
       Region!ContinueAsNew, RP!ContinueAsNew, Region!LastOf, RP!LastOf,
       Region!Status, RP!Status
  <2> USE DEF Region!Resume, RP!Resume, Region!clientVars, RP!clientVars
  <2>8. Region!Open => RP!Open  BY DEF Region!Open, RP!Open
  <2>9. Region!Wake => RP!Wake
    BY <2>7 DEF Region!Wake, RP!Wake, Region!WakeCondition, RP!WakeCondition,
       Region!Status, RP!Status
  <2>10. Region!Inflated => RP!Inflated
    BY <2>7 DEF Region!Inflated, RP!Inflated, Region!Min, RP!Min, Region!Status, RP!Status
  <2>11. Region!Replied => RP!Replied
    BY <2>7 DEF Region!Replied, RP!Replied, Region!Min, RP!Min
  <2> QED
    BY <1>4, <2>1, <2>2, <2>3, <2>4, <2>5, <2>6, <2>8, <2>9, <2>10, <2>11
    DEF RegionStep, RP!Next, RP!Coroutine
<1> QED
  BY <1>1, <1>2, <1>3, <1>4 DEF Next, vars

\* So the region's invariant is kept.
LEMMA NextRegion ==
  ASSUME RegionInv, [Next]_vars  PROVE RegionInv'
<1>1. [RP!Next]_(RP!vars)  BY RegionMoves
<1> QED
  BY <1>1, RegionAssumptions, RP!NextTypes, RP!NextOrders, RP!NextShares DEF RegionInv

-----------------------------------------------------------------------------
\* The orders begin with their types.
LEMMA InitOrderTypes == OrderInit => OrderTypeOK
BY DEF OrderInit, OrderTypeOK, Stages, Names

\* An order that goes to another await keeps the types.
LEMMA MoveTypes ==
  ASSUME OrderTypeOK, NEW o \in Orders, NEW to \in Open \cup Closed, Move(o, to)
  PROVE  /\ place' \in [Orders -> Open \cup Closed \cup {"idle"}]
         /\ tries' \in [Orders -> Nat]
         /\ input' \in [Orders -> Inputs]
         /\ mailbox' \in [Orders -> Seq(CourierIds)]
BY DEF OrderTypeOK, Move

\* So does one that publishes its stage.
LEMMA StageTypes ==
  ASSUME OrderTypeOK, NEW o \in Orders, NEW s \in Stages, SetStage(o, s)
  PROVE  stage' \in [Orders -> Stages]
BY DEF OrderTypeOK, SetStage

\* An order's step keeps the types (order.py:62-190).
LEMMA OrderStepTypes ==
  ASSUME OrderTypeOK, NEW o \in Orders, OrderStep(o) \/ Notify(o)
  PROVE  OrderTypeOK'
<1>1. CASE StartOrder(o)
  BY <1>1, MoveTypes DEF StartOrder, OrderTypeOK, Open, Activities
<1>2. CASE TimeOut(o)
  BY <1>2, MoveTypes DEF TimeOut, OrderTypeOK, Closed
<1>3. CASE TakeAssignment(o)
  <2>1. mailbox[o] \in Seq(CourierIds) /\ mailbox[o] # <<>>
    BY <1>3 DEF TakeAssignment, OrderTypeOK
  <2>2. Head(mailbox[o]) \in CourierIds /\ Tail(mailbox[o]) \in Seq(CourierIds)  BY <2>1
  <2> QED  BY <1>3, <2>2 DEF TakeAssignment, OrderTypeOK, Names
<1>4. CASE TryFails(o)
  <2>1. CASE tries[o] + 1 < MaxTries(place[o])
    <3>1. tries' = [tries EXCEPT ![o] = tries[o] + 1] /\ tries[o] + 1 \in Nat
      BY <1>4, <2>1 DEF TryFails, OrderTypeOK
    <3>2. tries' \in [Orders -> Nat]  BY <3>1 DEF OrderTypeOK
    <3> QED  BY <1>4, <2>1, <3>2 DEF TryFails, OrderTypeOK
  <2>2. CASE ~(tries[o] + 1 < MaxTries(place[o]))
    BY <1>4, <2>2, MoveTypes DEF TryFails, OrderTypeOK, Closed
  <2> QED  BY <2>1, <2>2
<1>5. CASE Reject(o)
  BY <1>5, MoveTypes DEF Reject, OrderTypeOK, Closed
<1>6. CASE Advance(o)
  BY <1>6, MoveTypes DEF Advance, OrderTypeOK, Open, Activities
<1>7. CASE Accepted(o)
  BY <1>7, MoveTypes, StageTypes DEF Accepted, OrderTypeOK, Open, Stages
<1>8. CASE Notify(o)
  BY <1>8, MoveTypes DEF Notify, OrderTypeOK, Open
<1>9. CASE Notified(o)
  BY <1>9, MoveTypes, StageTypes DEF Notified, OrderTypeOK, Open, Stages
<1>10. CASE Assigned(o)
  BY <1>10, MoveTypes DEF Assigned, OrderTypeOK, Open, Activities
<1>11. CASE Fallback(o)
  BY <1>11, MoveTypes DEF Fallback, OrderTypeOK, Open, Activities, Names
<1>12. CASE PickedUp(o)
  BY <1>12, MoveTypes, StageTypes DEF PickedUp, OrderTypeOK, Open, Activities, Stages
<1>13. CASE Delivered(o)
  BY <1>13, MoveTypes DEF Delivered, OrderTypeOK, Open
<1>14. CASE Return(o)
  BY <1>14, MoveTypes DEF Return, OrderTypeOK, Closed
<1> QED
  BY <1>1, <1>2, <1>3, <1>4, <1>5, <1>6, <1>7, <1>8, <1>9, <1>10, <1>11, <1>12, <1>13, <1>14
  DEF OrderStep

\* The region's answer goes to an order of it and names a courier.
LEMMA ReplyNames ==
  ASSUME RegionInv, Reply
  PROVE  cur.order \in Orders /\ cur.courier \in CourierIds /\ cur \in RP!Assignments
BY CourierIdsAssumption
DEF RegionInv, RP!Types, RP!Placed, RP!Assignments, Reply, Region!Assigned, Region!Resume

\* Every step keeps the orders' types.
LEMMA NextOrderTypes ==
  ASSUME RegionInv, OrderTypeOK, [Next]_vars  PROVE OrderTypeOK'
<1>1. CASE UNCHANGED vars
  BY <1>1 DEF vars, orderVars, OrderTypeOK
<1>2. ASSUME NEW o \in Orders, Ask(o)  PROVE OrderTypeOK'
  BY <1>2, OrderStepTypes DEF Ask
<1>3. ASSUME NEW o \in Orders, OrderStep(o)  PROVE OrderTypeOK'
  BY <1>3, OrderStepTypes
<1>4. CASE Reply
  BY <1>4, ReplyNames DEF Reply, Answer, OrderTypeOK
<1>5. CASE UNCHANGED orderVars
  BY <1>5 DEF orderVars, OrderTypeOK
<1> QED  BY <1>1, <1>2, <1>3, <1>4, <1>5 DEF Next

\* Both parties' variables keep their types.
THEOREM TypeCorrect == Spec => []TypeOK
<1>1. Init => RegionInv /\ OrderTypeOK
  BY InitRegion, InitOrderTypes DEF Init
<1>2. RegionInv /\ OrderTypeOK /\ [Next]_vars => (RegionInv /\ OrderTypeOK)'
  BY NextRegion, NextOrderTypes
<1>3. RegionInv /\ OrderTypeOK => TypeOK
  <2>1. RP!TypeOK => Region!TypeOK
    BY DEF RP!TypeOK, Region!TypeOK, RP!Signals, Region!Signals, RP!OrderReady,
       Region!OrderReady, RP!CourierAvailable, Region!CourierAvailable,
       RP!SetDegradation, Region!SetDegradation, RP!Degradations, Region!Degradations,
       RP!Assignments, Region!Assignments, RP!Awaits, Region!Awaits
  <2> QED  BY <2>1 DEF RegionInv, RP!Types, TypeOK
<1> QED  BY <1>1, <1>2, <1>3, PTL DEF Spec

-----------------------------------------------------------------------------
\* Who may carry o: its own fallback, or who the region has assigned to it.
Carries(o, c) == c = OwnFallback \/ c \in AssignedTo(o)

\* new may be in the place of old: the fallback gives way to a late answer.
Follows(o, old, new) == new = old \/ (old = OwnFallback /\ new \in AssignedTo(o))

\* One order and the answers the region has given it.
Carried(o) ==
  /\ courier[o] # NoCourier => Carries(o, courier[o])
  /\ \A i \in 1..Len(mailbox[o]) : mailbox[o][i] \in AssignedTo(o)
  /\ place[o] \in {"pickup", "deliver", "settle", "completed"} => courier[o] # NoCourier
  /\ place[o] \in {"settle", "completed"} <=> settled[o] # NoCourier
  /\ settled[o] # NoCourier => Carries(o, settled[o])
  /\ place[o] = "deliver" /\ input[o].track => Follows(o, carrier[o], courier[o])
  /\ settled[o] # NoCourier /\ input[o].track => Follows(o, carrier[o], settled[o])

\* It holds of all orders.
AllCarried == \A o \in Orders : Carried(o)

\* No order has a courier at first.
LEMMA InitCarried == Init => AllCarried
<1> SUFFICES ASSUME Init, NEW o \in Orders  PROVE Carried(o)
  BY DEF AllCarried
<1>1. Len(<<>>) = 0  OBVIOUS
<1> QED  BY <1>1 DEF Init, OrderInit, Carried

\* What the region has answered are courier ids.
LEMMA AnswersType ==
  ASSUME RegionInv
  PROVE  answered \in Seq(RP!Assignments) /\ \A o \in Orders : AssignedTo(o) \subseteq CourierIds
<1>1. answered \in Seq(RP!Assignments)  BY DEF RegionInv, RP!Types, RP!TypeOK
<1>2. \A i \in DOMAIN answered : answered[i] \in RP!Assignments  BY <1>1
<1>3. \A a \in RP!Assignments : a.courier \in CourierIds
  BY CourierIdsAssumption DEF RP!Assignments
<1> QED  BY <1>1, <1>2, <1>3 DEF AssignedTo

\* The region answers an order at most once.
LEMMA OneAnswer ==
  ASSUME RegionInv, NEW o \in Orders, NEW c \in AssignedTo(o), NEW d \in AssignedTo(o)
  PROVE  c = d
<1>1. \A i, j \in DOMAIN answered : answered[i].order = answered[j].order => i = j
  BY RegionAssumptions, RP!AnsweredOnce DEF RegionInv
<1> QED  BY <1>1 DEF AssignedTo

\* A step without an answer leaves the answers.
LEMMA AnswersStay ==
  ASSUME UNCHANGED answered, NEW o \in Orders  PROVE AssignedTo(o)' = AssignedTo(o)
BY DEF AssignedTo

\* An answer adds its courier to those of its order.
LEMMA AnswersGrow ==
  ASSUME RegionInv, Reply, NEW o \in Orders
  PROVE  /\ AssignedTo(o) \subseteq AssignedTo(o)'
         /\ cur.order = o => cur.courier \in AssignedTo(o)'
<1> DEFINE n == Len(answered)
<1>1. answered' = Append(answered, cur)  BY DEF Reply, Region!Assigned
<1>2. answered \in Seq(RP!Assignments) /\ cur \in RP!Assignments  BY AnswersType, ReplyNames
<1>3. /\ n \in Nat /\ DOMAIN answered = 1..n /\ DOMAIN answered' = 1..(n + 1)
      /\ answered'[n + 1] = cur /\ n + 1 \in 1..(n + 1)
      /\ \A i \in 1..n : answered'[i] = answered[i] /\ i \in 1..(n + 1)
  BY <1>1, <1>2
<1> HIDE DEF n
<1>4. AssignedTo(o)' =
        {answered'[i].courier : i \in {j \in 1..(n + 1) : answered'[j].order = o}}
  BY <1>3 DEF AssignedTo
<1>5. AssignedTo(o) = {answered[i].courier : i \in {j \in 1..n : answered[j].order = o}}
  BY <1>3 DEF AssignedTo
<1> QED  BY <1>3, <1>4, <1>5

\* What the region does without this order leaves it alone.
LEMMA CarriedStays ==
  ASSUME NEW o \in Orders, Carried(o), AssignedTo(o) \subseteq AssignedTo(o)',
         place'[o] = place[o], input'[o] = input[o], courier'[o] = courier[o],
         mailbox'[o] = mailbox[o], carrier'[o] = carrier[o], settled'[o] = settled[o]
  PROVE  Carried(o)'
<1>1. \A c : Carries(o, c) => Carries(o, c)'
  BY DEF Carries
<1>2. \A c, d : Follows(o, c, d) => Follows(o, c, d)'
  BY DEF Follows
<1> QED  BY <1>1, <1>2 DEF Carried, Carries, Follows

\* An order's own step.
LEMMA OwnStep ==
  ASSUME RegionInv, OrderTypeOK, NEW o \in Orders, Carried(o),
         OrderStep(o) \/ Notify(o), UNCHANGED answered
  PROVE  Carried(o)'
<1> DEFINE A == AssignedTo(o)
<1>1. /\ AssignedTo(o)' = A /\ A \subseteq CourierIds
      /\ \A c, d \in A : c = d
      /\ OwnFallback \notin A /\ NoCourier \notin A /\ OwnFallback # NoCourier
  BY AnswersStay, AnswersType, OneAnswer, FallbackAssumption
<1> HIDE DEF A
<1>2. /\ place \in [Orders -> Open \cup Closed \cup {"idle"}] /\ DOMAIN courier = Orders
      /\ DOMAIN mailbox = Orders /\ DOMAIN carrier = Orders /\ DOMAIN settled = Orders
      /\ mailbox[o] \in Seq(CourierIds)
  BY DEF OrderTypeOK
<1> USE DEF Carried, Carries, Follows, Move, Ready
<1>3. CASE StartOrder(o)
  BY <1>1, <1>2, <1>3 DEF StartOrder, A
<1>4. CASE TimeOut(o)
  BY <1>1, <1>2, <1>4 DEF TimeOut, A
<1>5. CASE TakeAssignment(o)
  <2>1. Head(mailbox[o]) \in A /\ \A i \in 1..Len(Tail(mailbox[o])) : Tail(mailbox[o])[i] \in A
    BY <1>2, <1>5 DEF TakeAssignment, A
  <2> DEFINE c == Head(mailbox[o])
             m == Tail(mailbox[o])
  <2>2. /\ courier'[o] = c /\ mailbox'[o] = m
        /\ UNCHANGED <<place[o], input[o], carrier[o], settled[o]>>
    BY <1>2, <1>5 DEF TakeAssignment
  <2> HIDE DEF c, m
  <2>3. c \in A /\ c # NoCourier /\ \A i \in 1..Len(m) : m[i] \in A
    BY <1>1, <2>1 DEF c, m
  <2>4. place[o] = "deliver" /\ input[o].track => c = carrier[o] \/ carrier[o] = OwnFallback
    BY <1>1, <2>3 DEF A
  <2> QED  BY <1>1, <2>2, <2>3, <2>4 DEF A
<1>6. CASE TryFails(o)
  BY <1>1, <1>2, <1>6 DEF TryFails, A, Activities
<1>7. CASE Reject(o)
  BY <1>1, <1>2, <1>7 DEF Reject, A
<1>8. CASE Advance(o)
  BY <1>1, <1>2, <1>8 DEF Advance, A
<1>9. CASE Accepted(o)
  BY <1>1, <1>2, <1>9 DEF Accepted, A
<1>10. CASE Notify(o)
  BY <1>1, <1>2, <1>10 DEF Notify, A
<1>11. CASE Notified(o)
  BY <1>1, <1>2, <1>11 DEF Notified, A
<1>12. CASE Assigned(o)
  BY <1>1, <1>2, <1>12 DEF Assigned, A
<1>13. CASE Fallback(o)
  BY <1>1, <1>2, <1>13 DEF Fallback, A
<1>14. CASE PickedUp(o)
  BY <1>1, <1>2, <1>14 DEF PickedUp, A
<1>15. CASE Delivered(o)
  BY <1>1, <1>2, <1>15 DEF Delivered, A
<1>16. CASE Return(o)
  BY <1>1, <1>2, <1>16 DEF Return, A
<1> QED
  BY <1>3, <1>4, <1>5, <1>6, <1>7, <1>8, <1>9, <1>10, <1>11, <1>12, <1>13, <1>14, <1>15, <1>16
  DEF OrderStep

\* A step of one order leaves the others alone.
LEMMA OthersStep ==
  ASSUME OrderTypeOK, NEW o \in Orders, NEW p \in Orders, p # o, Carried(p),
         OrderStep(o) \/ Notify(o), UNCHANGED answered
  PROVE  Carried(p)'
<1>1. /\ place'[p] = place[p] /\ input'[p] = input[p] /\ courier'[p] = courier[p]
      /\ mailbox'[p] = mailbox[p] /\ carrier'[p] = carrier[p] /\ settled'[p] = settled[p]
  BY DEF OrderStep, StartOrder, TimeOut, TakeAssignment, TryFails, Reject, Advance, Accepted,
     Notify, Notified, Assigned, Fallback, PickedUp, Delivered, Return, Move, OrderTypeOK
<1>2. AssignedTo(p)' = AssignedTo(p)  BY AnswersStay
<1> QED  BY <1>1, <1>2, CarriedStays

\* An answer of the region keeps the invariant: to an order it is addressed to,
\* running or closed, and to the others.
LEMMA ReplyCarried ==
  ASSUME RegionInv, OrderTypeOK, AllCarried, Reply, NEW o \in Orders
  PROVE  Carried(o)'
<1>1. /\ AssignedTo(o) \subseteq AssignedTo(o)' /\ Carried(o)
      /\ cur.order = o => cur.courier \in AssignedTo(o)'
  BY AnswersGrow DEF AllCarried
<1>2. /\ place'[o] = place[o] /\ input'[o] = input[o] /\ courier'[o] = courier[o]
      /\ carrier'[o] = carrier[o] /\ settled'[o] = settled[o]
  BY DEF Reply, Answer
<1>3. CASE mailbox'[o] = mailbox[o]
  BY <1>1, <1>2, <1>3, CarriedStays
<1>4. CASE mailbox'[o] = Append(mailbox[o], cur.courier) /\ cur.order = o
  <2> DEFINE B == AssignedTo(o)'
             m == mailbox[o]
  <2>1. m \in Seq(CourierIds) /\ cur.courier \in CourierIds /\ cur.courier \in B
    BY <1>1, <1>4, ReplyNames DEF OrderTypeOK
  <2>2. \A i \in 1..Len(m) : m[i] \in B  BY <1>1 DEF Carried
  <2> HIDE DEF B, m
  <2>3. \A i \in 1..Len(Append(m, cur.courier)) : Append(m, cur.courier)[i] \in B
    BY <2>1, <2>2
  <2>4. \A i \in 1..Len(mailbox'[o]) : mailbox'[o][i] \in AssignedTo(o)'
    BY <1>4, <2>3 DEF B, m
  <2> QED  BY <1>1, <1>2, <2>4 DEF Carried, Carries, Follows
<1>5. mailbox'[o] = mailbox[o] \/ (mailbox'[o] = Append(mailbox[o], cur.courier) /\ cur.order = o)
  BY ReplyNames DEF Reply, Answer, OrderTypeOK
<1> QED  BY <1>3, <1>4, <1>5

\* Every step keeps it.
LEMMA NextCarried ==
  ASSUME RegionInv, OrderTypeOK, AllCarried, [Next]_vars  PROVE AllCarried'
<1> SUFFICES ASSUME NEW p \in Orders  PROVE Carried(p)'
  BY DEF AllCarried
<1>1. Carried(p)  BY DEF AllCarried
<1>2. ASSUME UNCHANGED orderVars, UNCHANGED answered  PROVE Carried(p)'
  BY <1>1, <1>2, AnswersStay, CarriedStays DEF orderVars
<1>3. ASSUME NEW o \in Orders, OrderStep(o) \/ Notify(o), UNCHANGED answered  PROVE Carried(p)'
  BY <1>1, <1>3, OwnStep, OthersStep
<1>4. CASE UNCHANGED vars
  BY <1>2, <1>4 DEF vars, dispatchVars
<1>5. ASSUME NEW o \in Orders, Ask(o)  PROVE Carried(p)'
  BY <1>3, <1>5 DEF Ask, Region!Ready, Region!Post
<1>6. ASSUME NEW o \in Orders, OrderStep(o), UNCHANGED dispatchVars  PROVE Carried(p)'
  BY <1>3, <1>6 DEF dispatchVars
<1>7. CASE Reply
  BY <1>7, ReplyCarried
<1>8. CASE RegionStep /\ UNCHANGED orderVars
  <2>1. UNCHANGED answered
    BY <1>8 DEF RegionStep, Region!Announce, Region!Degrade, Region!Post, Region!Terminate,
       Region!Launch, Region!Handle, Region!HandleVoid, Region!Open, Region!Wake,
       Region!Inflated, Region!Replied
  <2> QED  BY <1>2, <1>8, <2>1
<1> QED  BY <1>4, <1>5, <1>6, <1>7, <1>8 DEF Next

\* The inductive invariant.
FleetInv == RegionInv /\ OrderTypeOK /\ AllCarried

\* It holds in every behaviour.
LEMMA Invariance == Spec => []FleetInv
<1>1. Init => FleetInv
  BY InitRegion, InitOrderTypes, InitCarried DEF Init, FleetInv
<1>2. FleetInv /\ [Next]_vars => FleetInv'
  BY NextRegion, NextOrderTypes, NextCarried DEF FleetInv
<1> QED  BY <1>1, <1>2, PTL DEF Spec

\* An order is carried by its own fallback or by a courier the region assigned
\* to this order, and is never settled without one (order.py:153, 175).
THEOREM CourierIsRight == Spec => []RightCourier
<1>1. FleetInv => RightCourier
  BY DEF FleetInv, AllCarried, Carried, Carries, RightCourier
<1> QED  BY <1>1, Invariance, PTL

\* No shift is paid for two orders.
THEOREM CourierPaidOnce == Spec => []PaidOnce
<1>1. FleetInv => PaidOnce
  <2> SUFFICES ASSUME FleetInv, NEW o \in Orders, NEW p \in Orders,
                      settled[o] = settled[p], settled[o] \in Couriers
               PROVE  o = p
    BY DEF PaidOnce
  <2>1. settled[o] # NoCourier /\ settled[o] # OwnFallback
    BY FallbackAssumption, CourierIdsAssumption
  <2>2. settled[o] \in AssignedTo(o) /\ settled[o] \in AssignedTo(p)
    BY <2>1 DEF FleetInv, AllCarried, Carried, Carries
  <2>3. PICK i \in DOMAIN answered : answered[i].order = o /\ answered[i].courier = settled[o]
    BY <2>2 DEF AssignedTo
  <2>4. PICK j \in DOMAIN answered : answered[j].order = p /\ answered[j].courier = settled[o]
    BY <2>2 DEF AssignedTo
  <2>5. RP!CourierServesOnce
    BY RegionAssumptions, RP!SharesOnce DEF FleetInv, RegionInv
  <2>6. settled[o] # Synthetic  BY RegionAssumption
  <2> QED  BY <2>3, <2>4, <2>5, <2>6 DEF RP!CourierServesOnce
<1> QED  BY <1>1, Invariance, PTL

\* Who visibility names differs from who is paid only after a late answer.
THEOREM CarrierIsWhoIsPaid == Spec => []CarrierChangesOnlyAfterFallback
<1>1. FleetInv => CarrierChangesOnlyAfterFallback
  BY DEF FleetInv, AllCarried, Carried, Follows, CarrierChangesOnlyAfterFallback
<1> QED  BY <1>1, Invariance, PTL


\* In the fleet the region's variables change as in Dispatch, whatever the
\* orders do: what holds of a region alone holds beside them.
THEOREM RegionIsDispatch == Spec => RP!Spec
<1>1. Init => RP!Init
  BY DEF Init, Region!Init, RP!Init, Region!Healthy, RP!Healthy
<1>2. [Next]_vars => [RP!Next]_(RP!vars)  BY RegionMoves
<1> QED  BY <1>1, <1>2, PTL DEF Spec, RP!Spec

\* So the region of a fleet implements RegionHealth as well, on which Relay
\* is built.
THEOREM RegionIsHealthy == Spec => RP!ImplementsRegionHealth
<1>1. RP!Spec => RP!ImplementsRegionHealth
  BY RegionAssumptions, RP!RefinesRegionHealth
<1> QED  BY <1>1, RegionIsDispatch, PTL
=============================================================================
