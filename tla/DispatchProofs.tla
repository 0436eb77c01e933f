--------------------------- MODULE DispatchProofs ---------------------------
(***************************************************************************)
(* A region answers every order once and in order, gives every shift away  *)
(* at most once, and is a RegionHealth, for all orders, couriers,          *)
(* thresholds and interleavings of signals, drains, hand-overs and         *)
(* terminations.  Each of the two counting properties is a statement about *)
(* one line of things that move from the inbox to the answers: a step      *)
(* moves something along its line, adds a new element at its end or takes  *)
(* a part out of it, and the elements of the line remain distinct and in   *)
(* their order.                                                            *)
(***************************************************************************)
EXTENDS Dispatch, FilterProofs, TLAPS

\* The smaller of two numbers.
LEMMA MinOfTwo ==
  ASSUME NEW a \in Int, NEW b \in Int
  PROVE  Min({a, b}) = IF a <= b THEN a ELSE b
BY DEF Min

\* The kind of a signal says what it carries.
LEMMA SignalKinds ==
  ASSUME NEW s \in Signals
  PROVE  /\ s.kind = "order" <=> s \in OrderReady
         /\ s.kind = "courier" <=> s \in CourierAvailable
         /\ s.kind = "degr" <=> s \in SetDegradation
         /\ s.kind = "order" => s.body \in Orders
         /\ s.kind = "courier" => s.body \in Couriers
         /\ s.kind = "degr" => s.body \in Degradations
BY DEF Signals, OrderReady, CourierAvailable, SetDegradation

\* While an answer is on its way, cur is one.
Placed == pc \in {"assign", "reply"} => cur \in Assignments

\* The type invariant with what makes it inductive.
Types == TypeOK /\ Placed

\* A region begins with the types.
LEMMA InitTypes == Init => Types
BY LimitsAssumption DEF Init, Types, TypeOK, Placed, Healthy, Degradations

\* The two counters stay within their caps.
LEMMA LaterNumbers ==
  ASSUME TypeOK
  PROVE  /\ Min({processed + 1, MaxProcessed}) \in 0..MaxProcessed
         /\ Min({hist + 1, HistoryCap}) \in 0..HistoryCap
<1>1. /\ processed + 1 \in Int /\ hist + 1 \in Int /\ MaxProcessed \in Int /\ HistoryCap \in Int
      /\ processed + 1 >= 0 /\ hist + 1 >= 0 /\ MaxProcessed >= 0 /\ HistoryCap >= 0
  BY LimitsAssumption DEF TypeOK
<1>2. /\ Min({processed + 1, MaxProcessed}) = IF processed + 1 <= MaxProcessed THEN processed + 1 ELSE MaxProcessed
      /\ Min({hist + 1, HistoryCap}) = IF hist + 1 <= HistoryCap THEN hist + 1 ELSE HistoryCap
  BY <1>1, MinOfTwo
<1> QED  BY <1>1, <1>2

\* order_ready that the server accepts keeps the types.
LEMMA ReadyTypes ==
  ASSUME Types, NEW o \in Orders, Ready(o)  PROVE Types'
<1>1. [kind |-> "order", body |-> o] \in Signals  BY DEF Signals, OrderReady
<1> QED  BY <1>1 DEF Types, TypeOK, Placed, Ready, Post, runVars

\* courier_available that the server accepts keeps the types.
LEMMA AnnounceTypes ==
  ASSUME Types, NEW c \in Couriers, Announce(c)  PROVE Types'
<1>1. [kind |-> "courier", body |-> c] \in Signals  BY DEF Signals, CourierAvailable
<1> QED  BY <1>1 DEF Types, TypeOK, Placed, Announce, Post, runVars

\* set_degradation that the server accepts keeps the types.
LEMMA DegradeTypes ==
  ASSUME Types, NEW d \in Degrs, Degrade(d)  PROVE Types'
<1>1. [kind |-> "degr", body |-> d] \in Signals
  BY ValuesAssumption DEF Signals, SetDegradation
<1>2. flips + 1 \in 0..MaxFlips  BY LimitsAssumption DEF Types, TypeOK, Degrade
<1> QED  BY <1>1, <1>2 DEF Types, TypeOK, Placed, Degrade, Post, runVars

\* The orders of the undelivered signals are orders.
LEMMA ReadyOrdersType ==
  ASSUME NEW s \in Seq(Signals)
  PROVE  ReadyOrders(s) \in Seq(Orders)
BY SignalKinds, BodiesType DEF ReadyOrders

\* A termination keeps the types.
LEMMA TerminateTypes ==
  ASSUME Types, Terminate  PROVE Types'
<1>1. ToSet(ReadyOrders(inbox)) \subseteq Orders /\ ToSet(pending) \subseteq Orders
  BY ReadyOrdersType DEF Types, TypeOK, ToSet
<1>2. pc = "assign" => cur.order \in Orders
  BY DEF Types, Placed, Assignments
<1>3. lost' \subseteq Orders
  BY <1>1, <1>2 DEF Terminate, Types, TypeOK
<1>4. restarts' \in 0..MaxRestarts
  BY LimitsAssumption DEF Terminate, Types, TypeOK
<1> QED  BY <1>3, <1>4 DEF Types, TypeOK, Placed, Terminate

\* A relaunch keeps the types.
LEMMA LaunchTypes ==
  ASSUME Types, Launch  PROVE Types'
BY LimitsAssumption DEF Types, TypeOK, Placed, Launch, clientVars, Healthy, Degradations

\* A handler keeps the types (order_ready, courier_available, set_degradation).
LEMMA HandleTypes ==
  ASSUME Types, Handle  PROVE Types'
<1>1. inbox \in Seq(Signals) /\ inbox # <<>>  BY DEF Types, TypeOK, Handle
<1>2. Head(inbox) \in Signals /\ Tail(inbox) \in Seq(Signals)  BY <1>1
<1>3. pending' \in Seq(Orders) /\ couriers' \in Seq(Couriers) /\ degr' \in Degradations
  BY <1>2, SignalKinds DEF Types, TypeOK, Handle
<1> QED  BY <1>2, <1>3 DEF Types, TypeOK, Placed, Handle, clientVars, Awaits

\* A handler that runs in a first task keeps the types.
LEMMA HandleVoidTypes ==
  ASSUME Types, HandleVoid  PROVE Types'
<1>1. inbox \in Seq(Signals) /\ inbox # <<>>  BY DEF Types, TypeOK, HandleVoid
<1>2. Head(inbox) \in Signals /\ Tail(inbox) \in Seq(Signals) /\ <<Head(inbox)>> \in Seq(Signals)
  BY <1>1
<1>3. ReadyOrders(<<Head(inbox)>>) \in Seq(Orders)
  BY <1>2, ReadyOrdersType
<1>4. ToSet(ReadyOrders(<<Head(inbox)>>)) \subseteq Orders
  BY <1>3 DEF ToSet
<1> QED  BY <1>2, <1>4 DEF Types, TypeOK, Placed, HandleVoid, runVars, clientVars

\* The order and the courier that _drain takes are one of each.
LEMMA TakeOrderTypes ==
  ASSUME TypeOK, TakeOrder
  PROVE  cur' \in Assignments /\ pending' \in Seq(Orders) /\ couriers' \in Seq(Couriers)
<1>1. pending \in Seq(Orders) /\ couriers \in Seq(Couriers) /\ pending # <<>>
  BY DEF TypeOK, TakeOrder
<1>2. Head(pending) \in Orders /\ Tail(pending) \in Seq(Orders)  BY <1>1
<1>3. couriers # <<>> => Head(couriers) \in Couriers /\ Tail(couriers) \in Seq(Couriers)
  BY <1>1
<1>4. cur' \in Assignments  BY <1>2, <1>3 DEF TakeOrder, Assignments
<1>5. couriers' \in Seq(Couriers) /\ pending' \in Seq(Orders)
  BY <1>1, <1>2, <1>3 DEF TakeOrder
<1> QED  BY <1>4, <1>5

\* From _drain to the next await the types are kept.
LEMMA DrainTypes ==
  ASSUME Types, NEW status \in {"healthy", "degraded"}, NEW n \in 0..MaxProcessed,
         NEW h \in 0..HistoryCap, Drain(status, n, h),
         UNCHANGED <<inbox, degr, clientVars, lost, answered>>
  PROVE  Types'
<1> USE DEF Types, TypeOK, Placed, clientVars
<1>1. CASE TakeOrder /\ shown' = status /\ processed' = n /\ hist' = h
  <2>1. cur' \in Assignments /\ pending' \in Seq(Orders) /\ couriers' \in Seq(Couriers)
    BY <1>1, TakeOrderTypes
  <2> QED  BY <1>1, <2>1 DEF TakeOrder, Awaits
<1>2. CASE cur' = Nobody /\ UNCHANGED pending /\ ContinueAsNew
  <2>1. LastOf(couriers, MaxCarried) \in Seq(Couriers)
    BY LimitsAssumption DEF LastOf
  <2> QED  BY <1>2, <2>1, LimitsAssumption DEF ContinueAsNew, Status
<1>3. CASE /\ cur' = Nobody /\ UNCHANGED <<pending, couriers>>
           /\ pc' = IF degr.inflate THEN "inflate" ELSE "wait"
           /\ shown' = IF degr.inflate THEN status ELSE Status(degr)
           /\ processed' = n /\ hist' = h
  BY <1>3 DEF Status, Awaits
<1> QED  BY <1>1, <1>2, <1>3 DEF Drain

\* The segments of run keep the types.
LEMMA CoroutineTypes ==
  ASSUME Types, Coroutine  PROVE Types'
<1>1. Status(degr) \in {"healthy", "degraded"} /\ shown \in {"healthy", "degraded"}
      /\ processed \in 0..MaxProcessed /\ hist \in 0..HistoryCap
  BY DEF Types, TypeOK, Status
<1>2. CASE Open
  BY <1>2 DEF Open, Resume, Types, TypeOK, Placed, clientVars, Awaits
<1>3. CASE Wake
  BY <1>1, <1>3, DrainTypes DEF Wake, Resume
<1>4. CASE Inflated
  BY <1>1, <1>4, LaterNumbers, DrainTypes DEF Inflated, Resume, Types
<1>5. CASE Assigned
  BY <1>5 DEF Assigned, Resume, Types, TypeOK, Placed, clientVars, Awaits
<1>6. CASE Replied
  BY <1>1, <1>6, LaterNumbers, DrainTypes DEF Replied, Resume, Types
<1> QED  BY <1>2, <1>3, <1>4, <1>5, <1>6 DEF Coroutine

\* Every step keeps the types.
LEMMA NextTypes ==
  ASSUME Types, [Next]_vars  PROVE Types'
<1>1. CASE UNCHANGED vars
  BY <1>1 DEF vars, runVars, clientVars, Types, TypeOK, Placed
<1> QED
  BY <1>1, ReadyTypes, AnnounceTypes, DegradeTypes, TerminateTypes, LaunchTypes,
     HandleTypes, HandleVoidTypes, CoroutineTypes DEF Next

\* The workflow's and its clients' variables keep their types.
THEOREM TypeCorrect == Spec => []TypeOK
<1>1. Types => TypeOK  BY DEF Types
<1> QED  BY <1>1, InitTypes, NextTypes, PTL DEF Spec

-----------------------------------------------------------------------------
\* ToSet and Elements are the same.
LEMMA SetOfElements ==
  ASSUME NEW X, NEW s \in Seq(X)  PROVE ToSet(s) = Elements(s)
<1>1. DOMAIN s = 1..Len(s)  OBVIOUS
<1> QED  BY <1>1 DEF ToSet, Elements

\* The orders' line: answered, with the activity, in self._pending, and in
\* signals that are not delivered yet.
Line == Join(Join(Join(AnsweredOrders, InAssign), pending), ReadyOrders(inbox))

\* The property with what makes it inductive: no order is sent twice, and what
\* is lost had been sent.
OrdersInv ==
  /\ Distinct(sent)
  /\ lost \subseteq Elements(sent)
  /\ EachOrderOnceInOrder

\* At first the line is empty.
LEMMA InitOrders == Init => OrdersInv
<1> SUFFICES ASSUME Init  PROVE OrdersInv
  OBVIOUS
<1>1. inbox = <<>> /\ pc = "closed" /\ pending = <<>> /\ answered = <<>> /\ sent = <<>> /\ lost = {}
  BY DEF Init
<1>2. ReadyOrders(inbox) = <<>> /\ Only(sent, Orders \ lost) = <<>>
  BY <1>1, BodiesEmpty, OnlyEmpty DEF ReadyOrders
<1>3. InAssign = <<>> /\ Len(sent) = 0 /\ Len(answered) = 0
  BY <1>1 DEF InAssign
<1>4. AnsweredOrders = <<>>
  BY <1>3 DEF AnsweredOrders
<1> QED  BY <1>1, <1>2, <1>3, <1>4 DEF OrdersInv, EachOrderOnceInOrder, Distinct, Elements

\* The parts of the line are sequences of orders.
LEMMA LineTypes ==
  ASSUME Types
  PROVE  /\ AnsweredOrders \in Seq(Orders) /\ InAssign \in Seq(Orders)
         /\ pending \in Seq(Orders) /\ ReadyOrders(inbox) \in Seq(Orders)
         /\ sent \in Seq(Orders)
<1>1. \A i \in 1..Len(answered) : answered[i].order \in Orders
  <2>1. \A a \in Assignments : a.order \in Orders  BY DEF Assignments
  <2>2. answered \in Seq(Assignments)  BY DEF Types, TypeOK
  <2> QED  BY <2>1, <2>2
<1>2. Len(answered) \in Nat  BY DEF Types, TypeOK
<1>3. AnsweredOrders \in Seq(Orders)  BY <1>1, <1>2 DEF AnsweredOrders
<1>4. pc = "assign" => cur.order \in Orders  BY DEF Types, Placed, Assignments
<1>5. InAssign \in Seq(Orders)  BY <1>4 DEF InAssign
<1> QED  BY <1>3, <1>5, ReadyOrdersType DEF Types, TypeOK

\* A step that moves orders along their line, and none in or out of it.
LEMMA SameLine ==
  ASSUME OrdersInv, UNCHANGED <<sent, lost>>, Line' = Line
  PROVE  OrdersInv'
BY DEF OrdersInv, EachOrderOnceInOrder, Line, Join, Distinct, Elements

\* A new signal adds its order to the undelivered ones.
LEMMA NewSignal ==
  ASSUME Types, NEW x \in Signals
  PROVE  ReadyOrders(Append(inbox, x)) =
           IF x \in OrderReady THEN Append(ReadyOrders(inbox), x.body) ELSE ReadyOrders(inbox)
<1>1. inbox \in Seq(Signals)  BY DEF Types, TypeOK
<1> QED  BY <1>1, BodiesAppend DEF ReadyOrders

\* A signal that is taken from the inbox takes its order with it.
LEMMA OldSignal ==
  ASSUME Types, inbox # <<>>
  PROVE  /\ Head(inbox) \in Signals
         /\ ReadyOrders(inbox) =
              IF Head(inbox) \in OrderReady THEN <<Head(inbox).body>> \o ReadyOrders(Tail(inbox))
              ELSE ReadyOrders(Tail(inbox))
<1>1. inbox \in Seq(Signals)  BY DEF Types, TypeOK
<1>2. Head(inbox) \in Signals  BY <1>1
<1> QED  BY <1>1, <1>2, BodiesHeadTail DEF ReadyOrders

\* order_ready adds an order that was not sent before to the end of the line.
LEMMA ReadyOrder ==
  ASSUME Types, OrdersInv, NEW o \in Orders, Ready(o)
  PROVE  OrdersInv'
<1> DEFINE x == [kind |-> "order", body |-> o]
           K == Orders \ lost
           M == Orders \ lost'
<1>1. sent \in Seq(Orders) /\ sent' = Append(sent, o)
      /\ \A i \in 1..Len(sent) : sent[i] # o
  BY DEF Types, TypeOK, Ready, ToSet
<1>2. Distinct(sent') /\ Elements(sent') = Elements(sent) \cup {o}
  <2>1. o \notin Elements(sent)  BY <1>1 DEF Elements
  <2> QED  BY <1>1, <2>1, DistinctAppend DEF OrdersInv
<1>3. lost' \subseteq Elements(sent')
  BY <1>2 DEF OrdersInv, Ready
<1>4. o \notin lost
  BY <1>1 DEF OrdersInv, Elements
<1>5. UNCHANGED <<AnsweredOrders, InAssign, pending>>
  BY DEF Ready, Post, runVars, AnsweredOrders, InAssign
<1>6. Only(sent, K) = Line
  BY DEF OrdersInv, EachOrderOnceInOrder, Line, Join
<1>7. CASE pc = "closed"
  <2>1. Line' = Line  BY <1>5, <1>7 DEF Ready, Post, Line
  <2>2. lost' = lost \cup {o}  BY <1>7 DEF Ready
  <2>3. o \notin M  BY <2>2
  <2>4. \A i \in 1..Len(sent) : sent[i] \in M <=> sent[i] \in K
    BY <1>1, <2>2
  <2> HIDE DEF K, M
  <2>5. Only(sent', M) = Only(sent, M)  BY <1>1, <2>3, OnlyAppend
  <2>6. Only(sent, M) = Only(sent, K)  BY <1>1, <2>4, OnlySame
  <2>7. Only(sent', M) = Line'  BY <1>6, <2>1, <2>5, <2>6
  <2> QED  BY <1>2, <1>3, <2>7 DEF OrdersInv, EachOrderOnceInOrder, Line, Join, M
<1>8. CASE pc # "closed"
  <2>1. inbox' = Append(inbox, x) /\ lost' = lost  BY <1>8 DEF Ready, Post
  <2>2. x \in Signals /\ x \in OrderReady /\ x.body = o  BY DEF Signals, OrderReady
  <2>3. ReadyOrders(inbox') = Append(ReadyOrders(inbox), o)
    BY <2>1, <2>2, NewSignal
  <2> DEFINE before == Join(Join(AnsweredOrders, InAssign), pending)
  <2>4. before \in Seq(Orders) /\ ReadyOrders(inbox) \in Seq(Orders)
    BY LineTypes DEF Join
  <2>5. Line = Join(before, ReadyOrders(inbox))  BY DEF Line
  <2>6. Line' = Join(before, Append(ReadyOrders(inbox), o))
    BY <1>5, <2>3 DEF Line
  <2> HIDE DEF before
  <2>7. Line' = Append(Line, o)
    BY <2>4, <2>5, <2>6, ConcatAppend DEF Join
  <2>8. o \in K /\ M = K  BY <1>4, <2>1
  <2> HIDE DEF K, M
  <2>9. Only(sent', M) = Append(Only(sent, K), o)  BY <1>1, <2>8, OnlyAppend
  <2> QED  BY <1>2, <1>3, <1>6, <2>7, <2>9 DEF OrdersInv, EachOrderOnceInOrder, Line, Join, M
<1> QED  BY <1>7, <1>8

\* Orders that die leave the line, and it closes behind them.
LEMMA LeaveLine ==
  ASSUME Types, OrdersInv,
         NEW a \in Seq(Orders), NEW b \in Seq(Orders), NEW c \in Seq(Orders),
         Line = Join(Join(a, b), c), Line' = Join(a, c),
         sent' = sent, lost' = lost \cup Elements(b)
  PROVE  OrdersInv'
<1>1. sent \in Seq(Orders) /\ Distinct(sent)  BY DEF Types, TypeOK, OrdersInv
<1> DEFINE K == Orders \ lost
           M == Orders \ lost'
<1>2. Only(sent, K) = Join(Join(a, b), c)
  BY DEF OrdersInv, EachOrderOnceInOrder, Line, Join
<1>3. \A x \in Orders : x \in M <=> x \in K /\ x \notin Elements(b)
  OBVIOUS
<1> HIDE DEF K, M
<1>4. Only(sent, M) = Join(a, c)
  BY <1>1, <1>2, <1>3, OnlyDrop
<1>5. Elements(b) \subseteq Elements(sent)
  <2> DEFINE e == Elements(sent)
             l == (a \o b) \o c
  <2>1. /\ Len(a) \in Nat /\ Len(b) \in Nat /\ Len(c) \in Nat
        /\ Len(l) = Len(a) + Len(b) + Len(c)
        /\ \A i \in 1..Len(b) : l[Len(a) + i] = b[i]
    OBVIOUS
  <2>2. l = Only(sent, K)  BY <1>2 DEF Join
  <2> HIDE DEF l
  <2>3. \A i \in 1..Len(l) : l[i] \in e
    BY <1>1, <2>2, OnlyElements DEF Elements
  <2> HIDE DEF e
  <2> SUFFICES ASSUME NEW i \in 1..Len(b)  PROVE b[i] \in e
    BY DEF Elements, e
  <2>4. Len(a) + i \in 1..Len(l)  BY <2>1
  <2> QED  BY <2>1, <2>3, <2>4
<1>6. Distinct(sent') /\ lost' \subseteq Elements(sent')
  BY <1>5 DEF OrdersInv, Distinct, Elements
<1>7. Only(sent', Orders \ lost') = Line'
  BY <1>4 DEF M
<1> QED  BY <1>6, <1>7 DEF OrdersInv, EachOrderOnceInOrder, Line, Join

\* An order whose signal a first task voids leaves the line.
LEMMA HandleVoidOrder ==
  ASSUME Types, OrdersInv, HandleVoid  PROVE OrdersInv'
<1> DEFINE before == Join(Join(AnsweredOrders, InAssign), pending)
           x == Head(inbox)
           after == ReadyOrders(Tail(inbox))
           gone == ReadyOrders(<<x>>)
<1>1. inbox # <<>> /\ inbox \in Seq(Signals) /\ inbox' = Tail(inbox)
      /\ UNCHANGED <<AnsweredOrders, InAssign, pending, sent>>
      /\ lost' = lost \cup ToSet(gone)
  BY DEF HandleVoid, Types, TypeOK, runVars, clientVars, AnsweredOrders, InAssign
<1>2. x \in Signals /\ <<x>> \in Seq(Signals) /\ Tail(inbox) \in Seq(Signals)
  BY <1>1
<1>3. gone = IF x \in OrderReady THEN <<x.body>> ELSE <<>>
  BY BodiesOne DEF ReadyOrders
<1>4. before \in Seq(Orders) /\ gone \in Seq(Orders) /\ after \in Seq(Orders)
  <2>1. before \in Seq(Orders)  BY LineTypes DEF Join
  <2>2. gone \in Seq(Orders)
    <3> HIDE DEF x
    <3> QED  BY <1>2, ReadyOrdersType
  <2>3. after \in Seq(Orders)  BY <1>2, ReadyOrdersType
  <2> QED  BY <2>1, <2>2, <2>3
<1>5. ReadyOrders(inbox) = IF x \in OrderReady THEN <<x.body>> \o after ELSE after
  BY <1>1, OldSignal
<1>6. ReadyOrders(inbox) = Join(gone, after)
  <2>1. <<>> \o after = after  BY <1>4
  <2> QED  BY <1>3, <1>5, <2>1 DEF Join
<1>7. Line = Join(before, ReadyOrders(inbox)) /\ Line' = Join(before, after)
  BY <1>1 DEF Line
<1> HIDE DEF before, after, gone
<1>8. ToSet(gone) = Elements(gone)
  BY <1>4, SetOfElements
<1>9. Join(before, Join(gone, after)) = Join(Join(before, gone), after)
  BY <1>4 DEF Join
<1> QED  BY <1>1, <1>4, <1>6, <1>7, <1>8, <1>9, LeaveLine

\* What a terminated run has not answered leaves the line.
LEMMA TerminateOrder ==
  ASSUME Types, OrdersInv, Terminate  PROVE OrdersInv'
<1> DEFINE a == AnsweredOrders
           b == Join(Join(InAssign, pending), ReadyOrders(inbox))
<1>1. /\ pc' = "closed" /\ inbox' = <<>> /\ pending' = <<>>
      /\ UNCHANGED <<AnsweredOrders, sent>>
      /\ lost' = lost \cup ToSet(ReadyOrders(inbox)) \cup ToSet(pending)
                       \cup (IF pc = "assign" THEN {cur.order} ELSE {})
  BY DEF Terminate, AnsweredOrders
<1>2. /\ a \in Seq(Orders) /\ InAssign \in Seq(Orders) /\ pending \in Seq(Orders)
      /\ ReadyOrders(inbox) \in Seq(Orders) /\ b \in Seq(Orders)
  BY LineTypes DEF Join
<1>3. ReadyOrders(inbox') = <<>>  BY <1>1, BodiesEmpty DEF ReadyOrders
<1>4. InAssign' = <<>>  BY <1>1 DEF InAssign
<1>5. Line' = Join(Join(Join(a, <<>>), <<>>), <<>>)
  BY <1>1, <1>3, <1>4 DEF Line
<1>6. Elements(InAssign) = IF pc = "assign" THEN {cur.order} ELSE {}
  <2>1. Len(<<cur.order>>) = 1 /\ <<cur.order>>[1] = cur.order /\ Len(<<>>) = 0
    OBVIOUS
  <2> QED  BY <2>1 DEF InAssign, Elements
<1>7. Elements(b) = (Elements(InAssign) \cup Elements(pending)) \cup Elements(ReadyOrders(inbox))
  <2> DEFINE u == Join(InAssign, pending)
  <2>1. u \in Seq(Orders)  BY <1>2 DEF Join
  <2>2. Elements(u) = Elements(InAssign) \cup Elements(pending)  BY <1>2, ElementsConcat
  <2> HIDE DEF u
  <2>3. Elements(Join(u, ReadyOrders(inbox))) = Elements(u) \cup Elements(ReadyOrders(inbox))
    BY <1>2, <2>1, ElementsConcat
  <2> QED  BY <2>2, <2>3 DEF u
<1>8. ToSet(ReadyOrders(inbox)) = Elements(ReadyOrders(inbox)) /\ ToSet(pending) = Elements(pending)
  BY <1>2, SetOfElements
<1>9. lost' = lost \cup Elements(b)
  BY <1>1, <1>6, <1>7, <1>8
<1>10. Line = Join(Join(a, b), <<>>)
  BY <1>2, FourInTwo DEF Line
<1>11. Line' = Join(a, <<>>)
  BY <1>2, <1>5 DEF Join
<1>12. <<>> \in Seq(Orders)  OBVIOUS
<1> HIDE DEF a, b
<1> QED  BY <1>1, <1>2, <1>9, <1>10, <1>11, <1>12, LeaveLine

\* The handler of order_ready moves an order from the inbox to self._pending.
LEMMA HandleOrder ==
  ASSUME Types, OrdersInv, Handle  PROVE OrdersInv'
<1> DEFINE x == Head(inbox)
           u == Join(AnsweredOrders, InAssign)
           r == ReadyOrders(Tail(inbox))
<1>1. /\ inbox # <<>> /\ inbox \in Seq(Signals) /\ inbox' = Tail(inbox)
      /\ UNCHANGED <<AnsweredOrders, InAssign, sent, lost>>
      /\ pending' = IF x.kind = "order" THEN Append(pending, x.body) ELSE pending
  BY DEF Handle, Types, TypeOK, clientVars, AnsweredOrders, InAssign, Awaits
<1>2. x \in Signals /\ Tail(inbox) \in Seq(Signals)  BY <1>1
<1>3. (x.kind = "order" <=> x \in OrderReady) /\ (x.kind = "order" => x.body \in Orders)
  BY <1>2, SignalKinds
<1>4. ReadyOrders(inbox) = IF x \in OrderReady THEN <<x.body>> \o r ELSE r
  BY <1>1, OldSignal
<1>5. u \in Seq(Orders) /\ r \in Seq(Orders) /\ pending \in Seq(Orders)
  <2>1. u \in Seq(Orders) /\ pending \in Seq(Orders)  BY LineTypes DEF Join
  <2>2. r \in Seq(Orders)  BY <1>2, ReadyOrdersType
  <2> QED  BY <2>1, <2>2
<1>6. Line = Join(Join(u, pending), ReadyOrders(inbox)) /\ Line' = Join(Join(u, pending'), r)
  BY <1>1 DEF Line
<1> HIDE DEF u, r, x
<1>7. CASE x.kind = "order"
  <2>1. ReadyOrders(inbox) = Join(<<x.body>>, r)  BY <1>3, <1>4, <1>7 DEF Join
  <2>2. Join(Join(u, pending), Join(<<x.body>>, r)) = Join(Join(u, Append(pending, x.body)), r)
    BY <1>3, <1>5, <1>7, HeadToBack
  <2> QED  BY <1>1, <1>6, <1>7, <2>1, <2>2, SameLine
<1>8. CASE x.kind # "order"
  BY <1>1, <1>3, <1>4, <1>6, <1>8, SameLine
<1> QED  BY <1>7, <1>8

\* _drain takes the first of the pending orders, or leaves the line alone.
LEMMA DrainOrder ==
  ASSUME Types, OrdersInv, NEW status, NEW n, NEW h, Drain(status, n, h), pc # "assign",
         UNCHANGED <<inbox, degr, clientVars, lost, answered>>
  PROVE  OrdersInv'
<1>1. UNCHANGED <<AnsweredOrders, inbox, sent, lost>>
  BY DEF clientVars, AnsweredOrders
<1>2. InAssign = <<>>  BY DEF InAssign
<1>3. CASE UNCHANGED pending /\ pc' # "assign"
  <2>1. InAssign' = <<>> /\ pending' = pending  BY <1>3 DEF InAssign
  <2> QED  BY <1>1, <1>2, <2>1, SameLine DEF Line
<1>4. CASE TakeOrder
  <2>1. pending # <<>> /\ pending' = Tail(pending) /\ InAssign' = <<Head(pending)>>
    BY <1>4 DEF TakeOrder, InAssign
  <2>2. AnsweredOrders \in Seq(Orders) /\ pending \in Seq(Orders)  BY LineTypes
  <2>3. Join(Join(AnsweredOrders, <<>>), pending)
          = Join(Join(AnsweredOrders, <<Head(pending)>>), Tail(pending))
    BY <2>1, <2>2, HeadForward
  <2> QED  BY <1>1, <1>2, <2>1, <2>3, SameLine DEF Line
<1> QED  BY <1>3, <1>4 DEF Drain, ContinueAsNew

\* A new answer adds its order to the answered ones.
LEMMA MapAppend ==
  ASSUME Types, NEW a \in Assignments, answered' = Append(answered, a)
  PROVE  AnsweredOrders' = Append(AnsweredOrders, a.order)
<1> DEFINE n == Len(answered)
<1>1. /\ n \in Nat /\ Len(answered') = n + 1
      /\ answered'[n + 1] = a
      /\ \A i \in 1..n : answered'[i] = answered[i]
  BY DEF Types, TypeOK
<1>2. AnsweredOrders \in Seq(Orders) /\ a.order \in Orders
  BY LineTypes DEF Assignments
<1>3. Len(AnsweredOrders) = n /\ \A i \in 1..n : AnsweredOrders[i] = answered[i].order
  BY <1>1 DEF AnsweredOrders
<1> HIDE DEF n
<1>4. AnsweredOrders' = [i \in 1..(n + 1) |-> answered'[i].order]
  BY <1>1 DEF AnsweredOrders
<1> DEFINE b == AnsweredOrders
<1>5. Append(b, a.order) = [i \in 1..(n + 1) |-> IF i = n + 1 THEN a.order ELSE b[i]]
  <2> HIDE DEF b
  <2>1. b \in Seq(Orders) /\ Len(b) = n  BY <1>2, <1>3 DEF b
  <2> QED  BY <1>1, <2>1
<1>6. \A i \in 1..(n + 1) : i = n + 1 \/ i \in 1..n
  BY <1>1
<1> QED  BY <1>1, <1>3, <1>4, <1>5, <1>6

\* An answer moves its order from the activity to the answered ones.
LEMMA AssignedOrder ==
  ASSUME Types, OrdersInv, Assigned  PROVE OrdersInv'
<1>1. UNCHANGED <<pending, inbox, sent, lost>>
  BY DEF Assigned, Resume, clientVars
<1>2. InAssign = <<cur.order>> /\ InAssign' = <<>>
  BY DEF Assigned, Resume, InAssign
<1>3. cur \in Assignments /\ cur.order \in Orders
  BY DEF Assigned, Resume, Types, Placed, Assignments
<1>4. AnsweredOrders' = Append(AnsweredOrders, cur.order)
  BY <1>3, MapAppend DEF Assigned
<1>5. AnsweredOrders \in Seq(Orders)  BY LineTypes
<1>6. Join(AnsweredOrders, <<cur.order>>) = Join(Append(AnsweredOrders, cur.order), <<>>)
  BY <1>3, <1>5, LastForward
<1> QED  BY <1>1, <1>2, <1>4, <1>6, SameLine DEF Line

\* Every step keeps the line.
LEMMA NextOrders ==
  ASSUME Types, OrdersInv, [Next]_vars  PROVE OrdersInv'
<1>1. CASE UNCHANGED vars
  BY <1>1, SameLine DEF vars, runVars, clientVars, Line, AnsweredOrders, InAssign
<1>2. ASSUME NEW c \in Couriers, Announce(c)  PROVE OrdersInv'
  <2>1. UNCHANGED <<AnsweredOrders, InAssign, pending, sent, lost>>
    BY <1>2 DEF Announce, Post, runVars, AnsweredOrders, InAssign
  <2> DEFINE x == [kind |-> "courier", body |-> c]
  <2>2. x \in Signals /\ x \notin OrderReady  BY DEF Signals, CourierAvailable, OrderReady
  <2>3. inbox' = inbox \/ inbox' = Append(inbox, x)  BY <1>2 DEF Announce, Post
  <2> HIDE DEF x
  <2>4. ReadyOrders(Append(inbox, x)) = ReadyOrders(inbox)  BY <2>2, NewSignal
  <2>5. ReadyOrders(inbox)' = ReadyOrders(inbox)
    <3>1. CASE inbox' = inbox  BY <3>1
    <3>2. CASE inbox' = Append(inbox, x)  BY <2>4, <3>2
    <3> QED  BY <2>3, <3>1, <3>2
  <2> QED  BY <2>1, <2>5, SameLine DEF Line
<1>3. ASSUME NEW d \in Degrs, Degrade(d)  PROVE OrdersInv'
  <2>1. UNCHANGED <<AnsweredOrders, InAssign, pending, sent, lost>>
    BY <1>3 DEF Degrade, Post, runVars, AnsweredOrders, InAssign
  <2> DEFINE x == [kind |-> "degr", body |-> d]
  <2>2. x \in Signals /\ x \notin OrderReady
    BY ValuesAssumption DEF Signals, SetDegradation, OrderReady
  <2>3. inbox' = inbox \/ inbox' = Append(inbox, x)  BY <1>3 DEF Degrade, Post
  <2> HIDE DEF x
  <2>4. ReadyOrders(Append(inbox, x)) = ReadyOrders(inbox)  BY <2>2, NewSignal
  <2>5. ReadyOrders(inbox)' = ReadyOrders(inbox)
    <3>1. CASE inbox' = inbox  BY <3>1
    <3>2. CASE inbox' = Append(inbox, x)  BY <2>4, <3>2
    <3> QED  BY <2>3, <3>1, <3>2
  <2> QED  BY <2>1, <2>5, SameLine DEF Line
<1>4. CASE Launch
  BY <1>4, SameLine DEF Launch, clientVars, Line, AnsweredOrders, InAssign
<1>5. CASE Open
  <2>1. UNCHANGED <<answered, pending, inbox, sent, lost>> /\ pc # "assign" /\ pc' # "assign"
    BY <1>5 DEF Open, Resume, clientVars
  <2> QED  BY <2>1, SameLine DEF Line, AnsweredOrders, InAssign
<1>6. CASE Wake
  BY <1>6, DrainOrder DEF Wake, Resume
<1>7. CASE Inflated
  BY <1>7, DrainOrder DEF Inflated, Resume
<1>8. CASE Replied
  BY <1>8, DrainOrder DEF Replied, Resume
<1> QED
  BY <1>1, <1>2, <1>3, <1>4, <1>5, <1>6, <1>7, <1>8, ReadyOrder, TerminateOrder, HandleOrder,
     HandleVoidOrder, AssignedOrder DEF Next, Coroutine

\* So no order is answered twice.
LEMMA AnsweredOnce ==
  ASSUME Types, OrdersInv
  PROVE  \A i, j \in DOMAIN answered : answered[i].order = answered[j].order => i = j
<1> DEFINE c == Join(Join(InAssign, pending), ReadyOrders(inbox))
           K == Orders \ lost
<1>1. AnsweredOrders \in Seq(Orders) /\ c \in Seq(Orders) /\ sent \in Seq(Orders)
  BY LineTypes DEF Join
<1>2. Line = Join(Join(AnsweredOrders, c), <<>>)  BY LineTypes, FourInTwo DEF Line
<1> HIDE DEF c
<1>3. Join(Join(AnsweredOrders, c), <<>>) = Join(AnsweredOrders, c)  BY <1>1 DEF Join
<1>4. Only(sent, K) = Line  BY DEF OrdersInv, EachOrderOnceInOrder, Line, Join
<1> HIDE DEF K
<1>5. Distinct(Line)  BY <1>1, <1>4, OnlyDistinct DEF OrdersInv, Distinct
<1>6. Distinct(AnsweredOrders)  BY <1>1, <1>2, <1>3, <1>5, DistinctFirst
<1>7. /\ DOMAIN answered = 1..Len(answered)
      /\ Len(AnsweredOrders) = Len(answered)
      /\ \A i \in 1..Len(answered) : AnsweredOrders[i] = answered[i].order
  BY DEF Types, TypeOK, AnsweredOrders
<1> QED  BY <1>6, <1>7 DEF Distinct

\* Orders always drain (order.py:131-134): each accepted order that is not
\* lost is in one place, answered at most once, in the order of arrival.
THEOREM EachOrderOnce == Spec => []EachOrderOnceInOrder
<1>1. Init => Types /\ OrdersInv  BY InitTypes, InitOrders
<1>2. Types /\ OrdersInv /\ [Next]_vars => (Types /\ OrdersInv)'
  BY NextTypes, NextOrders
<1>3. OrdersInv => EachOrderOnceInOrder  BY DEF OrdersInv
<1> QED  BY <1>1, <1>2, <1>3, PTL DEF Spec

-----------------------------------------------------------------------------
\* Who the answers name.
AnsweredCouriers == [i \in 1..Len(answered) |-> answered[i].courier]

\* The shifts among them: the others were invented.
Served == Only(AnsweredCouriers, Couriers)

\* The shift that the answer under way will name.
InHand == IF pc = "assign" /\ cur.courier \in Couriers THEN <<cur.courier>> ELSE <<>>

\* The shifts whose courier_available is in s.
Offered(s) == Bodies(s, CourierAvailable)

\* The shifts' line: named in an answer, about to be, in self._couriers, and
\* offered in signals that are not delivered yet.
Shifts == Join(Join(Join(Served, InHand), couriers), Offered(inbox))

\* No shift is in the line twice, and each has announced itself.
SharesInv == Distinct(Shifts) /\ Elements(Shifts) \subseteq announced

\* The offered shifts are shifts.
LEMMA OfferedType ==
  ASSUME NEW s \in Seq(Signals)
  PROVE  Offered(s) \in Seq(Couriers)
BY SignalKinds, BodiesType DEF Offered

\* An answer names a shift or an invented courier.
LEMMA AnsweredCouriersType ==
  ASSUME Types
  PROVE  AnsweredCouriers \in Seq(Couriers \cup {Synthetic})
<1>1. \A a \in Assignments : a.courier \in Couriers \cup {Synthetic}  BY DEF Assignments
<1>2. answered \in Seq(Assignments)  BY DEF Types, TypeOK
<1>3. \A i \in 1..Len(answered) : answered[i].courier \in Couriers \cup {Synthetic}
  BY <1>1, <1>2
<1>4. Len(answered) \in Nat  BY <1>2
<1> QED  BY <1>3, <1>4 DEF AnsweredCouriers

\* The parts of the line are sequences of shifts.
LEMMA ShiftsTypes ==
  ASSUME Types
  PROVE  /\ Served \in Seq(Couriers) /\ InHand \in Seq(Couriers)
         /\ couriers \in Seq(Couriers) /\ Offered(inbox) \in Seq(Couriers)
<1>1. Served \in Seq(Couriers)
  <2> DEFINE Y == Couriers \cup {Synthetic}
  <2>1. \A x \in Y : x \in Couriers => x \in Couriers  OBVIOUS
  <2>2. AnsweredCouriers \in Seq(Y)  BY AnsweredCouriersType
  <2> HIDE DEF Y
  <2> QED  BY <2>1, <2>2, OnlyType DEF Served
<1>2. InHand \in Seq(Couriers)  BY DEF InHand
<1> QED  BY <1>1, <1>2, OfferedType DEF Types, TypeOK

\* At first the line is empty.
LEMMA InitShares == Init => SharesInv
<1> SUFFICES ASSUME Init  PROVE SharesInv
  OBVIOUS
<1>1. inbox = <<>> /\ pc = "closed" /\ couriers = <<>> /\ Len(answered) = 0
  BY DEF Init
<1>2. Offered(inbox) = <<>> /\ InHand = <<>>
  BY <1>1, BodiesEmpty DEF Offered, InHand
<1>3. AnsweredCouriers = <<>>  BY <1>1 DEF AnsweredCouriers
<1>4. Served = <<>>  BY <1>3, OnlyEmpty DEF Served
<1>5. Shifts = <<>> /\ Len(<<>>) = 0
  BY <1>1, <1>2, <1>4 DEF Shifts, Join
<1> QED  BY <1>5 DEF SharesInv, Distinct, Elements

\* A step that moves shifts along their line, and none in or out of it.
LEMMA SameShifts ==
  ASSUME SharesInv, UNCHANGED announced, Shifts' = Shifts
  PROVE  SharesInv'
BY DEF SharesInv, Distinct, Elements

\* A step in which shifts drop out of the line.
LEMMA LeaveShifts ==
  ASSUME Types, SharesInv, UNCHANGED announced,
         NEW a \in Seq(Couriers), NEW b \in Seq(Couriers), NEW c \in Seq(Couriers),
         Shifts = Join(Join(a, b), c), Shifts' = Join(a, c)
  PROVE  SharesInv'
<1> DEFINE l == Join(Join(a, b), c)
           m == Join(a, c)
<1>1. Distinct(l) /\ Elements(l) \subseteq announced  BY DEF SharesInv, Distinct, Elements
<1>2. Distinct(m) /\ Elements(m) \subseteq Elements(l)  BY <1>1, DistinctDrop
<1> HIDE DEF l
<1>3. Distinct(Shifts') /\ Elements(Shifts') \subseteq announced'
  BY <1>1, <1>2
<1> QED  BY <1>3 DEF SharesInv, Distinct, Elements

\* A new signal adds its shift to the offered ones.
LEMMA NewOffer ==
  ASSUME Types, NEW x \in Signals
  PROVE  Offered(Append(inbox, x)) =
           IF x \in CourierAvailable THEN Append(Offered(inbox), x.body) ELSE Offered(inbox)
<1>1. inbox \in Seq(Signals)  BY DEF Types, TypeOK
<1> QED  BY <1>1, BodiesAppend DEF Offered

\* A signal that is taken from the inbox takes its shift with it.
LEMMA OldOffer ==
  ASSUME Types, inbox # <<>>
  PROVE  /\ Head(inbox) \in Signals
         /\ Offered(inbox) =
              IF Head(inbox) \in CourierAvailable THEN <<Head(inbox).body>> \o Offered(Tail(inbox))
              ELSE Offered(Tail(inbox))
<1>1. inbox \in Seq(Signals)  BY DEF Types, TypeOK
<1>2. Head(inbox) \in Signals  BY <1>1
<1> QED  BY <1>1, <1>2, BodiesHeadTail DEF Offered

\* A shift that announces itself for the first time comes to the end of the line.
LEMMA AnnounceShares ==
  ASSUME Types, SharesInv, NEW c \in Couriers, Announce(c)  PROVE SharesInv'
<1> DEFINE x == [kind |-> "courier", body |-> c]
           u == Join(Join(Served, InHand), couriers)
<1>1. announced' = announced \cup {c} /\ c \notin announced
      /\ UNCHANGED <<Served, InHand, couriers>>
  BY DEF Announce, Post, runVars, Served, AnsweredCouriers, InHand
<1>2. x \in Signals /\ x \in CourierAvailable /\ x.body = c  BY DEF Signals, CourierAvailable
<1>3. inbox' = inbox \/ inbox' = Append(inbox, x)  BY DEF Announce, Post
<1>4. CASE inbox' = inbox
  BY <1>1, <1>4 DEF SharesInv, Shifts, Distinct, Elements
<1>5. CASE inbox' = Append(inbox, x)
  <2>1. Offered(inbox)' = Append(Offered(inbox), c)  BY <1>2, <1>5, NewOffer
  <2>2. u \in Seq(Couriers) /\ Offered(inbox) \in Seq(Couriers)
    BY ShiftsTypes DEF Join
  <2>3. Shifts = Join(u, Offered(inbox)) /\ Shifts' = Join(u, Append(Offered(inbox), c))
    BY <1>1, <2>1 DEF Shifts
  <2> HIDE DEF u
  <2>4. Shifts' = Append(Shifts, c) /\ Shifts \in Seq(Couriers)
    BY <2>2, <2>3, ConcatAppend DEF Join
  <2>5. Distinct(Shifts) /\ c \notin Elements(Shifts)
    BY <1>1 DEF SharesInv
  <2>6. Distinct(Append(Shifts, c)) /\ Elements(Append(Shifts, c)) = Elements(Shifts) \cup {c}
    BY <2>4, <2>5, DistinctAppend
  <2> QED  BY <1>1, <2>4, <2>6 DEF SharesInv, Distinct, Elements
<1> QED  BY <1>3, <1>4, <1>5

\* A termination takes the waiting shifts out of the line.
LEMMA TerminateShares ==
  ASSUME Types, SharesInv, Terminate  PROVE SharesInv'
<1> DEFINE b == Join(Join(InHand, couriers), Offered(inbox))
<1>1. /\ pc' = "closed" /\ inbox' = <<>> /\ couriers' = <<>>
      /\ UNCHANGED <<Served, announced>>
  BY DEF Terminate, Served, AnsweredCouriers
<1>2. Served \in Seq(Couriers) /\ b \in Seq(Couriers) /\ <<>> \in Seq(Couriers)
  BY ShiftsTypes DEF Join
<1>3. Offered(inbox)' = <<>> /\ InHand' = <<>>
  BY <1>1, BodiesEmpty DEF Offered, InHand
<1>4. Shifts' = Join(Served, <<>>)
  BY <1>1, <1>2, <1>3 DEF Shifts, Join
<1>5. Shifts = Join(Join(Served, b), <<>>)
  BY ShiftsTypes, FourInTwo DEF Shifts
<1> HIDE DEF b
<1> QED  BY <1>1, <1>2, <1>4, <1>5, LeaveShifts

\* The handler of courier_available moves a shift into the pool.
LEMMA HandleShares ==
  ASSUME Types, SharesInv, Handle  PROVE SharesInv'
<1> DEFINE x == Head(inbox)
           u == Join(Served, InHand)
           r == Offered(Tail(inbox))
<1>1. /\ inbox # <<>> /\ inbox \in Seq(Signals) /\ inbox' = Tail(inbox)
      /\ UNCHANGED <<Served, InHand, announced>>
      /\ couriers' = IF x.kind = "courier" THEN Append(couriers, x.body) ELSE couriers
  BY DEF Handle, Types, TypeOK, clientVars, Served, AnsweredCouriers, InHand, Awaits
<1>2. x \in Signals /\ Tail(inbox) \in Seq(Signals)  BY <1>1
<1>3. (x.kind = "courier" <=> x \in CourierAvailable) /\ (x.kind = "courier" => x.body \in Couriers)
  BY <1>2, SignalKinds
<1>4. Offered(inbox) = IF x \in CourierAvailable THEN <<x.body>> \o r ELSE r
  BY <1>1, OldOffer
<1>5. u \in Seq(Couriers) /\ r \in Seq(Couriers) /\ couriers \in Seq(Couriers)
  <2>1. u \in Seq(Couriers) /\ couriers \in Seq(Couriers)  BY ShiftsTypes DEF Join
  <2>2. r \in Seq(Couriers)  BY <1>2, OfferedType
  <2> QED  BY <2>1, <2>2
<1>6. Shifts = Join(Join(u, couriers), Offered(inbox)) /\ Shifts' = Join(Join(u, couriers'), r)
  BY <1>1 DEF Shifts
<1> HIDE DEF u, r, x
<1>7. CASE x.kind = "courier"
  <2>1. Offered(inbox) = Join(<<x.body>>, r)  BY <1>3, <1>4, <1>7 DEF Join
  <2>2. Join(Join(u, couriers), Join(<<x.body>>, r)) = Join(Join(u, Append(couriers, x.body)), r)
    BY <1>3, <1>5, <1>7, HeadToBack
  <2> QED  BY <1>1, <1>6, <1>7, <2>1, <2>2, SameShifts
<1>8. CASE x.kind # "courier"
  BY <1>1, <1>3, <1>4, <1>6, <1>8, SameShifts
<1> QED  BY <1>7, <1>8

\* A shift whose signal a first task voids leaves the line.
LEMMA HandleVoidShares ==
  ASSUME Types, SharesInv, HandleVoid  PROVE SharesInv'
<1> DEFINE a == Join(Join(Served, InHand), couriers)
           x == Head(inbox)
           r == Offered(Tail(inbox))
<1>1. /\ inbox # <<>> /\ inbox \in Seq(Signals) /\ inbox' = Tail(inbox)
      /\ UNCHANGED <<Served, InHand, couriers, announced>>
  BY DEF HandleVoid, Types, TypeOK, runVars, clientVars, Served, AnsweredCouriers, InHand
<1>2. x \in Signals /\ Tail(inbox) \in Seq(Signals)  BY <1>1
<1>3. x \in CourierAvailable => x.body \in Couriers
  BY <1>2, SignalKinds
<1>4. Offered(inbox) = IF x \in CourierAvailable THEN <<x.body>> \o r ELSE r
  BY <1>1, OldOffer
<1>5. a \in Seq(Couriers) /\ r \in Seq(Couriers)
  <2>1. a \in Seq(Couriers)  BY ShiftsTypes DEF Join
  <2>2. r \in Seq(Couriers)  BY <1>2, OfferedType
  <2> QED  BY <2>1, <2>2
<1>6. Shifts = Join(a, Offered(inbox)) /\ Shifts' = Join(a, r)
  BY <1>1 DEF Shifts
<1> HIDE DEF a, r, x
<1>7. CASE x \in CourierAvailable
  <2>1. Offered(inbox) = Join(<<x.body>>, r)  BY <1>4, <1>7 DEF Join
  <2> DEFINE b == <<x.body>>
  <2>2. b \in Seq(Couriers)  BY <1>3, <1>7
  <2> HIDE DEF b
  <2>3. Join(a, Join(b, r)) = Join(Join(a, b), r)  BY <1>5, <2>2 DEF Join
  <2>4. Shifts = Join(Join(a, b), r)  BY <1>6, <2>1, <2>3 DEF b
  <2> QED  BY <1>1, <1>5, <1>6, <2>2, <2>4, LeaveShifts
<1>8. CASE x \notin CourierAvailable
  BY <1>1, <1>4, <1>6, <1>8, SameShifts
<1> QED  BY <1>7, <1>8

\* _drain takes the first shift of the pool for its order.
LEMMA TakeOrderShares ==
  ASSUME Types, SharesInv, TakeOrder, pc # "assign", UNCHANGED <<inbox, clientVars, answered>>
  PROVE  SharesInv'
<1>1. UNCHANGED <<Served, inbox, announced>>
  BY DEF clientVars, Served, AnsweredCouriers
<1>2. InHand = <<>>  BY DEF InHand
<1>3. CASE couriers = <<>>
  <2>1. InHand' = <<>> /\ couriers' = couriers
    BY <1>3, ValuesAssumption DEF TakeOrder, InHand
  <2> QED  BY <1>1, <1>2, <2>1, SameShifts DEF Shifts
<1>4. CASE couriers # <<>>
  <2>1. Served \in Seq(Couriers) /\ couriers \in Seq(Couriers)  BY ShiftsTypes
  <2>2. couriers' = Tail(couriers) /\ InHand' = <<Head(couriers)>>
    BY <1>4, <2>1 DEF TakeOrder, InHand
  <2>3. Join(Join(Served, <<>>), couriers)
          = Join(Join(Served, <<Head(couriers)>>), Tail(couriers))
    BY <1>4, <2>1, HeadForward
  <2> QED  BY <1>1, <1>2, <2>2, <2>3, SameShifts DEF Shifts
<1> QED  BY <1>3, <1>4

\* A new answer adds the courier it names.
LEMMA MapCourier ==
  ASSUME Types, NEW a \in Assignments, answered' = Append(answered, a)
  PROVE  AnsweredCouriers' = Append(AnsweredCouriers, a.courier)
<1> DEFINE n == Len(answered)
           Y == Couriers \cup {Synthetic}
<1>1. /\ n \in Nat /\ Len(answered') = n + 1
      /\ answered'[n + 1] = a
      /\ \A i \in 1..n : answered'[i] = answered[i]
  BY DEF Types, TypeOK
<1>2. AnsweredCouriers \in Seq(Y) /\ a.courier \in Y
  BY AnsweredCouriersType DEF Assignments
<1>3. Len(AnsweredCouriers) = n /\ \A i \in 1..n : AnsweredCouriers[i] = answered[i].courier
  BY <1>1 DEF AnsweredCouriers
<1> HIDE DEF n, Y
<1>4. AnsweredCouriers' = [i \in 1..(n + 1) |-> answered'[i].courier]
  BY <1>1 DEF AnsweredCouriers
<1> DEFINE b == AnsweredCouriers
<1>5. Append(b, a.courier) = [i \in 1..(n + 1) |-> IF i = n + 1 THEN a.courier ELSE b[i]]
  <2> HIDE DEF b
  <2>1. b \in Seq(Y) /\ Len(b) = n  BY <1>2, <1>3 DEF b
  <2> QED  BY <1>1, <2>1
<1>6. \A i \in 1..(n + 1) : i = n + 1 \/ i \in 1..n
  BY <1>1
<1> QED  BY <1>1, <1>3, <1>4, <1>5, <1>6

\* An answer moves the shift it names to those that have served.
LEMMA AssignedShares ==
  ASSUME Types, SharesInv, Assigned  PROVE SharesInv'
<1> DEFINE Y == Couriers \cup {Synthetic}
<1>1. UNCHANGED <<couriers, inbox, announced>> /\ InHand' = <<>>
  BY DEF Assigned, Resume, clientVars, InHand
<1>2. cur \in Assignments /\ cur.courier \in Y
  BY DEF Assigned, Resume, Types, Placed, Assignments
<1>3. AnsweredCouriers' = Append(AnsweredCouriers, cur.courier)
  BY <1>2, MapCourier DEF Assigned
<1>4. AnsweredCouriers \in Seq(Y)  BY AnsweredCouriersType
<1> HIDE DEF Y
<1>5. Served' = IF cur.courier \in Couriers THEN Append(Served, cur.courier) ELSE Served
  <2> DEFINE s == AnsweredCouriers
             x == cur.courier
  <2>1. s \in Seq(Y) /\ x \in Y  BY <1>2, <1>4
  <2> HIDE DEF s, x
  <2>2. Only(Append(s, x), Couriers)
          = IF x \in Couriers THEN Append(Only(s, Couriers), x) ELSE Only(s, Couriers)
    BY <2>1, OnlyAppend
  <2> QED  BY <1>3, <2>2 DEF Served, s, x
<1>6. CASE cur.courier \in Couriers
  <2>1. InHand = <<cur.courier>>  BY <1>6 DEF Assigned, Resume, InHand
  <2>2. Served \in Seq(Couriers)  BY ShiftsTypes
  <2>3. Join(Served, <<cur.courier>>) = Join(Append(Served, cur.courier), <<>>)
    BY <1>6, <2>2, LastForward
  <2> QED  BY <1>1, <1>5, <1>6, <2>1, <2>3, SameShifts DEF Shifts
<1>7. CASE cur.courier \notin Couriers
  <2>1. InHand = <<>>  BY <1>7 DEF InHand
  <2> QED  BY <1>1, <1>5, <1>7, <2>1, SameShifts DEF Shifts
<1> QED  BY <1>6, <1>7

\* The last elements are what remains after a first part.
LEMMA LastOfSplits ==
  ASSUME NEW X, NEW s \in Seq(X), NEW n \in Nat
  PROVE  LastOf(s, n) \in Seq(X) /\ \E p \in Seq(X) : s = Join(p, LastOf(s, n))
<1>1. CASE Len(s) <= n
  <2>1. <<>> \in Seq(X) /\ s = Join(<<>>, s)  BY DEF Join
  <2> QED  BY <1>1, <2>1 DEF LastOf
<1>2. CASE Len(s) > n
  <2> DEFINE k == Len(s) - n
             p == SubSeq(s, 1, k)
             q == SubSeq(s, k + 1, Len(s))
  <2>1. k \in Nat /\ k < Len(s) + 1 /\ k + n = Len(s) /\ Len(s) \in Nat  BY <1>2
  <2> HIDE DEF k
  <2>2. p \in Seq(X) /\ q \in Seq(X)  BY <2>1
  <2>3. 1 \in 1..(Len(s) + 1) /\ k \in (1 - 1)..Len(s) /\ Len(s) \in k..Len(s)
    BY <2>1
  <2>4. SubSeq(s, 1, k) \o SubSeq(s, k + 1, Len(s)) = SubSeq(s, 1, Len(s))
    BY <2>3, ConcatAdjacentSubSeq, Zenon
  <2>5. p \o q = s  BY <2>4, SubSeqFull
  <2>6. LastOf(s, n) = q  BY <1>2 DEF LastOf, k
  <2> QED  BY <2>2, <2>6, <2>5 DEF Join
<1> QED  BY <1>1, <1>2

\* Continue-as-new carries the last shifts of the pool on (dispatch.py:186) and
\* takes the others out of the line.
LEMMA ContinueAsNewShares ==
  ASSUME Types, SharesInv, ContinueAsNew, pc # "assign", UNCHANGED <<inbox, clientVars, answered>>
  PROVE  SharesInv'
<1>1. UNCHANGED <<Served, inbox, announced>> /\ InHand = <<>> /\ InHand' = <<>>
  BY DEF ContinueAsNew, clientVars, Served, AnsweredCouriers, InHand
<1> DEFINE q == LastOf(couriers, MaxCarried)
           a == Served
           r == Offered(inbox)
<1>2. a \in Seq(Couriers) /\ couriers \in Seq(Couriers) /\ r \in Seq(Couriers)
  BY ShiftsTypes
<1>3. PICK p \in Seq(Couriers) : couriers = Join(p, q) /\ q \in Seq(Couriers)
  BY <1>2, LastOfSplits, LimitsAssumption
<1>4. /\ Shifts = Join(Join(Join(a, <<>>), couriers), r)
      /\ Shifts' = Join(Join(Join(a, <<>>), q), r)
  BY <1>1 DEF Shifts, ContinueAsNew
<1> HIDE DEF q, a, r
<1> DEFINE c == Join(q, r)
<1>5. c \in Seq(Couriers)  BY <1>2, <1>3 DEF Join
<1>6. Join(Join(Join(a, <<>>), Join(p, q)), r) = Join(Join(a, p), Join(q, r))
  BY <1>2, <1>3, Regroup
<1>7. Join(Join(Join(a, <<>>), q), r) = Join(a, Join(q, r))
  BY <1>2, <1>3 DEF Join
<1> HIDE DEF c
<1> QED  BY <1>1, <1>2, <1>3, <1>4, <1>5, <1>6, <1>7, LeaveShifts DEF c

\* From _drain to the next await the line is kept.
LEMMA DrainShares ==
  ASSUME Types, SharesInv, NEW status, NEW n, NEW h, Drain(status, n, h), pc # "assign",
         UNCHANGED <<inbox, degr, clientVars, lost, answered>>
  PROVE  SharesInv'
<1>1. CASE TakeOrder
  BY <1>1, TakeOrderShares
<1>2. CASE ContinueAsNew
  BY <1>2, ContinueAsNewShares
<1>3. CASE UNCHANGED couriers /\ pc' # "assign"
  BY <1>3, SameShifts DEF clientVars, Shifts, Served, AnsweredCouriers, InHand
<1> QED  BY <1>1, <1>2, <1>3 DEF Drain

\* Signals that carry no shift leave the line alone.
LEMMA OtherSignal ==
  ASSUME Types, SharesInv, UNCHANGED <<Served, InHand, couriers, announced>>,
         NEW x \in Signals, x \notin CourierAvailable,
         inbox' = inbox \/ inbox' = Append(inbox, x)
  PROVE  SharesInv'
<1>1. Offered(Append(inbox, x)) = Offered(inbox)  BY NewOffer
<1>2. Offered(inbox)' = Offered(inbox)
  <2>1. CASE inbox' = inbox  BY <2>1
  <2>2. CASE inbox' = Append(inbox, x)  BY <1>1, <2>2
  <2> QED  BY <2>1, <2>2
<1> QED  BY <1>2, SameShifts DEF Shifts

\* Every step keeps the line.
LEMMA NextShares ==
  ASSUME Types, SharesInv, [Next]_vars  PROVE SharesInv'
<1>1. CASE UNCHANGED vars
  BY <1>1, SameShifts DEF vars, runVars, clientVars, Shifts, Served, AnsweredCouriers, InHand
<1>2. ASSUME NEW o \in Orders, Ready(o)  PROVE SharesInv'
  <2> DEFINE x == [kind |-> "order", body |-> o]
  <2>1. UNCHANGED <<Served, InHand, couriers, announced>>
    BY <1>2 DEF Ready, Post, runVars, Served, AnsweredCouriers, InHand
  <2>2. x \in Signals /\ x \notin CourierAvailable
    BY DEF Signals, CourierAvailable, OrderReady
  <2>3. inbox' = inbox \/ inbox' = Append(inbox, x)  BY <1>2 DEF Ready, Post
  <2> HIDE DEF x
  <2> QED  BY <2>1, <2>2, <2>3, OtherSignal
<1>3. ASSUME NEW d \in Degrs, Degrade(d)  PROVE SharesInv'
  <2> DEFINE x == [kind |-> "degr", body |-> d]
  <2>1. UNCHANGED <<Served, InHand, couriers, announced>>
    BY <1>3 DEF Degrade, Post, runVars, Served, AnsweredCouriers, InHand
  <2>2. x \in Signals /\ x \notin CourierAvailable
    BY ValuesAssumption DEF Signals, CourierAvailable, SetDegradation
  <2>3. inbox' = inbox \/ inbox' = Append(inbox, x)  BY <1>3 DEF Degrade, Post
  <2> HIDE DEF x
  <2> QED  BY <2>1, <2>2, <2>3, OtherSignal
<1>4. CASE Launch
  BY <1>4, SameShifts DEF Launch, clientVars, Shifts, Served, AnsweredCouriers, InHand
<1>5. CASE Open
  <2>1. UNCHANGED <<answered, couriers, inbox, announced>> /\ pc # "assign" /\ pc' # "assign"
    BY <1>5 DEF Open, Resume, clientVars
  <2> QED  BY <2>1, SameShifts DEF Shifts, Served, AnsweredCouriers, InHand
<1>6. CASE Wake
  BY <1>6, DrainShares DEF Wake, Resume
<1>7. CASE Inflated
  BY <1>7, DrainShares DEF Inflated, Resume
<1>8. CASE Replied
  BY <1>8, DrainShares DEF Replied, Resume
<1> QED
  BY <1>1, <1>2, <1>3, <1>4, <1>5, <1>6, <1>7, <1>8, AnnounceShares, TerminateShares,
     HandleShares, HandleVoidShares, AssignedShares DEF Next, Coroutine

\* So no shift is named in two answers.
LEMMA SharesOnce ==
  ASSUME Types, SharesInv  PROVE CourierServesOnce
<1> DEFINE Y == Couriers \cup {Synthetic}
           s == AnsweredCouriers
           c == Join(Join(InHand, couriers), Offered(inbox))
<1>1. Served \in Seq(Couriers) /\ c \in Seq(Couriers)  BY ShiftsTypes DEF Join
<1>2. Shifts = Join(Join(Served, c), <<>>)  BY ShiftsTypes, FourInTwo DEF Shifts
<1> HIDE DEF c
<1>3. Join(Join(Served, c), <<>>) = Join(Served, c)  BY <1>1 DEF Join
<1>4. Distinct(Served)  BY <1>1, <1>2, <1>3, DistinctFirst DEF SharesInv
<1>5. s \in Seq(Y)  BY AnsweredCouriersType
<1>6. DOMAIN answered = 1..Len(answered) /\ Len(answered) \in Nat  BY DEF Types, TypeOK
<1>7. /\ Len(s) = Len(answered)
      /\ \A i \in 1..Len(answered) : s[i] = answered[i].courier /\ s[i] \in Y
  BY <1>5, <1>6 DEF AnsweredCouriers
<1>8. \A i, j \in 1..Len(s) : s[i] = s[j] /\ s[i] \in Couriers => i = j
  <2> HIDE DEF s, Y
  <2>1. Distinct(Only(s, Couriers))  BY <1>4 DEF Served, s
  <2> QED  BY <1>5, <2>1, OnlyOnce
<1> QED  BY <1>6, <1>7, <1>8 DEF CourierServesOnce

\* A shift that announced itself once is given to at most one order, across
\* drains, hand-overs that carry the pool and terminations.
THEOREM CourierServesOneOrder == Spec => []CourierServesOnce
<1>1. Init => Types /\ SharesInv  BY InitTypes, InitShares
<1>2. Types /\ SharesInv /\ [Next]_vars => (Types /\ SharesInv)'
  BY NextTypes, NextShares
<1>3. Types /\ SharesInv => CourierServesOnce  BY SharesOnce
<1> QED  BY <1>1, <1>2, <1>3, PTL DEF Spec

-----------------------------------------------------------------------------
\* The degradations whose set_degradation is in s.
Flips(s) == Bodies(s, SetDegradation)

\* They are degradations.
LEMMA FlipsType ==
  ASSUME NEW s \in Seq(Signals)
  PROVE  Flips(s) \in Seq(Degradations)
BY SignalKinds, BodiesType DEF Flips

\* A new signal adds its degradation to them.
LEMMA NewFlip ==
  ASSUME Types, NEW x \in Signals
  PROVE  Flips(Append(inbox, x)) =
           IF x \in SetDegradation THEN Append(Flips(inbox), x.body) ELSE Flips(inbox)
<1>1. inbox \in Seq(Signals)  BY DEF Types, TypeOK
<1> QED  BY <1>1, BodiesAppend DEF Flips

\* A signal that is taken from the inbox takes its degradation with it.
LEMMA OldFlip ==
  ASSUME Types, inbox # <<>>
  PROVE  /\ Head(inbox) \in Signals /\ Tail(inbox) \in Seq(Signals)
         /\ Head(inbox) \in SetDegradation =>
              /\ Flips(inbox) # <<>>
              /\ Head(Flips(inbox)) = Head(inbox).body
              /\ Tail(Flips(inbox)) = Flips(Tail(inbox))
         /\ Head(inbox) \notin SetDegradation => Flips(inbox) = Flips(Tail(inbox))
<1>1. inbox \in Seq(Signals)  BY DEF Types, TypeOK
<1>2. Head(inbox) \in Signals /\ Tail(inbox) \in Seq(Signals)  BY <1>1
<1>3. Flips(Tail(inbox)) \in Seq(Degradations)  BY <1>2, FlipsType
<1>4. Flips(inbox) = IF Head(inbox) \in SetDegradation THEN <<Head(inbox).body>> \o Flips(Tail(inbox))
                     ELSE Flips(Tail(inbox))
  BY <1>1, BodiesHeadTail DEF Flips
<1>5. Head(inbox) \in SetDegradation => Head(inbox).body \in Degradations
  BY <1>2, SignalKinds
<1>6. ASSUME NEW t \in Seq(Degradations), NEW d \in Degradations
      PROVE  <<d>> \o t # <<>> /\ Head(<<d>> \o t) = d /\ Tail(<<d>> \o t) = t
  OBVIOUS
<1> QED  BY <1>2, <1>3, <1>4, <1>5, <1>6

\* What the abstract region is.
LEMMA HealthVars ==
  /\ Health!regionVars =
       << [r \in OneRegion |-> pc # "closed"], [r \in OneRegion |-> degr],
          [r \in OneRegion |-> Flips(inbox)], [r \in OneRegion |-> pc = "new"],
          [r \in OneRegion |-> shown] >>
BY DEF Health!regionVars, Flips

\* A region begins as a region of RegionHealth.
LEMMA InitHealth == Init => Health!RegionInit
<1> SUFFICES ASSUME Init  PROVE Health!RegionInit
  OBVIOUS
<1>1. /\ inbox = <<>> /\ (pc # "closed") = FALSE /\ (pc = "new") = FALSE
      /\ degr = Healthy /\ shown = "healthy"
  BY DEF Init
<1>2. Bodies(inbox, SetDegradation) = <<>>  BY <1>1, BodiesEmpty
<1>3. Health!Healthy = Healthy  BY DEF Health!Healthy, Healthy
<1> QED  BY <1>1, <1>2, <1>3 DEF Health!RegionInit

\* What leaves these as they were is a stutter there.
LEMMA HealthStutters ==
  ASSUME UNCHANGED <<degr, shown>>, Flips(inbox)' = Flips(inbox),
         (pc' # "closed") = (pc # "closed"), (pc' = "new") = (pc = "new")
  PROVE  UNCHANGED Health!regionVars
BY DEF Health!regionVars, Flips

\* An accepted set_degradation is Deliver there.
LEMMA HealthDelivers ==
  ASSUME NEW d \in Degradations, UNCHANGED <<degr, shown, pc>>, pc # "closed",
         Flips(inbox)' = Append(Flips(inbox), d)
  PROVE  Health!RegionNext
<1>1. "region" \in OneRegion  BY DEF OneRegion
<1>2. d \in Health!Degradations  BY DEF Health!Degradations, Degradations
<1>3. Health!Deliver("region", d)
  BY DEF Health!Deliver, Flips, OneRegion
<1> QED  BY <1>1, <1>2, <1>3 DEF Health!RegionNext

\* Its handler takes it over.
LEMMA HealthTakes ==
  ASSUME pc \notin {"closed", "new"}, pc' \notin {"closed", "new"},
         Flips(inbox) # <<>>, degr' = Head(Flips(inbox)), Flips(inbox)' = Tail(Flips(inbox)),
         UNCHANGED shown
  PROVE  Health!RegionNext
<1>1. "region" \in OneRegion  BY DEF OneRegion
<1>2. Health!Take("region")
  BY DEF Health!Take, Flips, OneRegion
<1> QED  BY <1>1, <1>2 DEF Health!RegionNext, Health!Work

\* In a first task it has no effect.
LEMMA HealthVoids ==
  ASSUME pc = "new", Flips(inbox) # <<>>, Flips(inbox)' = Tail(Flips(inbox)),
         UNCHANGED <<pc, degr, shown>>
  PROVE  Health!RegionNext
<1>1. "region" \in OneRegion  BY DEF OneRegion
<1>2. Health!Void("region")
  BY DEF Health!Void, Flips, OneRegion
<1> QED  BY <1>1, <1>2 DEF Health!RegionNext, Health!Work

\* The first segment of run ends the first task.
LEMMA HealthBegins ==
  ASSUME pc = "new", pc' \notin {"closed", "new"}, UNCHANGED <<inbox, degr, shown>>
  PROVE  Health!RegionNext
<1>1. "region" \in OneRegion  BY DEF OneRegion
<1>2. Health!Begin("region")
  BY DEF Health!Begin, OneRegion
<1> QED  BY <1>1, <1>2 DEF Health!RegionNext, Health!Work

\* A published status is the one the region has.
LEMMA HealthPublishes ==
  ASSUME pc \notin {"closed", "new"}, pc' \notin {"closed", "new"},
         shown # Status(degr), shown' = Status(degr), UNCHANGED <<inbox, degr>>
  PROVE  Health!RegionNext
<1>1. "region" \in OneRegion  BY DEF OneRegion
<1>2. Health!Publish("region")
  BY DEF Health!Publish, Health!Status, Status, OneRegion
<1> QED  BY <1>1, <1>2 DEF Health!RegionNext, Health!Work

\* A hand-over happens with an empty queue, when not suspended.
LEMMA HealthHandsOver ==
  ASSUME pc \notin {"closed", "new"}, pc' = "new", inbox = <<>>, ~degr.suspend,
         shown' = Status(degr), UNCHANGED <<inbox, degr>>
  PROVE  Health!RegionNext
<1>1. "region" \in OneRegion  BY DEF OneRegion
<1>2. Bodies(inbox, SetDegradation) = <<>>  BY BodiesEmpty
<1>3. Health!HandOver("region")
  BY <1>2 DEF Health!HandOver, Health!Status, Status, OneRegion
<1> QED  BY <1>1, <1>3 DEF Health!RegionNext

\* A termination closes the region and empties its queue.
LEMMA HealthTerminates ==
  ASSUME pc # "closed", pc' = "closed", inbox' = <<>>, UNCHANGED <<degr, shown>>
  PROVE  Health!RegionNext
<1>1. "region" \in OneRegion  BY DEF OneRegion
<1>2. Bodies(inbox', SetDegradation) = <<>>  BY BodiesEmpty
<1>3. Health!Terminate("region")
  BY <1>2 DEF Health!Terminate, OneRegion
<1> QED  BY <1>1, <1>3 DEF Health!RegionNext

\* A relaunch begins with a healthy one.
LEMMA HealthLaunches ==
  ASSUME pc = "closed", pc' = "new", degr' = Healthy, shown' = "healthy", UNCHANGED inbox
  PROVE  Health!RegionNext
<1>1. "region" \in OneRegion  BY DEF OneRegion
<1>2. Health!Launch("region")
  BY DEF Health!Launch, Health!Healthy, Healthy, OneRegion
<1> QED  BY <1>1, <1>2 DEF Health!RegionNext

\* A segment publishes the status the region has, hands over, or neither.
LEMMA DrainHealth ==
  ASSUME NEW status \in {shown, Status(degr)}, NEW n, NEW h, Drain(status, n, h),
         pc \notin {"closed", "new"}, inbox = <<>>, UNCHANGED <<inbox, degr>>
  PROVE  [Health!RegionNext]_(Health!regionVars)
<1>1. CASE Due(n, h) /\ ContinueAsNew
  BY <1>1, HealthHandsOver DEF Due, ContinueAsNew
<1>2. CASE shown' \in {shown, Status(degr)} /\ pc' \notin {"closed", "new"}
  <2>1. CASE shown' = shown  BY <1>2, <2>1, HealthStutters
  <2>2. CASE shown' # shown  BY <1>2, <2>2, HealthPublishes
  <2> QED  BY <2>1, <2>2
<1> QED  BY <1>1, <1>2 DEF Drain, TakeOrder

\* Every step of a region is a step of RegionHealth or a stutter there.
LEMMA NextHealth ==
  ASSUME Types, [Next]_vars  PROVE [Health!RegionNext]_(Health!regionVars)
<1>1. CASE UNCHANGED vars
  BY <1>1, HealthStutters DEF vars, runVars, clientVars
<1>2. ASSUME NEW x \in Signals, x \notin SetDegradation, UNCHANGED <<pc, degr, shown>>,
             inbox' = inbox \/ inbox' = Append(inbox, x)
      PROVE  UNCHANGED Health!regionVars
  <2>1. Flips(Append(inbox, x)) = Flips(inbox)  BY <1>2, NewFlip
  <2>2. Flips(inbox)' = Flips(inbox)
    <3>1. CASE inbox' = inbox  BY <3>1
    <3>2. CASE inbox' = Append(inbox, x)  BY <2>1, <3>2
    <3> QED  BY <1>2, <3>1, <3>2
  <2> QED  BY <1>2, <2>2, HealthStutters
<1>3. ASSUME NEW o \in Orders, Ready(o)  PROVE UNCHANGED Health!regionVars
  <2> DEFINE x == [kind |-> "order", body |-> o]
  <2>1. UNCHANGED <<pc, degr, shown>>  BY <1>3 DEF Ready, Post, runVars
  <2>2. x \in Signals /\ x \notin SetDegradation
    BY DEF Signals, SetDegradation, OrderReady
  <2>3. inbox' = inbox \/ inbox' = Append(inbox, x)  BY <1>3 DEF Ready, Post
  <2> HIDE DEF x
  <2> QED  BY <1>2, <2>1, <2>2, <2>3
<1>4. ASSUME NEW c \in Couriers, Announce(c)  PROVE UNCHANGED Health!regionVars
  <2> DEFINE x == [kind |-> "courier", body |-> c]
  <2>1. UNCHANGED <<pc, degr, shown>>  BY <1>4 DEF Announce, Post, runVars
  <2>2. x \in Signals /\ x \notin SetDegradation
    BY DEF Signals, SetDegradation, CourierAvailable
  <2>3. inbox' = inbox \/ inbox' = Append(inbox, x)  BY <1>4 DEF Announce, Post
  <2> HIDE DEF x
  <2> QED  BY <1>2, <2>1, <2>2, <2>3
<1>5. ASSUME NEW d \in Degrs, Degrade(d)  PROVE [Health!RegionNext]_(Health!regionVars)
  <2> DEFINE x == [kind |-> "degr", body |-> d]
  <2>1. UNCHANGED <<pc, degr, shown>> /\ d \in Degradations
    BY <1>5, ValuesAssumption DEF Degrade, Post, runVars
  <2>2. x \in Signals /\ x \in SetDegradation /\ x.body = d
    BY <2>1 DEF Signals, SetDegradation
  <2>3. inbox' = IF pc = "closed" THEN inbox ELSE Append(inbox, x)
    BY <1>5 DEF Degrade, Post
  <2> HIDE DEF x
  <2>4. CASE pc = "closed"  BY <2>1, <2>3, <2>4, HealthStutters
  <2>5. CASE pc # "closed"
    <3>1. Flips(inbox)' = Append(Flips(inbox), d)  BY <2>2, <2>3, <2>5, NewFlip
    <3> QED  BY <2>1, <2>5, <3>1, HealthDelivers
  <2> QED  BY <2>4, <2>5
<1>6. CASE Terminate
  BY <1>6, HealthTerminates DEF Terminate
<1>7. CASE Launch
  BY <1>7, HealthLaunches DEF Launch
<1>8. CASE Handle
  <2>1. /\ inbox # <<>> /\ inbox' = Tail(inbox) /\ UNCHANGED shown
        /\ pc \notin {"closed", "new"} /\ pc' \notin {"closed", "new"}
        /\ degr' = IF Head(inbox).kind = "degr" THEN Head(inbox).body ELSE degr
    BY <1>8 DEF Handle, Awaits
  <2>2. Flips(inbox)' = Flips(Tail(inbox))  BY <2>1
  <2>3. CASE Head(inbox) \in SetDegradation
    <3>1. degr' = Head(Flips(inbox)) /\ Flips(inbox)' = Tail(Flips(inbox)) /\ Flips(inbox) # <<>>
      BY <2>1, <2>2, <2>3, OldFlip, SignalKinds
    <3> QED  BY <2>1, <3>1, HealthTakes
  <2>4. CASE Head(inbox) \notin SetDegradation
    <3>1. degr' = degr /\ Flips(inbox)' = Flips(inbox)
      BY <2>1, <2>2, <2>4, OldFlip, SignalKinds
    <3> QED  BY <2>1, <3>1, HealthStutters
  <2> QED  BY <2>3, <2>4
<1>9. CASE HandleVoid
  <2>1. /\ inbox # <<>> /\ inbox' = Tail(inbox) /\ UNCHANGED <<pc, degr, shown>> /\ pc = "new"
    BY <1>9 DEF HandleVoid, runVars
  <2>2. Flips(inbox)' = Flips(Tail(inbox))  BY <2>1
  <2>3. CASE Head(inbox) \in SetDegradation
    <3>1. Flips(inbox)' = Tail(Flips(inbox)) /\ Flips(inbox) # <<>>
      BY <2>1, <2>2, <2>3, OldFlip
    <3> QED  BY <2>1, <3>1, HealthVoids
  <2>4. CASE Head(inbox) \notin SetDegradation
    <3>1. Flips(inbox)' = Flips(inbox)
      BY <2>1, <2>2, <2>4, OldFlip
    <3> QED  BY <2>1, <3>1, HealthStutters
  <2> QED  BY <2>3, <2>4
<1>10. CASE Open
  BY <1>10, HealthBegins DEF Open, Resume
<1>11. CASE Wake
  BY <1>11, DrainHealth DEF Wake, Resume
<1>12. CASE Inflated
  BY <1>12, DrainHealth DEF Inflated, Resume
<1>13. CASE Replied
  BY <1>13, DrainHealth DEF Replied, Resume
<1>14. CASE Assigned
  <2>1. pc \notin {"closed", "new"} /\ pc' \notin {"closed", "new"} /\ UNCHANGED <<inbox, degr, shown>>
    BY <1>14 DEF Assigned, Resume
  <2> QED  BY <2>1, HealthStutters
<1> QED
  BY <1>1, <1>3, <1>4, <1>5, <1>6, <1>7, <1>8, <1>9, <1>10, <1>11, <1>12, <1>13, <1>14
  DEF Next, Coroutine

\* The region is a RegionHealth: what Relay checks of abstract regions holds
\* with this one in the place of each.
THEOREM RefinesRegionHealth == Spec => ImplementsRegionHealth
<1>1. Init => Types /\ Health!RegionInit  BY InitTypes, InitHealth
<1>2. Types /\ [Next]_vars => Types' /\ [Health!RegionNext]_(Health!regionVars)
  BY NextTypes, NextHealth
<1> QED  BY <1>1, <1>2, PTL DEF Spec, ImplementsRegionHealth, Health!RegionSpec
=============================================================================
