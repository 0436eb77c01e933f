---------------------------- MODULE CourierProofs ---------------------------
(***************************************************************************)
(* A shift carries out every assignment the server accepted, once and in   *)
(* order, and a courier the generator counts on was never told to end, for *)
(* any size of the fleet and any failures of the generator's calls.  What  *)
(* waits at an open shift is the interval of numbers between the last one  *)
(* taken and the last one offered; a step adds at its end or takes from    *)
(* its beginning.                                                          *)
(***************************************************************************)
EXTENDS CourierLoop, FilterProofs, TLAPS

\* The history stays within its cap.
LEMMA LaterHistory ==
  ASSUME NEW h \in 0..HistoryCap  PROVE Longer(h) \in 0..HistoryCap
<1>1. h + 1 \in Nat /\ HistoryCap \in Nat  BY ShiftAssumption
<1>2. Min({h + 1, HistoryCap}) = IF h + 1 <= HistoryCap THEN h + 1 ELSE HistoryCap
  BY <1>1 DEF Min
<1> QED  BY <1>1, <1>2 DEF Longer

\* The kind of a signal says what it carries.
LEMMA SignalKinds ==
  ASSUME NEW s \in Signals
  PROVE  /\ s.kind = "assignment" <=> s \in Assignments
         /\ s.kind = "assignment" => s.body \in 1..MaxOffered
         /\ s.kind = "end" <=> s = EndShift
BY DEF Signals, Assignments, Assignment, LocationPing, EndShift

\* The numbers after a, up to b.
Numbers(a, b) == [i \in 1..(b - a) |-> a + i]

\* They are numbers.
LEMMA NumbersType ==
  ASSUME NEW a \in Nat, NEW b \in Nat
  PROVE  Numbers(a, b) \in Seq(Nat)
BY DEF Numbers

\* The next number prolongs them.
LEMMA NumbersAppend ==
  ASSUME NEW a \in Nat, NEW b \in Nat, a <= b
  PROVE  Append(Numbers(a, b), b + 1) = Numbers(a, b + 1)
<1>1. Len(Numbers(a, b)) = b - a /\ Numbers(a, b) \in Seq(Nat)  BY DEF Numbers
<1> QED  BY <1>1 DEF Numbers

\* Without their first they are the numbers after a + 1.
LEMMA NumbersTail ==
  ASSUME NEW a \in Nat, NEW b \in Nat, Numbers(a, b) # <<>>
  PROVE  a < b /\ Tail(Numbers(a, b)) = Numbers(a + 1, b)
<1>1. Len(Numbers(a, b)) = IF a <= b THEN b - a ELSE 0  BY DEF Numbers
<1>2. a < b
  <2>1. a >= b => Numbers(a, b) = <<>>  BY DEF Numbers
  <2> QED  BY <2>1
<1> DEFINE s == Numbers(a, b)
           t == Numbers(a + 1, b)
<1>3. s \in Seq(Nat) /\ t \in Seq(Nat) /\ a \in Int /\ b \in Int
  BY NumbersType
<1>4. /\ Len(s) = b - a /\ Len(t) = b - (a + 1)
      /\ \A i \in 1..(b - a) : s[i] = a + i
      /\ \A i \in 1..(b - (a + 1)) : t[i] = (a + 1) + i
  BY <1>2 DEF Numbers
<1> HIDE DEF s, t
<1>5. /\ Tail(s) \in Seq(Nat) /\ Len(Tail(s)) = Len(s) - 1
      /\ \A i \in 1..(Len(s) - 1) : Tail(s)[i] = s[i + 1]
  BY <1>2, <1>3, <1>4
<1>6. ASSUME NEW i \in 1..Len(t)  PROVE Tail(s)[i] = t[i]
  <2>1. i \in 1..(Len(s) - 1) /\ i + 1 \in 1..(b - a) /\ i \in 1..(b - (a + 1))
    BY <1>2, <1>3, <1>4
  <2>2. Tail(s)[i] = s[i + 1] /\ s[i + 1] = a + (i + 1) /\ t[i] = (a + 1) + i
    BY <1>4, <1>5, <2>1
  <2> QED  BY <1>3, <2>1, <2>2
<1>7. Len(Tail(s)) = Len(t)  BY <1>3, <1>4, <1>5
<1>8. Tail(s) = t
  BY <1>3, <1>5, <1>6, <1>7, SeqEqual
<1> QED  BY <1>2, <1>8 DEF s, t

\* There are none after a, up to a.
LEMMA NumbersEmpty ==
  ASSUME NEW a \in Nat  PROVE Numbers(a, a) = <<>>
BY DEF Numbers

-----------------------------------------------------------------------------
\* The types, with a count that is not bounded yet.
ShiftTypes ==
  /\ inbox \in [Shifts -> Seq(Signals)]
  /\ pc \in [Shifts -> {"closed", "new", "wait", "accept", "report"}]
  /\ assignments \in [Shifts -> Seq(1..MaxOffered)]
  /\ ending \in [Shifts -> BOOLEAN]
  /\ count \in [Shifts -> Nat]
  /\ hist \in [Shifts -> 0..HistoryCap]
  /\ offered \in [Shifts -> 0..MaxOffered]

\* Shifts begin with the types.
LEMMA InitShiftTypes == ShiftInit => ShiftTypes
BY ShiftAssumption DEF ShiftInit, ShiftTypes

\* A start keeps the types.
LEMMA StartTypes ==
  ASSUME ShiftTypes, NEW c \in Shifts, Start(c)  PROVE ShiftTypes'
BY DEF ShiftTypes, Start

\* A termination or end keeps the types.
LEMMA CloseTypes ==
  ASSUME ShiftTypes, NEW c \in Shifts, Close(c)  PROVE ShiftTypes'
BY ShiftAssumption DEF ShiftTypes, Close

\* An accepted signal keeps the types.
LEMMA SendTypes ==
  ASSUME ShiftTypes, NEW c \in Shifts, NEW s \in Signals, Send(c, s)  PROVE ShiftTypes'
BY DEF ShiftTypes, Send, Deliver

\* An accepted assignment keeps the types.
LEMMA OfferTypes ==
  ASSUME ShiftTypes, NEW c \in Shifts, Offer(c)  PROVE ShiftTypes'
<1>1. offered[c] \in 0..MaxOffered /\ offered[c] + 1 \in 1..MaxOffered
  BY ShiftAssumption DEF ShiftTypes, Offer
<1>2. Assignment(offered[c] + 1) \in Signals
  BY <1>1 DEF Signals, Assignments
<1> QED  BY <1>1, <1>2 DEF ShiftTypes, Offer, Deliver

\* A handler keeps the types (location_ping, assignment, end_shift).
LEMMA HandleTypes ==
  ASSUME ShiftTypes, NEW c \in Shifts, Handle(c)  PROVE ShiftTypes'
<1> DEFINE s == Head(inbox[c])
<1>1. s \in Signals /\ Tail(inbox[c]) \in Seq(Signals)
  BY DEF ShiftTypes, Handle
<1>2. s.kind = "assignment" => s.body \in 1..MaxOffered
  BY <1>1, SignalKinds
<1>3. assignments' \in [Shifts -> Seq(1..MaxOffered)]
  <2>1. CASE s.kind = "assignment"
    <3>1. Append(assignments[c], s.body) \in Seq(1..MaxOffered)
      BY <1>2, <2>1 DEF ShiftTypes
    <3>2. assignments' = [assignments EXCEPT ![c] = Append(assignments[c], s.body)]
      BY <2>1 DEF Handle
    <3> QED  BY <3>1, <3>2 DEF ShiftTypes
  <2>2. CASE s.kind # "assignment"  BY <2>2 DEF Handle, ShiftTypes
  <2> QED  BY <2>1, <2>2
<1>4. hist' \in [Shifts -> 0..HistoryCap]
  BY LaterHistory DEF ShiftTypes, Handle
<1>5. ending' \in [Shifts -> BOOLEAN]
  BY DEF ShiftTypes, Handle
<1> QED  BY <1>1, <1>3, <1>4, <1>5 DEF ShiftTypes, Handle

\* The segments of run keep the types.
LEMMA CoroutineTypes ==
  ASSUME ShiftTypes, NEW c \in Shifts, Coroutine(c)  PROVE ShiftTypes'
<1>1. CASE Begin(c)
  BY <1>1 DEF ShiftTypes, Begin
<1>2. ASSUME Accept(c), UNCHANGED hist  PROVE ShiftTypes'
  BY <1>2 DEF ShiftTypes, Accept
<1>3. ASSUME ContinueAsNew(c)  PROVE ShiftTypes'
  BY <1>3, ShiftAssumption DEF ShiftTypes, ContinueAsNew
<1>4. CASE Accepted(c)
  BY <1>4, LaterHistory DEF ShiftTypes, Accepted
<1>5. CASE Wake(c)
  BY <1>2, <1>3, <1>5, CloseTypes DEF Wake
<1>6. CASE Reported(c)
  <2>1. CASE pc' = [pc EXCEPT ![c] = "wait"] /\ UNCHANGED <<inbox, assignments, ending, count, hist, offered>>
    BY <2>1 DEF ShiftTypes
  <2> QED  BY <1>2, <1>3, <1>6, <2>1, CloseTypes DEF Reported
<1> QED  BY <1>1, <1>4, <1>5, <1>6 DEF Coroutine

-----------------------------------------------------------------------------
\* A shift that is closed has left nothing behind; what waits at one that is
\* open is what was offered and has not been taken.
InOrder(c) ==
  /\ ~Open(c) => /\ inbox[c] = <<>> /\ assignments[c] = <<>> /\ ~ending[c]
                 /\ count[c] = 0 /\ hist[c] = 0 /\ offered[c] = 0
  /\ Taken(c) <= offered[c]
  /\ Open(c) => Join(assignments[c], Offers(c)) = Numbers(Taken(c), offered[c])

\* It holds of all shifts.
AllInOrder == \A c \in Shifts : InOrder(c)

\* The offered assignments are numbers.
LEMMA OffersType ==
  ASSUME NEW s \in Seq(Signals)
  PROVE  Bodies(s, Assignments) \in Seq(1..MaxOffered)
BY SignalKinds, BodiesType

\* The queues of a shift are sequences of numbers.
LEMMA QueueTypes ==
  ASSUME ShiftTypes, NEW c \in Shifts
  PROVE  /\ inbox[c] \in Seq(Signals)
         /\ assignments[c] \in Seq(Nat) /\ Offers(c) \in Seq(Nat)
         /\ offered[c] \in Nat /\ count[c] \in Nat /\ Taken(c) \in Nat
<1>1. inbox[c] \in Seq(Signals) /\ assignments[c] \in Seq(1..MaxOffered)
      /\ offered[c] \in Nat /\ count[c] \in Nat
  BY ShiftAssumption DEF ShiftTypes
<1>2. Offers(c) \in Seq(1..MaxOffered)  BY <1>1, OffersType DEF Offers
<1>3. \A s \in Seq(1..MaxOffered) : s \in Seq(Nat)
  BY ShiftAssumption
<1> QED  BY <1>1, <1>2, <1>3 DEF Taken

\* Closed shifts are in order.
LEMMA InitInOrder == ShiftInit => AllInOrder
<1> SUFFICES ASSUME ShiftInit, NEW c \in Shifts  PROVE InOrder(c)
  BY DEF AllInOrder
<1> QED  BY DEF ShiftInit, InOrder, Open, Taken

\* A shift that a step does not touch.
LEMMA InOrderStays ==
  ASSUME NEW c \in Shifts, InOrder(c),
         inbox'[c] = inbox[c], pc'[c] = pc[c], assignments'[c] = assignments[c],
         ending'[c] = ending[c], count'[c] = count[c], hist'[c] = hist[c],
         offered'[c] = offered[c]
  PROVE  InOrder(c)'
<1>1. Offers(c)' = Offers(c)  BY DEF Offers
<1>2. Taken(c)' = Taken(c)  BY DEF Taken
<1> QED  BY <1>1, <1>2 DEF InOrder, Open

\* A fresh shift has nothing waiting.
LEMMA StartInOrder ==
  ASSUME ShiftTypes, NEW c \in Shifts, InOrder(c), Start(c)  PROVE InOrder(c)'
<1>1. /\ pc[c] = "closed" /\ pc'[c] = "new"
      /\ UNCHANGED <<inbox, assignments, ending, count, hist, offered>>
  BY DEF Start, ShiftTypes
<1>2. Offers(c)' = <<>>
  BY <1>1, BodiesEmpty DEF InOrder, Open, Offers
<1>3. assignments[c] = <<>> /\ Taken(c)' = 0 /\ offered[c] = 0
  BY <1>1 DEF InOrder, Open, Taken
<1> QED  BY <1>1, <1>2, <1>3, NumbersEmpty DEF InOrder, Open, Join

\* A shift that closes leaves nothing behind.
LEMMA CloseInOrder ==
  ASSUME ShiftTypes, NEW c \in Shifts, InOrder(c), Close(c)  PROVE InOrder(c)'
BY DEF Close, ShiftTypes, InOrder, Open, Taken

\* A ping or an end_shift adds no assignment.
LEMMA SendInOrder ==
  ASSUME ShiftTypes, NEW c \in Shifts, InOrder(c), NEW s \in {LocationPing, EndShift}, Send(c, s)
  PROVE  InOrder(c)'
<1>1. /\ Open(c) /\ inbox'[c] = Append(inbox[c], s)
      /\ UNCHANGED <<pc, assignments, ending, count, hist, offered>>
  BY DEF Send, Deliver, ShiftTypes
<1>2. s \in Signals /\ s \notin Assignments
  BY DEF Signals, Assignments, Assignment, LocationPing, EndShift
<1>3. Offers(c)' = Offers(c)
  BY <1>1, <1>2, QueueTypes, BodiesAppend DEF Offers
<1> QED  BY <1>1, <1>3 DEF InOrder, Open, Taken

\* An assignment is the next number.
LEMMA OfferInOrder ==
  ASSUME ShiftTypes, NEW c \in Shifts, InOrder(c), Offer(c)  PROVE InOrder(c)'
<1> DEFINE n == offered[c]
           s == Assignment(n + 1)
<1>1. /\ Open(c) /\ inbox'[c] = Append(inbox[c], s) /\ offered'[c] = n + 1
      /\ UNCHANGED <<pc, assignments, ending, count, hist>>
      /\ n + 1 \in 1..MaxOffered
  BY ShiftAssumption DEF Offer, Deliver, ShiftTypes
<1>2. s \in Signals /\ s \in Assignments /\ s.body = n + 1
  BY <1>1 DEF Signals, Assignments, Assignment
<1>3. Offers(c)' = Append(Offers(c), n + 1)
  BY <1>1, <1>2, QueueTypes, BodiesAppend DEF Offers
<1>4. Taken(c)' = Taken(c) /\ Taken(c) \in Nat /\ n \in Nat /\ Taken(c) <= n
  BY <1>1, QueueTypes DEF Taken, InOrder
<1> HIDE DEF n
<1>5. Append(Numbers(Taken(c), n), n + 1) = Numbers(Taken(c), n + 1)
  BY <1>4, NumbersAppend
<1>6. assignments[c] \in Seq(Nat) /\ Offers(c) \in Seq(Nat) /\ n + 1 \in Nat
  BY <1>4, QueueTypes
<1>7. Join(assignments[c], Append(Offers(c), n + 1)) = Append(Join(assignments[c], Offers(c)), n + 1)
  <2> DEFINE a == assignments[c]
             b == Offers(c)
             k == n + 1
  <2>1. a \in Seq(Nat) /\ b \in Seq(Nat) /\ k \in Nat  BY <1>6
  <2> HIDE DEF a, b, k
  <2>2. a \o Append(b, k) = Append(a \o b, k)  BY <2>1, ConcatAppend
  <2>3. Join(a, Append(b, k)) = Append(Join(a, b), k)  BY <2>2 DEF Join
  <2> QED  BY <2>3 DEF a, b, k
<1>8. Join(assignments[c], Offers(c)) = Numbers(Taken(c), n)
  BY <1>1 DEF InOrder, n
<1>9. Join(assignments'[c], Offers(c)') = Numbers(Taken(c)', n + 1)
  BY <1>1, <1>3, <1>4, <1>5, <1>7, <1>8
<1>10. Taken(c)' <= offered'[c] /\ offered'[c] = n + 1
  BY <1>1, <1>4 DEF n
<1> QED  BY <1>1, <1>9, <1>10 DEF InOrder, Open

\* The handler of assignment moves one from the inbox to the list.
LEMMA HandleInOrder ==
  ASSUME ShiftTypes, NEW c \in Shifts, InOrder(c), Handle(c)  PROVE InOrder(c)'
<1> DEFINE s == Head(inbox[c])
           r == Bodies(Tail(inbox[c]), Assignments)
           a == assignments[c]
<1>1. /\ Open(c) /\ inbox'[c] = Tail(inbox[c]) /\ inbox[c] # <<>>
      /\ UNCHANGED <<pc, count, offered>>
      /\ assignments'[c] = IF s.kind = "assignment" THEN Append(a, s.body) ELSE a
  BY DEF Handle, ShiftTypes
<1>2. s \in Signals /\ Tail(inbox[c]) \in Seq(Signals) /\ inbox[c] \in Seq(Signals)
  BY <1>1, QueueTypes
<1>3. Offers(c) = IF s \in Assignments THEN <<s.body>> \o r ELSE r
  BY <1>1, <1>2, BodiesHeadTail DEF Offers
<1>4. Offers(c)' = r  BY <1>1 DEF Offers
<1>5. a \in Seq(Nat) /\ r \in Seq(Nat)
  <2>1. r \in Seq(1..MaxOffered)  BY <1>2, OffersType
  <2>2. \A t \in Seq(1..MaxOffered) : t \in Seq(Nat)  BY ShiftAssumption
  <2> QED  BY <2>1, <2>2, QueueTypes
<1>6. Taken(c)' = Taken(c)  BY <1>1 DEF Taken
<1>7. s.kind = "assignment" <=> s \in Assignments  BY <1>2, SignalKinds
<1>8. s.kind = "assignment" => s.body \in Nat  BY <1>2, SignalKinds, ShiftAssumption
<1> HIDE DEF s, r, a
<1>9. CASE s.kind = "assignment"
  <2>1. a \o (<<s.body>> \o r) = Append(a, s.body) \o r
    BY <1>5, <1>8, <1>9
  <2>2. Join(a, Offers(c)) = Join(assignments'[c], Offers(c)')
    BY <1>1, <1>3, <1>4, <1>7, <1>9, <2>1 DEF Join
  <2> QED  BY <1>1, <1>6, <2>2 DEF InOrder, Open, a
<1>10. CASE s.kind # "assignment"
  <2>1. Join(a, Offers(c)) = Join(assignments'[c], Offers(c)')
    BY <1>1, <1>3, <1>4, <1>7, <1>10
  <2> QED  BY <1>1, <1>6, <2>1 DEF InOrder, Open, a
<1> QED  BY <1>9, <1>10

\* The coroutine takes the first of the list.
LEMMA AcceptInOrder ==
  ASSUME ShiftTypes, NEW c \in Shifts, InOrder(c), pc[c] \in {"new", "wait", "report"}, Accept(c)
  PROVE  InOrder(c)'
<1> DEFINE n == offered[c]
           k == count[c]
           a == assignments[c]
           b == Offers(c)
<1>1. /\ pc'[c] = "accept" /\ assignments'[c] = Tail(a) /\ a # <<>>
      /\ UNCHANGED <<inbox, ending, count, offered>>
  BY DEF Accept, ShiftTypes
<1>2. Open(c) /\ Taken(c) = k /\ Taken(c)' = k + 1 /\ Offers(c)' = b
  BY <1>1, QueueTypes DEF Open, Taken, Offers
<1>3. a \in Seq(Nat) /\ b \in Seq(Nat) /\ n \in Nat /\ k \in Nat
  BY QueueTypes
<1>4. Join(a, b) = Numbers(k, n)  BY <1>2 DEF InOrder
<1> HIDE DEF n, k, a, b
<1>5. Join(a, b) # <<>> /\ Tail(Join(a, b)) = Join(Tail(a), b)
  BY <1>1, <1>3 DEF Join
<1>6. k < n /\ Tail(Numbers(k, n)) = Numbers(k + 1, n)
  BY <1>3, <1>4, <1>5, NumbersTail
<1>7. Join(Tail(a), b) = Numbers(k + 1, n) /\ k + 1 <= n
  BY <1>3, <1>4, <1>5, <1>6
<1> QED  BY <1>1, <1>2, <1>7 DEF InOrder, Open, n

\* The segments of run keep the order, continue-as-new included: it carries
\* nothing, because it is taken only with an empty list and an empty inbox.
LEMMA CoroutineInOrder ==
  ASSUME ShiftTypes, NEW c \in Shifts, InOrder(c), Coroutine(c)  PROVE InOrder(c)'
<1>1. ASSUME NEW p \in {"new", "wait"}, pc[c] \in {"new", "wait", "report"},
             pc' = [pc EXCEPT ![c] = p], UNCHANGED <<inbox, assignments, count, offered>>
      PROVE  InOrder(c)'
  <2>1. pc'[c] = p /\ Open(c) /\ Taken(c)' = Taken(c) /\ Offers(c)' = Offers(c)
    BY <1>1 DEF ShiftTypes, Open, Taken, Offers
  <2> QED  BY <1>1, <2>1 DEF InOrder, Open
<1>2. CASE Begin(c)  BY <1>1, <1>2 DEF Begin
<1>3. CASE Wake(c)
  BY <1>1, <1>3, CloseInOrder, AcceptInOrder DEF Wake, ContinueAsNew
<1>4. CASE Accepted(c)
  <2>1. /\ pc[c] = "accept" /\ pc'[c] = "report" /\ count'[c] = count[c] + 1
        /\ UNCHANGED <<inbox, assignments, offered>>
    BY <1>4 DEF Accepted, ShiftTypes
  <2>2. Open(c) /\ Taken(c)' = Taken(c) /\ Offers(c)' = Offers(c)
    BY <2>1, QueueTypes DEF Open, Taken, Offers
  <2> QED  BY <2>1, <2>2 DEF InOrder, Open
<1>5. CASE Reported(c)
  BY <1>1, <1>5, CloseInOrder, AcceptInOrder DEF Reported, ContinueAsNew
<1> QED  BY <1>2, <1>3, <1>4, <1>5 DEF Coroutine


-----------------------------------------------------------------------------
\* The steps of one shift leave the others alone.
Same(d) ==
  /\ inbox'[d] = inbox[d] /\ pc'[d] = pc[d] /\ assignments'[d] = assignments[d]
  /\ ending'[d] = ending[d] /\ count'[d] = count[d] /\ hist'[d] = hist[d]
  /\ offered'[d] = offered[d]

\* All shifts but c stay as they are.
Elsewhere(c) == \A d \in Shifts : d # c => Same(d)

\* Everything a shift does but accept end_shift.
Ordinary(c) ==
  Start(c) \/ Close(c) \/ Offer(c) \/ Send(c, LocationPing) \/ Handle(c) \/ Coroutine(c)

\* What a shift does leaves the others alone.
LEMMA StepsElsewhere ==
  ASSUME ShiftTypes, NEW c \in Shifts, Ordinary(c) \/ Send(c, EndShift)
  PROVE  Elsewhere(c)
<1> SUFFICES ASSUME NEW d \in Shifts, d # c  PROVE Same(d)
  BY DEF Elsewhere
<1>1. CASE Start(c)  BY <1>1 DEF Start, Same, ShiftTypes
<1>2. CASE Close(c)  BY <1>2 DEF Close, Same, ShiftTypes
<1>3. CASE Offer(c)  BY <1>3 DEF Offer, Deliver, Same, ShiftTypes
<1>4. ASSUME NEW s, Send(c, s)  PROVE Same(d)
  BY <1>4 DEF Send, Deliver, Same, ShiftTypes
<1>5. CASE Handle(c)
  <2>1. assignments'[d] = assignments[d]  BY <1>5 DEF Handle, ShiftTypes
  <2>2. ending'[d] = ending[d]  BY <1>5 DEF Handle, ShiftTypes
  <2> QED  BY <1>5, <2>1, <2>2 DEF Handle, Same, ShiftTypes
<1>6. CASE Coroutine(c)
  <2>1. CASE Begin(c)  BY <2>1 DEF Begin, Same, ShiftTypes
  <2>2. ASSUME Close(c)  PROVE Same(d)  BY <2>2 DEF Close, Same, ShiftTypes
  <2>3. ASSUME Accept(c), UNCHANGED hist  PROVE Same(d)
    BY <2>3 DEF Accept, Same, ShiftTypes
  <2>4. ASSUME ContinueAsNew(c)  PROVE Same(d)
    BY <2>4 DEF ContinueAsNew, Same, ShiftTypes
  <2>5. CASE Wake(c)  BY <2>2, <2>3, <2>4, <2>5 DEF Wake
  <2>6. CASE Accepted(c)  BY <2>6 DEF Accepted, Same, ShiftTypes
  <2>7. CASE Reported(c)
    <3>1. CASE pc' = [pc EXCEPT ![c] = "wait"]
               /\ UNCHANGED <<inbox, assignments, ending, count, hist, offered>>
      BY <3>1 DEF Same, ShiftTypes
    <3> QED  BY <2>2, <2>3, <2>4, <2>7, <3>1 DEF Reported
  <2> QED  BY <1>6, <2>1, <2>5, <2>6, <2>7 DEF Coroutine
<1> QED  BY <1>1, <1>2, <1>3, <1>4, <1>5, <1>6 DEF Ordinary

\* What a shift does keeps the types.
LEMMA StepTypes ==
  ASSUME ShiftTypes, NEW c \in Shifts, Ordinary(c) \/ Send(c, EndShift)
  PROVE  ShiftTypes'
<1>1. LocationPing \in Signals /\ EndShift \in Signals  BY DEF Signals
<1> QED  BY <1>1, StartTypes, CloseTypes, OfferTypes, SendTypes, HandleTypes,
            CoroutineTypes DEF Ordinary

\* What a shift does keeps all shifts in order.
LEMMA StepInOrder ==
  ASSUME ShiftTypes, AllInOrder, NEW c \in Shifts, Ordinary(c) \/ Send(c, EndShift)
  PROVE  AllInOrder'
<1>1. InOrder(c)  BY DEF AllInOrder
<1>2. InOrder(c)'
  BY <1>1, StartInOrder, CloseInOrder, OfferInOrder, SendInOrder, HandleInOrder,
     CoroutineInOrder DEF Ordinary
<1>3. ASSUME NEW d \in Shifts, d # c  PROVE InOrder(d)'
  <2>1. Same(d) /\ InOrder(d)  BY <1>3, StepsElsewhere DEF Elsewhere, AllInOrder
  <2> QED  BY <2>1, InOrderStays DEF Same
<1> QED  BY <1>2, <1>3 DEF AllInOrder

-----------------------------------------------------------------------------
\* Who is told to end.
LEMMA ToldElsewhere ==
  ASSUME NEW d, Same(d)  PROVE ToldToEnd(d)' <=> ToldToEnd(d)
BY DEF Same, ToldToEnd, ToSet

\* Nothing but an accepted end_shift tells a shift to end.
LEMMA ToldOrdinary ==
  ASSUME ShiftTypes, NEW c \in Shifts, Ordinary(c), ToldToEnd(c)'
  PROVE  ToldToEnd(c)
<1> DEFINE q == inbox[c]
<1>1. q \in Seq(Signals)  BY DEF ShiftTypes
<1>2. ASSUME Close(c)  PROVE ~ToldToEnd(c)'
  BY <1>2 DEF Close, ToldToEnd, ToSet, ShiftTypes
<1>3. ASSUME inbox'[c] = q, ending'[c] => ending[c]  PROVE ToldToEnd(c)
  BY <1>3 DEF ToldToEnd
<1>4. ASSUME NEW s \in Signals, s # EndShift, inbox'[c] = Append(q, s), UNCHANGED ending
      PROVE  ToldToEnd(c)
  <2> HIDE DEF q
  <2>1. EndShift \in ToSet(Append(q, s)) => EndShift \in ToSet(q)
    BY <1>1, <1>4 DEF ToSet
  <2> QED  BY <1>4, <2>1 DEF ToldToEnd, q
<1>5. CASE Start(c)  BY <1>3, <1>5 DEF Start
<1>6. CASE Offer(c)
  <2> DEFINE s == Assignment(offered[c] + 1)
  <2>1. offered[c] + 1 \in 1..MaxOffered  BY <1>6, ShiftAssumption DEF Offer, ShiftTypes
  <2>2. s \in Signals /\ s # EndShift
    BY <2>1 DEF Signals, Assignments, Assignment, EndShift
  <2>3. inbox'[c] = Append(q, s) /\ UNCHANGED ending
    BY <1>6 DEF Offer, Deliver, ShiftTypes
  <2> QED  BY <1>4, <2>2, <2>3
<1>7. CASE Send(c, LocationPing)
  <2>1. LocationPing \in Signals /\ LocationPing # EndShift
    BY DEF Signals, LocationPing, EndShift
  <2>2. inbox'[c] = Append(q, LocationPing) /\ UNCHANGED ending
    BY <1>7 DEF Send, Deliver, ShiftTypes
  <2> QED  BY <1>4, <2>1, <2>2
<1>8. CASE Handle(c)
  <2>1. /\ q # <<>> /\ inbox'[c] = Tail(q)
        /\ ending'[c] = (ending[c] \/ Head(q).kind = "end")
    BY <1>8 DEF Handle, ShiftTypes
  <2>2. Head(q) \in Signals  BY <1>1, <2>1
  <2>3. Head(q).kind = "end" <=> Head(q) = EndShift  BY <2>2, SignalKinds
  <2> HIDE DEF q
  <2>4. EndShift \in ToSet(Tail(q)) => EndShift \in ToSet(q)
    BY <1>1, <2>1 DEF ToSet
  <2>5. Head(q) = EndShift => EndShift \in ToSet(q)
    BY <1>1, <2>1 DEF ToSet
  <2> QED  BY <2>1, <2>3, <2>4, <2>5 DEF ToldToEnd, q
<1>9. CASE Coroutine(c)
  <2>1. Close(c) \/ (inbox'[c] = q /\ (ending'[c] => ending[c]))
    BY <1>9 DEF Coroutine, Begin, Wake, Accepted, Reported, Accept, ContinueAsNew, ShiftTypes
  <2> QED  BY <1>2, <1>3, <2>1
<1> QED  BY <1>2, <1>5, <1>6, <1>7, <1>8, <1>9 DEF Ordinary


-----------------------------------------------------------------------------
\* The loop: a courier to retire is there, a replacement has a place, no courier
\* is remembered twice, and the places of the fleet are accounted for.
LoopTypes ==
  /\ place \in {"fill", "ping", "retire", "replace", "sleep"}
  /\ couriers \in Seq(Shifts) /\ Len(couriers) <= FleetSize /\ IsInjective(couriers)
  /\ tick \in 0..(RetireEvery - 1)
  /\ toPing \in Seq(Shifts)
  /\ place = "retire" => couriers # <<>>
  /\ place = "replace" => Len(couriers) < FleetSize
  /\ unstarted \in Nat /\ (place = "fill" => unstarted = 0) /\ FleetAccounted

\* No courier the generator remembers was told to end.
NoneToldToEnd == \A c \in ToSet(couriers) : ~ToldToEnd(c)

\* The inductive invariant.
CourierInv == ShiftTypes /\ AllInOrder /\ LoopTypes /\ NoneToldToEnd

\* A courier that is appended is remembered once.
LEMMA RememberOne ==
  ASSUME NEW S, NEW s \in Seq(S), IsInjective(s), NEW c \in S, c \notin ToSet(s)
  PROVE  /\ IsInjective(Append(s, c))
         /\ ToSet(Append(s, c)) = ToSet(s) \cup {c}
         /\ Append(s, c) \in Seq(S) /\ Len(Append(s, c)) = Len(s) + 1
<1> DEFINE t == Append(s, c)
<1>1. /\ t \in Seq(S) /\ Len(t) = Len(s) + 1 /\ t[Len(s) + 1] = c
      /\ \A i \in 1..Len(s) : t[i] = s[i]
  OBVIOUS
<1>2. Len(s) \in Nat /\ DOMAIN s = 1..Len(s) /\ DOMAIN t = 1..(Len(s) + 1)  BY <1>1
<1> HIDE DEF t
<1>3. \A i \in 1..Len(s) : s[i] # c  BY <1>2 DEF ToSet
<1>4. \A i, j \in 1..Len(s) : s[i] = s[j] => i = j  BY <1>2 DEF IsInjective
<1>5. \A i \in DOMAIN t : i \in 1..Len(s) \/ i = Len(s) + 1  BY <1>2
<1>6. IsInjective(t)  BY <1>1, <1>2, <1>3, <1>4, <1>5 DEF IsInjective
<1>7. ToSet(t) = ToSet(s) \cup {c}
  <2>1. \A i \in 1..Len(s) : i \in DOMAIN t /\ i \in DOMAIN s  BY <1>2
  <2>2. Len(s) + 1 \in DOMAIN t  BY <1>2
  <2> QED  BY <1>1, <1>2, <1>5, <2>1, <2>2 DEF ToSet
<1> QED  BY <1>1, <1>6, <1>7 DEF t

\* A courier that is taken out is not remembered any more.
LEMMA ForgetOne ==
  ASSUME NEW S, NEW s \in Seq(S), IsInjective(s), s # <<>>
  PROVE  /\ IsInjective(Tail(s)) /\ Tail(s) \in Seq(S) /\ Len(Tail(s)) = Len(s) - 1
         /\ ToSet(Tail(s)) \subseteq ToSet(s)
         /\ Head(s) \notin ToSet(Tail(s)) /\ Head(s) \in S
<1> DEFINE t == Tail(s)
<1>1. /\ t \in Seq(S) /\ Len(t) = Len(s) - 1 /\ Len(s) \in Nat /\ Len(s) >= 1
      /\ \A i \in 1..(Len(s) - 1) : t[i] = s[i + 1]
      /\ Head(s) = s[1]
  OBVIOUS
<1>2. DOMAIN s = 1..Len(s) /\ DOMAIN t = 1..(Len(s) - 1)  BY <1>1
<1> HIDE DEF t
<1>3. \A i \in DOMAIN t : i \in Nat /\ i + 1 \in DOMAIN s /\ i + 1 # 1 /\ t[i] = s[i + 1]
  BY <1>1, <1>2
<1>4. 1 \in DOMAIN s  BY <1>1, <1>2
<1>5. \A i, j \in DOMAIN s : s[i] = s[j] => i = j  BY DEF IsInjective
<1>6. IsInjective(t)
  <2> SUFFICES ASSUME NEW i \in DOMAIN t, NEW j \in DOMAIN t, t[i] = t[j]  PROVE i = j
    BY DEF IsInjective
  <2>1. i + 1 = j + 1  BY <1>3, <1>5
  <2> QED  BY <1>3, <2>1
<1>7. ToSet(t) \subseteq ToSet(s)  BY <1>3 DEF ToSet
<1>8. s[1] \notin ToSet(t)  BY <1>3, <1>4, <1>5 DEF ToSet
<1> QED  BY <1>1, <1>4, <1>6, <1>7, <1>8 DEF t

\* What a step of the shifts alone, or none, does to the invariant.
LEMMA ShiftsMove ==
  ASSUME ShiftTypes, AllInOrder, NoneToldToEnd,
         UNCHANGED shiftVars \/ (\E c \in Shifts : Ordinary(c))
  PROVE  /\ ShiftTypes' /\ AllInOrder'
         /\ \A d \in Shifts : ToldToEnd(d)' => ToldToEnd(d)
<1>1. CASE UNCHANGED shiftVars
  <2>1. ShiftTypes'  BY <1>1 DEF shiftVars, ShiftTypes
  <2>2. \A d \in Shifts : Same(d)  BY <1>1 DEF shiftVars, Same
  <2>3. AllInOrder'  BY <2>2, InOrderStays DEF AllInOrder, Same
  <2> QED  BY <2>1, <2>2, <2>3, ToldElsewhere
<1>2. ASSUME NEW c \in Shifts, Ordinary(c)
      PROVE  /\ ShiftTypes' /\ AllInOrder'
             /\ \A d \in Shifts : ToldToEnd(d)' => ToldToEnd(d)
  <2>1. ASSUME NEW d \in Shifts, ToldToEnd(d)'  PROVE ToldToEnd(d)
    BY <1>2, <2>1, ToldOrdinary, ToldElsewhere, StepsElsewhere DEF Elsewhere
  <2> QED  BY <1>2, <2>1, StepTypes, StepInOrder
<1> QED  BY <1>1, <1>2

\* The remembered couriers are shifts.
LEMMA CouriersAreShifts == LoopTypes => ToSet(couriers) \subseteq Shifts
BY DEF LoopTypes, ToSet

\* A closed shift was not told to end.
LEMMA ClosedIsQuiet ==
  ASSUME AllInOrder, NEW c \in Shifts, ~Open(c)  PROVE ~ToldToEnd(c)
<1>1. inbox[c] = <<>> /\ ~ending[c]  BY DEF AllInOrder, InOrder
<1> QED  BY <1>1 DEF ToldToEnd, ToSet

\* The invariant holds at first.
LEMMA InitCourier == Init => CourierInv
<1> SUFFICES ASSUME Init  PROVE CourierInv  OBVIOUS
<1>1. ShiftTypes /\ AllInOrder  BY InitShiftTypes, InitInOrder DEF Init
<1>2. couriers = <<>>  BY DEF Init
<1>3. IsInjective(<<>>) /\ ToSet(<<>>) = {}  BY DEF IsInjective, ToSet
<1>4. LoopTypes /\ NoneToldToEnd
  BY <1>2, <1>3, LoopAssumption DEF Init, LoopTypes, FleetAccounted, NoneToldToEnd
<1> QED  BY <1>1, <1>4 DEF CourierInv

\* _start_courier keeps it: the new courier is one that is closed and forgotten.
LEMMA StartCourierInv ==
  ASSUME CourierInv, StartCourier \/ StartFails, Len(couriers) < FleetSize
  PROVE  /\ ShiftTypes' /\ AllInOrder' /\ NoneToldToEnd'
         /\ couriers' \in Seq(Shifts) /\ Len(couriers') <= FleetSize /\ IsInjective(couriers')
         /\ StartCourier => Len(couriers') = Len(couriers) + 1
         /\ StartFails => couriers' = couriers
<1> USE DEF CourierInv
<1>1. UNCHANGED shiftVars \/ \E c \in Shifts : Ordinary(c)
  BY DEF StartCourier, StartFails, Ordinary, Unused, shiftVars
<1>2. /\ ShiftTypes' /\ AllInOrder'
      /\ \A d \in Shifts : ToldToEnd(d)' => ToldToEnd(d)
  BY <1>1, ShiftsMove
<1>3. ToSet(couriers) \subseteq Shifts  BY CouriersAreShifts
<1>4. ASSUME UNCHANGED couriers
      PROVE  /\ NoneToldToEnd' /\ couriers' \in Seq(Shifts)
             /\ Len(couriers') <= FleetSize /\ IsInjective(couriers')
  BY <1>2, <1>3, <1>4 DEF LoopTypes, NoneToldToEnd
<1>5. ASSUME NEW c \in Unused, couriers' = Append(couriers, c)
      PROVE  /\ NoneToldToEnd' /\ couriers' \in Seq(Shifts)
             /\ Len(couriers') <= FleetSize /\ IsInjective(couriers')
  <2>1. c \in Shifts /\ ~Open(c) /\ c \notin ToSet(couriers)  BY DEF Unused
  <2>2. ~ToldToEnd(c)  BY <2>1, ClosedIsQuiet
  <2>3. /\ couriers' \in Seq(Shifts) /\ Len(couriers') = Len(couriers) + 1
        /\ IsInjective(couriers') /\ ToSet(couriers') = ToSet(couriers) \cup {c}
    BY <1>5, <2>1, RememberOne DEF LoopTypes
  <2>4. NoneToldToEnd'  BY <1>2, <1>3, <2>1, <2>2, <2>3 DEF NoneToldToEnd
  <2>5. Len(couriers) + 1 <= FleetSize  BY LoopAssumption DEF LoopTypes
  <2> QED  BY <2>3, <2>4, <2>5
<1>6. StartCourier => Len(couriers') = Len(couriers) + 1
  BY DEF StartCourier, LoopTypes
<1> QED  BY <1>2, <1>4, <1>5, <1>6 DEF StartCourier, StartFails

\* Every step keeps it.  A retired courier is taken out of the list before
\* end_shift is sent to it (generator.py:231-232).
LEMMA NextCourier == CourierInv /\ [Next]_vars => CourierInv'
<1> SUFFICES ASSUME CourierInv, [Next]_vars  PROVE CourierInv'
  OBVIOUS
<1> USE DEF CourierInv
<1>1. ToSet(couriers) \subseteq Shifts  BY CouriersAreShifts
<1>2. ASSUME UNCHANGED shiftVars \/ (\E c \in Shifts : Ordinary(c)),
             ToSet(couriers') \subseteq ToSet(couriers)
      PROVE  ShiftTypes' /\ AllInOrder' /\ NoneToldToEnd'
  <2>1. /\ ShiftTypes' /\ AllInOrder'
        /\ \A d \in Shifts : ToldToEnd(d)' => ToldToEnd(d)
    BY <1>2, ShiftsMove
  <2> QED  BY <1>1, <1>2, <2>1 DEF NoneToldToEnd
<1>3. CASE Fill
  <2>1. /\ place = "fill" /\ Len(couriers) < FleetSize /\ (StartCourier \/ StartFails)
        /\ UNCHANGED <<place, tick, toPing, unstarted>>
    BY <1>3 DEF Fill
  <2> QED  BY <2>1, StartCourierInv DEF LoopTypes, FleetAccounted
<1>4. CASE BeginTick
  <2>1. (tick + 1) % RetireEvery \in 0..(RetireEvery - 1)
    BY LoopAssumption DEF LoopTypes
  <2>2. FleetAccounted'
    <3>1. Len(couriers) + unstarted = FleetSize
      <4>1. CASE place = "sleep"  BY <4>1, LoopAssumption DEF LoopTypes, FleetAccounted
      <4>2. CASE place = "fill" /\ Len(couriers) >= FleetSize
        BY <4>2, LoopAssumption DEF LoopTypes
      <4> QED  BY <1>4, <4>1, <4>2 DEF BeginTick
    <3> QED  BY <1>4, <3>1, LoopAssumption DEF BeginTick, LoopTypes, FleetAccounted
  <2>3. LoopTypes'  BY <1>4, <2>1, <2>2 DEF BeginTick, LoopTypes
  <2>4. UNCHANGED <<shiftVars, couriers>>  BY <1>4 DEF BeginTick
  <2> QED  BY <1>2, <2>3, <2>4
<1>5. CASE Ping
  <2>1. /\ place = "ping" /\ toPing # <<>> /\ Signal(Head(toPing), LocationPing)
        /\ toPing' = Tail(toPing) /\ UNCHANGED <<place, couriers, tick, unstarted>>
    BY <1>5 DEF Ping
  <2>2. Head(toPing) \in Shifts /\ Tail(toPing) \in Seq(Shifts)
    BY <2>1 DEF LoopTypes
  <2>3. UNCHANGED shiftVars \/ Ordinary(Head(toPing))
    BY <2>1 DEF Signal, Ordinary
  <2>4. LoopTypes'  BY <2>1, <2>2 DEF LoopTypes, FleetAccounted
  <2> QED  BY <1>2, <2>1, <2>2, <2>3, <2>4
<1>6. CASE AssignOne
  <2>1. /\ UNCHANGED <<couriers, tick, toPing, unstarted>> /\ place' = AfterAssign
        /\ place = "ping"
        /\ UNCHANGED shiftVars \/ \E c \in ToSet(couriers) : Assign(c)
    BY <1>6 DEF AssignOne
  <2>2. UNCHANGED shiftVars \/ \E c \in Shifts : Ordinary(c)
    BY <1>1, <2>1 DEF Assign, Ordinary
  <2>3. LoopTypes'  BY <2>1 DEF AfterAssign, LoopTypes, FleetAccounted
  <2> QED  BY <1>2, <2>1, <2>2, <2>3
<1>7. CASE Retire
  <2> DEFINE c == Head(couriers)
  <2>1. /\ place = "retire" /\ Signal(c, EndShift) /\ couriers' = Tail(couriers)
        /\ place' = "replace" /\ UNCHANGED <<tick, toPing, unstarted>>
    BY <1>7 DEF Retire
  <2>2. /\ IsInjective(couriers') /\ couriers' \in Seq(Shifts)
        /\ Len(couriers') = Len(couriers) - 1 /\ ToSet(couriers') \subseteq ToSet(couriers)
        /\ c \notin ToSet(couriers') /\ c \in Shifts
    BY <2>1, ForgetOne DEF LoopTypes
  <2>3. Len(couriers) \in Nat /\ FleetSize \in Nat  BY LoopAssumption DEF LoopTypes
  <2>4. LoopTypes'  BY <2>1, <2>2, <2>3 DEF LoopTypes, FleetAccounted
  <2> HIDE DEF c
  <2>5. CASE UNCHANGED shiftVars  BY <1>2, <2>2, <2>4, <2>5
  <2>6. CASE Send(c, EndShift)
    <3>1. ShiftTypes' /\ AllInOrder'  BY <2>2, <2>6, StepTypes, StepInOrder
    <3>2. Elsewhere(c)  BY <2>2, <2>6, StepsElsewhere
    <3>3. NoneToldToEnd'
      BY <1>1, <2>2, <3>2, ToldElsewhere DEF Elsewhere, NoneToldToEnd
    <3> QED  BY <2>4, <3>1, <3>3
  <2> QED  BY <2>1, <2>5, <2>6 DEF Signal
<1>8. CASE Replace
  <2>1. /\ place = "replace" /\ place' = "sleep" /\ UNCHANGED <<tick, toPing>>
        /\ \/ StartCourier /\ UNCHANGED unstarted
           \/ StartFails /\ unstarted' = unstarted + 1
    BY <1>8 DEF Replace
  <2>2. Len(couriers) \in Nat /\ unstarted \in Nat /\ FleetSize \in Nat
    BY LoopAssumption DEF LoopTypes
  <2>3. Len(couriers) + unstarted + 1 = FleetSize
    BY <2>1 DEF LoopTypes, FleetAccounted
  <2>4. Len(couriers') + unstarted' = FleetSize /\ unstarted' \in Nat
    <3>1. CASE StartCourier /\ UNCHANGED unstarted  BY <2>2, <2>3, <3>1, StartCourierInv DEF LoopTypes
    <3>2. CASE StartFails /\ unstarted' = unstarted + 1
      BY <2>2, <2>3, <3>2 DEF StartFails
    <3> QED  BY <2>1, <3>1, <3>2
  <2>5. FleetAccounted'  BY <2>1, <2>4, LoopAssumption DEF FleetAccounted
  <2> QED  BY <2>1, <2>2, <2>4, <2>5, StartCourierInv DEF LoopTypes
<1>9. CASE Reboot
  <2>1. couriers' = <<>> /\ UNCHANGED shiftVars  BY <1>9 DEF Reboot
  <2>2. IsInjective(<<>>) /\ ToSet(<<>>) = {}  BY DEF IsInjective, ToSet
  <2>3. LoopTypes'  BY <1>9, <2>2, LoopAssumption DEF Reboot, LoopTypes, FleetAccounted
  <2> QED  BY <1>2, <2>1, <2>2, <2>3
<1>10. ASSUME NEW c \in Shifts, Workflow(c) \/ Operator(c)  PROVE CourierInv'
  <2>1. UNCHANGED loopVars /\ Ordinary(c)
    BY <1>10 DEF Workflow, Operator, Terminate, Ordinary
  <2>2. LoopTypes' /\ couriers' = couriers  BY <2>1 DEF loopVars, LoopTypes, FleetAccounted
  <2> QED  BY <1>2, <2>1, <2>2
<1>11. CASE UNCHANGED vars
  <2>1. UNCHANGED shiftVars /\ UNCHANGED loopVars  BY <1>11 DEF vars
  <2>2. LoopTypes' /\ couriers' = couriers  BY <2>1 DEF loopVars, LoopTypes, FleetAccounted
  <2> QED  BY <1>2, <2>1, <2>2
<1> QED  BY <1>3, <1>4, <1>5, <1>6, <1>7, <1>8, <1>9, <1>10, <1>11 DEF Next, Loop

\* It holds in every behaviour.
LEMMA CourierAlways == Spec => []CourierInv
BY InitCourier, NextCourier, PTL DEF Spec

\* The loop's and the shifts' variables keep their types.
THEOREM TypeCorrect == Spec => []TypeOK
<1>1. CourierInv => TypeOK
  <2> SUFFICES ASSUME CourierInv  PROVE TypeOK  OBVIOUS
  <2>1. count \in [Shifts -> 0..MaxOffered]
    <3> SUFFICES ASSUME NEW c \in Shifts  PROVE count[c] \in 0..MaxOffered
      BY DEF CourierInv, ShiftTypes
    <3>1. count[c] \in Nat /\ offered[c] \in 0..MaxOffered /\ Taken(c) <= offered[c]
      BY DEF CourierInv, ShiftTypes, AllInOrder, InOrder
    <3> QED  BY <3>1, ShiftAssumption DEF Taken
  <2>2. unstarted \in 0..FleetSize
    BY LoopAssumption DEF CourierInv, LoopTypes, FleetAccounted
  <2> QED  BY <2>1, <2>2 DEF CourierInv, ShiftTypes, LoopTypes, TypeOK, ShiftTypeOK
<1> QED  BY <1>1, CourierAlways, PTL

\* "the courier loop replaces shifts on its own" (README.md:346): a place of
\* the fleet is lost only with a start that failed.
THEOREM FleetIsAccounted == Spec => []FleetAccounted
<1>1. CourierInv => FleetAccounted  BY DEF CourierInv, LoopTypes
<1> QED  BY <1>1, CourierAlways, PTL

\* An open shift carries out every accepted assignment, once and in order.
THEOREM AssignmentsAreInOrder == Spec => []AssignmentsInOrder
<1>1. CourierInv => AssignmentsInOrder
  BY DEF CourierInv, AllInOrder, InOrder, AssignmentsInOrder, Join, Numbers
<1> QED  BY <1>1, CourierAlways, PTL

\* A courier that the generator counts on was never told to end.
THEOREM TheFleetGoesOn == Spec => []FleetGoesOn
<1>1. CourierInv => FleetGoesOn
  BY DEF CourierInv, NoneToldToEnd, FleetGoesOn
<1> QED  BY <1>1, CourierAlways, PTL


-----------------------------------------------------------------------------
\* Where end_shift is lost.

\* The step at which a shift may forget that it was told to end.
Drops(c) == pc[c] = "report" /\ hist[c] > MaxHistory /\ pc'[c] = "new"

\* A sequence without elements has no end_shift.
LEMMA NothingTold ==
  ASSUME NEW c, inbox[c] = <<>>, ~ending[c]  PROVE ~ToldToEnd(c)
BY DEF ToldToEnd, ToSet

\* A shift that was told to end still is, unless it closes or drops it.
LEMMA ToldStays ==
  ASSUME ShiftTypes, NEW c \in Shifts, Ordinary(c) \/ Send(c, EndShift), ToldToEnd(c)
  PROVE  ToldToEnd(c)' \/ ~Open(c)' \/ Drops(c)
<1> DEFINE q == inbox[c]
<1>1. q \in Seq(Signals)  BY DEF ShiftTypes
<1>2. ASSUME Close(c)  PROVE ~Open(c)'
  BY <1>2 DEF Close, Open, ShiftTypes
<1>3. ASSUME inbox'[c] = q, ending[c] => ending'[c]  PROVE ToldToEnd(c)'
  BY <1>3 DEF ToldToEnd
<1>4. ASSUME NEW s \in Signals, inbox'[c] = Append(q, s), UNCHANGED ending
      PROVE  ToldToEnd(c)'
  <2> HIDE DEF q
  <2>1. EndShift \in ToSet(q) => EndShift \in ToSet(Append(q, s))
    <3>1. \A i \in DOMAIN q : i \in DOMAIN Append(q, s) /\ Append(q, s)[i] = q[i]
      BY <1>1
    <3> QED  BY <3>1 DEF ToSet
  <2> QED  BY <1>4, <2>1 DEF ToldToEnd, q
<1>5. CASE Start(c)  BY <1>3, <1>5 DEF Start
<1>6. CASE Offer(c)
  <2> DEFINE s == Assignment(offered[c] + 1)
  <2>1. offered[c] + 1 \in 1..MaxOffered  BY <1>6, ShiftAssumption DEF Offer, ShiftTypes
  <2>2. s \in Signals  BY <2>1 DEF Signals, Assignments
  <2>3. inbox'[c] = Append(q, s) /\ UNCHANGED ending
    BY <1>6 DEF Offer, Deliver, ShiftTypes
  <2> QED  BY <1>4, <2>2, <2>3
<1>7. ASSUME NEW s \in {LocationPing, EndShift}, Send(c, s)  PROVE ToldToEnd(c)'
  <2>1. s \in Signals  BY DEF Signals
  <2>2. inbox'[c] = Append(q, s) /\ UNCHANGED ending
    BY <1>7 DEF Send, Deliver, ShiftTypes
  <2> QED  BY <1>4, <2>1, <2>2
<1>8. CASE Handle(c)
  <2>1. /\ q # <<>> /\ inbox'[c] = Tail(q)
        /\ ending'[c] = (ending[c] \/ Head(q).kind = "end")
    BY <1>8 DEF Handle, ShiftTypes
  <2>2. Head(q) \in Signals  BY <1>1, <2>1
  <2>3. Head(q).kind = "end" <=> Head(q) = EndShift  BY <2>2, SignalKinds
  <2> HIDE DEF q
  <2>4. EndShift \in ToSet(q) => EndShift = Head(q) \/ EndShift \in ToSet(Tail(q))
    <3> SUFFICES ASSUME NEW i \in DOMAIN q, q[i] = EndShift, i # 1
                 PROVE  EndShift \in ToSet(Tail(q))
      BY <1>1, <2>1 DEF ToSet
    <3>1. i - 1 \in DOMAIN Tail(q) /\ Tail(q)[i - 1] = q[i]
      BY <1>1, <2>1
    <3> QED  BY <3>1 DEF ToSet
  <2> QED  BY <2>1, <2>3, <2>4 DEF ToldToEnd, q
<1>9. CASE Coroutine(c)
  <2>1. CASE Begin(c) \/ Accepted(c)  BY <1>3, <2>1 DEF Begin, Accepted
  <2>2. ASSUME Accept(c)  PROVE ToldToEnd(c)'
    BY <1>3, <2>2 DEF Accept
  <2>3. CASE Wake(c)
    <3>1. ending[c]  BY <2>3, NothingTold DEF Wake
    <3> QED  BY <1>2, <2>3, <3>1 DEF Wake
  <2>4. CASE Reported(c)
    <3>1. CASE hist[c] > MaxHistory /\ ContinueAsNew(c)
      BY <2>4, <3>1 DEF Reported, ContinueAsNew, Drops, ShiftTypes
    <3>2. CASE UNCHANGED <<inbox, assignments, ending, count, hist, offered>>
      BY <1>3, <3>2
    <3> QED  BY <1>2, <2>2, <2>4, <3>1, <3>2 DEF Reported
  <2> QED  BY <1>9, <2>1, <2>3, <2>4 DEF Coroutine
<1> QED  BY <1>2, <1>5, <1>6, <1>7, <1>8, <1>9 DEF Ordinary

\* Of the steps of the loop, each concerns one shift at most.
LEMMA OneShiftSteps ==
  ASSUME CourierInv, [Next]_vars
  PROVE  UNCHANGED shiftVars \/ (\E c \in Shifts : Ordinary(c) \/ Send(c, EndShift))
<1>1. ToSet(couriers) \subseteq Shifts  BY CouriersAreShifts DEF CourierInv
<1>2. CASE Fill \/ Replace
  BY <1>2 DEF Fill, Replace, StartCourier, StartFails, Unused, Ordinary, shiftVars
<1>3. CASE BeginTick \/ Reboot  BY <1>3 DEF BeginTick, Reboot
<1>4. CASE Ping
  <2>1. Head(toPing) \in Shifts  BY <1>4 DEF Ping, CourierInv, LoopTypes
  <2> QED  BY <1>4, <2>1 DEF Ping, Signal, Ordinary
<1>5. CASE AssignOne
  BY <1>1, <1>5 DEF AssignOne, Assign, Ordinary
<1>6. CASE Retire
  <2>1. Head(couriers) \in Shifts  BY <1>6 DEF Retire, CourierInv, LoopTypes
  <2> QED  BY <1>6, <2>1 DEF Retire, Signal
<1>7. ASSUME NEW c \in Shifts, Workflow(c) \/ Operator(c)  PROVE Ordinary(c)
  BY <1>7 DEF Workflow, Operator, Terminate, Ordinary
<1>8. CASE UNCHANGED vars  BY <1>8 DEF vars
<1> QED  BY <1>2, <1>3, <1>4, <1>5, <1>6, <1>7, <1>8 DEF Next, Loop

\* An accepted end_shift is lost at one place only, the hand-over after a
\* report (courier.py:94).
THEOREM EndIsLostThereOnly == Spec => EndIsKept
<1> DEFINE LostThereOnly ==
      \A c \in Shifts : ToldToEnd(c) =>
        \/ ToldToEnd(c)'
        \/ ~Open(c)'
        \/ pc[c] = "report" /\ hist[c] > MaxHistory /\ pc'[c] = "new"
<1>1. ASSUME CourierInv, [Next]_vars  PROVE LostThereOnly
  <2> SUFFICES ASSUME NEW d \in Shifts, ToldToEnd(d)
               PROVE  ToldToEnd(d)' \/ ~Open(d)' \/ Drops(d)
    BY DEF Drops
  <2>1. ShiftTypes  BY <1>1 DEF CourierInv
  <2>2. CASE UNCHANGED shiftVars
    <3>1. Same(d)  BY <2>2 DEF shiftVars, Same
    <3> QED  BY <3>1, ToldElsewhere
  <2>3. ASSUME NEW c \in Shifts, Ordinary(c) \/ Send(c, EndShift)
        PROVE  ToldToEnd(d)' \/ ~Open(d)' \/ Drops(d)
    <3>1. CASE d = c  BY <2>1, <2>3, <3>1, ToldStays
    <3>2. CASE d # c
      <4>1. Same(d)  BY <2>1, <2>3, <3>2, StepsElsewhere DEF Elsewhere
      <4> QED  BY <4>1, ToldElsewhere
    <3> QED  BY <3>1, <3>2
  <2> QED  BY <1>1, <2>2, <2>3, OneShiftSteps
<1>2. CourierInv /\ [Next]_vars => [LostThereOnly]_vars  BY <1>1
<1> HIDE DEF LostThereOnly
<1>3. Spec => [][LostThereOnly]_vars  BY <1>2, CourierAlways, PTL DEF Spec
<1> QED  BY <1>3 DEF EndIsKept, LostThereOnly
=============================================================================
