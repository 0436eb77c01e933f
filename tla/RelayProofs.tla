---------------------------- MODULE RelayProofs ----------------------------
(***************************************************************************)
(* S2 stays on one region, and each signal of the generator that is lost   *)
(* and each death of it leaves at most one more region degraded: for every *)
(* number of regions and of failures, every queue bound and every sequence *)
(* of operator commands, terminations, hand-overs and failed queries,      *)
(* provided that the commands are those of the dashboard: suspend_can is   *)
(* TRUE and the rate is a number.                                          *)
(***************************************************************************)
EXTENDS Relay, FiniteSetTheorems, TLAPS

\* What static/index.html:191 sends as long as no number input is cleared: a
\* cleared one sends a null rate, which ends the generator (relay_heal).
OrdinaryUse == \A s \in Settings : s.suspend /\ s.rate

Sane(d) == d.suspend \/ d = Healthy

(***************************************************************************)
(* The inductive invariant.  Remembered is not inductive: the reset of the *)
(* old region and the order to the new one are separate steps, a generator *)
(* that is down has lost its memory before Boot clears it, and a reset     *)
(* that a fresh run voids would leave its region as it was.  Kept is the   *)
(* region that may be a target without a failure, place by place; Stray,   *)
(* the other targets, are what failures have left.  FreshHealthy says that *)
(* a region whose first task voids a reset was healthy already, because a  *)
(* suspended region is never handed over and, by AllSane, one that is not  *)
(* suspended is healthy.                                                   *)
(***************************************************************************)
AllSane ==
  \A r \in Regions :
    /\ Sane(degr[r])
    /\ \A i \in 1..Len(queue[r]) : Sane(queue[r][i])

DeadIsEmpty == \A r \in Regions : ~alive[r] => queue[r] = <<>>

FreshHealthy == \A r \in Regions : alive[r] /\ fresh[r] => degr[r] = Healthy

PlaceOK == gpc \in {"resetOld", "resetLast"} => mem \in Regions

Kept ==
  IF gpc = "down" \/ (gpc = "signal" /\ mem # seen.to.region) THEN NoRegion ELSE mem

Stray == Targets \ {Kept}

StrayCounted == IsFiniteSet(Stray) /\ Cardinality(Stray) <= faults

(***************************************************************************)
(* Sequences.                                                              *)
(***************************************************************************)

USE DEF accounts

\* What an append adds to a queue.
LEMMA AppendLast ==
  ASSUME NEW S, NEW q \in Seq(S), NEW d \in S
  PROVE  /\ Append(q, d) \in Seq(S) /\ Append(q, d) # <<>>
         /\ Append(q, d)[Len(Append(q, d))] = d
         /\ \A i \in 1..Len(Append(q, d)) :
              \/ Append(q, d)[i] = d
              \/ /\ i \in 1..Len(q)
                 /\ Append(q, d)[i] = q[i]
<1>1. Append(q, d) \in Seq(S) /\ Len(Append(q, d)) = Len(q) + 1
  OBVIOUS
<1>2. Append(q, d) # <<>> /\ Append(q, d)[Len(q) + 1] = d
  OBVIOUS
<1>3. \A i \in 1..Len(q) : Append(q, d)[i] = q[i]
  OBVIOUS
<1>4. \A i \in 1..(Len(q) + 1) : i \in 1..Len(q) \/ i = Len(q) + 1
  OBVIOUS
<1> QED  BY <1>1, <1>2, <1>3, <1>4

\* What is left of a queue when its head leaves.
LEMMA TailLast ==
  ASSUME NEW S, NEW q \in Seq(S), q # <<>>
  PROVE  /\ Head(q) \in S /\ Tail(q) \in Seq(S)
         /\ Head(q) = q[1] /\ 1 \in 1..Len(q)
         /\ Tail(q) = <<>> => Head(q) = q[Len(q)]
         /\ Tail(q) # <<>> => Tail(q)[Len(Tail(q))] = q[Len(q)]
         /\ \A i \in 1..Len(Tail(q)) : i + 1 \in 1..Len(q) /\ Tail(q)[i] = q[i+1]
<1>1. /\ Head(q) \in S /\ Tail(q) \in Seq(S)
      /\ Head(q) = q[1] /\ Len(q) \in Nat /\ Len(q) >= 1
      /\ Len(Tail(q)) = Len(q) - 1
  OBVIOUS
<1>2. \A i \in 1..(Len(q) - 1) : Tail(q)[i] = q[i + 1]
  OBVIOUS
<1>3. Tail(q) = <<>> <=> Len(Tail(q)) = 0
  BY <1>1
<1>4. Tail(q) # <<>> => Tail(q)[Len(q) - 1] = q[Len(q)]
  BY <1>1, <1>2, <1>3
<1> QED  BY <1>1, <1>2, <1>3, <1>4

(***************************************************************************)
(* The regions.  RegionsOK is the part of the invariant they keep by       *)
(* themselves.  None of their moves makes a region a target.               *)
(***************************************************************************)
RegionsOK == RegionTypeOK /\ AllSane /\ DeadIsEmpty /\ FreshHealthy

IInv == TypeOK /\ RegionsOK /\ PlaceOK /\ StrayCounted

NoNewTarget == \A x \in Regions : Targeted(x)' => Targeted(x)

\* The state a region is reset to.
LEMMA HealthyType == Healthy \in Degradations /\ Sane(Healthy)
BY DEF Healthy, Degradations, Sane

\* A handler acts on the first of the signals; the last one stays the last.
LEMMA TakeMove ==
  ASSUME RegionsOK, NEW r \in Regions, Take(r)
  PROVE  RegionsOK' /\ NoNewTarget
<1> DEFINE q == queue[r]
<1>1. q \in Seq(Degradations) /\ q # <<>> /\ alive[r] /\ ~fresh[r]
  BY DEF RegionsOK, RegionTypeOK, Take
<1>2. /\ degr' = [degr EXCEPT ![r] = Head(q)]
      /\ queue' = [queue EXCEPT ![r] = Tail(q)]
      /\ UNCHANGED <<alive, fresh, shown>>
  BY DEF Take
<1>3. /\ Head(q) \in Degradations /\ Tail(q) \in Seq(Degradations)
      /\ Head(q) = q[1] /\ 1 \in 1..Len(q)
      /\ Tail(q) = <<>> => Head(q) = q[Len(q)]
      /\ Tail(q) # <<>> => Tail(q)[Len(Tail(q))] = q[Len(q)]
      /\ \A i \in 1..Len(Tail(q)) : i + 1 \in 1..Len(q) /\ Tail(q)[i] = q[i+1]
  BY <1>1, TailLast
<1>4. RegionTypeOK'
  BY <1>2, <1>3 DEF RegionsOK, RegionTypeOK
<1>5. /\ degr'[r] = Head(q) /\ queue'[r] = Tail(q)
      /\ \A x \in Regions : x # r => degr'[x] = degr[x] /\ queue'[x] = queue[x]
  BY <1>2 DEF RegionsOK, RegionTypeOK
<1>6. \A i \in 1..Len(q) : Sane(q[i])
  BY DEF RegionsOK, AllSane
<1> HIDE DEF q
<1>7. AllSane'
  <2> SUFFICES ASSUME NEW x \in Regions
               PROVE  /\ Sane(degr'[x])
                      /\ \A i \in 1..Len(queue'[x]) : Sane(queue'[x][i])
    BY DEF AllSane, Sane
  <2>1. CASE x = r
    BY <1>3, <1>5, <1>6, <2>1
  <2>2. CASE x # r
    BY <1>5, <2>2 DEF RegionsOK, AllSane
  <2> QED  BY <2>1, <2>2
<1>8. DeadIsEmpty' /\ FreshHealthy'
  BY <1>1, <1>2, <1>5 DEF RegionsOK, DeadIsEmpty, FreshHealthy, Healthy
<1>9. NoNewTarget
  <2> SUFFICES ASSUME NEW x \in Regions, alive'[x], Latest(x)' # Healthy
               PROVE  alive[x] /\ Latest(x) # Healthy
    BY DEF NoNewTarget, Targeted, Healthy
  <2>1. alive[x]  BY <1>2
  <2>2. CASE x = r
    <3>1. Latest(x) = q[Len(q)]  BY <1>1, <2>2 DEF Latest, q
    <3>2. Latest(x)' = q[Len(q)]  BY <1>3, <1>5, <2>2 DEF Latest
    <3> QED  BY <2>1, <3>1, <3>2
  <2>3. CASE x # r
    BY <1>5, <2>1, <2>3 DEF Latest
  <2> QED  BY <2>2, <2>3
<1> QED  BY <1>4, <1>7, <1>8, <1>9 DEF RegionsOK

\* A signal that a first task voids leaves a region that is healthy.
LEMMA VoidMove ==
  ASSUME RegionsOK, NEW r \in Regions, Void(r)
  PROVE  RegionsOK' /\ NoNewTarget
<1> DEFINE q == queue[r]
<1>1. q \in Seq(Degradations) /\ q # <<>> /\ alive[r] /\ fresh[r]
  BY DEF RegionsOK, RegionTypeOK, Void
<1>2. /\ queue' = [queue EXCEPT ![r] = Tail(q)]
      /\ UNCHANGED <<alive, degr, fresh, shown>>
  BY DEF Void
<1>3. /\ Tail(q) \in Seq(Degradations)
      /\ Tail(q) # <<>> => Tail(q)[Len(Tail(q))] = q[Len(q)]
      /\ \A i \in 1..Len(Tail(q)) : i + 1 \in 1..Len(q) /\ Tail(q)[i] = q[i+1]
  BY <1>1, TailLast
<1>4. RegionTypeOK'
  BY <1>2, <1>3 DEF RegionsOK, RegionTypeOK
<1>5. /\ queue'[r] = Tail(q)
      /\ \A x \in Regions : x # r => queue'[x] = queue[x]
  BY <1>2 DEF RegionsOK, RegionTypeOK
<1>6. \A i \in 1..Len(q) : Sane(q[i])
  BY DEF RegionsOK, AllSane
<1>7. degr[r] = Healthy
  BY <1>1 DEF RegionsOK, FreshHealthy
<1> HIDE DEF q
<1>8. AllSane'
  <2> SUFFICES ASSUME NEW x \in Regions
               PROVE  /\ Sane(degr'[x])
                      /\ \A i \in 1..Len(queue'[x]) : Sane(queue'[x][i])
    BY DEF AllSane, Sane
  <2>1. Sane(degr'[x])  BY <1>2 DEF RegionsOK, AllSane
  <2>2. CASE x = r
    BY <1>3, <1>5, <1>6, <2>1, <2>2
  <2>3. CASE x # r
    BY <1>5, <2>1, <2>3 DEF RegionsOK, AllSane
  <2> QED  BY <2>2, <2>3
<1>9. DeadIsEmpty' /\ FreshHealthy'
  BY <1>1, <1>2, <1>5 DEF RegionsOK, DeadIsEmpty, FreshHealthy, Healthy
<1>10. NoNewTarget
  <2> SUFFICES ASSUME NEW x \in Regions, alive'[x], Latest(x)' # Healthy
               PROVE  alive[x] /\ Latest(x) # Healthy
    BY DEF NoNewTarget, Targeted, Healthy
  <2>1. alive[x]  BY <1>2
  <2>2. CASE x = r
    <3>1. Latest(x) = q[Len(q)]  BY <1>1, <2>2 DEF Latest, q
    <3>2. CASE Tail(q) # <<>>
      BY <1>3, <1>5, <2>1, <2>2, <3>1, <3>2 DEF Latest
    <3>3. CASE Tail(q) = <<>>
      <4>1. Latest(x)' = degr[r]  BY <1>2, <1>5, <2>2, <3>3 DEF Latest
      <4> QED  BY <1>7, <4>1
    <3> QED  BY <3>2, <3>3
  <2>3. CASE x # r
    BY <1>2, <1>5, <2>1, <2>3 DEF Latest
  <2> QED  BY <2>2, <2>3
<1> QED  BY <1>4, <1>8, <1>9, <1>10 DEF RegionsOK

\* A run begins, or shows its status: nothing is told to anyone.
LEMMA BeginMove ==
  ASSUME RegionsOK, NEW r \in Regions, Begin(r) \/ Publish(r)
  PROVE  RegionsOK' /\ NoNewTarget
<1>1. UNCHANGED <<alive, degr, queue>>
  BY DEF Begin, Publish
<1>2. \A x \in Regions : fresh'[x] => fresh[x]
  BY DEF Begin, Publish, RegionsOK, RegionTypeOK
<1>3. RegionTypeOK'
  BY <1>1 DEF Begin, Publish, RegionsOK, RegionTypeOK, Status
<1>4. AllSane' /\ DeadIsEmpty' /\ FreshHealthy'
  BY <1>1, <1>2 DEF RegionsOK, AllSane, DeadIsEmpty, FreshHealthy, Healthy, Sane
<1>5. NoNewTarget
  BY <1>1 DEF NoNewTarget, Targeted, Latest, Healthy
<1> QED  BY <1>3, <1>4, <1>5 DEF RegionsOK

\* A region that is handed over is not suspended, hence healthy.
LEMMA HandOverMove ==
  ASSUME RegionsOK, NEW r \in Regions, HandOver(r)
  PROVE  RegionsOK' /\ NoNewTarget
<1>1. UNCHANGED <<alive, degr, queue>>
  BY DEF HandOver
<1>2. degr[r] = Healthy /\ \A x \in Regions : x # r => fresh'[x] = fresh[x]
  BY DEF HandOver, RegionsOK, RegionTypeOK, AllSane, Sane
<1>3. RegionTypeOK'
  BY <1>1 DEF HandOver, RegionsOK, RegionTypeOK, Status
<1>4. AllSane' /\ DeadIsEmpty'
  BY <1>1 DEF RegionsOK, AllSane, DeadIsEmpty, Healthy, Sane
<1>5. FreshHealthy'
  BY <1>1, <1>2 DEF RegionsOK, FreshHealthy, Healthy
<1>6. NoNewTarget
  BY <1>1 DEF NoNewTarget, Targeted, Latest, Healthy
<1> QED  BY <1>3, <1>4, <1>5, <1>6 DEF RegionsOK

\* A terminated region is no target, and its signals are gone.
LEMMA TerminateMove ==
  ASSUME RegionsOK, NEW r \in Regions, Terminate(r)
  PROVE  RegionsOK' /\ NoNewTarget
<1>1. /\ ~alive'[r] /\ queue'[r] = <<>> /\ degr' = degr
      /\ \A x \in Regions : x # r => /\ alive'[x] = alive[x]
                                     /\ queue'[x] = queue[x]
                                     /\ fresh'[x] = fresh[x]
  BY DEF Terminate, RegionsOK, RegionTypeOK
<1>2. RegionTypeOK'
  <2>1. <<>> \in Seq(Degradations)  OBVIOUS
  <2> QED  BY <2>1 DEF Terminate, RegionsOK, RegionTypeOK
<1>3. AllSane'
  BY <1>1 DEF RegionsOK, AllSane, Sane, Healthy
<1>4. DeadIsEmpty' /\ FreshHealthy'
  BY <1>1 DEF RegionsOK, DeadIsEmpty, FreshHealthy, Healthy
<1>5. NoNewTarget
  BY <1>1 DEF NoNewTarget, Targeted, Latest, Healthy
<1> QED  BY <1>2, <1>3, <1>4, <1>5 DEF RegionsOK

\* A launched region is healthy, with an empty queue.
LEMMA LaunchMove ==
  ASSUME RegionsOK, NEW r \in Regions, Launch(r)
  PROVE  RegionsOK' /\ NoNewTarget
<1>1. /\ queue[r] = <<>> /\ queue' = queue /\ degr'[r] = Healthy
      /\ \A x \in Regions : x # r => /\ alive'[x] = alive[x]
                                     /\ degr'[x] = degr[x]
                                     /\ fresh'[x] = fresh[x]
  BY DEF Launch, RegionsOK, RegionTypeOK, DeadIsEmpty
<1>2. RegionTypeOK'
  BY HealthyType DEF Launch, RegionsOK, RegionTypeOK
<1>3. AllSane'
  <2> SUFFICES ASSUME NEW x \in Regions
               PROVE  /\ Sane(degr'[x])
                      /\ \A i \in 1..Len(queue'[x]) : Sane(queue'[x][i])
    BY DEF AllSane, Sane
  <2> QED  BY <1>1, HealthyType DEF RegionsOK, AllSane
<1>4. DeadIsEmpty' /\ FreshHealthy'
  BY <1>1 DEF RegionsOK, DeadIsEmpty, FreshHealthy, Healthy
<1>5. NoNewTarget
  <2> SUFFICES ASSUME NEW x \in Regions, alive'[x], Latest(x)' # Healthy
               PROVE  alive[x] /\ Latest(x) # Healthy
    BY DEF NoNewTarget, Targeted, Healthy
  <2>1. x # r  BY <1>1 DEF Latest
  <2> QED  BY <1>1, <2>1 DEF Latest
<1> QED  BY <1>2, <1>3, <1>4, <1>5 DEF RegionsOK

\* A signal that arrives makes its region a target only if it orders a
\* degradation; one that is lost counts as a failure and changes no region.
LEMMA SignalMove ==
  ASSUME RegionsOK, NEW r \in Regions, NEW d \in Degradations, Sane(d), Signal(r, d)
  PROVE  /\ RegionsOK'
         /\ \/ /\ faults' = faults
               /\ \A x \in Regions :
                    Targeted(x)' => IF x = r THEN d # Healthy ELSE Targeted(x)
            \/ faults' = faults + 1 /\ NoNewTarget
<1>0. CASE Fault /\ UNCHANGED regionVars
  BY <1>0 DEF Fault, NoNewTarget, regionVars, RegionsOK, RegionTypeOK, AllSane, DeadIsEmpty,
              FreshHealthy, Healthy, Sane, Targeted, Latest
<1>1. CASE Deliver(r, d) /\ UNCHANGED accounts /\ ~alive[r]
  <2>1. UNCHANGED <<regionVars, accounts>>
    BY <1>1 DEF Deliver, regionVars
  <2>2. RegionsOK'
    BY <2>1 DEF regionVars, RegionsOK, RegionTypeOK, AllSane, DeadIsEmpty,
                FreshHealthy, Healthy, Sane
  <2> QED  BY <1>1, <2>1, <2>2 DEF regionVars, Targeted, Latest, Healthy
<1>2. CASE Deliver(r, d) /\ UNCHANGED accounts /\ alive[r]
  <2> DEFINE q == queue[r]
             p == Append(q, d)
  <2>1. q \in Seq(Degradations)  BY DEF RegionsOK, RegionTypeOK
  <2>2. /\ p \in Seq(Degradations) /\ p # <<>>
        /\ p[Len(p)] = d
        /\ \A i \in 1..Len(p) : \/ p[i] = d
                                \/ i \in 1..Len(q) /\ p[i] = q[i]
    BY <2>1, AppendLast
  <2>3. /\ queue' = [queue EXCEPT ![r] = p]
        /\ UNCHANGED <<alive, degr, fresh, shown, accounts>>
    BY <1>2 DEF Deliver
  <2>4. /\ queue'[r] = p
        /\ \A x \in Regions : x # r => queue'[x] = queue[x]
    BY <2>3 DEF RegionsOK, RegionTypeOK
  <2>5. \A i \in 1..Len(q) : Sane(q[i])
    BY DEF RegionsOK, AllSane
  <2>6. RegionTypeOK'
    BY <2>2, <2>3 DEF RegionsOK, RegionTypeOK
  <2> HIDE DEF q, p
  <2>7. AllSane'
    <3> SUFFICES ASSUME NEW x \in Regions
                 PROVE  /\ Sane(degr'[x])
                        /\ \A i \in 1..Len(queue'[x]) : Sane(queue'[x][i])
      BY DEF AllSane, Sane
    <3>1. Sane(degr'[x])  BY <2>3 DEF RegionsOK, AllSane
    <3>2. CASE x = r
      BY <2>2, <2>4, <2>5, <3>1, <3>2
    <3>3. CASE x # r
      BY <2>4, <3>1, <3>3 DEF RegionsOK, AllSane
    <3> QED  BY <3>2, <3>3
  <2>8. DeadIsEmpty' /\ FreshHealthy'
    BY <1>2, <2>3, <2>4 DEF RegionsOK, DeadIsEmpty, FreshHealthy, Healthy
  <2>9. ASSUME NEW x \in Regions, alive'[x], Latest(x)' # Healthy
        PROVE  IF x = r THEN d # Healthy ELSE alive[x] /\ Latest(x) # Healthy
    <3>1. CASE x = r
      BY <2>2, <2>4, <2>9, <3>1 DEF Latest
    <3>2. CASE x # r
      BY <2>3, <2>4, <2>9, <3>2 DEF Latest
    <3> QED  BY <3>1, <3>2
  <2> QED  BY <2>3, <2>6, <2>7, <2>8, <2>9 DEF RegionsOK, Targeted, Healthy
<1> QED  BY <1>0, <1>1, <1>2 DEF Signal

(***************************************************************************)
(* The relay.                                                              *)
(***************************************************************************)

\* What the page sends is a degradation that suspends.
LEMMA OrderedType ==
  ASSUME OrdinaryUse, NEW s \in Settings
  PROVE  /\ Ordered(s) \in Degradations /\ Sane(Ordered(s))
         /\ s.region \in Regions /\ s.rate
BY SettingsAssumption DEF OrdinaryUse, Ordered, Degradations, Sane, AllSettings

\* The types hold whatever is sent and whatever fails.
LEMMA NextTypes ==
  ASSUME TypeOK, [Next]_vars
  PROVE  TypeOK'
<1> USE DEF TypeOK
<1>1. ASSUME NEW r, NEW d \in Degradations, Signal(r, d)
      PROVE  RegionTypeOK' /\ restarts' \in Nat /\ faults' \in Nat
  <2>1. CASE r \in Regions
    <3>1. Append(queue[r], d) \in Seq(Degradations)
      BY <2>1, AppendLast DEF RegionTypeOK
    <3>2. CASE Fault /\ UNCHANGED regionVars
      BY <3>2 DEF Fault, RegionTypeOK, regionVars
    <3>3. CASE Deliver(r, d) /\ UNCHANGED accounts
      BY <2>1, <3>1, <3>3 DEF Deliver, RegionTypeOK, regionVars
    <3> QED  BY <1>1, <3>2, <3>3 DEF Signal
  <2>2. CASE r \notin Regions
    BY <1>1, <2>2 DEF Signal, Fault, Deliver, RegionTypeOK, regionVars
  <2> QED  BY <2>1, <2>2
<1>2. ASSUME NEW r \in Regions, Work(r) \/ HandOver(r) \/ Terminate(r) \/ Launch(r)
      PROVE  RegionTypeOK'
  <2>1. CASE Take(r) \/ Void(r)
    <3>1. Head(queue[r]) \in Degradations /\ Tail(queue[r]) \in Seq(Degradations)
      BY <2>1, TailLast DEF Take, Void, RegionTypeOK
    <3> QED  BY <2>1, <3>1 DEF Take, Void, RegionTypeOK
  <2>2. CASE Begin(r) \/ Publish(r) \/ HandOver(r)
    BY <2>2 DEF Begin, Publish, HandOver, RegionTypeOK, Status
  <2>3. CASE Terminate(r) \/ Launch(r)
    <3>1. <<>> \in Seq(Degradations)  OBVIOUS
    <3> QED  BY <2>3, <3>1, HealthyType DEF Terminate, Launch, RegionTypeOK
  <2> QED  BY <1>2, <2>1, <2>2, <2>3 DEF Work
<1>3. \A s \in Wants : Ordered(s.to) \in Degradations /\ s.to.region \in Regions
  BY SettingsAssumption DEF Wants, Ordered, Degradations, AllSettings
<1>4. \A old : \A s \in Wants : NextPlace(s, old) \in Places
  BY DEF Wants, NextPlace, Places
<1>5. ASSUME NEW s \in Settings, Enable(s) \/ Disable  PROVE TypeOK'
  <2>1. want' \in Wants
    <3>1. CASE Enable(s)
      BY <3>1 DEF Enable, Wants
    <3>2. CASE Disable
      BY <3>2 DEF Disable, Wants
    <3> QED  BY <1>5, <3>1, <3>2
  <2>2. UNCHANGED <<alive, degr, queue, fresh, shown, seen, mem, gpc, restarts, faults>>
    BY <1>5 DEF Enable, Disable, regionVars
  <2> QED  BY <2>1, <2>2 DEF RegionTypeOK
<1>6. CASE RefreshOk \/ RefreshFails
  BY <1>4, <1>6 DEF RefreshOk, RefreshFails, Refresh, regionVars, RegionTypeOK
<1>7. CASE ResetOld \/ SendOrder \/ ResetLast
  BY <1>1, <1>3, <1>7, HealthyType DEF ResetOld, SendOrder, ResetLast, Places
<1>8. CASE Crash \/ Boot
  <2>1. seen' \in Wants /\ gpc' \in Places /\ mem' \in Regions \cup {NoRegion}
    BY <1>8 DEF Crash, Boot, Wants, Places
  <2>2. UNCHANGED <<alive, degr, queue, fresh, shown, want>> /\ restarts' \in Nat /\ faults' \in Nat
    BY <1>8 DEF Crash, Boot, Fault, regionVars
  <2> QED  BY <2>1, <2>2 DEF RegionTypeOK
<1>9. ASSUME NEW r \in Regions, RegionWork(r) \/ Keepalive(r) \/ Interrupt(r)
      PROVE  TypeOK'
  BY <1>2, <1>9 DEF RegionWork, Keepalive, Interrupt, relayVars
<1>10. CASE UNCHANGED vars
  BY <1>10 DEF vars, relayVars, regionVars, RegionTypeOK
<1>11. Disable => TypeOK'
  BY <1>5, SettingsAssumption
<1> QED
  BY <1>5, <1>6, <1>7, <1>8, <1>9, <1>10, <1>11 DEF Next

\* At first all regions are down, and none is a target.
LEMMA InitInvariant == Init => IInv
<1> SUFFICES ASSUME Init  PROVE IInv
  OBVIOUS
<1>1. RegionTypeOK
  <2>1. \A r \in Regions : <<>> \in Seq(Degradations)  OBVIOUS
  <2> QED  BY <2>1, HealthyType DEF Init, RegionInit, RegionTypeOK
<1>2. TypeOK
  BY <1>1 DEF Init, TypeOK, Wants, Places
<1>3. AllSane /\ DeadIsEmpty /\ FreshHealthy
  BY HealthyType DEF Init, RegionInit, AllSane, DeadIsEmpty, FreshHealthy
<1>4. Stray = {}
  BY DEF Init, RegionInit, Stray, Targets, Targeted
<1>5. StrayCounted
  BY <1>4, FS_EmptySet DEF Init, StrayCounted
<1> QED  BY <1>1, <1>2, <1>3, <1>5 DEF Init, IInv, RegionsOK, PlaceOK

\* A step that leaves a further target behind is a failure.
LEMMA StrayMoves ==
  ASSUME StrayCounted, faults \in Nat, NEW x,
         \/ Stray' \subseteq Stray /\ faults' \in {faults, faults + 1}
         \/ Stray' \subseteq Stray \cup {x} /\ faults' = faults + 1
  PROVE  StrayCounted'
<1>1. IsFiniteSet(Stray) /\ Cardinality(Stray) \in Nat /\ Cardinality(Stray) <= faults
  BY FS_CardinalityType DEF StrayCounted
<1>2. CASE Stray' \subseteq Stray /\ faults' \in {faults, faults + 1}
  <2>1. IsFiniteSet(Stray') /\ Cardinality(Stray') <= Cardinality(Stray)
    BY <1>1, <1>2, FS_Subset
  <2>2. Cardinality(Stray') \in Nat  BY <2>1, FS_CardinalityType
  <2> QED  BY <1>1, <1>2, <2>1, <2>2 DEF StrayCounted
<1>3. CASE Stray' \subseteq Stray \cup {x} /\ faults' = faults + 1
  <2> DEFINE S == Stray \cup {x}
  <2>1. IsFiniteSet(S) /\ Cardinality(S) \in {Cardinality(Stray), Cardinality(Stray) + 1}
    BY <1>1, FS_AddElement
  <2>2. IsFiniteSet(Stray') /\ Cardinality(Stray') <= Cardinality(S)
    BY <1>3, <2>1, FS_Subset
  <2>3. Cardinality(Stray') \in Nat  BY <2>2, FS_CardinalityType
  <2> QED  BY <1>1, <1>3, <2>1, <2>2, <2>3 DEF StrayCounted
<1> QED  BY <1>2, <1>3

\* A move of a region, with the relay where it is.
LEMMA RegionStep ==
  ASSUME IInv, NoNewTarget, UNCHANGED <<seen, mem, gpc, faults>>
  PROVE  PlaceOK' /\ StrayCounted'
<1>1. PlaceOK'  BY DEF IInv, PlaceOK
<1>2. Stray' \subseteq Stray  BY DEF Stray, Targets, Kept, NoNewTarget
<1>3. faults \in Nat  BY DEF IInv, TypeOK
<1> QED  BY <1>1, <1>2, <1>3, StrayMoves DEF IInv

\* The loop goes on with what it has read: only a region it already keeps
\* is still to be healed.
LEMMA RefreshStep ==
  ASSUME OrdinaryUse, IInv, NEW s \in Wants, Refresh(s)
  PROVE  RegionsOK' /\ PlaceOK' /\ StrayCounted'
<1>1. /\ gpc = "refresh" /\ seen' = s /\ gpc' = NextPlace(s, mem)
      /\ UNCHANGED <<alive, degr, queue, fresh, shown, mem, restarts, faults>>
  BY DEF Refresh, regionVars
<1>2. s.to.rate /\ s.on \in BOOLEAN /\ mem \in Regions \cup {NoRegion} /\ faults \in Nat
  BY OrderedType DEF Wants, IInv, TypeOK
<1>3. \/ s.on /\ mem \notin {NoRegion, s.to.region} /\ gpc' = "resetOld"
      \/ s.on /\ mem \in {NoRegion, s.to.region} /\ gpc' = "signal"
      \/ ~s.on /\ mem # NoRegion /\ gpc' = "resetLast"
      \/ ~s.on /\ mem = NoRegion /\ gpc' = "refresh"
  BY <1>1, <1>2 DEF NextPlace
<1>4. RegionsOK'
  BY <1>1 DEF IInv, RegionsOK, RegionTypeOK, AllSane, DeadIsEmpty, FreshHealthy, Healthy, Sane
<1>5. PlaceOK'
  BY <1>1, <1>2, <1>3 DEF PlaceOK
<1>6. Kept = mem /\ Kept' = mem
  BY <1>1, <1>3 DEF Kept
<1>7. Targets' = Targets
  BY <1>1 DEF Targets, Targeted, Latest, Healthy
<1>8. Stray' = Stray  BY <1>6, <1>7 DEF Stray
<1> QED  BY <1>1, <1>2, <1>4, <1>5, <1>8, StrayMoves DEF IInv

\* Every step keeps what the invariant says beyond the types.
LEMMA NextInvariant ==
  ASSUME OrdinaryUse, IInv, [Next]_vars
  PROVE  IInv'
<1> SUFFICES RegionsOK' /\ PlaceOK' /\ StrayCounted'
  BY NextTypes DEF IInv
<1>0. RegionsOK /\ want \in Wants /\ seen \in Wants /\ faults \in Nat
  BY DEF IInv, TypeOK
<1>1. CASE UNCHANGED <<regionVars, seen, mem, gpc, faults>>
  <2>1. RegionsOK'
    BY <1>0, <1>1 DEF regionVars, RegionsOK, RegionTypeOK, AllSane, DeadIsEmpty, FreshHealthy,
                      Healthy, Sane
  <2>2. NoNewTarget
    BY <1>1 DEF regionVars, NoNewTarget, Targeted, Latest, Healthy
  <2> QED  BY <1>1, <2>1, <2>2, RegionStep
<1>2. CASE Disable \/ (\E s \in Settings : Enable(s)) \/ UNCHANGED vars
  BY <1>1, <1>2 DEF Enable, Disable, vars, relayVars
<1>3. CASE RefreshOk \/ RefreshFails
  BY <1>0, <1>3, RefreshStep DEF RefreshOk, RefreshFails
<1>4. CASE ResetOld
  <2>1. /\ gpc = "resetOld" /\ Signal(mem, Healthy)
        /\ gpc' = "signal" /\ UNCHANGED <<seen, mem>>
    BY <1>0, <1>4, OrderedType DEF ResetOld, Wants
  <2>2. mem \in Regions  BY <2>1 DEF IInv, PlaceOK
  <2>3. PlaceOK'  BY <2>1 DEF PlaceOK
  <2>4. RegionsOK'  BY <1>0, <2>1, <2>2, SignalMove, HealthyType
  <2>5. CASE faults' = faults /\ \A x \in Regions : Targeted(x)' => x # mem /\ Targeted(x)
    <3>1. Stray' \subseteq Stray  BY <2>1, <2>5 DEF Stray, Targets, Kept
    <3> QED  BY <1>0, <2>3, <2>4, <2>5, <3>1, StrayMoves DEF IInv
  <2>6. CASE faults' = faults + 1 /\ NoNewTarget
    <3>1. Stray' \subseteq Stray \cup {mem}
      BY <2>1, <2>6 DEF Stray, Targets, Kept, NoNewTarget
    <3> QED  BY <1>0, <2>3, <2>4, <2>6, <3>1, StrayMoves DEF IInv
  <2> QED  BY <1>0, <2>1, <2>2, <2>5, <2>6, SignalMove, HealthyType
<1>5. CASE SendOrder
  <2> DEFINE goal == seen.to.region
  <2>1. /\ gpc = "signal" /\ Signal(goal, Ordered(seen.to))
        /\ mem' = goal /\ gpc' = "refresh" /\ UNCHANGED seen
    BY <1>5 DEF SendOrder
  <2>2. goal \in Regions /\ Ordered(seen.to) \in Degradations /\ Sane(Ordered(seen.to))
    BY <1>0, OrderedType DEF Wants
  <2>3. PlaceOK'  BY <2>1 DEF PlaceOK
  <2>4. /\ RegionsOK' /\ faults' \in {faults, faults + 1}
        /\ \A x \in Regions : Targeted(x)' => x = goal \/ Targeted(x)
    BY <1>0, <2>1, <2>2, SignalMove DEF NoNewTarget
  <2>5. Kept' = goal  BY <2>1 DEF Kept
  <2>6. Kept = goal \/ Kept = NoRegion  BY <2>1 DEF Kept
  <2>7. Stray' \subseteq Stray
    BY <2>4, <2>5, <2>6, NoRegionAssumption DEF Stray, Targets
  <2> QED  BY <1>0, <2>3, <2>4, <2>7, StrayMoves DEF IInv
<1>6. CASE ResetLast
  <2>1. /\ gpc = "resetLast" /\ Signal(mem, Healthy)
        /\ mem' = NoRegion /\ gpc' = "refresh" /\ UNCHANGED seen
    BY <1>6 DEF ResetLast
  <2>2. mem \in Regions  BY <2>1 DEF IInv, PlaceOK
  <2>3. PlaceOK'  BY <2>1 DEF PlaceOK
  <2>4. RegionsOK'  BY <1>0, <2>1, <2>2, SignalMove, HealthyType
  <2>5. CASE faults' = faults /\ \A x \in Regions : Targeted(x)' => x # mem /\ Targeted(x)
    <3>1. Stray' \subseteq Stray  BY <2>1, <2>5 DEF Stray, Targets, Kept
    <3> QED  BY <1>0, <2>3, <2>4, <2>5, <3>1, StrayMoves DEF IInv
  <2>6. CASE faults' = faults + 1 /\ NoNewTarget
    <3>1. Stray' \subseteq Stray \cup {mem}
      BY <2>1, <2>6 DEF Stray, Targets, Kept, NoNewTarget
    <3> QED  BY <1>0, <2>3, <2>4, <2>6, <3>1, StrayMoves DEF IInv
  <2> QED  BY <1>0, <2>1, <2>2, <2>5, <2>6, SignalMove, HealthyType
<1>7. CASE Crash \/ Boot
  <2>1. UNCHANGED regionVars  BY <1>7 DEF Crash, Boot
  <2>2. RegionsOK'
    BY <1>0, <2>1 DEF regionVars, RegionsOK, RegionTypeOK, AllSane, DeadIsEmpty, FreshHealthy,
                      Healthy, Sane
  <2>3. Targets' = Targets
    BY <2>1 DEF regionVars, Targets, Targeted, Latest, Healthy
  <2>4. PlaceOK'  BY <1>7 DEF Crash, Boot, PlaceOK
  <2>5. Kept' = NoRegion  BY <1>7 DEF Crash, Boot, Kept
  <2>6. CASE Crash
    <3>1. Stray' \subseteq Stray \cup {Kept} /\ faults' = faults + 1
      BY <2>3, <2>6 DEF Stray, Crash, Fault
    <3> QED  BY <1>0, <2>2, <2>4, <3>1, StrayMoves DEF IInv
  <2>7. CASE Boot
    <3>1. Kept = NoRegion /\ faults' = faults  BY <2>7 DEF Boot, Kept
    <3>2. Stray' = Stray  BY <2>3, <2>5, <3>1 DEF Stray
    <3> QED  BY <1>0, <2>2, <2>4, <3>1, <3>2, StrayMoves DEF IInv
  <2> QED  BY <1>7, <2>6, <2>7
<1>8. ASSUME NEW r \in Regions, RegionWork(r) \/ Keepalive(r) \/ Interrupt(r)
      PROVE  RegionsOK' /\ PlaceOK' /\ StrayCounted'
  <2>1. RegionsOK' /\ NoNewTarget
    BY <1>0, <1>8, TakeMove, VoidMove, BeginMove, LaunchMove, HandOverMove, TerminateMove
       DEF RegionWork, Work, Keepalive, Interrupt
  <2>2. UNCHANGED <<seen, mem, gpc, faults>>
    BY <1>8 DEF RegionWork, Keepalive, Interrupt, relayVars
  <2> QED  BY <2>1, <2>2, RegionStep
<1> QED
  BY <1>2, <1>3, <1>4, <1>5, <1>6, <1>7, <1>8 DEF Next

\* The types of the relay's and the regions' variables, for all settings and
\* all failures.
THEOREM TypeCorrect == Spec => []TypeOK
<1>1. Init => TypeOK  BY InitInvariant DEF IInv
<1>2. TypeOK /\ [Next]_vars => TypeOK'  BY NextTypes
<1> QED  BY <1>1, <1>2, PTL DEF Spec

\* The invariant holds in every behaviour driven by the dashboard.
THEOREM Invariance ==
  ASSUME OrdinaryUse
  PROVE  Spec => []IInv
<1>1. IInv /\ [Next]_vars => IInv'  BY NextInvariant
<1> QED  BY <1>1, InitInvariant, PTL DEF Spec

\* What is degraded and not remembered is stray; what is degraded is that
\* and at most one region more.
LEMMA TargetsCounted ==
  ASSUME IInv
  PROVE  Remembered /\ SingleTarget
<1>1. /\ IsFiniteSet(Stray) /\ Cardinality(Stray) \in Nat
      /\ Cardinality(Stray) <= faults /\ faults \in Nat
  BY FS_CardinalityType DEF IInv, TypeOK, StrayCounted
<1>2. Remembered
  <2>1. Targets \ {mem} \subseteq Stray
    BY NoRegionAssumption DEF Stray, Kept, Targets
  <2>2. IsFiniteSet(Targets \ {mem}) /\ Cardinality(Targets \ {mem}) <= Cardinality(Stray)
    BY <1>1, <2>1, FS_Subset
  <2>3. Cardinality(Targets \ {mem}) \in Nat  BY <2>2, FS_CardinalityType
  <2> QED  BY <1>1, <2>2, <2>3 DEF Remembered
<1>3. SingleTarget
  <2> DEFINE S == Stray \cup {Kept}
  <2>1. IsFiniteSet(S) /\ Cardinality(S) \in {Cardinality(Stray), Cardinality(Stray) + 1}
    BY <1>1, FS_AddElement
  <2>2. Targets \subseteq S  BY DEF Stray
  <2>3. IsFiniteSet(Targets) /\ Cardinality(Targets) <= Cardinality(S)
    BY <2>1, <2>2, FS_Subset
  <2>4. Cardinality(Targets) \in Nat  BY <2>3, FS_CardinalityType
  <2> QED  BY <1>1, <2>1, <2>3, <2>4 DEF SingleTarget
<1> QED  BY <1>2, <1>3

\* The relay's memory covers every region it has left degraded, but for one
\* per failure, so the one reset it sends later reaches the right one.
THEOREM MemoryCoversTargets ==
  ASSUME OrdinaryUse
  PROVE  Spec => []Remembered
<1>1. IInv => Remembered  BY TargetsCounted
<1> QED  BY <1>1, Invariance, PTL

\* README.md:399-400, "on a single region": one target, and at most one more
\* for each failure.
THEOREM OneTarget ==
  ASSUME OrdinaryUse
  PROVE  Spec => []SingleTarget
<1>1. IInv => SingleTarget  BY TargetsCounted
<1> QED  BY <1>1, Invariance, PTL
=============================================================================
