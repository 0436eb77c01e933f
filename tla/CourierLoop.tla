----------------------------- MODULE CourierLoop ----------------------------
(***************************************************************************)
(* Generator.courier_loop (generator.py) and the shifts it keeps.  Each    *)
(* tick pings every courier it remembers, perhaps offers one of them an    *)
(* assignment, and every RetireEvery ticks ends the oldest shift and       *)
(* starts another.  It never looks at the shifts themselves.  A call to    *)
(* the server may fail, and _safe_signal and _start_courier swallow that;  *)
(* the server may have acted all the same.  When the generator dies, its   *)
(* memory is gone and the shifts are not.                                  *)
(***************************************************************************)
EXTENDS Courier

CONSTANTS
  FleetSize,    \* config.courier_fleet_size
  RetireEvery,  \* a retirement every 4 ticks
  Reliable      \* TRUE: no call fails, nobody terminates, no crash

ASSUME LoopAssumption ==
  /\ FleetSize \in Nat \ {0} /\ RetireEvery \in Nat \ {0}
  /\ Reliable \in BOOLEAN

VARIABLES
  place,     \* where courier_loop is
  couriers,  \* self._couriers, oldest first
  tick,      \* tick % RetireEvery
  toPing,    \* the rest of this tick's list(self._couriers)
  unstarted  \* HISTORY: replacements, since the fill, whose start failed

loopVars == <<place, couriers, tick, toPing, unstarted>>
vars == <<shiftVars, loopVars>>

Init ==
  /\ ShiftInit
  /\ place = "fill" /\ couriers = <<>> /\ tick = 0 /\ toPing = <<>>
  /\ unstarted = 0

-----------------------------------------------------------------------------
(* The calls.                                                              *)

\* A signal is delivered, or lost without a trace.
Signal(c, signal) ==
  \/ Send(c, signal)
  \/ (~Reliable \/ ~Open(c)) /\ UNCHANGED shiftVars

Assign(c) ==
  \/ Offer(c)
  \/ (~Reliable \/ ~Open(c) \/ offered[c] = MaxOffered) /\ UNCHANGED shiftVars

\* The ids a new uuid may stand for.
Unused == {c \in Shifts : ~Open(c)} \ (ToSet(couriers) \cup ToSet(toPing))

\* Mutant: the shift is remembered in the try block and once more after it.
StartCourierTwice == \E c \in Unused : Start(c) /\ couriers' = couriers \o <<c, c>>

\* _start_courier: the shift runs and is remembered.
StartCourier == \E c \in Unused : Start(c) /\ couriers' = Append(couriers, c)

\* Its call failed, before or after the server started the shift.
StartFails ==
  /\ ~Reliable
  /\ UNCHANGED shiftVars \/ \E c \in Unused : Start(c)
  /\ UNCHANGED couriers

-----------------------------------------------------------------------------
(* The loop.                                                               *)

Fill ==
  /\ place = "fill" /\ Len(couriers) < FleetSize
  /\ StartCourier \/ StartFails
  /\ UNCHANGED <<place, tick, toPing, unstarted>>

\* A tick begins, after the fill or the sleep.
BeginTick ==
  /\ place = "sleep" \/ (place = "fill" /\ Len(couriers) >= FleetSize)
  /\ tick' = (tick + 1) % RetireEvery
  /\ toPing' = couriers
  /\ place' = "ping"
  /\ UNCHANGED <<shiftVars, couriers, unstarted>>

Ping ==
  /\ place = "ping" /\ toPing # <<>>
  /\ Signal(Head(toPing), LocationPing)
  /\ toPing' = Tail(toPing)
  /\ UNCHANGED <<place, couriers, tick, unstarted>>

\* `if tick % 4 == 0 and self._couriers`
AfterAssign == IF tick = 0 /\ couriers # <<>> THEN "retire" ELSE "sleep"

\* The pings are out; with a chance of one half, an assignment.
AssignOne ==
  /\ place = "ping" /\ toPing = <<>>
  /\ \/ \E c \in ToSet(couriers) : Assign(c)
     \/ UNCHANGED shiftVars
  /\ place' = AfterAssign
  /\ UNCHANGED <<couriers, tick, toPing, unstarted>>

\* Mutant: the retired shift is remembered.
RetireRemembers ==
  /\ place = "retire"
  /\ Signal(Head(couriers), EndShift)
  /\ place' = "replace"
  /\ UNCHANGED <<couriers, tick, toPing, unstarted>>

\* Mutant: the replacement is started only when the signal got through.
RetireUnheard ==
  /\ place = "retire"
  /\ \/ Send(Head(couriers), EndShift) /\ place' = "replace"
     \/ (~Reliable \/ ~Open(Head(couriers))) /\ UNCHANGED shiftVars /\ place' = "sleep"
  /\ couriers' = Tail(couriers)
  /\ UNCHANGED <<tick, toPing, unstarted>>

\* Mutant: pop() instead of pop(0).
RetireNewest ==
  /\ place = "retire"
  /\ Signal(Last(couriers), EndShift)
  /\ couriers' = Front(couriers)
  /\ place' = "replace"
  /\ UNCHANGED <<tick, toPing, unstarted>>

\* The oldest shift is forgotten and told to end.
Retire ==
  /\ place = "retire"
  /\ Signal(Head(couriers), EndShift)
  /\ couriers' = Tail(couriers)
  /\ place' = "replace"
  /\ UNCHANGED <<tick, toPing, unstarted>>

\* A start that fails is not tried again.
Replace ==
  /\ place = "replace"
  /\ \/ StartCourier /\ UNCHANGED unstarted
     \/ StartFails /\ unstarted' = unstarted + 1
  /\ place' = "sleep"
  /\ UNCHANGED <<tick, toPing>>

\* The generator's process ends and is started again (docker-compose.yml).
Reboot ==
  /\ ~Reliable
  /\ place' = "fill" /\ couriers' = <<>> /\ tick' = 0 /\ toPing' = <<>>
  /\ unstarted' = 0
  /\ UNCHANGED shiftVars

Loop == Fill \/ BeginTick \/ Ping \/ AssignOne \/ Retire \/ Replace

Workflow(c) == (Handle(c) \/ Coroutine(c)) /\ UNCHANGED loopVars
Operator(c) == ~Reliable /\ Terminate(c) /\ UNCHANGED loopVars

Next ==
  \/ Loop
  \/ Reboot
  \/ \E c \in Shifts : Workflow(c)
  \/ \E c \in Shifts : Operator(c)

\* The loop goes on (calls have timeouts), a worker polls courier-tq, and
\* accept_assignment has no limit of attempts.  Signals come every 15
\* seconds, so that a shift's tasks find its inbox empty time and again.
Fairness ==
  /\ WF_vars(Loop)
  /\ \A c \in Shifts :
       /\ WF_vars(Handle(c) /\ UNCHANGED loopVars)
       /\ SF_vars(Coroutine(c) /\ UNCHANGED loopVars)

Spec == Init /\ [][Next]_vars
FairSpec == Spec /\ Fairness

-----------------------------------------------------------------------------
(* Properties.                                                             *)

\* The types of the loop's and the shifts' variables; the generator never
\* remembers more couriers than the fleet has, nor one twice.
TypeOK ==
  /\ ShiftTypeOK
  /\ place \in {"fill", "ping", "retire", "replace", "sleep"}
  /\ couriers \in Seq(Shifts) /\ Len(couriers) <= FleetSize /\ IsInjective(couriers)
  /\ tick \in 0..(RetireEvery - 1)
  /\ toPing \in Seq(Shifts)
  /\ unstarted \in 0..FleetSize

ToldToEnd(c) == ending[c] \/ EndShift \in ToSet(inbox[c])

\* A courier the generator counts on was never told to end: when it runs,
\* it goes on running until it is retired, across failed calls, reboots,
\* replacements and hand-overs.
FleetGoesOn ==
  \A c \in ToSet(couriers) : Open(c) => ~ToldToEnd(c)

\* Where end_shift can be lost: an accepted one stays with its shift, in the
\* inbox or as _end, through handlers, assignments and hand-overs, until the
\* shift closes.  The one exception is the hand-over after a report
\* (courier.py:94), which EndedShiftCloses meets.
EndIsKept ==
  [][\A c \in Shifts : ToldToEnd(c) =>
       \/ ToldToEnd(c)'
       \/ ~Open(c)'
       \/ pc[c] = "report" /\ hist[c] > MaxHistory /\ pc'[c] = "new"]_vars

\* The places of the fleet: each is taken by a courier, about to be refilled,
\* or given up with a start that failed.
FleetAccounted ==
  place # "fill" =>
    Len(couriers) + unstarted + (IF place = "replace" THEN 1 ELSE 0) = FleetSize

\* "the courier loop replaces shifts on its own" (README.md:346): once the
\* fleet is full, no courier, running or terminated, stays in it for good,
\* and another takes the place of each that leaves, whether or not it heard
\* its end_shift; the fleet shrinks by no more than the starts that failed,
\* which are not tried again (generator.py:230-258).
EveryShiftIsReplaced ==
  /\ [][FleetAccounted']_vars
  /\ \A c \in Shifts :
       (c \in ToSet(couriers) /\ place # "fill") ~> (c \notin ToSet(couriers))

\* "The generator ends shifts and starts replacements" (courier.py:4-5): a
\* shift that accepted end_shift ends.
EndedShiftCloses ==
  \A c \in Shifts : (Open(c) /\ ToldToEnd(c)) ~> ~Open(c)
=============================================================================
