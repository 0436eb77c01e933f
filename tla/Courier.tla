------------------------------ MODULE Courier -------------------------------
(***************************************************************************)
(* CourierShiftWorkflow (workflows/courier.py), for every shift of the     *)
(* fleet.  Here, unlike in Dispatch, what a handler does in the first task *)
(* of a run lasts: `run` does not assign _assignments and _end again.      *)
(*                                                                         *)
(* Each step of the coroutine is a whole segment, from one await to the    *)
(* next.  It is taken with an empty inbox: handlers run first, and a       *)
(* continue-as-new or a return is rejected while a signal is undelivered,  *)
(* which makes the segment run again after that signal's handler.          *)
(*                                                                         *)
(* The n-th assignment offered to a shift is n.  pings is only carried and *)
(* reported by get_stats; of a ping the model keeps the history it costs.  *)
(***************************************************************************)
EXTENDS Integers, SequencesExt, Filter

CONSTANTS
  Shifts,       \* shift ids; a uuid makes each start's id a new one
  MaxHistory,   \* _MAX_HISTORY, in signals and assignments
  HistoryCap,   \* BOUND: longer histories are not told apart
  MaxInbox,     \* BOUND: signals on their way to one shift
  MaxOffered    \* BOUND: assignments offered to one shift

ASSUME ShiftAssumption ==
  /\ MaxHistory \in Nat /\ HistoryCap \in Nat /\ MaxHistory < HistoryCap
  /\ MaxInbox \in Nat /\ MaxOffered \in Nat

LocationPing == [kind |-> "ping"]
EndShift == [kind |-> "end"]
Assignment(n) == [kind |-> "assignment", body |-> n]
Assignments == {Assignment(n) : n \in 1..MaxOffered}
Signals == {LocationPing, EndShift} \cup Assignments

VARIABLES
  inbox,        \* inbox[c]: signals no handler has seen
  pc,           \* pc[c]: where `run` is; "closed" when there is no run
  assignments,  \* assignments[c]: self._assignments
  ending,       \* ending[c]: self._end
  count,        \* count[c]: self._count
  hist,         \* hist[c]: get_current_history_length(), up to HistoryCap
  offered       \* offered[c]: assignments the server accepted for c

shiftVars == <<inbox, pc, assignments, ending, count, hist, offered>>

ShiftTypeOK ==
  /\ inbox \in [Shifts -> Seq(Signals)]
  /\ pc \in [Shifts -> {"closed", "new", "wait", "accept", "report"}]
  /\ assignments \in [Shifts -> Seq(1..MaxOffered)]
  /\ ending \in [Shifts -> BOOLEAN]
  /\ count \in [Shifts -> 0..MaxOffered]
  /\ hist \in [Shifts -> 0..HistoryCap]
  /\ offered \in [Shifts -> 0..MaxOffered]

ShiftInit ==
  /\ inbox = [c \in Shifts |-> <<>>]
  /\ pc = [c \in Shifts |-> "closed"]
  /\ assignments = [c \in Shifts |-> <<>>]
  /\ ending = [c \in Shifts |-> FALSE]
  /\ count = [c \in Shifts |-> 0]
  /\ hist = [c \in Shifts |-> 0]
  /\ offered = [c \in Shifts |-> 0]

Open(c) == pc[c] # "closed"
Longer(h) == Min({h + 1, HistoryCap})

-----------------------------------------------------------------------------
(* The server, as the generator uses it.                                   *)

\* start_workflow under an id that is new.
Start(c) ==
  /\ pc[c] = "closed"
  /\ pc' = [pc EXCEPT ![c] = "new"]
  /\ UNCHANGED <<inbox, assignments, ending, count, hist, offered>>

\* The run is over, and nothing of it is left.
Close(c) ==
  /\ pc' = [pc EXCEPT ![c] = "closed"]
  /\ inbox' = [inbox EXCEPT ![c] = <<>>]
  /\ assignments' = [assignments EXCEPT ![c] = <<>>]
  /\ ending' = [ending EXCEPT ![c] = FALSE]
  /\ count' = [count EXCEPT ![c] = 0]
  /\ hist' = [hist EXCEPT ![c] = 0]
  /\ offered' = [offered EXCEPT ![c] = 0]

\* The server accepts a signal for an open shift.
Deliver(c, signal) ==
  /\ Open(c)
  /\ Len(inbox[c]) < MaxInbox
  /\ inbox' = [inbox EXCEPT ![c] = Append(@, signal)]
  /\ UNCHANGED <<pc, assignments, ending, count, hist>>

Offer(c) ==
  /\ offered[c] < MaxOffered
  /\ offered' = [offered EXCEPT ![c] = @ + 1]
  /\ Deliver(c, Assignment(offered[c] + 1))

Send(c, signal) == Deliver(c, signal) /\ UNCHANGED offered

\* An operator terminates the shift (README.md, "Registering them").
Terminate(c) == Open(c) /\ Close(c)

-----------------------------------------------------------------------------
(* Handlers.                                                               *)

\* Mutant: an assignment takes the place of the ones that wait.
HandleReplaces(c) ==
  /\ Open(c) /\ inbox[c] # <<>>
  /\ LET s == Head(inbox[c]) IN
       /\ assignments' = IF s.kind # "assignment" THEN assignments
                         ELSE [assignments EXCEPT ![c] = <<s.body>>]
       /\ ending' = [ending EXCEPT ![c] = @ \/ s.kind = "end"]
  /\ inbox' = [inbox EXCEPT ![c] = Tail(@)]
  /\ hist' = [hist EXCEPT ![c] = Longer(@)]
  /\ UNCHANGED <<pc, count, offered>>

\* location_ping, assignment, end_shift
Handle(c) ==
  /\ Open(c) /\ inbox[c] # <<>>
  /\ LET s == Head(inbox[c]) IN
       /\ assignments' = IF s.kind # "assignment" THEN assignments
                         ELSE [assignments EXCEPT ![c] = Append(@, s.body)]
       /\ ending' = [ending EXCEPT ![c] = @ \/ s.kind = "end"]
  /\ inbox' = [inbox EXCEPT ![c] = Tail(@)]
  /\ hist' = [hist EXCEPT ![c] = Longer(@)]
  /\ UNCHANGED <<pc, count, offered>>

-----------------------------------------------------------------------------
(* The coroutine.                                                          *)

\* Mutant: the wait without its history term (line 68).
WakeConditionNoHistory(c) == ending[c] \/ assignments[c] # <<>>

\* The predicate of wait_condition.
WakeCondition(c) == ending[c] \/ assignments[c] # <<>> \/ hist[c] > MaxHistory

\* continue_as_new: the new run goes on with `count`, and has its own _end.
ContinueAsNew(c) ==
  /\ pc' = [pc EXCEPT ![c] = "new"]
  /\ ending' = [ending EXCEPT ![c] = FALSE]
  /\ hist' = [hist EXCEPT ![c] = 0]
  /\ UNCHANGED <<inbox, assignments, count, offered>>

\* `while self._assignments`: pop(0), and the activity starts.
Accept(c) ==
  /\ assignments[c] # <<>>
  /\ pc' = [pc EXCEPT ![c] = "accept"]
  /\ assignments' = [assignments EXCEPT ![c] = Tail(@)]
  /\ UNCHANGED <<inbox, ending, count, offered>>

\* `run` begins, in a run whose history is short.
Begin(c) ==
  /\ pc[c] = "new" /\ inbox[c] = <<>>
  /\ ~WakeCondition(c)
  /\ pc' = [pc EXCEPT ![c] = "wait"]
  /\ UNCHANGED <<inbox, assignments, ending, count, hist, offered>>

\* Mutant: the length of the history is looked at first.
WakeHandsOverFirst(c) ==
  /\ pc[c] \in {"new", "wait"} /\ inbox[c] = <<>>
  /\ WakeCondition(c)
  /\ IF assignments[c] = <<>> /\ hist[c] > MaxHistory THEN ContinueAsNew(c)
     ELSE \/ ending[c] /\ Close(c)
          \/ ~ending[c] /\ Accept(c) /\ UNCHANGED hist

\* The condition holds, perhaps from the start: the shift ends, takes an
\* assignment, or hands over.
Wake(c) ==
  /\ pc[c] \in {"new", "wait"} /\ inbox[c] = <<>>
  /\ WakeCondition(c)
  /\ \/ ending[c] /\ Close(c)
     \/ ~ending[c] /\ Accept(c) /\ UNCHANGED hist
     \/ ~ending[c] /\ assignments[c] = <<>> /\ ContinueAsNew(c)

\* accept_assignment completed; courier_available is on its way.
Accepted(c) ==
  /\ pc[c] = "accept" /\ inbox[c] = <<>>
  /\ pc' = [pc EXCEPT ![c] = "report"]
  /\ count' = [count EXCEPT ![c] = @ + 1]
  /\ hist' = [hist EXCEPT ![c] = Longer(@)]
  /\ UNCHANGED <<inbox, assignments, ending, offered>>

\* The report arrived, or was refused, which is ignored: the next
\* assignment, a hand-over, the end, or the wait.  The hand-over comes
\* without another look at _end (lines 92-94).
Reported(c) ==
  /\ pc[c] = "report" /\ inbox[c] = <<>>
  /\ \/ Accept(c) /\ UNCHANGED hist
     \/ assignments[c] = <<>> /\ hist[c] > MaxHistory /\ ContinueAsNew(c)
     \/ assignments[c] = <<>> /\ hist[c] <= MaxHistory /\ ending[c] /\ Close(c)
     \/ /\ assignments[c] = <<>> /\ hist[c] <= MaxHistory /\ ~ending[c]
        /\ pc' = [pc EXCEPT ![c] = "wait"]
        /\ UNCHANGED <<inbox, assignments, ending, count, hist, offered>>

Coroutine(c) == Begin(c) \/ Wake(c) \/ Accepted(c) \/ Reported(c)

-----------------------------------------------------------------------------
(* Properties.                                                             *)

\* The orders of the assignments on their way.
Offers(c) == Bodies(inbox[c], Assignments)

\* The number of assignments taken from the list.
Taken(c) == count[c] + (IF pc[c] = "accept" THEN 1 ELSE 0)

\* An open shift carries out every assignment the server accepted, once and
\* in order, and its count is theirs, also when a hand-over or a rejected
\* one comes in between: what is waiting is what has not been taken.
AssignmentsInOrder ==
  \A c \in Shifts : Open(c) =>
    assignments[c] \o Offers(c) = [i \in 1..(offered[c] - Taken(c)) |-> Taken(c) + i]

\* "Continue-as-new keeps history bounded" (lines 3-4), also for a shift
\* with nothing to do but answer pings: a history over the threshold ends.
\* And an assignment a handler has taken in is carried out, or its shift
\* ends.
ShiftKeepsUp ==
  \A c \in Shifts :
    /\ (Open(c) /\ hist[c] > MaxHistory) ~> (pc[c] \in {"closed", "new"})
    /\ (Open(c) /\ assignments[c] # <<>>) ~> (~Open(c) \/ assignments[c] = <<>>)
=============================================================================
