----------------------------- MODULE Supervisor -----------------------------
(***************************************************************************)
(* Supervisor (workers/supervisor.py) and the worker processes it starts,  *)
(* as the standalone supervisor and as the dashboard in process mode use   *)
(* it.  Both drive it from one thread, so that its calls do not overlap;   *)
(* the processes go on meanwhile.  todo holds the calls of start(queue)    *)
(* and stop(queue) the thread has yet to make.                             *)
(*                                                                         *)
(* A supervisor that is killed, or whose start-up fails after start_all    *)
(* (app.py:65-66), stops nobody: its workers live on as orphans.           *)
(***************************************************************************)
EXTENDS Integers, FiniteSets, SequencesExt

CONSTANTS
  Queues,  \* ALL_TASK_QUEUES
  Pids,    \* BOUND: processes that exist at a time
  Nobody   \* _procs.get(queue) of a queue that was never started

ASSUME SupervisorAssumption ==
  /\ IsFiniteSet(Queues) /\ Queues # {}
  /\ Nobody \notin Pids

Calls == [op : {"start", "stop"}, queue : Queues]
StartCall(q) == [op |-> "start", queue |-> q]
StopCall(q) == [op |-> "stop", queue |-> q]

VARIABLES
  mode,    \* "standalone" or "dashboard"
  phase,   \* "serving", "stopping", or "gone"
  todo,    \* calls still to make
  waits,   \* the thread is in proc.wait(timeout=10)
  procs,   \* procs[q]: self._procs[q]
  state,   \* state[p]: "up", "term" or "kill" (signalled), or "dead"
  serves,  \* serves[p]: the queue p was started for
  orphans  \* processes of an earlier supervisor

vars == <<mode, phase, todo, waits, procs, state, serves, orphans>>

Live(p) == state[p] \in {"up", "term", "kill"}   \* poll() is None

\* is_running(queue)
IsRunning(q) == procs[q] # Nobody /\ Live(procs[q])

\* start_all and stop_all, in the order of the queues.
StartAll == SetToSeq({StartCall(q) : q \in Queues})
StopAll == SetToSeq({StopCall(q) : q \in {r \in Queues : procs[r] # Nobody}})

Init ==
  /\ mode \in {"standalone", "dashboard"}
  /\ phase = "serving" /\ waits = FALSE
  /\ todo = StartAll
  /\ procs = [q \in Queues |-> Nobody]
  /\ state = [p \in Pids |-> "dead"]
  /\ \E q \in Queues : serves = [p \in Pids |-> q]
  /\ orphans = {}

-----------------------------------------------------------------------------
(* The calls.                                                              *)

Pop == todo' = Tail(todo)

\* A process id that neither a live process nor a Popen object holds.
FreePids == {p \in Pids : ~Live(p) /\ \A q \in Queues : procs[q] # p}

Spawn(q) ==
  \E p \in FreePids \cup ({procs[q]} \ {Nobody}) :
    /\ procs' = [procs EXCEPT ![q] = p]
    /\ state' = [state EXCEPT ![p] = "up"]
    /\ serves' = [serves EXCEPT ![p] = q]
    /\ orphans' = orphans \ {p}

\* Mutant: no look at the process that is there.
StartUnchecked ==
  /\ phase # "gone" /\ todo # <<>> /\ Head(todo).op = "start"
  /\ LET q == Head(todo).queue IN
       \E p \in FreePids :
         /\ procs' = [procs EXCEPT ![q] = p]
         /\ state' = [state EXCEPT ![p] = "up"]
         /\ serves' = [serves EXCEPT ![p] = q]
         /\ orphans' = orphans \ {p}
  /\ Pop
  /\ UNCHANGED <<mode, phase, waits>>

\* start(queue): nothing to do when poll() finds the process alive.
Start ==
  /\ phase # "gone" /\ todo # <<>> /\ Head(todo).op = "start"
  /\ LET q == Head(todo).queue IN
       IF IsRunning(q) THEN UNCHANGED <<procs, state, serves, orphans>> ELSE Spawn(q)
  /\ Pop
  /\ UNCHANGED <<mode, phase, waits>>

\* Mutant: the wait goes on while the thread makes the next call.
StopInBackground ==
  /\ phase # "gone" /\ todo # <<>> /\ Head(todo).op = "stop" /\ ~waits
  /\ LET q == Head(todo).queue IN
       IF IsRunning(q)
       THEN /\ state' = [state EXCEPT ![procs[q]] = IF @ = "up" THEN "term" ELSE @]
            /\ waits' = TRUE
       ELSE UNCHANGED <<state, waits>>
  /\ Pop
  /\ UNCHANGED <<mode, phase, procs, serves, orphans>>

\* stop(queue): nothing to do, or terminate() and the wait begins.
Stop ==
  /\ phase # "gone" /\ todo # <<>> /\ Head(todo).op = "stop" /\ ~waits
  /\ LET q == Head(todo).queue IN
       IF IsRunning(q)
       THEN /\ state' = [state EXCEPT ![procs[q]] = IF @ = "up" THEN "term" ELSE @]
            /\ waits' = TRUE
            /\ UNCHANGED todo
       ELSE Pop /\ UNCHANGED <<state, waits>>
  /\ UNCHANGED <<mode, phase, procs, serves, orphans>>

Stopped ==
  /\ phase # "gone" /\ waits
  /\ ~IsRunning(Head(todo).queue)
  /\ waits' = FALSE
  /\ Pop
  /\ UNCHANGED <<mode, phase, procs, state, serves, orphans>>

\* Mutant: the wait times out and nothing is killed.
TimesOutOnly ==
  /\ phase # "gone" /\ waits
  /\ IsRunning(Head(todo).queue)
  /\ waits' = FALSE
  /\ Pop
  /\ UNCHANGED <<mode, phase, procs, state, serves, orphans>>

\* TimeoutExpired: kill(), without another wait.
TimesOut ==
  /\ phase # "gone" /\ waits
  /\ IsRunning(Head(todo).queue)
  /\ state' = [state EXCEPT ![procs[Head(todo).queue]] = "kill"]
  /\ waits' = FALSE
  /\ Pop
  /\ UNCHANGED <<mode, phase, procs, serves, orphans>>

Thread == Start \/ Stop \/ Stopped \/ TimesOut

-----------------------------------------------------------------------------
(* Who makes the calls.                                                    *)

Idle == phase = "serving" /\ todo = <<>>

\* POST /api/workers/{queue}/{action}; restart is stop and then start.
WorkerAction ==
  /\ mode = "dashboard" /\ Idle
  /\ \E q \in Queues :
       \E calls \in {<<StartCall(q)>>, <<StopCall(q)>>, <<StopCall(q), StartCall(q)>>} :
         todo' = calls
  /\ UNCHANGED <<mode, phase, waits, procs, state, serves, orphans>>

\* Mutant: the loop looks only at queues that were never started.
SelfHealNew ==
  /\ mode = "standalone" /\ Idle
  /\ todo' = SetToSeq({StartCall(q) : q \in {r \in Queues : procs[r] = Nobody}})
  /\ UNCHANGED <<mode, phase, waits, procs, state, serves, orphans>>

\* A round of the standalone loop starts every worker that is not running;
\* start itself leaves the others alone.
SelfHeal ==
  /\ mode = "standalone" /\ Idle
  /\ todo' = StartAll
  /\ UNCHANGED <<mode, phase, waits, procs, state, serves, orphans>>

\* SIGINT or SIGTERM after a round or a request: `finally: stop_all()`.
ShutDown ==
  /\ Idle
  /\ phase' = "stopping"
  /\ todo' = StopAll
  /\ UNCHANGED <<mode, waits, procs, state, serves, orphans>>

Exit ==
  /\ phase = "stopping" /\ todo = <<>>
  /\ phase' = "gone"
  /\ UNCHANGED <<mode, todo, waits, procs, state, serves, orphans>>

\* The supervisor dies without a stop_all.
Abort ==
  /\ phase # "gone"
  /\ phase' = "gone"
  /\ todo' = <<>> /\ waits' = FALSE
  /\ orphans' = {p \in Pids : Live(p)}
  /\ UNCHANGED <<mode, procs, state, serves>>

\* Another supervisor begins, with no memory of the first.  BOUND: when
\* Pids has room for its workers beside the orphans.
Restart ==
  /\ phase = "gone"
  /\ Cardinality({p \in Pids : ~Live(p)}) >= Cardinality(Queues)
  /\ phase' = "serving"
  /\ todo' = StartAll
  /\ procs' = [q \in Queues |-> Nobody]
  /\ orphans' = {p \in Pids : Live(p)}
  /\ UNCHANGED <<mode, waits, state, serves>>

-----------------------------------------------------------------------------
(* The worker processes.                                                   *)

\* A worker crashes or obeys SIGTERM; one that hangs does neither.
Dies(p) ==
  /\ state[p] \in {"up", "term"}
  /\ state' = [state EXCEPT ![p] = "dead"]
  /\ UNCHANGED <<mode, phase, todo, waits, procs, serves, orphans>>

\* The kernel ends a process some time after kill().
Killed(p) ==
  /\ state[p] = "kill"
  /\ state' = [state EXCEPT ![p] = "dead"]
  /\ UNCHANGED <<mode, phase, todo, waits, procs, serves, orphans>>

Next ==
  \/ Thread
  \/ WorkerAction
  \/ SelfHeal
  \/ ShutDown
  \/ Exit
  \/ Abort
  \/ Restart
  \/ \E p \in Pids : Dies(p)
  \/ \E p \in Pids : Killed(p)

\* The thread runs: its waits have a timeout, and the standalone loop
\* sleeps two seconds.  The kernel does what kill() asks for.  Nobody has
\* to call, to shut down, to crash, or to start a supervisor again.
Fairness ==
  /\ WF_vars(Thread)
  /\ WF_vars(SelfHeal)
  /\ WF_vars(Exit)
  /\ \A p \in Pids : WF_vars(Killed(p))

Spec == Init /\ [][Next]_vars
FairSpec == Spec /\ Fairness

-----------------------------------------------------------------------------
(* Properties.                                                             *)

\* The types of the supervisor's and the processes' variables; the thread
\* waits only inside a call of stop.
TypeOK ==
  /\ mode \in {"standalone", "dashboard"}
  /\ phase \in {"serving", "stopping", "gone"}
  /\ todo \in Seq(Calls) /\ waits \in BOOLEAN
  /\ waits => todo # <<>> /\ Head(todo).op = "stop"
  /\ procs \in [Queues -> Pids \cup {Nobody}]
  /\ state \in [Pids -> {"up", "term", "kill", "dead"}]
  /\ serves \in [Pids -> Queues]
  /\ orphans \subseteq Pids

\* The live processes this supervisor started for q.
Workers(q) == {p \in Pids \ orphans : Live(p) /\ serves[p] = q}

\* "one child process per task queue" (line 1): whatever is requested, and
\* also while a hung worker is restarted, a supervisor has at most one live
\* worker for a queue, and it is the one it remembers.
OneWorkerPerQueue ==
  \A q \in Queues : Workers(q) \subseteq {procs[q]}

\* "Restart any worker that has died so the fleet self-heals" (line 87):
\* the standalone supervisor brings every worker back.
ProcessesSelfHeal ==
  \A q \in Queues :
    (mode = "standalone" /\ phase = "serving" /\ Workers(q) = {})
      ~> (Workers(q) # {} \/ phase # "serving")

\* A supervisor that shuts down leaves no worker of its own behind, not
\* even one that does not react to SIGTERM, unless it is killed meanwhile.
ShutDownStopsAll ==
  \A p \in Pids :
    (phase = "stopping" /\ Live(p) /\ p \notin orphans) ~> (~Live(p) \/ p \in orphans)
=============================================================================
