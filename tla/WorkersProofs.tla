---------------------------- MODULE WorkersProofs ----------------------------
(***************************************************************************)
(* Both supervisors, for any queues and processes.  A supervisor of        *)
(* processes has one live worker for a queue, the one it remembers,        *)
(* whatever is requested and whatever crashes, hangs or is left behind; a  *)
(* container killed while it ran stays down through crashes, restarts by   *)
(* docker and restarts of the daemon.                                      *)
(***************************************************************************)
EXTENDS Workers, FiniteSetTheorems, TLAPS

\* A set in some order is a sequence of its elements.
LEMMA SetToSeqType ==
  ASSUME NEW S, IsFiniteSet(S)  PROVE SetToSeq(S) \in Seq(S)
<1> DEFINE n == Cardinality(S)
<1>1. n \in Nat /\ \E f \in [1..n -> S] : IsInjective(f)
  BY FS_CardinalityType DEF ExistsBijection, Bijection, Injection
<1>2. SetToSeq(S) \in [1..n -> S]  BY <1>1 DEF SetToSeq
<1> QED  BY <1>1, <1>2

\* Calls for some of the queues are calls.
LEMMA CallsOf ==
  ASSUME NEW S, S \subseteq Queues
  PROVE  /\ SetToSeq({StartCall(q) : q \in S}) \in Seq(Calls)
         /\ SetToSeq({StopCall(q) : q \in S}) \in Seq(Calls)
<1>1. IsFiniteSet(S)  BY SupervisorAssumption, FS_Subset
<1>2. ASSUME NEW T, T \subseteq Calls, NEW f \in [S -> T], \A t \in T : \E q \in S : f[q] = t
      PROVE  SetToSeq(T) \in Seq(Calls)
  <2>1. f \in Surjection(S, T)  BY <1>2 DEF Surjection
  <2>2. IsFiniteSet(T)  BY <1>1, <2>1, FS_Surjection
  <2>3. SetToSeq(T) \in Seq(T)  BY <2>2, SetToSeqType
  <2> QED  BY <1>2, <2>3
<1>3. SetToSeq({StartCall(q) : q \in S}) \in Seq(Calls)
  <2> DEFINE T == {StartCall(q) : q \in S}
             f == [q \in S |-> StartCall(q)]
  <2>1. T \subseteq Calls  BY DEF StartCall, Calls
  <2>2. f \in [S -> T] /\ \A t \in T : \E q \in S : f[q] = t  OBVIOUS
  <2> HIDE DEF T, f
  <2>3. SetToSeq(T) \in Seq(Calls)  BY <1>2, <2>1, <2>2
  <2> QED  BY <2>3 DEF T
<1>4. SetToSeq({StopCall(q) : q \in S}) \in Seq(Calls)
  <2> DEFINE T == {StopCall(q) : q \in S}
             f == [q \in S |-> StopCall(q)]
  <2>1. T \subseteq Calls  BY DEF StopCall, Calls
  <2>2. f \in [S -> T] /\ \A t \in T : \E q \in S : f[q] = t  OBVIOUS
  <2> HIDE DEF T, f
  <2>3. SetToSeq(T) \in Seq(Calls)  BY <1>2, <2>1, <2>2
  <2> QED  BY <2>3 DEF T
<1> QED  BY <1>3, <1>4

\* start_all and stop_all make calls.
LEMMA AllCalls == StartAll \in Seq(Calls) /\ StopAll \in Seq(Calls)
<1> DEFINE S == {r \in Queues : procs[r] # Nobody}
<1>1. S \subseteq Queues  OBVIOUS
<1> HIDE DEF S
<1>2. SetToSeq({StopCall(q) : q \in S}) \in Seq(Calls)  BY <1>1, CallsOf
<1> QED  BY <1>2, CallsOf DEF StartAll, StopAll, S

-----------------------------------------------------------------------------
\* The supervisor: a thread that is gone has no calls to make.
Supervised ==
  /\ TypeOK
  /\ phase = "gone" => todo = <<>>
  /\ OneWorkerPerQueue

\* A supervisor has no worker at first.
LEMMA ProcessesInit == Init => Supervised
<1> SUFFICES ASSUME Init  PROVE Supervised  OBVIOUS
<1>1. todo \in Seq(Calls)  BY AllCalls DEF Init
<1>2. TypeOK  BY <1>1 DEF Init, TypeOK
<1>3. OneWorkerPerQueue  BY DEF Init, OneWorkerPerQueue, Workers, Live
<1> QED  BY <1>2, <1>3 DEF Supervised, Init

\* Nor has one that is not deployed.
LEMMA NoProcessesInit == NoProcesses => Supervised
<1> SUFFICES ASSUME NoProcesses  PROVE Supervised  OBVIOUS
<1> DEFINE first == CHOOSE q \in Queues : TRUE
<1>1. first \in Queues  BY SupervisorAssumption
<1> HIDE DEF first
<1>2. serves \in [Pids -> Queues]  BY <1>1 DEF NoProcesses, first
<1>3. procs \in [Queues -> Pids \cup {Nobody}]  BY DEF NoProcesses
<1>4. state \in [Pids -> {"up", "term", "kill", "dead"}]  BY DEF NoProcesses
<1>5. todo \in Seq(Calls) /\ waits = FALSE  BY DEF NoProcesses
<1>6. TypeOK  BY <1>2, <1>3, <1>4, <1>5 DEF NoProcesses, TypeOK
<1>7. OneWorkerPerQueue  BY DEF NoProcesses, OneWorkerPerQueue, Workers, Live
<1> QED  BY <1>6, <1>7 DEF Supervised, NoProcesses

\* A step of the calls: what it leaves of todo is a rest of it.
LEMMA PopTypes ==
  ASSUME TypeOK, todo # <<>>
  PROVE  /\ Head(todo) \in Calls /\ Head(todo).queue \in Queues
         /\ Tail(todo) \in Seq(Calls)
<1>1. Head(todo) \in Calls /\ Tail(todo) \in Seq(Calls)  BY DEF TypeOK
<1> QED  BY <1>1 DEF Calls

\* No process of the supervisor comes up, and none is forgotten.
LEMMA NoneComesUp ==
  ASSUME OneWorkerPerQueue,
         \A p \in Pids : Live(p)' => Live(p), UNCHANGED <<procs, serves, orphans>>
  PROVE  OneWorkerPerQueue'
BY DEF OneWorkerPerQueue, Workers

\* start replaces the remembered process only when that is dead
\* (supervisor.py:33-35), so that the new one is alone.
LEMMA StartSupervised ==
  ASSUME Supervised, Start  PROVE Supervised'
<1> USE DEF Supervised
<1> DEFINE q == Head(todo).queue
<1>1. /\ phase # "gone" /\ todo # <<>> /\ Head(todo).op = "start"
      /\ todo' = Tail(todo) /\ UNCHANGED <<mode, phase, waits>>
      /\ IF IsRunning(q) THEN UNCHANGED <<procs, state, serves, orphans>> ELSE Spawn(q)
  BY DEF Start, Pop
<1>2. q \in Queues /\ todo' \in Seq(Calls)  BY <1>1, PopTypes
<1>3. ~waits /\ ~waits'  BY <1>1 DEF TypeOK
<1> HIDE DEF q
<1>4. CASE IsRunning(q)
  <2>1. UNCHANGED <<procs, state, serves, orphans>>  BY <1>1, <1>4
  <2>2. TypeOK'  BY <1>1, <1>2, <1>3, <2>1 DEF TypeOK
  <2>3. OneWorkerPerQueue'  BY <2>1, NoneComesUp DEF Live
  <2> QED  BY <1>1, <2>2, <2>3
<1>5. CASE ~IsRunning(q)
  <2>1. PICK p \in FreePids \cup ({procs[q]} \ {Nobody}) :
          /\ procs' = [procs EXCEPT ![q] = p]
          /\ state' = [state EXCEPT ![p] = "up"]
          /\ serves' = [serves EXCEPT ![p] = q]
          /\ orphans' = orphans \ {p}
    BY <1>1, <1>5 DEF Spawn
  <2>2. p \in Pids  BY <1>2, <2>1 DEF FreePids, TypeOK
  <2>3. TypeOK'  BY <1>1, <1>2, <1>3, <2>1, <2>2 DEF TypeOK
  <2>4. ASSUME NEW r \in Queues, NEW o \in Workers(r)'  PROVE o = procs'[r]
    <3>1. o \in Pids /\ o \notin orphans' /\ Live(o)' /\ serves'[o] = r
      BY <2>4 DEF Workers
    <3>2. CASE o = p
      BY <1>2, <2>1, <2>2, <3>1, <3>2 DEF TypeOK
    <3>3. CASE o # p
      <4>1. o \in Workers(r)
        BY <2>1, <2>2, <3>1, <3>3 DEF Workers, Live, TypeOK
      <4>2. o = procs[r] /\ Live(o)  BY <4>1 DEF OneWorkerPerQueue, Workers
      <4>3. r # q
        BY <1>5, <3>1, <4>2, SupervisorAssumption DEF IsRunning
      <4> QED  BY <1>2, <2>1, <4>2, <4>3 DEF TypeOK
    <3> QED  BY <3>2, <3>3
  <2>5. OneWorkerPerQueue'  BY <2>4 DEF OneWorkerPerQueue
  <2> QED  BY <1>1, <2>3, <2>5
<1> QED  BY <1>4, <1>5

\* The other calls, and what ends them, only take processes down.
LEMMA StopSupervised ==
  ASSUME Supervised, Stop \/ Stopped \/ TimesOut  PROVE Supervised'
<1> USE DEF Supervised
<1> DEFINE q == Head(todo).queue
<1>1. /\ phase # "gone" /\ todo # <<>> /\ Head(todo).op = "stop"
      /\ UNCHANGED <<mode, phase, procs, serves, orphans>>
  BY DEF Stop, Stopped, TimesOut, TypeOK
<1>2. q \in Queues /\ Tail(todo) \in Seq(Calls)  BY <1>1, PopTypes
<1>3. UNCHANGED state \/ \E v \in {"term", "kill", state[procs[q]]} :
        IsRunning(q) /\ state' = [state EXCEPT ![procs[q]] = v]
  BY DEF Stop, Stopped, TimesOut
<1>4. \/ waits' = TRUE /\ UNCHANGED todo
      \/ waits' = FALSE /\ todo' = Tail(todo)
  BY DEF Stop, Stopped, TimesOut, Pop, TypeOK
<1> HIDE DEF q
<1>5. state' \in [Pids -> {"up", "term", "kill", "dead"}] /\ \A p \in Pids : Live(p)' => Live(p)
  <2>1. CASE UNCHANGED state  BY <2>1 DEF Live, TypeOK
  <2>2. ASSUME NEW v \in {"term", "kill", state[procs[q]]}, IsRunning(q),
               state' = [state EXCEPT ![procs[q]] = v]
        PROVE  state' \in [Pids -> {"up", "term", "kill", "dead"}]
               /\ \A p \in Pids : Live(p)' => Live(p)
    <3>1. procs[q] \in Pids /\ Live(procs[q])  BY <1>2, <2>2 DEF IsRunning, TypeOK
    <3>2. v \in {"up", "term", "kill", "dead"}  BY <3>1 DEF TypeOK
    <3> QED  BY <2>2, <3>1, <3>2 DEF Live, TypeOK
  <2> QED  BY <1>3, <2>1, <2>2
<1>6. TypeOK'
  <2>1. CASE waits' = TRUE /\ UNCHANGED todo
    BY <1>1, <1>5, <2>1 DEF TypeOK
  <2>2. CASE waits' = FALSE /\ todo' = Tail(todo)
    BY <1>1, <1>2, <1>5, <2>2 DEF TypeOK
  <2> QED  BY <1>4, <2>1, <2>2
<1>7. OneWorkerPerQueue'  BY <1>1, <1>5, NoneComesUp
<1> QED  BY <1>1, <1>6, <1>7

\* Every step of the supervisor, its processes and its clients keeps it.
LEMMA ProcessesNext ==
  ASSUME Supervised, [Next]_vars  PROVE Supervised'
<1> USE DEF Supervised
<1>1. ASSUME UNCHANGED <<procs, state, serves, orphans>>  PROVE OneWorkerPerQueue'
  BY <1>1, NoneComesUp DEF Live
<1>2. CASE WorkerAction
  <2>1. ~waits  BY <1>2 DEF WorkerAction, Idle, TypeOK
  <2>2. ASSUME NEW q \in Queues
        PROVE  <<StartCall(q)>> \in Seq(Calls) /\ <<StopCall(q)>> \in Seq(Calls)
               /\ <<StopCall(q), StartCall(q)>> \in Seq(Calls)
    <3>1. StartCall(q) \in Calls /\ StopCall(q) \in Calls
      BY DEF StartCall, StopCall, Calls
    <3> QED  BY <3>1
  <2>3. todo' \in Seq(Calls)  BY <1>2, <2>2 DEF WorkerAction
  <2>4. UNCHANGED <<mode, phase, waits, procs, state, serves, orphans>>
    BY <1>2 DEF WorkerAction
  <2>5. TypeOK'  BY <2>1, <2>3, <2>4 DEF TypeOK
  <2> QED  BY <1>1, <1>2, <2>4, <2>5 DEF WorkerAction, Idle
<1>3. CASE SelfHeal
  <2>1. ~waits  BY <1>3 DEF SelfHeal, Idle, TypeOK
  <2>2. TypeOK'  BY <1>3, <2>1, AllCalls DEF SelfHeal, TypeOK
  <2> QED  BY <1>1, <1>3, <2>2 DEF SelfHeal, Idle
<1>4. CASE ShutDown
  <2>1. ~waits  BY <1>4 DEF ShutDown, Idle, TypeOK
  <2>2. TypeOK'  BY <1>4, <2>1, AllCalls DEF ShutDown, TypeOK
  <2> QED  BY <1>1, <1>4, <2>2 DEF ShutDown
<1>5. CASE Exit
  <2>1. TypeOK'  BY <1>5 DEF Exit, TypeOK
  <2> QED  BY <1>1, <1>5, <2>1 DEF Exit
<1>6. CASE Abort
  <2>1. /\ phase' = "gone" /\ todo' = <<>> /\ waits' = FALSE
        /\ orphans' \subseteq Pids /\ UNCHANGED <<mode, procs, state, serves>>
    BY <1>6 DEF Abort
  <2>2. TypeOK'
    <3>1. todo' \in Seq(Calls)  BY <2>1
    <3> QED  BY <2>1, <3>1 DEF TypeOK
  <2>3. \A q \in Queues : Workers(q)' = {}
    BY <1>6 DEF Abort, Workers, Live
  <2> QED  BY <1>6, <2>2, <2>3 DEF Abort, OneWorkerPerQueue
<1>7. CASE Restart
  <2>1. ~waits  BY <1>7 DEF Restart, TypeOK
  <2>2. TypeOK'  BY <1>7, <2>1, AllCalls DEF Restart, TypeOK
  <2>3. \A q \in Queues : Workers(q)' = {}
    BY <1>7 DEF Restart, Workers, Live
  <2> QED  BY <1>7, <2>2, <2>3 DEF Restart, OneWorkerPerQueue
<1>8. ASSUME NEW p \in Pids, Dies(p) \/ Killed(p)  PROVE Supervised'
  <2>1. /\ state' = [state EXCEPT ![p] = "dead"]
        /\ UNCHANGED <<mode, phase, todo, waits, procs, serves, orphans>>
    BY <1>8 DEF Dies, Killed
  <2>2. TypeOK'  BY <2>1 DEF TypeOK
  <2>3. \A o \in Pids : Live(o)' => Live(o)  BY <2>1 DEF Live, TypeOK
  <2> QED  BY <2>1, <2>2, <2>3, NoneComesUp
<1>9. CASE UNCHANGED vars
  <2>1. TypeOK'  BY <1>9 DEF vars, TypeOK
  <2> QED  BY <1>1, <1>9, <2>1 DEF vars
<1> QED  BY <1>2, <1>3, <1>4, <1>5, <1>6, <1>7, <1>8, <1>9, StartSupervised,
            StopSupervised DEF Next, Thread

-----------------------------------------------------------------------------
\* The containers.
Contained == D!TypeOK /\ D!KillHolds

\* It holds at first.
LEMMA DockerInit == D!Init => Contained
BY DEF D!Init, Contained, D!TypeOK, D!KillHolds, D!Seen

\* And when the containers are not deployed.
LEMMA NoContainersInit == NoContainers => Contained
BY DEF NoContainers, Contained, D!TypeOK, D!KillHolds, D!Seen

\* Every call, crash and restart keeps it.
LEMMA DockerNext ==
  ASSUME Contained, D!Next \/ UNCHANGED containers  PROVE Contained'
<1> USE DEF Contained, D!TypeOK, D!KillHolds
<1>1. CASE D!Look
  <2>1. PICK op \in {"start", "stop", "restart"}, q \in Queues :
          \E saw \in {status[q], "absent"} :
            call' = [op |-> op, queue |-> q, saw |-> saw]
    BY <1>1 DEF D!Look
  <2>2. call' \in D!Calls  BY <2>1 DEF D!Calls, D!Seen
  <2> QED  BY <1>1, <2>2 DEF D!Look
<1>2. ASSUME D!Stop \/ D!Start \/ D!Restart  PROVE Contained'
  <2>1. call \in D!Calls /\ call' = NoCall
    BY <1>2 DEF D!Stop, D!Start, D!Restart
  <2>2. call.queue \in Queues /\ call.saw \in D!Seen  BY <2>1 DEF D!Calls
  <2>3. CASE D!Stop  BY <2>1, <2>2, <2>3 DEF D!Stop, D!Seen
  <2>4. CASE D!Start  BY <2>1, <2>2, <2>4 DEF D!Start, D!Seen
  <2>5. CASE D!Restart  BY <2>1, <2>2, <2>5 DEF D!Restart, D!Seen
  <2> QED  BY <1>2, <2>3, <2>4, <2>5
<1>3. CASE D!CallLost  BY <1>3 DEF D!CallLost
<1>4. ASSUME NEW q \in Queues, D!Crash(q) \/ D!Revive(q)  PROVE Contained'
  BY <1>4 DEF D!Crash, D!Revive, D!Seen
<1>5. CASE D!Reboot  BY <1>5 DEF D!Reboot, D!Seen
<1>6. CASE UNCHANGED containers  BY <1>6 DEF containers
<1> QED  BY <1>1, <1>2, <1>3, <1>4, <1>5, <1>6 DEF D!Next

-----------------------------------------------------------------------------
\* The inductive invariant of both deployments.
WorkersInv == deployment \in {"process", "docker"} /\ Supervised /\ Contained

\* It holds at first.
LEMMA WorkersInit == BuildSupervisor => WorkersInv
BY ProcessesInit, NoProcessesInit, DockerInit, NoContainersInit
   DEF BuildSupervisor, WorkersInv

\* Every step keeps it.
LEMMA WorkersStep == WorkersInv /\ [WorkersNext]_workersVars => WorkersInv'
<1> SUFFICES ASSUME WorkersInv, [WorkersNext]_workersVars  PROVE WorkersInv'
  OBVIOUS
<1>1. /\ UNCHANGED deployment
      /\ [Next]_vars
      /\ D!Next \/ UNCHANGED containers
  BY DEF WorkersNext, workersVars
<1> QED  BY <1>1, ProcessesNext, DockerNext DEF WorkersInv

\* It holds in every behaviour.
LEMMA WorkersAlways == WorkersSpec => []WorkersInv
BY WorkersInit, WorkersStep, PTL DEF WorkersSpec

\* The variables of both parts keep their types.
THEOREM TypeCorrect == WorkersSpec => []WorkersTypeOK
<1>1. WorkersInv => WorkersTypeOK
  BY DEF WorkersInv, Supervised, Contained, WorkersTypeOK
<1> QED  BY <1>1, WorkersAlways, PTL

\* "one child process per task queue" (supervisor.py:1): at most one live
\* worker for a queue, and it is the remembered one.
THEOREM OneWorker == WorkersSpec => []OneWorkerPerQueue
<1>1. WorkersInv => OneWorkerPerQueue  BY DEF WorkersInv, Supervised
<1> QED  BY <1>1, WorkersAlways, PTL

\* A worker the operator kills while it runs stays down until it is started.
THEOREM KillsHold == WorkersSpec => []KillHolds
<1>1. WorkersInv => KillHolds  BY DEF WorkersInv, Contained, KillHolds
<1> QED  BY <1>1, WorkersAlways, PTL

\* The supervisor of processes keeps its types and its one worker per queue
\* also without the deployment around it.
THEOREM SupervisorAlone == Spec => [](TypeOK /\ OneWorkerPerQueue)
<1>1. Supervised => TypeOK /\ OneWorkerPerQueue  BY DEF Supervised
<1> QED  BY <1>1, ProcessesInit, ProcessesNext, PTL DEF Spec
=============================================================================
