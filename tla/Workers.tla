------------------------------- MODULE Workers -------------------------------
(***************************************************************************)
(* The workers of the whole fleet, as they are deployed: as processes of a *)
(* supervisor (Supervisor), or as containers of docker-compose             *)
(* (DockerSupervisor).  _build_supervisor (dashboard/app.py:38-52) decides *)
(* once, from SUPERVISOR_MODE; under docker start_all and stop_all do      *)
(* nothing, so that the dashboard's own life does not touch the workers.   *)
(***************************************************************************)
EXTENDS Supervisor

CONSTANT NoCall

VARIABLES deployment, status, call, killed

D == INSTANCE DockerSupervisor

containers == <<status, call, killed>>
workersVars == <<vars, deployment, containers>>

NoContainers ==
  /\ status = [q \in Queues |-> "absent"]
  /\ call = NoCall
  /\ killed = [q \in Queues |-> "no"]

NoProcesses ==
  /\ mode = "dashboard" /\ phase = "gone"
  /\ todo = <<>> /\ waits = FALSE
  /\ procs = [q \in Queues |-> Nobody]
  /\ state = [p \in Pids |-> "dead"]
  /\ serves = [p \in Pids |-> CHOOSE q \in Queues : TRUE]
  /\ orphans = {}

BuildSupervisor ==
  \/ deployment = "process" /\ Init /\ NoContainers
  \/ deployment = "docker" /\ NoProcesses /\ D!Init

WorkersNext ==
  /\ UNCHANGED deployment
  /\ \/ deployment = "process" /\ Next /\ UNCHANGED containers
     \/ deployment = "docker" /\ D!Next /\ UNCHANGED vars

\* Either part's; nothing of the other part is ever enabled.
WorkersSpec ==
  /\ BuildSupervisor /\ [][WorkersNext]_workersVars
  /\ Fairness /\ D!Fairness

-----------------------------------------------------------------------------
(* Properties.                                                             *)

\* The types of both parts.
WorkersTypeOK == deployment \in {"process", "docker"} /\ TypeOK /\ D!TypeOK

\* A worker the operator kills stays down (DockerSupervisor.KillHolds).
KillHolds == D!KillHolds

\* The standalone supervisor brings back every process that died, docker
\* every container that crashed.
FleetSelfHeals == ProcessesSelfHeal /\ D!ContainersSelfHeal
=============================================================================
