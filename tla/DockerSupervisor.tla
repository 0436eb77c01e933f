-------------------------- MODULE DockerSupervisor --------------------------
(***************************************************************************)
(* DockerSupervisor (workers/docker_supervisor.py): the dashboard and the  *)
(* worker containers of docker-compose.  A call reads the status of the    *)
(* container and then acts on what it read, in two requests to the docker  *)
(* daemon; the container goes on in between.  The dashboard serves its     *)
(* requests in one thread, which both requests block, so that its calls do *)
(* not overlap.                                                            *)
(*                                                                         *)
(* The containers have `restart: unless-stopped` (docker-compose.yml:19):  *)
(* one that exits by itself is "restarting", and comes back after a delay; *)
(* one that was stopped by request is "exited", and stays so even when the *)
(* daemon itself is restarted.                                             *)
(***************************************************************************)
CONSTANTS
  Queues,  \* ALL_TASK_QUEUES
  NoCall   \* no request is being served

Seen == {"running", "restarting", "exited", "absent"}
Calls == [op : {"start", "stop", "restart"}, queue : Queues, saw : Seen]

VARIABLES
  status,  \* status[q]: the container of q
  call,    \* the call being served: what it is to do, and what it has read
  killed   \* HISTORY: what the last effective call on q was: "no" if it
           \* brought it up, else what the stop had read

dockerVars == <<status, call, killed>>

\* `docker compose up` has created the containers, or not.
Init ==
  /\ status \in [Queues -> {"running", "absent"}]
  /\ call = NoCall
  /\ killed = [q \in Queues |-> "no"]

-----------------------------------------------------------------------------
(* The calls.                                                              *)

\* _get(queue): containers.get and reload; an error is taken for a
\* container that does not exist.
Look ==
  /\ call = NoCall
  /\ \E op \in {"start", "stop", "restart"}, q \in Queues :
       \E saw \in {status[q], "absent"} :
         call' = [op |-> op, queue |-> q, saw |-> saw]
  /\ UNCHANGED <<status, killed>>

\* Mutant: the status is looked at once more, and a container that has
\* crashed meanwhile is not stopped.
StopRereads ==
  /\ call # NoCall /\ call.op = "stop"
  /\ LET q == call.queue IN
       /\ status' = IF call.saw = "running" /\ status[q] = "running"
                      THEN [status EXCEPT ![q] = "exited"] ELSE status
       /\ killed' = [killed EXCEPT ![q] = call.saw]
  /\ call' = NoCall

\* stop: nothing, or container.stop(), whatever has become of it since.
Stop ==
  /\ call # NoCall /\ call.op = "stop"
  /\ LET q == call.queue IN
       /\ status' = IF call.saw = "running" THEN [status EXCEPT ![q] = "exited"] ELSE status
       /\ killed' = [killed EXCEPT ![q] = call.saw]
  /\ call' = NoCall

\* start: container.start() unless it was read as running; the daemon
\* leaves a container alone that it is about to restart.
Start ==
  /\ call # NoCall /\ call.op = "start"
  /\ LET q == call.queue IN
       /\ status' = IF call.saw = "exited" /\ status[q] = "exited"
                      THEN [status EXCEPT ![q] = "running"] ELSE status
       /\ killed' = [killed EXCEPT ![q] = IF call.saw = "absent" THEN @ ELSE "no"]
  /\ call' = NoCall

\* restart: container.restart() of whatever is there.
Restart ==
  /\ call # NoCall /\ call.op = "restart"
  /\ LET q == call.queue IN
       IF call.saw = "absent"
         THEN UNCHANGED <<status, killed>>
         ELSE /\ status' = [status EXCEPT ![q] = "running"]
              /\ killed' = [killed EXCEPT ![q] = "no"]
  /\ call' = NoCall

\* The second request fails, or the dashboard dies between the two.
CallLost ==
  /\ call # NoCall
  /\ call' = NoCall
  /\ UNCHANGED <<status, killed>>

-----------------------------------------------------------------------------
(* The containers and the daemon.                                          *)

\* Mutant: no restart policy.
CrashForGood(q) ==
  /\ status[q] = "running"
  /\ status' = [status EXCEPT ![q] = "exited"]
  /\ UNCHANGED <<call, killed>>

\* The worker in the container exits.
Crash(q) ==
  /\ status[q] = "running"
  /\ status' = [status EXCEPT ![q] = "restarting"]
  /\ UNCHANGED <<call, killed>>

\* The delay of the restart policy is over.
Revive(q) ==
  /\ status[q] = "restarting"
  /\ status' = [status EXCEPT ![q] = "running"]
  /\ UNCHANGED <<call, killed>>

\* The daemon or its host restarts, and with it the dashboard's container.
Reboot ==
  /\ status' = [q \in Queues |->
                  IF status[q] = "running" THEN "restarting" ELSE status[q]]
  /\ call' = NoCall
  /\ UNCHANGED killed

Next ==
  \/ Look \/ Stop \/ Start \/ Restart \/ CallLost
  \/ \E q \in Queues : Crash(q) \/ Revive(q)
  \/ Reboot

\* The daemon does what the restart policy says.  Nobody has to call.
Fairness == \A q \in Queues : WF_dockerVars(Revive(q))

Spec == Init /\ [][Next]_dockerVars
FairSpec == Spec /\ Fairness

-----------------------------------------------------------------------------
(* Properties.                                                             *)

\* The types; a call is served for a queue that exists.
TypeOK ==
  /\ status \in [Queues -> Seen]
  /\ call \in Calls \cup {NoCall}
  /\ killed \in [Queues -> {"no"} \cup Seen]

\* README.md:156-157, "a killed worker stays down until you start it": a
\* container that stop found running is down when stop returns and stays
\* down, although it may crash between the two requests, and although the
\* daemon may restart.
KillHolds ==
  \A q \in Queues : killed[q] = "running" => status[q] = "exited"

\* The same of every kill that found its container: not so.  stop does
\* nothing to one that it finds waiting for its restart, which then comes
\* back.  (The page shows "kill" for a worker that was running when it was
\* last polled.)
KilledStaysDown ==
  \A q \in Queues :
    killed[q] \in {"running", "restarting", "exited"} => status[q] # "running"

\* README.md:157, "a crashed worker self-heals": a container that is down
\* and was not killed comes back, or is killed.
ContainersSelfHeal ==
  \A q \in Queues :
    (killed[q] = "no" /\ status[q] \notin {"running", "absent"})
      ~> (status[q] = "running" \/ killed[q] # "no")
=============================================================================
