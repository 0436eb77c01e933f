------------------------------- MODULE Relay -------------------------------
(***************************************************************************)
(* Scenario S2 end to end: the operator's commands change entity_history   *)
(* in demo-control; the generator's control_loop (generator.py:295-319)    *)
(* polls it every three seconds and tells a region's dispatch entity to    *)
(* degrade or to heal; S6 terminates regions and the keepalive loop        *)
(* relaunches them.  The loop is split at its awaits: between two of them  *)
(* the operator and the regions move.  What it knows of the regions is one *)
(* field in memory, _degraded_region.                                      *)
(*                                                                         *)
(* demo-control appears as its ScenarioStore: each command takes effect    *)
(* whole.  What DemoControl voids never takes effect and is left out.      *)
(***************************************************************************)
EXTENDS RegionHealth, FiniteSets

CONSTANTS
  Settings,     \* the entity_history parameters the operator may send
  NoRegion,     \* _degraded_region is None
  MaxQueue,     \* BOUND: degradation signals waiting at one region
  MaxRestarts,  \* BOUND: terminations and hand-overs of regions
  MaxFaults     \* BOUND: signals that are lost and deaths of the generator

\* rate: the parameter inflate_rate is a number, int() accepts it.
AllSettings ==
  [region : Regions, suspend : BOOLEAN, inflate : BOOLEAN, rate : BOOLEAN]

ASSUME SettingsAssumption == Settings \subseteq AllSettings /\ Settings # {}
ASSUME NoRegionAssumption == NoRegion \notin Regions
ASSUME BoundsAssumption == MaxQueue \in Nat /\ MaxRestarts \in Nat /\ MaxFaults \in Nat

VARIABLES
  want,     \* entity_history in demo-control: enabled and params
  seen,     \* self._scenarios: what the last query returned
  mem,      \* self._degraded_region
  gpc,      \* where control_loop is
  restarts, \* terminations and hand-overs so far
  faults    \* signals of the generator lost, and its deaths, so far

accounts == <<restarts, faults>>
relayVars == <<want, seen, mem, gpc, accounts>>
vars == <<regionVars, relayVars>>

Wants == [on : BOOLEAN, to : Settings]
Places == {"refresh", "resetOld", "signal", "resetLast", "down"}

\* The Degradation the relay sends for a setting.
Ordered(s) == [suspend |-> s.suspend, inflate |-> s.inflate]

Init ==
  /\ RegionInit
  /\ want \in [on : {FALSE}, to : Settings]
  /\ seen = want
  /\ mem = NoRegion
  /\ gpc = "refresh"
  /\ restarts = 0 /\ faults = 0

\* A failure of the generator itself.
Fault ==
  /\ faults < MaxFaults
  /\ faults' = faults + 1
  /\ UNCHANGED restarts

-----------------------------------------------------------------------------
(* The operator.                                                           *)

\* set_scenario with enabled = TRUE.
Enable(s) ==
  /\ want' = [on |-> TRUE, to |-> s]
  /\ UNCHANGED <<regionVars, seen, mem, gpc, accounts>>

\* set_scenario with enabled = FALSE, or RESET.
Disable ==
  /\ want' = [want EXCEPT !.on = FALSE]
  /\ UNCHANGED <<regionVars, seen, mem, gpc, accounts>>

-----------------------------------------------------------------------------
(* control_loop, one step per segment between two awaits.                  *)

\* Mutant: the old region is never reset when the target moves.
NextPlaceNoReset(s, old) ==
  CASE s.on /\ s.to.rate                -> "signal"
    [] s.on /\ ~s.to.rate               -> "down"
    [] ~s.on /\ old # NoRegion          -> "resetLast"
    [] ~s.on /\ old = NoRegion          -> "refresh"

\* Where a loop that has read s, and remembers old, stops next.  A rate that
\* int() rejects raises out of gather and ends the process.
NextPlace(s, old) ==
  CASE s.on /\ old \notin {NoRegion, s.to.region} -> "resetOld"
    [] s.on /\ old \in {NoRegion, s.to.region}    ->
         IF s.to.rate THEN "signal" ELSE "down"
    [] ~s.on /\ old # NoRegion                    -> "resetLast"
    [] ~s.on /\ old = NoRegion                    -> "refresh"

\* refresh_scenarios answered with s.
Refresh(s) ==
  /\ gpc = "refresh"
  /\ seen' = s
  /\ gpc' = NextPlace(s, mem)
  /\ UNCHANGED <<regionVars, want, mem, accounts>>

RefreshOk == Refresh(want)

\* The query failed; the old answer is used again.
RefreshFails == seen # want /\ Refresh(seen)

\* _safe_signal: refused when the region is closed; it ignores every error.
Signal(r, d) ==
  \/ /\ alive[r] => Len(queue[r]) < MaxQueue
     /\ Deliver(r, d)
     /\ UNCHANGED accounts
  \/ Fault /\ UNCHANGED regionVars

ResetOld ==
  /\ gpc = "resetOld"
  /\ Signal(mem, Healthy)
  /\ gpc' = IF seen.to.rate THEN "signal" ELSE "down"
  /\ UNCHANGED <<want, seen, mem>>

\* Mutant: the order is sent once, not at every pass.
SendOrderOnce ==
  /\ gpc = "signal"
  /\ IF mem = seen.to.region THEN UNCHANGED <<regionVars, accounts>>
     ELSE Signal(seen.to.region, Ordered(seen.to))
  /\ mem' = seen.to.region
  /\ gpc' = "refresh"
  /\ UNCHANGED <<want, seen>>

SendOrder ==
  /\ gpc = "signal"
  /\ Signal(seen.to.region, Ordered(seen.to))
  /\ mem' = seen.to.region
  /\ gpc' = "refresh"
  /\ UNCHANGED <<want, seen>>

ResetLast ==
  /\ gpc = "resetLast"
  /\ Signal(mem, Healthy)
  /\ mem' = NoRegion
  /\ gpc' = "refresh"
  /\ UNCHANGED <<want, seen>>

\* The process is killed, wherever it is; nothing is saved.
Crash ==
  /\ Fault
  /\ gpc # "down"
  /\ gpc' = "down"
  /\ UNCHANGED <<regionVars, want, seen, mem>>

\* The container restarts the process; its memory is new.
Boot ==
  /\ gpc = "down"
  /\ mem' = NoRegion
  /\ seen' = [seen EXCEPT !.on = FALSE]
  /\ gpc' = "refresh"
  /\ UNCHANGED <<regionVars, want, accounts>>

-----------------------------------------------------------------------------
(* The regions.                                                            *)

RegionWork(r) == Work(r) /\ UNCHANGED relayVars

\* ensure_entities, at boot and from the keepalive loop.
Keepalive(r) ==
  /\ gpc # "down"
  /\ Launch(r)
  /\ UNCHANGED relayVars

Interrupt(r) ==
  /\ restarts < MaxRestarts
  /\ restarts' = restarts + 1
  /\ HandOver(r) \/ Terminate(r)
  /\ UNCHANGED <<want, seen, mem, gpc, faults>>

Next ==
  \/ \E s \in Settings : Enable(s)
  \/ Disable
  \/ RefreshOk
  \/ RefreshFails
  \/ ResetOld
  \/ SendOrder
  \/ ResetLast
  \/ Crash
  \/ Boot
  \/ \E r \in Regions : RegionWork(r) \/ Keepalive(r) \/ Interrupt(r)

\* The loops of the generator and the workers of the regions keep running;
\* a query fails only so many times in a row.
Fairness ==
  /\ SF_vars(RefreshOk)
  /\ WF_vars(ResetOld \/ SendOrder \/ ResetLast \/ Boot)
  /\ \A r \in Regions :
       /\ WF_vars(Take(r) /\ UNCHANGED relayVars)
       /\ WF_vars(Void(r) /\ UNCHANGED relayVars)
       /\ WF_vars(Begin(r) /\ UNCHANGED relayVars)
       /\ WF_vars(Publish(r) /\ UNCHANGED relayVars)
       /\ SF_vars(Keepalive(r))

Spec == Init /\ [][Next]_vars
FairSpec == Spec /\ Fairness

-----------------------------------------------------------------------------
(* Properties.                                                             *)

\* The types of the relay's and the regions' variables.
TypeOK ==
  /\ RegionTypeOK
  /\ want \in Wants
  /\ seen \in Wants
  /\ mem \in Regions \cup {NoRegion}
  /\ gpc \in Places
  /\ restarts \in Nat /\ faults \in Nat

\* What a region has last been told.
Latest(r) ==
  IF queue[r] # <<>> THEN queue[r][Len(queue[r])] ELSE degr[r]

Targeted(r) == alive[r] /\ Latest(r) # Healthy

Targets == {r \in Regions : Targeted(r)}

\* S2 runs "on a single region" (README.md:399-400), and the relay remembers
\* in one field which region it has to heal (generator.py:91, 315).  The
\* operator may move the target at any moment between the relay's awaits, and
\* regions may restart, yet no more degraded regions are missing from that
\* field than the generator itself has failed times.
Remembered == Cardinality(Targets \ {mem}) <= faults

\* Hence no two regions are left degraded, and one more for each failure.
SingleTarget == Cardinality(Targets) <= 1 + faults

IsHealthy(r) == alive[r] => degr[r] = Healthy /\ shown[r] = "healthy"

\* README.md:351-353: once the scenario is off for good, the generator's
\* relay brings every region back to healthy, in its behaviour and in the
\* FleetStatus that visibility shows, if the generator never failed.
ResetHeals ==
  <>[](~want.on) /\ [](faults = 0) => <>[](\A r \in Regions : IsHealthy(r))

\* A setting that stays on takes effect on its region and is shown there,
\* if the region stays up, whatever was lost in fresh runs or forgotten in
\* a crash before.
TakesEffect ==
  \A s \in Settings :
    s.rate =>
      (<>[](want = [on |-> TRUE, to |-> s] /\ alive[s.region])
         => <>[](degr[s.region] = Ordered(s)
                 /\ shown[s.region] = Status(Ordered(s))))
=============================================================================
