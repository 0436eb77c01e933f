---------------------------- MODULE DemoControl ----------------------------
(***************************************************************************)
(* DemoControlWorkflow (control/workflow.py): the singleton entity that    *)
(* holds the scenario map.  Clients leave signals in its mailbox; a        *)
(* workflow task runs the handlers of the signals it was given, in order,  *)
(* and then resumes the coroutine `run`.  `run` starts in the first task   *)
(* of a run, AFTER the handlers of the signals delivered with that task,   *)
(* so its opening assignment overwrites what they did.  A task that        *)
(* closes the run is rejected while a signal is undelivered, hence the     *)
(* empty inbox in ContinueAsNew.                                           *)
(*                                                                         *)
(* Handlers are one step each: nothing outside can look between two of     *)
(* them, queries are answered after a task.                                *)
(***************************************************************************)
EXTENDS Integers, Sequences

CONSTANTS
  Names,       \* scenario names a command may carry, "_actions" included
  Keys,        \* parameter names (and, under "_actions", action names)
  Values,      \* parameter values (and timestamps)
  Defaults,    \* default_scenarios(): a map with every scenario disabled
  Commands,    \* the signals clients send
  None,        \* `carried` of the very first run
  MaxSignals,  \* _MAX_SIGNALS
  MaxHistory,  \* _MAX_HISTORY
  MaxBurst     \* BOUND: signals that reach a run between two wake-ups

Params == UNION {[K -> Values] : K \in SUBSET Keys}
Scenario == [enabled : BOOLEAN, params : Params]
Maps == UNION {[N -> Scenario] : N \in SUBSET Names}
Signals == [kind : {"set"}, name : Names, enabled : BOOLEAN, params : Params]
             \cup [kind : {"reset"}]
             \cup [kind : {"record"}, name : Keys, when : Values]

ASSUME DefaultsAssumption == Defaults \in Maps
ASSUME ActionsAssumption == "_actions" \in Names
ASSUME CommandsAssumption == Commands \subseteq Signals
ASSUME NoneAssumption == None \notin Maps
ASSUME LimitsAssumption ==
  /\ MaxSignals \in Nat \ {0}
  /\ MaxHistory \in Nat /\ MaxHistory >= 3
  /\ MaxBurst \in Nat

VARIABLES
  inbox,      \* signals accepted by the server, not yet given to a handler
  started,    \* `run` has begun in the current run of the workflow
  carried,    \* the argument of `run`
  scenarios,  \* self._scenarios
  applied,    \* self._applied
  hist        \* get_current_history_length(): events delivered to the run

vars == <<inbox, started, carried, scenarios, applied, hist>>

-----------------------------------------------------------------------------
(* dict.update, merge_scenario and the handlers, as functions of the map.  *)

\* g.update(f)
Over(f, g) ==
  [x \in (DOMAIN f) \cup (DOMAIN g) |-> IF x \in DOMAIN f THEN f[x] ELSE g[x]]

\* f[key] = value
Put(f, key, value) ==
  [x \in (DOMAIN f) \cup {key} |-> IF x = key THEN value ELSE f[x]]

Blank == [enabled |-> FALSE, params |-> [k \in {} |-> 0]]

Base(m, n) ==
  IF n \in DOMAIN m THEN m[n]
  ELSE IF n \in DOMAIN Defaults THEN Defaults[n] ELSE Blank

\* Mutant: the new parameters replace the stored ones.
MergeDropsOldParams(m, n, enabled, params) ==
  Put(m, n, [enabled |-> enabled, params |-> params])

Merge(m, n, enabled, params) ==
  Put(m, n, [enabled |-> enabled, params |-> Over(params, Base(m, n).params)])

Actions(m) == IF "_actions" \in DOMAIN m THEN m["_actions"] ELSE Blank

\* Mutant: the action is written beside "params" instead of into it.
RecordFlat(m, action, when) ==
  Put(m, "_actions", Put(Actions(m), action, when))

Record(m, action, when) ==
  Put(m, "_actions",
      [enabled |-> Actions(m).enabled,
       params  |-> Put(Actions(m).params, action, when)])

\* The map after one handler: set_scenario, reset_all or record_action.
Effect(m, cmd) ==
  CASE cmd.kind = "set"    -> Merge(m, cmd.name, cmd.enabled, cmd.params)
    [] cmd.kind = "reset"  -> Defaults
    [] cmd.kind = "record" -> Record(m, cmd.name, cmd.when)

-----------------------------------------------------------------------------
Init ==
  /\ inbox = <<>>
  /\ started = FALSE
  /\ carried = None
  /\ scenarios = Defaults
  /\ applied = 0
  /\ hist = 1

\* A client's signal is recorded by the server.
Accept(cmd) ==
  /\ applied + Len(inbox) < MaxBurst
  /\ inbox' = Append(inbox, cmd)
  /\ UNCHANGED <<started, carried, scenarios, applied, hist>>

\* One signal handler runs, in the first task or in a later one.
HandleSignal ==
  /\ inbox # <<>>
  /\ inbox' = Tail(inbox)
  /\ scenarios' = Effect(scenarios, Head(inbox))
  /\ applied' = applied + 1
  /\ hist' = hist + 1
  /\ UNCHANGED <<started, carried>>

\* Mutant: the length of the history is not tested.
CountOnly == applied >= MaxSignals

\* What the body of the loop tests after the wait.
MustContinueAsNew == applied >= MaxSignals \/ hist + 2 > MaxHistory

\* Mutant: continue_as_new(args=[]).
ForgetMap(map) ==
  /\ MustContinueAsNew
  /\ inbox = <<>>
  /\ carried' = None
  /\ started' = FALSE
  /\ scenarios' = Defaults
  /\ applied' = 0
  /\ hist' = 1
  /\ UNCHANGED inbox

ContinueAsNew(map) ==
  /\ MustContinueAsNew
  /\ inbox = <<>>
  /\ carried' = map
  /\ started' = FALSE
  /\ scenarios' = Defaults
  /\ applied' = 0
  /\ hist' = 1
  /\ UNCHANGED inbox

\* The loop goes back to wait_condition; the task adds three events.
KeepWaiting(map) ==
  /\ ~MustContinueAsNew
  /\ started' = TRUE
  /\ scenarios' = map
  /\ applied' = 0
  /\ hist' = hist + 3
  /\ UNCHANGED <<inbox, carried>>

\* `run` up to its first pass through the loop's wait.
Opening == IF carried = None THEN scenarios ELSE Over(carried, Defaults)

\* The end of a run's first task: the coroutine starts.  It stays at the
\* wait unless a signal was handled or the history is already long.
Start ==
  /\ ~started
  /\ inbox = <<>>
  /\ \/ ContinueAsNew(Opening)
     \/ KeepWaiting(Opening)

\* Mutant: _applied is reset before it is tested.
WakeResetsFirst ==
  /\ started
  /\ applied > 0
  /\ \/ hist + 2 > MaxHistory /\ ContinueAsNew(scenarios)
     \/ /\ hist + 2 <= MaxHistory
        /\ applied' = 0
        /\ hist' = hist + 3
        /\ UNCHANGED <<inbox, started, carried, scenarios>>

\* A later wake-up of wait_condition.
Wake ==
  /\ started
  /\ applied > 0
  /\ \/ ContinueAsNew(scenarios)
     \/ KeepWaiting(scenarios)

Next ==
  \/ \E cmd \in Commands : Accept(cmd)
  \/ HandleSignal
  \/ Start
  \/ Wake

\* A worker polls control-tq (docker restarts it), so workflow tasks run.
Fairness == WF_vars(HandleSignal) /\ WF_vars(Start) /\ WF_vars(Wake)

Spec == Init /\ [][Next]_vars
FairSpec == Spec /\ Fairness

-----------------------------------------------------------------------------
(* Properties.                                                             *)

\* The types of the variables of DemoControlWorkflow.
TypeOK ==
  /\ inbox \in Seq(Signals)
  /\ started \in BOOLEAN
  /\ carried \in Maps \cup {None}
  /\ scenarios \in Maps
  /\ applied \in Nat
  /\ hist \in Nat

\* What the next query is answered from: the pending first task of a run
\* replaces the map of __init__ by the one that was carried over.
Visible == IF started \/ carried = None THEN scenarios ELSE carried

\* The run's history passes the threshold by at most one burst of signals
\* and one task, over any number of bursts and hand-overs ("keep its own
\* history bounded", control/workflow.py:4-6).
HistoryBounded == hist <= MaxHistory + 1 + MaxBurst

\* No command and no hand-over removes a default scenario from what readers
\* see, so is_enabled and get_params (control/cache.py:36-41) and the
\* generator always find the entry they index.
DefaultsPresent == DOMAIN Defaults \subseteq DOMAIN Visible

\* A parameter that a reader has seen in a scenario does not disappear,
\* whatever commands and hand-overs follow, unless a reset drops it: a
\* partial set_scenario merges (control/schema.py:50-51).
ParamsKept ==
  [][\A n \in DOMAIN Visible :
        \/ n \in DOMAIN Visible' /\ DOMAIN Visible[n].params \subseteq DOMAIN Visible'[n].params
        \/ inbox # <<>> /\ Head(inbox).kind = "reset" /\ Visible' = Defaults]_vars

\* The workflow implements the scenario store: every accepted command takes
\* effect on the visible map once, whole and in order, across any number of
\* continue-as-new hand-overs, except those that a run's first task voids.
Store == INSTANCE ScenarioStore WITH
           map <- Visible, queue <- inbox, fresh <- ~started,
           InitialMap <- Defaults, Effect <- Effect
ImplementsStore == Store!Spec

\* A run whose body finds it must continue as new is eventually replaced by
\* a fresh one: the hand-over is not postponed for ever by signals that
\* arrive while it is attempted, because a burst ends.
HandsOver == (applied > 0 /\ MustContinueAsNew) ~> (hist = 1)
=============================================================================
