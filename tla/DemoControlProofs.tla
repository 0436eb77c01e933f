------------------------- MODULE DemoControlProofs -------------------------
(***************************************************************************)
(* Theorems about DemoControl for every set of names, keys, values and     *)
(* commands and every limit.                                               *)
(***************************************************************************)
EXTENDS DemoControl, TLAPS

(***************************************************************************)
(* Functions of the map.                                                   *)
(***************************************************************************)

\* Merging two parameter sets (dict.update, control/schema.py:50-51) gives
\* a parameter set.
LEMMA ParamsMerge ==
  ASSUME NEW p \in Params, NEW q \in Params
  PROVE  Over(p, q) \in Params
<1> DEFINE d == (DOMAIN p) \cup (DOMAIN q)
<1>1. PICK K \in SUBSET Keys : p \in [K -> Values]  BY DEF Params
<1>2. PICK L \in SUBSET Keys : q \in [L -> Values]  BY DEF Params
<1>3. d \in SUBSET Keys /\ Over(p, q) \in [d -> Values]
  BY <1>1, <1>2 DEF Over
<1> QED  BY <1>3 DEF Params

\* Writing one parameter (record_action, control/workflow.py:72) gives a
\* parameter set.
LEMMA ParamsPut ==
  ASSUME NEW p \in Params, NEW k \in Keys, NEW v \in Values
  PROVE  Put(p, k, v) \in Params
<1> DEFINE d == (DOMAIN p) \cup {k}
<1>1. PICK K \in SUBSET Keys : p \in [K -> Values]  BY DEF Params
<1>2. d \in SUBSET Keys /\ Put(p, k, v) \in [d -> Values]
  BY <1>1 DEF Put
<1> QED  BY <1>2 DEF Params

\* Writing one scenario into a map (state[name] = ...) gives a map over at
\* most one more name.
LEMMA MapPut ==
  ASSUME NEW m \in Maps, NEW n \in Names, NEW s \in Scenario
  PROVE  /\ Put(m, n, s) \in Maps
         /\ DOMAIN m \subseteq DOMAIN Put(m, n, s)
<1> DEFINE d == (DOMAIN m) \cup {n}
<1>1. PICK N \in SUBSET Names : m \in [N -> Scenario]  BY DEF Maps
<1>2. d \in SUBSET Names /\ Put(m, n, s) \in [d -> Scenario]
  BY <1>1 DEF Put
<1>3. DOMAIN Put(m, n, s) = d  BY DEF Put
<1> QED  BY <1>2, <1>3 DEF Maps

\* The entry of a name in a map is a scenario.
LEMMA MapGet ==
  ASSUME NEW m \in Maps, NEW n \in DOMAIN m
  PROVE  m[n] \in Scenario /\ m[n].params \in Params /\ m[n].enabled \in BOOLEAN
BY DEF Maps, Scenario

\* The entry a command starts from (stored, default or blank).
LEMMA BlankIsScenario == Blank \in Scenario
<1> DEFINE e == [k \in {} |-> 0]
<1>1. e \in [{} -> Values] /\ {} \in SUBSET Keys  OBVIOUS
<1>2. e \in Params  BY <1>1 DEF Params
<1> QED  BY <1>2 DEF Blank, Scenario

\* What set_scenario merges into is a scenario.
LEMMA BaseType ==
  ASSUME NEW m \in Maps, NEW n \in Names
  PROVE  Base(m, n) \in Scenario /\ Base(m, n).params \in Params
<1>1. Base(m, n) \in Scenario
  BY MapGet, BlankIsScenario, DefaultsAssumption DEF Base
<1> QED  BY <1>1 DEF Scenario

\* The entry of record_action is a scenario.
LEMMA ActionsType ==
  ASSUME NEW m \in Maps
  PROVE  /\ Actions(m) \in Scenario
         /\ Actions(m).params \in Params
         /\ Actions(m).enabled \in BOOLEAN
<1>1. Actions(m) \in Scenario
  BY MapGet, BlankIsScenario DEF Actions
<1> QED  BY <1>1 DEF Scenario

\* Every handler turns a map into a map that still has every default name:
\* set_scenario and record_action only add entries, reset_all restores the
\* defaults.
LEMMA EffectType ==
  ASSUME NEW m \in Maps, NEW cmd \in Signals,
         DOMAIN Defaults \subseteq DOMAIN m
  PROVE  /\ Effect(m, cmd) \in Maps
         /\ DOMAIN Defaults \subseteq DOMAIN Effect(m, cmd)
<1>1. CASE cmd \in [kind : {"set"}, name : Names, enabled : BOOLEAN, params : Params]
  <2> DEFINE s == [enabled |-> cmd.enabled,
                   params |-> Over(cmd.params, Base(m, cmd.name).params)]
  <2>1. cmd.kind = "set" /\ cmd.name \in Names /\ cmd.enabled \in BOOLEAN
        /\ cmd.params \in Params
    BY <1>1
  <2>2. s \in Scenario  BY <2>1, BaseType, ParamsMerge DEF Scenario
  <2>3. Effect(m, cmd) = Put(m, cmd.name, s)  BY <2>1 DEF Effect, Merge
  <2> HIDE DEF s
  <2> QED  BY <2>1, <2>2, <2>3, MapPut
<1>2. CASE cmd \in [kind : {"reset"}]
  <2>1. Effect(m, cmd) = Defaults  BY <1>2 DEF Effect
  <2> QED  BY <2>1, DefaultsAssumption
<1>3. CASE cmd \in [kind : {"record"}, name : Keys, when : Values]
  <2> DEFINE s == [enabled |-> Actions(m).enabled,
                   params |-> Put(Actions(m).params, cmd.name, cmd.when)]
  <2>1. cmd.kind = "record" /\ cmd.name \in Keys /\ cmd.when \in Values
    BY <1>3
  <2>2. s \in Scenario  BY <2>1, ActionsType, ParamsPut DEF Scenario
  <2>3. Effect(m, cmd) = Put(m, "_actions", s)  BY <2>1 DEF Effect, Record
  <2> HIDE DEF s
  <2> QED  BY <2>2, <2>3, MapPut, ActionsAssumption
<1> QED  BY <1>1, <1>2, <1>3 DEF Signals

\* `merged = default_scenarios(); merged.update(carried)` is the carried map
\* itself when it has every default name.
LEMMA OverDefaults ==
  ASSUME NEW m \in Maps, DOMAIN Defaults \subseteq DOMAIN m
  PROVE  Over(m, Defaults) = m
<1>1. PICK N \in SUBSET Names : m \in [N -> Scenario]  BY DEF Maps
<1> QED  BY <1>1 DEF Over

(***************************************************************************)
(* The inductive invariant.  DefaultsPresent is about the map readers see, *)
(* which a hand-over stores in `carried` and the first task reads back, so *)
(* both maps must have every default name.  HistoryBounded needs to know   *)
(* how much of a burst is already in the history.                          *)
(***************************************************************************)
MapsComplete ==
  /\ DOMAIN Defaults \subseteq DOMAIN scenarios
  /\ carried # None => DOMAIN Defaults \subseteq DOMAIN carried

BurstCounted ==
  /\ hist <= MaxHistory + 1 + applied
  /\ applied + Len(inbox) <= MaxBurst

IInv == TypeOK /\ MapsComplete /\ BurstCounted

\* The map a new run opens with is the one readers already saw.
LEMMA OpeningIsVisible ==
  ASSUME IInv, ~started
  PROVE  Opening = Visible /\ Opening \in Maps
         /\ DOMAIN Defaults \subseteq DOMAIN Opening
<1>1. CASE carried = None
  BY <1>1 DEF IInv, TypeOK, MapsComplete, Opening, Visible
<1>2. CASE carried # None
  <2>1. carried \in Maps /\ DOMAIN Defaults \subseteq DOMAIN carried
    BY <1>2 DEF IInv, TypeOK, MapsComplete
  <2> QED  BY <1>2, <2>1, OverDefaults DEF Opening, Visible
<1> QED  BY <1>1, <1>2

\* The invariant holds at first.
LEMMA InitIInv == Init => IInv
<1> SUFFICES ASSUME Init  PROVE IInv
  OBVIOUS
<1>1. TypeOK
  <2>1. inbox \in Seq(Signals)  BY DEF Init
  <2>2. carried \in Maps \cup {None}  BY DEF Init
  <2>3. scenarios \in Maps  BY DefaultsAssumption DEF Init
  <2>4. started \in BOOLEAN /\ applied \in Nat /\ hist \in Nat  BY DEF Init
  <2> QED  BY <2>1, <2>2, <2>3, <2>4 DEF TypeOK
<1>2. MapsComplete
  BY DEF Init, MapsComplete
<1>3. BurstCounted
  BY LimitsAssumption DEF Init, BurstCounted
<1> QED  BY <1>1, <1>2, <1>3 DEF IInv

\* The two ends of a wake-up, from any complete map.
LEMMA LoopIInv ==
  ASSUME IInv, NEW m \in Maps, DOMAIN Defaults \subseteq DOMAIN m,
         ContinueAsNew(m) \/ KeepWaiting(m)
  PROVE  IInv'
<1>1. CASE ContinueAsNew(m)
  <2>1. TypeOK'
    BY <1>1, DefaultsAssumption DEF ContinueAsNew, IInv, TypeOK
  <2>2. MapsComplete'
    BY <1>1 DEF ContinueAsNew, MapsComplete
  <2>3. BurstCounted'
    BY <1>1, LimitsAssumption DEF ContinueAsNew, BurstCounted, IInv, TypeOK
  <2> QED  BY <2>1, <2>2, <2>3 DEF IInv
<1>2. CASE KeepWaiting(m)
  <2>1. TypeOK'
    BY <1>2 DEF KeepWaiting, IInv, TypeOK
  <2>2. MapsComplete'
    BY <1>2 DEF KeepWaiting, IInv, MapsComplete
  <2>3. BurstCounted'
    BY <1>2, LimitsAssumption
       DEF KeepWaiting, MustContinueAsNew, BurstCounted, IInv, TypeOK
  <2> QED  BY <2>1, <2>2, <2>3 DEF IInv
<1> QED  BY <1>1, <1>2

\* Every step keeps it.
LEMMA NextIInv == IInv /\ [Next]_vars => IInv'
<1> SUFFICES ASSUME IInv, [Next]_vars  PROVE IInv'
  OBVIOUS
<1>1. ASSUME NEW cmd \in Commands, Accept(cmd)  PROVE IInv'
  <2>1. cmd \in Signals  BY CommandsAssumption
  <2>2. inbox \in Seq(Signals) /\ inbox' = Append(inbox, cmd)
    BY <1>1 DEF Accept, IInv, TypeOK
  <2>3. inbox' \in Seq(Signals) /\ Len(inbox') = Len(inbox) + 1
    BY <2>1, <2>2
  <2>4. TypeOK'  BY <1>1, <2>3 DEF Accept, IInv, TypeOK
  <2>5. MapsComplete'  BY <1>1 DEF Accept, IInv, MapsComplete
  <2>6. BurstCounted'
    BY <1>1, <2>2, <2>3, LimitsAssumption DEF Accept, IInv, TypeOK, BurstCounted
  <2> QED  BY <2>4, <2>5, <2>6 DEF IInv
<1>2. CASE HandleSignal
  <2>1. inbox \in Seq(Signals) /\ inbox # <<>>
    BY <1>2 DEF HandleSignal, IInv, TypeOK
  <2>2. Head(inbox) \in Signals /\ Tail(inbox) \in Seq(Signals)
        /\ Len(Tail(inbox)) = Len(inbox) - 1
    BY <2>1
  <2>3. /\ Effect(scenarios, Head(inbox)) \in Maps
        /\ DOMAIN Defaults \subseteq DOMAIN Effect(scenarios, Head(inbox))
    BY <2>2, EffectType DEF IInv, TypeOK, MapsComplete
  <2>4. TypeOK'  BY <1>2, <2>2, <2>3 DEF HandleSignal, IInv, TypeOK
  <2>5. MapsComplete'  BY <1>2, <2>3 DEF HandleSignal, IInv, MapsComplete
  <2>6. BurstCounted'
    BY <1>2, <2>1, <2>2, LimitsAssumption
       DEF HandleSignal, IInv, TypeOK, BurstCounted
  <2> QED  BY <2>4, <2>5, <2>6 DEF IInv
<1>3. CASE Start
  BY <1>3, OpeningIsVisible, LoopIInv DEF Start
<1>4. CASE Wake
  <2>1. scenarios \in Maps /\ DOMAIN Defaults \subseteq DOMAIN scenarios
    BY DEF IInv, TypeOK, MapsComplete
  <2> QED  BY <1>4, <2>1, LoopIInv DEF Wake
<1>5. CASE UNCHANGED vars
  BY <1>5 DEF vars, IInv, TypeOK, MapsComplete, BurstCounted
<1> QED  BY <1>1, <1>2, <1>3, <1>4, <1>5 DEF Next

\* The invariant holds in every behaviour of DemoControlWorkflow.
THEOREM Invariance == Spec => []IInv
BY InitIInv, NextIInv, PTL DEF Spec

\* The variables keep their types, for every set of commands.
THEOREM TypeCorrect == Spec => []TypeOK
<1>1. IInv => TypeOK  BY DEF IInv
<1> QED  BY <1>1, Invariance, PTL

\* control/workflow.py:4-6: the history of a run passes the threshold by at
\* most one burst and one task, for every threshold and every burst.
THEOREM HistoryStaysBounded == Spec => []HistoryBounded
<1>1. IInv => HistoryBounded
  BY LimitsAssumption DEF IInv, TypeOK, BurstCounted, HistoryBounded
<1> QED  BY <1>1, Invariance, PTL

\* No default scenario ever disappears from the map readers see.
THEOREM DefaultsStayPresent == Spec => []DefaultsPresent
<1>1. IInv => DefaultsPresent
  BY DEF IInv, TypeOK, MapsComplete, DefaultsPresent, Visible
<1> QED  BY <1>1, Invariance, PTL

(***************************************************************************)
(* DemoControl implements ScenarioStore.  A handler's step is TakeEffect,  *)
(* or Void in the first task of a run that carries a map; the first task's *)
(* end is FirstTask; continue-as-new is HandOver, and the map readers see  *)
(* does not change with it because OpeningIsVisible.                       *)
(***************************************************************************)
LEMMA StoreInit == Init => Store!Init
BY DEF Init, Store!Init, Visible

\* A handler takes effect, or is void in a first task with a carried map.
LEMMA HandleIsStoreStep ==
  ASSUME IInv, HandleSignal
  PROVE  Store!TakeEffect \/ Store!Void
<1>1. CASE started \/ carried = None
  <2>1. Visible = scenarios /\ Visible' = Effect(scenarios, Head(inbox))
    BY <1>1 DEF HandleSignal, Visible
  <2> QED  BY <2>1 DEF HandleSignal, Store!TakeEffect
<1>2. CASE ~started /\ carried # None
  <2>1. Visible' = Visible  BY <1>2 DEF HandleSignal, Visible
  <2> QED  BY <1>2, <2>1 DEF HandleSignal, Store!Void
<1> QED  BY <1>1, <1>2

\* Continue-as-new does not change the map that readers see.
LEMMA HandOverIsStoreStep ==
  ASSUME IInv, ContinueAsNew(Visible)
  PROVE  Store!HandOver
<1>1. Visible \in Maps
  BY DEF IInv, TypeOK, Visible
<1>2. Visible' = Visible
  BY <1>1, NoneAssumption DEF ContinueAsNew, Visible
<1> QED  BY <1>2 DEF ContinueAsNew, Store!HandOver

\* Every step of demo-control is a step of the store or a stutter there.
LEMMA StoreStep ==
  ASSUME IInv, [Next]_vars
  PROVE  [Store!Next]_(Store!storeVars)
<1>1. ASSUME NEW cmd \in Commands, Accept(cmd)
      PROVE  Store!Accept(cmd)
  BY <1>1 DEF Accept, Store!Accept, Visible
<1>2. CASE HandleSignal
  BY <1>2, HandleIsStoreStep DEF Store!Next
<1>3. CASE Start
  <2>1. Opening = Visible  BY <1>3, OpeningIsVisible DEF Start
  <2>2. CASE ContinueAsNew(Opening)
    BY <2>1, <2>2, HandOverIsStoreStep DEF Store!Next
  <2>3. CASE KeepWaiting(Opening)
    <3>1. Visible' = Visible  BY <2>1, <2>3 DEF KeepWaiting, Visible
    <3>2. Store!FirstTask
      BY <1>3, <2>3, <3>1 DEF Start, KeepWaiting, Store!FirstTask
    <3> QED  BY <3>2 DEF Store!Next
  <2> QED  BY <1>3, <2>2, <2>3 DEF Start
<1>4. CASE Wake
  <2>1. Visible = scenarios  BY <1>4 DEF Wake, Visible
  <2>2. CASE ContinueAsNew(scenarios)
    BY <2>1, <2>2, HandOverIsStoreStep DEF Store!Next
  <2>3. CASE KeepWaiting(scenarios)
    <3>1. Visible' = Visible /\ started' = started /\ inbox' = inbox
      BY <1>4, <2>1, <2>3 DEF Wake, KeepWaiting, Visible
    <3> QED  BY <3>1 DEF Store!storeVars
  <2> QED  BY <1>4, <2>2, <2>3 DEF Wake
<1>5. CASE UNCHANGED vars
  BY <1>5 DEF vars, Store!storeVars, Visible
<1> QED  BY <1>1, <1>2, <1>3, <1>4, <1>5 DEF Next, Store!Next

\* Every accepted command takes effect on the visible map exactly once, whole
\* and in order, across any number of hand-overs, except the ones the first
\* task of a continued run voids.
THEOREM Implementation == Spec => ImplementsStore
<1>1. Init => Store!Init  BY StoreInit
<1>2. IInv /\ [Next]_vars => [Store!Next]_(Store!storeVars)
  BY StoreStep
<1> QED  BY <1>1, <1>2, Invariance, PTL DEF Spec, ImplementsStore, Store!Spec


\* A handler other than reset_all keeps every entry, and every parameter in
\* it: set_scenario and record_action start from the stored entry.
LEMMA EffectKeepsParams ==
  ASSUME NEW m \in Maps, NEW cmd \in Signals, cmd.kind # "reset", NEW n \in DOMAIN m
  PROVE  /\ n \in DOMAIN Effect(m, cmd)
         /\ DOMAIN m[n].params \subseteq DOMAIN Effect(m, cmd)[n].params
<1>1. CASE cmd \in [kind : {"set"}, name : Names, enabled : BOOLEAN, params : Params]
  <2> DEFINE s == [enabled |-> cmd.enabled,
                   params |-> Over(cmd.params, Base(m, cmd.name).params)]
  <2>1. Effect(m, cmd) = Put(m, cmd.name, s)  BY <1>1 DEF Effect, Merge
  <2>2. n = cmd.name => DOMAIN m[n].params \subseteq DOMAIN s.params
    BY DEF Base, Over
  <2> HIDE DEF s
  <2> QED  BY <2>1, <2>2 DEF Put
<1>2. CASE cmd \in [kind : {"record"}, name : Keys, when : Values]
  <2> DEFINE s == [enabled |-> Actions(m).enabled,
                   params |-> Put(Actions(m).params, cmd.name, cmd.when)]
  <2>1. Effect(m, cmd) = Put(m, "_actions", s)  BY <1>2 DEF Effect, Record
  <2>2. n = "_actions" => DOMAIN m[n].params \subseteq DOMAIN s.params
    BY DEF Actions, Put
  <2> HIDE DEF s
  <2> QED  BY <2>1, <2>2 DEF Put
<1> QED  BY <1>1, <1>2 DEF Signals

\* No parameter that readers have seen disappears but by a reset: of the
\* steps of the scenario store, only TakeEffect changes the map.
THEOREM ParamsAreKept == Spec => ParamsKept
<1> DEFINE Kept == \A n \in DOMAIN Visible :
              \/ n \in DOMAIN Visible' /\ DOMAIN Visible[n].params \subseteq DOMAIN Visible'[n].params
              \/ inbox # <<>> /\ Head(inbox).kind = "reset" /\ Visible' = Defaults
<1>1. ASSUME IInv, [Next]_vars  PROVE Kept
  <2>1. [Store!Next]_(Store!storeVars)  BY <1>1, StoreStep
  <2>2. CASE Visible' = Visible  BY <2>2
  <2>3. CASE Store!TakeEffect
    <3> DEFINE cmd == Head(inbox)
               m == Visible
    <3>1. inbox # <<>> /\ Visible' = Effect(m, cmd)  BY <2>3 DEF Store!TakeEffect
    <3>2. cmd \in Signals /\ m \in Maps
      BY <1>1, <3>1 DEF IInv, TypeOK, Visible
    <3> HIDE DEF cmd, m
    <3>3. CASE cmd.kind = "reset"
      BY <3>1, <3>3 DEF Effect, cmd
    <3>4. CASE cmd.kind # "reset"
      <4>1. \A n \in DOMAIN m : /\ n \in DOMAIN Effect(m, cmd)
                                /\ DOMAIN m[n].params \subseteq DOMAIN Effect(m, cmd)[n].params
        BY <3>2, <3>4, EffectKeepsParams
      <4> QED  BY <3>1, <4>1 DEF m
    <3> QED  BY <3>3, <3>4
  <2> QED  BY <2>1, <2>2, <2>3 DEF Store!Next, Store!storeVars, Store!Accept, Store!Void,
                                   Store!FirstTask, Store!HandOver
<1>2. IInv /\ [Next]_vars => [Kept]_vars  BY <1>1
<1> HIDE DEF Kept
<1>3. Spec => [][Kept]_vars  BY <1>2, Invariance, PTL DEF Spec
<1> QED  BY <1>3 DEF ParamsKept, Kept
=============================================================================
