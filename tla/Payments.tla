------------------------------ MODULE Payments ------------------------------
(***************************************************************************)
(* S1 from the page to the payments: the control cache of an order worker  *)
(* (control/cache.py) and authorize_payment (activities/order.py), beside  *)
(* the page and demo-control (Panel).  The refresher runs on the event     *)
(* loop and swaps the map; the activity runs in a thread and reads the map *)
(* twice, so that a swap can come in between.                              *)
(*                                                                         *)
(* One payment is followed at a time; another order begins after it.  Its  *)
(* attempts are counted: the last one that STORM_RETRY allows fails the    *)
(* order for good.                                                         *)
(***************************************************************************)
EXTENDS Panel

CONSTANTS
  Outcomes,    \* Outcomes[p]: what random.random() < p can be
  NotFetched,  \* no answer to the refresher's query
  MaxAttempts, \* STORM_RETRY.maximum_attempts
  MaxCrashes   \* BOUND: restarts of the worker

ASSUME OutcomesAssumption ==
  /\ Outcomes \in [Probs -> (SUBSET BOOLEAN) \ {{}}]
  /\ NotFetched \notin Maps
  /\ MaxAttempts \in Nat \ {0} /\ MaxCrashes \in Nat

VARIABLES
  cache,      \* _scenarios
  fetched,    \* the answer the refresher was given and has yet to store
  refreshes,  \* the refresher task runs
  pay,        \* the payment: "due", "armed" (is_enabled was true), "paid",
              \* "failed"
  tries,      \* its attempts that have failed
  late,       \* HISTORY: failures since the cache has the storm off
  crashes     \* restarts of the worker

cacheVars == <<cache, fetched, refreshes>>
payVars == <<pay, tries>>
vars == <<panelVars, cacheVars, payVars, late, crashes>>

Init ==
  /\ PanelInit
  /\ cache = Default /\ fetched = NotFetched /\ refreshes = TRUE
  /\ pay = "due" /\ tries = 0 /\ late = 0 /\ crashes = 0

-----------------------------------------------------------------------------
(* run_control_refresher.                                                  *)

Fetch ==
  /\ refreshes /\ fetched = NotFetched
  /\ fetched' = store
  /\ UNCHANGED <<panelVars, cache, refreshes, payVars, late, crashes>>

\* Mutant: the exception leaves the loop.
FetchEnds ==
  /\ refreshes /\ fetched = NotFetched /\ failures < MaxFailures
  /\ failures' = failures + 1
  /\ refreshes' = FALSE
  /\ UNCHANGED <<store, copy, answers, posts, cleared, cache, fetched, payVars, late, crashes>>

\* "keep the last known map and try again"
FetchFails ==
  /\ refreshes /\ fetched = NotFetched /\ failures < MaxFailures
  /\ failures' = failures + 1
  /\ UNCHANGED <<store, copy, answers, posts, cleared, cacheVars, payVars, late, crashes>>

\* Mutant: whatever the query gave is stored.
SwapUnchecked ==
  /\ refreshes
  /\ cache' = fetched /\ fetched' = NotFetched
  /\ UNCHANGED <<panelVars, refreshes, payVars, late, crashes>>

Swap ==
  /\ refreshes /\ fetched # NotFetched
  /\ cache' = fetched /\ fetched' = NotFetched
  /\ late' = IF fetched.on THEN 0 ELSE late
  /\ UNCHANGED <<panelVars, refreshes, payVars, crashes>>

-----------------------------------------------------------------------------
(* authorize_payment.                                                      *)

\* An attempt begins: is_enabled.
Attempt ==
  /\ pay = "due"
  /\ pay' = IF cache.on THEN "armed" ELSE "paid"
  /\ UNCHANGED <<panelVars, cacheVars, tries, late, crashes>>

\* An attempt has failed: there is another after a second, unless it was the
\* last.
Retry ==
  /\ tries' = tries + 1
  /\ pay' = IF tries + 1 < MaxAttempts THEN "due" ELSE "failed"

Fails == late' = IF cache.on THEN late ELSE late + 1

\* Mutant: the activity tries again by itself.
DrawLoops ==
  /\ pay = "armed" /\ late < 2
  /\ \/ TRUE \in Outcomes[cache.prob] /\ Fails /\ UNCHANGED payVars
     \/ FALSE \in Outcomes[cache.prob] /\ pay' = "paid" /\ UNCHANGED <<tries, late>>
  /\ UNCHANGED <<panelVars, cacheVars, crashes>>

\* get_params, of the map that is there now, and the draw.
Draw ==
  /\ pay = "armed"
  /\ \/ TRUE \in Outcomes[cache.prob] /\ Retry /\ Fails
     \/ FALSE \in Outcomes[cache.prob] /\ pay' = "paid" /\ UNCHANGED <<tries, late>>
  /\ UNCHANGED <<panelVars, cacheVars, crashes>>

NextOrder ==
  /\ pay \in {"paid", "failed"}
  /\ pay' = "due" /\ tries' = 0 /\ late' = 0
  /\ UNCHANGED <<panelVars, cacheVars, crashes>>

\* The worker is killed and started: the module's map is the default, and
\* an attempt under way has failed by its timeout, before or after it has
\* read the switch.
Restart ==
  /\ crashes < MaxCrashes
  /\ crashes' = crashes + 1
  /\ cache' = Default /\ fetched' = NotFetched /\ refreshes' = TRUE
  /\ \/ pay \in {"due", "armed"} /\ Retry
     \/ pay # "armed" /\ UNCHANGED payVars
  /\ UNCHANGED <<panelVars, late>>

Next ==
  \/ PanelNext /\ UNCHANGED <<cacheVars, payVars, late, crashes>>
  \/ Fetch \/ FetchFails \/ Swap
  \/ Attempt \/ Draw \/ NextOrder
  \/ Restart

\* The page polls and draws; the refresher and the attempts go on.  Nobody
\* has to click, and no request has to arrive.
Fairness ==
  /\ WF_panelVars(Poll) /\ \A m \in Maps : WF_panelVars(Show(m))
  /\ WF_vars(Fetch) /\ WF_vars(Swap)
  /\ WF_vars(Attempt) /\ WF_vars(Draw)

Spec == Init /\ [][Next]_vars /\ Fairness

-----------------------------------------------------------------------------
(* Properties.                                                             *)

\* The types; the page's and the worker's.
TypeOK ==
  /\ PanelTypeOK
  /\ cache \in Maps /\ fetched \in Maps \cup {NotFetched} /\ refreshes \in BOOLEAN
  /\ pay \in {"due", "armed", "paid", "failed"} /\ tries \in 0 .. MaxAttempts
  /\ late \in Nat
  /\ crashes \in 0 .. MaxCrashes

\* When demo-control's map no longer changes, the page and the worker come
\* to have it: no old answer is drawn last, no failed read lasts.
CopiesCatchUp ==
  <>[][UNCHANGED store]_vars => <>[](copy = store /\ cache = store)

\* README.md:220, "recover instantly when you toggle it off": once its
\* worker has the storm off, a payment fails at most once more, which is an
\* attempt that had read the switch before.
RecoversInOneTry == late <= 1

\* common/retry.py:3-6, "effectively never exhaust": the attempts are many,
\* not endless, so a payment comes to its end, storm or not.  And when the
\* storm stays off, it "recovers cleanly": only finitely many fail for good,
\* which were under way when the worker heard of it, and those of all later
\* orders are authorized.
StormEnds ==
  /\ []<>(pay \in {"paid", "failed"})
  /\ <>[](~store.on) => <>[][pay' = "failed" => pay = "failed"]_vars
=============================================================================
