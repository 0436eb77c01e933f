-------------------------------- MODULE Panel --------------------------------
(***************************************************************************)
(* The page (dashboard/static/index.html) and the dashboard it talks to    *)
(* (dashboard/app.py), for one scenario of the map: retry_storm.  The page *)
(* draws a copy of the map, and makes its requests from that copy.  Its    *)
(* requests overlap: a poll every three seconds and one after each click,  *)
(* whose answers come in any order, and the POSTs of clicks that were not  *)
(* waited for.                                                             *)
(*                                                                         *)
(* demo-control itself (DemoControl) is the variable store here.           *)
(***************************************************************************)
EXTENDS Integers, FiniteSets

CONSTANTS
  Probs,        \* failure_probability: of the slider, and the default's
  DefaultProb,
  MaxAnswers,   \* BOUND: answers to polls on their way
  MaxPosts,     \* BOUND: POSTs on their way
  MaxFailures   \* BOUND: reads of demo-control that fail

ASSUME ProbsAssumption == DefaultProb \in Probs
ASSUME PanelBoundsAssumption ==
  MaxAnswers \in Nat /\ MaxPosts \in Nat /\ MaxFailures \in Nat

Maps == [on : BOOLEAN, prob : Probs]
Default == [on |-> FALSE, prob |-> DefaultProb]   \* default_scenarios()
Posts == [kind : {"set"}, to : Maps] \cup {[kind |-> "reset"]}

VARIABLES
  store,     \* demo-control's map
  copy,      \* `state` of the page
  answers,   \* answers of /api/health on their way to the page
  posts,     \* requests on their way to demo-control
  failures,  \* reads that have failed
  cleared    \* HISTORY: RESET took effect, and nobody has switched the
             \* scenario on since

panelVars == <<store, copy, answers, posts, failures, cleared>>

\* An empty `state` is drawn like the defaults.
PanelInit ==
  /\ store \in Maps
  /\ copy = Default
  /\ answers = {} /\ posts = {}
  /\ failures = 0
  /\ cleared = FALSE

-----------------------------------------------------------------------------
(* The page reads.                                                         *)

Answer(m) ==
  /\ Cardinality(answers) < MaxAnswers
  /\ answers' = answers \cup {m}

\* refresh: /api/health queries demo-control.
Poll ==
  /\ Answer(store)
  /\ UNCHANGED <<store, copy, posts, failures, cleared>>

\* The query fails: the dashboard answers with the defaults.
PollFails ==
  /\ failures < MaxFailures
  /\ failures' = failures + 1
  /\ Answer(Default)
  /\ UNCHANGED <<store, copy, posts, cleared>>

\* Mutant: an answer is dropped that does not change the switch.
ShowSwitch(m) ==
  /\ m \in answers
  /\ answers' = answers \ {m}
  /\ copy' = IF m.on = copy.on THEN copy ELSE m
  /\ UNCHANGED <<store, posts, failures, cleared>>

\* The answer arrives and is drawn.
Show(m) ==
  /\ m \in answers
  /\ answers' = answers \ {m}
  /\ copy' = m
  /\ UNCHANGED <<store, posts, failures, cleared>>

-----------------------------------------------------------------------------
(* The page writes.                                                        *)

Post(p) ==
  /\ Cardinality(posts) < MaxPosts
  /\ posts' = posts \cup {p}
  /\ UNCHANGED <<store, copy, answers, failures>>

\* onToggle: what the box now shows, with the parameters of the copy.  The
\* box may have been clicked since it was drawn, so it may show either.
ToggleTo(on) ==
  /\ Post([kind |-> "set", to |-> [copy EXCEPT !.on = on]])
  /\ cleared' = (cleared /\ ~on)

Toggle == \E on \in BOOLEAN : ToggleTo(on)

\* Mutant: moving a slider switches its scenario on.
SlideEnables ==
  /\ \E x \in Probs : Post([kind |-> "set", to |-> [on |-> TRUE, prob |-> x]])
  /\ UNCHANGED cleared

\* onParam: what the slider now shows, with the switch of the copy.
Slide ==
  /\ \E x \in Probs : Post([kind |-> "set", to |-> [copy EXCEPT !.prob = x]])
  /\ UNCHANGED cleared

\* resetAll.
ResetClick == Post([kind |-> "reset"]) /\ UNCHANGED cleared

\* demo-control handles the signal: merge_scenario, where every request of
\* the page brings all parameters, or default_scenarios().
Apply(p) ==
  /\ p \in posts
  /\ posts' = posts \ {p}
  /\ store' = IF p.kind = "set" THEN p.to ELSE Default
  /\ cleared' = (cleared \/ p.kind = "reset")
  /\ UNCHANGED <<copy, answers, failures>>

\* The request fails, or its signal is void (DemoControl.Opening).
Lost(p) ==
  /\ p \in posts
  /\ posts' = posts \ {p}
  /\ UNCHANGED <<store, copy, answers, failures, cleared>>

PanelNext ==
  \/ Poll \/ PollFails
  \/ \E m \in Maps : Show(m)
  \/ Toggle \/ Slide \/ ResetClick
  \/ \E p \in Posts : Apply(p) \/ Lost(p)

PanelSpec == PanelInit /\ [][PanelNext]_panelVars

-----------------------------------------------------------------------------
(* Properties.                                                             *)

\* The types of the page's variables.
PanelTypeOK ==
  /\ store \in Maps /\ copy \in Maps
  /\ answers \subseteq Maps /\ Cardinality(answers) <= MaxAnswers
  /\ posts \subseteq Posts /\ Cardinality(posts) <= MaxPosts
  /\ failures \in 0 .. MaxFailures /\ cleared \in BOOLEAN

\* README.md:351, "The dashboard RESET button signals `reset_all`, disabling
\* every scenario", and 354, tiles "return to green": what RESET has switched
\* off stays off until somebody switches it on.  Not so: a slider that is
\* moved before the page has seen the reset sends the old switch.
ResetSticks == cleared => ~store.on

\* Off in demo-control, in the copy, and in whatever is on its way.
Settled ==
  /\ ~store.on /\ ~copy.on
  /\ \A m \in answers : ~m.on
  /\ \A p \in posts : p.kind = "set" => ~p.to.on

\* What a RESET does guarantee: once the page has drawn it and nothing older
\* is on its way, no slider, failed read, late answer, lost request or click
\* that switches it off brings the scenario back; only one that switches it
\* on does.
OffUntilToggled == [][Settled /\ ~ToggleTo(TRUE) => Settled']_panelVars
=============================================================================
