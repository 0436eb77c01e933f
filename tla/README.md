# Verification of the Warden demo workload

TLA+ specifications of the delivery workload in this repository, the TLC runs
that check them on small instances, and theorems about them that TLAPS checks
for every instance. The workload is a set of Temporal workflows plus three
ordinary processes (generator, dashboard, worker supervisor) around them.

## The system

| Component | Source | State | Operations |
|---|---|---|---|
| demo-control | `control/workflow.py`, `control/schema.py` | the scenario map, a counter, the history length | `set_scenario`, `reset_all`, `record_action`, the query `get_state`, the coroutine with continue-as-new |
| control cache | `control/cache.py` | the last map queried, one per worker | refresh, `is_enabled`, `get_params` |
| generator | `generator.py` | last map, `_degraded_region`, the list of couriers | boot, order, courier, batch, control and keepalive loops |
| dispatch entity, one per region | `workflows/dispatch.py` | pending orders, couriers, degradation, published status | `order_ready`, `courier_available`, `set_degradation`, drain, publish, continue-as-new |
| order | `workflows/order.py`, `activities/order.py` | stage, courier | the saga of ten steps, `courier_assigned`, two timeouts |
| courier shift | `workflows/courier.py` | assignments, `_end`, counters | `location_ping`, `assignment`, `end_shift`, continue-as-new |
| batch, menu, settlement | `workflows/*.py` | local only | run activities and children |
| dashboard | `dashboard/` | client, supervisor | scenario endpoints, S6, S7, health; a page that polls |
| supervisors | `workers/supervisor.py`, `workers/docker_supervisor.py` | a process or container per queue | start, stop, restart, self-heal |

How they interact: the dashboard signals demo-control. The generator and every
worker poll it by query. The generator starts orders (with faults stamped into
their input), regions, shifts and batches, and relays S2 to a region by signal.
An order signals its region and the region signals it back; a shift reports
itself to a region. S6 terminates regions and the keepalive loop relaunches
them. S7 takes the worker of a queue away.

What is hard here: signals that are delivered with the first task of a run, or
while continue-as-new is attempted; handlers that run at every await of a
coroutine; calls whose failure is swallowed; knowledge kept only in the
generator's memory; timeouts that race late answers; workflows terminated at
any await; workers that are absent for a while; decisions taken on a copy (the
page's, the cache's, the generator's, the status of a container) that is old
when they take effect.

### What the models assume of Temporal

The server is not in this repository; its rules are modelled as follows.

- Handlers of the signals delivered with a task run, in order, before the
  coroutine goes on. In the first task of a run they run before `run` begins.
- Between two awaits a coroutine is not interrupted.
- A task that closes the run (return, continue-as-new) is rejected while a
  signal is undelivered, and is tried again with that signal. The actions that
  close a run therefore require an empty inbox.
- A signal to a closed workflow is refused; the caller gets an exception.
- Activities without a limit of attempts are repeated until they complete.
- Queries see the state after the last completed task.

## Modules

| Module | Models |
|---|---|
| `ScenarioStore` | abstract: a map on which accepted commands take effect once and in order, or are void in a fresh run |
| `DemoControl` | demo-control; implements `ScenarioStore` |
| `RegionHealth` | abstract: the degradation, queue and visible status of the regions, as the relay may rely on them |
| `Relay` | operator, `control_loop`, keepalive and crash of the generator over `RegionHealth` |
| `Dispatch` | one region in full; implements `RegionHealth` |
| `Order` | the order saga |
| `Fleet` | `Order` and `Dispatch` joined by their signals |
| `Courier` | the courier shifts |
| `CourierLoop` | `courier_loop` over `Courier` |
| `Supervisor` | the process supervisor and its workers |
| `DockerSupervisor` | the dashboard's calls to docker and the worker containers |
| `Workers` | one deployment of the two, as `SUPERVISOR_MODE` chooses |
| `Batch` | `batch_loop`, batches and their children |
| `Panel` | the page, its requests and the answers it gets |
| `Payments` | `Panel` with a worker's control cache and `authorize_payment` |
| `Filter` | the elements of a sequence that are in a set, for `Dispatch` and `Courier` |
| `FilterProofs` | the laws of `Filter` |
| `DemoControlProofs`, `RelayProofs`, `DispatchProofs`, `FleetProofs`, `CourierProofs`, `WorkersProofs`, `FaultProofs` | the theorems, and the lemmas they rest on |
| `MC...` | values of the constants for TLC |

The chain `Relay` over `RegionHealth`, with `Dispatch` shown to implement
`RegionHealth`, lets the relay be checked with several regions without carrying
the orders along. `ScenarioStore` plays the same part between demo-control and
its readers.

### How state and actions correspond to the code

- **DemoControl.** `inbox` is the server's list of undelivered signals;
  `scenarios` and `applied` are the fields of the workflow; `carried` is the
  argument of `run`; `started` is false until `run` has begun. `HandleSignal` is
  one handler, `Start` the first segment of `run` with its overwriting
  assignment, `Wake` every later one. Commands are merged by `Merge` as in
  `merge_scenario`. A history of `hist` events counts one per signal and three
  per task.
- **Relay.** `want` is entity_history in demo-control, `seen` the generator's
  `_scenarios`, `mem` its `_degraded_region`. `gpc` names the await at which
  `control_loop` stands; each action runs to the next await. A setting carries
  `rate`, false when `int()` would raise on it; then the process goes "down" and
  `Boot` starts it with empty memory. A signal may also be lost (`_safe_signal`
  ignores every error) and the process be killed anywhere (`Crash`); `faults`
  counts both, `restarts` the terminations and hand-overs of regions.
- **Dispatch.** `pc` names the await. One action per segment, from await to
  await, with an empty inbox: `Drain` is what a segment does from the loop of
  `_drain` on. When a continue-as-new is refused, the task is tried again with
  the new signal, so the handler runs first and then the whole segment. `lost`
  records orders that a first task overwrote or that died with a run. History is
  counted in orders: a served one costs about a dozen events.
- **Order.** `place` is the await; `tries` counts failed tries of the current
  activity under `DEFAULT_RETRY` or `STORM_RETRY`. `stage` and `carrier` are the
  search attributes, `settled` the courier the settlement child was given.
- **Courier.** One action per segment, from await to await, with an empty inbox.
  Here handlers that run in a first task keep their effect, because `run` does
  not assign `_assignments` and `_end`. The ping counter is left out.
- **CourierLoop.** `place` is the part of the tick. Every call may fail before
  or after the server has acted, unless `Reliable`. `unstarted` counts the
  replacements whose start failed since the loop began; the code does not keep
  it. Ids of closed and forgotten
  shifts are used again for new ones: they stand for fresh uuids.
- **Supervisor.** `todo` is the rest of the calls the single thread has to make,
  `waits` its `proc.wait(timeout=10)`. A killed process lives on until the
  kernel ends it. A supervisor that dies leaves `orphans`.
- **DockerSupervisor.** `Look` is `_get`, which reads the status into `call.saw`;
  `Stop`, `Start` and `Restart` act on what was read, while the container may
  have crashed or come back. "exited" is docker's mark of a container stopped
  by request, which `unless-stopped` respects also after a reboot of the daemon.
- **Batch.** `want` is demo-control's map, `seen` the generator's copy, `batch`
  the open batches with the mode, size and stamped attribute of their input.
  Places are used again for fresh batches. Whether two scores tie is free
  (`Score`). The code's sort by score is stable, so that the winner at place k
  is the child with k - 1 others `Before` it (`Best`).
- **Panel, Payments.** `answers` and `posts` are HTTP exchanges on their way, in
  no order. `copy`, `cache` and `store` are the three maps, cut down to
  retry_storm. `Attempt` and `Draw` are the two reads of `authorize_payment`;
  `Swap` may come between. `tries` counts the failed attempts of the payment,
  those a restart of the worker cut off included; after `MaxAttempts` of them
  (`maximum_attempts` of `STORM_RETRY`) the payment has failed and the order
  with it. `ToggleTo` sends what the page's checkbox shows, which may be the
  state the copy has already. A probability is what its draw can be (`Outcomes`).
  `Lost` stands for a failed request, and for a signal that demo-control voids.

## Runs

| Run | Result | Question |
|---|---|---|
| `control` | pass | Does demo-control bound its history, keep what readers rely on, and implement the store? |
| `relay` | pass | Is the degraded region the remembered one, but for one per failure? Is it healed after RESET until something fails? Does a setting that stays on take effect through crashes and lost signals? |
| `relay_heal` | violated | Does RESET still heal when the generator can crash on a bad parameter? |
| `dispatch` | pass | Is every order answered once and in order, the status published, history shed? Is it a `RegionHealth`? |
| `fleet` | pass | Does every order close, with a courier that is its own? |
| `courier` | pass | Do shifts carry out their assignments and hand over? Does every retired shift leave a replacement, unless the start of it failed? Where can an `end_shift` be lost? |
| `courier_end` | violated | Does a shift that accepted `end_shift` end? |
| `workers` | pass | One worker per queue, self-healing in both deployments, kills that hold, nothing left behind after shutdown? |
| `worker_stop` | violated | Does every killed container stay down? |
| `batch` | pass | Do batches start what they are stamped with, choose the best, close, and get healthy after S3 and S8? |
| `payments` | pass | Can anything but its switch bring a scenario back? Do the copies of the map catch up, does a payment recover in one attempt? Does every payment end, authorized or failed for good, and do none fail any more some time after the storm has ended? |
| `reset_sticks` | violated | Does what RESET switched off stay off until somebody switches it on? |

### Bounds, and why they are enough

- `control`: two parameters, two values, bursts of three, limits of three
  signals and nine events. A burst can meet either limit, alone and together,
  and several hand-overs fit in a behaviour. The map has a scenario of the
  defaults, one outside them and `_actions`.
- `relay`: two regions (a target and a previous one), queues of two signals (an
  order and its reset in flight), a termination or hand-over, and a lost signal
  or crash of the generator. `relay_heal` leaves both out, so that the null rate
  is the only thing that can stop the generator there. `RelayProofs` removes
  all bounds for the safety properties: what a second failure leaves behind, in
  a third region, is proved and not run.
- `dispatch`: two orders and two couriers (an order may get a real or an invented
  one, and a hand-over that carries one of the couriers drops the other),
  hand-over after two orders or a history of more than one, two health flips (on
  and off) and a termination. The code's figures are about twelve
  events per order, 1500 and 2000.
- `fleet`: two orders, one courier, one termination, one or two tries per
  activity. A degradation is not needed: it delays answers and hand-overs, which
  are arbitrarily late here anyway.
- `courier`: two ids and a fleet of two (oldest and newest differ; a lost call
  turns one into an orphan), a signal in flight per shift, two assignments per
  shift (order matters), hand-over beyond one unit of history. A retirement on
  every tick makes lifetimes short; orphans and terminated couriers occur.
  `courier_end` has a fleet of one, a retirement every second tick, and no
  failure at all. Closed shifts use up the two ids there once one is stuck,
  hence no deadlock check.
- `workers`: two queues and three processes, so that a second worker for a
  queue or an orphan has room. Nothing of the containers is bounded.
- `batch`: two batches at a time; a storm of four children (one beyond the three
  winners) with ties among the scores; healthy sizes within and beyond a
  `NORMAL_MAX_CHILDREN` of two; a null, a negative size, and both scenarios at
  once. Crashes are not bounded.
- `payments`, `reset_sticks`: a probability that always fails and one that may
  pass; two answers that can overtake each other and one request on its way; one
  failed read of demo-control, by either reader; one restart of the worker; two
  attempts per payment, so that a payment fails for good, by two injected
  failures or by one and a restart, and also recovers with its last attempt. A
  single request is enough for a slider to be stale; `FaultProofs` removes the
  bounds for the safety properties.

`dispatch`, `fleet` and the runs on them switch the deadlock check off: when all
orders are sent and the bounded flips and terminations are used up, a region
waits for work that does not come.

### Fairness

Only what the deployment keeps going is fair. Workers poll their queues: docker
restarts them and the dashboard starts stopped ones, so handlers and segments
are weakly fair. The generator's loops go on: each call has a timeout, and a
query does not fail for ever (strong fairness of `RefreshOk`). The keepalive
loop relaunches a region that stays closed. Segments of a shift are strongly
fair, because pings come 15 seconds apart while a task takes milliseconds.
Nothing is asked of the operator, of terminations, or of the region in `Fleet`:
orders must close without it. In `Supervisor` the thread and the kernel are
fair; nobody has to shut down or start a supervisor, and a worker may hang.
Docker revives what its policy tells it to. In `Batch` the workers of `batch-tq`
work and the generator is restarted when it ends (`unless-stopped`). In
`Payments` the page polls and draws, the refresher goes on, attempts are
repeated while the retry policy has any left; that reads of demo-control stop
failing is the bound on `failures`.

### What the violated runs show

1. `relay_heal`: a rate of `null` (a cleared number input on the page) raises in
   `generator.py:311`; the process ends and with it the memory of the degraded
   region, which then stays degraded after RESET.
2. `courier_end`: `end_shift` handled during an assignment is forgotten by a
   continue-as-new that follows it.
3. `worker_stop`: a kill that finds its container waiting for docker to restart
   it does nothing, and the worker comes back (`docker_supervisor.py:38`).
4. `reset_sticks`: a slider moved after a RESET, before the page has polled
   again, sends the old switch (`index.html:203`) and undoes the reset.

Each promise is checked in a passing run as well, with the case that breaks it
taken out: what the page sends as long as the rate is a number (`relay`), shifts
that are replaced (`courier`), kills of containers that run (`workers`), storms
that stay off (`payments`). Three properties, which are proved as well, say how
far the damage goes. `EndIsKept`: the hand-over after a report is the only place
where an accepted `end_shift` is lost. `OffUntilToggled`: once the page has
drawn the reset and nothing older is on its way, only the switch brings a
scenario back. `Remembered`: each death of the generator, and each signal it
loses, leaves at most one region behind.

Three more properties of the code are worth knowing; passing runs state exactly
how far they go. A RESET that reaches demo-control together with the first task
of a run is void (`control/workflow.py:35-40`; `Void` in `ScenarioStore`, and
`Lost` in `Panel`). `_drain` does not look at the history while it works off a
backlog, so that the threshold of `dispatch.py` is where a hand-over becomes due
and no bound (`ShedsHistory`). An answer of the region after the timeout of an
order replaces the courier after `CourierId` was published
(`CarrierChangesOnlyAfterFallback` in `Fleet`).

## Theorems

TLAPS checks all of them, for every value of the constants that satisfies the
assumptions named in the modules. Those assumptions give the bounds their types
and keep the values that stand for "nobody" or "none" out of the sets of real
ones; `SupervisorAssumption` also says that the queues are finitely many and at
least one, as `ALL_TASK_QUEUES` is, because `start_all` goes through them one
after the other, and `RegionAssumption` passes the bounds of a region on to
`Fleet`. TLC evaluates each of them in a run.

Every invariant that a passing run checks has a theorem, and so have the five
action and refinement properties that need no fairness (`ParamsKept`,
`ImplementsStore`, `ImplementsRegionHealth`, `EndIsKept`, `OffUntilToggled`).
Three more invariants are proved and in no run by themselves: `DefaultsPresent`
(`ParamsKept` and the first map imply it), `SingleTarget` (`Remembered` implies
it) and `TypeOK` of `Dispatch`, which `TypeOK` of `Fleet` includes.

| Theorem | Property | Inductive invariant |
|---|---|---|
| `DemoControlProofs!TypeCorrect`, `HistoryStaysBounded`, `DefaultsStayPresent` | `TypeOK`, `HistoryBounded`; `DefaultsPresent` | `IInv` |
| `DemoControlProofs!Implementation`, `ParamsAreKept` | `ImplementsStore`, `ParamsKept` | `IInv` |
| `RelayProofs!TypeCorrect`, `OneTarget`, `MemoryCoversTargets` | `TypeOK`, `SingleTarget`, `Remembered` | `TypeOK`; `IInv` |
| `DispatchProofs!TypeCorrect` | `TypeOK` | `Types` |
| `DispatchProofs!EachOrderOnce` | `EachOrderOnceInOrder` | `Types`, `OrdersInv` |
| `DispatchProofs!CourierServesOneOrder` | `CourierServesOnce` | `Types`, `SharesInv` |
| `DispatchProofs!RefinesRegionHealth` | `ImplementsRegionHealth` | `Types` |
| `FleetProofs!TypeCorrect`, `CourierIsRight`, `CourierPaidOnce`, `CarrierIsWhoIsPaid` | `TypeOK`, `RightCourier`, `PaidOnce`, `CarrierChangesOnlyAfterFallback` | `FleetInv` |
| `FleetProofs!RegionIsDispatch`, `RegionIsHealthy` | the region beside the orders | none |
| `CourierProofs!TypeCorrect`, `AssignmentsAreInOrder`, `TheFleetGoesOn` | `TypeOK`, `AssignmentsInOrder`, `FleetGoesOn` | `CourierInv` |
| `CourierProofs!EndIsLostThereOnly` | `EndIsKept` | `CourierInv` |
| `CourierProofs!FleetIsAccounted` | `FleetAccounted`, hence the first part of `EveryShiftIsReplaced` | `CourierInv` |
| `WorkersProofs!TypeCorrect`, `OneWorker`, `KillsHold` | `WorkersTypeOK`, `OneWorkerPerQueue`, `KillHolds` | `WorkersInv` |
| `FaultProofs!TypeCorrect`, `Recovery`, `OffStaysOff` | `TypeOK`, `RecoversInOneTry`, `OffUntilToggled` | `IInv` |
| `FaultProofs!BatchTypeCorrect`, `BatchesAreRight` | `BatchTypeOK`, `ResultIsRight` | `BatchInv` |
| `FaultProofs!BestIsBest` | the winners of any finite set of children | none |

- **DemoControlProofs.** `IInv` joins `TypeOK` with a bound that is inductive:
  while a run is fresh or waits, its history exceeds the threshold by no more
  than what the burst so far explains, and the carried map, which a fresh run
  will open with, has all default scenarios. `TypeOK`, `HistoryBounded` and
  `DefaultsPresent` follow from it. `Implementation` shows that every step of
  demo-control is a step of `ScenarioStore` or leaves its variables unchanged;
  a hand-over maps to the store's hand-over because the visible map of a
  fresh run is the carried one. `ParamsAreKept` uses that refinement: of the
  store's steps only `TakeEffect` changes the map, so that it is enough to look
  at the four commands and not at hand-overs and first tasks.
- **RelayProofs.** `TypeCorrect` needs no assumption. The other two assume
  `OrdinaryUse`: both flags set and a proper rate, which is what the page sends
  as long as its number inputs are not cleared (the first violated run shows what happens else).
  Neither `Remembered` nor `SingleTarget` is inductive, since the reset of the
  old region and the order to the new one are separate steps, and a dead
  generator has lost its memory before `Boot` clears it. `Kept` therefore names,
  for each place of the loop, the one region that may be degraded without a
  failure, and `StrayCounted` bounds all others by the failures so far: a crash
  turns the kept region into a stray, a lost reset leaves the old one as a stray,
  and no other step makes any. The rest of `IInv` is what a reset rests on: a
  region in its first task, which voids it, was healthy already. Nothing bounds
  the regions, the queues or the failures.
- **FilterProofs.** What a region or a shift still has to do is in its inbox,
  between messages of other kinds. `Only(s, S)` filters a sequence by a set and
  `Bodies` takes what the messages carry; both are a recursive function at
  bottom. The library's induction theorems take an operator as a parameter, so
  `Induction` and `SeqInduction` restate them with a set in its place, from the
  least element of the complement, and the laws of the filter (`OnlyConcat`,
  `OnlyTwice`, `OnlyDrop`, `OnlyDistinct`, ...) are proved with them.
- **DispatchProofs.** `EachOrderOnceInOrder` says that the orders sent and not
  lost are, in their order, the answered ones, the one with the activity, the
  pending ones and those in the inbox: one `Line`. A handler, a drain, an
  answer and a hand-over move an order from one part to the next, which leaves
  the line as it is (`SameLine`). A termination and a first task that voids
  what its handlers did take a part out of the middle and add it to `lost`
  (`LeaveLine`). For the latter the line must have no order twice, which is why
  `OrdersInv` adds that `sent` is distinct. `CourierServesOnce` is not
  inductive: nothing in it excludes that a shift which has served waits in the
  pool. `SharesInv` says that the shifts that have served, the one in hand, the
  pool and the offers in the inbox are distinct, and that each has announced
  itself, so that a new announcement is new to the line. Continue-as-new drops
  the front of the pool (the last fifty go on). `RefinesRegionHealth` maps each
  action to one of `RegionHealth` or to a stutter: a handler of
  `set_degradation` is `Take`, in a first task `Void`; the abstract `Begin` is
  the first segment of `run`, and of the other segments one that ends in
  `ContinueAsNew` is `HandOver`, which requires that the region is not suspended,
  and one that changes the status is `Publish` (`DrainHealth`).
- **FleetProofs.** A step of the fleet is a step of the region, or leaves the
  region's variables alone (`RegionMoves`), hence everything proved of a region
  holds beside the orders (`RegionIsDispatch`), `ImplementsRegionHealth`
  included (`RegionIsHealthy`), on which `Relay` rests. `Carried` relates an
  order to the region's answers: whom it holds, what waits in its mailbox, whom
  it was settled with, and how the published carrier relates to both. That a
  late answer may replace the fallback but no courier needs
  `EachOrderOnceInOrder` (an order has one answer); `PaidOnce` needs
  `CourierServesOnce`.
- **CourierProofs.** The list of an open shift and the offers in its inbox are
  the interval of numbers after the last one taken (`InOrder`); a shift that is
  closed has nothing left, so that a start under an old id begins clean.
  `FleetGoesOn` speaks of open shifts only and is not inductive: `NoneToldToEnd`
  extends it to all remembered ones. It is kept because a new courier takes an
  id that is closed, the retired one is forgotten before its `end_shift` is
  sent, and no one else sends it. `EndIsLostThereOnly` compares each segment of a
  shift before and after: `_end` and an `end_shift` in the inbox survive all of
  them but one (`ToldStays`).
- **WorkersProofs.** `Supervised` adds that a supervisor that is gone has no
  calls to make; with `OneWorkerPerQueue`, which says that a live worker is the
  remembered one, it is inductive: `start` replaces what is remembered only
  when `poll` has found it dead. `Contained` is `KillHolds` with the types: a
  call acts on the container it has read, and no step other than a call brings
  back one that is down on request.
- **FaultProofs** (S1, S3 and S8). `RecoversInOneTry` needs `ArmedIsFirst`: an
  attempt is only armed by a map with the storm on, and such a map has cleared
  the count, so that at most the one attempt under way at the swap fails late.
  `OffStaysOff` looks at the page's requests one by one: all of them copy the
  switch but the toggle. `ResultIsRight` follows from `BatchInv`, where `Sound`
  says of each place of a batch which children it has and which are done; a
  batch whose number the page made negative has none. That the winners exist
  is `BestIsBest`: the rank of a child, how many come before it, differs from
  child to child (`RankIsUnique`) and is below their number (`RankInRange`), so
  that every rank is taken, because an injection between finite sets of one size
  is onto (`EveryRankIsTaken`). Counting takes the place of an induction over a
  sort. `ScoreAssumption` says only that a child that can be started has a score.

What stays with TLC: the properties that need fairness (`HandsOver`,
`ResetHeals`, `TakesEffect`, `OrdersAnswered`, `ShedsHistory`, `FlipPublished`,
`EveryOrderCloses`, `EveryShiftIsReplaced` beyond its first part,
`ShiftKeepsUp`, `FleetSelfHeals`, `ShutDownStopsAll`, `EveryBatchCloses`,
`StormDrains`, `CopiesCatchUp`, `StormEnds`), since the prover knows neither
fairness nor ENABLED. The four violated properties have no theorem, as they do
not hold.

## Plan

In order:

1. demo-control, its store and its proofs (done).
2. S2: regions, relay, and its proofs (done).
3. Dispatch and its refinement of `RegionHealth`, orders, their composition (done).
4. Courier shifts and the courier loop; the process supervisor (done).
5. The control cache and its torn reads in `authorize_payment`; the page's
   polled copy of the map against RESET (done).
6. Docker supervisor (done).
7. Batch fan-out: stamped sizes, lost children, aggregation (done).
8. Proofs: the orders and shifts of a region and its refinement of
   `RegionHealth`; the fleet; the courier shifts and their loop; both
   supervisors; `ParamsKept` (done).
9. Proofs: the batches and their winners; the relay under any number of
   failures; where an `end_shift` is lost; a switch that stays off (done).
10. Left: that the relay's regions may be those of `Fleet`, as a composition of
    `RegionIsHealthy` with `RelayProofs`; what the region still owes an order
    whose saga has timed out.

## Not modelled

Menu sync and settlement are single actors that run activities one after the
other and take no signals. The response of `terminate_dispatch` and the
estimated APS of `health` are only displayed. Configuration, the connection,
constants, the worker registry, search-attribute registration and the scripts
hold no state of the system. Rates, prices, deadlines, jitter and the wording of
attributes are data that no property tells apart. `record_action` is modelled
although nothing in the repository calls it.

## Running

    tlc -workers 2 -config MCRelay.cfg MCRelay.tla
    tlapm RelayProofs.tla

`PROJECT.json` lists every run with its configuration, the source lines each
definition models, the mutation that shows each property can fail, and the
hazards of the code with the properties that cover them.
