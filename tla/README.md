# A verification model of the BESS ecosystem

The repository controls a battery energy storage system: an **edge** node beside
the battery (Python, asyncio, SQLite, paho-mqtt) that plans a day's dispatch from
day-ahead prices and reports upward, and a **cloud** (FastAPI, InfluxDB, Mosquitto,
aiomqtt) that fetches real prices, relays operator commands and keeps the history.
This directory holds TLA+ modules for the parts whose behaviour is hard to test,
the TLC configurations that check them, and proofs that TLAPS checks.
Paths below are relative to `src/`.

## 1. Inventory

| component | state it keeps | operations | hard behaviour | what makes it correct |
|---|---|---|---|---|
| `edge/src/mqtt/buffer.py` MQTTBuffer | SQLite rows, undelivered or delivered | enqueue, mark_delivered, iter_pending, purge | capacity limit, age purge, ids of rows long gone | bounded backlog, QoS 1 never gives way to telemetry, ids never reused |
| `edge/src/mqtt/client.py` EdgeMQTTClient | `_connected`, `_inflight`, the monitor's `was_connected`, a replay's snapshot | publish, reconnect monitor, replay, four paho callbacks | two threads, PUBACK against registration, reconnects between polls, crashes | a QoS 1 message is kept until the broker has it, and gets there |
| `edge/src/control/fallback.py` FallbackController | up to three dated schedules, in memory and in a JSON file | save, prune, persist, load, current action, default action | three writers, pruning, torn file, rules that sell without a plan | today's plan is never lost while in use; the default sells no pack empty |
| `edge/src/market_data/dam_client.py` DAMClient | 30-minute price cache | get_prices: cache, stored curve, fetch, fallback | the fetch is a suspension; stale cache | exact prices win over estimates |
| `edge/src/main.py` EdgeOrchestrator | override deadline, retry stamps, last fault code | sensor, schedule, market and status loops; schedule, command and market downlinks | check before an await and act after it; restarts; failed rounds | the plan of the day is the best known; overrides hold; the plant follows the plan; faults are reported on change |
| `edge/src/control/optimizer.py` | none | MILP, greedy fallback | numeric edges of the SoC window, a plan made from a stale level | a plan respects the battery window, can be carried out, leaves a reserve |
| `edge/src/sensors/emulator.py` | SoC, mode with deadline, grid outages, fault bits | tick, set_mode, restore, forecast | clamps within a step, deadlines | SoC stays in its window, fault bits are current |
| `edge/src/db/sqlite_store.py` | telemetry, events, `dam_prices` | inserts, queries | none of its own | - |
| `edge/src/api/app.py` | none | status, history, command | none of its own | - |
| `cloud/api/src/mqtt_subscriber.py` | connection, `last_acks` | connect, consume, dispatch, publish | reconnects, late or replayed messages, a publish of unknown outcome | what lasts comes to be on record, the retained message is the latest curve |
| `cloud/api/src/router.py` | none | command, schedule push, queries | edge offline, concurrent requests with one client identifier | a queued command gets its verdict |
| `cloud/api/src/main.py` | fetched and pushed dates | market fetch loop, backfill task | retained message, retries, restarts | the edge learns each day's prices |
| `cloud/api/src/market_fetcher.py` | none | headless-browser scrape | pure I/O | - |
| `cloud/api/src/history.py` | points in InfluxDB | backfill of gaps, forward projection, purge of overlaps | late real data, concurrent schedules | synthetic points never shadow real ones |
| `cloud/api/src/influx_writer.py` | InfluxDB client | write, delete, query | overwrite by key, failures that look like answers | - |
| `shared/`, broker, Grafana, `ops/` | - | names, configuration, scripts | - | - |

How they interact: the edge's loops call `EdgeMQTTClient.publish`, which writes the
buffer and hands messages to paho's network thread; the broker passes them to the
cloud subscriber, which writes InfluxDB. Downlinks (`schedule`, `cmd`, `market`)
reach `_handle_downlink` on paho's thread, which moves them to the edge's event
loop. The cloud's market loop publishes each day's curve retained. On the edge the
schedule loop sets the hourly action on the emulator once a minute and the sensor loop
ticks it every ten seconds; the optimizer starts from the level that was stored last.

## 2. Modules

**`MQTTBuffer`** is the SQLite table: a row is its AUTOINCREMENT id, `pending` and
`settled` are the values of the `delivered` column, `evicted` and `purged` remember what was
deleted undelivered and delivered. Every coroutine holds the asyncio lock and suspends nowhere inside
it, so one operation is one action. `IsOverflow` says which rows the two DELETE ...
ORDER BY id LIMIT statements of `_maybe_purge` take, including the row just inserted.

**`AtLeastOnce`** is what the buffer's docstring promises for QoS 1 and nothing else:
kept until received, the oldest given up when there is no room; and, as `Delivers`, that what
is kept is received or given up in the end. `EdgeUplink` has the first for certain and the second
only while its monitor sees every outage.

**`EdgeUplink`** extends `MQTTBuffer` with the client, paho and the broker. The event
loop changes task only at a suspension; paho's thread may run anywhere: `at` is the
loop's position between two statements that the other thread can separate
(`handoff`: about to test `_connected` and call paho; `register`: paho has returned a
message id that `_inflight` does not hold yet; `store`, `fetch`). `KeepsPromise` is the
refinement of `AtLeastOnce` under `kept <- pending \cap urgent`.

**`MCEdgeUplink`** gives TLC the symmetry of the message ids.

**`EdgePlanner`** is the way from prices to what the emulator is told: a plan is
abstracted to the origin of its prices (`real`, `estimate`, `operator`). The only
suspension of a computation is the HTTP fetch, so `SchedFetch`/`SchedFetched` and
`MarketFetch`/`MarketFetched` are pairs and everything else is one action. An attempt at a plan, a push
and a pushed schedule may end in an exception (`Compute`, `Store`): before the plan is
saved, or when its file is written, which then is as before or torn. What the handler has
done by then stays done: the attempt is stamped, the prices are cached. `failures` counts.

**`HistoryBackfill`** is the past half of the cloud's hourly pass: `_purge_synthetic_overlaps`,
`_missing_hours`, `_prices_for`, `_replay_day` and the price retry of `ensure_history`.
Every database call is an await, hence a step of its own; `at` is the await, `todo` and
`tick` the loop's place. Telemetry arrives between any two steps: at once, late from
the edge's buffer, or never. `Call(ok)` is a call of `InfluxWriter`: every one of them
catches its exceptions, so a failed write writes nothing and a failed query answers with
no rows. A synthetic point either replaces one at the same instant (same tags) or makes
a second series beside it: `doubled`.

**`ForwardProjection`** is the future half, `_ensure_forward`: for each day of the horizon
a lookup, prices, an optimization, and up to five writes, while the edge publishes its
own schedules. `fc` is what a day's projection follows, `part` while its points are
only partly there, `mixed` when the old points could not be deleted and stand beside the
new ones as series of their own. `misled` is history: the lookup of the day in hand has failed,
or the device's schedule of that day has come in since. The several lookups of a day are one
step: what they read is written by the pass itself, but for the device's schedule, and that coming between two of
them is as if it had come before or after all of them (the module says why).

**`MarketPush`** is the way of tomorrow's curve: the once-a-minute loop of the cloud with its
`fetched`, `pushed` and retry stamps, the publish whose outcome may be unknown, the one
retained message of the topic, and the edge that takes it when it connects. The edge's
handling of one message is a step here; `EdgePlanner` has its interleavings.

**`Emulator`** is the plant: level, mode with its deadline, grid, fault bits. Energy is in
pack units as it enters or leaves the pack, so the two efficiencies show as two step sizes
for one inverter power. One tick stands for all of the code's ten-second ticks of a stretch
with one set-point. What generation and load leave is an input (`surplus`), and a tick may
leak a unit (self-discharge) or meet an outage.

**`Optimizer`** is the way from prices to 24 hourly actions, as operators: the constraints
the solver is given (`Feasible`), the translation of its solution (`SlotAction`), greedy's
ranking and its simulated pack (`GreedyCourse`, a recursive function), and the rules of the
default action. Any feasible plan may be the solver's: CBC is external and may stop at its
time limit with any of them, so nothing proved here depends on the objective.

**`PlantDay`** extends both and adds the loops of `EdgeOrchestrator` between them: plan for
today (from the hour that has begun) and for tomorrow (with the level of the afternoon),
schedule loop, sensor loop, commands, midnight, restart. `source`, `adrift` and `slack` are
history: who decided the action in force, whether the plant still follows the plan, and how
far off the plan it was when that came into force. **`MCPlantDay`** gives it values.

**`OperatorView`** is what an operator at the cloud can do and see: the command endpoint, the
broker, the edge's downlink handler and fault reports, the subscriber and the writer behind
it. Uplinks go through `AtLeastOnce` by INSTANCE, the specification that `EdgeUplink` implements:
none is lost, an older one may overtake a newer one, any may come twice. So the composition
rests on the refinement theorem of the uplink and does not repeat its threads. A message
crosses only while the edge is connected (`edgeUp`); `unseen` remembers that the monitor missed an
outage, after which nothing need cross any more. A handler may raise once it has applied a command
(`CommandFails`, `botched`), and a report once its row is in the table (`FaultReportFails`, `forgot`).
Commands the edge would reject are refused by the router's own check and never posted.

**`MQTTBufferProofs`**, **`EdgeUplinkProofs`**, **`EdgePlannerProofs`**, **`HistoryBackfillProofs`**,
**`ForwardProjectionProofs`**, **`MarketPushProofs`**, **`PlantDayProofs`** and **`OperatorViewProofs`**
hold the theorems.

What composes: `EdgeUplink` extends `MQTTBuffer` and uses its operations as parts of its
own actions, and implements `AtLeastOnce`, on which `OperatorView` builds; `PlantDay` extends
`Optimizer` extends `Emulator`. The cloud modules share the ideas of price source and stored
schedule and are checked one by one: what one does to another's state appears there as an
environment action (`EdgeSchedule`, `Telemetry`, the `MarketPush` action of `EdgePlanner`).
`EdgePlanner` and `PlantDay` divide the orchestrator: the first has where plans come from and
how they are stored, the second what a plan does to the plant.

## 3. Runs

| run | bounds | what it shows |
|---|---|---|
| `uplink_safety` | 3 rows, room for 2, 2 message ids, batches of 2, 1 outage and 1 crash at any moment | types, acknowledgement trail, bounded backlog, priority of QoS 1, ids never back, and the refinement of `AtLeastOnce` |
| `uplink_live` | 2 rows, batches of 1, 1 outage that lasts until a poll sees it, 1 crash | nothing is in nobody's hands after a replay; messages of both kinds leave the disk |
| `uplink_unseen` | the same, batches of 2, the outage may fall between two polls, no crash | delivery fails (finding) |
| `planner` | 3 days, 2 stored plans, operators one day ahead, 1 crash, 1 exception | real plans and today's plan are kept, stored curves win, overrides hold, every day gets a plan |
| `planner_race` | 2 days, a push or midnight during a fetch, no exception | a real plan is overwritten (finding) |
| `backfill` | 3 hours on 2 days, 2 points per hour, 1 abandoned pass or failed call | nothing ahead of the clock, no only record lost, real data wins, parallel series go, gaps close, prices are upgraded, a replayed day has a plan |
| `backfill_blind` | the same | a failed query leads to synthetic points over real ones (finding) |
| `forward` | 2 dates of today, horizon of 2 days, near term of 1, 1 trouble | only a device's plan that comes in mid-day or goes unfound is overwritten, no blank day, the projection follows the device, static prices give way |
| `push` | 3 days, 2 cuts of either link, 1 restart of the cloud | what is retained is the latest, tomorrow's curve gets to the edge |
| `push_back` | 2 days, a failure while two dates are to be pushed | the retained message goes back a day (finding) |
| `plant` | 2 days of 3 hours of 2 ticks, pack of 8 units, 1 plan a day, 2 disturbances | the pack stays in its window and on its plan, the default sells no pack empty, tomorrow can be planned |
| `operator` | 2 commands, 2 fault changes, 5 messages, buffer of 2, 1 disturbance | a fault code that lasts comes to be on record, a queued command gets its verdict |

### 3.1 Bounds

Three rows with room for two is the
least that overflows with a choice of what to discard, and that lets a message id be
used again while an older entry of `_inflight` is still there; the
restart is a second loss of the connection, so one of the two can fall into the replay
after the other. For any number of outages, crashes, rows and ids the theorems stand in.
Two stored plans of three days and
operators one day ahead is the boundary case of `_prune` (the code's three stored plans
and two days ahead). One exception is enough for an attempt that fails and must be made again, a
push that is not planned with, or a file that lags behind a crash; the curves and cached
prices of a day that is over are dropped from the model at midnight, since nobody asks for them
again. Hours 0, 1 and 2 with two hours
to a day have a past hour of the same day, a past day and a midnight within a pass; two
points per hour make a half-filled hour. In `forward` the horizon moves over midnight
once and has a day of each kind, near and far. `MarketPush` needs three days so that
a date is forgotten while another is to be pushed.

In `plant` a disturbance (`MaxTrouble`) is a leak, the start of an outage, a reading that is
not stored, a failed round of the schedule loop, a command, or a restart: two of them in any
places, among them the pairs a test would not think of (a lost reading and then a restart).
The window 1 to 7 of 0 to 8 leaves room for a leak at either end; charging a unit and
discharging two per tick makes the two limits different; a terminal reserve of 4 with four
units of throughput is out of reach from below; three local hours, one of each kind, and a
clock that is an hour off UTC, exercise every rule of the default action. 61 minutes' hold of a
planned action is `TicksPerHour` ticks: to the end of the hour if nobody renews it. Abstracted
away: the 0.1 kW below which a slot counts as idle, the rounding of percentages to one
decimal, which is finer than a unit, and the clamp of a tick's length to 0.1 to 60 s
(`emulator.py:163-166`): after the host was suspended the code integrates 60 s of the gap, so the plant lags
behind the clock there, and `PlanHolds` says nothing of such a gap. In `operator` two of each is the
least that can be overtaken; a disturbance (`MaxTrouble`) is an outage, a restart, a request or
a handler that fails, a failed report, or a point that InfluxDB refuses. Five messages are all that these
can make: two verdicts, two reports and one made twice.

`CHECK_DEADLOCK FALSE` in `plant` and `operator`: the bounded days, commands and changes run out.

### 3.2 Fairness

- `EdgeUplink`: weak fairness of the running coroutine's steps and of paho's thread and
  the broker; strong fairness for what the event loop does when it is free (`PollConnected`,
  `PollDisconnected`, `ReplayWake`, `RunMark`), because asyncio runs ready tasks in turn,
  so none waits forever while the loop is free again and again. Nothing forces a
  publication, an outage or a crash, and those are bounded.
- `EdgePlanner`: both loops poll forever, the fetch has a timeout, the retry stamp is 300 s.
  `SchedFromKnown` and `SchedFetch` are strong: in each period the loop's body reaches them
  unless the day has its plan. Exceptions are bounded by `MaxFailures`: a failure that persists
  leaves the day on the default rules, which is what the code intends.
- `HistoryBackfill`, `ForwardProjection`: the task starts its next pass after
  `BACKFILL_INTERVAL_S`, and calls return or are abandoned. `RetrySucceeds` and `RealPrices`
  are strong: a page that is asked for again and again is there one day. That is an
  assumption about the price exchange's site, not about the code.
- `MarketPush`: the same assumption for `FetchSucceeds`; aiomqtt's and paho's reconnect
  loops for `CloudConnects` and `EdgeConnects`. `TomorrowReachesEdge` lets the day end.
- `OperatorView`: a command that has come to the edge is handled, a tick finds that the code
  changed and reports it, paho reconnects the edge, and a kept message is received over a
  connection that holds as long as no outage has gone unseen. The last is `AtLeastOnce!Delivers` under the
  condition under which `EdgeUplink` has it: `uplink_live` checks it (`EventuallyReceived`) where every outage is
  seen, `uplink_unseen` refutes it where one is not, and `unseen` is cleared by a restart only, because a new
  process replays all that is left. Nobody has to post, and the subscriber need not
  come back.
- `PlantDay` has safety properties only.

### 3.3 What the runs found

The first four are runs of their own, in PROJECT.json with both lines.

1. `uplink_unseen`: the monitor compares two samples of `_connected` a second apart; an
   outage between them starts no replay, and what was buffered in it waits for the next one.
2. `planner_race`: "has no schedule yet" is tested before the await of the prices and not after it.
3. `backfill_blind`: a failed query is an empty answer, hence "no telemetry that day".
4. `push_back`: with two dates to push, a failure of the earlier makes it the one retained.

Three more have no run; TLC shows each with the change named here.

5. `_prune` drops the oldest dates, and the oldest is today: operators who push schedules for
   the three days ahead evict today's, though `fallback.py:24-28` says no date still in use is
   evicted. `EdgePlanner.cfg` with `LastDay = 4`, `MaxStored = 3`, `Horizon = 3` violates `TodayStays`.
6. The lookup and the write of a schedule by the forward projection are some awaits apart: the
   edge's schedule that arrives in between is overwritten, though `influx_writer.py:131-134` says it never
   is; and so is one whose lookup fails. `ForwardProjection.cfg` with `EdgePlanNeverLost` among its properties
   shows it. `EdgePlanStays` is what is left of the sentence: there is no third way.
7. `optimizer.py:226-228` says that the terminal reserve can never make the model infeasible by
   itself. It is lowered to what the throughput cap allows, but not to what the hours that are
   left allow: planned late in the day from a low level, today has no solution and greedy plans
   it, without a reserve. `PlantDay.cfg` with `AlwaysFeasible` among its invariants shows it, and
   `SolvableExactly` proves when it happens: exactly when full power in the hours left does not
   bring the reserve. With `config.yaml` (20 kWh, 5 kW at 0.96, reserve 50 %) that is a plan made in the
   last hour below 26 %, as at most 8 kWh are missing and two hours bring 9.6. For
   tomorrow's plan, which has the whole day, `TomorrowIsFeasible` proves that it never does.

Properties of the passing runs carry the condition that excludes these: `OutageIsSeen`,
`Horizon` below `MaxStored`, `FetchDisturbed` and `FailsHalfWay` FALSE, `troubles = 0` (`GapsClose`,
`ReplayedDayHasPlan`, `PurgeLeavesTheReal`), `~misled`, `~unseen`.

What else the models made visible, none of it against a promise that is written down:

- `_missing_hours` asks whether an hour has any point (`history.py:498`), so a pass
  abandoned, or a write failed, in the middle of an hour leaves it half filled for good,
  although `main.py:98-99` says that losing a pass costs nothing: `GapsClose` and `ReplayedDayHasPlan`
  therefore speak of undisturbed behaviours.
- An attempt that fails after it has fetched leaves an estimate in the price cache and no plan. If the
  day's exact curve is then pushed and that computation fails too, the next attempt takes the estimate from
  the cache, though the exact curve is stored (`dam_client.py:82`, before 92). So
  `StoredCurveWins` holds until a second failure; TLC refutes it beyond with `MaxFailures = 2` and
  the bound `failures > 1` taken out. And a restart loads what the file holds, which may be an older plan than
  the one that could not be written: `RealPlanKept` and `StoredCurveWins` speak of one process.
- A command whose handler raises after `set_mode` (`main.py:538`, 481) is applied and never acknowledged.
  `botched` marks it, and `VerdictArrives` excuses it.
- A fault report whose row is stored but whose `enqueue` then raises (`main.py:197-198`) is made once more. Until
  it is, `_last_fault_code` is not what was reported last; a fault that is over by then stays on record.
- `last_acks` (`mqtt_subscriber.py:147`) holds the acknowledgement that arrived last, not the
  latest one: a replay takes it back to an older one. The record in InfluxDB is ordered by `ts`.
- `_last_fault_code` (`main.py:184`) starts at 0 in a new process: a fault that was reported and
  is over after the restart is never reported cleared. `forgot` marks these states, and
  `FaultOnRecord` excuses the code the edge takes for reported in them, until the next report.
- A request whose connection a second request takes over answers 502 although its command may
  have been handed over and applied (`router.py:185-191`); a command that is queued while the edge is
  offline has no verdict, ever. `VerdictArrives` says exactly which commands have one.
- Greedy's docstring (`optimizer.py:297`) says that charge hours precede discharge hours. Nothing
  enforces it; its simulated pack only keeps it from selling what was not stored.

## 4. Proofs

All theorems hold for every value of the constants under the named assumptions of the modules
(`BufferAssumption`, `UplinkAssumption`, `PlannerAssumption`, `BackfillAssumption`, `ForwardAssumption`,
`PushAssumption`, `OperatorAssumption`, `EmulatorAssumption`, `OptimizerAssumption`, `ReserveAssumption`, `PlantAssumption`): counts are
natural numbers, the window lies within the pack, shares of power are within the inverter's.
TLC evaluates them in every run. `ReserveAssumption` is the one with content: what an hour of the
default's sale takes, and leaks, fits between its reserve (35 %) and `soc_min`; `DefaultSparesPack`
rests on it, and `config.yaml`'s inverter meets it. Where a theorem excludes a case it is an
ASSUME of the theorem: `FetchDisturbed = FALSE` (`RealPlanIsKept`, `StoredCurveIsUsed`),
`Reach < MaxStored` (`StoredCurveIsUsed`, `TodayIsKept`, `TodayIsFound`), `FailsHalfWay = FALSE` (`LatestIsRetained`, `PushedTomorrowReachesEdge`), `OutageIsSeen`
(`NoRowIsOrphaned`, `ReplayDrainsBacklog`): the findings are what happens otherwise. `SolvableExactly` and
`TomorrowIsFeasible` assume something of the model's units: the throughput cap is a whole number of
what an hour's ticks can charge by one unit each, and between the reserve and `soc_max` there is room to round
up to that number. The code has no units (its powers are reals), so a fine enough unit always meets
this. `TomorrowIsFeasible` also assumes that a day's charging brings the pack from `soc_min` to the
reserve, which `config.yaml` meets within two hours.

**The safety half of a liveness property.** That something eventually happens is out of this
prover's reach, but most of a liveness property is a statement about states: nothing falls out of
the process that is to bring it about. These parts are stated in the proof modules and
proved there; the runs check the whole properties, with the fairness.

| liveness property (a run checks it) | its safety half (a theorem) |
|---|---|
| `EventuallyReceived` | `NoRowIsOrphaned`, `ReplayDrainsBacklog`: a pending row of an established session is always in somebody's hands |
| `GapsClose` | `PassLeavesNoGap`, `HoursAreWhole`: the days a pass is through with are filled, and none by halves; after troubles `SmoothPassCovers` |
| `RealWins`, `StacksGo` | `SmoothPassCleans`: after the purge of a smooth pass one series is left, the real one where there was one |
| `TodayPlanned` | `TodayIsFound`: every attempt at today's plan ends with the day planned or in an exception |
| `ReplayedDayHasPlan` | `ReplayedDaysArePlanned` |
| `NoBlankDay` | `PassLeavesNoBlankDay`; after troubles `SmoothPassPutsInOrder` |
| `UpgradeEventually` | `SmoothPassPutsInOrder`: no near day is left on the static curve with real prices stored |
| `ForecastFollowsPlan` | `ProjectionsHaveTheirPlans`: what a projection follows is what is stored; after troubles `SmoothPassPutsInOrder` |
| `TomorrowReachesEdge` | `RetainedReachesEdge`, `PushedTomorrowReachesEdge`: what the loop will not push again is with the connected edge |
| `VerdictArrives` | `QueuedCommandsAccounted`: a command without a verdict is on its way, dropped, or its handler raised |
| `FaultOnRecord` | `ReportedFaultAccounted` |

`MQTTBufferProofs` proves type correctness, `BacklogBounded`, `TelemetryNeverEvictsUrgent` and
`RowNeverReturns` of `BufferSpec`. The argument is about `IsOverflow`: what it takes brings the backlog down to
`MaxMessages` (`OverflowCount`), and it takes a QoS 1 row only when no telemetry is left
and then only rows older than all it leaves (`OverflowOrder`). Both rest on counting a set
by two parts (`SplitCount`). `RowNeverReturns` rests on the type invariant: every id up to the last one given out is in one of four
places, the two histories included, and only the next id becomes pending. The bound does not need `purge_delivered` to be called: nothing in the
repository calls it, and it is an action of `BufferNext` alone.

`EdgeUplinkProofs` proves the same bound for the client, `SettledWasReceived`, `AckTrail` and
`UplinkKeepsPromise`, the refinement. `SettledWasReceived` is not inductive: whether a row may be
settled depends on the scheduled `mark_delivered`, which depends on the entry that
`_on_publish` found under the acknowledged id, which depends on what paho holds under it,
also when the acknowledgement overtook the registration and the id has been used again.
The invariant `UplinkInv` is therefore `UplinkTypeOK`, `BacklogBounded`, `SettledWasReceived` and
`AckTrail`; the key is that an entry of `_inflight` is paho's own, or stale and then of a
row the broker has. One lemma per action, the ones that leave the queue alone together
(`MovesInv`). For the refinement, `StepSimulation` sends `PublishUrgent` to `Accept`, `BrokerReceive` to
`Receive`, `RunMark` to `Settle` and everything else to a stutter; that telemetry is invisible
above needs `OverflowOrder` once more (`TelemetryIsInvisible`).

`NoOrphan` needs more about the replay than it says itself. `ReplayInv` has that between replays, while
the connection that the monitor has seen still holds, every pending row is held by paho, received,
or about to be handed over; and that a batch of a replay has made progress unless the socket has
died under it. So the code's rule to stop after a batch without progress cannot strand a row, provided
that every outage lasts until the monitor's next look (`OutageIsSeen`): when one goes unseen, the rows
that were refused during it stay behind, which is what `uplink_unseen` finds.

`EdgeUplink` has two abstractions. Upwards it implements `AtLeastOnce`; downwards it uses `MQTTBuffer`, and
`UplinkDrivesBuffer` says that it does so as `BufferSpec` allows: with respect to the table every step is
one operation or none, a crash is none. What is proved of the table for any caller therefore holds of
the client (`UplinkSparesUrgent`, `UplinkRowsNeverReturn`).

`EdgePlannerProofs`: `PrunedHeld` and `SavedPlans` say what saving a date does to the others, `PlanSteps`
that plans change by saving and by a restart only. `OverrideHolds` is inductive with the
types. The others need `FetchInv` (a loop that waits for prices waits for a day of whose
exact curve nothing has been seen) and `CacheInv` (nothing is stored for a day beyond `Reach`;
an estimate is cached only for a day that has its plan, or one attempt has failed, and two if its
exact curve is stored), which is what makes the order "cache, then
stored curve" of `get_prices` harmless as long as no two attempts fail. Today's own plan needs less, only
`AheadInv`: no plan, in memory or in the file, is further ahead than `Reach`. So when a
save has one to evict, an older one than today's is there to go (`PlannedStays`), and an
attempt comes to nothing only by an exception (`AttemptNext`), whatever falls into a fetch.
`OnlyLateFetchDowngrades` is the other side of finding 2: it assumes nothing, and says that a plan from exact
prices gives way to an estimate only when a fetch for that very day was under way and ends, or in a
restart from a file that could not follow.

`HistoryBackfillProofs`: `NeverAheadOfClock` needs `PassInv`: the pass's date is not ahead of the
clock, every hour it counts as over is over, and what it is about to replay is among those. The
date is read before the hour, so a midnight in between makes it count fewer hours, never more
(`EarlierHour`). `PurgeLeavesTheReal` needs `CleanInv`: as long as nothing has failed no hour holds two series, and
a purge of overlaps deletes only where real points are. `GapInv` goes on from there: the hours in hand are
filled one after the other, tick by tick, all the others are filled or empty, and those of the days behind
are filled. Its parts need each other: the survey may take an hour with any points for covered because
none is filled by halves, and none is filled by halves because the survey sets down whole hours.
`PlanInv` does the same for plans. All of this is about the time until a first call fails or a pass is
abandoned: an hour left half filled stays so, as section 3 says. What can be said afterwards is said of
a smooth pass, one in which no call fails, after any number that were not. `HistorySpec` adds two history
variables to the module, whether the pass has been smooth so far and which hours had
telemetry when it began (`HistoryIsSpec`: they restrict nothing), and `SmoothInv` follows the purge through the hours
in hand tick by tick, and then the replay. Without the history the same could not be stated: what a
purge leaves depends on what was there when it asked.

`ForwardProjectionProofs`: `EdgePlanStays` needs `LookedUp`, that unless the pass is misled a device's schedule
of the day in hand was found, and so is not written over. It assumes nothing of when schedules arrive or which
calls fail: `misled` is about one day of one pass. `ProjectInv` follows a projection through deletion, first point and the rest; it
holds also when the device's schedule of the day in hand comes in between and is overwritten. `SmoothPassPutsInOrder` is the counterpart of the
backfill's for a pass after failed ones, by one history variable. Its limits are the code's: beyond the near term
a projection that any point is found of is left as it is, so one that was broken off stays
partial until its day comes near. `MarketPushProofs`: `RetainedIsLatest` needs `InOrder`:
every date that is pushed is earlier than every date to be pushed, and with two to push a connected
loop has both in hand. `EdgeInv` is the edge's side: a connected edge has what the broker retains, and
nothing is retained for a day after tomorrow; with `RetainedIsLatest` a pushed curve of tomorrow is the
retained one.

`OperatorViewProofs`: `OperatorInv` follows one command or report along its way. `HandedInOrder`: the request under
way is the last one posted, so what the broker takes is newer than all it has taken. `CommandsTraced`: what it
has taken is queued, lost with a session, has a verdict, or was applied by a handler that raised. `VerdictsInOrder`: the
edge applies commands in
the order of posting, and what is still queued is newer than every one applied, with a verdict or without, from
which follow that none is
applied twice (`CommandsAppliedOnce`) and that the edge never goes back to an older one
(`NewerCommandsOnly`). `LastReport`: unless a restart or a failed report has made the edge forget, `_last_fault_code` is the code of the newest
report, which an overtaking older report cannot hide. `NothingVanishes`: what has been published is in
the channel, evicted, written or missed. `UsesChannel` is the composition: what the module does to the uplink is
what `AtLeastOnce` allows, and `UplinkKeepsPromise` says that `EdgeUplink` is such an uplink.

`PlantDayProofs`: the type invariant says of every stored plan that it is a well-formed day, and of a
solver's plan that its slots are what its course within the window calls for (`PlanOK`). Greedy's course is a
recursive function, and the library's induction theorems take operators, so
that it has a level in every hour is proved from the least hour that has none (`LeastNumber`,
`GreedyCourseExists`). `SocStaysInWindow` is then a matter of `SetPoint` and `Limited`. `PlanHolds` needs `OnPlan`: a plant
that is not adrift has a solver's plan, and as the promised course is inside the window
(`PromisedType`, by `SteadyProgress`), `Limited` can only bring the plant nearer to it. `ReserveKept` follows
at the end of the day. `DefaultNeverEmpties` needs `SaleCovered`: a sale of the default's began above the
reserve and has taken no more than its ticks can, also when rounds of the loop fail, since the
action lapses after its hour.

`SolvableExactly` asks for a course to exist. The solver's caps are sums over the hours, by a fold of the
community modules; that the sums over any finite set exist and do not depend on the order is proved once
more from least numbers (`SumExists`, `SumOfAny`), and then that a course which never falls gains the
difference of its ends (`Telescope`, `RisingCourse`). No course rises faster than the charger allows
(`ChargerBounds`), and the one that charges at full power until it has enough meets every constraint
(`CourseInTime`); the cap cannot be in its way, because the reserve was lowered to it.

Only model-checked: liveness, everywhere, as temporal properties under fairness are out of the prover's
reach. Every invariant and every action property that a passing run checks is a theorem.

## 5. Not modelled, and why

The solver's objective and its choice (any feasible plan is allowed), the OREE page scraper and the
HTML parsing (pure I/O), the SQLite store and the InfluxDB point formats, dashboards, broker
configuration and deployment scripts. Of the emulator: weather, generation and load (an input
here), voltages, temperatures and meters; `FAULT_THERMAL` cannot be raised, as the thermal model tends
to at most 27 degrees and the alarm is at 45. A power cut that loses committed SQLite rows
(WAL with `synchronous=NORMAL`) is outside the process crash of `EdgeUplink`. The broker always
accepts what it is sent, and bounds no queue. `EdgeMQTTClient.stop` and the retained online
message are left out. `dam_prices` can always be read, though not always written, and a persistent failure of the
edge's disk is not modelled, only single ones. The backfill's passes run with the writer connected: when InfluxDB does not answer the
ping at start-up, the code skips every pass of that process (`history.py:89-91`), and nothing of section 3 applies to
it. Left out, too, are the state of charge that `history.py` carries from day to day,
the edge's status loop, the local API (one command endpoint that calls the modelled
`_apply_command`), the time base and the static curve (pure conversions and data), and `last_acks`.

## 6. Plan

1. The curve pushed when something fails while two dates are to be pushed: what the broker retains
   until the next day's curve comes, as a theorem without `FailsHalfWay = FALSE`.
2. The status loop and the last will: what a subscriber believes about the device's presence over
   unclean disconnects, with the retained online message.
3. The state of charge and the meters that `history.py` carries from one replayed day to the next.
4. The time base: Kyiv days of 23 and 25 hours against the 24 UTC slots of a plan.
