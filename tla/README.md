# Home automation: a verification project

`home-go` is a Go program that runs beside Home Assistant. It listens to Home
Assistant's state changes over a websocket, keeps entities of its own there through
an MQTT broker, stores reminders in PostgreSQL, and follows the hourly price of
electricity to decide when a dishwasher starts, when a laptop is charged and when the
household is told about extreme prices.

These modules describe what the program does, step by step, as its source does it.
TLC checks them on small instances; TLAPS proves some of their properties for every
value of the constants. Paths below are relative to `src/`; `internal/` is left out
where it is obvious. The line ranges each definition translates are in
`PROJECT.json`, under `map`.

## 1. The system

### Components, their state and their operations

| Component | State | Operations | Module |
|---|---|---|---|
| Reminder aggregate, manager (`domain/reminders`) | none between calls; the aggregate is loaded, changed and stored | `Create`, `Ack`, `Delete`, `Tick`; `New`, `IsDue`, `Trigger`, `Acknowledge`, `RepeatDelay` | `Escalation`, `Reminders`; abstractly `ReminderBook` |
| Reminder repository (`tech/postgres`) | tables `reminders`, `reminder_targets`, `reminder_acks` | `Save` (one transaction), `GetByID`, `ListDueBefore` (several queries), `Remove` | `Reminders` |
| Reminder MQTT handler (`tech/homeassistant/devices/reminders`) | `switches`, a map of switches and what each shows | `handleCreate`, `handleAck`, `handleDelete`, `HandleTick`, `syncEntities`, `onSwitchCommand`, `Start` | `ReminderSwitches` |
| Entity runtime (`tech/homeassistant/entities`) | `entities` (last states), registry, subscriptions; outside: retained topics | `declare`, `setState`, `Remove`, `handleReconnect`, `NewRuntime` | `EntityRuntime` |
| Dishwasher (`domain/devices/dishwasher`, `tech/.../dishwasher`) | `pendingSchedule` (no mutex); the published flag, start and details | request, cancel event, dashboard switch, check every five minutes, save, clear, restore | `Dishwasher` |
| Price service and index (`domain/pricing`) | the cached index | `handlePriceUpdate`, `GetPriceSlots`, levels, `FindCheapestWindow`, `Summary`, `SlotAt` | `Pricing`, `PriceIndex` |
| Price announcer (`domain/devices/priceannouncer`) | `lastAlertedRunFrom` (no mutex) | the automatic alert; `HandleOnDemand` | `Pricing`; `Announcement` |
| Optimizer (`domain/optimizer`) | none | `Optimize`, `ShouldDelay` and its dynamic threshold, `OptimizeCheapestHours` | `Optimizer`, `CheapestHours` |
| Laptop charger (`domain/devices/laptop`) | none; everything is read from Home Assistant | `optimizeCharging` every 15 minutes | `Laptop` |
| MCP pricing server (`tech/mcp`) | none; everything is read from the index | three tools and one resource | `PricingTools` |

**Not modelled.** Of the formatter and of `timeformat`, only what a message states is
modelled, not its wording: so not the 12-hour clock, in which two times of a day
read alike. The HTTP server, noise generator and health check are I/O without state
that matters here; wiring and configuration are left out (their decisions, such as
which listener has a goroutine of its own, are in the models), as are dry run and debug
helpers, and generated code. The vacuum is not registered by `app.go`; its run has the
shape of the one `Laptop` models. Of the component base `IsAwayForDuration` is
modelled, and other queries of the house mode are nondeterministic; the generic
`StateManager` of `component/state.go` has no caller. Nor have `Runtime.Reconcile`
and, in `domain/pricing`, `GetPriceSlotsInWindow`, `GetAveragePrice`, the service's
`GetCurrentPrice`, `FindCheapestSlots` and `HasNegativePrices`. In the entity runtime
the kinds of entities and their discovery payloads are left out.

### Interactions

- Home Assistant's events and interval timers start a goroutine each. So does every
  MQTT message, every command of an entity and every (re)connection. Nothing
  serialises them; mutexes cover single accesses to maps, never a publish, a query or
  a service call.
- The reminder handler calls the manager, which calls the repository and the
  notifier; each message ends in `syncEntities`, which lists the table and calls the
  entity runtime.
- The dishwasher keeps its schedule in memory and, through the runtime, in the
  retained states of three entities, and reads its own switch back from Home
  Assistant to learn whether the user cancelled.
- The price sensor feeds the price service; the announcer listens to the same event;
  dishwasher and laptop ask the service for slots and the optimizer for a decision.

### What is hard

Interleavings of ticks, messages and commands over a table read by several queries;
copies that are stored after the row changed; failed or lost publishes and what a
reconnection repairs; crashes between two publishes or between a notification and its
record; an outage that makes a switch unreadable; price lists that arrive late, empty
or unusable; boundaries in the price algorithms (zero and negative prices, the end of
the list, midnight). `PROJECT.json` lists 40 such hazards, each at its line, with the
properties that cover it.

### What makes each component correct

- *Reminders*: a fire is recorded only after it was sent; repeats are counted, spaced
  and limited as the profile says; a due reminder fires; what was removed stays
  removed (it does so only when no tick holds a copy).
- *Switches*: for reminders whose ids have a key of their own, the map tells the truth
  about the dashboard, wrong switches are repaired, switches of removed reminders go, and a
  switch acknowledges the reminder it shows, for its owner.
- *Runtime*: declaring does not overwrite a retained state; whatever races happened,
  an undisturbed republication makes the broker agree with the memory; the program
  becomes available and receives commands again.
- *Dishwasher*: a promised start happens; a cancelled one does not; what is shown
  agrees with what is pending; a crash loses nothing that was saved.
- *Pricing*: a request brings the cache up to date; levels, windows, summaries, runs and starts are what
  a straightforward definition says; what an announcement states is true.
- *Laptop*: an empty house leaves the socket off, the battery lasts the critical
  hours, a cheap night is used.

## 2. The modules

`Reminders` EXTENDS `Escalation` and takes `ReminderBook` as an INSTANCE; `Pricing` EXTENDS
`PriceIndex`, which `Optimizer`, `PricingTools` and `Announcement` extend too; `Laptop`
EXTENDS `CheapestHours`. `MCReminders`, `MCDishwasher`, `MCSwitches`, `MCPricing` and
`MCLaptop` hold the definitions their configurations assign to CONSTANTS; `MCPricing` also
holds the comparison of the pure queries with reference definitions: it EXTENDS `Pricing`,
`PricingTools`, `Optimizer` and `Announcement`, and has one operator per comparison
(`NamesCheapest`, `DescribesDay`, `WaitsRightly`, ...), which the theorems are about too.
`EntityRuntime` needs no definitions and is checked directly. The theorems are in
`RemindersProofs`, `ReminderBook`, `DishwasherProofs`, `EntityRuntimeProofs`,
`LaptopProofs`, `PricingProofs` and `ReminderSwitchesProofs`; `Sums` has the lemmas on
division, induction and finite sums that `LaptopProofs` and `PricingProofs` share. No module
declares a RECURSIVE operator.

Some definitions are marked `Mutant:` or stand directly before the one they spoil.
They are plausible mistakes in the code (a dropped guard, an old copy, a missing
reset), no part of the specification; each is listed in `PROJECT.json` with the
property it breaks, which shows that the property says something about the code.

**Reminders.** One step per query, transaction or notification. `db` is the table;
a ticker lists the due rows (`TickList`), reads the targets of each later
(`TickHydrate`, as `hydrateList` does), then handles its private copies
(`TickDiscard`, `TickTrigger`, `TickNotify`, `TickStore`). `TickFail` is a database or
notifier call that fails, `TickFailPartly` a notification that reached some targets
only, `TickRefused` a message the notifier refuses. `Crash` forgets the
goroutines and keeps the table. `sent`, `lastSent`, `created` and `ended` are history.

**ReminderBook.** What a client may rely on, without goroutines: a book of alarms, each
`stored` or not, with the firings recorded (`fires`), what it has rung (`sent`), and the
alarms that are `loose`, in the hands of somebody who may ring or restore them. An alarm
rings before its firing is recorded, and one that is neither stored nor loose is silent.
`Reminders` implements it under the mapping `Stored` (there is a row), `Fires` (its fire
count, 0 without one) and `Loose` (some tick holds a copy): `ImplementsBook` is checked
by `RemindersRace` and proved in `RemindersProofs`. The table, the copies and how far
each tick has come are hidden; the steps that only move a copy are stutters.

**ReminderSwitches.** The table is reduced to what a switch shows of a row, its owner, and
whether its message gives the switch a name (`named`: the first 64 bytes are not blank). The
map has an entry per id; the runtime, the callbacks and the dashboard know a switch by its
key (`EntityKey`, `handler.go:326`: the id trimmed, in lower case, `_` for spaces), so that
ids which differ in case or spaces only share one. `Slug` is that function. A worker
lists (`List`), compares with the map (`Keys`), removes, declares and sets entity by
entity, and stores the map entry; each is one step, with the early exits of the code. A
declaration with a blank name, or with a key that contains a slash (`Slashed`), is refused
each time it is tried (`Refused`, `validateCommonSpec`): nothing is published, and the loop
goes on with the next reminder.
A failed publish is a lost connection (`lost`), may have reached the broker, and is
followed by `HandleReconnect`. Each runtime call is one step, `HandleReconnect` included:
what happens inside is `EntityRuntime`. `handler` holds the id and the owner that the
callback of a switch captured when it was declared (`handler.go:300`): its commands
acknowledge that reminder for that owner, whoever owns the row by then. `Remove` asks the
entities here, and the registry in the code; the two agree, since no registry file is
configured. The properties are about the ids that share their key with no other
(`Unshared`), whatever becomes of those that do.

**EntityRuntime.** `declare` is announce (discovery published), upsert (registry),
install (map); `setState` is store and show; `Remove` is hide, clear, unregister,
forget. `handleReconnect` resubscribes, publishes "online", takes a snapshot, and for
each entity publishes discovery and state, reading the last state without the mutex
(so it gets the old value, the new one or a torn one). A publish is acknowledged, or
the connection is lost before that and it is sent again, or it fails while there is no
connection. `exposed` records that one of the windows below was met; `undisturbed`
holds the republications that have run alone.

**Dishwasher.** `pending` is the pointer, `entity` what Home Assistant holds of flag,
start and details, `last` what the runtime would republish, `available` what the last
will says. A handler is one record of `job` that walks through the steps of a request
(start now; or pulse, store, save in three publishes), a cancel, a switch command or
the check (read flag, compare, start or drop, clear, forget). `Die` is the check's
dereference of a schedule that was cancelled while it read the flag: the process
panics. `RestoreSchedule` is `New`. `promise` is history: what the user was told.

**Pricing, PriceIndex, Optimizer.** `known` is what the sensor lists, `index` what the
program has cached; a caller handles an event or asks for slots (`Ask`, then
`GetPriceSlots`, which answers from the cache or refreshes it first), reads the attributes
in one step and stores the index in another. An announcer reads the index and the last
alerted run, then notifies and records. `PriceIndex` has thresholds, levels, windows
and summaries; `Optimizer` the choice of a start time by weighted stages, and
`ShouldDelay` with a threshold that falls with the hours to wait.

**Announcement, PricingTools.** Both are stateless. `Announcement` is the message on
request as a set of statements, each about a window and one of its edges: `Say` is what
the code says, and `AnnouncementIsTrue` compares each statement with the prices.
`PricingTools` has an operator per tool and resource of the MCP server, whose value is the
set of possible answers; an error is the empty set.

**Laptop, CheapestHours.** One run reads the house mode, the automatic switch, the
prices and the battery one after the other, then switches the socket; people, the
sensor and the price feed act between any two of these. `CheapestHours` has the two
strategies of `OptimizeCheapestHours`.

## 3. The runs

Every bound is a named CONSTANT. `CHECK_DEADLOCK FALSE` stands in every configuration
because clock, commands and failures are bounded: the models end when they are used
up, the program does not. Invariants of each module include one type invariant.

| Run | Instance | Distinct states | What it shows |
|---|---|---|---|
| RemindersRace | 1 id, 2 users, 2 overlapping ticks, 1 acknowledgement, MaxTime 3, 2 creates, 1 failure, 1 crash | 772,789 | what survives every race: `RecordedFiresWereSent` (delivery at least once), `BudgetRespected`, `TargetlessWereRemoved`, `GoneIsFinal`; `ImplementsBook` |
| RemindersSerial | 2 ids, 1 tick at a time, MaxTime 4, no failure | 172,943 | `ExactAccounting`, `EscalationHonoured`, `EventuallyFires` |
| RemindersUndone | 1 tick at a time | violated | `RemovedStaysRemoved`: a tick stores the copy of a deleted reminder |
| RemindersPoison | 2 ids, one with a message the notifier refuses | violated | `TickEvaluatesAll`: the first failure ends the tick for all others |
| DishwasherRace | 2 handlers (symmetric), MaxTime 2, 3 commands, 1 failure, 1 lost connection, 1 crash | 2,036,473 | `QuietIsFinal`: nothing starts out of nothing |
| DishwasherSerial | 1 handler, MaxTime 3, 3 commands, 2 failures, 1 lost connection, 1 crash | 502,545 | `CancelSticks`, `StatesFollowMemory`, `PromiseKept` |
| DishwasherOutage | 1 handler | violated | `CheckCancelsForUser`: an unavailable switch counts as a cancellation |
| SwitchesSerial | 3 ids, two of them with one key, 2 owners, blank messages and others, 1 worker, 3 changes, 2 failures, 1 crash | 421,935 | `MapIsTrue`, `MapFollowsRuntime`, `SwitchActsForOwner`, `StaleStateResolves`, `GhostsGo` |
| SwitchesGhost | 1 id, 1 failure | violated | `SwitchesDisappear`: a removal that failed is never tried again |
| PricingFeed | 2 callers, 1 announcer, prices {-1, 1, 4}, 3 slots of 2 units, 3 alerts, 1 unusable list or restart | 1,037,142 | `NoEcho`, `RequestRefreshes`; the pure queries, the tools, the announcement and the dishwasher's postponed start against their definitions |
| LaptopDay | 8 days of prices, an evening to the end of the critical hours, 1 event, 1 failure | 1,897,948 | `NeverEmpty`, `AwayIsOff`, `OneLateCommand`, `NightIsUsed` |
| RuntimeRaces | 1 key, 2 values, 2 callers, 2 republications, 3 calls, 1 lost connection, restart of Home Assistant or crash | 536,050 | `Removable`, `InitSafe`, `RedeclareKeeps`, `RepublicationRepairs`, `Reachable` |

### Why the bounds are enough

- *RemindersRace*: the races are between copies of one row, so one id with two
  creates has every order of create, list, read of targets, delete and store; two
  ticks and one acknowledgement are the three kinds of concurrent access. Two users
  make a notification fail half way. The limited profile is shortened to two repeats
  so that its limit is reached within the clock; `RemindersProofs` has no such bound.
- *RemindersSerial*: one id escalates to the floor of its profile while the other
  recurs and expires; both can be due in one tick.
- *Dishwasher*: three commands allow request, cancel or switch, and request again;
  two time units are enough for a schedule to be made, become due and expire.
  Handlers are symmetric; symmetry is used for safety and action properties only, never
  with liveness.
- *SwitchesSerial*: three changes are a create, a fire and a removal, a create, a takeover
  by a second owner and a removal, or one change of each id; two failures allow a failure in
  the repair of a failure. "tea" and "Tea" share a key, "bins" has one of its own. A refused
  switch is one with a blank message; one with a slash in its key differs only in that it
  is refused under every message, and the theorems are about both.
- *RuntimeRaces*: entities do not share state except through snapshots, so one key
  shows every race; three calls allow a declaration, a set or removal, and a second
  declaration that overlap. Two republications are a new connection and a birth message.
- *PricingFeed*: the state machine has three slots; the algorithms are compared on
  every cached list at every time, and levels and runs on every list with up to three
  (two) slots more. A negative, a cheap and an extreme price meet every branch.
- *LaptopDay*: a scaled day of 8 hours with two runs each, four of them critical. A full
  battery lasts three hours of use, less than the critical hours, and the minimum
  outlasts one interval (`ProfileAssumption`), as 10 % do with a drain of three hours and
  runs every 15 minutes.

### Assumptions about the world

- *Time.* Clocks are integers that advance in an action of their own; a step takes no
  time. The optimizer's start time, which the dishwasher waits for, is any later time.
- *Dishwasher.* Home Assistant has processed a publish before the next read; a publish
  waits while the connection is down; losing the connection publishes the last will.
- *ReminderSwitches.* Ids contain no "+" and no "#", which MQTT gives a meaning in topics.
- *EntityRuntime, ReminderSwitches.* The session is clean (subscriptions are lost with
  the connection), an unacknowledged publish is sent again, a publish fails only with
  the connection, which comes back.
- *SwitchesSerial, RemindersSerial, DishwasherSerial* check properties that need one
  worker (tick, handler) at a time; the code does not enforce it, it is the normal case.
- *Pricing.* Slots are contiguous, equally long and only appended; arithmetic is exact
  (the code uses float64). Whether a notification is suppressed (at night, while
  everybody is away, or in a dry run) is nondeterministic. The pure answers are compared
  in settled states, as they depend
  on list and time alone.
- *Laptop.* A run ends before the next begins; the laptop is used in the critical hours
  only; `LastChanged` is present; equal prices are sorted in any order.

### Fairness

Weak fairness is given to what the runtime of the program schedules: the interval timers, a
goroutine that was started, the clock, the MQTT client's reconnection and the container's
restart. No user, no failure, no price update and no outcome of a notification is ever fair.
In `Pricing` nobody need ever ask for prices, and no event need be delivered: the laptop
charger asks only with its automatic mode on and somebody at home or not long away, the
dishwasher only when it is told to wash. The clock owes nothing either. What is fair is a
goroutine that has begun: `RequestRefreshes` says what becomes of a request that was made,
once the last failure is over and while the sensor lists the present hour: the cache comes
to list it, or the hour ends first. It is stated for each hour, so it does not depend on
where the clock of the model stops. `EntityRuntime` is fair to the reconnection callback
only. The safety runs use `Spec` without fairness.

## 4. What the violated runs show

Each has one property, taken from a document or comment of the repository, that the
code does not keep; `findings` in `PROJECT.json` quotes both sides.

1. `RemovedStaysRemoved` (`domain/reminders/manager.go:119`). `Tick` stores the copy it
   loaded; `Save` is an upsert; a reminder deleted in between is back and goes on firing.
2. `TickEvaluatesAll` (`manager.go:109`). A reminder whose notification fails ends the
   tick. It stays due and comes first again, so those behind it starve.
3. `CheckCancelsForUser` (`tech/.../dishwasher/state_manager.go:336`). Every state but
   "on" counts as cancelled: the last will of a lost connection drops the schedule. The
   same branch is taken between `StorePending` and the publication of the flag, and
   after a publication that failed.
4. `SwitchesDisappear` (`tech/.../reminders/handler.go:237`). A reminder whose switch is
   in the map is removed; `Remove` fails, which is logged, and the map entry goes all the
   same (`RemoveEntity`, then `Unmap`). The runtime keeps the entity, the reconnection
   publishes it again, and no later run of `syncEntities` knows of it.

### Behaviour the models show or their writing turned up, without a run of its own

Reminders and switches:
- With two runs of `syncEntities` at once, `MapIsTrue` and `StaleStateResolves` are
  broken without any failure: the set of one and the map entry of the other cross.
- A row re-stored between its two reads can have no targets; `Trigger` goes on firing it
  to nobody (`domain/reminders/errors.go:7` rejects this at creation only).
- The `Save` of `Ack` is never reached: the first acknowledgement completes a reminder.
  An acknowledged recurring reminder is removed, where the design document keeps it.
- The quiet profile's three repeats (`docs/reminders-mqtt-api.md:47`) are two
  notifications. A recurrence below a second is stored as 0.
- The callback of a switch acknowledges for the owner it was declared with
  (`handler.go:305`). An owner need not be a target: the acknowledgement is then refused
  (`ErrNotTarget`), and the switch keeps what it shows. The row of an id that a new owner
  has taken over is acknowledged for the old one until the switch is declared again;
  `SwitchActsForOwner` shows that this has happened when the handler is idle, as long as
  nothing fails. After a declaration that failed, later runs of `syncEntities` find the
  id in the map and leave the old callback in place.
- Two ids with one key (`handler.go:326`) share one switch, where `handler.go:49` says
  "one HA switch entity per active reminder": it shows the one that was set last and
  acknowledges the one that was declared last, and goes with the first to be removed; the
  map then says that the other's is still there, and nothing declares it again.
- A reminder with a blank message, or with a slash in its id, is created, but
  `Switch` refuses its key or name (`runtime.go:648`) in each run of `syncEntities`: it has
  no switch for good, without any failure, and only the log says so. `StaleStateResolves`
  excludes it. When an id is taken over with a blank message, its old switch stays, with a
  callback that acknowledges for the former owner; `SwitchActsForOwner` excludes that.
- A first declaration whose acknowledgement is lost leaves a switch on the dashboard that neither
  the map nor the runtime knows. The next run of `syncEntities` declares it again, unless the
  reminder was removed first: then it stays, as after a failed removal.
- After a crash, switches of reminders that were removed meanwhile stay: nothing calls
  `Runtime.Reconcile`, and `app.go:81` configures no registry file, though
  `README.md:65` describes one that survives restarts.

Entity runtime. `exposed` stands for these windows, which the code leaves open:
- A call on a key (a set too) overlaps a declaration or removal of the same key.
- A removal runs while a republication holds the entity in its snapshot: the entity may
  be published again, and then nobody can remove it.
- A declaration has lost its connection before the acknowledgement: Home Assistant may
  show an entity that neither registry nor map knows.

Also, two concurrent sets may be published in the other order than they are stored,
until the next republication; the republication may read the last state torn.

Dishwasher:
- The check reads `pendingSchedule` again after it has asked Home Assistant
  (`component.go:264`); a cancel in between makes it a nil dereference, and the process
  dies (`Die`).
- A request that arrives while a check clears the old schedule is forgotten by it.

Pricing and announcer:
- `GetPriceSlots` reads the index again after the refresh (`service.go:94`), so its answer
  may be an older list that another goroutine has stored in between.
- An extreme run in progress is announced anew each hour, since hours that are over are
  left out (`announcer.go:192`), where `docs/announcer.md:46` promises one alert per run.
  `NoEcho` is what is left: never the same start twice in a row. Two overlapping
  announcers can break even that; the run has one.
- `FindCheapestWindow` may answer with fewer hours than were asked for at the end of the
  list (`index.go:117`). A slot that ended exactly now still counts (`optimizer.go:163`).
  Midnight is UTC's.
- The summary of the MCP server leaves the slot in progress out of minimum, maximum and
  average, though its description in `server.go` says "prices from now until the last
  available slot", and its maximum starts from 0 (`handler.go:145`), which is what it
  answers for a day of negative prices. `SummaryCoversDay` says what the range does cover.
- While the present price is negative, the announcement takes the first cheap stretch
  of the list for the one in progress (`formatter.go:87`); `AnnouncementIsTrue`
  excludes that case, and fails without the exclusion.
- The comments on the dynamic threshold promise about 18 % after 2 hours and 9 % after 6;
  the code computes 20.5 % and 12.2 %.

Laptop and optimizer:
- With a zero or negative average of the critical hours, "20 % cheaper"
  (`optimizer.go:723`) is true of dearer hours.
- A reading of exactly 0 turns to the time estimate instead of the emergency charge
  (`optimizer.go:509`); a lowest price of 0 counts as no price data on weekdays
  (`optimizer.go:549`).
- Outside the critical hours the window moves with the clock, so when midday is
  cheaper than the night, the charge is put off all night: "Ensure charged before
  critical hours" (`optimizer.go:410`) is not guaranteed. `NightIsUsed` and
  `NeverEmpty` say what is.
- A change from Away to Travel starts the two hours again.

## 5. The proofs

TLAPS checks the theorems below, for any sets of ids, users, keys, goroutines and
commands, any preset, any prices and any bounds, from the named assumptions of the
module's constants only. Those of the price feed and the charger say that prices and times
are integers, that a slot and a day have a length (`SlotsAssumption`, `DayAssumption`), that
the slots of a day of the charger do not overlap (`PriceDaysAssumption`), and that the
values that stand for nothing are no runs, lists or levels. Some theorems add a hypothesis,
without which the property is false: `Accounts` and `DelaysAreKept` (`Alone`: one tick at a
time, ids used once, no failure), `NoAlertEchoes`, `MemoryIsShown` and `WithdrawalSticks`,
and `MapAgrees`, `MapTells` and `SwitchesFollowOwners` are about one tick, one announcer, one
handler, one run of `syncEntities` at a time (the last three for any `Slug` and `Slashed`,
about the ids with a key of their own); `UptimeIsKept` needs the proportions of the
source's profile (`Profile`), which `MCLaptop` has TLC evaluate of the instance.

Every invariant of a passing run is stated by one of these theorems.

| Theorem | States | Argument |
|---|---|---|
| `RemindersProofs!TypeCorrect` | `[](TypeOK /\ InHand)` | `TypeInv`, one step per action; `InHand` says that a ticker about to notify or store has a reminder in hand |
| `RemindersProofs!Safety` | `[](NoStoredAcks /\ RecordedFiresWereSent /\ BudgetRespected /\ TargetlessWereRemoved)` | `SafeInv`, see below |
| `RemindersProofs!LimitKept`, `TargetlessExplained` | `[]BudgetRespected`, `[]TargetlessWereRemoved` | from `Safety` |
| `RemindersProofs!RemovalIsFinal` | `GoneIsFinal` | from both invariants, one step per action (`GoneNext`) |
| `RemindersProofs!PresetDelays` | the delay of each preset after any number of fires | arithmetic |
| `RemindersProofs!Accounts` | with one tick at a time, each id used once and no failure, `[](ExactAccounting /\ EscalationHonoured)` | `AccountInv`, see below |
| `RemindersProofs!DelaysAreKept` | under the same hypothesis, `[]EscalationHonoured` | from `Accounts` |
| `ReminderBook!BookRingsFirst`, `BookSilence` | in the book, each recorded firing was rung; what is neither stored nor loose is silent | inductive as they stand |
| `RemindersProofs!Refinement` | `Spec => ImplementsBook` | each action is a step of the book or a stutter, from `TypeInv` and `SafeInv` |
| `RemindersProofs!BookPromises` | the two promises of the book hold of `Reminders` | from `Refinement` and the theorems of `ReminderBook` |
| `DishwasherProofs!TypeCorrect` | `[]TypeOK` | `TypeInv` adds `ArgsOK`: a handler at a scheduling step holds a start time |
| `DishwasherProofs!QuietStaysQuiet` | `QuietIsFinal` | `QuietNobodyWorks`, `QuietStep`: in a quiet state only a command or the clock and the connection can act |
| `DishwasherProofs!MemoryIsShown`, `WithdrawalSticks` | with one handler, `[]StatesFollowMemory`, `[]CancelSticks` | `SerialInv`, see below |
| `EntityRuntimeProofs!TypeCorrect` | `[]TypeOK` | `TypeInv` |
| `EntityRuntimeProofs!CleanupIsPossible`, `DeclarationsAreInitSafe`, `DeclarationsKeepState` | `[]Removable`, `InitSafe`, `RedeclareKeeps` | `IInv`, see below |
| `EntityRuntimeProofs!UndisturbedRepairs` | `RepublicationRepairs` | `Repairing`: an undisturbed republication has repaired every entity that is no longer in its snapshot |
| `LaptopProofs!TypeCorrect` | `[](TypeOK /\ ListInHand)` | `TypeInv` adds that the run and its history are records; `ListInHand` says which prices a run holds at each step: none before it has asked, then today's, or both days' once they are published |
| `LaptopProofs!EmptyHouseIsOff` | `[]AwayIsOff` | `AwayInv`: a run that is past the safety check while the house is empty was disturbed |
| `LaptopProofs!AtMostOneLateCommand` | `[]OneLateCommand` | `LateInv`: after a late command the automatic mode is off, and no run that has read it on is left |
| `LaptopProofs!UptimeIsKept` | with the proportions of the profile, `[]NeverEmpty` | `UptimeInv`, see below |
| `LaptopProofs!CheapNightsAreUsed` | `[]NightIsUsed` | `PricedInv`: a run that is undisturbed and has read both days' prices decides to charge whenever it is worth it |
| `PricingProofs!TypeCorrect` | `[]TypeOK` | `TypeInv`: every list anywhere is a beginning of the sensor's (`Part`), which only gets longer |
| `PricingProofs!AlertsNameTheFirstRun` | `[]RunIsFirst` | `RunFacts`, what the loop of `firstExtremeRun` returns for any list |
| `PricingProofs!CheapestIsNamed` | `[]WindowIsCheapest` | `CheapestFound`, the least fraction of a finite set, and the sums of parts of a list |
| `PricingProofs!SummaryIsTrue` | `[]SummaryCoversDay` | `WindowsAre`: a window is a whole stretch of one kind; `PartSum`, `SumBounds` |
| `PricingProofs!LevelsAreRanks` | `[]LevelsRankPrices` | `RankedIsRank`: of n prices, k at least are up to the k-th lowest and n - k + 1 at least from it on |
| `PricingProofs!AnnouncementHolds` | `[]AnnouncementIsTrue` | `FirstWindowIs`: the first window of a kind starts at the first slot of that kind |
| `PricingProofs!WaitingPays` | `[]PostponedStartIsBest` | `TouchedIs`, `BestIsFound`, `ThresholdIs`, see below |
| `PricingProofs!NoAlertEchoes` | with one announcer, `[]NoEcho` | `EchoInv`: the last alert sent is the one remembered, and a run about to be announced starts elsewhere |
| `ReminderSwitchesProofs!TypeCorrect` | `[]TypeOK` | `TypeInv` adds `JobOK`, what a worker holds at each step |
| `ReminderSwitchesProofs!MapAgrees` | with one worker, `[]MapFollowsRuntime` | `MapInv`: while the worker is at a key, every other key agrees, and this one will when it stores the entry |
| `ReminderSwitchesProofs!MapTells`, `SwitchesFollowOwners` | with one worker, `[]MapIsTrue`, `[]SwitchActsForOwner` | `Flawless`, before the first failure: `ShowInv`, that map, runtime and dashboard agree but for the reminder at hand, and `OwnerInv`, that only a switch about to be renewed may act for somebody else than the list at hand says |

The four promises of `Safety` are about the table alone and are not inductive: a tick
saves a copy it made long ago, whatever the row has become. `SafeInv` therefore says of
every copy in flight (listed, read, in hand, acknowledged in memory) what has to hold of
a row if it were stored now (`Sound`): not acknowledged, no more fires than
notifications, repeats left, and targets unless the id was removed before. `SoundGrows`
and `Grows` carry this over steps of others, because the counters of
history only grow. Two details need care: a listed row's targets do not matter until they
are read, and a reminder in hand counts one fire more than was sent until the notifier has
taken it.

`AccountInv` keeps the accounts of each id while its one tick is at work. A stored row and
every copy (listed or read) has counted all notifications and is not due before its delay
after the last (`UpToDate`); the reminder in hand has counted one more, and once it is sent,
the row is the one that lags by one, until it is stored. Two facts carry it: a copy is up
to date because an id that is created once can only be removed while the tick holds
it, never replaced; and an acknowledgement, being complete, removes and never saves.

`IInv` of `EntityRuntime` is about the time before a window is met (`exposed`) and says
then (`Unexposed`) that what Home Assistant shows is in the registry or on its way there,
that a removed entity is hidden before it is forgotten, that what a republication holds is
still installed, that what it sends again was set, and that a declaration holds the
state it will install. Each step is shown to preserve the five parts or to meet a window.

`SerialInv` of `Dishwasher` says, for each step of the one handler, what it knows of the
pending schedule (`PendingInv`), and keeps three accounts with different ends: until the
first crash the flag in the runtime tells whether a schedule is pending (`FlagInv`, but
for the handler that is changing one of the two); until the first failure what is shown is
what a reconnect repeats, and it shows the whole of a pending schedule (`ShownInv`); and
for ever, nothing is left of a schedule that was withdrawn (`WithdrawnInv`), which rests on
`ClearSchedule` clearing the flag before anything else.

`UptimeInv` of `Laptop` says of an undisturbed charger in the critical hours that the
battery is not empty, that a run about to switch the socket has decided to charge if
there was need, and that the socket is on after a run if there was (`Obeyed`). With a sensor
the need is a level below the minimum, and since the minimum outlasts an interval, that is
enough. Without one the need is the hour, and the level has to be explained by the time
alone: until half of `DrainRate` is over, `Explains` says that the battery has lost no more
than `Drain` in each interval since the critical hours began, and the other half outlasts
the hour and the interval by which a run may come late (`TimeLeft`, `SomeLeft`).

*Lists of any length.* What the pricing code computes with loops and folds needs an
induction over the list. The provers cannot instantiate the library's induction
theorems, whose parameter is an operator; `Sums` goes round that by the smallest
counterexample: a nonempty set of naturals has a least element, a nonempty set of finite
sets one that contains no other. With it, sums over finite sets do not depend on the
order in which `FoldLeft` or `MapThenSumSet` takes the elements (`SumExists`, `FoldIsSum`,
`PrefixSums`), and the recursive function `Decay` of the dynamic threshold is shown to
satisfy its equation (`DecayIs`). Everything else works on positions: a
list from the feed is gapless (`Listed`), so the slots between two times, a block, a run
and a window are intervals of positions (`RangeIsPart`, `BlockIs`, `RunFacts`,
`WindowsAre`), and a property of the list becomes one of numbers.

`WaitingPays` joins four parts: the window that is priced is the slots that the cycle
touches, however the cycle's length divides into slots (`TouchedIs`); the loop over starts
keeps one of least weighted cost among those in time (`BestIsFound`, `OptionsAre`); the
savings reach the threshold (`SavingsAre`); and the threshold is at least a sixth
for three hours and above zero for ever (`ThresholdIs`).

*What the attempts turned up.* Two properties that TLC had passed were false, and were
corrected. `AnnouncementIsTrue` had said that a price called moderate is not negative; on
a day with several negative prices (-3, -5, -4, 1, 2) the cheap threshold is itself
negative, and the message says "moderate now" of a price below zero. It takes five slots with
four different prices, more than the instance has. `PostponedStartIsBest` had promised a
sixth by day for any wait: the threshold falls below that after three hours, which the
instance's list never reached. Both now say what the code does; the second agrees with
its own comment.

What stays with TLC is liveness, with everything about ENABLED: `EventuallyFires`,
`PromiseKept`, `StaleStateResolves`, `GhostsGo`, `RequestRefreshes` and `Reachable`.

## 6. Plan

Done, in this order: Reminders with its proofs, Dishwasher with its proofs,
ReminderSwitches, Pricing with its algorithms, Laptop, EntityRuntime; then the alarm book
and its refinement, the announcement on request, the MCP tools, the dynamic threshold,
the owners of switches, and the proofs about EntityRuntime, Laptop, Pricing,
ReminderSwitches, the accounts of Reminders and those of Dishwasher; then the battery and
the night of Laptop, and everything that is computed from a list of prices.

Next:
1. *Abstract specifications.* A register per key, which the atomic calls of
   `ReminderSwitches` and `Dishwasher` assume, and `EntityRuntime` shown to implement it
   outside the windows.
2. *Proofs.* The safety half of the liveness properties: what holds along the way from a
   due reminder to its fire, and from a promise to its start.
3. *Breadth.* The vacuum, should it be registered; two callers of `declare` with
   different commands.
