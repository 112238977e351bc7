-------------------------------- MODULE Laptop --------------------------------
(***************************************************************************)
(* The laptop charger (internal/domain/devices/laptop): every 15 minutes   *)
(* one run of optimizeCharging reads the house mode, the automatic switch, *)
(* the prices and the battery from Home Assistant, one after the other,    *)
(* and then drives the socket.  The model lasts from an evening to the end *)
(* of the next critical hours.  Between two runs the battery charges or    *)
(* drains, the sensor may freeze or vanish, people leave, come back and    *)
(* use the switches, and tomorrow's prices are published.                  *)
(***************************************************************************)
EXTENDS CheapestHours

CONSTANTS
  Unit,          \* the time between two runs, in units of time
  Drain,         \* what the battery loses between two runs at most
  Charge,        \* what it gains between two runs while the socket is on
  AwayLimit,     \* the two hours after which an empty house is dangerous
  Horizon,       \* bound: the time at which the model ends
  PriceDays,     \* bound: the sets of slots the feed may send
  Today,         \* the slots from before Today are known in the evening
  Unknown,       \* what the sensor shows when it shows no number
  MaxEvents,     \* bound on what people and the sensor do
  MaxFaults      \* bound on failed calls and missed runs

ASSUME LaptopAssumption ==
  /\ Unit \in Nat \ {0} /\ Drain \in Nat /\ Charge \in Nat
  /\ AwayLimit \in Nat /\ Horizon \in Nat /\ Today \in Nat
  /\ MaxEvents \in Nat /\ MaxFaults \in Nat
  /\ Unknown \notin 0 .. Full

\* The slots of a list of prices do not overlap.
IsDay(slots) ==
  /\ IsFiniteSet(slots)
  /\ \A slot \in slots : /\ {slot.from, slot.till, slot.price} \subseteq Int
                         /\ slot.from < slot.till
  /\ \A s, t \in slots : s # t => s.till <= t.from \/ t.till <= s.from

ASSUME PriceDaysAssumption == \A slots \in PriceDays : IsDay(slots)

VARIABLES
  now, weekend,       \* the time; whether the critical hours are on a weekend
  prices, published,  \* the slots of both days; whether tomorrow's are known
  socket, auto,       \* the socket and the switch of the automatic mode
  mode, age,          \* the house mode and for how long, up to AwayLimit (LastChanged)
  battery,            \* the true level
  sensor, reading,    \* how the sensor works and what it shows
  job,                \* the run in progress
  ran,                \* whether the run of this interval is over
  events, faults,     \* bounded counters
  seen                \* what has happened, for the properties

world == <<now, weekend, prices>>
people == <<auto, mode, age>>
vars == <<now, weekend, prices, published, socket, auto, mode, age, battery,
          sensor, reading, job, ran, events, faults, seen>>

AwayModes == {"Away", "Travel"}
Modes == {"Home"} \cup AwayModes
Steps == {"idle", "safety", "auto", "prices", "battery", "apply"}
NoRun == [step |-> "idle", slots |-> {}, on |-> FALSE]

\* The slots GetPriceSlots has to offer.
Known == IF published THEN prices ELSE {slot \in prices : slot.from < Today}

TypeOK ==
  /\ now \in 0 .. Horizon /\ weekend \in BOOLEAN
  /\ prices \in PriceDays /\ published \in BOOLEAN
  /\ socket \in BOOLEAN /\ auto \in BOOLEAN
  /\ mode \in Modes /\ age \in 0 .. AwayLimit
  /\ battery \in 0 .. Full
  /\ sensor \in {"live", "frozen", "absent"} /\ reading \in 0 .. Full \cup {Unknown}
  /\ job.step \in Steps /\ job.slots \in {{}, prices, {s \in prices : s.from < Today}}
  /\ job.on \in BOOLEAN
  /\ ran \in BOOLEAN /\ (ran => job = NoRun)
  /\ events \in 0 .. MaxEvents /\ faults \in 0 .. MaxFaults

Night == ~InCriticalHours(Hour(now))

-------------------------------------------------------------------------------
\* One run of optimizeCharging

GoTo(step) == job' = [job EXCEPT !.step = step]
\* Mutant: a run that is over keeps what it has read.
ReturnKeepsJob == UNCHANGED job /\ ran' = TRUE
Return == job' = NoRun /\ ran' = TRUE
Fail == faults < MaxFaults /\ faults' = faults + 1
\* A person or a failure has interfered: nothing is promised till the next phase.
Disturbed ==
  [seen EXCEPT !.calm = FALSE, !.priced = FALSE, !.informed = FALSE, !.blind = FALSE]

\* IsAwayForDuration.
AwayTooLong == mode \in AwayModes /\ age >= AwayLimit

ReadHouse ==
  /\ job.step = "idle" /\ ~ran
  /\ GoTo(IF AwayTooLong THEN "safety" ELSE "auto")
  /\ UNCHANGED <<world, people, published, socket, battery, sensor, reading, ran,
                 events, faults, seen>>

\* A house mode that cannot be read is no reason to stop.
ReadHouseFails ==
  /\ job.step = "idle" /\ ~ran
  /\ Fail
  /\ GoTo("auto")
  /\ seen' = Disturbed
  /\ UNCHANGED <<world, people, published, socket, battery, sensor, reading, ran, events>>

\* Mutant: the run goes on after the socket was switched off.
SafetyOffGoesOn ==
  /\ job.step = "safety"
  /\ socket' = FALSE
  /\ GoTo("auto")
  /\ UNCHANGED <<world, people, published, battery, sensor, reading, ran, events, faults, seen>>

SafetyOff ==
  /\ job.step = "safety"
  /\ socket' = FALSE
  /\ Return
  /\ UNCHANGED <<world, people, published, battery, sensor, reading, events, faults, seen>>

\* Mutant: the automatic mode is taken for granted.
ReadAutoUnchecked ==
  /\ job.step = "auto"
  /\ GoTo("prices")
  /\ UNCHANGED <<world, people, published, socket, battery, sensor, reading, ran,
                 events, faults, seen>>

ReadAuto ==
  /\ job.step = "auto"
  /\ IF auto THEN GoTo("prices") /\ UNCHANGED ran ELSE Return
  /\ UNCHANGED <<world, people, published, socket, battery, sensor, reading, events,
                 faults, seen>>

ReadPrices ==
  /\ job.step = "prices"
  /\ job' = [job EXCEPT !.step = "battery", !.slots = Known]
  /\ seen' = [seen EXCEPT !.priced = @ /\ published]
  /\ UNCHANGED <<world, people, published, socket, battery, sensor, reading, ran,
                 events, faults>>

\* A level that cannot be read, or is no number, stays zero.
Level == IF reading = Unknown THEN 0 ELSE reading

\* The decision; a run for which the optimizer returns an error ends.
DecideWith(level) ==
  LET outcomes == OptimizeCheapestHours(job.slots, now, level, weekend)
  IN /\ job.step = "battery"
     /\ \/ outcomes = {} /\ Return
        \/ /\ \E on \in outcomes : job' = [job EXCEPT !.step = "apply", !.on = on]
           /\ UNCHANGED ran
     /\ UNCHANGED <<world, people, published, socket, battery, sensor, reading, events>>

ReadBattery ==
  /\ DecideWith(Level)
  /\ seen' = [seen EXCEPT !.informed = @ /\ reading = battery,
                          !.blind = @ /\ reading = Unknown]
  /\ UNCHANGED faults

\* A battery that cannot be read is no reason to stop.
ReadBatteryFails ==
  /\ DecideWith(0)
  /\ Fail
  /\ seen' = Disturbed

Apply ==
  /\ job.step = "apply"
  /\ socket' = job.on
  /\ Return
  /\ seen' = [seen EXCEPT !.late = IF auto THEN 0 ELSE @ + 1]
  /\ UNCHANGED <<world, people, published, battery, sensor, reading, events, faults>>

\* A call to Home Assistant fails, or the process restarts: the run ends there.
RunFails ==
  /\ ~ran
  /\ Fail
  /\ Return
  /\ seen' = Disturbed
  /\ UNCHANGED <<world, people, published, socket, battery, sensor, reading, events>>

-------------------------------------------------------------------------------
\* The world

Event == events < MaxEvents /\ events' = events + 1

PublishPrices ==
  /\ ~published
  /\ published' = TRUE
  /\ UNCHANGED <<world, people, socket, battery, sensor, reading, job, ran, events,
                 faults, seen>>

\* Somebody leaves, comes back, or turns Away into Travel.
SetMode(m) ==
  /\ m # mode
  /\ Event
  /\ mode' = m /\ age' = 0
  /\ seen' = Disturbed
  /\ UNCHANGED <<world, published, socket, auto, battery, sensor, reading, job, ran, faults>>

SetAuto(on) ==
  /\ on # auto
  /\ Event
  /\ auto' = on
  /\ seen' = [Disturbed EXCEPT !.late = 0]
  /\ UNCHANGED <<world, published, socket, mode, age, battery, sensor, reading, job,
                 ran, faults>>

SwitchByHand(on) ==
  /\ on # socket
  /\ Event
  /\ socket' = on
  /\ seen' = Disturbed
  /\ UNCHANGED <<world, people, published, battery, sensor, reading, job, ran, faults>>

\* The lid is closed and the reading stands still, or the sensor vanishes.
SetSensor(s) ==
  /\ s # sensor
  /\ Event
  /\ sensor' = s
  /\ reading' = CASE s = "live" -> battery [] s = "frozen" -> reading [] OTHER -> Unknown
  /\ UNCHANGED <<world, people, published, socket, battery, job, ran, faults, seen>>

\* The level after the time between two runs; the laptop is in use during the
\* critical hours only.
Levels ==
  IF socket THEN {Min({Full, battery + Charge})}
  ELSE IF Night THEN {battery} ELSE {battery, Max({0, battery - Drain})}

\* The next interval: the critical hours begin, or the night or they go on.
Tick ==
  /\ ran /\ now + Unit <= Horizon
  /\ now' = now + Unit
  /\ age' = Min({AwayLimit, age + Unit})
  /\ ran' = FALSE
  /\ \E level \in Levels :
       /\ battery' = level
       /\ reading' = IF sensor = "live" THEN level ELSE reading
       /\ seen' =
            IF Night /\ ~Night'
              THEN LET steady == auto /\ mode = "Home"
                   IN [seen EXCEPT !.calm = TRUE, !.priced = FALSE,
                                   !.informed = steady /\ level >= MinBatteryPercent,
                                   !.blind = steady /\ level = Full]
              ELSE [seen EXCEPT !.calm = TRUE]
  /\ UNCHANGED <<weekend, prices, published, socket, auto, mode, sensor, job, events, faults>>

-------------------------------------------------------------------------------
Init ==
  /\ now = 0 /\ weekend \in BOOLEAN
  /\ prices \in PriceDays /\ published = FALSE
  /\ socket = FALSE /\ auto \in BOOLEAN
  /\ mode = "Home" /\ age = AwayLimit
  /\ battery \in {0, MinBatteryPercent, Full}
  /\ \/ sensor = "live" /\ reading = battery
     \/ sensor = "absent" /\ reading = Unknown
  /\ job = NoRun /\ ran = FALSE
  /\ events = 0 /\ faults = 0
  /\ seen = [calm |-> TRUE, priced |-> auto, informed |-> FALSE, blind |-> FALSE, late |-> 0]

Next ==
  \/ ReadHouse \/ ReadHouseFails \/ SafetyOff \/ ReadAuto \/ ReadPrices
  \/ ReadBattery \/ ReadBatteryFails \/ Apply \/ RunFails
  \/ PublishPrices
  \/ \E m \in Modes : SetMode(m)
  \/ \E on \in BOOLEAN : SetAuto(on) \/ SwitchByHand(on)
  \/ \E s \in {"live", "frozen", "absent"} : SetSensor(s)
  \/ Tick

Spec == Init /\ [][Next]_vars

-------------------------------------------------------------------------------
\* Properties

\* What NeverEmpty takes from the profile (devices/laptop/profile.go): the critical
\* hours do not go over midnight, a full battery lasts DrainRate, of which a half,
\* with the hour and the interval that a run may come late, is soon enough, and the
\* minimum outlasts an interval.
Profile ==
  /\ 0 < CriticalHoursStart /\ CriticalHoursStart < CriticalHoursEnd
  /\ Unit <= HourLength
  /\ Drain * DrainRate <= Full * Unit
  /\ 2 * (HourLength + Unit) <= DrainRate
  /\ Drain < MinBatteryPercent

\* The battery never runs empty during the critical hours ("Ensure charged before
\* critical hours, skip charging during expensive critical hours", optimizer.go),
\* when nobody interferes and no call fails, in two cases: it starts at the minimum
\* at least and every run reads its true level, or it starts full and no run reads
\* any level.
NeverEmpty ==
  ~Night /\ (seen.informed \/ seen.blind) => battery > 0

\* Two hours after the house was left, each run leaves the socket off, whatever the
\* automatic mode, the prices or the battery say (the safety check of
\* optimizeCharging); calls that fail and people at the switch excepted.
AwayIsOff ==
  ran /\ AwayTooLong /\ seen.calm => ~socket

\* However the switch of the automatic mode meets a run in progress, at most one
\* decision is applied after it was switched off.
OneLateCommand == seen.late <= 1

\* The slots of the hours to come that cost no more than the present one.
Rivals(slots, t) ==
  {s \in slots : /\ t < s.from /\ s.from < t + WindowSize
                 /\ s.price <= CurrentPrice(slots, t)}

\* A run of the night has to charge when the present slot is cheaper than the critical
\* hours to come on average and at most PreChargeHours before them, or among the cheapest
\* slots of the window that starts now.
WorthCharging ==
  LET critical == {s \in prices : s.from > now /\ InCriticalHours(Hour(s.from))}
  IN /\ \E s \in prices : Holds(s, now)
     /\ \/ /\ \E t \in now .. now + PreChargeHours * HourLength : InCriticalHours(Hour(t))
           /\ CurrentPrice(prices, now) * Cardinality(critical) < SumOfPrices(critical)
        \/ Duration(Rivals(prices, now)) < TotalDuration

\* As long as nothing fails, nobody interferes and tomorrow's prices are known, the
\* socket is on whenever the night is worth charging ("This ensures we pre-charge
\* during cheap night hours", optimizer.go).
NightIsUsed ==
  ran /\ seen.priced /\ Night /\ WorthCharging => socket
===============================================================================
