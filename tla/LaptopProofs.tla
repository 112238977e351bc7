---------------------------- MODULE LaptopProofs ----------------------------
(***************************************************************************)
(* Theorems about the laptop charger, for any prices, hours, rates and     *)
(* bounds: its types, the empty house, the switch of the automatic mode,   *)
(* the battery in the critical hours, and the use of a cheap night.        *)
(***************************************************************************)
EXTENDS Laptop, Sums

USE LaptopAssumption, RequestAssumption

Slots == {{}, prices, {s \in prices : s.from < Today}}

Jobs == [step : Steps, slots : Slots, on : BOOLEAN]

History ==
  [calm : BOOLEAN, priced : BOOLEAN, informed : BOOLEAN, blind : BOOLEAN, late : Nat]

\* TypeOK says of job only what its fields hold, and nothing of seen.
TypeInv == TypeOK /\ job \in Jobs /\ seen \in History

LEMMA NoRunType == NoRun \in Jobs
BY DEF NoRun, Jobs, Slots, Steps

LEMMA MinOfTwo ==
  ASSUME NEW a \in Int, NEW b \in Int
  PROVE  Min({a, b}) = IF a <= b THEN a ELSE b
<1> DEFINE least == IF a <= b THEN a ELSE b
<1>1. least \in {a, b} /\ \A y \in {a, b} : least <= y
  OBVIOUS
<1>2. \A x \in {a, b} : (\A y \in {a, b} : x <= y) => x = least
  OBVIOUS
<1>3. QED
  BY <1>1, <1>2 DEF Min

LEMMA MaxOfTwo ==
  ASSUME NEW a \in Int, NEW b \in Int
  PROVE  Max({a, b}) = IF a <= b THEN b ELSE a
<1> DEFINE most == IF a <= b THEN b ELSE a
<1>1. most \in {a, b} /\ \A y \in {a, b} : most >= y
  OBVIOUS
<1>2. \A x \in {a, b} : (\A y \in {a, b} : x >= y) => x = most
  OBVIOUS
<1>3. QED
  BY <1>1, <1>2 DEF Max

LEMMA DecisionType ==
  ASSUME NEW slots, NEW t, NEW level, NEW isWeekend
  PROVE  OptimizeCheapestHours(slots, t, level, isWeekend) \subseteq BOOLEAN
<1>1. SelectionHolds(slots, t) \subseteq BOOLEAN
  BY DEF SelectionHolds
<1>2. OptimizeOpportunistic(slots, t) \subseteq BOOLEAN
  BY <1>1 DEF OptimizeOpportunistic
<1>3. PreCharging(slots, t) \subseteq BOOLEAN
  BY DEF PreCharging
<1>4. CriticalHoursCharging(slots, t, level, isWeekend) \subseteq BOOLEAN
  BY DEF CriticalHoursCharging, ChargeBySensor, ChargeByEstimation
<1>5. QED
  BY <1>2, <1>3, <1>4 DEF OptimizeCheapestHours

LEMMA LevelsType ==
  ASSUME battery \in 0 .. Full
  PROVE  Levels \subseteq 0 .. Full
<1>1. Min({Full, battery + Charge}) \in 0 .. Full
  BY MinOfTwo
<1>2. Max({0, battery - Drain}) \in 0 .. Full
  BY MaxOfTwo
<1>3. QED
  BY <1>1, <1>2 DEF Levels

LEMMA DisturbedType ==
  ASSUME seen \in History
  PROVE  Disturbed \in History /\ Disturbed.calm = FALSE /\ Disturbed.late = seen.late
BY DEF Disturbed, History

LEMMA TypeInit == Init => TypeInv
<1> SUFFICES ASSUME Init
             PROVE  TypeInv
  OBVIOUS
<1>1. job = NoRun /\ job \in Jobs /\ seen \in History
  BY NoRunType DEF Init, History
<1>2. battery \in 0 .. Full /\ reading \in 0 .. Full \cup {Unknown}
  BY DEF Init
<1>3. now \in 0 .. Horizon /\ age \in 0 .. AwayLimit /\ mode \in Modes
  BY DEF Init, Modes
<1>4. events \in 0 .. MaxEvents /\ faults \in 0 .. MaxFaults
  BY DEF Init
<1>5. TypeOK
  BY <1>1, <1>2, <1>3, <1>4 DEF Init, TypeOK, Jobs, Slots
<1>6. QED
  BY <1>1, <1>5 DEF TypeInv

LEMMA TypeNext == TypeInv /\ [Next]_vars => TypeInv'
<1> SUFFICES ASSUME TypeInv, [Next]_vars
             PROVE  TypeInv'
  OBVIOUS
<1>t. TypeOK /\ job \in Jobs /\ seen \in History
  BY DEF TypeInv
<1>f. ASSUME Fail
      PROVE  faults' \in 0 .. MaxFaults
  BY <1>f, <1>t DEF Fail, TypeOK
<1>e. ASSUME Event
      PROVE  events' \in 0 .. MaxEvents
  BY <1>e, <1>t DEF Event, TypeOK
<1>r. ASSUME Return, UNCHANGED prices
      PROVE  job' = NoRun /\ ran' = TRUE /\ job' \in Jobs'
  BY <1>r, NoRunType DEF Return, Jobs, Slots
<1>j. ASSUME job' \in Jobs, UNCHANGED prices
      PROVE  job' \in Jobs' /\ job'.step \in Steps /\ job'.on \in BOOLEAN
             /\ job'.slots \in Slots'
  BY <1>j DEF Jobs, Slots
\* The run: everything but job, ran, seen, faults and the socket stays.
<1>w. ASSUME UNCHANGED <<world, people, published, battery, sensor, reading, events>>,
             job' \in Jobs', ran' \in BOOLEAN, ran' => job' = NoRun, seen' \in History,
             faults' \in 0 .. MaxFaults, socket' \in BOOLEAN
      PROVE  TypeInv'
  BY <1>w, <1>t DEF TypeInv, TypeOK, world, people, Jobs, Slots
<1>1. ASSUME ReadHouse \/ ReadHouseFails
      PROVE  TypeInv'
  <2>1. job' \in Jobs
    BY <1>1, <1>t DEF ReadHouse, ReadHouseFails, GoTo, Jobs, Steps
  <2>2. seen' \in History
    BY <1>1, <1>t, DisturbedType DEF ReadHouse, ReadHouseFails
  <2>3. faults' \in 0 .. MaxFaults
    BY <1>1, <1>t, <1>f DEF ReadHouse, ReadHouseFails, TypeOK
  <2>4. QED
    BY <1>1, <1>t, <1>j, <1>w, <2>1, <2>2, <2>3
       DEF ReadHouse, ReadHouseFails, TypeOK, world
<1>2. ASSUME SafetyOff
      PROVE  TypeInv'
  BY <1>2, <1>t, <1>r, <1>w DEF SafetyOff, TypeOK, world
<1>3. ASSUME ReadAuto
      PROVE  TypeInv'
  <2>1. CASE auto
    <3>1. job' \in Jobs
      BY <1>3, <1>t, <2>1 DEF ReadAuto, GoTo, Jobs, Steps
    <3>2. ran' = FALSE
      BY <1>3, <1>t, <2>1 DEF ReadAuto, TypeOK, NoRun
    <3>3. QED
      BY <1>3, <1>t, <1>j, <1>w, <3>1, <3>2 DEF ReadAuto, TypeOK, world
  <2>2. CASE ~auto
    BY <1>3, <1>t, <1>r, <1>w, <2>2 DEF ReadAuto, TypeOK, world
  <2>3. QED
    BY <2>1, <2>2
<1>4. ASSUME ReadPrices
      PROVE  TypeInv'
  <2>1. job' \in Jobs
    BY <1>4, <1>t DEF ReadPrices, Known, Jobs, Slots, Steps
  <2>2. seen' \in History
    BY <1>4, <1>t DEF ReadPrices, History, TypeOK
  <2>3. ran' = FALSE
    BY <1>4, <1>t DEF ReadPrices, TypeOK, NoRun
  <2>4. QED
    BY <1>4, <1>t, <1>j, <1>w, <2>1, <2>2, <2>3 DEF ReadPrices, TypeOK, world
<1>5. ASSUME NEW level, DecideWith(level), seen' \in History,
             faults' \in 0 .. MaxFaults
      PROVE  TypeInv'
  <2> DEFINE outcomes == OptimizeCheapestHours(job.slots, now, level, weekend)
  <2>1. outcomes \subseteq BOOLEAN
    BY DecisionType
  <2>2. \/ Return
        \/ ran' = ran /\ \E on \in outcomes :
              job' = [job EXCEPT !.step = "apply", !.on = on]
    BY <1>5 DEF DecideWith
  <2>3. /\ job.step = "battery"
        /\ UNCHANGED <<world, people, published, socket, battery, sensor, reading, events>>
    BY <1>5 DEF DecideWith
  <2> HIDE DEF outcomes
  <2>4. CASE Return
    BY <1>5, <1>t, <1>r, <1>w, <2>3, <2>4 DEF TypeOK, world
  <2>5. CASE ran' = ran /\ \E on \in outcomes :
              job' = [job EXCEPT !.step = "apply", !.on = on]
    <3>1. job' \in Jobs
      BY <1>t, <2>1, <2>5 DEF Jobs, Steps
    <3>2. ran' = FALSE
      BY <1>t, <2>3, <2>5 DEF TypeOK, NoRun
    <3>3. QED
      BY <1>5, <1>t, <1>j, <1>w, <2>3, <3>1, <3>2 DEF TypeOK, world
  <2>6. QED
    BY <2>2, <2>4, <2>5
<1>6. ASSUME ReadBattery
      PROVE  TypeInv'
  <2>1. seen' \in History
    BY <1>6, <1>t DEF ReadBattery, History
  <2>2. faults' \in 0 .. MaxFaults
    BY <1>6, <1>t DEF ReadBattery, TypeOK
  <2>3. QED
    BY <1>5, <1>6, <2>1, <2>2 DEF ReadBattery
<1>7. ASSUME ReadBatteryFails
      PROVE  TypeInv'
  BY <1>5, <1>7, <1>f, <1>t, DisturbedType DEF ReadBatteryFails
<1>8. ASSUME Apply
      PROVE  TypeInv'
  <2>1. seen' \in History
    BY <1>8, <1>t DEF Apply, History, TypeOK
  <2>2. socket' \in BOOLEAN
    BY <1>8, <1>t DEF Apply, TypeOK
  <2>3. QED
    BY <1>8, <1>t, <1>r, <1>w, <2>1, <2>2 DEF Apply, TypeOK, world
<1>9. ASSUME RunFails
      PROVE  TypeInv'
  BY <1>9, <1>t, <1>f, <1>r, <1>w, DisturbedType DEF RunFails, TypeOK, world
<1>10. ASSUME PublishPrices
       PROVE  TypeInv'
  BY <1>10, <1>t DEF PublishPrices, TypeInv, TypeOK, world, people, Jobs, Slots
<1>11. ASSUME NEW m \in Modes, SetMode(m)
       PROVE  TypeInv'
  <2>1. age' \in 0 .. AwayLimit
    BY <1>11 DEF SetMode
  <2>2. QED
    BY <1>11, <1>e, <1>t, <2>1, DisturbedType
       DEF SetMode, TypeInv, TypeOK, world, Jobs, Slots
<1>12. ASSUME NEW on \in BOOLEAN, SetAuto(on) \/ SwitchByHand(on)
       PROVE  TypeInv'
  <2>1. seen' \in History
    BY <1>12, <1>t, DisturbedType DEF SetAuto, SwitchByHand, History
  <2>2. QED
    BY <1>12, <1>e, <1>t, <2>1
       DEF SetAuto, SwitchByHand, TypeInv, TypeOK, world, people, Jobs, Slots
<1>13. ASSUME NEW s \in {"live", "frozen", "absent"}, SetSensor(s)
       PROVE  TypeInv'
  <2>1. reading' \in 0 .. Full \cup {Unknown}
    BY <1>13, <1>t DEF SetSensor, TypeOK
  <2>2. QED
    BY <1>13, <1>e, <1>t, <2>1 DEF SetSensor, TypeInv, TypeOK, world, people, Jobs, Slots
<1>14. ASSUME Tick
       PROVE  TypeInv'
  <2>1. now' \in 0 .. Horizon
    BY <1>14, <1>t DEF Tick, TypeOK
  <2>2. age' \in 0 .. AwayLimit
    <3>1. age' = Min({AwayLimit, age + Unit}) /\ age \in 0 .. AwayLimit
      BY <1>14, <1>t DEF Tick, TypeOK
    <3>2. QED
      BY <3>1, MinOfTwo
  <2>3. PICK level \in Levels :
          /\ battery' = level
          /\ reading' = IF sensor = "live" THEN level ELSE reading
          /\ seen' =
               IF Night /\ ~Night'
                 THEN LET steady == auto /\ mode = "Home"
                      IN [seen EXCEPT !.calm = TRUE, !.priced = FALSE,
                                      !.informed = steady /\ level >= MinBatteryPercent,
                                      !.blind = steady /\ level = Full]
                 ELSE [seen EXCEPT !.calm = TRUE]
    BY <1>14 DEF Tick
  <2>4. battery' \in 0 .. Full /\ reading' \in 0 .. Full \cup {Unknown}
    BY <1>t, <2>3, LevelsType DEF TypeOK
  <2>5. seen' \in History
    BY <1>t, <2>3 DEF History, TypeOK
  <2>6. job' \in Jobs' /\ ran' = FALSE
    BY <1>14, <1>t DEF Tick, Jobs, Slots
  <2>7. QED
    BY <1>14, <1>t, <2>1, <2>2, <2>4, <2>5, <2>6 DEF Tick, TypeInv, TypeOK, Jobs, Slots
<1>15. CASE UNCHANGED vars
  BY <1>15, <1>t DEF vars, TypeInv, TypeOK, world, people, Jobs, Slots
<1>16. QED
  BY <1>1, <1>2, <1>3, <1>4, <1>6, <1>7, <1>8, <1>9, <1>10, <1>11, <1>12, <1>13, <1>14,
     <1>15 DEF Next

\* What a run decides on: nothing before it has asked for prices, then one of
\* the two lists GetPriceSlots may have, the whole one only once it is published.
ListInHand ==
  /\ job.step \in {"idle", "safety", "auto", "prices"} => job.slots = {}
  /\ job.step \in {"battery", "apply"} =>
       \/ job.slots = {s \in prices : s.from < Today}
       \/ published /\ job.slots = prices

LEMMA ListInit == Init => ListInHand
BY DEF Init, ListInHand, NoRun

LEMMA ListNext == TypeInv /\ ListInHand /\ [Next]_vars => ListInHand'
<1> SUFFICES ASSUME TypeInv, ListInHand, [Next]_vars
             PROVE  ListInHand'
  OBVIOUS
<1>t. job \in Jobs
  BY DEF TypeInv
<1>s. ASSUME UNCHANGED <<prices, job>>, published => published'
      PROVE  ListInHand'
  BY <1>s DEF ListInHand
<1>r. ASSUME Return
      PROVE  ListInHand'
  BY <1>r DEF Return, NoRun, ListInHand
<1>g. ASSUME NEW step \in {"safety", "auto", "prices"}, GoTo(step), job.slots = {}
      PROVE  ListInHand'
  <2>1. job'.step = step /\ job'.slots = {}
    BY <1>t, <1>g DEF GoTo, Jobs
  <2>2. QED
    BY <2>1 DEF ListInHand
<1>1. ASSUME ReadHouse \/ ReadHouseFails
      PROVE  ListInHand'
  <2>1. job.slots = {}
    BY <1>1 DEF ReadHouse, ReadHouseFails, ListInHand
  <2>2. QED
    BY <1>1, <1>g, <2>1 DEF ReadHouse, ReadHouseFails
<1>2. ASSUME ReadAuto
      PROVE  ListInHand'
  <2>1. job.slots = {}
    BY <1>2 DEF ReadAuto, ListInHand
  <2>2. QED
    BY <1>2, <1>g, <1>r, <2>1 DEF ReadAuto
<1>3. ASSUME ReadPrices
      PROVE  ListInHand'
  <2>1. job'.step = "battery" /\ job'.slots = Known /\ UNCHANGED <<prices, published>>
    BY <1>3, <1>t DEF ReadPrices, Jobs, world
  <2>2. QED
    BY <2>1 DEF Known, ListInHand
<1>4. ASSUME NEW level, DecideWith(level)
      PROVE  ListInHand'
  <2> DEFINE outcomes == OptimizeCheapestHours(job.slots, now, level, weekend)
  <2>1. \/ Return
        \/ \E on \in outcomes : job' = [job EXCEPT !.step = "apply", !.on = on]
    BY <1>4 DEF DecideWith
  <2>2. job.step = "battery" /\ UNCHANGED <<prices, published>>
    BY <1>4 DEF DecideWith, world
  <2> HIDE DEF outcomes
  <2>3. CASE \E on \in outcomes : job' = [job EXCEPT !.step = "apply", !.on = on]
    <3>1. job'.step = "apply" /\ job'.slots = job.slots
      BY <1>t, <2>3 DEF Jobs
    <3>2. QED
      BY <2>2, <3>1 DEF ListInHand
  <2>4. QED
    BY <1>r, <2>1, <2>3
<1>5. ASSUME ReadBattery \/ ReadBatteryFails
      PROVE  ListInHand'
  BY <1>4, <1>5 DEF ReadBattery, ReadBatteryFails
<1>6. ASSUME SafetyOff \/ Apply \/ RunFails
      PROVE  ListInHand'
  BY <1>6, <1>r DEF SafetyOff, Apply, RunFails
<1>7. CASE PublishPrices
  BY <1>7, <1>s DEF PublishPrices, world
<1>8. ASSUME NEW m \in Modes, SetMode(m)
      PROVE  ListInHand'
  BY <1>8, <1>s DEF SetMode, world
<1>9. ASSUME NEW on \in BOOLEAN, SetAuto(on) \/ SwitchByHand(on)
      PROVE  ListInHand'
  BY <1>9, <1>s DEF SetAuto, SwitchByHand, world
<1>10. ASSUME NEW s \in {"live", "frozen", "absent"}, SetSensor(s)
       PROVE  ListInHand'
  BY <1>10, <1>s DEF SetSensor, world
<1>11. CASE Tick
  BY <1>11, <1>s DEF Tick
<1>12. CASE UNCHANGED vars
  BY <1>12, <1>s DEF vars, world
<1>13. QED
  BY <1>1, <1>2, <1>3, <1>5, <1>6, <1>7, <1>8, <1>9, <1>10, <1>11, <1>12 DEF Next

\* Every variable of the laptop charger keeps its type, whatever the prices, rates and
\* levels are, and a run decides on a list that was to be had: none before it has asked,
\* then the slots of today or, once they are published, those of both days.
THEOREM TypeCorrect == Spec => [](TypeOK /\ ListInHand)
<1>1. TypeInv => TypeOK
  BY DEF TypeInv
<1>2. QED
  BY <1>1, TypeInit, TypeNext, ListInit, ListNext, PTL DEF Spec

-------------------------------------------------------------------------------
(* The empty house.  AwayIsOff speaks of runs that are over; a run that is *)
(* past the safety check met a house that was not empty for long, or       *)
(* somebody has interfered since.                                          *)

PastSafety == job.step \in {"auto", "prices", "battery", "apply"}

AwayInv == AwayIsOff /\ (PastSafety /\ AwayTooLong => ~seen.calm)

LEMMA AwayInit == Init => AwayInv
BY DEF Init, AwayInv, AwayIsOff, PastSafety, NoRun

LEMMA AwayNext == TypeInv /\ AwayInv /\ [Next]_vars => AwayInv'
<1> SUFFICES ASSUME TypeInv, AwayInv, [Next]_vars
             PROVE  AwayInv'
  OBVIOUS
<1>t. /\ job.step \in Steps /\ ran \in BOOLEAN /\ (ran => job.step = "idle")
      /\ job \in Jobs /\ seen \in History
  BY DEF TypeInv, TypeOK, NoRun
<1>1. ASSUME ReadHouse
      PROVE  AwayInv'
  BY <1>1, <1>t DEF ReadHouse, GoTo, people, AwayInv, AwayIsOff, PastSafety, AwayTooLong,
     Jobs
\* Whoever interferes ends the calm.
<1>2. ASSUME seen' = Disturbed
      PROVE  AwayInv'
  BY <1>2, <1>t, DisturbedType DEF AwayInv, AwayIsOff
<1>3. ASSUME SafetyOff
      PROVE  AwayInv'
  BY <1>3 DEF SafetyOff, Return, NoRun, AwayInv, AwayIsOff, PastSafety
\* A run past the safety check goes on or ends.
<1>4. ASSUME PastSafety, UNCHANGED people, seen'.calm => seen.calm
      PROVE  AwayInv'
  BY <1>4 DEF AwayInv, AwayIsOff, PastSafety, AwayTooLong, people
<1>5. ASSUME ReadAuto \/ ReadPrices \/ ReadBattery \/ Apply
      PROVE  AwayInv'
  <2>1. PastSafety
    BY <1>5 DEF ReadAuto, ReadPrices, ReadBattery, DecideWith, Apply, PastSafety
  <2>2. UNCHANGED people
    BY <1>5 DEF ReadAuto, ReadPrices, ReadBattery, DecideWith, Apply
  <2>3. seen'.calm = seen.calm
    BY <1>5, <1>t DEF ReadAuto, ReadPrices, ReadBattery, Apply, History
  <2>4. QED
    BY <1>4, <2>1, <2>2, <2>3
<1>6. ASSUME NEW on \in BOOLEAN, SetAuto(on)
      PROVE  AwayInv'
  <2>1. seen'.calm = FALSE
    BY <1>6, <1>t DEF SetAuto, Disturbed, History
  <2>2. QED
    BY <2>1 DEF AwayInv, AwayIsOff
<1>7. ASSUME UNCHANGED <<people, socket, job, ran, seen>>
      PROVE  AwayInv'
  BY <1>7 DEF people, AwayInv, AwayIsOff, PastSafety, AwayTooLong
<1>8. ASSUME Tick
      PROVE  AwayInv'
  BY <1>8, <1>t DEF Tick, AwayInv, AwayIsOff, PastSafety
<1>9. QED
  BY <1>1, <1>2, <1>3, <1>5, <1>6, <1>7, <1>8 DEF Next, ReadHouseFails,
     ReadBatteryFails, RunFails, PublishPrices, SetMode, SwitchByHand, SetSensor, vars,
     people

\* In a house that was left two hours ago each run leaves the socket off, for any
\* prices, levels and switch of the automatic mode (the safety check of
\* optimizeCharging); failed calls and people at the switch excepted.
THEOREM EmptyHouseIsOff == Spec => []AwayIsOff
<1>1. Spec => []TypeInv
  BY TypeInit, TypeNext, PTL DEF Spec
<1>2. AwayInv => AwayIsOff
  BY DEF AwayInv
<1>3. QED
  BY <1>1, <1>2, AwayInit, AwayNext, PTL DEF Spec

-------------------------------------------------------------------------------
(* The automatic mode.  A run that was past its check when the mode was    *)
(* switched off may still apply its decision; the next one does not get    *)
(* there.                                                                  *)

PastAuto == job.step \in {"prices", "battery", "apply"}

LateInv == OneLateCommand /\ (seen.late > 0 => ~auto /\ ~PastAuto)

LEMMA LateInit == Init => LateInv
BY DEF Init, LateInv, OneLateCommand

LEMMA LateNext == TypeInv /\ LateInv /\ [Next]_vars => LateInv'
<1> SUFFICES ASSUME TypeInv, LateInv, [Next]_vars
             PROVE  LateInv'
  OBVIOUS
<1>t. /\ auto \in BOOLEAN /\ job \in Jobs
      /\ seen \in History /\ seen.late \in Nat
  BY DEF TypeInv, TypeOK, History
<1>1. ASSUME seen'.late = seen.late, UNCHANGED auto, PastAuto' => PastAuto
      PROVE  LateInv'
  BY <1>1 DEF LateInv, OneLateCommand
<1>2. ASSUME ReadHouse \/ ReadHouseFails \/ SafetyOff \/ RunFails
      PROVE  LateInv'
  <2>1. UNCHANGED auto
    BY <1>2 DEF ReadHouse, ReadHouseFails, SafetyOff, RunFails, people
  <2>2. seen'.late = seen.late
    BY <1>2, <1>t, DisturbedType DEF ReadHouse, ReadHouseFails, SafetyOff, RunFails
  <2>3. ~PastAuto'
    BY <1>2, <1>t DEF ReadHouse, ReadHouseFails, SafetyOff, RunFails, GoTo, Return, NoRun,
       PastAuto, Jobs
  <2>4. QED
    BY <1>1, <2>1, <2>2, <2>3
<1>3. ASSUME ReadAuto
      PROVE  LateInv'
  <2>1. CASE auto
    BY <1>3, <1>t, <2>1 DEF ReadAuto, people, LateInv, OneLateCommand
  <2>2. CASE ~auto
    BY <1>1, <1>3, <2>2 DEF ReadAuto, people, Return, NoRun, PastAuto
  <2>3. QED
    BY <2>1, <2>2
<1>4. ASSUME ReadPrices \/ ReadBattery \/ ReadBatteryFails
      PROVE  LateInv'
  <2>1. PastAuto /\ UNCHANGED auto
    BY <1>4 DEF ReadPrices, ReadBattery, ReadBatteryFails, DecideWith, people, PastAuto
  <2>2. seen'.late = seen.late
    BY <1>4, <1>t, DisturbedType DEF ReadPrices, ReadBattery, ReadBatteryFails, History
  <2>3. QED
    BY <1>1, <2>1, <2>2
<1>5. ASSUME Apply
      PROVE  LateInv'
  <2>1. seen.late = 0
    BY <1>5, <1>t DEF Apply, LateInv, PastAuto
  <2>2. UNCHANGED auto /\ ~PastAuto'
    BY <1>5 DEF Apply, Return, NoRun, people, PastAuto
  <2>3. seen'.late = IF auto THEN 0 ELSE 1
    BY <1>5, <1>t, <2>1 DEF Apply, History
  <2>4. QED
    BY <2>2, <2>3 DEF LateInv, OneLateCommand
<1>6. ASSUME NEW on \in BOOLEAN, SetAuto(on)
      PROVE  LateInv'
  <2>1. seen'.late = 0
    BY <1>6, <1>t, DisturbedType DEF SetAuto, History
  <2>2. QED
    BY <2>1 DEF LateInv, OneLateCommand
<1>7. ASSUME UNCHANGED <<auto, job>>, seen' \in {seen, Disturbed}
      PROVE  LateInv'
  BY <1>1, <1>7, <1>t, DisturbedType DEF PastAuto
<1>8. ASSUME Tick
      PROVE  LateInv'
  <2>1. seen'.late = seen.late
    BY <1>8, <1>t DEF Tick, History
  <2>2. QED
    BY <1>1, <1>8, <2>1 DEF Tick, PastAuto
<1>9. QED
  BY <1>2, <1>3, <1>4, <1>5, <1>6, <1>7, <1>8 DEF Next, PublishPrices, SetMode,
     SwitchByHand, SetSensor, vars, people

\* However people use the switch of the automatic mode, a run applies at most one
\* decision after it was switched off (optimizeCharging reads it before the prices).
THEOREM AtMostOneLateCommand == Spec => []OneLateCommand
<1>1. Spec => []TypeInv
  BY TypeInit, TypeNext, PTL DEF Spec
<1>2. LateInv => OneLateCommand
  BY DEF LateInv
<1>3. QED
  BY <1>1, <1>2, LateInit, LateNext, PTL DEF Spec

-------------------------------------------------------------------------------
(* The battery.  While nothing interferes in the critical hours, a run     *)
(* puts the socket on when the level it reads is below the minimum; with   *)
(* no level to read, it does so from the hour on in which half of          *)
(* DrainRate is over, and until then the battery cannot have lost more     *)
(* than the time explains.                                                 *)

LEMMA ModNext ==
  ASSUME NEW a \in Nat, NEW n \in Nat \ {0}
  PROVE  (a + 1) % n = IF a % n = n - 1 THEN 0 ELSE (a % n) + 1
<1> DEFINE q == a \div n
           r == a % n
<1>0. a \in Int /\ a + 1 \in Int
  OBVIOUS
<1>1. q \in Int /\ r \in 0 .. n - 1 /\ a = n * q + r
  BY <1>0, DivMod, Zenon
<1> HIDE DEF q, r
<1>2. CASE r = n - 1
  <2>1. n * (q + 1) = n * q + n
    BY <1>1
  <2>2. a + 1 = n * (q + 1) + 0 /\ q + 1 \in Int /\ 0 \in 0 .. n - 1
    BY <1>0, <1>1, <1>2, <2>1
  <2>3. (a + 1) % n = 0
    BY <1>0, <1>1, <2>2, DivUnique
  <2>4. QED
    BY <1>2, <2>3 DEF r
<1>3. CASE r # n - 1
  <2>1. a + 1 = n * q + (r + 1) /\ r + 1 \in 0 .. n - 1
    BY <1>0, <1>1, <1>3
  <2>2. (a + 1) % n = r + 1
    BY <1>0, <1>1, <2>1, DivUnique
  <2>3. QED
    BY <1>3, <2>2 DEF r
<1>4. QED
  BY <1>2, <1>3

\* A shorter step stays in its unit of n or enters the next one.
LEMMA DivStep ==
  ASSUME NEW a \in Nat, NEW n \in Nat \ {0}, NEW d \in 0 .. n
  PROVE  \/ (a + d) \div n = a \div n /\ (a + d) % n = (a % n) + d
         \/ (a + d) \div n = (a \div n) + 1 /\ (a + d) % n = (a % n) + d - n
<1> DEFINE q == a \div n
           r == a % n
<1>0. a \in Int /\ a + d \in Int
  OBVIOUS
<1>1. q \in Int /\ r \in 0 .. n - 1 /\ a = n * q + r
  BY <1>0, DivMod, Zenon
<1> HIDE DEF q, r
<1>2. CASE r + d < n
  <2>1. a + d = n * q + (r + d) /\ r + d \in 0 .. n - 1
    BY <1>0, <1>1, <1>2
  <2>2. (a + d) \div n = q /\ (a + d) % n = r + d
    BY <1>0, <1>1, <2>1, DivUnique
  <2>3. QED
    BY <2>2 DEF q, r
<1>3. CASE ~(r + d < n)
  <2>1. n * (q + 1) = n * q + n
    BY <1>1
  <2>2. a + d = n * (q + 1) + (r + d - n) /\ r + d - n \in 0 .. n - 1 /\ q + 1 \in Int
    BY <1>0, <1>1, <1>3, <2>1
  <2>3. (a + d) \div n = q + 1 /\ (a + d) % n = r + d - n
    BY <1>0, <1>1, <2>2, DivUnique
  <2>4. QED
    BY <2>3 DEF q, r
<1>4. QED
  BY <1>2, <1>3

\* How long the critical hours last at time t.
Elapsed(t) == (Hour(t) - CriticalHoursStart) * HourLength + (t % HourLength)

LEMMA HourType ==
  ASSUME NEW t \in Nat
  PROVE  /\ Hour(t) \in 0 .. DayHours - 1
         /\ t \div HourLength \in Nat /\ t % HourLength \in 0 .. HourLength - 1
<1>0. t \in Int /\ HourLength \in Nat \ {0}
  OBVIOUS
<1>1. t % HourLength \in 0 .. HourLength - 1
  BY <1>0, DivMod, Zenon
<1>2. t \div HourLength \in Nat
  BY SMT
<1>3. StartHour + (t \div HourLength) \in Int
  BY <1>2
<1>4. QED
  BY <1>1, <1>2, <1>3, DivMod DEF Hour

LEMMA ElapsedType ==
  ASSUME Profile, NEW t \in Nat, InCriticalHours(Hour(t))
  PROVE  Elapsed(t) \in Nat
<1>1. Hour(t) - CriticalHoursStart \in Nat
  BY HourType DEF Profile, InCriticalHours
<1>2. (Hour(t) - CriticalHoursStart) * HourLength \in Nat
  BY <1>1
<1>3. QED
  BY <1>2, HourType DEF Elapsed

\* The critical hours go on: time has passed, and the hour is not an earlier one.
LEMMA NextHour ==
  ASSUME Profile, NEW t \in Nat,
         InCriticalHours(Hour(t)), InCriticalHours(Hour(t + Unit))
  PROVE  Hour(t) <= Hour(t + Unit) /\ Elapsed(t + Unit) = Elapsed(t) + Unit
<1> DEFINE q == t \div HourLength
           r == t % HourLength
           p == (t + Unit) \div HourLength
           s == (t + Unit) % HourLength
           h == Hour(t)
           g == Hour(t + Unit)
<1>1. /\ h \in 0 .. DayHours - 1 /\ g \in 0 .. DayHours - 1
      /\ q \in Nat /\ r \in 0 .. HourLength - 1
  BY HourType
<1>2. \/ p = q /\ s = r + Unit
      \/ p = q + 1 /\ s = r + Unit - HourLength
  <2>1. Unit \in 0 .. HourLength
    BY DEF Profile
  <2>2. QED
    BY <2>1, DivStep
<1>3. g # 0
  BY DEF InCriticalHours, Profile
<1>4. \/ g = h /\ s = r + Unit
      \/ g = h + 1 /\ s = r + Unit - HourLength
  <2>1. CASE p = q /\ s = r + Unit
    BY <2>1 DEF Hour
  <2>2. CASE p = q + 1 /\ s = r + Unit - HourLength
    <3>1. h = (StartHour + q) % DayHours /\ g = (StartHour + p) % DayHours
      BY DEF Hour
    <3> HIDE DEF q, p, s, r, h, g
    <3>2. StartHour + q \in Nat /\ StartHour + p = (StartHour + q) + 1
      BY <1>1, <2>2
    <3>3. g = h + 1
      BY <1>3, <3>1, <3>2, ModNext
    <3>4. QED
      BY <2>2, <3>3
  <2>3. QED
    BY <1>2, <2>1, <2>2
<1>5. Elapsed(t) = (h - CriticalHoursStart) * HourLength + r
  BY DEF Elapsed
<1>6. Elapsed(t + Unit) = (g - CriticalHoursStart) * HourLength + s
  BY DEF Elapsed
<1> HIDE DEF q, r, p, s, h, g
<1>7. (h + 1 - CriticalHoursStart) * HourLength
        = (h - CriticalHoursStart) * HourLength + HourLength
  BY <1>1
<1>8. h <= g
  BY <1>1, <1>4
<1>9. Elapsed(t + Unit) = Elapsed(t) + Unit
  <2> DEFINE x == (h - CriticalHoursStart) * HourLength
  <2>1. x \in Int /\ r \in Int
    BY <1>1
  <2>2. CASE g = h /\ s = r + Unit
    BY <1>5, <1>6, <2>1, <2>2
  <2>3. CASE g = h + 1 /\ s = r + Unit - HourLength
    <3>1. (g - CriticalHoursStart) * HourLength = x + HourLength
      <4>1. (g - CriticalHoursStart) * HourLength = (h + 1 - CriticalHoursStart) * HourLength
        BY <1>1, <2>3
      <4>2. QED
        BY <1>7, <4>1
    <3> HIDE DEF x
    <3>2. Elapsed(t) = x + r
      BY <1>5 DEF x
    <3>3. QED
      BY <1>6, <2>1, <2>3, <3>1, <3>2
  <2>4. QED
    BY <1>4, <2>2, <2>3
<1>10. QED
  BY <1>8, <1>9 DEF h, g

\* The time explains what the battery has lost since it was full.
Explains(level, t) == level * Unit + Drain * Elapsed(t) >= Full * Unit

LEMMA StillExplains ==
  ASSUME NEW b \in 0 .. Full, NEW c \in 0 .. Full, c >= b - Drain,
         NEW t, NEW u, Elapsed(t) \in Nat, Elapsed(u) = Elapsed(t) + Unit, Explains(b, t)
  PROVE  Explains(c, u)
<1>1. PICK e \in Nat : e = Elapsed(t)
  OBVIOUS
<1>2. b * Unit + Drain * e >= Full * Unit
  BY <1>1 DEF Explains
<1>3. c * Unit >= b * Unit - Drain * Unit
  <2>1. PICK k \in Nat : c = b - Drain + k
    <3>1. c - (b - Drain) \in Nat /\ c = b - Drain + (c - (b - Drain))
      OBVIOUS
    <3>2. QED
      BY <3>1
  <2>2. c * Unit = b * Unit - Drain * Unit + k * Unit /\ k * Unit \in Nat
    BY <2>1
  <2>3. QED
    BY <2>2
<1>4. Drain * (e + Unit) = Drain * e + Drain * Unit
  BY <1>1
<1>5. c * Unit + Drain * (e + Unit) >= Full * Unit
  BY <1>1, <1>2, <1>3, <1>4
<1>6. QED
  BY <1>1, <1>5 DEF Explains

LEMMA SomeLeft ==
  ASSUME Profile, NEW c \in 0 .. Full, NEW u, Elapsed(u) \in Nat,
         Elapsed(u) < DrainRate, Explains(c, u)
  PROVE  c > 0
<1>1. PICK e \in Nat : e = Elapsed(u)
  OBVIOUS
<1>2. SUFFICES ASSUME c = 0
               PROVE  FALSE
  OBVIOUS
<1>3. Drain * e >= Full * Unit /\ Full * Unit >= 1
  BY <1>1, <1>2 DEF Explains
<1>4. Drain * DrainRate <= Full * Unit
  BY DEF Profile
<1>5. PICK k \in Nat \ {0} : DrainRate = e + k
  <2>1. DrainRate - e \in Nat \ {0} /\ DrainRate = e + (DrainRate - e)
    BY <1>1
  <2>2. QED
    BY <2>1
<1>6. Drain * DrainRate = Drain * e + Drain * k
  BY <1>5
<1>7. CASE Drain = 0
  BY <1>1, <1>3, <1>7
<1>8. CASE Drain # 0
  <2>1. Drain * k >= 1
    BY <1>5, <1>8
  <2>2. QED
    BY <1>3, <1>4, <1>6, <2>1
<1>9. QED
  BY <1>7, <1>8

\* Where half of DrainRate is not over yet, the other half outlasts the next interval.
LEMMA TimeLeft ==
  ASSUME Profile, NEW t \in Nat, InCriticalHours(Hour(t)), ~ChargeByEstimation(t)
  PROVE  Elapsed(t) + Unit < DrainRate
<1>1. Hour(t) \in Int /\ t % HourLength \in 0 .. HourLength - 1
  BY HourType
<1>2. PICK x \in Int : x = (Hour(t) - CriticalHoursStart) * HourLength
  BY <1>1
<1>3. 2 * (Hour(t) - CriticalHoursStart) * HourLength = 2 * x
  BY <1>1, <1>2
<1>4. DrainRate > 0 /\ 2 * (HourLength + Unit) <= DrainRate
  BY DEF Profile
<1>5. 2 * x <= DrainRate
  BY <1>1, <1>3, <1>4 DEF ChargeByEstimation
<1>6. Elapsed(t) = x + (t % HourLength)
  BY <1>2 DEF Elapsed
<1>7. QED
  BY <1>1, <1>2, <1>4, <1>5, <1>6

LEMMA NextLevel ==
  ASSUME battery \in 0 .. Full, NEW level \in Levels
  PROVE  level \in 0 .. Full /\ level >= battery - Drain /\ (socket \/ Night => level >= battery)
<1>1. Min({Full, battery + Charge}) >= battery /\ Min({Full, battery + Charge}) \in 0 .. Full
  BY MinOfTwo
<1>2. Max({0, battery - Drain}) >= battery - Drain /\ Max({0, battery - Drain}) \in 0 .. Full
  BY MaxOfTwo
<1>3. CASE socket
  BY <1>1, <1>3 DEF Levels
<1>4. CASE ~socket
  BY <1>2, <1>4 DEF Levels
<1>5. QED
  BY <1>3, <1>4

Pressing == ChargeByEstimation(now)

\* The decision that is made, and the socket after the run, meet a need.
Obeyed(need) ==
  /\ job.step = "apply" /\ need => job.on
  /\ ran /\ need => socket

UptimeInv ==
  ~Night /\ (seen.informed \/ seen.blind) =>
     /\ auto /\ mode = "Home" /\ job.step # "safety"
     /\ battery > 0
     /\ seen.informed => Obeyed(battery < MinBatteryPercent)
     /\ seen.blind => (Pressing \/ Explains(battery, now)) /\ Obeyed(Pressing)

\* In the critical hours there is always a decision, and it meets the need that the
\* level shows, or the hour if there is none.
LEMMA CriticalDecision ==
  ASSUME Profile, NEW slots, NEW t, NEW level \in 0 .. Full, NEW isWeekend,
         InCriticalHours(Hour(t)),
         NEW on \in OptimizeCheapestHours(slots, t, level, isWeekend)
  PROVE  /\ level > 0 /\ level < MinBatteryPercent => on
         /\ level = 0 /\ ChargeByEstimation(t) => on
<1>1. on \in CriticalHoursCharging(slots, t, level, isWeekend)
  BY DEF OptimizeCheapestHours, HasCriticalHours, Profile
<1>2. CASE level > 0
  BY <1>1, <1>2 DEF CriticalHoursCharging, ChargeBySensor
<1>3. CASE level = 0
  BY <1>1, <1>3 DEF CriticalHoursCharging
<1>4. QED
  BY <1>2, <1>3

LEMMA AlwaysDecision ==
  ASSUME Profile, NEW slots, NEW t, NEW level, NEW isWeekend, InCriticalHours(Hour(t))
  PROVE  OptimizeCheapestHours(slots, t, level, isWeekend) # {}
<1>1. OptimizeCheapestHours(slots, t, level, isWeekend)
        = CriticalHoursCharging(slots, t, level, isWeekend)
  BY DEF OptimizeCheapestHours, HasCriticalHours, Profile
<1>2. QED
  BY <1>1 DEF CriticalHoursCharging

LEMMA UptimeInit == Init => UptimeInv
BY DEF Init, UptimeInv

LEMMA UptimeTick ==
  ASSUME Profile, TypeInv, UptimeInv, Tick
  PROVE  UptimeInv'
<1> SUFFICES ASSUME ~Night', seen'.informed \/ seen'.blind
             PROVE  /\ auto' /\ mode' = "Home" /\ job'.step # "safety"
                    /\ battery' > 0
                    /\ seen'.informed => Obeyed(battery < MinBatteryPercent)'
                    /\ seen'.blind =>
                         (Pressing \/ Explains(battery, now))' /\ Obeyed(Pressing)'
  BY DEF UptimeInv
<1>t. /\ now \in Nat /\ battery \in 0 .. Full /\ seen \in History
      /\ job = NoRun /\ ran /\ now' = now + Unit /\ now' \in Nat
  BY DEF TypeInv, TypeOK, Tick
<1>u. UNCHANGED <<auto, mode, job>> /\ ran' = FALSE
  BY DEF Tick
<1>o. Obeyed(battery < MinBatteryPercent)' /\ Obeyed(Pressing)'
  BY <1>t, <1>u DEF Obeyed, NoRun
<1>c. /\ InCriticalHours(Hour(now'))
      /\ Elapsed(now') \in Nat
  BY <1>t, ElapsedType DEF Night
<1>1. PICK level \in Levels :
        /\ battery' = level
        /\ seen' =
             IF Night /\ ~Night'
               THEN LET steady == auto /\ mode = "Home"
                    IN [seen EXCEPT !.calm = TRUE, !.priced = FALSE,
                                    !.informed = steady /\ level >= MinBatteryPercent,
                                    !.blind = steady /\ level = Full]
               ELSE [seen EXCEPT !.calm = TRUE]
  BY DEF Tick
<1>2. battery' \in 0 .. Full /\ battery' >= battery - Drain
      /\ (socket \/ Night => battery' >= battery)
  BY <1>t, <1>1, NextLevel
<1>3. CASE Night
  <2>1. /\ seen'.informed => auto /\ mode = "Home" /\ battery' >= MinBatteryPercent
        /\ seen'.blind => auto /\ mode = "Home" /\ battery' = Full
    BY <1>t, <1>1, <1>3 DEF History
  <2>2. battery' > 0
    BY <1>2, <2>1 DEF Profile
  <2>3. ASSUME battery' = Full
        PROVE  Explains(battery', now')
    <3>1. Drain * Elapsed(now') \in Nat /\ Full * Unit \in Nat
      BY <1>c
    <3>2. QED
      BY <2>3, <3>1 DEF Explains
  <2>4. QED
    BY <1>t, <1>u, <1>o, <2>1, <2>2, <2>3 DEF NoRun
<1>4. CASE ~Night
  <2>1. seen'.informed = seen.informed /\ seen'.blind = seen.blind
    BY <1>t, <1>1, <1>4 DEF History
  <2>2. /\ auto /\ mode = "Home" /\ battery > 0
        /\ seen.informed /\ battery < MinBatteryPercent => socket
        /\ seen.blind => Pressing \/ Explains(battery, now)
        /\ seen.blind /\ Pressing => socket
    BY <1>t, <1>4, <2>1 DEF UptimeInv, Obeyed
  <2>3. Hour(now) <= Hour(now') /\ Elapsed(now') = Elapsed(now) + Unit
    BY <1>t, <1>4, <1>c, NextHour DEF Night
  <2>4. InCriticalHours(Hour(now)) /\ Elapsed(now) \in Nat
    BY <1>t, <1>4, ElapsedType DEF Night
  <2>5. ASSUME seen.informed
        PROVE  battery' > 0
    <3>1. CASE battery < MinBatteryPercent
      BY <1>t, <1>2, <2>2, <2>5, <3>1
    <3>2. CASE ~(battery < MinBatteryPercent)
      BY <1>t, <1>2, <3>2 DEF Profile
    <3>3. QED
      BY <3>1, <3>2
  <2>6. ASSUME seen.blind
        PROVE  battery' > 0 /\ (ChargeByEstimation(now') \/ Explains(battery', now'))
    <3>1. CASE Pressing
      <4>1. battery' > 0
        BY <1>t, <1>2, <2>2, <2>6, <3>1
      <4>2. ChargeByEstimation(now')
        <5>1. Hour(now) \in Int /\ Hour(now') \in Int
          BY <1>t, HourType
        <5>2. PICK k \in Nat : Hour(now') = Hour(now) + k
          <6>1. Hour(now') - Hour(now) \in Nat
                /\ Hour(now') = Hour(now) + (Hour(now') - Hour(now))
            BY <2>3, <5>1
          <6>2. QED
            BY <6>1
        <5>3. 2 * (Hour(now') - CriticalHoursStart) * HourLength
                = 2 * (Hour(now) - CriticalHoursStart) * HourLength + 2 * k * HourLength
          BY <5>1, <5>2
        <5>4. 2 * k * HourLength \in Nat
              /\ 2 * (Hour(now) - CriticalHoursStart) * HourLength \in Int
          BY <5>1, <5>2
        <5>5. QED
          BY <3>1, <5>3, <5>4 DEF Pressing, ChargeByEstimation
      <4>3. QED
        BY <4>1, <4>2
    <3>2. CASE ~Pressing
      <4>1. Explains(battery, now)
        BY <2>2, <2>6, <3>2
      <4>2. Explains(battery', now')
        BY <1>t, <1>2, <2>3, <2>4, <4>1, StillExplains
      <4>3. Elapsed(now') < DrainRate
        BY <1>t, <2>3, <2>4, <3>2, TimeLeft DEF Pressing
      <4>4. battery' > 0
        BY <1>2, <1>c, <4>2, <4>3, SomeLeft
      <4>5. QED
        BY <4>2, <4>4
    <3>3. QED
      BY <3>1, <3>2
  <2>7. QED
    BY <1>t, <1>u, <1>o, <2>1, <2>2, <2>5, <2>6 DEF NoRun, Pressing
<1>5. QED
  BY <1>3, <1>4

LEMMA UptimeNext == Profile /\ TypeInv /\ UptimeInv /\ [Next]_vars => UptimeInv'
<1> SUFFICES ASSUME Profile, TypeInv, UptimeInv, [Next]_vars
             PROVE  UptimeInv'
  OBVIOUS
<1>t. /\ job \in Jobs /\ seen \in History /\ ran \in BOOLEAN /\ (ran => job = NoRun)
      /\ battery \in 0 .. Full
  BY DEF TypeInv, TypeOK
<1>n. ASSUME UNCHANGED now
      PROVE  Night' = Night /\ Pressing' = Pressing
  BY <1>n DEF Night, Pressing
\* Whoever interferes ends both promises.
<1>1. ASSUME ~seen'.informed, ~seen'.blind
      PROVE  UptimeInv'
  BY <1>1 DEF UptimeInv
<1>2. ASSUME seen' = Disturbed
      PROVE  UptimeInv'
  BY <1>1, <1>2, <1>t DEF Disturbed, History
\* The run goes on or ends, and nothing else happens.
<1>3. ASSUME UNCHANGED <<now, auto, mode, battery>>,
             seen'.informed => seen.informed, seen'.blind => seen.blind,
             ~Night /\ (seen'.informed \/ seen'.blind) => job'.step # "safety",
             ~Night /\ seen'.informed => Obeyed(battery < MinBatteryPercent)',
             ~Night /\ seen'.blind => Obeyed(Pressing)'
      PROVE  UptimeInv'
  <2>1. Night' = Night /\ Pressing' = Pressing
        /\ (Explains(battery, now)' <=> Explains(battery, now))
    BY <1>3, <1>n
  <2>2. QED
    BY <1>3, <2>1 DEF UptimeInv
<1>4. ASSUME UNCHANGED <<now, auto, mode, battery, socket, ran, job>>,
             seen'.informed = seen.informed, seen'.blind = seen.blind
      PROVE  UptimeInv'
  <2>1. Night' = Night /\ Pressing' = Pressing
        /\ (Explains(battery, now)' <=> Explains(battery, now))
    BY <1>4, <1>n
  <2>2. QED
    BY <1>4, <2>1 DEF UptimeInv, Obeyed
<1>5. ASSUME ReadHouse
      PROVE  UptimeInv'
  <2>1. ~Night /\ (seen'.informed \/ seen'.blind) => job'.step # "safety"
    BY <1>5, <1>t DEF ReadHouse, UptimeInv, GoTo, AwayTooLong, AwayModes, Jobs
  <2>2. Obeyed(battery < MinBatteryPercent)' /\ Obeyed(Pressing)'
    BY <1>5, <1>t DEF ReadHouse, GoTo, Obeyed, Jobs
  <2>3. QED
    BY <1>3, <1>5, <2>1, <2>2 DEF ReadHouse, world, people
<1>6. ASSUME SafetyOff
      PROVE  UptimeInv'
  <2>1. Night \/ ~(seen.informed \/ seen.blind)
    BY <1>6 DEF SafetyOff, UptimeInv
  <2>2. QED
    BY <1>6, <1>n, <2>1 DEF SafetyOff, world, people, UptimeInv
<1>7. ASSUME ReadAuto
      PROVE  UptimeInv'
  <2>1. CASE auto
    <3>1. ~ran' /\ job'.step = "prices"
      BY <1>7, <1>t, <2>1 DEF ReadAuto, GoTo, Jobs, NoRun
    <3>2. QED
      BY <1>3, <1>7, <3>1 DEF ReadAuto, world, people, Obeyed
  <2>2. CASE ~auto
    <3>1. Night \/ ~(seen.informed \/ seen.blind)
      BY <2>2 DEF UptimeInv
    <3>2. QED
      BY <1>7, <1>n, <3>1 DEF ReadAuto, world, people, UptimeInv
  <2>3. QED
    BY <2>1, <2>2
<1>8. ASSUME ReadPrices
      PROVE  UptimeInv'
  <2>1. ~ran' /\ job'.step = "battery"
    BY <1>8, <1>t DEF ReadPrices, Jobs, NoRun
  <2>2. seen'.informed = seen.informed /\ seen'.blind = seen.blind
    BY <1>8, <1>t DEF ReadPrices, History
  <2>3. QED
    BY <1>3, <1>8, <2>1, <2>2 DEF ReadPrices, world, people, Obeyed
<1>9. ASSUME ReadBattery
      PROVE  UptimeInv'
  <2> DEFINE outcomes == OptimizeCheapestHours(job.slots, now, Level, weekend)
  <2>1. UNCHANGED <<now, auto, mode, battery, socket>> /\ job.step = "battery"
    BY <1>9 DEF ReadBattery, DecideWith, world, people
  <2>d. \/ outcomes = {}
        \/ /\ \E on \in outcomes : job' = [job EXCEPT !.step = "apply", !.on = on]
           /\ UNCHANGED ran
    BY <1>9 DEF ReadBattery, DecideWith
  <2>n. Night' = Night /\ Pressing' = Pressing
    BY <1>n, <2>1
  <2>2. /\ seen'.informed => seen.informed /\ reading = battery
        /\ seen'.blind => seen.blind /\ reading = Unknown
    BY <1>9, <1>t DEF ReadBattery, History
  <2>o. outcomes \subseteq BOOLEAN
    BY DecisionType
  <2>a. ASSUME ~Night
        PROVE  outcomes # {}
    BY <2>a, AlwaysDecision DEF Night
  <2> HIDE DEF outcomes
  <2>3. CASE Night \/ ~(seen.informed \/ seen.blind)
    <3>1. Night' \/ ~(seen'.informed \/ seen'.blind)
      BY <2>n, <2>2, <2>3
    <3>2. QED
      BY <3>1 DEF UptimeInv
  <2>4. CASE ~Night /\ (seen.informed \/ seen.blind)
    <3>1. InCriticalHours(Hour(now))
      BY <2>4 DEF Night
    <3>2. outcomes # {}
      BY <2>4, <2>a
    <3>3. PICK on \in outcomes : job' = [job EXCEPT !.step = "apply", !.on = on]
      BY <2>d, <3>2
    <3>4. ~ran' /\ job'.step = "apply" /\ job'.on = on
      <4>1. ~ran
        BY <1>t, <2>1 DEF NoRun
      <4>2. UNCHANGED ran
        BY <2>d, <3>2
      <4>3. QED
        BY <1>t, <3>3, <4>1, <4>2 DEF Jobs
    <3>5. battery > 0 /\ on \in BOOLEAN
      BY <2>4, <2>o DEF UptimeInv
    <3>6. ASSUME seen'.informed, battery < MinBatteryPercent
          PROVE  on
      <4>1. Level = battery
        BY <1>t, <2>2, <3>6, LaptopAssumption DEF Level
      <4>2. QED
        BY <1>t, <3>1, <3>3, <3>5, <3>6, <4>1, CriticalDecision DEF outcomes
    <3>7. ASSUME seen'.blind, Pressing
          PROVE  on
      <4>1. Level = 0 /\ Level \in 0 .. Full
        BY <2>2, <3>7 DEF Level
      <4>2. QED
        BY <3>1, <3>3, <3>7, <4>1, CriticalDecision DEF outcomes, Pressing
    <3>8. /\ seen'.informed => Obeyed(battery < MinBatteryPercent)'
          /\ seen'.blind => Obeyed(Pressing)'
      BY <2>n, <2>1, <3>4, <3>5, <3>6, <3>7 DEF Obeyed
    <3>9. QED
      BY <1>3, <2>1, <2>2, <3>4, <3>8
  <2>5. QED
    BY <2>3, <2>4
<1>10. ASSUME Apply
       PROVE  UptimeInv'
  <2>1. /\ UNCHANGED <<now, auto, mode, battery>>
        /\ job.step = "apply" /\ socket' = job.on /\ job'.step = "idle"
    BY <1>10 DEF Apply, world, people, Return, NoRun
  <2>2. seen'.informed = seen.informed /\ seen'.blind = seen.blind
    BY <1>10, <1>t DEF Apply, History
  <2>3. /\ ~Night /\ seen'.informed => Obeyed(battery < MinBatteryPercent)'
        /\ ~Night /\ seen'.blind => Obeyed(Pressing)'
    BY <1>n, <2>1, <2>2 DEF Obeyed, UptimeInv
  <2>4. QED
    BY <1>3, <2>1, <2>2, <2>3
<1>11. ASSUME NEW on \in BOOLEAN, SetAuto(on)
       PROVE  UptimeInv'
  BY <1>1, <1>11, <1>t DEF SetAuto, Disturbed, History
<1>12. ASSUME PublishPrices \/ (\E s \in {"live", "frozen", "absent"} : SetSensor(s))
       PROVE  UptimeInv'
  BY <1>4, <1>12 DEF PublishPrices, SetSensor, world, people
<1>13. CASE UNCHANGED vars
  BY <1>4, <1>13 DEF vars, world, people
<1>14. QED
  BY <1>2, <1>5, <1>6, <1>7, <1>8, <1>9, <1>10, <1>11, <1>12, <1>13, UptimeTick
     DEF Next, ReadHouseFails, ReadBatteryFails, RunFails, SetMode, SwitchByHand

\* The battery never runs empty during the critical hours, for any prices, levels and
\* hours, if the proportions are those of the profile: when every run reads the true
\* level, and when none reads any and half of DrainRate has to tell
\* (handleCriticalHoursWithBatterySensor, handleCriticalHoursWithEstimation).
THEOREM UptimeIsKept ==
  ASSUME Profile
  PROVE  Spec => []NeverEmpty
<1>1. Spec => []TypeInv
  BY TypeInit, TypeNext, PTL DEF Spec
<1>2. UptimeInv => NeverEmpty
  BY DEF UptimeInv, NeverEmpty
<1>3. TypeInv /\ UptimeInv /\ [Next]_vars => UptimeInv'
  BY UptimeNext
<1>4. QED
  BY <1>1, <1>2, <1>3, UptimeInit, PTL DEF Spec

-------------------------------------------------------------------------------
(* Sums over a set of slots.                                               *)

Pick(s) == CHOOSE x \in s : TRUE

Lengths(slots) == [slot \in slots |-> slot.till - slot.from]

LEMMA DurationIsSum ==
  ASSUME NEW S, IsDay(S), NEW g, IsSum(g, S, Lengths(S))
  PROVE  Duration(S) = g[S]
<1> DEFINE Body(f) == [s \in SUBSET S |->
                        IF s = {} THEN 0
                        ELSE (Pick(s).till - Pick(s).from) + f[s \ {Pick(s)}]]
           it == CHOOSE f : f = Body(f)
<1>1. Lengths(S) \in [S -> Int] /\ IsFiniteSet(S)
  BY DEF Lengths, IsDay
<1>2. \A s \in SUBSET S : s # {} => Pick(s) \in s
  BY DEF Pick
<1>3. ASSUME NEW f
      PROVE  Body(f) = [s \in SUBSET S |-> IF s = {} THEN 0
                                             ELSE Lengths(S)[Pick(s)] + f[s \ {Pick(s)}]]
  <2>1. \A s \in SUBSET S : s # {} => Pick(s) \in S
    BY <1>2
  <2>2. \A s \in SUBSET S : s # {} => Lengths(S)[Pick(s)] = Pick(s).till - Pick(s).from
    BY <2>1 DEF Lengths
  <2>3. QED
    BY <2>2
<1>4. g = Body(g)
  <2>1. \A s \in SUBSET S : g[s] = IF s = {} THEN 0
                                   ELSE Lengths(S)[Pick(s)] + g[s \ {Pick(s)}]
    BY <1>2 DEF IsSum
  <2>2. g = [s \in SUBSET S |-> g[s]]
    BY DEF IsSum
  <2>3. g = [s \in SUBSET S |-> IF s = {} THEN 0
                                ELSE Lengths(S)[Pick(s)] + g[s \ {Pick(s)}]]
    BY <2>1, <2>2
  <2>4. QED
    BY <1>3, <2>3
<1>5. Duration(S) = it[S]
  BY DEF Duration, MapThenSumSet, MapThenFoldSet, Pick
<1> HIDE DEF Body
<1>6. it = Body(it)
  BY <1>4
<1> HIDE DEF it
<1>7. it[S] = g[S]
  <2>1. \A s \in SUBSET S : it[s] = IF s = {} THEN 0
                                    ELSE Lengths(S)[Pick(s)] + it[s \ {Pick(s)}]
    BY <1>3, <1>6
  <2>2. QED
    <3> DEFINE pick == [s \in SUBSET S |-> Pick(s)]
    <3>1. \A s \in SUBSET S : pick[s] = Pick(s)
      OBVIOUS
    <3> HIDE DEF pick
    <3>2. \A s \in SUBSET S : s # {} => pick[s] \in s
      BY <1>2, <3>1
    <3>3. \A s \in SUBSET S : it[s] = IF s = {} THEN 0
                                    ELSE Lengths(S)[pick[s]] + it[s \ {pick[s]}]
      BY <2>1, <3>1
    <3>4. IsFold(it, S, Lengths(S), pick)
      BY <3>2, <3>3, {} \in SUBSET S DEF IsFold
    <3>5. QED
      BY <1>1, <3>4, FoldIsSum
<1>8. QED
  BY <1>5, <1>7

LEMMA SubDay ==
  ASSUME NEW S, IsDay(S), NEW T \in SUBSET S
  PROVE  IsDay(T)
BY FS_Subset DEF IsDay

\* Durations of the parts of a list.
LEMMA DurationSums ==
  ASSUME NEW S, IsDay(S)
  PROVE  \E g : IsSum(g, S, Lengths(S)) /\ \A T \in SUBSET S : Duration(T) = g[T]
<1>1. Lengths(S) \in [S -> Int] /\ IsFiniteSet(S)
  BY DEF Lengths, IsDay
<1>2. PICK g : IsSum(g, S, Lengths(S))
  BY <1>1, SumExists
<1>3. ASSUME NEW T \in SUBSET S
      PROVE  Duration(T) = g[T]
  <2> DEFINE h == [V \in SUBSET T |-> g[V]]
  <2>1. IsSum(h, T, Lengths(S))
    BY <1>2, SumOfSubset
  <2>2. IsSum(h, T, Lengths(T))
    BY <2>1 DEF IsSum, Lengths
  <2>3. h[T] = g[T]
    OBVIOUS
  <2> HIDE DEF h
  <2>4. QED
    BY <2>2, <2>3, SubDay, DurationIsSum
<1>4. QED
  BY <1>2, <1>3

\* Fewer slots do not last longer.
LEMMA DurationGrows ==
  ASSUME NEW S, IsDay(S), NEW T \in SUBSET S
  PROVE  /\ Duration(T) \in Int /\ Duration(S) \in Int
         /\ Duration(T) <= Duration(S)
         /\ Duration({}) = 0
<1>1. PICK g : IsSum(g, S, Lengths(S)) /\ \A U \in SUBSET S : Duration(U) = g[U]
  BY DurationSums
<1>2. \A U \in SUBSET S : g[U] \in Int
  BY <1>1 DEF IsSum
<1> DEFINE C == {U \in SUBSET S : T \subseteq U /\ ~(g[T] <= g[U])}
<1>3. C = {}
  <2>1. SUFFICES ASSUME C # {}
                 PROVE  FALSE
    OBVIOUS
  <2>2. \A U \in C : IsFiniteSet(U)
    BY FS_Subset DEF IsDay
  <2>3. PICK U \in C : \A d \in C : Cardinality(U) <= Cardinality(d)
    BY <2>1, <2>2, SmallestSet
  <2>4. U \in SUBSET S /\ IsFiniteSet(U) /\ T \subseteq U /\ ~(g[T] <= g[U])
    BY <2>2, <2>3
  <2>5. U # T
    BY <1>2, <2>4
  <2>6. PICK x : x \in U /\ x \notin T
    BY <2>4, <2>5
  <2>7. U \ {x} \notin C
    BY <2>3, <2>4, <2>6, NotSmaller
  <2>8. g[T] <= g[U \ {x}]
    BY <2>4, <2>6, <2>7
  <2>9. g[U] = Lengths(S)[x] + g[U \ {x}]
    BY <1>1, <2>4, <2>6 DEF IsSum
  <2>10. Lengths(S)[x] \in Nat
    BY <2>4, <2>6 DEF IsDay, Lengths
  <2>11. g[U \ {x}] \in Int
    BY <1>2, <2>4
  <2>12. QED
    BY <1>2, <2>4, <2>8, <2>9, <2>10, <2>11
<1>4. g[T] <= g[S]
  BY <1>3
<1>5. QED
  BY <1>1, <1>2, <1>4 DEF IsSum

\* A sum over one slot.
LEMMA PriceOfOne ==
  ASSUME NEW slot, slot.price \in Int
  PROVE  SumOfPrices({slot}) = slot.price
<1> DEFINE S == {slot}
           Body(f) == [s \in SUBSET S |->
                        IF s = {} THEN 0 ELSE Pick(s).price + f[s \ {Pick(s)}]]
           it == CHOOSE f : f = Body(f)
           g == [s \in SUBSET S |-> IF s = {} THEN 0 ELSE slot.price]
<1>1. \A s \in SUBSET S : s # {} => s = S /\ Pick(s) = slot /\ s \ {Pick(s)} = {}
  BY DEF Pick
<1>2. g = Body(g)
  <2>1. \A s \in SUBSET S : g[s] = IF s = {} THEN 0 ELSE Pick(s).price + g[s \ {Pick(s)}]
    <3> SUFFICES ASSUME NEW s \in SUBSET S
                 PROVE  g[s] = IF s = {} THEN 0 ELSE Pick(s).price + g[s \ {Pick(s)}]
      OBVIOUS
    <3>1. g[{}] = 0
      OBVIOUS
    <3>2. CASE s = {}
      BY <3>1, <3>2
    <3>3. CASE s # {}
      <4>1. Pick(s) = slot /\ s \ {Pick(s)} = {}
        BY <1>1, <3>3
      <4>2. g[s] = slot.price
        BY <3>3
      <4> HIDE DEF g
      <4>3. QED
        BY <3>1, <3>3, <4>1, <4>2
    <3>4. QED
      BY <3>2, <3>3
  <2>2. QED
    BY <2>1
<1>3. SumOfPrices(S) = it[S]
  BY DEF SumOfPrices, MapThenSumSet, MapThenFoldSet, Pick
<1> HIDE DEF Body, g
<1>4. it = Body(it)
  BY <1>2
<1> HIDE DEF it
<1>5. it[S] = Pick(S).price + it[S \ {Pick(S)}] /\ it[{}] = 0
  BY <1>4 DEF Body
<1>6. QED
  BY <1>1, <1>3, <1>5

-------------------------------------------------------------------------------
(* Outside the critical hours.                                             *)

\* The present slot is the only one that holds the present.
LEMMA PresentPrice ==
  ASSUME NEW slots, IsDay(slots), NEW t \in Int, NEW slot \in slots, Holds(slot, t)
  PROVE  CurrentPrice(slots, t) = slot.price
<1>1. {s \in slots : Holds(s, t)} = {slot}
  <2>1. ASSUME NEW s \in slots, Holds(s, t)
        PROVE  s = slot
    BY <2>1 DEF IsDay, Holds
  <2>2. QED
    BY <2>1
<1>2. slot.price \in Int
  BY DEF IsDay
<1>3. QED
  BY <1>1, <1>2, PriceOfOne DEF CurrentPrice

\* Among finitely many slots one is the dearest.
LEMMA Dearest ==
  ASSUME NEW S, IsFiniteSet(S), S # {}, \A s \in S : s.price \in Int
  PROVE  \E last \in S : \A s \in S : s.price <= last.price
<1> DEFINE C == {T \in SUBSET S : T # {} /\ ~ \E last \in T : \A s \in T : s.price <= last.price}
<1>1. SUFFICES ASSUME C # {}
               PROVE  FALSE
  OBVIOUS
<1>2. \A c \in C : IsFiniteSet(c)
  BY FS_Subset
<1>3. PICK T \in C : \A d \in C : Cardinality(T) <= Cardinality(d)
  BY <1>1, <1>2, SmallestSet
<1>4. /\ T \in SUBSET S /\ IsFiniteSet(T) /\ T # {}
      /\ ~ \E last \in T : \A s \in T : s.price <= last.price
  BY <1>2, <1>3
<1>5. PICK x : x \in T
  BY <1>4
<1>6. T \ {x} \notin C
  BY <1>3, <1>4, <1>5, NotSmaller
<1>7. CASE T \ {x} = {}
  BY <1>4, <1>5, <1>7
<1>8. CASE T \ {x} # {}
  <2>1. PICK last \in T \ {x} : \A s \in T \ {x} : s.price <= last.price
    BY <1>4, <1>6, <1>8
  <2>2. x.price \in Int /\ \A s \in T : s.price \in Int
    BY <1>4, <1>5
  <2>3. CASE x.price <= last.price
    BY <1>4, <2>1, <2>3
  <2>4. CASE ~(x.price <= last.price)
    <3>1. \A s \in T : s.price <= x.price
      BY <2>1, <2>2, <2>4
    <3>2. QED
      BY <1>4, <1>5, <3>1
  <2>5. QED
    BY <2>3, <2>4
<1>9. QED
  BY <1>7, <1>8

\* There is always something to select: the loop over the sorted slots ends.
LEMMA SelectionExists ==
  ASSUME NEW window, IsDay(window), window # {}
  PROVE  CheapestSelections(window) # {}
<1> DEFINE Cheapest(sel) == \A s \in sel, t \in window \ sel : s.price <= t.price
           Enough(sel) == sel = window \/ Duration(sel) >= TotalDuration
           C == {sel \in SUBSET window : sel # {} /\ Cheapest(sel) /\ Enough(sel)}
<1>1. window \in C
  OBVIOUS
<1>2. \A c \in C : IsFiniteSet(c)
  BY FS_Subset DEF IsDay
<1>3. PICK sel \in C : \A d \in C : Cardinality(sel) <= Cardinality(d)
  BY <1>1, <1>2, SmallestSet
<1>4. sel \in SUBSET window /\ sel # {} /\ Cheapest(sel) /\ Enough(sel) /\ IsFiniteSet(sel)
  BY <1>2, <1>3
<1>5. \A s \in window : s.price \in Int
  BY DEF IsDay
<1>6. PICK last \in sel : \A s \in sel : s.price <= last.price
  BY <1>4, <1>5, Dearest
<1>7. Duration(sel \ {last}) < TotalDuration
  <2>1. sel \ {last} \notin C
    BY <1>3, <1>4, <1>6, NotSmaller
  <2>2. Cheapest(sel \ {last})
    <3> SUFFICES ASSUME NEW s \in sel \ {last}, NEW t \in window \ (sel \ {last})
                 PROVE  s.price <= t.price
      OBVIOUS
    <3>1. CASE t = last
      BY <1>6, <3>1
    <3>2. CASE t # last
      BY <1>4, <3>2
    <3>3. QED
      BY <3>1, <3>2
  <2>3. Duration(sel \ {last}) \in Int /\ Duration({}) = 0
    BY <1>4, DurationGrows
  <2>4. sel \ {last} = {} \/ ~Enough(sel \ {last})
    BY <1>4, <2>1, <2>2
  <2> HIDE DEF C, Cheapest
  <2>5. CASE sel \ {last} = {}
    BY <2>3, <2>5
  <2>6. CASE ~Enough(sel \ {last})
    BY <2>3, <2>6
  <2>7. QED
    BY <2>4, <2>5, <2>6
<1>8. sel \in CheapestSelections(window)
  BY <1>4, <1>6, <1>7 DEF CheapestSelections
<1>9. QED
  BY <1>8

\* The present slot is among the cheapest when its rivals do not fill the duration.
LEMMA PresentIsSelected ==
  ASSUME NEW slots, IsDay(slots), NEW t \in Int, NEW slot \in slots, Holds(slot, t),
         Duration(Rivals(slots, t)) < TotalDuration,
         NEW sel \in CheapestSelections(WindowSlots(slots, t))
  PROVE  slot \in sel
<1> SUFFICES ASSUME slot \notin sel
             PROVE  FALSE
  OBVIOUS
<1>1. slot \in WindowSlots(slots, t) /\ slot.price \in Int
  BY DEF WindowSlots, IsDay
<1>2. /\ sel \in SUBSET WindowSlots(slots, t)
      /\ \A s \in sel : s.price <= slot.price
      /\ Duration(sel) >= TotalDuration
  BY <1>1 DEF CheapestSelections
<1>3. sel \subseteq Rivals(slots, t)
  <2> SUFFICES ASSUME NEW s \in sel
               PROVE  s \in Rivals(slots, t)
    OBVIOUS
  <2>1. s \in slots /\ s # slot /\ (Holds(s, t) \/ (s.from > t /\ s.from < t + WindowSize))
    BY <1>2 DEF WindowSlots
  <2>2. ~Holds(s, t)
    BY <2>1 DEF IsDay, Holds
  <2>3. s.price <= CurrentPrice(slots, t)
    BY <1>2, PresentPrice
  <2>4. QED
    BY <2>1, <2>2, <2>3 DEF Rivals, IsDay
<1>4. IsDay(Rivals(slots, t))
  BY SubDay DEF Rivals
<1>5. Duration(sel) <= Duration(Rivals(slots, t))
      /\ Duration(sel) \in Int /\ Duration(Rivals(slots, t)) \in Int
  BY <1>3, <1>4, DurationGrows
<1>6. QED
  BY <1>2, <1>5

\* The hours until the critical ones are counted right, over midnight too.
LEMMA CriticalIsNear ==
  ASSUME NEW t \in Nat, ~InCriticalHours(Hour(t)),
         NEW u \in t .. t + PreChargeHours * HourLength, InCriticalHours(Hour(u))
  PROVE  HoursUntilCritical(Hour(t)) <= PreChargeHours
<1> DEFINE q == t \div HourLength
           p == u \div HourLength
           h == Hour(t)
           g == Hour(u)
           a == StartHour + q
<1>0. t \in Int /\ u \in Nat /\ u \in Int /\ PreChargeHours * HourLength \in Nat
  OBVIOUS
<1>1. /\ q \in Nat /\ t = HourLength * q + (t % HourLength)
      /\ t % HourLength \in 0 .. HourLength - 1
  BY <1>0, DivMod, HourType
<1>2. /\ p \in Nat /\ u = HourLength * p + (u % HourLength)
      /\ u % HourLength \in 0 .. HourLength - 1
  BY <1>0, DivMod, HourType
<1>3. h = a % DayHours /\ g = (StartHour + p) % DayHours
  BY DEF Hour
<1> HIDE DEF q, p, h, g
<1>a. a \in Int /\ DayHours \in Nat \ {0}
  BY <1>1
<1> HIDE DEF a
<1>4. /\ h \in 0 .. DayHours - 1 /\ a = DayHours * (a \div DayHours) + h
      /\ a \div DayHours \in Int /\ a \in Int
  BY <1>3, <1>a, DivMod, Zenon
<1>5. PICK k \in Nat : p = q + k /\ k <= PreChargeHours
  <2>1. p - q \in Int /\ p = q + (p - q)
    BY <1>1, <1>2
  <2>2. HourLength * p = HourLength * q + HourLength * (p - q)
    BY <1>1, <1>2
  <2>3. p - q >= 0
    <3>1. SUFFICES ASSUME p - q <= -1
                   PROVE  FALSE
      BY <2>1
    <3>2. HourLength * (p - q) <= -HourLength
      BY <2>1, <3>1
    <3>3. QED
      BY <1>0, <1>1, <1>2, <2>2, <3>2
  <2>4. p - q <= PreChargeHours
    <3>1. SUFFICES ASSUME p - q >= PreChargeHours + 1
                   PROVE  FALSE
      BY <2>1
    <3>2. HourLength * (p - q) >= HourLength * PreChargeHours + HourLength
      BY <2>1, <3>1
    <3>3. u <= t + HourLength * PreChargeHours
      OBVIOUS
    <3>4. QED
      BY <1>0, <1>1, <1>2, <2>2, <3>2, <3>3
  <2>5. QED
    BY <2>1, <2>3, <2>4
<1>6. SUFFICES ASSUME k < HoursUntilCritical(h)
               PROVE  FALSE
  BY <1>4, <1>5 DEF HoursUntilCritical, h
<1>7. StartHour + p = a + k
  BY <1>1, <1>5 DEF a
<1>8. h + k < 2 * DayHours
  BY <1>4, <1>5, <1>6 DEF HoursUntilCritical
<1>9. g = IF h + k < DayHours THEN h + k ELSE h + k - DayHours
  <2>1. CASE h + k < DayHours
    <3>1. h + k \in 0 .. DayHours - 1 /\ a + k \in Int
      BY <1>4, <1>5, <2>1
    <3>2. a + k = DayHours * (a \div DayHours) + (h + k)
      <4>1. PICK m \in Int : m = DayHours * (a \div DayHours)
        BY <1>4
      <4>2. QED
        BY <1>4, <1>5, <4>1
    <3>3. QED
      BY <1>3, <1>4, <1>7, <2>1, <3>1, <3>2, DivUnique
  <2>2. CASE ~(h + k < DayHours)
    <3>1. DayHours * ((a \div DayHours) + 1) = DayHours * (a \div DayHours) + DayHours
      BY <1>4
    <3>2. a + k = DayHours * ((a \div DayHours) + 1) + (h + k - DayHours)
          /\ h + k - DayHours \in 0 .. DayHours - 1 /\ a + k \in Int
          /\ (a \div DayHours) + 1 \in Int
      BY <1>4, <1>5, <1>8, <2>2, <3>1
    <3>3. QED
      BY <1>3, <1>7, <2>2, <3>2, DivUnique
  <2>3. QED
    BY <2>1, <2>2
<1>10. ~InCriticalHours(h) /\ InCriticalHours(g)
  BY DEF h, g
<1>11. QED
  BY <1>4, <1>5, <1>6, <1>9, <1>10 DEF HoursUntilCritical, InCriticalHours

-------------------------------------------------------------------------------
(* The night.  A run that is still undisturbed and has read both days'     *)
(* prices decides to charge whenever it is worth it.                       *)

LEMMA NoPrices == SumOfPrices({}) = 0
<1> DEFINE Body(f) == [s \in SUBSET {} |->
                        IF s = {} THEN 0 ELSE Pick(s).price + f[s \ {Pick(s)}]]
           it == CHOOSE f : f = Body(f)
           g == [s \in SUBSET {} |-> 0]
<1>1. g = Body(g)
  OBVIOUS
<1>2. SumOfPrices({}) = it[{}]
  BY DEF SumOfPrices, MapThenSumSet, MapThenFoldSet, Pick
<1> HIDE DEF Body, g
<1>3. it = Body(it)
  BY <1>1
<1> HIDE DEF it
<1>4. QED
  BY <1>2, <1>3 DEF Body

LEMMA NightDecision ==
  ASSUME TypeInv, Night, WorthCharging, NEW level
  PROVE  OptimizeCheapestHours(prices, now, level, weekend) = {TRUE}
<1> DEFINE window == WindowSlots(prices, now)
           critical == {s \in prices : s.from > now /\ InCriticalHours(Hour(s.from))}
<1>1. now \in Nat /\ now \in Int /\ IsDay(prices)
  BY PriceDaysAssumption DEF TypeInv, TypeOK
<1>2. ~InCriticalHours(Hour(now)) /\ Hour(now) \in 0 .. DayHours - 1
  BY <1>1, HourType DEF Night
<1>3. HasCriticalHours
  BY <1>2 DEF HasCriticalHours, InCriticalHours
<1>4. PICK slot \in prices : Holds(slot, now)
  BY DEF WorthCharging
<1>5. slot \in window /\ IsDay(window)
  BY <1>1, <1>4, SubDay DEF WindowSlots
<1>6. OptimizeCheapestHours(prices, now, level, weekend)
        = {cheap \/ ShouldPreChargeNow(prices, now) : cheap \in SelectionHolds(prices, now)}
  BY <1>2, <1>3, <1>5 DEF OptimizeCheapestHours, PreCharging
<1>7. SelectionHolds(prices, now) # {}
  <2>1. PICK sel : sel \in CheapestSelections(window)
    BY <1>5, SelectionExists
  <2>2. (\E s \in sel : Holds(s, now)) \in SelectionHolds(prices, now)
    BY <2>1, Zenon DEF SelectionHolds
  <2>3. QED
    BY <2>2
<1>8. CASE /\ \E t \in now .. now + PreChargeHours * HourLength : InCriticalHours(Hour(t))
           /\ CurrentPrice(prices, now) * Cardinality(critical) < SumOfPrices(critical)
  <2>1. HoursUntilCritical(Hour(now)) <= PreChargeHours
    BY <1>1, <1>2, <1>8, CriticalIsNear
  <2>2. critical # {}
    <3>1. CurrentPrice(prices, now) \in Int
      BY <1>1, <1>4, PresentPrice DEF IsDay
    <3>2. CurrentPrice(prices, now) * 0 = 0
      BY <3>1
    <3> HIDE DEF critical
    <3>3. QED
      BY <1>8, <3>2, NoPrices, FS_EmptySet
  <2>3. CriticalSlots(prices, now) = critical
    <3>1. critical = {s \in Future(prices, now) : InCriticalHours(Hour(s.from))}
      <4>1. \A s \in prices : InCriticalHours(Hour(s.from)) => s.from # now
        BY <1>2
      <4>2. \A s \in prices : s.from \in Int
        BY <1>1 DEF IsDay
      <4>3. QED
        BY <1>1, <4>1, <4>2 DEF Future
    <3> HIDE DEF critical
    <3>2. QED
      BY <2>2, <3>1 DEF CriticalSlots
  <2> HIDE DEF critical
  <2>4. ShouldPreChargeNow(prices, now)
    BY <1>8, <2>1, <2>3 DEF ShouldPreChargeNow
  <2>5. QED
    BY <1>6, <1>7, <2>4
<1>9. CASE Duration(Rivals(prices, now)) < TotalDuration
  <2>1. SelectionHolds(prices, now) = {TRUE}
    <3>1. \A sel \in CheapestSelections(window) : slot \in sel
      BY <1>1, <1>4, <1>9, PresentIsSelected
    <3>2. \A sel \in CheapestSelections(window) : (\E s \in sel : Holds(s, now)) = TRUE
      BY <1>4, <3>1
    <3>3. SelectionHolds(prices, now) \subseteq {TRUE}
      BY <3>2 DEF SelectionHolds
    <3>4. QED
      BY <1>7, <3>3
  <2>2. QED
    BY <1>6, <2>1
<1>10. QED
  BY <1>8, <1>9 DEF WorthCharging

PricedInv ==
  seen.priced =>
     /\ auto /\ mode = "Home" /\ job.step # "safety"
     /\ job.step \in {"battery", "apply"} => job.slots = prices
     /\ Night /\ WorthCharging => /\ job.step = "apply" => job.on
                                  /\ ran => socket

LEMMA PricedInit == Init => PricedInv
BY DEF Init, PricedInv, NoRun

LEMMA PricedNext == TypeInv /\ PricedInv /\ [Next]_vars => PricedInv'
<1> SUFFICES ASSUME TypeInv, PricedInv, [Next]_vars
             PROVE  PricedInv'
  OBVIOUS
<1>t. /\ job \in Jobs /\ seen \in History /\ ran \in BOOLEAN /\ (ran => job = NoRun)
  BY DEF TypeInv, TypeOK
<1>n. ASSUME UNCHANGED <<now, prices>>
      PROVE  (Night' <=> Night) /\ (WorthCharging' <=> WorthCharging)
  BY <1>n DEF Night, WorthCharging
<1>1. ASSUME ~seen'.priced
      PROVE  PricedInv'
  BY <1>1 DEF PricedInv
<1>2. ASSUME seen' = Disturbed
      PROVE  PricedInv'
  BY <1>1, <1>2, <1>t DEF Disturbed, History
\* The run goes on, and nothing else happens.
<1>3. ASSUME UNCHANGED <<prices, auto, mode>>, seen'.priced => seen.priced,
             seen'.priced => job'.step # "safety",
             seen'.priced /\ job'.step \in {"battery", "apply"} => job'.slots = prices,
             seen'.priced /\ Night' /\ WorthCharging' =>
               (job'.step = "apply" => job'.on) /\ (ran' => socket')
      PROVE  PricedInv'
  BY <1>3 DEF PricedInv
<1>4. ASSUME UNCHANGED <<now, prices, auto, mode, socket, ran, job>>, seen'.priced = seen.priced
      PROVE  PricedInv'
  BY <1>4, <1>n DEF PricedInv
<1>5. ASSUME ReadHouse
      PROVE  PricedInv'
  <2>1. /\ seen'.priced = seen.priced /\ ~ran' /\ UNCHANGED <<prices, auto, mode>>
        /\ job'.step = IF AwayTooLong THEN "safety" ELSE "auto"
    BY <1>5, <1>t DEF ReadHouse, GoTo, Jobs, world, people
  <2>2. seen'.priced => ~AwayTooLong
    BY <2>1 DEF PricedInv, AwayTooLong, AwayModes
  <2>3. QED
    BY <1>3, <2>1, <2>2
<1>6. ASSUME SafetyOff
      PROVE  PricedInv'
  <2>1. ~seen.priced /\ seen' = seen
    BY <1>6 DEF SafetyOff, PricedInv
  <2>2. QED
    BY <1>1, <2>1
<1>7. ASSUME ReadAuto
      PROVE  PricedInv'
  <2>1. CASE auto
    <3>1. /\ ~ran' /\ job'.step = "prices" /\ seen' = seen /\ UNCHANGED <<prices, auto, mode>>
      BY <1>7, <1>t, <2>1 DEF ReadAuto, GoTo, Jobs, NoRun, world, people
    <3>2. QED
      BY <1>3, <3>1
  <2>2. CASE ~auto
    <3>1. ~seen.priced /\ seen' = seen
      BY <1>7, <2>2 DEF ReadAuto, PricedInv
    <3>2. QED
      BY <1>1, <3>1
  <2>3. QED
    BY <2>1, <2>2
<1>8. ASSUME ReadPrices
      PROVE  PricedInv'
  <2>1. /\ ~ran' /\ job'.step = "battery" /\ job'.slots = Known
        /\ UNCHANGED <<prices, auto, mode>>
    BY <1>8, <1>t DEF ReadPrices, Jobs, NoRun, world, people
  <2>2. seen'.priced => seen.priced /\ published
    BY <1>8, <1>t DEF ReadPrices, History
  <2>3. seen'.priced => Known = prices
    BY <2>2 DEF Known
  <2>4. QED
    BY <1>3, <2>1, <2>2, <2>3
<1>9. ASSUME ReadBattery
      PROVE  PricedInv'
  <2> DEFINE outcomes == OptimizeCheapestHours(job.slots, now, Level, weekend)
  <2>1. /\ UNCHANGED <<now, prices, auto, mode, socket>>
        /\ job.step = "battery" /\ seen'.priced = seen.priced
    BY <1>9, <1>t DEF ReadBattery, DecideWith, world, people, History
  <2>2. \/ outcomes = {} /\ job' = NoRun
        \/ UNCHANGED ran /\ \E on \in outcomes :
              job' = [job EXCEPT !.step = "apply", !.on = on]
    BY <1>9 DEF ReadBattery, DecideWith, Return
  <2>3. ASSUME seen.priced, Night, WorthCharging
        PROVE  outcomes = {TRUE}
    <3>1. job.slots = prices
      BY <2>1, <2>3 DEF PricedInv
    <3>2. QED
      BY <2>3, <3>1, NightDecision
  <2>4. seen.priced => job.slots = prices
    BY <2>1 DEF PricedInv
  <2>5. ~ran
    BY <1>t, <2>1 DEF NoRun
  <2>n. (Night' <=> Night) /\ (WorthCharging' <=> WorthCharging)
    BY <1>n, <2>1
  <2> HIDE DEF outcomes
  <2>6. job'.step # "safety"
        /\ (seen.priced /\ job'.step \in {"battery", "apply"} => job'.slots = prices)
    <3>1. CASE job' = NoRun
      BY <3>1 DEF NoRun
    <3>2. CASE \E on \in outcomes : job' = [job EXCEPT !.step = "apply", !.on = on]
      BY <1>t, <2>4, <3>2 DEF Jobs
    <3>3. QED
      BY <2>2, <3>1, <3>2
  <2>7. ASSUME seen.priced, Night, WorthCharging
        PROVE  job'.on = TRUE /\ ~ran'
    <3>1. outcomes = {TRUE}
      BY <2>3, <2>7
    <3>2. UNCHANGED ran /\ job' = [job EXCEPT !.step = "apply", !.on = TRUE]
      BY <2>2, <3>1
    <3>3. job'.on = TRUE
      BY <1>t, <3>2 DEF Jobs
    <3>4. QED
      BY <2>5, <3>2, <3>3
  <2>8. QED
    BY <1>3, <2>1, <2>n, <2>6, <2>7
<1>10. ASSUME Apply
       PROVE  PricedInv'
  <2>1. /\ UNCHANGED <<now, prices, auto, mode>>
        /\ job.step = "apply" /\ socket' = job.on /\ job'.step = "idle"
    BY <1>10 DEF Apply, world, people, Return, NoRun
  <2>2. seen'.priced = seen.priced
    BY <1>10, <1>t DEF Apply, History
  <2>3. seen.priced /\ Night /\ WorthCharging => socket'
    BY <2>1 DEF PricedInv
  <2>4. (Night' <=> Night) /\ (WorthCharging' <=> WorthCharging)
    BY <1>n, <2>1
  <2>5. QED
    BY <1>3, <2>1, <2>2, <2>3, <2>4
<1>11. ASSUME NEW on \in BOOLEAN, SetAuto(on)
       PROVE  PricedInv'
  BY <1>1, <1>11, <1>t DEF SetAuto, Disturbed, History
<1>12. ASSUME PublishPrices \/ (\E s \in {"live", "frozen", "absent"} : SetSensor(s))
       PROVE  PricedInv'
  BY <1>4, <1>12 DEF PublishPrices, SetSensor, world, people
<1>13. ASSUME Tick
       PROVE  PricedInv'
  <2>1. UNCHANGED <<prices, auto, mode, job>> /\ ran' = FALSE /\ job = NoRun
    BY <1>13, <1>t DEF Tick
  <2>2. seen'.priced => seen.priced
    BY <1>13, <1>t DEF Tick, History
  <2>3. QED
    BY <1>3, <2>1, <2>2 DEF NoRun
<1>14. CASE UNCHANGED vars
  BY <1>4, <1>14 DEF vars, world, people
<1>15. QED
  BY <1>2, <1>5, <1>6, <1>7, <1>8, <1>9, <1>10, <1>11, <1>12, <1>13, <1>14
     DEF Next, ReadHouseFails, ReadBatteryFails, RunFails, SetMode, SwitchByHand

\* A night that is worth it is used, for any prices, hours and durations: from the
\* reading of both days' prices on, a run that nothing disturbs puts the socket on when
\* the present slot is cheap enough (handlePreChargingBeforeCriticalHours,
\* shouldPreChargeNow), in whatever order the optimizer sorts slots of one price.
THEOREM CheapNightsAreUsed == Spec => []NightIsUsed
<1>1. Spec => []TypeInv
  BY TypeInit, TypeNext, PTL DEF Spec
<1>2. PricedInv => NightIsUsed
  BY DEF PricedInv, NightIsUsed
<1>3. QED
  BY <1>1, <1>2, PricedInit, PricedNext, PTL DEF Spec

===============================================================================
