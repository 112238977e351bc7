-------------------------------- MODULE Pricing --------------------------------
(***************************************************************************)
(* The price cache of internal/domain/pricing and the price announcer that *)
(* reads it.  A change of the price sensor starts two goroutines, one that *)
(* brings the cache up to date and one that looks for extreme prices; they *)
(* are not ordered, and those of two changes may overlap.  Callers of      *)
(* GetPriceSlots refresh the cache themselves when it does not know the    *)
(* present hour.  A step is one read or write of the cache, one query of   *)
(* Home Assistant or one notification.                                     *)
(***************************************************************************)
EXTENDS PriceIndex

CONSTANTS
  Callers,      \* goroutines that may be busy with the cache at the same time
  Announcers,   \* goroutines that may run HandlePriceUpdate at the same time
  Prices,       \* prices of a slot
  SlotLength,   \* length of a slot of the sensor
  Day,          \* length of a day
  Spike,        \* AnnouncerConfig.SpikeMultiplier
  MinExtremeDuration,
  None,         \* no run, no alert yet (the zero time)
  Missing,      \* attributes without a list of prices
  MaxSlots,     \* bound: slots the sensor ever lists
  MaxAlerts,    \* bound: alerts of one process
  MaxFaults     \* bound: unusable attributes, and restarts

ASSUME SlotsAssumption ==
  SlotLength \in Nat \ {0} /\ MaxSlots \in Nat /\ MaxFaults \in Nat /\ Prices \subseteq Int
ASSUME DayAssumption == Day \in Nat \ {0} /\ MinExtremeDuration \in Int

VARIABLES
  now,      \* the clock
  known,    \* the slots the sensor lists
  due,      \* an event Home Assistant has still to deliver: "none", "startup", "change"
  index,    \* Service.index, as its slots
  job,      \* what each caller is doing
  check,    \* what each announcer is doing
  lastAlertedRunFrom,
  alerts,   \* the alerts sent since the process started
  faults    \* counter for the bound

vars == <<now, known, due, index, job, check, lastAlertedRunFrom, alerts, faults>>

Horizon == MaxSlots * SlotLength

Slot == [from : 0 .. Horizon, till : 0 .. Horizon, price : Prices]
Run == [from : 0 .. Horizon, till : 0 .. Horizon, kind : {"extreme prices", "negative prices"}]

\* None is no run, and Missing no list.
ASSUME PlaceholderAssumption ==
  /\ None \notin [from : Int, till : Int, kind : {"extreme prices", "negative prices"}]
  /\ Missing \notin Seq(Slot)

Idle == [pc |-> "idle", list |-> << >>]
Waiting == [pc |-> "idle", run |-> None]

TypeOK ==
  /\ now \in 0 .. Horizon
  /\ known \in Seq(Slot) /\ Len(known) <= MaxSlots
  /\ due \in {"none", "startup", "change"}
  /\ index \in Seq(Slot) /\ Len(index) <= Len(known)
  /\ \A c \in Callers :
       /\ job[c].pc \in {"idle", "handle", "asked", "fetch", "store"}
       /\ job[c].list = Missing => job[c].pc = "handle"
       /\ job[c].list # Missing => job[c].list \in Seq(Slot)
  /\ \A a \in Announcers :
       /\ check[a].pc \in {"idle", "started", "send"}
       /\ check[a].run \in Run \union {None}
       /\ (check[a].pc = "send") <=> (check[a].run # None)
  /\ lastAlertedRunFrom \in 0 .. Horizon \union {None}
  /\ alerts \in Seq(Run)
  /\ faults \in 0 .. MaxFaults

Init ==
  /\ now = 0
  /\ known = << >>
  /\ due = "startup"
  /\ index = << >>
  /\ job = [c \in Callers |-> Idle]
  /\ check = [a \in Announcers |-> Waiting]
  /\ lastAlertedRunFrom = None
  /\ alerts = << >>
  /\ faults = 0

-------------------------------------------------------------------------------
(* The price service                                                       *)

\* The attribute "prices" as it reads now: the list; or, as a fault, a list of
\* which no item parses (an empty list for parsePriceSlots) or no attribute.
Attributes(raw) ==
  \/ raw = known /\ UNCHANGED faults
  \/ raw \in {<< >>, Missing} /\ faults < MaxFaults /\ faults' = faults + 1

\* applyParsedPrices up to the comparison with the cached slots.
Compare(c, slots) ==
  job' = [job EXCEPT ![c] = IF index = slots THEN Idle ELSE [pc |-> "store", list |-> slots]]

CoversNow(slots) == \E i \in DOMAIN slots : Holds(slots[i], now)

\* Mutant: a list is good for ever.
NeedsRefreshWhenEmpty(slots) == slots = << >>

CacheNeedsRefresh(slots) ==
  slots # << >> => Last(slots).till <= now \/ ~CoversNow(slots)

\* Mutant: missing attributes are taken for a list.
HandleUnparsed(c) ==
  /\ job[c].pc = "handle"
  /\ Compare(c, job[c].list)
  /\ UNCHANGED <<now, known, due, index, check, lastAlertedRunFrom, alerts, faults>>

\* handlePriceSensorChange: use the event's own list, else ask Home Assistant.
Handle(c) ==
  /\ job[c].pc = "handle"
  /\ IF job[c].list = Missing
       THEN job' = [job EXCEPT ![c] = [pc |-> "fetch", list |-> << >>]]
       ELSE Compare(c, job[c].list)
  /\ UNCHANGED <<now, known, due, index, check, lastAlertedRunFrom, alerts, faults>>

\* refreshFromState: the sensor is read over the network.
Fetch(c) ==
  /\ job[c].pc = "fetch"
  /\ \E raw \in {known, << >>, Missing} :
       /\ Attributes(raw)
       /\ IF raw = Missing THEN job' = [job EXCEPT ![c] = Idle] ELSE Compare(c, raw)
  /\ UNCHANGED <<now, known, due, index, check, lastAlertedRunFrom, alerts>>

UpdateIndex(c) ==
  /\ job[c].pc = "store"
  /\ index' = job[c].list
  /\ job' = [job EXCEPT ![c] = Idle]
  /\ UNCHANGED <<now, known, due, check, lastAlertedRunFrom, alerts, faults>>

\* Somebody wants prices: the laptop charger, when it runs and its automatic switch is
\* on, or the dishwasher, when it is asked to wash.
Ask(c) ==
  /\ job[c].pc = "idle"
  /\ job' = [job EXCEPT ![c] = [pc |-> "asked", list |-> << >>]]
  /\ UNCHANGED <<now, known, due, index, check, lastAlertedRunFrom, alerts, faults>>

\* GetPriceSlots answers from the cache, or brings it up to date first.
GetPriceSlots(c) ==
  /\ job[c].pc = "asked"
  /\ job' = [job EXCEPT ![c] = IF CacheNeedsRefresh(index)
                                THEN [pc |-> "fetch", list |-> << >>] ELSE Idle]
  /\ UNCHANGED <<now, known, due, index, check, lastAlertedRunFrom, alerts, faults>>

-------------------------------------------------------------------------------
(* The announcer                                                           *)

Midnight(t) == (t \div Day + 1) * Day

Extreme(idx, slot) == IsExtreme(idx, slot, Spike)

\* Unlike SlotsInRange this keeps a slot that starts at the deadline.
AlertCandidates(idx, from, deadline) ==
  Picked(idx.slots,
         {i \in DOMAIN idx.slots : idx.slots[i].till > from /\ idx.slots[i].from <= deadline})

\* The stretches of extreme candidates, as pairs of positions.
ExtremeStretches(idx, candidates) ==
  {s \in Stretches(candidates, LAMBDA slot : Extreme(idx, slot)) :
     Extreme(idx, candidates[s[1]])}

Duration(candidates, s) ==
  FoldLeft(LAMBDA sum, slot : sum + slot.till - slot.from, 0, SubSeq(candidates, s[1], s[2]))

Earliest(stretches) == CHOOSE s \in stretches : \A r \in stretches : s[1] <= r[1]

\* The run is named after its first slot.
RunOf(candidates, s) ==
  [from |-> candidates[s[1]].from,
   till |-> candidates[s[1]].from + Duration(candidates, s),
   kind |-> IF candidates[s[1]].price < 0 THEN "negative prices" ELSE "extreme prices"]

\* Mutant: a first stretch that is too short hides the others.
FirstStretchOnly(idx, from, deadline) ==
  LET candidates == AlertCandidates(idx, from, deadline)
      all == ExtremeStretches(idx, candidates)
  IN IF all = {} \/ Duration(candidates, Earliest(all)) < MinExtremeDuration THEN None
     ELSE RunOf(candidates, Earliest(all))

FirstExtremeRun(idx, from, deadline) ==
  LET candidates == AlertCandidates(idx, from, deadline)
      long == {s \in ExtremeStretches(idx, candidates) :
                 Duration(candidates, s) >= MinExtremeDuration}
  IN IF long = {} THEN None ELSE RunOf(candidates, Earliest(long))

\* HandlePriceUpdate up to the notification.  It ends early when night or away
\* mode suppresses alerts, the cache is empty, there is no run, or it is the last.
HandlePriceUpdate(a) ==
  LET run == FirstExtremeRun(NewPriceIndex(index), now, Midnight(now))
      Skip == index = << >> \/ run = None \/ run.from = lastAlertedRunFrom
  IN /\ check[a].pc = "started"
     /\ \E suppressed \in BOOLEAN :
          check' = [check EXCEPT ![a] = IF suppressed \/ Skip THEN Waiting
                                        ELSE [pc |-> "send", run |-> run]]
     /\ UNCHANGED <<now, known, due, index, job, lastAlertedRunFrom, alerts, faults>>

\* Mutant: the alert is not remembered.
NotifyAlertForgets(a) ==
  /\ check[a].pc = "send"
  /\ Len(alerts) < MaxAlerts
  /\ alerts' = Append(alerts, check[a].run)
  /\ check' = [check EXCEPT ![a] = Waiting]
  /\ UNCHANGED <<now, known, due, index, job, lastAlertedRunFrom, faults>>

NotifyAlert(a) ==
  /\ check[a].pc = "send"
  /\ Len(alerts) < MaxAlerts
  /\ alerts' = Append(alerts, check[a].run)
  /\ lastAlertedRunFrom' = check[a].run.from
  /\ check' = [check EXCEPT ![a] = Waiting]
  /\ UNCHANGED <<now, known, due, index, job, faults>>

NotifyFails(a) ==
  /\ check[a].pc = "send"
  /\ check' = [check EXCEPT ![a] = Waiting]
  /\ UNCHANGED <<now, known, due, index, job, lastAlertedRunFrom, alerts, faults>>

-------------------------------------------------------------------------------
(* The house                                                               *)

\* A change of the sensor's value, if there is one, is an event to be delivered.
ValueMayChange(may) == due' \in {due, IF may /\ due = "none" THEN "change" ELSE due}

\* The next slot is published: a change of the attributes alone, unless it is the
\* present one.
Publish ==
  LET from == Len(known) * SlotLength
  IN /\ Len(known) < MaxSlots
     /\ \E price \in Prices :
          known' = Append(known, [from |-> from, till |-> from + SlotLength, price |-> price])
     /\ ValueMayChange(Holds(Last(known'), now))
     /\ UNCHANGED <<now, index, job, check, lastAlertedRunFrom, alerts, faults>>

\* Time passes; with the hour the sensor's value may change.  The clock stops in
\* the last slot there can be.
Tick ==
  /\ now < Horizon - 1
  /\ now' = now + 1
  /\ ValueMayChange(now' % SlotLength = 0)
  /\ UNCHANGED <<known, index, job, check, lastAlertedRunFrom, alerts, faults>>

\* The event reaches the listeners: the service's alone when the program starts.
Deliver(c) ==
  /\ due # "none"
  /\ job[c].pc = "idle"
  /\ \E raw \in {known, << >>, Missing} :
       Attributes(raw) /\ job' = [job EXCEPT ![c] = [pc |-> "handle", list |-> raw]]
  /\ IF due = "startup" THEN UNCHANGED check
     ELSE \E a \in Announcers : /\ check[a].pc = "idle"
                                /\ check' = [check EXCEPT ![a].pc = "started"]
  /\ due' = "none"
  /\ UNCHANGED <<now, known, index, lastAlertedRunFrom, alerts>>

\* The process is restarted: nothing of this is persistent.
Restart ==
  /\ faults < MaxFaults
  /\ faults' = faults + 1
  /\ due' = "startup"
  /\ index' = << >>
  /\ job' = [c \in Callers |-> Idle]
  /\ check' = [a \in Announcers |-> Waiting]
  /\ lastAlertedRunFrom' = None
  /\ alerts' = << >>
  /\ UNCHANGED <<now, known>>

Next ==
  \/ \E c \in Callers : \/ Handle(c) \/ Fetch(c) \/ UpdateIndex(c)
                        \/ Ask(c) \/ GetPriceSlots(c) \/ Deliver(c)
  \/ \E a \in Announcers : HandlePriceUpdate(a) \/ NotifyAlert(a) \/ NotifyFails(a)
  \/ Publish \/ Tick \/ Restart

Spec == Init /\ [][Next]_vars

\* A caller that has begun goes on.  Nobody need ever ask for prices, no event need be
\* delivered, and neither the clock nor the sensor nor a notification owes anything.
Fairness ==
  \A c \in Callers : WF_vars(Handle(c) \/ GetPriceSlots(c) \/ Fetch(c) \/ UpdateIndex(c))

FairSpec == Spec /\ Fairness

-------------------------------------------------------------------------------
(* Properties                                                              *)

\* Two alerts in a row never name the same start (announcer.go:140), whatever
\* lists come and go between them and however often a notification fails.
NoEcho == \A i \in 2 .. Len(alerts) : alerts[i].from # alerts[i - 1].from

EvenHour == (now \div SlotLength) % 2 = 0
Asked == \E c \in Callers : job[c].pc = "asked"

\* One request for prices brings the cache up to date, whatever outages, empty lists,
\* restarts and late updates of other goroutines have made of it: after the last failure,
\* when somebody asks and the sensor lists the present hour, the cache comes to list it
\* before the hour is over (GetPriceSlots and cacheNeedsRefresh).  Even and odd hours
\* alternate, so the next hour is the first of the other kind.
RequestRefreshes ==
  \A even \in BOOLEAN :
    (Asked /\ CoversNow(known) /\ EvenHour = even /\ faults = MaxFaults)
      ~> (CoversNow(index) \/ EvenHour # even)

===============================================================================
