------------------------------- MODULE MCPricing -------------------------------
(***************************************************************************)
(* Small instances of Pricing for TLC, and the answers of the pure queries *)
(* and of the optimizer compared with reference definitions.  An answer    *)
(* depends on the cached list and the clock alone and every pair of them   *)
(* occurs in a settled state, so the comparison is made there only.        *)
(***************************************************************************)
EXTENDS Pricing, PricingTools, Optimizer, Announcement, TLC

\* A cheap, a negative and an extreme price.
SomePrices == {-1, 1, 4}

Settled ==
  /\ index = known /\ index # << >>
  /\ job = [c \in Callers |-> Idle] /\ check = [a \in Announcers |-> Waiting]
  /\ alerts = << >> /\ faults = 0 /\ due = "none"

Durations == 1 .. Horizon

\* Every stretch of consecutive slots.
Blocks(slots) ==
  {SubSeq(slots, r[1], r[2]) :
     r \in {q \in (DOMAIN slots) \X (DOMAIN slots) : q[1] <= q[2]}}

\* The cached list with further slots.
Extended(further) ==
  index \o [i \in DOMAIN further |->
              [from |-> Last(index).till + (i - 1) * SlotLength,
               till |-> Last(index).till + i * SlotLength, price |-> further[i]]]

Span(block) == Last(block).till - block[1].from

-------------------------------------------------------------------------------
RanksPrices(day) ==
  LET idx == NewPriceIndex(day)
      At(level) == {i \in DOMAIN day : Level(idx, day[i]) = level}
      Dearer == {i \in DOMAIN day : day[i].price >= idx.exp}
  IN \/ idx.cheap = 0 /\ idx.exp = 0
     \/ /\ \A i \in At("cheap"), j \in DOMAIN day \ At("cheap") : day[i].price < day[j].price
        /\ \A i \in At("average"), j \in At("expensive") : day[i].price < day[j].price
        /\ 100 * Cardinality(At("cheap")) >= 35 * Len(day)
        /\ 100 * Cardinality(Dearer) >= 30 * Len(day)
        /\ At("unknown") = {}

\* A level is the rank of a price among the day's: nothing cheap costs more than
\* anything dearer, 35% of the slots at least are cheap and 30% as dear as the
\* expensive ones, unless both thresholds are zero (levels.go).  The cached list
\* is tried with up to three further slots.
LevelsRankPrices ==
  Settled => \A further \in BoundedSeq(Prices, 3) : RanksPrices(Extended(further))

Open(block, deadline) == block[1].till > now /\ Last(block).till <= deadline

\* The stretches ahead that are just long enough.
Fitting(slots, duration, deadline) ==
  {b \in Blocks(slots) : /\ Open(b, deadline) /\ Span(b) >= duration
                         /\ Len(b) > 1 => Span(Front(b)) < duration}

NamesCheapest(slots, duration, within) ==
  LET answer == CheapestWindow(NewPriceIndex(slots), now, duration, within)
      fitting == Fitting(slots, duration, now + within)
  IN /\ \A a \in answer :
          \E b \in Blocks(slots) :
             /\ Open(b, now + within) /\ b[1].from = a.from /\ Last(b).till = a.till
             /\ a.average = [sum |-> SumPrices(b), count |-> Len(b)]
             /\ \A f \in fitting : ~CheaperOnAverage(f, b)
     /\ fitting # {} => answer # {}

\* The cheapest window the tool names is a stretch of slots that are not over and end
\* within the time allowed, at its true average, and no stretch just long enough for the
\* duration is cheaper on average (index.go, conversion.go).
WindowIsCheapest ==
  Settled =>
    \A duration \in Durations : \A within \in duration .. Horizon :
      NamesCheapest(index, duration, within)

\* What a slot is for a summary.
Kind(idx, slot) == IF slot.price < 0 THEN "negative" ELSE Level(idx, slot)

SlotsAhead(day) == {i \in DOMAIN day : day[i].till > now}

\* The slots ahead that a window spans.
Spanned(day, w) == {i \in SlotsAhead(day) : w.from <= day[i].from /\ day[i].till <= w.till}

\* The windows answered: each slot ahead lies in one of its kind and in no other.
CoversOnce(day, idx, windows) ==
  \A i \in SlotsAhead(day), kind \in DOMAIN windows :
    Cardinality({w \in {c.window : c \in windows[kind]} : i \in Spanned(day, w)})
      = IF Kind(idx, day[i]) = kind THEN 1 ELSE 0

\* A window's average is that of its slots and within the range of the day.
AveragesItsSlots(day, range, c) ==
  /\ c.average.count = Cardinality(Spanned(day, c.window))
  /\ c.average.sum = MapThenSumSet(LAMBDA i : day[i].price, Spanned(day, c.window))
  /\ now <= c.window.from => /\ range.min * c.average.count <= c.average.sum
                             /\ c.average.sum <= range.max * c.average.count

\* No slot ahead but the one in progress begins before the next price.
NamesNext(day, idx) ==
  LET next == GetNextPrice(idx, now, SlotLength)
  IN /\ \A n \in next :
          /\ \A i \in SlotsAhead(day) : day[i].from < n.slot.from => Holds(day[i], now)
          /\ \A p \in SlotAt(day, now) : n.slot.from \in {now, p.till}
     /\ next = {} => Last(day).from < now

DescribesDay(day) ==
  LET idx == NewPriceIndex(day)
      answer == GetPriceSummary(idx, now)
  IN /\ {a.price : a \in answer} = GetCurrentPrice(idx, now)
     /\ (SlotsAhead(day) # {}) <=> (answer # {})
     /\ \A a \in answer :
          /\ CoversOnce(day, idx, a.windows)
          /\ \A kind \in DOMAIN a.windows : \A c \in a.windows[kind] :
               AveragesItsSlots(day, a.range, c)
     /\ NamesNext(day, idx)

\* The answers of the tools describe one and the same day (conversion.go, index.go).
\* Every slot ahead that is negative, cheap or expensive lies in one window of that kind
\* and in no other; a window's average is that of its slots, and nothing in it but the
\* slot in progress is below the minimum or above the maximum of the day.  The next price
\* is that of the slot after the present one, unless that one begins this instant.
SummaryCoversDay ==
  Settled => \A further \in BoundedSeq(Prices, 1) : DescribesDay(Extended(further))

\* The hours that deserve an alert: extreme, long enough, not over, and listed before
\* midnight.
Qualifying(day, idx) ==
  {b \in Blocks(day) : /\ \A i \in DOMAIN b : IsExtreme(idx, b[i], Spike)
                       /\ Span(b) >= MinExtremeDuration
                       /\ b[1].till > now /\ Last(b).from <= Midnight(now)}

NamesFirstRun(day) ==
  LET idx == NewPriceIndex(day)
      run == FirstExtremeRun(idx, now, Midnight(now))
      qualifying == Qualifying(day, idx)
  IN IF run = None THEN qualifying = {}
     ELSE \E b \in qualifying :
            /\ b[1].from = run.from /\ Last(b).till = run.till
            /\ \A other \in qualifying :
                 /\ other[1].from >= run.from
                 /\ other[1].from = run.from => Last(other).till <= run.till
            /\ (run.kind = "negative prices") <=> b[1].price < 0

\* The run an alert names is real: all its hours are extreme, it is long enough,
\* it is not over, it cannot be extended to the next slot listed before midnight,
\* and no earlier hours ahead would have qualified (announcer.go).  The cached
\* list is tried with up to two further slots.
RunIsFirst ==
  Settled => \A further \in BoundedSeq(Prices, 2) : NamesFirstRun(Extended(further))

\* The slots of the rest of the day, and those of a kind.
Today(day) == {i \in DOMAIN day : day[i].till > now /\ day[i].from < Midnight(now)}
OfKind(day, idx, kind) == {i \in Today(day) : Kind(idx, day[i]) = kind}

Beginning == [cheap |-> "cheap from", expensive |-> "expensive from", negative |-> "negative from"]

\* The time given for a kind is when the first such slot begins.
NamesKinds(day, idx, said, morning) ==
  \A kind \in DOMAIN Beginning :
    LET slots == OfKind(day, idx, kind)
        about == {m \in said : m.what = Beginning[kind]}
    IN /\ \A m \in about : slots # {} /\ m.at = day[Min(slots)].from
       /\ morning /\ slots # {} => about # {}

EndsStretch(day, idx, at, morning) ==
  LET cheap == OfKind(day, idx, "cheap")
      last == CHOOSE i \in Today(day) : day[i].till = at
      negative == \E i \in OfKind(day, idx, "negative") : Holds(day[i], now)
  IN /\ Min(cheap) .. last \subseteq cheap
     /\ last + 1 \notin cheap
     /\ ~morning /\ ~negative => day[Min(cheap)].from <= now

NamesPresent(day, idx, said) ==
  LET Said(what) == \E m \in said : m.what = what
  IN /\ Said("cheap now") => \E p \in SlotAt(day, now) : p.price <= idx.cheap
     /\ Said("expensive now") => \E p \in SlotAt(day, now) : p.price >= idx.exp
     /\ Said("moderate now") => \A p \in SlotAt(day, now) :
          \/ idx.cheap = 0 /\ idx.exp = 0
          \/ idx.cheap < p.price /\ p.price < idx.exp

TellsTheTruth(day, morning) ==
  LET idx == NewPriceIndex(day)
      said == HandleOnDemand(idx, now, Midnight(now), morning)
  IN /\ NamesKinds(day, idx, said, morning)
     /\ \A m \in said : m.what = "cheap until" => EndsStretch(day, idx, m.at, morning)
     /\ NamesPresent(day, idx, said)

\* The announcement on request says what is the case (announcer.go, formatter.go): the
\* time it gives for a kind of price is when the first such slot ahead begins; in the
\* morning no kind is passed over; "cheap until" is the end of an unbroken cheap stretch,
\* which in the afternoon has begun by now, unless the present price is negative: then
\* the message takes it for the first cheap stretch after it.  A present price that it
\* calls moderate lies between the thresholds, below zero perhaps.
AnnouncementIsTrue ==
  Settled =>
    \A further \in BoundedSeq(Prices, 2), morning \in BOOLEAN :
      TellsTheTruth(Extended(further), morning)

-------------------------------------------------------------------------------
\* A cycle as the dishwasher's quick program has it, in stages that matter more
\* and less.
Cycles == {SlotLength, SlotLength + 1, 2 * SlotLength}
Weights == {<<4, 1>>, <<0, 3, 1>>}
\* A slot is an hour.
Hours == {0, 1, MaxSlots}

\* The slots that a cycle will touch.
Touched(day, start, cycle) ==
  Picked(day, {i \in DOMAIN day : day[i].from < start + cycle /\ day[i].till > start})

\* The starts at the beginning of a slot that end by the deadline, within the list.
InTime(day, cycle, deadline) ==
  {i \in DOMAIN day : /\ day[i].from >= now
                      /\ day[i].from + cycle <= deadline
                      /\ day[i].from + cycle <= Last(day).till}

WaitsRightly(day, cycle, weights, hours, night) ==
  LET deadline == now + hours * SlotLength
      result == Optimize(day, now, hours * SlotLength, cycle, weights)
      postponed == ShouldDelayStart(result, now, hours, night)
      present == SubSeq(day, FirstValidSlot(day, now), Len(day))
      immediate == SubSeq(present, 1, SlotsNeeded(day, cycle))
      Weighted(window) == WeightedCost(window, weights)
  IN /\ result.start >= now
     /\ postponed =>
          /\ result.start > now /\ result.end <= deadline
          /\ result.window = Touched(day, result.start, cycle)
          /\ 0 < SumPrices(immediate)
          /\ SumPrices(result.window) < SumPrices(immediate)
          /\ ~night /\ hours <= 3 => 6 * SumPrices(result.window) <= 5 * SumPrices(immediate)
     /\ \A i \in InTime(day, cycle, deadline) :
          Weighted(result.window) <= Weighted(Touched(day, day[i].from, cycle))

\* A start that is postponed is worth the wait (component.go, optimizer.go): the cycle
\* ends by the deadline, is priced at exactly the slots it will touch, and costs less than
\* the slots from now on, which cost something; by day, and for three hours at most, by a
\* sixth at least.  No start at the beginning of a slot that ends by the deadline has a
\* lower weighted cost than the one that was found.
PostponedStartIsBest ==
  Settled =>
    \A cycle \in Cycles, weights \in Weights, hours \in Hours, night \in BOOLEAN :
      WaitsRightly(index, cycle, weights, hours, night)
===============================================================================
