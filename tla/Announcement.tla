------------------------------ MODULE Announcement ------------------------------
(***************************************************************************)
(* The announcement on request of internal/domain/devices/priceannouncer:  *)
(* what the message says of the rest of the day.  A message is a set of    *)
(* statements; their wording is left out.                                  *)
(***************************************************************************)
EXTENDS PriceIndex

Says(what, at) == [what |-> what, at |-> at]

\* Mutant: the last window of a kind is named instead of the first.
LastWindow(windows) == CHOOSE w \in windows : \A v \in windows : v.from <= w.from

\* Summary lists the windows in the order of the slots.
FirstWindow(windows) == CHOOSE w \in windows : \A v \in windows : w.from <= v.from

\* One statement about the first window of a kind, if there is one.
About(windows, what, edge) ==
  IF windows = {} THEN {} ELSE {Says(what, FirstWindow(windows)[edge])}

FormatMorning(s) ==
  LET good == s.cheap # {} /\ s.expensive = {}
      high == s.cheap = {} /\ s.expensive # {}
      tone == IF s.cheap = {} /\ s.expensive = {} /\ s.negative = {} THEN "flat"
              ELSE IF good THEN "good day" ELSE IF high THEN "high today" ELSE "mixed"
  IN {Says(tone, 0)}
       \union About(s.negative, "negative from", "from")
       \union About(s.cheap, "cheap from", "from")
       \union About(s.cheap, "cheap until", "till")
       \union About(s.expensive, "expensive from", "from")

FormatAfternoon(current, s) ==
  CASE current = "cheap" ->
         {Says("cheap now", 0)}
           \union About(s.cheap, "cheap until", "till")
           \union (IF s.expensive = {} THEN {} ELSE {Says("expensive after", 0)})
    [] current = "expensive" ->
         {Says("expensive now", 0)}
           \union About(s.cheap, "cheap from", "from")
    [] OTHER ->
         IF s.cheap = {} /\ s.expensive = {} THEN {Says("nothing ahead", 0)}
         ELSE {Says("moderate now", 0)}
                \union About(s.cheap, "cheap from", "from")
                \union About(s.expensive, "expensive from", "from")

\* HandleOnDemand, unless night or away mode suppresses it or the index is empty.
HandleOnDemand(idx, now, midnight, morning) ==
  LET at == SelectInSeq(idx.slots, LAMBDA slot : Holds(slot, now))
      current == IF at = 0 THEN "unknown" ELSE Level(idx, idx.slots[at])
      summary == Summary(idx, now, midnight)
  IN IF morning THEN FormatMorning(summary) ELSE FormatAfternoon(current, summary)

===============================================================================
