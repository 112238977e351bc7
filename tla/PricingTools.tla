------------------------------ MODULE PricingTools ------------------------------
(***************************************************************************)
(* What the MCP server answers about prices: internal/tech/mcp/pricing, on *)
(* top of the index that the price service has cached.  An answer is a set *)
(* of at most one element; the empty set is an error.  An average is kept  *)
(* as a sum and a count.                                                   *)
(***************************************************************************)
EXTENDS PriceIndex

\* SlotAt: the first slot that holds t.
SlotAt(slots, t) ==
  LET i == SelectInSeq(slots, LAMBDA slot : Holds(slot, t))
  IN IF i = 0 THEN {} ELSE {slots[i]}

\* The loop of the tools skips a slot that has begun before from and stops at the first
\* that begins too late: SlotsInRange skips a slot that is over.
StartsIn(slots, from, deadline) ==
  LET ahead == {i \in DOMAIN slots : slots[i].from >= from}
      late == {i \in ahead : slots[i].from >= deadline}
  IN Picked(slots, {i \in ahead : \A j \in late : i < j})

Average(slots) == [sum |-> SumPrices(slots), count |-> Len(slots)]
NoAverage == [sum |-> 0, count |-> 1]

GetCurrentPrice(idx, now) == {slot.price : slot \in SlotAt(idx.slots, now)}

\* The next slot to begin, the present one if it begins this instant.
GetNextPrice(idx, now, window) ==
  LET ahead == StartsIn(idx.slots, now, now + window)
  IN IF ahead = << >> THEN {}
     ELSE {[slot |-> Head(ahead), level |-> Level(idx, Head(ahead))]}

\* The maximum starts from 0, the minimum from the largest float.
PriceRange(slots, from, deadline) ==
  LET inside == StartsIn(slots, from, deadline)
      prices == {inside[i].price : i \in DOMAIN inside}
  IN IF inside = << >> THEN [min |-> 0, max |-> 0, average |-> NoAverage]
     ELSE [min |-> Min(prices), max |-> Max(prices \union {0}), average |-> Average(inside)]

\* Mutant: a slot that begins as the window ends is counted, too.
WindowAverageBeyond(slots, w) == Average(StartsIn(slots, w.from, w.till + 1))

\* convertWindows.
WindowAverage(slots, w) ==
  LET inside == StartsIn(slots, w.from, w.till)
  IN IF inside = << >> THEN NoAverage ELSE Average(inside)

ConvertWindows(idx, windows) ==
  {[window |-> w, average |-> WindowAverage(idx.slots, w)] : w \in windows}

GetPriceSummary(idx, now) ==
  LET deadline == Last(idx.slots).till
      summary == Summary(idx, now, deadline)
  IN {[price |-> slot.price,
       level |-> Level(idx, slot),
       range |-> PriceRange(idx.slots, now, deadline),
       windows |-> [kind \in DOMAIN summary |-> ConvertWindows(idx, summary[kind])]] :
        slot \in SlotAt(idx.slots, now)}

\* The tool refuses a deadline that is shorter than the duration.
CheapestWindow(idx, now, duration, within) ==
  LET block == FindCheapestWindow(idx.slots, duration, now, now + within)
  IN IF duration > within \/ block = << >> THEN {}
     ELSE {[from |-> block[1].from, till |-> Last(block).till,
            average |-> Average(block), level |-> Level(idx, block[1])]}

===============================================================================
