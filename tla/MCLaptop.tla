------------------------------- MODULE MCLaptop -------------------------------
(***************************************************************************)
(* Days of hourly prices for Laptop: two hours of an evening, two of the   *)
(* night and the four critical hours.                                      *)
(***************************************************************************)
EXTENDS Laptop

Slots(hourly) ==
  {[from |-> (i - 1) * HourLength, till |-> i * HourLength, price |-> hourly[i]] :
     i \in DOMAIN hourly}

\* Flat; cheap at night; cheap at midday; cheap in the evening; free and negative
\* at midday; exactly 20% cheaper at night; a little cheaper at night but cheapest
\* at the end.
SomeDays ==
  {Slots(hourly) : hourly \in
     {<<2, 2, 2, 2, 2, 2, 2, 2>>, <<3, 3, 1, 2, 4, 4, 3, 3>>, <<3, 4, 3, 3, 4, 1, 1, 4>>,
      <<1, 3, 3, 3, 4, 4, 4, 4>>, <<2, 2, 1, 2, 3, 0, 0, 3>>, <<2, 3, 2, 2, 1, -4, -4, 1>>,
      <<5, 4, 4, 4, 5, 5, 5, 5>>, <<9, 9, 9, 9, 10, 10, 11, 8>>}}

\* The proportions of the source hold here.
ASSUME ProfileAssumption == Profile

===============================================================================
