-------------------------------- MODULE Calendar --------------------------------
(* Days as numbers, and the day of the year that worlds of posts and          *)
(* notifications are ordered by (time::Date of the library time).             *)
EXTENDS Integers

CONSTANTS
  Day,     \* days that items and queries are about
  NewYear  \* the first day of each year, by year

Year == DOMAIN NewYear

InYear(d, y) == NewYear[y] <= d /\ \A z \in Year : NewYear[z] <= d => z <= y

ASSUME YearAssumption ==
  /\ Year \subseteq Int /\ NewYear \in [Year -> Int] /\ Day \subseteq Int
  /\ \A y, z \in Year : y < z => NewYear[y] < NewYear[z]
  /\ \A d \in Day : \E y \in Year : InYear(d, y)

YearOf(d)  == CHOOSE y \in Year : InYear(d, y)
Ordinal(d) == d - NewYear[YearOf(d)] + 1
===============================================================================
