------------------------------- MODULE MCQueries -------------------------------
(* A small calendar: weeks of two days, years of five, six and five days (the *)
(* shortest that are longer than two weeks).  Notifications fall on the last  *)
(* days of one year and on the next, in the morning and in the evening.       *)
EXTENDS Queries, TLC

Years   == 1 :> 0 @@ 2 :> 5 @@ 3 :> 11 @@ 4 :> 16
Days    == 3..17
Moments == 18..29
===============================================================================
