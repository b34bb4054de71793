--------------------------- MODULE MCHistoryTree ---------------------------
(***************************************************************************)
(* A small instance of HistoryTree for TLC: two connectors of one day, one *)
(* of the next day, one of another month and one of another year.          *)
(***************************************************************************)
EXTENDS HistoryTree, TLC

CONSTANTS a1, b1, a2, a3, a4, day1, day2, day3, day4, nov, dec, jan, y1, y2

MCDayOf == a1 :> day1 @@ b1 :> day1 @@ a2 :> day2 @@ a3 :> day3 @@ a4 :> day4
MCMonthOf == day1 :> nov @@ day2 :> nov @@ day3 :> dec @@ day4 :> jan
MCYearOf == nov :> y1 @@ dec :> y1 @@ jan :> y2
MCCommitted == a1 :> 1
=============================================================================
