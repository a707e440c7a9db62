--------------------------- MODULE MCSeriesClock ----------------------------
(* A week of three days of two ticks, and years of two months, which have  *)
(* 31, 28, 30 and 29 days in turn, so that every kind of month end occurs  *)
(* inside a year and at its turn.                                          *)
EXTENDS SeriesClock

MCMonthDays   == <<31, 28, 30, 29>>
MCWeeklies    == {0, 2}
MCMonthlies   == {0, 1, 15, 28, 29, 31}
MCStarts      == {0, 1, 3}
MCStartStamps == {Stamp(m, d, t) : m \in {0, 1, 2}, d \in {1, 15, 28}, t \in {0, 1}}
                   \cup {Stamp(0, 31, 0)}
=============================================================================
