------------------------------ MODULE MCMjdDate ------------------------------
(***************************************************************************)
(* A calendar that walks day by day, to compare the program's dates with.  *)
(***************************************************************************)
EXTENDS MjdDate

CONSTANTS
    FirstMjd, FirstYear,    \* a first of January
    LastMjd

VARIABLES mjd, today

vars == <<mjd, today>>

IsLeap(y) == y % 4 = 0 /\ (y % 100 # 0 \/ y % 400 = 0)

MonthLength(y, m) ==
    IF m = 2 THEN IF IsLeap(y) THEN 29 ELSE 28
    ELSE IF m \in {4, 6, 9, 11} THEN 30 ELSE 31

Init ==
    /\ mjd = FirstMjd
    /\ today = [year |-> FirstYear, month |-> 1, day |-> 1]

Midnight ==
    /\ mjd < LastMjd
    /\ mjd' = mjd + 1
    /\ today' =
         IF today.day < MonthLength(today.year, today.month)
         THEN [today EXCEPT !.day = @ + 1]
         ELSE IF today.month < 12
              THEN [today EXCEPT !.month = @ + 1, !.day = 1]
              ELSE [year |-> today.year + 1, month |-> 1, day |-> 1]

Spec == Init /\ [][Midnight]_vars

(* Every day the guide can name is given its Gregorian date ("MJD ->       *)
(* Gregorian (ETSI EN 300 468 Annex C)", parse_datetime).                  *)
DatesAreRight == DateOf(mjd) = today
=============================================================================
