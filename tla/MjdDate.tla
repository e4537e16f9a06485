-------------------------------- MODULE MjdDate --------------------------------
(***************************************************************************)
(* The calendar date of an event, from the modified Julian day that an EIT *)
(* carries (eit.rs parse_datetime).  The time of day is apart, two digits  *)
(* at a time.                                                              *)
(***************************************************************************)
EXTENDS Integers

(* The formula is for days from 1 March 1900 on; 65535 stands for no date. *)
FirstDay == 15079
LastDay  == 65534
Days == FirstDay .. LastDay

YearPrime(mjd) == ((mjd - 15078) * 10000) \div 3652425
YearDays(mjd)  == (YearPrime(mjd) * 36525) \div 100
MonthPrime(mjd) == ((mjd - 14956 - YearDays(mjd)) * 10000) \div 306001

(* Fault: of the two months counted to the year before, one is forgotten.  *)
CarryJanuaryOnly(mjd) == IF MonthPrime(mjd) = 14 THEN 1 ELSE 0

Carry(mjd) == IF MonthPrime(mjd) \in {14, 15} THEN 1 ELSE 0

DateOf(mjd) ==
    [year  |-> YearPrime(mjd) + 1900 + Carry(mjd),
     month |-> MonthPrime(mjd) - 1 - Carry(mjd) * 12,
     day   |-> mjd - 14956 - YearDays(mjd)
                 - (MonthPrime(mjd) * 306001) \div 10000]

(* The derived order of DateTime: year, then month, then day.              *)
Before(a, b) ==
    \/ a.year < b.year
    \/ a.year = b.year /\ a.month < b.month
    \/ a.year = b.year /\ a.month = b.month /\ a.day < b.day
=============================================================================
