--------------------------- MODULE ExpiryCalendar ---------------------------
(***************************************************************************)
(* The expiry sessions of the Indian index contracts (expiryCalendar.ts).  *)
(* A date is the number of its day in 2026, the year of the holiday list;  *)
(* days of the years around it have numbers below 1 and above 365.         *)
(***************************************************************************)
EXTENDS Integers, FiniteSetsExt

MonthEnd == <<31, 59, 90, 120, 151, 181, 212, 243, 273, 304, 334, 365>>
DayOf(month, day) == day + (IF month = 1 THEN 0 ELSE MonthEnd[month - 1])
MonthOf(d) == Min({m \in 1..12 : d <= MonthEnd[m]})

\* istParts: 0 is Sunday; the year begins on a Thursday.
Weekday(d) == (d + 3) % 7
Tuesday == 2
Thursday == 4

MARKET_HOLIDAYS ==
    {DayOf(1, 26), DayOf(3, 3), DayOf(3, 26), DayOf(3, 31), DayOf(4, 3), DayOf(4, 14),
     DayOf(5, 1), DayOf(8, 15), DayOf(10, 2), DayOf(10, 20), DayOf(11, 8), DayOf(12, 25)}
IsHoliday(d) == d \in MARKET_HOLIDAYS \/ Weekday(d) \in {0, 6}

\* Mutant: only weekends move an expiry.
AdjustedMutant(d) == Max({x \in d - 10..d : Weekday(x) \notin {0, 6}})

\* adjustExpiryDate: back to a day the market is open, ten days at most.
Adjusted(d) == Max({x \in d - 9..d : ~IsHoliday(x)} \cup {d - 10})

\* lastWeekdayOfMonth: a holiday sends it to the same weekday a week before, so that
\* adjustExpiryDate has nothing left to move.
LastWeekday(month, weekday) ==
    LET end == MonthEnd[month]
        fit == {x \in end - 9..end : Weekday(x) = weekday /\ x \notin MARKET_HOLIDAYS}
    IN Adjusted(Max(fit \cup {end - 10}))

NextOrSame(d, weekday) == Adjusted(d + ((weekday - Weekday(d)) % 7))

\* getExpirySchedule: the kind of session a day is for a symbol, and the expiry shown.
Schedule(symbol, d) ==
    LET weekly == NextOrSame(d, IF symbol = "SENSEX" THEN Thursday ELSE Tuesday)
        monthly == LastWeekday(MonthOf(d), Tuesday)
    IN CASE symbol = "NIFTY50" ->
              [kind |-> IF monthly = d THEN "monthly" ELSE IF weekly = d THEN "weekly" ELSE "none",
               date |-> IF monthly = d THEN d ELSE weekly]
         [] symbol = "BANKNIFTY" ->
              [kind |-> IF monthly = d THEN "monthly" ELSE "none", date |-> monthly]
         [] symbol = "SENSEX" ->
              [kind |-> IF weekly = d THEN "weekly" ELSE "none", date |-> weekly]
         [] OTHER -> [kind |-> "none", date |-> 0]

IsExpiryDay(symbol, d) == Schedule(symbol, d).kind # "none"
-----------------------------------------------------------------------------
\* The weeks of the year, Monday to Friday, and its months.
Weeks == {d..d + 4 : d \in {x \in 1..361 : Weekday(x) = 1}}
Months == {DayOf(m, 1)..MonthEnd[m] : m \in 1..12}
Expiries(symbol, days) == {d \in days : IsExpiryDay(symbol, d)}

\* The days an expiry of the symbol is due on, were there no holidays.
Due(symbol, days) == {x \in days : Weekday(x) = IF symbol = "SENSEX" THEN Thursday ELSE Tuesday}
\* The last day before a date, itself included, that the market is open.
Eve(d, t) == d <= t /\ ~IsHoliday(d) /\ \A x \in d + 1..t : IsHoliday(x)

\* Where the session of a week or a month lies: a holiday moves it to the day the market
\* was last open, but March's monthly one, due on the 31st, to the Tuesday before,
\* although the market is open on the 30th.
Listed == {"NIFTY50", "SENSEX", "BANKNIFTY"}
Lands(symbol, days, d) ==
    \E t \in Due(symbol, days) :
        /\ \A u \in Due(symbol, days) : u <= t
        /\ IF symbol = "BANKNIFTY" /\ t = DayOf(3, 31) THEN d = t - 7 ELSE Eve(d, t)

\* The symbols whose sessions are one a week (NIFTY, SENSEX) or one a month (BANKNIFTY).
Regular ==
    {s \in Listed :
       /\ \A days \in (IF s = "BANKNIFTY" THEN Months ELSE Weeks) :
             \E d \in days : Expiries(s, days) = {d} /\ Lands(s, days, d)
       /\ \A d \in Expiries(s, 1..365) : ~IsHoliday(d)}
=============================================================================
