------------------------------- MODULE Calendar -------------------------------
(***************************************************************************)
(* The UTC dates of the bot: what chrono's NaiveDate computes, and the two *)
(* places that turn today's date into the last complete period of a        *)
(* cadence: last_closed_period of summary_poster, and period_window of the *)
(* slash commands.                                                         *)
(*                                                                         *)
(* A date is its number of days since 0000-12-31 (num_days_from_ce), day 1 *)
(* being a Monday.                                                         *)
(***************************************************************************)
EXTENDS Integers

AllCadences == {"daily", "weekly", "monthly"}

-----------------------------------------------------------------------------
(* chrono                                                                  *)

IsLeap(y) == y % 4 = 0 /\ (y % 100 # 0 \/ y % 400 = 0)

\* Days of the year before the first of month m.
DaysBeforeMonth(y, m) ==
    <<0, 31, 59, 90, 120, 151, 181, 212, 243, 273, 304, 334>>[m]
        + (IF m > 2 /\ IsLeap(y) THEN 1 ELSE 0)

DaysBeforeYear(y) == LET z == y - 1 IN z * 365 + z \div 4 - z \div 100 + z \div 400

\* from_ymd_opt
FromYmd(y, m, d) == DaysBeforeYear(y) + DaysBeforeMonth(y, m) + d

\* year(), month(), weekday().num_days_from_monday()
YearOf(n) == CHOOSE y \in n \div 366 .. n \div 365 + 1 :
                DaysBeforeYear(y) < n /\ n <= DaysBeforeYear(y + 1)

MonthOf(n) ==
    LET y == YearOf(n) IN
    CHOOSE m \in 1..12 : /\ FromYmd(y, m, 1) <= n
                         /\ m < 12 => n < FromYmd(y, m + 1, 1)

DaysFromMonday(n) == (n - 1) % 7

FirstOfMonth(n) == FromYmd(YearOf(n), MonthOf(n), 1)

-----------------------------------------------------------------------------
(* The last complete period before today.                                  *)

\* last_closed_period: the date that names the period, its first and last day.
LastClosedPeriod(cadence, today) ==
    IF cadence = "daily" THEN [date |-> today - 1, from |-> today - 1, to |-> today - 1]
    ELSE IF cadence = "weekly"
    THEN LET lastMonday == today - DaysFromMonday(today) - 7 IN
         [date |-> lastMonday, from |-> lastMonday, to |-> lastMonday + 6]
    ELSE LET lastDayPrev == FirstOfMonth(today) - 1
             firstOfPrev == FirstOfMonth(lastDayPrev)
         IN [date |-> firstOfPrev, from |-> firstOfPrev, to |-> lastDayPrev]

\* Mutant: a month is taken for thirty days.
PeriodWindowThirty(period, today) ==
    LET first == FirstOfMonth(today) IN
    IF period = "monthly" THEN <<first - 30, first - 1>>
    ELSE LET last == IF period = "daily" THEN today - 1 ELSE today - DaysFromMonday(today) - 1
         IN <<IF period = "daily" THEN last ELSE last - 6, last>>

\* period_window: first and last day, for /rewards, /tickets and /cuts.
PeriodWindow(period, today) ==
    IF period = "daily" THEN <<today - 1, today - 1>>
    ELSE IF period = "weekly"
    THEN LET thisMonday == today - DaysFromMonday(today) IN
         <<thisMonday - 7, thisMonday - 7 + 6>>
    ELSE LET lastDayPrev == FirstOfMonth(today) - 1 IN
         <<FirstOfMonth(lastDayPrev), lastDayPrev>>

-----------------------------------------------------------------------------
(* next_boundary of digest_poster, in seconds since the midnight that      *)
(* began some day.                                                         *)

DaySeconds == 86400

\* The next multiple of the window since midnight; no wait at all for a window of zero.
NextBoundary(now, window) ==
    LET sinceMidnight == now % DaySeconds
        remainder == sinceMidnight % window
    IN IF window = 0 THEN now
       ELSE (now - sinceMidnight)
              + (sinceMidnight + (IF remainder = 0 THEN window ELSE window - remainder))

-----------------------------------------------------------------------------
(* Reference: what a period of a cadence is, without reference to today.   *)

FirstOfSomeMonth(n) ==
    \E y \in n \div 366 .. n \div 365 + 1, m \in 1..12 : n = FromYmd(y, m, 1)

\* <<a, b>> are the first and the last day of one period.
IsPeriod(cadence, a, b) ==
    /\ cadence = "daily" => a = b
    /\ cadence = "weekly" => a % 7 = 1 /\ b = a + 6
    /\ cadence = "monthly" => /\ a <= b /\ FirstOfSomeMonth(a) /\ FirstOfSomeMonth(b + 1)
                              /\ \A n \in a + 1 .. b : ~FirstOfSomeMonth(n)

\* The period that closed last: the next one, which begins on the day after, is
\* not over before today.
IsLastClosed(cadence, a, b, today) ==
    /\ IsPeriod(cadence, a, b) /\ b < today
    /\ \A c \in b + 1 .. today - 1 : ~IsPeriod(cadence, b + 1, c)

\* The windows of a cadence that closed last before today, searched for.
LastClosedWindows(cadence, today) ==
    {w \in {<<b - n, b>> : b \in today - 31 .. today - 1, n \in {0, 6} \union 27..30} :
        IsLastClosed(cadence, w[1], w[2], today)}

\* period_window gives the only one there is, and last_closed_period the same.
WindowRight(cadence, today) ==
    LET last == LastClosedPeriod(cadence, today) IN
    /\ LastClosedWindows(cadence, today) = {PeriodWindow(cadence, today)}
    /\ PeriodWindow(cadence, today) = <<last.from, last.to>>
=============================================================================
