------------------------- MODULE SummaryPosterProofs -------------------------
(***************************************************************************)
(* What holds of Calendar for every date, and what follows from it for     *)
(* SummaryPoster, for every choice of cadences, settlement times, deadline *)
(* and bounds.                                                             *)
(***************************************************************************)
EXTENDS SummaryPoster, TLAPS

-----------------------------------------------------------------------------
(* Calendar: the window of a digest.                                       *)

\* Division with remainder, as tokio and chrono rely on it.
LEMMA Remainder ==
    ASSUME NEW a \in Nat, NEW b \in Nat \ {0}
    PROVE  a % b \in Int /\ 0 <= a % b /\ a % b < b
  OBVIOUS

\* digest_poster sleeps, and never longer than a window: with a positive window the
\* next boundary lies ahead, also across midnight and for windows that do not divide
\* the day.
THEOREM BoundaryAhead ==
    ASSUME NEW t \in Nat, NEW window \in Nat \ {0}
    PROVE  t < NextBoundary(t, window) /\ NextBoundary(t, window) <= t + window
<1> DEFINE s == t % DaySeconds
<1>1. s \in Nat
  BY Remainder DEF DaySeconds
<1>2. s % window \in Int /\ 0 <= s % window /\ s % window < window
  BY <1>1, Remainder
<1>3. CASE s % window = 0
  <2>1. NextBoundary(t, window) = (t - s) + (s + window)
    BY <1>3 DEF NextBoundary
  <2> QED BY <2>1, <1>1
<1>4. CASE s % window # 0
  <2>1. NextBoundary(t, window) = (t - s) + (s + (window - (s % window)))
    BY <1>4 DEF NextBoundary
  <2> HIDE DEF s
  <2> QED BY <2>1, <1>1, <1>2, <1>4
<1> QED BY <1>3, <1>4

-----------------------------------------------------------------------------
(* Calendar: the last complete period.                                     *)

\* The slash commands and the public summaries speak of the same period, of every
\* cadence and on every date.
THEOREM WindowsAgree ==
    ASSUME NEW cadence \in AllCadences, NEW today \in Int
    PROVE  LET last == LastClosedPeriod(cadence, today) IN
           PeriodWindow(cadence, today) = <<last.from, last.to>>
<1>1. CASE cadence = "daily"
  BY <1>1 DEF PeriodWindow, LastClosedPeriod
<1>2. CASE cadence = "weekly"
  BY <1>2 DEF PeriodWindow, LastClosedPeriod
<1>3. CASE cadence = "monthly"
  BY <1>3 DEF PeriodWindow, LastClosedPeriod
<1> QED BY <1>1, <1>2, <1>3 DEF AllCadences

\* A day: yesterday is over, and no later day is.
THEOREM DailyIsLastClosed ==
    ASSUME NEW today \in Nat
    PROVE  LET last == LastClosedPeriod("daily", today) IN
           IsLastClosed("daily", last.from, last.to, today)
  BY DEF LastClosedPeriod, IsLastClosed, IsPeriod

\* A week: whatever the weekday of today, the window runs from a Monday to the Sunday
\* before this week's Monday, and no later week is over.
THEOREM WeeklyIsLastClosed ==
    ASSUME NEW today \in Nat \ 0..7
    PROVE  LET last == LastClosedPeriod("weekly", today) IN
           IsLastClosed("weekly", last.from, last.to, today)
<1> DEFINE last == LastClosedPeriod("weekly", today)
           k == DaysFromMonday(today)
<1>1. k \in 0..6 /\ (today - k) % 7 = 1
  BY DEF DaysFromMonday
<1>2. last.from = today - k - 7 /\ last.to = today - k - 1
  BY <1>1 DEF LastClosedPeriod
<1>3. IsPeriod("weekly", last.from, last.to)
  BY <1>1, <1>2 DEF IsPeriod
<1>4. last.to < today
  BY <1>1, <1>2
<1>5. \A c \in last.to + 1 .. today - 1 : ~IsPeriod("weekly", last.to + 1, c)
  BY <1>1, <1>2 DEF IsPeriod
<1> QED BY <1>3, <1>4, <1>5 DEF IsLastClosed

-----------------------------------------------------------------------------
(* Calendar: years. A day lies in one year, found without counting.        *)

\* The years of the Gregorian calendar come in cycles of 400, 100, 4 and 1.
YearBegins(q, c, d, k) ==
    DaysBeforeYear(400 * q + 100 * c + 4 * d + k + 1)
        = 146097 * q + 36524 * c + 1461 * d + 365 * k

LEMMA YearOfCycles ==
    ASSUME NEW q \in Int, NEW c \in 0..3, NEW d \in 0..24, NEW k \in 0..3
    PROVE  YearBegins(q, c, d, k)
<1> DEFINE z == 400 * q + 100 * c + 4 * d + k
<1>1. z \div 4 = 100 * q + 25 * c + d
  OBVIOUS
<1>2. z \div 100 = 4 * q + c
  OBVIOUS
<1>3. z \div 400 = q
  OBVIOUS
<1>4. z \in Int /\ (z + 1) - 1 = z
  OBVIOUS
<1> HIDE DEF z
<1>5. DaysBeforeYear(z + 1) = z * 365 + z \div 4 - z \div 100 + z \div 400
  BY <1>4 DEF DaysBeforeYear
<1>6. DaysBeforeYear(z + 1) = z * 365 + (100 * q + 25 * c + d) - (4 * q + c) + q
  BY <1>1, <1>2, <1>3, <1>5
<1> QED BY <1>6 DEF z, YearBegins

\* A year has at least 365 days.
LEMMA YearsGrow ==
    ASSUME NEW y \in Int, NEW z \in Int, y < z
    PROVE  /\ DaysBeforeYear(y) \in Int /\ DaysBeforeYear(z) \in Int
           /\ DaysBeforeYear(y) + 365 <= DaysBeforeYear(z)
  BY DEF DaysBeforeYear

\* The whole cycles in a number of days.
LEMMA Cycles ==
    ASSUME NEW a \in Int
    PROVE  /\ a \div 146097 \in Int
           /\ 0 <= a - 146097 * (a \div 146097) /\ a - 146097 * (a \div 146097) < 146097
           /\ a \div 36524 \in Int
           /\ 0 <= a - 36524 * (a \div 36524) /\ a - 36524 * (a \div 36524) < 36524
           /\ a \div 1461 \in Int
           /\ 0 <= a - 1461 * (a \div 1461) /\ a - 1461 * (a \div 1461) < 1461
           /\ a \div 365 \in Int
           /\ 0 <= a - 365 * (a \div 365) /\ a - 365 * (a \div 365) < 365
  BY SMT

\* Every day has its year: the one its cycles add up to.
LEMMA YearExists ==
    ASSUME NEW n \in Nat \ {0}
    PROVE  \E y \in Int : DaysBeforeYear(y) < n /\ n <= DaysBeforeYear(y + 1)
<1> DEFINE q == (n - 1) \div 146097
           inCycle == (n - 1) - 146097 * q
           c == IF inCycle \div 36524 > 3 THEN 3 ELSE inCycle \div 36524
           inCentury == inCycle - 36524 * c
           d == inCentury \div 1461
           inFour == inCentury - 1461 * d
           k == IF inFour \div 365 > 3 THEN 3 ELSE inFour \div 365
           y == 400 * q + 100 * c + 4 * d + k + 1
<1>1. q \in Int /\ inCycle \in Int /\ 0 <= inCycle /\ inCycle < 146097
  BY Cycles, SMT
<1>5. inCycle = (n - 1) - 146097 * q
  OBVIOUS
<1> HIDE DEF q, inCycle
<1>2. /\ c \in Int /\ 0 <= c /\ c <= 3
      /\ inCentury \in Int /\ 0 <= inCentury /\ inCentury <= 36524
      /\ c < 3 => inCentury < 36524
  BY <1>1, Cycles, SMT
<1>10. inCentury = inCycle - 36524 * c
  OBVIOUS
<1> HIDE DEF c, inCentury
<1>3. /\ d \in Int /\ 0 <= d /\ d <= 24
      /\ inFour \in Int /\ 0 <= inFour /\ inFour <= 1460
      /\ (d = 24 /\ c < 3) => inFour < 1460
  BY <1>2, Cycles, SMT
<1>11. inFour = inCentury - 1461 * d
  OBVIOUS
<1> HIDE DEF d, inFour
<1>4. /\ k \in Int /\ 0 <= k /\ k <= 3
      /\ 365 * k <= inFour /\ (k < 3 => inFour < 365 * k + 365)
  BY <1>3, Cycles, SMT
<1> HIDE DEF k
<1>12. n - 1 = 146097 * q + 36524 * c + 1461 * d + inFour
  BY <1>1, <1>2, <1>3, <1>5, <1>10, <1>11, SMT
<1>6. y \in Int
  BY <1>1, <1>2, <1>3, <1>4
<1>7. DaysBeforeYear(y) = 146097 * q + 36524 * c + 1461 * d + 365 * k
  <2>1. c \in 0..3 /\ d \in 0..24 /\ k \in 0..3
    BY <1>2, <1>3, <1>4
  <2>2. YearBegins(q, c, d, k)
    BY <1>1, <2>1, YearOfCycles
  <2> QED BY <2>2 DEF YearBegins
<1>8. n <= DaysBeforeYear(y + 1)
  <2>1. CASE k < 3
    <3>1. DaysBeforeYear(y) + 365 <= DaysBeforeYear(y + 1) /\ DaysBeforeYear(y + 1) \in Int
      <4> HIDE DEF y
      <4>1. y + 1 \in Int /\ y < y + 1
        BY <1>6
      <4> QED BY <1>6, <4>1, YearsGrow
    <3> HIDE DEF y
    <3> QED BY <3>1, <2>1, <1>1, <1>2, <1>3, <1>4, <1>12, <1>7
  <2>2. CASE k = 3 /\ d < 24
    <3>1. y + 1 = 400 * q + 100 * c + 4 * (d + 1) + 0 + 1
      BY <2>2, <1>1, <1>2, <1>3
    <3>2. DaysBeforeYear(y + 1) = 146097 * q + 36524 * c + 1461 * (d + 1) + 365 * 0
      <4>1. d + 1 \in 0..24 /\ 0 \in 0..3
        BY <2>2, <1>3
      <4>2. YearBegins(q, c, d + 1, 0)
        BY <4>1, <1>1, <1>2, YearOfCycles
      <4> QED BY <4>2, <3>1 DEF YearBegins
    <3> HIDE DEF y
    <3> QED BY <3>2, <2>2, <1>1, <1>2, <1>3, <1>12
  <2>3. CASE k = 3 /\ d = 24 /\ c < 3
    <3>1. y + 1 = 400 * q + 100 * (c + 1) + 4 * 0 + 0 + 1
      BY <2>3, <1>1, <1>2, <1>3
    <3>2. DaysBeforeYear(y + 1) = 146097 * q + 36524 * (c + 1) + 1461 * 0 + 365 * 0
      <4>1. c + 1 \in 0..3 /\ 0 \in 0..24 /\ 0 \in 0..3
        BY <2>3, <1>2
      <4>2. YearBegins(q, c + 1, 0, 0)
        BY <4>1, <1>1, <1>2, YearOfCycles
      <4> QED BY <4>2, <3>1 DEF YearBegins
    <3> HIDE DEF y
    <3> QED BY <3>2, <2>3, <1>1, <1>2, <1>3, <1>12
  <2>4. CASE k = 3 /\ d = 24 /\ c = 3
    <3>1. y + 1 = 400 * (q + 1) + 100 * 0 + 4 * 0 + 0 + 1
      BY <2>4, <1>1, <1>2, <1>3
    <3>2. DaysBeforeYear(y + 1) = 146097 * (q + 1) + 36524 * 0 + 1461 * 0 + 365 * 0
      <4>1. q + 1 \in Int /\ 0 \in 0..24 /\ 0 \in 0..3
        BY <1>1
      <4>2. YearBegins(q + 1, 0, 0, 0)
        BY <4>1, YearOfCycles
      <4> QED BY <4>2, <3>1 DEF YearBegins
    <3> HIDE DEF y
    <3> QED BY <3>2, <2>4, <1>1, <1>2, <1>3, <1>12
  <2> HIDE DEF y
  <2> QED BY <2>1, <2>2, <2>3, <2>4, <1>2, <1>3, <1>4
<1>9. DaysBeforeYear(y) < n
  <2> HIDE DEF y
  <2> QED BY <1>1, <1>2, <1>3, <1>4, <1>12, <1>7
<1> HIDE DEF y
<1> QED BY <1>6, <1>8, <1>9

\* YearOf looks among enough years.
LEMMA YearInRange ==
    ASSUME NEW n \in Nat \ {0}, NEW y \in Int,
           DaysBeforeYear(y) < n, n <= DaysBeforeYear(y + 1)
    PROVE  y \in n \div 366 .. n \div 365 + 1 /\ y >= 1
<1>1. /\ DaysBeforeYear(y) = (y - 1) * 365 + (y - 1) \div 4 - (y - 1) \div 100 + (y - 1) \div 400
      /\ DaysBeforeYear(y + 1) = y * 365 + y \div 4 - y \div 100 + y \div 400
  BY DEF DaysBeforeYear
<1>2. y >= 1
  BY <1>1
<1>3. 365 * (y - 1) < n /\ n <= 366 * y
  BY <1>1, <1>2
<1> QED BY <1>2, <1>3

\* YearOf finds the year of a day.
LEMMA YearFound ==
    ASSUME NEW n \in Nat \ {0}
    PROVE  /\ YearOf(n) \in Nat \ {0}
           /\ DaysBeforeYear(YearOf(n)) < n
           /\ n <= DaysBeforeYear(YearOf(n) + 1)
<1>1. \E y \in n \div 366 .. n \div 365 + 1 :
         DaysBeforeYear(y) < n /\ n <= DaysBeforeYear(y + 1)
  BY YearExists, YearInRange
<1>2. /\ YearOf(n) \in n \div 366 .. n \div 365 + 1
      /\ DaysBeforeYear(YearOf(n)) < n /\ n <= DaysBeforeYear(YearOf(n) + 1)
  BY <1>1 DEF YearOf
<1> QED BY <1>2, YearInRange

-----------------------------------------------------------------------------
(* Calendar: months.                                                       *)

\* The leap day of y.
Leap(y) == IF IsLeap(y) THEN 1 ELSE 0

\* Where the months of a year begin, written out.
LEMMA MonthStarts ==
    ASSUME NEW y \in Int
    PROVE  /\ FromYmd(y, 1, 1) = DaysBeforeYear(y) + 0 + 1
           /\ FromYmd(y, 2, 1) = DaysBeforeYear(y) + 31 + 1
           /\ FromYmd(y, 3, 1) = DaysBeforeYear(y) + (59 + Leap(y)) + 1
           /\ FromYmd(y, 4, 1) = DaysBeforeYear(y) + (90 + Leap(y)) + 1
           /\ FromYmd(y, 5, 1) = DaysBeforeYear(y) + (120 + Leap(y)) + 1
           /\ FromYmd(y, 6, 1) = DaysBeforeYear(y) + (151 + Leap(y)) + 1
           /\ FromYmd(y, 7, 1) = DaysBeforeYear(y) + (181 + Leap(y)) + 1
           /\ FromYmd(y, 8, 1) = DaysBeforeYear(y) + (212 + Leap(y)) + 1
           /\ FromYmd(y, 9, 1) = DaysBeforeYear(y) + (243 + Leap(y)) + 1
           /\ FromYmd(y, 10, 1) = DaysBeforeYear(y) + (273 + Leap(y)) + 1
           /\ FromYmd(y, 11, 1) = DaysBeforeYear(y) + (304 + Leap(y)) + 1
           /\ FromYmd(y, 12, 1) = DaysBeforeYear(y) + (334 + Leap(y)) + 1
<1>1. DaysBeforeYear(y) \in Int
  BY DEF DaysBeforeYear
<1>2. /\ DaysBeforeMonth(y, 1) = 0 /\ DaysBeforeMonth(y, 2) = 31
      /\ DaysBeforeMonth(y, 3) = 59 + Leap(y) /\ DaysBeforeMonth(y, 4) = 90 + Leap(y)
      /\ DaysBeforeMonth(y, 5) = 120 + Leap(y) /\ DaysBeforeMonth(y, 6) = 151 + Leap(y)
      /\ DaysBeforeMonth(y, 7) = 181 + Leap(y) /\ DaysBeforeMonth(y, 8) = 212 + Leap(y)
      /\ DaysBeforeMonth(y, 9) = 243 + Leap(y) /\ DaysBeforeMonth(y, 10) = 273 + Leap(y)
      /\ DaysBeforeMonth(y, 11) = 304 + Leap(y) /\ DaysBeforeMonth(y, 12) = 334 + Leap(y)
  BY DEF DaysBeforeMonth, Leap
<1> QED BY <1>1, <1>2 DEF FromYmd

\* A month has 28 to 31 days, and December ends with its year.
LEMMA MonthsGrow ==
    ASSUME NEW y \in Int, NEW m \in 1..12
    PROVE  /\ FromYmd(y, m, 1) \in Int
           /\ DaysBeforeYear(y) + 1 <= FromYmd(y, m, 1)
           /\ FromYmd(y, m, 1) + 28 <= DaysBeforeYear(y + 1)
           /\ \A k \in 1..12 : m < k => FromYmd(y, m, 1) + 28 <= FromYmd(y, k, 1)
           /\ m < 12 => FromYmd(y, m + 1, 1) <= FromYmd(y, m, 1) + 31
           /\ m = 12 => DaysBeforeYear(y + 1) + 1 = FromYmd(y, m, 1) + 31
<1> DEFINE D == DaysBeforeYear(y)
           L == Leap(y)
<1>1. D \in Int /\ DaysBeforeYear(y + 1) = D + 365 + L
  BY DEF DaysBeforeYear, Leap, IsLeap
<1>2. L \in {0, 1}
  BY DEF Leap
<1>3. \A k \in 1..12 : k \in {1, 2, 3, 4, 5, 6, 7, 8, 9, 10, 11, 12}
  OBVIOUS
<1> DEFINE F(k) == FromYmd(y, k, 1)
<1>4. /\ F(1) = D + 0 + 1 /\ F(2) = D + 31 + 1 /\ F(3) = D + (59 + L) + 1
      /\ F(4) = D + (90 + L) + 1 /\ F(5) = D + (120 + L) + 1 /\ F(6) = D + (151 + L) + 1
      /\ F(7) = D + (181 + L) + 1 /\ F(8) = D + (212 + L) + 1 /\ F(9) = D + (243 + L) + 1
      /\ F(10) = D + (273 + L) + 1 /\ F(11) = D + (304 + L) + 1 /\ F(12) = D + (334 + L) + 1
  BY MonthStarts
<1> HIDE DEF D, L, F
<1>5. /\ F(m) \in Int /\ D + 1 <= F(m) /\ F(m) + 28 <= D + 365 + L
      /\ m < 12 => F(m + 1) <= F(m) + 31
      /\ m = 12 => D + 365 + L + 1 = F(m) + 31
  BY <1>1, <1>2, <1>3, <1>4
<1>6. ASSUME NEW k \in 1..12, m < k PROVE F(m) + 28 <= F(k)
  BY <1>1, <1>2, <1>3, <1>4, <1>6
<1> QED BY <1>1, <1>5, <1>6 DEF D, F, L

\* The first of the month after month m of y.
NextFirst(y, m) == IF m < 12 THEN FromYmd(y, m + 1, 1) ELSE FromYmd(y + 1, 1, 1)

\* So has it across the end of a year.
LEMMA NextFirstAfter ==
    ASSUME NEW y \in Int, NEW m \in 1..12
    PROVE  /\ NextFirst(y, m) \in Int
           /\ FromYmd(y, m, 1) + 28 <= NextFirst(y, m)
           /\ NextFirst(y, m) <= FromYmd(y, m, 1) + 31
<1>1. CASE m < 12
  <2>1. m + 1 \in 1..12 /\ m < m + 1
    BY <1>1
  <2> QED BY <1>1, <2>1, MonthsGrow DEF NextFirst
<1>2. CASE m = 12
  <2>1. y + 1 \in Int
    OBVIOUS
  <2>2. FromYmd(y + 1, 1, 1) = DaysBeforeYear(y + 1) + 0 + 1
    BY <2>1, MonthStarts
  <2>3. DaysBeforeYear(y + 1) \in Int
    BY DEF DaysBeforeYear
  <2>4. FromYmd(y, m, 1) \in Int /\ DaysBeforeYear(y + 1) + 1 = FromYmd(y, m, 1) + 31
    BY <1>2, MonthsGrow
  <2> QED BY <1>2, <2>2, <2>3, <2>4 DEF NextFirst
<1> QED BY <1>1, <1>2

\* The first of a month lies in its year.
LEMMA InItsYear ==
    ASSUME NEW y \in Int, NEW m \in 1..12
    PROVE  /\ DaysBeforeYear(y) \in Int /\ DaysBeforeYear(y + 1) \in Int
           /\ FromYmd(y, m, 1) \in Int
           /\ DaysBeforeYear(y) < FromYmd(y, m, 1) /\ FromYmd(y, m, 1) <= DaysBeforeYear(y + 1)
<1>1. DaysBeforeYear(y) \in Int /\ DaysBeforeYear(y + 1) \in Int
  BY DEF DaysBeforeYear
<1>2. /\ FromYmd(y, m, 1) \in Int
      /\ DaysBeforeYear(y) + 1 <= FromYmd(y, m, 1)
      /\ FromYmd(y, m, 1) + 28 <= DaysBeforeYear(y + 1)
  BY MonthsGrow
<1> QED BY <1>1, <1>2

\* FirstOfSomeMonth knows the first of every month.
LEMMA FirstsFound ==
    ASSUME NEW y \in Nat \ {0}, NEW m \in 1..12
    PROVE  FromYmd(y, m, 1) \in Nat \ {0} /\ FirstOfSomeMonth(FromYmd(y, m, 1))
<1> DEFINE n == FromYmd(y, m, 1)
<1>1. n \in Int /\ DaysBeforeYear(y) < n /\ n <= DaysBeforeYear(y + 1)
  <2>1. y \in Int
    OBVIOUS
  <2> QED BY <2>1, InItsYear
<1>2. DaysBeforeYear(y) >= 0
  BY DEF DaysBeforeYear
<1>3. n \in Nat \ {0}
  <2>1. DaysBeforeYear(y) \in Int
    BY DEF DaysBeforeYear
  <2> HIDE DEF n
  <2> QED BY <1>1, <1>2, <2>1
<1>4. y \in n \div 366 .. n \div 365 + 1
  <2> HIDE DEF n
  <2> QED BY <1>1, <1>3, YearInRange
<1> QED BY <1>3, <1>4 DEF FirstOfSomeMonth

\* Between a first of a month and the next there is no other.
LEMMA NoFirstBetween ==
    ASSUME NEW y \in Int, NEW m \in 1..12, NEW n \in Int,
           FromYmd(y, m, 1) < n, n < NextFirst(y, m)
    PROVE  ~FirstOfSomeMonth(n)
<1> SUFFICES ASSUME NEW z \in Int, NEW k \in 1..12, n = FromYmd(z, k, 1)
             PROVE  FALSE
  BY DEF FirstOfSomeMonth
<1>1. /\ DaysBeforeYear(y) \in Int /\ DaysBeforeYear(z) \in Int
      /\ DaysBeforeYear(y + 1) \in Int /\ DaysBeforeYear(z + 1) \in Int
  BY DEF DaysBeforeYear
<1>2. FromYmd(y, m, 1) \in Int /\ DaysBeforeYear(y) < FromYmd(y, m, 1)
  BY InItsYear
<1>3. DaysBeforeYear(z) < n /\ n <= DaysBeforeYear(z + 1)
  BY InItsYear
<1>4. NextFirst(y, m) <= DaysBeforeYear(y + 1) + 1
  <2>1. CASE m < 12
    <3>1. m + 1 \in 1..12
      BY <2>1
    <3>2. FromYmd(y, m + 1, 1) \in Int /\ FromYmd(y, m + 1, 1) + 28 <= DaysBeforeYear(y + 1)
      BY <3>1, MonthsGrow
    <3> QED BY <2>1, <3>2, <1>1 DEF NextFirst
  <2>2. CASE m = 12
    <3>1. FromYmd(y + 1, 1, 1) = DaysBeforeYear(y + 1) + 0 + 1
      BY MonthStarts
    <3> QED BY <2>2, <3>1, <1>1 DEF NextFirst
  <2> QED BY <2>1, <2>2
<1>5. NextFirst(y, m) \in Int
  BY NextFirstAfter
<1>6. CASE z < y
  <2>1. DaysBeforeYear(z + 1) <= DaysBeforeYear(y)
    <3>1. CASE z + 1 = y
      BY <3>1, <1>1
    <3>2. CASE z + 1 < y
      BY <3>2, <1>1, YearsGrow
    <3> QED BY <3>1, <3>2, <1>6
  <2> QED BY <2>1, <1>1, <1>2, <1>3
<1>7. CASE z > y
  <2>1. DaysBeforeYear(y + 1) <= DaysBeforeYear(z)
    <3>1. CASE y + 1 = z
      BY <3>1, <1>1
    <3>2. CASE y + 1 < z
      BY <3>2, <1>1, YearsGrow
    <3> QED BY <3>1, <3>2, <1>7
  <2> QED BY <2>1, <1>1, <1>3, <1>4, <1>5
<1>8. CASE z = y
  <2>1. CASE k <= m
    <3>1. CASE k = m
      BY <3>1, <1>8, <1>2
    <3>2. CASE k < m
      <4>1. FromYmd(y, k, 1) + 28 <= FromYmd(y, m, 1)
        BY <3>2, MonthsGrow
      <4> QED BY <4>1, <1>2, <1>8
    <3> QED BY <2>1, <3>1, <3>2
  <2>2. CASE k = m + 1
    BY <2>2, <1>8 DEF NextFirst
  <2>3. CASE k > m + 1
    <3>1. m + 1 \in 1..12 /\ m < 12
      BY <2>3
    <3>2. FromYmd(y, m + 1, 1) \in Int /\ FromYmd(y, m + 1, 1) + 28 <= FromYmd(y, k, 1)
      BY <3>1, <2>3, MonthsGrow
    <3> QED BY <3>1, <3>2, <1>8 DEF NextFirst
  <2> QED BY <2>1, <2>2, <2>3
<1> QED BY <1>6, <1>7, <1>8

\* FirstOfMonth gives the first of the month that the day lies in.
LEMMA MonthFound ==
    ASSUME NEW n \in Nat \ {0}
    PROVE  \E y \in Nat \ {0}, m \in 1..12 :
              /\ FirstOfMonth(n) = FromYmd(y, m, 1)
              /\ FromYmd(y, m, 1) <= n /\ n < NextFirst(y, m)
<1> DEFINE y == YearOf(n)
           D == DaysBeforeYear(y)
           L == Leap(y)
           F(k) == FromYmd(y, k, 1)
           In(m) == F(m) <= n /\ (m < 12 => n < F(m + 1))
<1>1. y \in Nat \ {0} /\ D < n /\ n <= DaysBeforeYear(y + 1)
  BY YearFound
<1>2. \E m \in 1..12 : In(m)
  <2> HIDE DEF y
  <2>1. D \in Int /\ L \in {0, 1} /\ y \in Int
    BY <1>1 DEF DaysBeforeYear, Leap
  <2>2. /\ F(1) = D + 0 + 1 /\ F(2) = D + 31 + 1 /\ F(3) = D + (59 + L) + 1
        /\ F(4) = D + (90 + L) + 1 /\ F(5) = D + (120 + L) + 1 /\ F(6) = D + (151 + L) + 1
        /\ F(7) = D + (181 + L) + 1 /\ F(8) = D + (212 + L) + 1 /\ F(9) = D + (243 + L) + 1
        /\ F(10) = D + (273 + L) + 1 /\ F(11) = D + (304 + L) + 1 /\ F(12) = D + (334 + L) + 1
    BY <2>1, MonthStarts
  <2> HIDE DEF D, L, F
  <2>3. In(1) \/ In(2) \/ In(3) \/ In(4) \/ In(5) \/ In(6) \/ In(7) \/ In(8) \/ In(9)
        \/ In(10) \/ In(11) \/ In(12)
    BY <1>1, <2>1, <2>2
  <2> HIDE DEF In
  <2> QED BY <2>3
<1>3. MonthOf(n) \in 1..12 /\ In(MonthOf(n))
  <2>1. MonthOf(n) = CHOOSE m \in 1..12 : In(m)
    BY DEF MonthOf
  <2> HIDE DEF In
  <2> QED BY <1>2, <2>1
<1> DEFINE m == MonthOf(n)
<1>4. FirstOfMonth(n) = FromYmd(y, m, 1)
  BY DEF FirstOfMonth
<1>5. n < NextFirst(y, m)
  <2>1. CASE m < 12
    BY <1>3, <2>1 DEF NextFirst
  <2>2. CASE m = 12
    <3>1. FromYmd(y + 1, 1, 1) = DaysBeforeYear(y + 1) + 0 + 1
      <4> HIDE DEF y
      <4>1. y + 1 \in Int
        BY <1>1
      <4> QED BY <4>1, MonthStarts
    <3>2. DaysBeforeYear(y + 1) \in Int
      <4> HIDE DEF y
      <4> QED BY <1>1 DEF DaysBeforeYear
    <3>3. n < FromYmd(y + 1, 1, 1)
      <4> HIDE DEF y
      <4> QED BY <3>1, <3>2, <1>1
    <3> QED BY <3>3, <2>2 DEF NextFirst
  <2> QED BY <1>3, <2>1, <2>2
<1>6. m \in 1..12 /\ FromYmd(y, m, 1) <= n
  BY <1>3
<1> HIDE DEF y, m
<1> QED BY <1>1, <1>4, <1>5, <1>6

\* The month before today's: its last day and its first.
LEMMA MonthBefore ==
    ASSUME NEW today \in Nat \ 0..31, NEW b, b = FirstOfMonth(today) - 1
    PROVE  /\ b \in Nat \ {0} /\ FirstOfMonth(b) \in Nat
           /\ b \in FirstOfMonth(b) .. FirstOfMonth(b) + 30
           /\ FirstOfMonth(b) + 27 <= b /\ b \in today - 31 .. today - 1
<1>1. PICK y \in Nat \ {0}, m \in 1..12 :
         /\ FirstOfMonth(today) = FromYmd(y, m, 1)
         /\ FromYmd(y, m, 1) <= today /\ today < NextFirst(y, m)
  BY MonthFound
<1>2. FromYmd(y, m, 1) \in Nat \ {0} /\ y \in Int
  BY FirstsFound
<1>3. NextFirst(y, m) \in Int /\ NextFirst(y, m) <= FromYmd(y, m, 1) + 31
  BY <1>2, NextFirstAfter
<1>4. b \in Nat \ {0}
  BY <1>1, <1>2, <1>3
<1>5. PICK z \in Nat \ {0}, k \in 1..12 :
         /\ FirstOfMonth(b) = FromYmd(z, k, 1)
         /\ FromYmd(z, k, 1) <= b /\ b < NextFirst(z, k)
  BY <1>4, MonthFound
<1>6. FromYmd(z, k, 1) \in Nat \ {0} /\ z \in Int
  BY FirstsFound
<1>7. NextFirst(z, k) \in Int /\ NextFirst(z, k) <= FromYmd(z, k, 1) + 31
  BY <1>6, NextFirstAfter
<1>8. FromYmd(z, k, 1) + 28 <= NextFirst(z, k)
  BY <1>6, NextFirstAfter
<1>9. b + 1 = NextFirst(z, k)
  <2>1. FirstOfSomeMonth(b + 1) /\ b + 1 \in Int
    BY <1>1, <1>2, <1>4, FirstsFound
  <2>2. FromYmd(z, k, 1) < b + 1 /\ b + 1 <= NextFirst(z, k)
    BY <1>4, <1>5, <1>6, <1>7
  <2>3. ~(b + 1 < NextFirst(z, k))
    BY <1>6, <2>1, <2>2, NoFirstBetween
  <2> QED BY <1>7, <2>1, <2>2, <2>3
<1>10. b \in today - 31 .. today - 1
  BY <1>1, <1>2, <1>3, <1>4
<1> QED BY <1>4, <1>5, <1>6, <1>7, <1>8, <1>9, <1>10

\* A month: whatever its length, and whatever the month and the year, the window runs
\* from the first to the last day of the month before today's, and no later month is
\* over.
THEOREM MonthlyIsLastClosed ==
    ASSUME NEW today \in Nat \ 0..31
    PROVE  LET last == LastClosedPeriod("monthly", today) IN
           IsLastClosed("monthly", last.from, last.to, today)
<1>1. PICK y \in Nat \ {0}, m \in 1..12 :
         /\ FirstOfMonth(today) = FromYmd(y, m, 1)
         /\ FromYmd(y, m, 1) <= today /\ today < NextFirst(y, m)
  BY MonthFound
<1> DEFINE b == FirstOfMonth(today) - 1
<1>2. FirstOfMonth(today) \in Int /\ FirstOfSomeMonth(FirstOfMonth(today))
  BY <1>1, FirstsFound
<1>3. b \in Nat \ {0}
  BY MonthBefore
<1>4. PICK z \in Nat \ {0}, k \in 1..12 :
         /\ FirstOfMonth(b) = FromYmd(z, k, 1)
         /\ FromYmd(z, k, 1) <= b /\ b < NextFirst(z, k)
  BY <1>3, MonthFound
<1> DEFINE a == FirstOfMonth(b)
<1>5. a \in Nat \ {0} /\ FirstOfSomeMonth(a) /\ a <= b
  BY <1>4, FirstsFound
<1>6. /\ LastClosedPeriod("monthly", today).from = a
      /\ LastClosedPeriod("monthly", today).to = b
  BY DEF LastClosedPeriod
<1>7. \A n \in a + 1 .. b : ~FirstOfSomeMonth(n)
  <2> SUFFICES ASSUME NEW n \in a + 1 .. b PROVE ~FirstOfSomeMonth(n)
    OBVIOUS
  <2>1. z \in Int
    OBVIOUS
  <2>2. NextFirst(z, k) \in Int
    BY <2>1, NextFirstAfter
  <2>3. n \in Int /\ FromYmd(z, k, 1) < n /\ n < NextFirst(z, k)
    <3> HIDE DEF b
    <3> QED BY <1>3, <1>4, <1>5, <2>2
  <2> QED BY <2>1, <2>3, NoFirstBetween
<1>8. IsPeriod("monthly", a, b)
  <2>1. b + 1 = FirstOfMonth(today)
    BY <1>2
  <2> QED BY <1>2, <1>5, <1>7, <2>1 DEF IsPeriod
<1>9. \A c \in b + 1 .. today - 1 : ~IsPeriod("monthly", b + 1, c)
  <2> SUFFICES ASSUME NEW c \in b + 1 .. today - 1 PROVE ~FirstOfSomeMonth(c + 1)
    BY DEF IsPeriod
  <2>1. y \in Int
    OBVIOUS
  <2>2. NextFirst(y, m) \in Int
    BY <2>1, NextFirstAfter
  <2>3. c + 1 \in Int /\ FromYmd(y, m, 1) < c + 1 /\ c + 1 < NextFirst(y, m)
    BY <1>1, <1>2, <2>2
  <2> QED BY <2>1, <2>3, NoFirstBetween
<1>10. b < today
  BY <1>1, <1>2
<1> HIDE DEF a, b
<1> QED BY <1>6, <1>8, <1>9, <1>10 DEF IsLastClosed

\* The month after a first of a month is a period.
LEMMA NextMonthIsPeriod ==
    ASSUME NEW y \in Nat \ {0}, NEW m \in 1..12
    PROVE  /\ NextFirst(y, m) \in Int
           /\ IsPeriod("monthly", FromYmd(y, m, 1), NextFirst(y, m) - 1)
<1> DEFINE a == FromYmd(y, m, 1)
           n == NextFirst(y, m)
<1>1. y \in Int
  OBVIOUS
<1>2. a \in Nat \ {0} /\ FirstOfSomeMonth(a)
  BY FirstsFound
<1>3. n \in Int /\ a + 28 <= n
  BY <1>1, NextFirstAfter
<1>4. FirstOfSomeMonth(n)
  <2>1. CASE m < 12
    <3>1. m + 1 \in 1..12
      BY <2>1
    <3> QED BY <2>1, <3>1, FirstsFound DEF NextFirst
  <2>2. CASE m = 12
    <3>1. y + 1 \in Nat \ {0} /\ 1 \in 1..12
      OBVIOUS
    <3> QED BY <2>2, <3>1, FirstsFound DEF NextFirst
  <2> QED BY <2>1, <2>2
<1>5. ASSUME NEW k \in a + 1 .. n - 1 PROVE ~FirstOfSomeMonth(k)
  <2>1. k \in Int /\ a < k /\ k < n
    <3> HIDE DEF a, n
    <3> QED BY <1>2, <1>3
  <2> QED BY <1>1, <2>1, NoFirstBetween
<1> HIDE DEF a, n
<1>6. (n - 1) + 1 = n /\ a <= n - 1
  BY <1>2, <1>3
<1>7. IsPeriod("monthly", a, n - 1)
  BY <1>2, <1>4, <1>5, <1>6 DEF IsPeriod
<1> QED BY <1>3, <1>7 DEF a, n

\* Of two months neither of which is followed by a complete one before today, none
\* ends later than the other.
LEMMA NoLaterMonth ==
    ASSUME NEW today \in Int, NEW a \in Int, NEW b \in Nat \ {0}, NEW c \in Int, NEW d \in Int,
           IsLastClosed("monthly", a, b, today), IsLastClosed("monthly", c, d, today)
    PROVE  d <= b
<1> SUFFICES ASSUME b < d PROVE FALSE
  OBVIOUS
<1>1. PICK y \in Int, m \in 1..12 : b + 1 = FromYmd(y, m, 1)
  BY DEF IsLastClosed, IsPeriod, FirstOfSomeMonth
<1>2. y \in Nat \ {0}
  <2>1. b + 1 <= DaysBeforeYear(y + 1)
    BY <1>1, InItsYear
  <2>2. DaysBeforeYear(y + 1) = y * 365 + y \div 4 - y \div 100 + y \div 400
    BY DEF DaysBeforeYear
  <2> QED BY <2>1, <2>2
<1> DEFINE n == NextFirst(y, m)
<1>3. n \in Int /\ IsPeriod("monthly", b + 1, n - 1)
  BY <1>1, <1>2, NextMonthIsPeriod
<1>4. d < today /\ FirstOfSomeMonth(d + 1)
  BY DEF IsLastClosed, IsPeriod
<1>5. CASE n <= d + 1
  <2>1. b + 1 <= n - 1
    BY <1>3 DEF IsPeriod
  <2>2. n - 1 \in b + 1 .. today - 1
    <3> HIDE DEF n
    <3> QED BY <1>3, <1>4, <1>5, <2>1
  <2> QED BY <1>3, <2>2 DEF IsLastClosed
<1>6. CASE n > d + 1
  <2>1. d + 1 \in Int /\ FromYmd(y, m, 1) < d + 1
    BY <1>1
  <2> QED BY <1>4, <1>6, <2>1, NoFirstBetween
<1> QED BY <1>3, <1>5, <1>6

\* A period that begins on a day of which a cadence has one ends on one day only.
LEMMA OneEnd ==
    ASSUME NEW cadence \in AllCadences, NEW a \in Int, NEW b \in Int, NEW c \in Int,
           IsPeriod(cadence, a, b), IsPeriod(cadence, a, c)
    PROVE  b = c
<1>1. CASE cadence = "daily"
  BY <1>1 DEF IsPeriod
<1>2. CASE cadence = "weekly"
  BY <1>2 DEF IsPeriod
<1>3. CASE cadence = "monthly"
  <2>1. /\ a <= b /\ FirstOfSomeMonth(b + 1) /\ \A n \in a + 1 .. b : ~FirstOfSomeMonth(n)
        /\ a <= c /\ FirstOfSomeMonth(c + 1) /\ \A n \in a + 1 .. c : ~FirstOfSomeMonth(n)
    BY <1>3 DEF IsPeriod
  <2>2. ~(b < c)
    <3>1. b < c => b + 1 \in a + 1 .. c
      BY <2>1
    <3> QED BY <2>1, <3>1
  <2>3. ~(c < b)
    <3>1. c < b => c + 1 \in a + 1 .. b
      BY <2>1
    <3> QED BY <2>1, <3>1
  <2> QED BY <2>2, <2>3
<1> QED BY <1>1, <1>2, <1>3 DEF AllCadences

\* Of every cadence and on every date, last_closed_period finds the period that closed
\* last: no later one is over.
THEOREM LastClosedIsLast ==
    ASSUME NEW cadence \in AllCadences, NEW today \in Nat \ 0..31
    PROVE  LET last == LastClosedPeriod(cadence, today) IN
           IsLastClosed(cadence, last.from, last.to, today)
<1>1. today \in Nat /\ today \in Nat \ 0..7
  OBVIOUS
<1> QED BY <1>1, DailyIsLastClosed, WeeklyIsLastClosed, MonthlyIsLastClosed DEF AllCadences

\* And the window of the slash commands is the only one there is.
THEOREM OnlyOneIsLast ==
    ASSUME NEW cadence \in AllCadences, NEW today \in Nat \ 0..31,
           NEW a \in Int, NEW b \in Nat \ {0}, IsLastClosed(cadence, a, b, today)
    PROVE  PeriodWindow(cadence, today) = <<a, b>>
<1> DEFINE last == LastClosedPeriod(cadence, today)
<1>1. IsLastClosed(cadence, last.from, last.to, today)
  BY LastClosedIsLast
<1>2. PeriodWindow(cadence, today) = <<last.from, last.to>>
  BY WindowsAgree
<1>3. CASE cadence = "daily"
  <2>1. last.from = today - 1 /\ last.to = today - 1
    BY <1>3 DEF LastClosedPeriod
  <2>2. a = b /\ b < today /\ \A c \in b + 1 .. today - 1 : b + 1 # c
    BY <1>3 DEF IsLastClosed, IsPeriod
  <2>3. b = today - 1
    BY <2>2
  <2> QED BY <1>2, <2>1, <2>2, <2>3
<1>4. CASE cadence = "weekly"
  <2> DEFINE k == DaysFromMonday(today)
  <2>1. k \in 0..6 /\ (today - k) % 7 = 1
    BY DEF DaysFromMonday
  <2>2. last.from = today - k - 7 /\ last.to = today - k - 1
    BY <1>4, <2>1 DEF LastClosedPeriod
  <2>3. /\ a % 7 = 1 /\ b = a + 6 /\ b < today
        /\ \A c \in b + 1 .. today - 1 : ~((b + 1) % 7 = 1 /\ c = b + 1 + 6)
    BY <1>4 DEF IsLastClosed, IsPeriod
  <2> HIDE DEF k, last
  <2>4. (b + 1) % 7 = 1
    BY <2>3
  <2>5. b + 7 >= today
    BY <2>3, <2>4
  <2>6. b + 1 = today - k
    BY <2>1, <2>3, <2>4, <2>5
  <2> QED BY <1>2, <2>1, <2>2, <2>3, <2>6
<1>5. CASE cadence = "monthly"
  <2>1. last.to \in Nat \ {0} /\ last.from \in Int
    <3>1. last.to = FirstOfMonth(today) - 1 /\ last.from = FirstOfMonth(last.to)
      BY <1>5 DEF LastClosedPeriod
    <3> HIDE DEF last
    <3> QED BY <3>1, MonthBefore
  <2> HIDE DEF last
  <2>2. last.to = b
    <3>1. IsLastClosed("monthly", a, b, today)
      BY <1>5
    <3>2. IsLastClosed("monthly", last.from, last.to, today)
      BY <1>1, <1>5
    <3>3. today \in Int /\ b \in Int /\ last.to \in Int
      BY <2>1
    <3>4. last.to <= b
      BY <2>1, <3>1, <3>2, <3>3, NoLaterMonth
    <3>5. b <= last.to
      BY <2>1, <3>1, <3>2, <3>3, NoLaterMonth
    <3> QED BY <3>3, <3>4, <3>5
  <2>3. /\ a <= b /\ FirstOfSomeMonth(a) /\ \A n \in a + 1 .. b : ~FirstOfSomeMonth(n)
        /\ last.from <= b /\ FirstOfSomeMonth(last.from)
        /\ \A n \in last.from + 1 .. b : ~FirstOfSomeMonth(n)
    BY <1>1, <1>5, <2>2 DEF IsLastClosed, IsPeriod
  <2>4. ~(a < last.from)
    <3>1. a < last.from => last.from \in a + 1 .. b
      BY <2>1, <2>3
    <3> QED BY <2>3, <3>1
  <2>5. ~(last.from < a)
    <3>1. last.from < a => a \in last.from + 1 .. b
      BY <2>1, <2>3
    <3> QED BY <2>3, <3>1
  <2>6. a = last.from
    BY <2>1, <2>4, <2>5
  <2> QED BY <1>2, <2>2, <2>6
<1> QED BY <1>3, <1>4, <1>5 DEF AllCadences

\* A window is as long as a period of its cadence, and ended not long ago.
LEMMA WindowSpan ==
    ASSUME NEW cadence \in AllCadences, NEW today \in Nat \ 0..31
    PROVE  LET last == LastClosedPeriod(cadence, today) IN
           /\ last.to \in today - 31 .. today - 1 /\ last.from \in Int
           /\ last.to - last.from \in {0, 6} \union 27..30
<1> DEFINE last == LastClosedPeriod(cadence, today)
<1>1. CASE cadence = "daily"
  BY <1>1 DEF LastClosedPeriod
<1>2. CASE cadence = "weekly"
  <2> DEFINE k == DaysFromMonday(today)
  <2>1. k \in 0..6
    BY DEF DaysFromMonday
  <2>2. last.from = today - k - 7 /\ last.to = today - k - 7 + 6
    BY <1>2 DEF LastClosedPeriod
  <2> HIDE DEF last, k
  <2> QED BY <2>1, <2>2 DEF last
<1>3. CASE cadence = "monthly"
  <2> DEFINE b == FirstOfMonth(today) - 1
  <2>1. last.from = FirstOfMonth(b) /\ last.to = b
    BY <1>3 DEF LastClosedPeriod
  <2>2. /\ b \in Nat /\ FirstOfMonth(b) \in Nat /\ b <= FirstOfMonth(b) + 30
        /\ FirstOfMonth(b) + 27 <= b /\ b \in today - 31 .. today - 1
    <3>1. b = FirstOfMonth(today) - 1
      OBVIOUS
    <3> HIDE DEF b
    <3> QED BY <3>1, MonthBefore
  <2> DEFINE a == FirstOfMonth(b)
  <2>3. b - a \in 27..30
    <3> HIDE DEF b
    <3> QED BY <2>2
  <2> HIDE DEF b, last
  <2> QED BY <2>1, <2>2, <2>3 DEF last
<1> QED BY <1>1, <1>2, <1>3 DEF AllCadences

\* On every date a search through all windows finds the slash commands' and no other.
THEOREM WindowsRight ==
    ASSUME NEW cadence \in AllCadences, NEW today \in Nat \ 0..31
    PROVE  WindowRight(cadence, today)
<1> DEFINE last == LastClosedPeriod(cadence, today)
           a == last.from
           b == last.to
           found == LastClosedWindows(cadence, today)
<1>1. PeriodWindow(cadence, today) = <<a, b>>
  BY WindowsAgree
<1>2. IsLastClosed(cadence, a, b, today)
  BY LastClosedIsLast
<1>3. b \in today - 31 .. today - 1 /\ a \in Int /\ b - a \in {0, 6} \union 27..30
  BY WindowSpan
<1> HIDE DEF last, a, b
<1>4. <<a, b>> \in found
  <2>1. b - (b - a) = a
    BY <1>3
  <2>2. <<a, b>> = <<b - (b - a), b>>
    BY <2>1
  <2>3. <<a, b>> \in {<<e - n, e>> : e \in today - 31 .. today - 1, n \in {0, 6} \union 27..30}
    BY <1>3, <2>2
  <2> QED BY <1>2, <2>3 DEF LastClosedWindows
<1>5. ASSUME NEW w \in found PROVE w = <<a, b>>
  <2>1. PICK e \in today - 31 .. today - 1, n \in {0, 6} \union 27..30 : w = <<e - n, e>>
    BY DEF LastClosedWindows
  <2>2. IsLastClosed(cadence, w[1], w[2], today)
    BY DEF LastClosedWindows
  <2>3. e - n \in Int /\ e \in Nat \ {0} /\ w[1] = e - n /\ w[2] = e
    BY <2>1
  <2>4. IsLastClosed(cadence, e - n, e, today)
    BY <2>2, <2>3
  <2>5. PeriodWindow(cadence, today) = <<e - n, e>>
    <3> DEFINE c == e - n
    <3>1. c \in Int /\ IsLastClosed(cadence, c, e, today)
      BY <2>3, <2>4
    <3> HIDE DEF c
    <3>2. PeriodWindow(cadence, today) = <<c, e>>
      BY <2>3, <3>1, OnlyOneIsLast
    <3> QED BY <3>2 DEF c
  <2> QED BY <1>1, <2>1, <2>5
<1>6. found = {<<a, b>>}
  BY <1>4, <1>5
<1> QED BY <1>1, <1>6 DEF WindowRight, last, a, b

-----------------------------------------------------------------------------
(* Calendar: how periods follow each other.                               *)

\* Later days have later months.
LEMMA FirstsInOrder ==
    ASSUME NEW d \in Nat \ {0}, NEW e \in Nat \ {0}, d <= e
    PROVE  /\ FirstOfMonth(d) \in Nat \ {0} /\ FirstOfMonth(d) <= d
           /\ FirstOfMonth(e) \in Nat \ {0} /\ FirstOfMonth(e) <= e
           /\ FirstOfMonth(d) <= FirstOfMonth(e)
           /\ FirstOfMonth(e) <= d => FirstOfMonth(e) = FirstOfMonth(d)
<1>1. PICK y \in Nat \ {0}, m \in 1..12 :
         /\ FirstOfMonth(d) = FromYmd(y, m, 1)
         /\ FromYmd(y, m, 1) <= d /\ d < NextFirst(y, m)
  BY MonthFound
<1>2. PICK z \in Nat \ {0}, k \in 1..12 :
         /\ FirstOfMonth(e) = FromYmd(z, k, 1)
         /\ FromYmd(z, k, 1) <= e /\ e < NextFirst(z, k)
  BY MonthFound
<1> DEFINE a == FromYmd(y, m, 1)
           b == FromYmd(z, k, 1)
<1>3. /\ a \in Nat \ {0} /\ FirstOfSomeMonth(a)
      /\ b \in Nat \ {0} /\ FirstOfSomeMonth(b)
  <2>1. a \in Nat \ {0} /\ FirstOfSomeMonth(a)
    BY FirstsFound
  <2>2. b \in Nat \ {0} /\ FirstOfSomeMonth(b)
    BY FirstsFound
  <2> QED BY <2>1, <2>2
<1>4. NextFirst(y, m) \in Int /\ NextFirst(z, k) \in Int
  <2>1. y \in Int /\ z \in Int
    OBVIOUS
  <2>2. NextFirst(y, m) \in Int
    BY <2>1, NextFirstAfter
  <2>3. NextFirst(z, k) \in Int
    BY <2>1, NextFirstAfter
  <2> QED BY <2>2, <2>3
<1> HIDE DEF a, b
<1>5. ~(a < b /\ b < NextFirst(y, m))
  <2>1. y \in Int /\ b \in Int
    BY <1>3
  <2> QED BY <1>3, <2>1, NoFirstBetween DEF a
<1>6. ~(b < a /\ a < NextFirst(z, k))
  <2>1. z \in Int /\ a \in Int
    BY <1>3
  <2> QED BY <1>3, <2>1, NoFirstBetween DEF b
<1>7. a <= d /\ d < NextFirst(y, m) /\ b <= e /\ e < NextFirst(z, k)
  BY <1>1, <1>2 DEF a, b
<1>8. a <= b /\ (b <= d => b = a)
  BY <1>3, <1>4, <1>5, <1>6, <1>7
<1> QED BY <1>1, <1>2, <1>3, <1>7, <1>8 DEF a, b

\* As the days go by, last_closed_period gives later periods, and gives a new one on the
\* day after its end.
LEMMA PeriodsInOrder ==
    ASSUME NEW cadence \in AllCadences, NEW d \in Nat \ 0..31, NEW e \in Nat \ 0..31, d <= e
    PROVE  LastClosedPeriod(cadence, d).date <= LastClosedPeriod(cadence, e).date
<1>1. CASE cadence = "daily"
  BY <1>1 DEF LastClosedPeriod
<1>2. CASE cadence = "weekly"
  <2>1. /\ LastClosedPeriod(cadence, d).date = d - DaysFromMonday(d) - 7
        /\ LastClosedPeriod(cadence, e).date = e - DaysFromMonday(e) - 7
    BY <1>2 DEF LastClosedPeriod
  <2>2. d - DaysFromMonday(d) - 7 <= e - DaysFromMonday(e) - 7
    BY DEF DaysFromMonday
  <2> QED BY <2>1, <2>2
<1>3. CASE cadence = "monthly"
  <2> DEFINE a == FirstOfMonth(d) - 1
             b == FirstOfMonth(e) - 1
  <2>1. /\ LastClosedPeriod(cadence, d).date = FirstOfMonth(a)
        /\ LastClosedPeriod(cadence, e).date = FirstOfMonth(b)
    BY <1>3 DEF LastClosedPeriod
  <2>2. a \in Nat \ {0} /\ b \in Nat \ {0} /\ a <= b
    <3>1. a = FirstOfMonth(d) - 1 /\ b = FirstOfMonth(e) - 1
      OBVIOUS
    <3>2. /\ FirstOfMonth(d) \in Nat /\ FirstOfMonth(e) \in Nat
          /\ FirstOfMonth(d) <= FirstOfMonth(e)
      BY FirstsInOrder
    <3> HIDE DEF a, b
    <3>3. a \in Nat \ {0}
      BY <3>1, MonthBefore
    <3>4. b \in Nat \ {0}
      BY <3>1, MonthBefore
    <3> QED BY <3>1, <3>2, <3>3, <3>4
  <2> HIDE DEF a, b
  <2>3. FirstOfMonth(a) <= FirstOfMonth(b)
    BY <2>2, FirstsInOrder
  <2> QED BY <2>1, <2>3
<1> QED BY <1>1, <1>2, <1>3 DEF AllCadences

LEMMA ReplacedAtItsEnd ==
    ASSUME NEW cadence \in AllCadences, NEW d \in Nat \ 0..31,
           LastClosedPeriod(cadence, d + 1).date # LastClosedPeriod(cadence, d).date
    PROVE  LastClosedPeriod(cadence, d + 1).to = d
<1>1. CASE cadence = "daily"
  BY <1>1 DEF LastClosedPeriod
<1>2. CASE cadence = "weekly"
  <2> DEFINE e == d + 1
             j == DaysFromMonday(d)
             k == DaysFromMonday(e)
  <2>1. LastClosedPeriod(cadence, d).date = d - j - 7
    BY <1>2 DEF LastClosedPeriod
  <2>2. e \in Nat /\ j \in 0..6 /\ k \in 0..6 /\ (k = j + 1 \/ (j = 6 /\ k = 0))
    BY DEF DaysFromMonday
  <2>3. LastClosedPeriod(cadence, e).date # LastClosedPeriod(cadence, d).date /\ e = d + 1
    OBVIOUS
  <2> HIDE DEF e, j, k
  <2>4. LastClosedPeriod(cadence, e).date = e - k - 7 /\ LastClosedPeriod(cadence, e).to = e - k - 7 + 6
    BY <1>2 DEF LastClosedPeriod, k
  <2>5. LastClosedPeriod(cadence, e).to = d
    BY <2>1, <2>2, <2>3, <2>4
  <2> QED BY <2>5 DEF e
<1>3. CASE cadence = "monthly"
  <2>1. /\ LastClosedPeriod(cadence, d).date = FirstOfMonth(FirstOfMonth(d) - 1)
        /\ LastClosedPeriod(cadence, d + 1).date = FirstOfMonth(FirstOfMonth(d + 1) - 1)
        /\ LastClosedPeriod(cadence, d + 1).to = FirstOfMonth(d + 1) - 1
    BY <1>3 DEF LastClosedPeriod
  <2>2. FirstOfMonth(d + 1) # FirstOfMonth(d)
    BY <2>1
  <2> DEFINE e == d + 1
  <2>3. e \in Nat \ {0} /\ d <= e
    OBVIOUS
  <2> HIDE DEF e
  <2>4. /\ FirstOfMonth(e) \in Nat \ {0} /\ FirstOfMonth(e) <= e
        /\ FirstOfMonth(e) <= d => FirstOfMonth(e) = FirstOfMonth(d)
    BY <2>3, FirstsInOrder
  <2>5. FirstOfMonth(e) = e
    BY <2>2, <2>4 DEF e
  <2> QED BY <2>1, <2>5 DEF e
<1> QED BY <1>1, <1>2, <1>3 DEF AllCadences

-----------------------------------------------------------------------------
(* SummaryPoster: the days of the bot and the ends of the periods.         *)

\* A multiple of the day's length: the midnight before a day, and the day of an instant.
LEMMA DayOf ==
    ASSUME NEW t \in Times
    PROVE  t \div DayLength \in Days /\ t \div DayLength \in Nat \ 0..31
<1>1. /\ t \in Nat /\ StartTime <= t /\ t <= MaxTime
      /\ DayLength \in Nat \ {0} /\ StartTime \in Nat /\ MaxTime \in Nat
  BY TimeAssumption DEF Times
<1>2. /\ t \div DayLength \in Nat /\ StartTime \div DayLength \in Nat
      /\ MaxTime \div DayLength \in Nat
  BY <1>1, SMT
<1>3. StartTime \div DayLength <= t \div DayLength
  BY <1>1, SMT
<1>4. t \div DayLength <= MaxTime \div DayLength
  BY <1>1, SMT
<1>5. StartTime \div DayLength > 31
  BY TimeAssumption
<1> DEFINE d == t \div DayLength
           s == StartTime \div DayLength
           e == MaxTime \div DayLength
<1> HIDE DEF d, s, e
<1>6. d \in s .. e /\ d \in Nat \ 0..31
  BY <1>2, <1>3, <1>4, <1>5 DEF d, s, e
<1> QED BY <1>6 DEF d, s, e, Days

\* The period that closed last before a day: named by its first day, a period of its
\* cadence, and not longer than 31 days.
LEMMA LastClosedSpan ==
    ASSUME NEW cadence \in AllCadences, NEW today \in Nat \ 0..31
    PROVE  LET last == LastClosedPeriod(cadence, today) IN
           /\ last.date = last.from /\ last.from \in Nat /\ last.to \in last.from .. last.from + 30
           /\ IsPeriod(cadence, last.from, last.to)
<1> DEFINE last == LastClosedPeriod(cadence, today)
<1>1. IsPeriod(cadence, last.from, last.to)
  BY LastClosedIsLast DEF IsLastClosed
<1>2. CASE cadence = "daily"
  <2>1. last = [date |-> today - 1, from |-> today - 1, to |-> today - 1]
    BY <1>2 DEF LastClosedPeriod
  <2> HIDE DEF last
  <2> QED BY <1>1, <2>1 DEF last
<1>3. CASE cadence = "weekly"
  <2> DEFINE k == DaysFromMonday(today)
  <2>1. k \in 0..6
    BY DEF DaysFromMonday
  <2>2. last = [date |-> today - k - 7, from |-> today - k - 7, to |-> today - k - 7 + 6]
    BY <1>3 DEF LastClosedPeriod
  <2> HIDE DEF last, k
  <2> QED BY <1>1, <2>1, <2>2 DEF last
<1>4. CASE cadence = "monthly"
  <2> DEFINE b == FirstOfMonth(today) - 1
  <2>1. last = [date |-> FirstOfMonth(b), from |-> FirstOfMonth(b), to |-> b]
    BY <1>4 DEF LastClosedPeriod
  <2>2. FirstOfMonth(b) \in Nat /\ b \in FirstOfMonth(b) .. FirstOfMonth(b) + 30
    <3>1. b = FirstOfMonth(today) - 1
      OBVIOUS
    <3> HIDE DEF b
    <3> QED BY <3>1, MonthBefore
  <2> HIDE DEF b, last
  <2> QED BY <1>1, <2>1, <2>2 DEF last
<1> QED BY <1>2, <1>3, <1>4 DEF AllCadences

\* The cadences of the poster are cadences of the calendar.
LEMMA CadencesAreCadences == Cadences \subseteq AllCadences /\ Order \in Seq(Cadences)
  BY OrderAssumption DEF Cadences

\* What a tick takes for the end of a period is its end by what a period is.
LEMMA ClosingsRight ==
    ASSUME NEW c \in Cadences, NEW t \in Times
    PROVE  LET closed == LastClosedOn[c][t \div DayLength] IN
           /\ closed.period \in Periods(c) /\ closed.period \in Nat /\ closed.close \in Nat
           /\ closed.close = Closings[c][closed.period]
<1> DEFINE d == t \div DayLength
           last == LastClosedPeriod(c, d)
<1>1. d \in Days /\ d \in Nat \ 0..31 /\ c \in AllCadences
  BY DayOf, CadencesAreCadences
<1> HIDE DEF d
<1>2. LastClosedOn[c][d] = [period |-> last.date, close |-> (last.to + 1) * DayLength]
  BY <1>1 DEF LastClosedOn
<1>3. /\ last.date = last.from /\ last.from \in Nat /\ last.to \in last.from .. last.from + 30
      /\ IsPeriod(c, last.from, last.to)
  BY <1>1, LastClosedSpan
<1> DEFINE p == last.from
           e == last.to
<1>4. LastClosedOn[c][d].period = p /\ LastClosedOn[c][d].close = (e + 1) * DayLength
  BY <1>2, <1>3
<1> HIDE DEF last, p, e
<1>5. p \in Periods(c)
  BY <1>1, <1>4 DEF Periods
<1>6. p \in Nat /\ e \in p .. p + 30 /\ IsPeriod(c, p, e)
  BY <1>3 DEF p, e
<1>7. (CHOOSE b \in p .. p + 30 : IsPeriod(c, p, b)) = e
  <2> DEFINE g == CHOOSE b \in p .. p + 30 : IsPeriod(c, p, b)
  <2>1. g \in p .. p + 30 /\ IsPeriod(c, p, g)
    BY <1>6
  <2> HIDE DEF g
  <2>2. g = e
    <3>1. p \in Int /\ e \in Int /\ g \in Int
      BY <1>6, <2>1
    <3> QED BY <1>1, <1>6, <2>1, <3>1, OneEnd
  <2> QED BY <2>2 DEF g
<1>8. Closings[c][p] = DayLength * (1 + e)
  BY <1>5, <1>7 DEF Closings
<1>9. DayLength \in Nat /\ e \in Nat
  BY <1>6, TimeAssumption
<1>10. (e + 1) * DayLength = DayLength * (1 + e) /\ (e + 1) * DayLength \in Nat
  BY <1>9, SMT
<1> QED BY <1>4, <1>5, <1>6, <1>8, <1>10 DEF d

-----------------------------------------------------------------------------
(* SummaryPoster: the inductive invariant.                                 *)

\* The tick works on a period.
AboutPeriod == work.pc \in {"fetch", "send", "mark"}

\* The tick's period and its end belong together, and the settlement floor was over when
\* the tick looked at the clock: the date read at the start stays good for the rest.
WorkInv ==
    AboutPeriod =>
        /\ work.close = Closings[Cadence][work.period]
        /\ work.at \in Times /\ work.at <= now
        /\ work.at >= work.close + Settle[Cadence]

\* What is sent says truly whether it is incomplete, and is so only past the deadline.
PayloadInv ==
    work.pc \in {"send", "mark"} =>
        /\ work.incomplete <=> work.figures.priced < work.figures.count
        /\ work.incomplete => work.at >= work.close + MaxDefer

\* Nothing marks the tick's period behind its back.
UnmarkedInv == work.pc \in {"fetch", "send"} => <<Cadence, work.period>> \notin watermarks

\* The tick marks a period only after a post of it.
MarkInv == work.pc = "mark" => posts[Cadence][work.period] # <<>>

\* The last post of p is recorded, or the tick is about to record it.
Recorded(c, p) ==
    \/ <<c, p>> \in watermarks
    \/ work.pc = "mark" /\ Cadence = c /\ work.period = p

\* Every post but the recorded one has its lapse: the reason why a period can be posted
\* twice.  WatermarksMatchPosts follows from it; by itself it forgets the post that the
\* tick has shown and not recorded yet.
OnceInv ==
    \A c \in Cadences : \A p \in Periods(c) :
        IF Recorded(c, p) THEN Len(posts[c][p]) <= lapses[c][p] + 1
        ELSE Len(posts[c][p]) <= lapses[c][p]

\* The inductive invariant.
IInv ==
    /\ TypeOK /\ WorkInv /\ PayloadInv /\ UnmarkedInv /\ MarkInv /\ OnceInv
    /\ WatermarkMeansPosted /\ PostsHonest

\* The constants, for the arithmetic of the clock.
LEMMA ConstantTypes ==
    /\ DayLength \in Nat \ {0} /\ MaxDefer \in Nat /\ Times \subseteq Nat
    /\ StartTime \in Times /\ \A c \in Cadences : Settle[c] \in Nat
<1>1. StartTime \in Times /\ Times \subseteq Nat
  BY TimeAssumption DEF Times
<1> QED BY <1>1, TimeAssumption

\* A table with one entry changed.
LEMMA OneEntry ==
    ASSUME NEW f, DOMAIN f = Cadences, NEW T,
           \A c \in Cadences : f[c] \in [Periods(c) -> T],
           NEW d \in Cadences, NEW q \in Periods(d), NEW v \in T,
           NEW g, g = [f EXCEPT ![d][q] = v]
    PROVE  /\ DOMAIN g = Cadences
           /\ \A c \in Cadences : g[c] \in [Periods(c) -> T]
           /\ \A c \in Cadences : \A p \in Periods(c) :
                 g[c][p] = IF c = d /\ p = q THEN v ELSE f[c][p]
<1>1. g = [f EXCEPT ![d] = [f[d] EXCEPT ![q] = v]]
  OBVIOUS
<1> DEFINE h == [f[d] EXCEPT ![q] = v]
<1>2. h \in [Periods(d) -> T] /\ \A p \in Periods(d) : h[p] = IF p = q THEN v ELSE f[d][p]
  OBVIOUS
<1> HIDE DEF h
<1>3. DOMAIN g = Cadences /\ \A c \in Cadences : g[c] = IF c = d THEN h ELSE f[c]
  BY <1>1 DEF h
<1> QED BY <1>2, <1>3

\* A tick has a cadence.
LEMMA CadenceKnown ==
    ASSUME TypeOK, work.pc # "idle"
    PROVE  Cadence \in Cadences
  BY DEF TypeOK, Ticks, Cadence

\* The tick once a cadence is done.
LEMMA NextTyped ==
    ASSUME TypeOK, work.pc # "idle", NEW next, next = NextCadence
    PROVE  next \in Ticks /\ next.pc \in {"idle", "check"} /\ (next.pc # "idle" => next.queue # <<>>)
<1>1. NoFigures \in Figures
  BY DEF NoFigures, Figures
<1>2. work.queue \in Seq(Cadences) /\ work.queue # <<>>
  BY DEF TypeOK, Ticks
<1>3. CASE Len(work.queue) > 1
  <2> DEFINE rest == Tail(work.queue)
  <2>1. rest \in Seq(Cadences) /\ rest # <<>>
    <3>1. rest \in Seq(Cadences) /\ Len(rest) = Len(work.queue) - 1
      BY <1>2
    <3>2. Len(work.queue) \in Nat /\ Len(<<>>) = 0
      BY <1>2
    <3> HIDE DEF rest
    <3> QED BY <3>1, <3>2, <1>3
  <2>2. next = Tick("check", rest)
    BY <1>3 DEF NextCadence
  <2> HIDE DEF rest
  <2> QED BY <1>1, <2>1, <2>2 DEF Tick, Ticks
<1>4. CASE ~(Len(work.queue) > 1)
  <2>1. next = Tick("idle", <<>>)
    BY <1>4 DEF NextCadence, Idle
  <2>2. <<>> \in Seq(Cadences)
    OBVIOUS
  <2> QED BY <1>1, <2>1, <2>2 DEF Tick, Ticks
<1> QED BY <1>3, <1>4

\* A step that leaves the tick, the watermarks and the posts alone.
LEMMA FrameKeeps ==
    ASSUME IInv, TypeOK', now' >= now, UNCHANGED <<work, watermarks, posts, lapses>>
    PROVE  IInv'
<1>1. WorkInv'
  <2>1. Times \subseteq Nat /\ now \in Nat /\ now' \in Nat /\ now <= now'
    <3>1. Times \subseteq Nat
      BY ConstantTypes
    <3>2. now \in Times /\ now' \in Times
      BY DEF IInv, TypeOK
    <3> QED BY <3>1, <3>2
  <2>2. ASSUME AboutPeriod
        PROVE  /\ work.close = Closings[Cadence][work.period]
               /\ work.at \in Times /\ work.at <= now
               /\ work.at >= work.close + Settle[Cadence]
    BY <2>2 DEF IInv, WorkInv
  <2>3. ASSUME work.at \in Times, work.at <= now PROVE work.at <= now'
    <3>1. work.at \in Nat
      BY <2>1, <2>3
    <3> QED BY <2>1, <2>3, <3>1
  <2>4. UNCHANGED Cadence /\ (AboutPeriod' => AboutPeriod)
    BY DEF Cadence, AboutPeriod
  <2> QED BY <2>2, <2>3, <2>4 DEF WorkInv
<1>4. PayloadInv' /\ UnmarkedInv' /\ MarkInv'
  BY DEF IInv, PayloadInv, UnmarkedInv, MarkInv, Cadence
<1>2. OnceInv'
  BY DEF IInv, OnceInv, Recorded, Cadence
<1>3. WatermarkMeansPosted' /\ PostsHonest'
  BY DEF IInv, WatermarkMeansPosted, PostsHonest
<1> QED BY <1>1, <1>2, <1>3, <1>4 DEF IInv

\* A step that ends the work on a period: what was shown and is not recorded counts as
\* a lapse.
LEMMA EndKeeps ==
    ASSUME IInv, TypeOK', now' = now, UNCHANGED <<watermarks, posts>>,
           work'.pc \in {"idle", "check"}, work.pc # "idle" => Unrecorded,
           work.pc = "idle" => UNCHANGED lapses
    PROVE  IInv'
<1>1. WorkInv' /\ PayloadInv' /\ UnmarkedInv' /\ MarkInv'
  BY DEF WorkInv, AboutPeriod, PayloadInv, UnmarkedInv, MarkInv
<1>2. WatermarkMeansPosted' /\ PostsHonest'
  BY DEF IInv, WatermarkMeansPosted, PostsHonest
<1>3. OnceInv'
  <2> SUFFICES ASSUME NEW c \in Cadences, NEW p \in Periods(c)
               PROVE  (IF Recorded(c, p) THEN Len(posts[c][p]) <= lapses[c][p] + 1
                       ELSE Len(posts[c][p]) <= lapses[c][p])'
    BY DEF OnceInv
  <2>1. /\ posts[c][p] \in Seq(Shows) /\ lapses[c][p] \in Nat /\ lapses'[c][p] \in Nat
        /\ Len(posts[c][p]) \in Nat
    BY DEF IInv, TypeOK
  <2>2. IF Recorded(c, p) THEN Len(posts[c][p]) <= lapses[c][p] + 1
        ELSE Len(posts[c][p]) <= lapses[c][p]
    BY DEF IInv, OnceInv
  <2>3. Recorded(c, p)' <=> <<c, p>> \in watermarks
    BY DEF Recorded
  <2>4. CASE work.pc = "mark"
    <3>1. Cadence \in Cadences /\ work.period \in Periods(Cadence)
      BY <2>4, CadenceKnown DEF IInv, TypeOK
    <3>2. lapses' = [lapses EXCEPT ![Cadence][work.period] = lapses[Cadence][work.period] + 1]
      BY <2>4 DEF Unrecorded, Lapsed
    <3>3. lapses[Cadence][work.period] + 1 \in Nat
      BY <3>1 DEF IInv, TypeOK
    <3>4. lapses'[c][p] = IF c = Cadence /\ p = work.period
                          THEN lapses[Cadence][work.period] + 1 ELSE lapses[c][p]
      <4>1. DOMAIN lapses = Cadences /\ \A e \in Cadences : lapses[e] \in [Periods(e) -> Nat]
        BY DEF IInv, TypeOK
      <4> QED BY <3>1, <3>2, <3>3, <4>1, OneEntry
    <3>5. CASE c = Cadence /\ p = work.period
      <4>1. Recorded(c, p)
        BY <2>4, <3>5 DEF Recorded
      <4> QED BY <2>1, <2>2, <2>3, <3>4, <3>5, <4>1
    <3>6. CASE ~(c = Cadence /\ p = work.period)
      <4>1. Recorded(c, p) => <<c, p>> \in watermarks
        BY <3>6 DEF Recorded
      <4> QED BY <2>1, <2>2, <2>3, <3>4, <3>6, <4>1 DEF Recorded
    <3> QED BY <3>5, <3>6
  <2>5. CASE work.pc # "mark"
    <3>1. UNCHANGED lapses
      BY <2>5 DEF Unrecorded
    <3>2. Recorded(c, p) <=> <<c, p>> \in watermarks
      BY <2>5 DEF Recorded
    <3> QED BY <2>2, <2>3, <3>1, <3>2
  <2> QED BY <2>4, <2>5
<1> QED BY <1>1, <1>2, <1>3 DEF IInv

-----------------------------------------------------------------------------
(* The clock and the explorer.                                             *)

LEMMA AdvanceKeeps == ASSUME IInv, Advance PROVE IInv'
<1>1. now \in Times /\ now' \in Times /\ now' >= now
  BY TimeAssumption DEF IInv, TypeOK, Advance, Times
<1>2. TypeOK'
  BY <1>1 DEF IInv, TypeOK, Advance, tableVars, Cadence
<1> QED BY <1>1, <1>2, FrameKeeps DEF Advance, tableVars

\* A rollup that stays consistent.
LEMMA RollupKeeps ==
    ASSUME IInv, NEW c \in Cadences, NEW p \in Periods(c), NEW figures \in Figures,
           rollup' = [rollup EXCEPT ![c][p] = figures],
           UNCHANGED <<now, tableVars, due, work, posts, lapses, faults, lagged>>
    PROVE  IInv'
<1>1. DOMAIN rollup = Cadences /\ \A d \in Cadences : rollup[d] \in [Periods(d) -> Figures]
  BY DEF IInv, TypeOK
<1>2. DOMAIN rollup' = Cadences /\ \A d \in Cadences : rollup'[d] \in [Periods(d) -> Figures]
  BY <1>1, OneEntry
<1>3. TypeOK'
  BY <1>2 DEF IInv, TypeOK, tableVars, Cadence
<1>4. now \in Nat
  BY ConstantTypes DEF IInv, TypeOK
<1> QED BY <1>3, <1>4, FrameKeeps DEF tableVars

\* What LastClosed gives is a period with its end.
LEMMA LastClosedKnown ==
    ASSUME TypeOK, NEW c \in Cadences
    PROVE  /\ LastClosed(c).period \in Periods(c) /\ LastClosed(c).period \in Nat
           /\ LastClosed(c).close \in Nat
           /\ LastClosed(c).close = Closings[c][LastClosed(c).period]
  BY ClosingsRight DEF TypeOK, LastClosed, Today

\* Tickets of a period that closed: counted, then priced.
LEMMA TicketsKeep ==
    ASSUME IInv, NEW c \in Cadences, CountTicket(c) \/ PriceTicket(c)
    PROVE  IInv'
<1> DEFINE p == LastClosed(c).period
           old == rollup[c][p]
<1>1. p \in Periods(c)
  BY LastClosedKnown DEF IInv
<1>2. old \in [count : Nat, priced : Nat] /\ old.priced <= old.count
  BY <1>1 DEF IInv, TypeOK, Figures
<1>3. CASE CountTicket(c)
  <2> DEFINE new == [old EXCEPT !.count = old.count + 1]
  <2>1. new \in Figures
    <3> HIDE DEF old
    <3> QED BY <1>2 DEF Figures
  <2>2. rollup' = [rollup EXCEPT ![c][p] = new]
    BY <1>3 DEF CountTicket
  <2>3. UNCHANGED <<now, tableVars, due, work, posts, lapses, faults, lagged>>
    BY <1>3 DEF CountTicket
  <2> HIDE DEF new, p
  <2> QED BY <1>1, <2>1, <2>2, <2>3, RollupKeeps
<1>4. CASE PriceTicket(c)
  <2> DEFINE new == [old EXCEPT !.priced = old.priced + 1]
  <2>1. old.priced < old.count
    BY <1>4 DEF PriceTicket
  <2>2. new \in Figures
    <3> HIDE DEF old
    <3> QED BY <1>2, <2>1 DEF Figures
  <2>3. rollup' = [rollup EXCEPT ![c][p] = new]
    BY <1>4 DEF PriceTicket
  <2>4. UNCHANGED <<now, tableVars, due, work, posts, lapses, faults, lagged>>
    BY <1>4 DEF PriceTicket
  <2> HIDE DEF new, p
  <2> QED BY <1>1, <2>2, <2>3, <2>4, RollupKeeps
<1> QED BY <1>3, <1>4

-----------------------------------------------------------------------------
(* The tick.                                                               *)

LEMMA StartTickKeeps == ASSUME IInv, StartTick PROVE IInv'
<1>1. work' = Tick("check", Order) /\ work.pc = "idle"
  BY DEF StartTick
<1>2. work' \in Ticks /\ work'.pc = "check" /\ work'.queue # <<>>
  <2>1. NoFigures \in Figures
    BY DEF NoFigures, Figures
  <2> QED BY <1>1, <2>1, CadencesAreCadences, OrderAssumption DEF Tick, Ticks
<1>3. TypeOK'
  BY <1>2 DEF IInv, TypeOK, StartTick, tableVars
<1> QED BY <1>1, <1>2, <1>3, EndKeeps DEF StartTick, tableVars

\* The snapshots, and the lapses, after a step of the tick.
LEMMA SnapshotsTyped ==
    ASSUME IInv, work.pc # "idle",
           snapshots' = snapshots \/
              (\E figures \in Figures, p \in Periods(Cadence) :
                  snapshots' = [snapshots EXCEPT ![Cadence][p] = figures])
    PROVE  /\ DOMAIN snapshots' = Cadences
           /\ \A c \in Cadences : snapshots'[c] \in [Periods(c) -> Figures \union {NoSnapshot}]
<1> DEFINE T == Figures \union {NoSnapshot}
<1>1. DOMAIN snapshots = Cadences /\ \A c \in Cadences : snapshots[c] \in [Periods(c) -> T]
  BY DEF IInv, TypeOK
<1>2. ASSUME NEW figures \in Figures, NEW p \in Periods(Cadence),
             snapshots' = [snapshots EXCEPT ![Cadence][p] = figures]
      PROVE  DOMAIN snapshots' = Cadences /\ \A c \in Cadences : snapshots'[c] \in [Periods(c) -> T]
  <2>1. Cadence \in Cadences /\ figures \in T
    BY CadenceKnown DEF IInv
  <2> HIDE DEF T
  <2> QED BY <1>1, <1>2, <2>1, OneEntry
<1> QED BY <1>1, <1>2

LEMMA LapsesTyped ==
    ASSUME IInv, work.pc # "idle", Unrecorded
    PROVE  /\ DOMAIN lapses' = Cadences
           /\ \A c \in Cadences : lapses'[c] \in [Periods(c) -> Nat]
<1>1. DOMAIN lapses = Cadences /\ \A c \in Cadences : lapses[c] \in [Periods(c) -> Nat]
  BY DEF IInv, TypeOK
<1>2. CASE work.pc = "mark"
  <2>1. Cadence \in Cadences /\ work.period \in Periods(Cadence)
    BY <1>2, CadenceKnown DEF IInv, TypeOK
  <2>2. lapses' = [lapses EXCEPT ![Cadence][work.period] = lapses[Cadence][work.period] + 1]
    BY <1>2 DEF Unrecorded, Lapsed
  <2>3. lapses[Cadence][work.period] + 1 \in Nat
    BY <1>1, <2>1
  <2> QED BY <1>1, <2>1, <2>2, <2>3, OneEntry
<1>3. CASE work.pc # "mark"
  BY <1>1, <1>3 DEF Unrecorded
<1> QED BY <1>2, <1>3

\* The steps that turn to the next cadence.
LEMMA TurnKeeps ==
    ASSUME IInv, work.pc # "idle", work' = NextCadence, Unrecorded,
           UNCHANGED <<now, rollup, watermarks, posts, lagged>>,
           snapshots' = snapshots \/
              (\E figures \in Figures, p \in Periods(Cadence) :
                  snapshots' = [snapshots EXCEPT ![Cadence][p] = figures]),
           due' \in BOOLEAN, faults' \in 0..MaxFaults
    PROVE  IInv'
<1>1. work' \in Ticks /\ work'.pc \in {"idle", "check"} /\ (work'.pc # "idle" => work'.queue # <<>>)
  BY NextTyped DEF IInv
<1>2. /\ DOMAIN snapshots' = Cadences
      /\ \A c \in Cadences : snapshots'[c] \in [Periods(c) -> Figures \union {NoSnapshot}]
  BY SnapshotsTyped
<1>3. /\ DOMAIN lapses' = Cadences
      /\ \A c \in Cadences : lapses'[c] \in [Periods(c) -> Nat]
  BY LapsesTyped
<1>4. TypeOK'
  BY <1>1, <1>2, <1>3 DEF IInv, TypeOK
<1> QED BY <1>1, <1>4, EndKeeps

\* Check and Observe: a period is taken up, and its figures.
LEMMA CheckKeeps == ASSUME IInv, Check PROVE IInv'
<1> DEFINE closed == LastClosed(Cadence)
           taken == [work EXCEPT !.pc = "fetch", !.period = closed.period,
                                 !.close = closed.close, !.at = now]
<1>1. work.pc = "check" /\ Cadence \in Cadences
  BY CadenceKnown DEF IInv, Check
<1>2. UNCHANGED <<now, rollup, watermarks, snapshots, due, posts, lapses, faults, lagged>>
  BY DEF Check, tableVars
<1>3. CASE work' = NextCadence
  <2>1. Unrecorded
    BY <1>1, <1>2 DEF Unrecorded
  <2>2. due' \in BOOLEAN /\ faults' \in 0..MaxFaults
    BY <1>2 DEF IInv, TypeOK
  <2> QED BY <1>1, <1>2, <1>3, <2>1, <2>2, TurnKeeps
<1>4. CASE /\ work' = taken
           /\ <<Cadence, closed.period>> \notin watermarks
           /\ ~(now < closed.close + Settle[Cadence])
  <2>1. /\ closed.period \in Periods(Cadence) /\ closed.period \in Nat /\ closed.close \in Nat
        /\ closed.close = Closings[Cadence][closed.period]
    BY <1>1, LastClosedKnown DEF IInv
  <2>2. work \in Ticks /\ work.queue # <<>> /\ now \in Times /\ now \in Nat
    BY <1>1, ConstantTypes DEF IInv, TypeOK
  <2> HIDE DEF closed
  <2>3. /\ work' \in Ticks /\ work'.pc = "fetch" /\ work'.queue = work.queue
        /\ work'.period = closed.period /\ work'.close = closed.close /\ work'.at = now
    BY <1>4, <2>1, <2>2 DEF Ticks
  <2>4. Cadence' = Cadence
    BY <2>3 DEF Cadence
  <2>5. TypeOK'
    BY <1>2, <2>1, <2>2, <2>3, <2>4 DEF IInv, TypeOK
  <2>6. WorkInv'
    <3>1. now >= closed.close + Settle[Cadence]
      <4>1. Settle[Cadence] \in Nat
        BY <1>1, ConstantTypes
      <4> QED BY <1>4, <2>1, <2>2, <4>1
    <3>2. now <= now
      BY <2>2
    <3> QED BY <1>2, <2>1, <2>2, <2>3, <2>4, <3>1, <3>2 DEF WorkInv
  <2>7. PayloadInv' /\ MarkInv'
    BY <2>3 DEF PayloadInv, MarkInv
  <2>8. UnmarkedInv'
    BY <1>2, <1>4, <2>3, <2>4 DEF UnmarkedInv
  <2>9. OnceInv' /\ WatermarkMeansPosted' /\ PostsHonest'
    <3>1. \A c, p : Recorded(c, p)' <=> Recorded(c, p)
      BY <1>1, <1>2, <2>3 DEF Recorded
    <3> QED BY <1>2, <3>1 DEF IInv, OnceInv, WatermarkMeansPosted, PostsHonest
  <2> QED BY <2>5, <2>6, <2>7, <2>8, <2>9 DEF IInv
<1> QED BY <1>3, <1>4 DEF Check

LEMMA ObserveKeeps == ASSUME IInv, Observe PROVE IInv'
<1> DEFINE seen == rollup[Cadence][work.period]
           ready == seen.priced >= seen.count
           taken == [work EXCEPT !.pc = "send", !.figures = seen, !.incomplete = ~ready]
<1>1. work.pc = "fetch" /\ Cadence \in Cadences /\ work.period \in Periods(Cadence)
  BY CadenceKnown DEF IInv, TypeOK, Observe
<1>2. UNCHANGED <<now, rollup, watermarks, due, posts, lapses, faults, lagged>>
  BY DEF Observe
<1>3. seen \in Figures /\ seen.priced \in Nat /\ seen.count \in Nat
  BY <1>1 DEF IInv, TypeOK, Figures
<1>4. snapshots' = snapshots \/ snapshots' = [snapshots EXCEPT ![Cadence][work.period] = seen]
  BY DEF Observe
<1>5. CASE work' = NextCadence
  <2>1. Unrecorded
    BY <1>1, <1>2 DEF Unrecorded
  <2>2. due' \in BOOLEAN /\ faults' \in 0..MaxFaults
    BY <1>2 DEF IInv, TypeOK
  <2>3. snapshots' = snapshots \/
           (\E figures \in Figures, p \in Periods(Cadence) :
               snapshots' = [snapshots EXCEPT ![Cadence][p] = figures])
    BY <1>1, <1>3, <1>4
  <2> QED BY <1>1, <1>2, <1>5, <2>1, <2>2, <2>3, TurnKeeps
<1>6. CASE work' = taken /\ (ready \/ work.at >= work.close + MaxDefer)
  <2>1. work \in Ticks /\ work.queue # <<>> /\ ready \in BOOLEAN
    BY <1>1 DEF IInv, TypeOK
  <2>2. seen.priced < seen.count <=> ~ready
    BY <1>3
  <2>3. snapshots' = snapshots \/
           (\E figures \in Figures, p \in Periods(Cadence) :
               snapshots' = [snapshots EXCEPT ![Cadence][p] = figures])
    BY <1>1, <1>3, <1>4
  <2>4. /\ DOMAIN snapshots' = Cadences
        /\ \A c \in Cadences : snapshots'[c] \in [Periods(c) -> Figures \union {NoSnapshot}]
    BY <1>1, <2>3, SnapshotsTyped
  <2> HIDE DEF seen, ready
  <2>5. /\ work' \in Ticks /\ work'.pc = "send" /\ work'.queue = work.queue
        /\ work'.period = work.period /\ work'.close = work.close /\ work'.at = work.at
        /\ work'.figures = seen /\ work'.incomplete = ~ready
    BY <1>3, <1>6, <2>1 DEF Ticks
  <2>6. Cadence' = Cadence
    BY <2>5 DEF Cadence
  <2>7. TypeOK'
    BY <1>1, <1>2, <2>1, <2>4, <2>5, <2>6 DEF IInv, TypeOK
  <2>8. WorkInv'
    <3>1. AboutPeriod
      BY <1>1 DEF AboutPeriod
    <3> QED BY <1>2, <2>5, <2>6, <3>1 DEF IInv, WorkInv
  <2>9. PayloadInv'
    BY <1>6, <2>1, <2>2, <2>5 DEF PayloadInv
  <2>10. UnmarkedInv' /\ MarkInv'
    BY <1>1, <1>2, <2>5, <2>6 DEF IInv, UnmarkedInv, MarkInv
  <2>11. OnceInv' /\ WatermarkMeansPosted' /\ PostsHonest'
    <3>1. \A c, p : Recorded(c, p)' <=> Recorded(c, p)
      BY <1>1, <1>2, <2>5 DEF Recorded
    <3> QED BY <1>2, <3>1 DEF IInv, OnceInv, WatermarkMeansPosted, PostsHonest
  <2> QED BY <2>7, <2>8, <2>9, <2>10, <2>11 DEF IInv
<1> QED BY <1>5, <1>6 DEF Observe

\* What is shown: after the settlement floor, marked as incomplete exactly when it is,
\* and then past the deadline.
LEMMA ShownHonest ==
    ASSUME IInv, work.pc = "send", posts' = Shown, UNCHANGED watermarks
    PROVE  /\ DOMAIN posts' = Cadences
           /\ \A c \in Cadences : posts'[c] \in [Periods(c) -> Seq(Shows)]
           /\ \A c \in Cadences : \A p \in Periods(c) :
                 Len(posts'[c][p]) = IF c = Cadence /\ p = work.period
                                     THEN Len(posts[c][p]) + 1 ELSE Len(posts[c][p])
           /\ PostsHonest' /\ WatermarkMeansPosted'
<1> DEFINE show == [at |-> now, figures |-> work.figures, incomplete |-> work.incomplete]
           old == posts[Cadence][work.period]
<1>1. Cadence \in Cadences /\ work.period \in Periods(Cadence) /\ work \in Ticks
  BY CadenceKnown DEF IInv, TypeOK
<1>2. show \in Shows
  BY <1>1 DEF IInv, TypeOK, Ticks, Shows
<1>3. DOMAIN posts = Cadences /\ \A c \in Cadences : posts[c] \in [Periods(c) -> Seq(Shows)]
  BY DEF IInv, TypeOK
<1>4. posts' = [posts EXCEPT ![Cadence][work.period] = Append(old, show)]
  BY DEF Shown
<1> HIDE DEF show
<1>5. old \in Seq(Shows) /\ Append(old, show) \in Seq(Shows)
  BY <1>1, <1>2, <1>3
<1>6. /\ DOMAIN posts' = Cadences
      /\ \A c \in Cadences : posts'[c] \in [Periods(c) -> Seq(Shows)]
      /\ \A c \in Cadences : \A p \in Periods(c) :
            posts'[c][p] = IF c = Cadence /\ p = work.period THEN Append(old, show)
                           ELSE posts[c][p]
  BY <1>1, <1>3, <1>4, <1>5, OneEntry
<1>7. Len(Append(old, show)) = Len(old) + 1 /\ Append(old, show) # <<>>
  BY <1>2, <1>5
<1>12. /\ DOMAIN old = 1 .. Len(old) /\ DOMAIN Append(old, show) = 1 .. Len(old) + 1
       /\ \A i \in DOMAIN old : Append(old, show)[i] = old[i]
       /\ Append(old, show)[Len(old) + 1] = show /\ Len(old) \in Nat
  BY <1>2, <1>5
<1>8. ASSUME NEW c \in Cadences, NEW p \in Periods(c)
      PROVE  Len(posts'[c][p]) = IF c = Cadence /\ p = work.period
                                 THEN Len(posts[c][p]) + 1 ELSE Len(posts[c][p])
  BY <1>6, <1>7
<1>9. /\ show.at >= Closings[Cadence][work.period] + Settle[Cadence]
      /\ show.incomplete <=> show.figures.priced < show.figures.count
      /\ show.incomplete => show.at >= Closings[Cadence][work.period] + MaxDefer
  <2>1. /\ work.close = Closings[Cadence][work.period]
        /\ work.at \in Times /\ work.at <= now
        /\ work.at >= work.close + Settle[Cadence]
    BY DEF IInv, WorkInv, AboutPeriod
  <2>2. /\ work.incomplete <=> work.figures.priced < work.figures.count
        /\ work.incomplete => work.at >= work.close + MaxDefer
    BY DEF IInv, PayloadInv
  <2>3. work.close \in Nat /\ work.at \in Nat /\ now \in Nat
    BY <1>1, <2>1, ConstantTypes DEF IInv, TypeOK, Ticks
  <2>4. Settle[Cadence] \in Nat /\ MaxDefer \in Nat
    BY <1>1, ConstantTypes
  <2>5. show.at = now /\ show.figures = work.figures /\ show.incomplete = work.incomplete
    BY DEF show
  <2>6. now >= work.close + Settle[Cadence]
    BY <2>1, <2>3, <2>4
  <2>7. work.incomplete => now >= work.close + MaxDefer
    BY <2>1, <2>2, <2>3, <2>4
  <2> QED BY <2>1, <2>2, <2>5, <2>6, <2>7
<1>10. PostsHonest'
  <2> SUFFICES ASSUME NEW c \in Cadences, NEW p \in Periods(c), NEW i \in DOMAIN posts'[c][p]
               PROVE  LET post == posts'[c][p][i] IN
                      /\ post.at >= Closings[c][p] + Settle[c]
                      /\ post.incomplete <=> post.figures.priced < post.figures.count
                      /\ post.incomplete => post.at >= Closings[c][p] + MaxDefer
    BY DEF PostsHonest
  <2>1. CASE (c = Cadence /\ p = work.period) /\ i = Len(old) + 1
    <3>1. posts'[c][p][i] = show
      <4>1. posts'[c][p] = Append(old, show)
        BY <1>6, <2>1
      <4> QED BY <1>12, <2>1, <4>1
    <3> QED BY <1>9, <2>1, <3>1
  <2>2. CASE ~((c = Cadence /\ p = work.period) /\ i = Len(old) + 1)
    <3>1. i \in DOMAIN posts[c][p] /\ posts'[c][p][i] = posts[c][p][i]
      <4>1. CASE c = Cadence /\ p = work.period
        <5>1. posts'[c][p] = Append(old, show) /\ posts[c][p] = old
          BY <1>6, <4>1
        <5>2. i \in DOMAIN Append(old, show) /\ i # Len(old) + 1
          BY <2>2, <4>1, <5>1
        <5>3. i \in DOMAIN old
          BY <1>12, <5>2
        <5> QED BY <1>12, <5>1, <5>3
      <4>2. CASE ~(c = Cadence /\ p = work.period)
        BY <1>6, <4>2
      <4> QED BY <4>1, <4>2
    <3> QED BY <3>1 DEF IInv, PostsHonest
  <2> QED BY <2>1, <2>2
<1>11. WatermarkMeansPosted'
  <2> SUFFICES ASSUME NEW w \in watermarks PROVE posts'[w[1]][w[2]] # <<>>
    BY DEF WatermarkMeansPosted
  <2>1. w[1] \in Cadences /\ w[2] \in Periods(w[1]) /\ posts[w[1]][w[2]] # <<>>
    BY DEF IInv, TypeOK, WatermarkMeansPosted
  <2> QED BY <1>6, <1>7, <2>1
<1> QED BY <1>6, <1>8, <1>10, <1>11

LEMMA SendKeeps == ASSUME IInv, Send PROVE IInv'
<1>1. work.pc = "send" /\ posts' = Shown /\ work' = [work EXCEPT !.pc = "mark"]
  BY DEF Send
<1>2. UNCHANGED <<now, rollup, watermarks, snapshots, due, lapses, faults, lagged>>
  BY DEF Send, tableVars
<1>3. /\ DOMAIN posts' = Cadences
      /\ \A c \in Cadences : posts'[c] \in [Periods(c) -> Seq(Shows)]
      /\ \A c \in Cadences : \A p \in Periods(c) :
            Len(posts'[c][p]) = IF c = Cadence /\ p = work.period
                                THEN Len(posts[c][p]) + 1 ELSE Len(posts[c][p])
      /\ PostsHonest' /\ WatermarkMeansPosted'
  BY <1>1, <1>2, ShownHonest
<1>4. /\ work \in Ticks /\ work.queue # <<>> /\ Cadence \in Cadences
      /\ work.period \in Periods(Cadence)
  BY <1>1, CadenceKnown DEF IInv, TypeOK
<1>5. /\ work' \in Ticks /\ work'.pc = "mark" /\ work'.queue = work.queue
      /\ work'.period = work.period /\ work'.close = work.close /\ work'.at = work.at
      /\ work'.figures = work.figures /\ work'.incomplete = work.incomplete
  BY <1>1, <1>4 DEF Ticks
<1>6. Cadence' = Cadence
  BY <1>5 DEF Cadence
<1>7. TypeOK'
  BY <1>2, <1>3, <1>4, <1>5, <1>6 DEF IInv, TypeOK
<1>8. WorkInv' /\ PayloadInv' /\ UnmarkedInv'
  <2>1. AboutPeriod
    BY <1>1 DEF AboutPeriod
  <2> QED BY <1>1, <1>2, <1>5, <1>6, <2>1 DEF IInv, WorkInv, PayloadInv, UnmarkedInv
<1>9. MarkInv'
  <2>1. Len(posts'[Cadence][work.period]) = Len(posts[Cadence][work.period]) + 1
    BY <1>3, <1>4
  <2>2. Len(posts[Cadence][work.period]) \in Nat
    BY <1>4 DEF IInv, TypeOK
  <2>3. Len(posts'[Cadence][work.period]) # 0
    BY <2>1, <2>2
  <2>4. posts'[Cadence][work.period] # <<>>
    BY <2>3
  <2> QED BY <1>5, <1>6, <2>4 DEF MarkInv
<1>10. OnceInv'
  <2> SUFFICES ASSUME NEW c \in Cadences, NEW p \in Periods(c)
               PROVE  (IF Recorded(c, p) THEN Len(posts[c][p]) <= lapses[c][p] + 1
                       ELSE Len(posts[c][p]) <= lapses[c][p])'
    BY DEF OnceInv
  <2>1. Len(posts[c][p]) \in Nat /\ lapses[c][p] \in Nat
    BY DEF IInv, TypeOK
  <2>2. IF Recorded(c, p) THEN Len(posts[c][p]) <= lapses[c][p] + 1
        ELSE Len(posts[c][p]) <= lapses[c][p]
    BY DEF IInv, OnceInv
  <2>3. CASE c = Cadence /\ p = work.period
    <3>1. ~Recorded(c, p)
      BY <1>1, <2>3 DEF IInv, UnmarkedInv, Recorded
    <3>2. Recorded(c, p)'
      BY <1>5, <1>6, <2>3 DEF Recorded
    <3>3. Len(posts'[c][p]) = Len(posts[c][p]) + 1
      BY <1>3, <2>3
    <3> QED BY <1>2, <2>1, <2>2, <3>1, <3>2, <3>3
  <2>4. CASE ~(c = Cadence /\ p = work.period)
    <3>1. Recorded(c, p)' <=> Recorded(c, p)
      BY <1>1, <1>2, <1>5, <1>6, <2>4 DEF Recorded
    <3>2. Len(posts'[c][p]) = Len(posts[c][p])
      BY <1>3, <2>4
    <3> QED BY <1>2, <2>2, <3>1, <3>2
  <2> QED BY <2>3, <2>4
<1> QED BY <1>3, <1>7, <1>8, <1>9, <1>10 DEF IInv

LEMMA SendFailsKeeps == ASSUME IInv, SendFails PROVE IInv'
<1>1. work.pc = "send" /\ work' \in {work, NextCadence}
  BY DEF SendFails
<1>2. UNCHANGED <<now, rollup, watermarks, snapshots, due, lagged>> /\ faults' \in 0..MaxFaults
  BY SummaryBoundsAssumption DEF IInv, TypeOK, SendFails, tableVars
<1>3. \/ work' = work
      \/ /\ work' \in Ticks /\ work'.pc \in {"idle", "check"}
         /\ work'.pc # "idle" => work'.queue # <<>>
  BY <1>1, NextTyped DEF IInv
<1>4. CASE UNCHANGED <<posts, lapses>> /\ work' = NextCadence
  <2>1. Unrecorded
    BY <1>1, <1>4 DEF Unrecorded
  <2>2. due' \in BOOLEAN
    BY <1>2 DEF IInv, TypeOK
  <2> QED BY <1>1, <1>2, <1>4, <2>1, <2>2, TurnKeeps
<1>5. CASE posts' = Shown /\ lapses' = Lapsed
  <2>1. /\ DOMAIN posts' = Cadences
        /\ \A c \in Cadences : posts'[c] \in [Periods(c) -> Seq(Shows)]
        /\ \A c \in Cadences : \A p \in Periods(c) :
              Len(posts'[c][p]) = IF c = Cadence /\ p = work.period
                                  THEN Len(posts[c][p]) + 1 ELSE Len(posts[c][p])
        /\ PostsHonest' /\ WatermarkMeansPosted'
    BY <1>1, <1>2, <1>5, ShownHonest
  <2>2. Cadence \in Cadences /\ work.period \in Periods(Cadence)
    BY <1>1, CadenceKnown DEF IInv, TypeOK
  <2>3. /\ DOMAIN lapses' = Cadences
        /\ \A c \in Cadences : lapses'[c] \in [Periods(c) -> Nat]
        /\ \A c \in Cadences : \A p \in Periods(c) :
              lapses'[c][p] = IF c = Cadence /\ p = work.period
                              THEN lapses[Cadence][work.period] + 1 ELSE lapses[c][p]
    <3>1. DOMAIN lapses = Cadences /\ \A c \in Cadences : lapses[c] \in [Periods(c) -> Nat]
      BY DEF IInv, TypeOK
    <3>2. lapses' = [lapses EXCEPT ![Cadence][work.period] = lapses[Cadence][work.period] + 1]
      BY <1>5 DEF Lapsed
    <3>3. lapses[Cadence][work.period] + 1 \in Nat
      BY <2>2, <3>1
    <3> QED BY <2>2, <3>1, <3>2, <3>3, OneEntry
  <2>4. TypeOK'
    BY <1>2, <1>3, <2>1, <2>3 DEF IInv, TypeOK, Cadence
  <2>5. WorkInv' /\ PayloadInv' /\ UnmarkedInv' /\ MarkInv'
    <3>1. CASE work' = work
      BY <1>1, <1>2, <3>1 DEF IInv, WorkInv, AboutPeriod, PayloadInv, UnmarkedInv, MarkInv, Cadence
    <3>2. CASE work'.pc \in {"idle", "check"}
      BY <3>2 DEF WorkInv, AboutPeriod, PayloadInv, UnmarkedInv, MarkInv
    <3> QED BY <1>3, <3>1, <3>2
  <2>6. OnceInv'
    <3> SUFFICES ASSUME NEW c \in Cadences, NEW p \in Periods(c)
                 PROVE  (IF Recorded(c, p) THEN Len(posts[c][p]) <= lapses[c][p] + 1
                         ELSE Len(posts[c][p]) <= lapses[c][p])'
      BY DEF OnceInv
    <3>1. Len(posts[c][p]) \in Nat /\ lapses[c][p] \in Nat
      BY DEF IInv, TypeOK
    <3>2. IF Recorded(c, p) THEN Len(posts[c][p]) <= lapses[c][p] + 1
          ELSE Len(posts[c][p]) <= lapses[c][p]
      BY DEF IInv, OnceInv
    <3>3. Recorded(c, p)' <=> Recorded(c, p)
      BY <1>1, <1>2, <1>3 DEF Recorded, Cadence
    <3>4. CASE c = Cadence /\ p = work.period
      <4>1. Len(posts'[c][p]) = Len(posts[c][p]) + 1 /\ lapses'[c][p] = lapses[c][p] + 1
        BY <2>1, <2>3, <3>4
      <4> QED BY <3>1, <3>2, <3>3, <4>1
    <3>5. CASE ~(c = Cadence /\ p = work.period)
      <4>1. Len(posts'[c][p]) = Len(posts[c][p]) /\ lapses'[c][p] = lapses[c][p]
        BY <2>1, <2>3, <3>5
      <4> QED BY <3>2, <3>3, <4>1
    <3> QED BY <3>4, <3>5
  <2> QED BY <2>1, <2>4, <2>5, <2>6 DEF IInv
<1> QED BY <1>4, <1>5 DEF SendFails

LEMMA MarkKeeps == ASSUME IInv, Mark PROVE IInv'
<1>1. /\ work.pc = "mark" /\ work' = NextCadence
      /\ watermarks' = watermarks \union {<<Cadence, work.period>>}
  BY DEF Mark
<1>2. UNCHANGED <<now, rollup, snapshots, due, posts, lapses, faults, lagged>>
  BY DEF Mark
<1>3. work' \in Ticks /\ work'.pc \in {"idle", "check"} /\ (work'.pc # "idle" => work'.queue # <<>>)
  BY <1>1, NextTyped DEF IInv
<1>4. Cadence \in Cadences /\ work.period \in Periods(Cadence)
  BY <1>1, CadenceKnown DEF IInv, TypeOK
<1>5. TypeOK'
  <2>1. \A w \in watermarks' : w[1] \in Cadences /\ w[2] \in Periods(w[1])
    BY <1>1, <1>4 DEF IInv, TypeOK
  <2> QED BY <1>2, <1>3, <2>1 DEF IInv, TypeOK
<1>6. WorkInv' /\ PayloadInv' /\ UnmarkedInv' /\ MarkInv'
  BY <1>3 DEF WorkInv, AboutPeriod, PayloadInv, UnmarkedInv, MarkInv
<1>7. OnceInv'
  <2>1. ASSUME NEW c, NEW p PROVE Recorded(c, p)' <=> Recorded(c, p)
    BY <1>1, <1>3 DEF Recorded
  <2> QED BY <1>2, <2>1 DEF IInv, OnceInv
<1>8. WatermarkMeansPosted' /\ PostsHonest'
  <2>1. posts[Cadence][work.period] # <<>>
    BY <1>1 DEF IInv, MarkInv
  <2> QED BY <1>1, <1>2, <2>1 DEF IInv, WatermarkMeansPosted, PostsHonest
<1> QED BY <1>5, <1>6, <1>7, <1>8 DEF IInv

LEMMA FaultsKeep == ASSUME IInv, CallFails \/ Crash PROVE IInv'
<1>1. faults' \in 0..MaxFaults
  BY SummaryBoundsAssumption DEF IInv, TypeOK, CallFails, Crash
<1>2. work.pc # "idle" /\ Unrecorded
  BY DEF CallFails, Crash
<1>3. CASE CallFails
  <2>1. due' \in BOOLEAN
    BY <1>3 DEF IInv, TypeOK, CallFails
  <2> QED BY <1>1, <1>2, <1>3, <2>1, TurnKeeps DEF CallFails, tableVars
<1>4. CASE Crash
  <2>1. work' = Tick("idle", <<>>)
    BY <1>4 DEF Crash, Idle
  <2>2. work' \in Ticks /\ work'.pc = "idle"
    <3>1. NoFigures \in Figures /\ <<>> \in Seq(Cadences)
      BY DEF NoFigures, Figures
    <3> QED BY <2>1, <3>1 DEF Tick, Ticks
  <2>3. /\ DOMAIN lapses' = Cadences
        /\ \A c \in Cadences : lapses'[c] \in [Periods(c) -> Nat]
    BY <1>2, LapsesTyped
  <2>4. TypeOK'
    BY <1>1, <1>4, <2>2, <2>3 DEF IInv, TypeOK, Crash, tableVars
  <2> QED BY <1>2, <1>4, <2>2, <2>4, EndKeeps DEF Crash, tableVars
<1> QED BY <1>3, <1>4

-----------------------------------------------------------------------------
(* The invariant.                                                          *)

LEMMA InitInv == Init => IInv
<1> SUFFICES ASSUME Init PROVE IInv
  OBVIOUS
<1>1. NoFigures \in Figures /\ <<>> \in Seq(Cadences) /\ <<>> \in Seq(Shows)
  BY DEF NoFigures, Figures
<1>2. now \in Times
  BY ConstantTypes DEF Init
<1>3. work \in Ticks /\ work.pc = "idle"
  BY <1>1 DEF Init, Idle, Tick, Ticks
<1>4. TypeOK
  <2>1. /\ rollup = PerPeriod(NoFigures) /\ snapshots = PerPeriod(NoSnapshot)
        /\ posts = PerPeriod(<<>>) /\ lapses = PerPeriod(0)
    BY DEF Init
  <2>2. /\ DOMAIN rollup = Cadences /\ DOMAIN snapshots = Cadences
        /\ DOMAIN posts = Cadences /\ DOMAIN lapses = Cadences
    BY <2>1 DEF PerPeriod
  <2>3. ASSUME NEW c \in Cadences
        PROVE  /\ rollup[c] \in [Periods(c) -> Figures]
               /\ snapshots[c] \in [Periods(c) -> Figures \union {NoSnapshot}]
               /\ posts[c] \in [Periods(c) -> Seq(Shows)]
               /\ lapses[c] \in [Periods(c) -> Nat]
    BY <1>1, <2>1 DEF PerPeriod
  <2>4. watermarks = {} /\ due \in BOOLEAN /\ lagged \in BOOLEAN
    BY DEF Init
  <2>5. faults \in 0..MaxFaults
    <3>1. faults = 0
      BY DEF Init
    <3> QED BY <3>1, SummaryBoundsAssumption
  <2> QED BY <1>2, <1>3, <2>2, <2>3, <2>4, <2>5 DEF TypeOK
<1>5. WorkInv /\ PayloadInv /\ UnmarkedInv /\ MarkInv
  BY <1>3 DEF WorkInv, AboutPeriod, PayloadInv, UnmarkedInv, MarkInv
<1>6. OnceInv /\ WatermarkMeansPosted /\ PostsHonest
  <2>1. \A c \in Cadences : \A p \in Periods(c) : posts[c][p] = <<>> /\ lapses[c][p] = 0
    BY DEF Init, PerPeriod
  <2>2. watermarks = {}
    BY DEF Init
  <2> QED BY <1>3, <2>1, <2>2 DEF OnceInv, Recorded, WatermarkMeansPosted, PostsHonest
<1> QED BY <1>4, <1>5, <1>6 DEF IInv

LEMMA NextInv == IInv /\ [Next]_vars => IInv'
<1> SUFFICES ASSUME IInv, [Next]_vars PROVE IInv'
  OBVIOUS
<1>1. ASSUME NEW c \in Cadences, CountTicket(c) \/ PriceTicket(c) PROVE IInv'
  BY <1>1, TicketsKeep
<1>2. CASE PosterNext
  BY <1>2, StartTickKeeps, CheckKeeps, ObserveKeeps, SendKeeps, MarkKeeps DEF PosterNext
<1>3. CASE Advance \/ SendFails \/ CallFails \/ Crash
  BY <1>3, AdvanceKeeps, SendFailsKeeps, FaultsKeep
<1>4. CASE UNCHANGED vars
  <2>1. TypeOK'
    BY <1>4 DEF IInv, TypeOK, vars, tableVars, Cadence
  <2>2. now' >= now
    BY <1>4, ConstantTypes DEF IInv, TypeOK, vars
  <2> QED BY <1>4, <2>1, <2>2, FrameKeeps DEF vars, tableVars
<1> QED BY <1>1, <1>2, <1>3, <1>4 DEF Next

LEMMA Invariance == Spec => []IInv
BY InitInv, NextInv, PTL DEF Spec

-----------------------------------------------------------------------------
(* No period is skipped: what a run of the poster owes every period, and   *)
(* when.                                                                   *)

\* An instant later it is the same day, or the midnight that begins the next.
LEMMA NextDay ==
    ASSUME NEW t \in Nat
    PROVE  \/ (t + 1) \div DayLength = t \div DayLength
           \/ /\ (t + 1) \div DayLength = t \div DayLength + 1
              /\ t + 1 = (t \div DayLength + 1) * DayLength
<1>1. DayLength \in Nat \ {0}
  BY TimeAssumption
<1> DEFINE d == t \div DayLength
           e == (t + 1) \div DayLength
           r == t % DayLength
           s == (t + 1) % DayLength
<1>2. d \in Nat /\ r \in 0..DayLength - 1 /\ t = d * DayLength + r
  BY <1>1, SMT
<1>3. e \in Nat /\ s \in 0..DayLength - 1 /\ t + 1 = e * DayLength + s
  BY <1>1, SMT
<1> HIDE DEF d, e, r, s
<1>4. (d + 1) * DayLength = d * DayLength + DayLength /\ d * DayLength \in Nat
  BY <1>1, <1>2
<1>5. CASE r + 1 < DayLength
  <2>1. e = d
    BY <1>1, <1>2, <1>3, <1>5, SMT
  <2> QED BY <2>1 DEF d, e
<1>6. CASE r + 1 = DayLength
  <2>1. t + 1 = (d + 1) * DayLength
    BY <1>1, <1>2, <1>4, <1>6
  <2>2. e = d + 1
    BY <1>1, <1>2, <1>3, <2>1, SMT
  <2> QED BY <2>1, <2>2 DEF d, e
<1> QED BY <1>1, <1>2, <1>5, <1>6

\* The tick of this instant is through with cadence c.
Looked(c) ==
    /\ ~due
    /\ work.pc # "idle" => \A i \in DOMAIN work.queue : work.queue[i] # c

\* A tick is over within its instant, so that what it works on is still the last closed.
InstantInv ==
    ~lagged /\ work.pc \in {"fetch", "send", "mark"} =>
        /\ work.at = now
        /\ work.period = LastClosed(Cadence).period
        /\ work.close = LastClosed(Cadence).close

\* Every instant past the deadline without a post has its fault.
PatienceInv ==
    \A c \in Cadences :
        ~lagged /\ posts[c][LastClosed(c).period] = <<>> =>
            now + (IF Looked(c) THEN 1 ELSE 0) <= Deadline(c, Today) + faults

SkipInv == InstantInv /\ PatienceInv /\ NoPeriodSkipped

\* The deadline is an instant past the settlement floor and past max_defer.
LEMMA DeadlineBounds ==
    ASSUME TypeOK, NEW c \in Cadences
    PROVE  /\ Deadline(c, Today) \in Nat /\ Deadline(c, Today) >= StartTime
           /\ Deadline(c, Today) >= LastClosed(c).close + Settle[c]
           /\ Deadline(c, Today) >= LastClosed(c).close + MaxDefer
<1>1. LastClosed(c).close \in Nat /\ StartTime \in Nat /\ MaxDefer \in Nat /\ Settle[c] \in Nat
  BY LastClosedKnown, ConstantTypes
<1>2. LastClosed(c) = LastClosedOn[c][Today]
  BY DEF LastClosed
<1> QED BY <1>1, <1>2 DEF Deadline

\* A period is named by a day.
LEMMA PeriodsAreDays == ASSUME NEW c \in Cadences, NEW p \in Periods(c) PROVE p \in Nat
<1>1. PICK f \in Days : p = LastClosedOn[c][f].period
  BY DEF Periods
<1>2. f \in Nat \ 0..31
  <2>1. f \in Int /\ f >= StartTime \div DayLength
    BY <1>1 DEF Days
  <2>2. StartTime \div DayLength \in Nat /\ StartTime \div DayLength > 31
    BY DayOf, ConstantTypes, TimeAssumption
  <2> QED BY <2>1, <2>2
<1>3. LastClosedOn[c][f].period = LastClosedPeriod(c, f).date /\ c \in AllCadences
  BY CadencesAreCadences DEF LastClosedOn
<1> QED BY <1>1, <1>2, <1>3, LastClosedSpan

\* The last closed period an instant later: the same, or one that has just closed.
LEMMA ClosedNext ==
    ASSUME NEW c \in Cadences, NEW t \in Times, t + 1 \in Times,
           NEW d, d = t \div DayLength, NEW e, e = (t + 1) \div DayLength
    PROVE  \/ /\ LastClosedOn[c][e].period = LastClosedOn[c][d].period
              /\ LastClosedOn[c][e].close = LastClosedOn[c][d].close
           \/ /\ LastClosedOn[c][d].period < LastClosedOn[c][e].period
              /\ LastClosedOn[c][e].close = t + 1
<1>1. /\ d \in Days /\ d \in Nat \ 0..31 /\ e \in Days /\ e \in Nat \ 0..31
      /\ c \in AllCadences /\ t \in Nat
  BY DayOf, CadencesAreCadences, ConstantTypes
<1>2. /\ LastClosedOn[c][d].period \in Nat /\ LastClosedOn[c][e].period \in Nat
      /\ LastClosedOn[c][d].close = Closings[c][LastClosedOn[c][d].period]
      /\ LastClosedOn[c][e].close = Closings[c][LastClosedOn[c][e].period]
  <2>1. /\ LastClosedOn[c][d].period \in Nat
        /\ LastClosedOn[c][d].close = Closings[c][LastClosedOn[c][d].period]
    BY ClosingsRight
  <2>2. /\ LastClosedOn[c][e].period \in Nat
        /\ LastClosedOn[c][e].close = Closings[c][LastClosedOn[c][e].period]
    BY ClosingsRight
  <2> QED BY <2>1, <2>2
<1>3. CASE LastClosedOn[c][e].period = LastClosedOn[c][d].period
  BY <1>2, <1>3
<1>4. CASE LastClosedOn[c][e].period # LastClosedOn[c][d].period
  <2>1. e = d + 1 /\ t + 1 = e * DayLength
    <3>1. e # d
      BY <1>4
    <3> QED BY <1>1, <3>1, NextDay
  <2>2. /\ LastClosedOn[c][d].period = LastClosedPeriod(c, d).date
        /\ LastClosedOn[c][e].period = LastClosedPeriod(c, e).date
        /\ LastClosedOn[c][e].close = (LastClosedPeriod(c, e).to + 1) * DayLength
    BY <1>1 DEF LastClosedOn
  <2>3. LastClosedPeriod(c, e).date >= LastClosedPeriod(c, d).date
    <3>1. d <= e
      BY <1>1, <2>1
    <3> QED BY <1>1, <1>2, <2>2, <3>1, PeriodsInOrder
  <2>4. LastClosedPeriod(c, e).to = d
    BY <1>1, <1>4, <2>1, <2>2, ReplacedAtItsEnd
  <2> QED BY <1>2, <1>4, <2>1, <2>2, <2>3, <2>4
<1> QED BY <1>3, <1>4

\* No day of the instance has a last closed period between those of two instants in a row.
LEMMA NothingBetween ==
    ASSUME NEW c \in Cadences, NEW t \in Times, t + 1 \in Times, NEW p \in Periods(c),
           NEW d, d = t \div DayLength, NEW e, e = (t + 1) \div DayLength,
           p < LastClosedOn[c][e].period
    PROVE  p <= LastClosedOn[c][d].period
<1>1. /\ d \in Days /\ d \in Nat \ 0..31 /\ e \in Days /\ e \in Nat \ 0..31
      /\ c \in AllCadences /\ t \in Nat
  BY DayOf, CadencesAreCadences, ConstantTypes
<1>2. PICK f \in Days : p = LastClosedOn[c][f].period
  BY DEF Periods
<1>3. f \in Nat \ 0..31
  <2>1. f \in Int /\ f >= StartTime \div DayLength
    BY <1>2 DEF Days
  <2>2. StartTime \div DayLength \in Nat /\ StartTime \div DayLength > 31
    BY DayOf, ConstantTypes, TimeAssumption
  <2> QED BY <2>1, <2>2
<1>4. \A g \in Days : LastClosedOn[c][g].period = LastClosedPeriod(c, g).date
  BY DEF LastClosedOn
<1>5. e <= d + 1
  BY <1>1, NextDay
<1>6. \A g \in Nat \ 0..31 : LastClosedPeriod(c, g).date \in Nat
  BY <1>1, LastClosedSpan
<1>7. ~(e <= f)
  <2>1. ASSUME e <= f PROVE LastClosedPeriod(c, e).date <= LastClosedPeriod(c, f).date
    BY <1>1, <1>3, <2>1, PeriodsInOrder
  <2>2. LastClosedPeriod(c, e).date \in Nat /\ LastClosedPeriod(c, f).date \in Nat
    BY <1>1, <1>3, <1>6
  <2> QED BY <1>1, <1>2, <1>4, <2>1, <2>2
<1>8. f <= d
  BY <1>1, <1>3, <1>5, <1>7
<1>9. LastClosedPeriod(c, f).date <= LastClosedPeriod(c, d).date
  BY <1>1, <1>3, <1>8, PeriodsInOrder
<1> QED BY <1>1, <1>2, <1>4, <1>9

\* A new instant: the tick of the one before is over, or the poster lags.
LEMMA AdvanceSkips ==
    ASSUME RoomForRetries, IInv, SkipInv, Advance PROVE SkipInv'
<1>1. /\ now \in Times /\ now' = now + 1 /\ now' \in Times /\ Times \subseteq Nat
      /\ UNCHANGED <<work, posts, faults>>
  BY TimeAssumption, ConstantTypes DEF IInv, TypeOK, Advance, Times
<1>2. ~lagged' => ~lagged /\ ~due /\ work.pc = "idle"
  BY DEF Advance
<1>3. InstantInv'
  BY <1>1, <1>2 DEF InstantInv
<1> DEFINE d == now \div DayLength
           e == (now + 1) \div DayLength
<1>4. ASSUME NEW c \in Cadences
      PROVE  /\ LastClosed(c) = LastClosedOn[c][d] /\ LastClosed(c)' = LastClosedOn[c][e]
             /\ Deadline(c, Today) = Deadline(c, d) /\ Deadline(c, Today)' = Deadline(c, e)
  BY <1>1 DEF LastClosed, Today, Deadline
<1>5. d \in Days /\ e \in Days
  BY <1>1, DayOf
<1>6. TypeOK /\ faults \in Nat /\ faults <= MaxFaults /\ MaxFaults \in Nat /\ StartTime \in Nat
  BY SummaryBoundsAssumption, TimeAssumption DEF IInv, TypeOK
<1>7. ASSUME NEW c \in Cadences, ~lagged', posts[c][LastClosed(c).period] = <<>>
      PROVE  now + 1 <= Deadline(c, Today) + faults
  <2>1. Looked(c)
    BY <1>2, <1>7 DEF Looked
  <2> QED BY <1>2, <1>7, <2>1 DEF SkipInv, PatienceInv
<1>8. ASSUME NEW c \in Cadences, ~lagged', posts'[c][LastClosed(c)'.period] = <<>>
      PROVE  now' <= (Deadline(c, Today) + faults)'
  <2>1. CASE /\ LastClosedOn[c][e].period = LastClosedOn[c][d].period
             /\ LastClosedOn[c][e].close = LastClosedOn[c][d].close
    <3>1. Deadline(c, e) = Deadline(c, d)
      BY <2>1 DEF Deadline
    <3> HIDE DEF d, e
    <3> QED BY <1>1, <1>4, <1>7, <1>8, <2>1, <3>1
  <2>2. CASE LastClosedOn[c][e].close = now + 1
    <3>1. Deadline(c, e) \in Nat /\ Deadline(c, e) >= now + 1
      <4>1. now + 1 \in Nat /\ MaxDefer \in Nat /\ Settle[c] \in Nat
        BY <1>1, ConstantTypes
      <4> HIDE DEF e
      <4> QED BY <1>6, <2>2, <4>1 DEF Deadline
    <3> HIDE DEF e
    <3> QED BY <1>1, <1>4, <1>6, <3>1
  <2>3. QED
    <3>1. now + 1 \in Times
      BY <1>1
    <3> QED BY <1>1, <2>1, <2>2, <3>1, ClosedNext
<1>9. PatienceInv'
  <2>1. \A c \in Cadences : ~Looked(c)'
    BY DEF Looked, Advance
  <2>2. now' \in Int
    BY <1>1
  <2> QED BY <1>8, <2>1, <2>2 DEF PatienceInv
<1>10. NoPeriodSkipped'
  <2> SUFFICES ASSUME NEW c \in Cadences, NEW p \in Periods(c), ~lagged',
                      LastClosedOn[c][StartTime \div DayLength].period <= p,
                      p < LastClosed(c)'.period
               PROVE  posts[c][p] # <<>>
    BY <1>1 DEF NoPeriodSkipped
  <2>1. /\ LastClosed(c).period \in Nat /\ LastClosed(c).period \in Periods(c)
        /\ LastClosed(c).close \in Nat
    BY <1>6, LastClosedKnown
  <2>2. p \in Int
    BY PeriodsAreDays
  <2>3. p <= LastClosed(c).period
    BY <1>1, <1>4, NothingBetween
  <2>4. CASE p < LastClosed(c).period
    BY <1>2, <2>4 DEF SkipInv, NoPeriodSkipped
  <2>5. CASE p = LastClosed(c).period
    <3>1. LastClosedOn[c][d].period < LastClosedOn[c][e].period /\ LastClosedOn[c][e].close = now + 1
      <4>1. LastClosedOn[c][e].period # LastClosedOn[c][d].period
        BY <1>4, <2>1, <2>5
      <4>2. now + 1 \in Times
        BY <1>1
      <4>3. \/ LastClosedOn[c][e].period = LastClosedOn[c][d].period
            \/ /\ LastClosedOn[c][d].period < LastClosedOn[c][e].period
               /\ LastClosedOn[c][e].close = now + 1
        BY <1>1, <4>2, ClosedNext
      <4> QED BY <4>1, <4>3
    <3>2. Deadline(c, d) + MaxFaults < LastClosedOn[c][e].close
      BY <1>5, <3>1 DEF RoomForRetries
    <3>3. Deadline(c, Today) \in Nat
      BY <1>6, DeadlineBounds
    <3> QED BY <1>1, <1>4, <1>6, <1>7, <2>5, <3>1, <3>2, <3>3
  <2> QED BY <2>1, <2>2, <2>3, <2>4, <2>5
<1> QED BY <1>3, <1>9, <1>10 DEF SkipInv

\* The posts only grow.
Kept == \A c \in Cadences : \A p \in Periods(c) : posts[c][p] # <<>> => posts'[c][p] # <<>>

\* A step of the tick within its instant. Whatever cadence it is through with has its
\* post, or its deadline is still to come, or the fault that stopped it counts.
LEMMA SkipFrame ==
    ASSUME IInv, IInv', SkipInv, UNCHANGED <<now, lagged>>, Kept, faults <= faults', InstantInv',
           \A c \in Cadences :
              ~lagged /\ posts'[c][LastClosed(c).period] = <<>> /\ Looked(c)' /\ ~Looked(c) =>
                  now + 1 <= Deadline(c, Today) + faults'
    PROVE  SkipInv'
<1>1. \A c \in Cadences : /\ LastClosed(c)' = LastClosed(c)
                          /\ Deadline(c, Today)' = Deadline(c, Today)
  BY DEF LastClosed, Today, Deadline
<1>2. /\ faults \in Nat /\ faults' \in Nat /\ now \in Nat
      /\ \A c \in Cadences : /\ Deadline(c, Today) \in Nat
                             /\ LastClosed(c).period \in Periods(c)
  <2>1. TypeOK /\ TypeOK'
    BY DEF IInv
  <2>2. faults \in Nat /\ faults' \in Nat /\ now \in Nat
    BY <2>1, ConstantTypes, SummaryBoundsAssumption DEF TypeOK
  <2>3. ASSUME NEW c \in Cadences
        PROVE  Deadline(c, Today) \in Nat /\ LastClosed(c).period \in Periods(c)
    BY <2>1, DeadlineBounds, LastClosedKnown
  <2> QED BY <2>2, <2>3
<1>3. PatienceInv'
  <2> SUFFICES ASSUME NEW c \in Cadences, ~lagged, posts'[c][LastClosed(c).period] = <<>>
               PROVE  now + (IF Looked(c)' THEN 1 ELSE 0) <= Deadline(c, Today) + faults'
    BY <1>1 DEF PatienceInv
  <2>1. posts[c][LastClosed(c).period] = <<>>
    BY <1>2 DEF Kept
  <2>2. now + (IF Looked(c) THEN 1 ELSE 0) <= Deadline(c, Today) + faults
    BY <2>1 DEF SkipInv, PatienceInv
  <2>3. Deadline(c, Today) \in Nat
    BY <1>2
  <2>4. CASE Looked(c)' /\ ~Looked(c)
    BY <2>4
  <2>5. CASE ~(Looked(c)' /\ ~Looked(c))
    BY <1>2, <2>2, <2>3, <2>5
  <2> QED BY <2>4, <2>5
<1>4. NoPeriodSkipped'
  BY <1>1 DEF SkipInv, NoPeriodSkipped, Kept
<1> QED BY <1>3, <1>4 DEF SkipInv

\* A step that stays with its cadence, or touches nothing of the tick.
LEMMA StayingSkips ==
    ASSUME IInv, IInv', SkipInv, UNCHANGED <<now, lagged, due>>, Kept, faults <= faults',
           InstantInv', UNCHANGED work \/
              (work.pc # "idle" /\ work'.pc # "idle" /\ work'.queue = work.queue)
    PROVE  SkipInv'
<1>1. \A c \in Cadences : Looked(c)' <=> Looked(c)
  BY DEF Looked
<1> QED BY <1>1, SkipFrame

\* A step that goes on to the next cadence is through with the one it leaves only.
LEMMA TurnOver ==
    ASSUME TypeOK, work.pc # "idle", work' = NextCadence, UNCHANGED due, NEW c,
           Looked(c)', ~Looked(c)
    PROVE  c = Cadence
<1>1. work.queue \in Seq(Cadences) /\ work.queue # <<>> /\ ~due
  BY DEF TypeOK, Ticks, Looked
<1>2. PICK i \in DOMAIN work.queue : work.queue[i] = c
  BY <1>1 DEF Looked
<1>3. /\ Len(work.queue) \in Nat /\ i \in 1..Len(work.queue)
      /\ Head(work.queue) = work.queue[1]
  BY <1>1, <1>2
<1>4. CASE i = 1
  BY <1>2, <1>3, <1>4 DEF Cadence
<1>5. CASE i # 1
  <2> DEFINE rest == Tail(work.queue)
  <2>1. Len(work.queue) > 1 /\ i - 1 \in 1..Len(work.queue) - 1
    BY <1>3, <1>5
  <2>2. /\ rest \in Seq(Cadences) /\ Len(rest) = Len(work.queue) - 1
        /\ rest[i - 1] = work.queue[i]
    <3>1. rest \in Seq(Cadences) /\ Len(rest) = Len(work.queue) - 1
      BY <1>1
    <3>2. rest[i - 1] = work.queue[(i - 1) + 1]
      BY <1>1, <2>1
    <3>3. (i - 1) + 1 = i
      BY <1>3
    <3> QED BY <3>1, <3>2, <3>3
  <2>3. work' = Tick("check", rest)
    BY <2>1 DEF NextCadence
  <2> HIDE DEF rest
  <2>4. work'.pc = "check" /\ work'.queue = rest
    BY <2>3 DEF Tick
  <2>5. i - 1 \in DOMAIN rest
    BY <2>1, <2>2
  <2> QED BY <1>2, <2>2, <2>4, <2>5 DEF Looked
<1> QED BY <1>4, <1>5

LEMMA TurnSkips ==
    ASSUME IInv, IInv', SkipInv, work.pc # "idle", work' = NextCadence,
           UNCHANGED <<now, lagged, due>>, Kept, faults <= faults',
           ~lagged /\ posts'[Cadence][LastClosed(Cadence).period] = <<>> =>
              now + 1 <= Deadline(Cadence, Today) + faults'
    PROVE  SkipInv'
<1>1. InstantInv'
  <2>1. work'.pc \in {"idle", "check"}
    BY NextTyped DEF IInv
  <2> QED BY <2>1 DEF InstantInv
<1>2. \A c \in Cadences : Looked(c)' /\ ~Looked(c) => c = Cadence
  BY TurnOver DEF IInv
<1> QED BY <1>1, <1>2, SkipFrame

\* A fault takes its cadence's turn away, and is counted.
LEMMA FaultedTurnSkips ==
    ASSUME IInv, IInv', SkipInv, work.pc # "idle", work' = NextCadence,
           UNCHANGED <<now, lagged, due>>, Kept, faults' = faults + 1
    PROVE  SkipInv'
<1>1. TypeOK /\ Cadence \in Cadences
  BY CadenceKnown DEF IInv
<1>2. /\ faults \in Nat /\ now \in Nat /\ Deadline(Cadence, Today) \in Nat
      /\ LastClosed(Cadence).period \in Periods(Cadence)
  <2>1. faults \in Nat /\ now \in Nat
    BY <1>1, ConstantTypes, SummaryBoundsAssumption DEF TypeOK
  <2> QED BY <1>1, <2>1, DeadlineBounds, LastClosedKnown
<1>3. ASSUME ~lagged, posts'[Cadence][LastClosed(Cadence).period] = <<>>
      PROVE  now + 1 <= Deadline(Cadence, Today) + faults'
  <2>1. posts[Cadence][LastClosed(Cadence).period] = <<>>
    BY <1>1, <1>2, <1>3 DEF Kept
  <2>2. now + (IF Looked(Cadence) THEN 1 ELSE 0) <= Deadline(Cadence, Today) + faults
    BY <1>1, <1>3, <2>1 DEF SkipInv, PatienceInv
  <2>3. now <= Deadline(Cadence, Today) + faults
    BY <1>2, <2>2
  <2> QED BY <1>2, <2>3
<1>4. faults <= faults'
  BY <1>2
<1> QED BY <1>3, <1>4, TurnSkips

LEMMA CheckSkips == ASSUME IInv, IInv', SkipInv, Check PROVE SkipInv'
<1> DEFINE closed == LastClosed(Cadence)
<1>1. /\ TypeOK /\ Cadence \in Cadences /\ work.pc = "check" /\ Kept
      /\ UNCHANGED <<now, lagged, due, posts, faults>>
  BY CadenceKnown DEF IInv, Check, Kept
<1>2. /\ faults \in Nat /\ now \in Nat /\ Deadline(Cadence, Today) \in Nat
      /\ closed.close \in Nat /\ Settle[Cadence] \in Nat
      /\ Deadline(Cadence, Today) >= closed.close + Settle[Cadence]
  <2>1. faults \in Nat /\ now \in Nat /\ Settle[Cadence] \in Nat
    BY <1>1, ConstantTypes, SummaryBoundsAssumption DEF TypeOK
  <2> QED BY <1>1, <2>1, DeadlineBounds, LastClosedKnown
<1>3. CASE \/ <<Cadence, closed.period>> \in watermarks
           \/ now < closed.close + Settle[Cadence]
  <2>1. work' = NextCadence
    BY <1>3 DEF Check
  <2>2. ASSUME posts'[Cadence][closed.period] = <<>>
        PROVE  now + 1 <= Deadline(Cadence, Today) + faults'
    <3>1. <<Cadence, closed.period>> \notin watermarks
      BY <1>1, <2>2 DEF IInv, WatermarkMeansPosted
    <3>2. now < closed.close + Settle[Cadence]
      BY <1>3, <3>1
    <3> HIDE DEF closed
    <3> QED BY <1>1, <1>2, <3>2
  <2>3. faults <= faults'
    BY <1>1, <1>2
  <2> QED BY <1>1, <2>1, <2>2, <2>3, TurnSkips
<1>4. CASE ~(\/ <<Cadence, closed.period>> \in watermarks
             \/ now < closed.close + Settle[Cadence])
  <2>1. work' = [work EXCEPT !.pc = "fetch", !.period = closed.period,
                             !.close = closed.close, !.at = now]
    BY <1>4 DEF Check
  <2> HIDE DEF closed
  <2>2. /\ work'.pc = "fetch" /\ work'.queue = work.queue /\ work'.period = closed.period
        /\ work'.close = closed.close /\ work'.at = now
    BY <1>1, <2>1 DEF TypeOK, Ticks
  <2>3. Cadence' = Cadence /\ LastClosed(Cadence)' = closed
    BY <1>1, <2>2 DEF closed, Cadence, LastClosed, Today
  <2>4. InstantInv'
    BY <1>1, <2>2, <2>3 DEF InstantInv
  <2>5. faults <= faults'
    BY <1>1, <1>2
  <2> QED BY <1>1, <2>2, <2>4, <2>5, StayingSkips
<1> QED BY <1>3, <1>4

LEMMA ObserveSkips == ASSUME IInv, IInv', SkipInv, Observe PROVE SkipInv'
<1> DEFINE c == Cadence
           seen == rollup[c][work.period]
           ready == seen.priced >= seen.count
<1>1. /\ TypeOK /\ c \in Cadences /\ work.pc = "fetch" /\ Kept
      /\ UNCHANGED <<now, lagged, due, posts, faults>>
  BY CadenceKnown DEF IInv, Observe, Kept
<1>2. /\ faults \in Nat /\ now \in Nat /\ Deadline(c, Today) \in Nat
      /\ LastClosed(c).close \in Nat /\ MaxDefer \in Nat
      /\ Deadline(c, Today) >= LastClosed(c).close + MaxDefer
  <2>1. faults \in Nat /\ now \in Nat /\ MaxDefer \in Nat
    BY <1>1, ConstantTypes, SummaryBoundsAssumption DEF TypeOK
  <2> QED BY <1>1, <2>1, DeadlineBounds, LastClosedKnown
<1>3. faults <= faults'
  BY <1>1, <1>2
<1>4. CASE ready \/ work.at >= work.close + MaxDefer
  <2>1. work' = [work EXCEPT !.pc = "send", !.figures = seen, !.incomplete = ~ready]
    BY <1>4 DEF Observe
  <2> HIDE DEF seen, ready
  <2>2. /\ work'.pc = "send" /\ work'.queue = work.queue /\ work'.period = work.period
        /\ work'.close = work.close /\ work'.at = work.at
    BY <1>1, <2>1 DEF TypeOK, Ticks
  <2>3. Cadence' = Cadence /\ LastClosed(Cadence)' = LastClosed(Cadence)
    BY <1>1, <2>2 DEF Cadence, LastClosed, Today
  <2>4. InstantInv'
    BY <1>1, <2>2, <2>3 DEF SkipInv, InstantInv
  <2> QED BY <1>1, <1>3, <2>2, <2>4, StayingSkips
<1>5. CASE ~(ready \/ work.at >= work.close + MaxDefer)
  <2>1. work' = NextCadence
    BY <1>5 DEF Observe
  <2>2. ASSUME ~lagged PROVE now + 1 <= Deadline(c, Today) + faults'
    <3>1. work.at = now /\ work.close = LastClosed(c).close
      BY <1>1, <2>2 DEF SkipInv, InstantInv
    <3>2. ~(now >= LastClosed(c).close + MaxDefer)
      BY <1>5, <3>1
    <3> QED BY <1>1, <1>2, <3>2
  <2> QED BY <1>1, <1>3, <2>1, <2>2, TurnSkips
<1> QED BY <1>4, <1>5

\* A post more leaves no period without one.
LEMMA ShownKept ==
    ASSUME IInv, work.pc = "send", posts' = Shown \/ posts' = posts
    PROVE  Kept
<1> SUFFICES ASSUME posts' = Shown, NEW c \in Cadences, NEW p \in Periods(c),
                    posts[c][p] # <<>>
             PROVE  posts'[c][p] # <<>>
  BY DEF Kept
<1> DEFINE post == [at |-> now, figures |-> work.figures, incomplete |-> work.incomplete]
           more == Append(posts[Cadence][work.period], post)
<1>1. /\ Cadence \in Cadences /\ work.period \in Periods(Cadence)
      /\ DOMAIN posts = Cadences /\ \A d \in Cadences : posts[d] \in [Periods(d) -> Seq(Shows)]
  BY CadenceKnown DEF IInv, TypeOK
<1>2. post \in Shows
  BY DEF IInv, TypeOK, Ticks, Shows
<1>3. posts' = [posts EXCEPT ![Cadence][work.period] = more]
  BY DEF Shown
<1> HIDE DEF post
<1>4. more \in Seq(Shows) /\ more # <<>>
  <2>1. posts[Cadence][work.period] \in Seq(Shows)
    BY <1>1
  <2> QED BY <1>2, <2>1
<1> HIDE DEF more
<1>5. posts'[c][p] = IF c = Cadence /\ p = work.period THEN more ELSE posts[c][p]
  BY <1>1, <1>3, <1>4, OneEntry
<1> QED BY <1>4, <1>5

LEMMA SendSkips == ASSUME IInv, IInv', SkipInv, Send \/ SendFails PROVE SkipInv'
<1>1. /\ TypeOK /\ work.pc = "send" /\ Kept /\ UNCHANGED <<now, lagged, due>>
  BY ShownKept DEF IInv, Send, SendFails
<1>2. CASE Send
  <2>1. work' = [work EXCEPT !.pc = "mark"]
    BY <1>2 DEF Send
  <2>2. /\ work'.pc = "mark" /\ work'.queue = work.queue /\ work'.period = work.period
        /\ work'.close = work.close /\ work'.at = work.at
    BY <1>1, <2>1 DEF TypeOK, Ticks
  <2>3. Cadence' = Cadence /\ LastClosed(Cadence)' = LastClosed(Cadence)
    BY <1>1, <2>2 DEF Cadence, LastClosed, Today
  <2>4. InstantInv'
    BY <1>1, <2>2, <2>3 DEF SkipInv, InstantInv
  <2>5. faults <= faults'
    BY <1>1, <1>2, SummaryBoundsAssumption DEF TypeOK, Send
  <2> QED BY <1>1, <2>2, <2>4, <2>5, StayingSkips
<1>3. CASE SendFails /\ work' = NextCadence
  BY <1>1, <1>3, FaultedTurnSkips DEF SendFails
<1>4. CASE SendFails /\ work' = work
  <2>1. Cadence' = Cadence /\ LastClosed(Cadence)' = LastClosed(Cadence)
    BY <1>1, <1>4 DEF Cadence, LastClosed, Today
  <2>2. InstantInv'
    BY <1>1, <1>4, <2>1 DEF SkipInv, InstantInv
  <2>3. faults <= faults'
    BY <1>1, <1>4, SummaryBoundsAssumption DEF TypeOK, SendFails
  <2> QED BY <1>1, <1>4, <2>2, <2>3, StayingSkips
<1> QED BY <1>2, <1>3, <1>4 DEF SendFails

LEMMA MarkSkips == ASSUME IInv, IInv', SkipInv, Mark PROVE SkipInv'
<1>1. /\ TypeOK /\ work.pc = "mark" /\ Kept /\ work' = NextCadence
      /\ UNCHANGED <<now, lagged, due, posts, faults>>
  BY DEF IInv, Mark, Kept
<1>2. faults <= faults'
  BY <1>1, SummaryBoundsAssumption DEF TypeOK
<1>3. ~lagged => posts'[Cadence][LastClosed(Cadence).period] # <<>>
  BY <1>1 DEF IInv, MarkInv, SkipInv, InstantInv
<1> QED BY <1>1, <1>2, <1>3, TurnSkips

LEMMA CallFailsSkips == ASSUME IInv, IInv', SkipInv, CallFails PROVE SkipInv'
<1>1. /\ work.pc # "idle" /\ Kept /\ work' = NextCadence /\ faults' = faults + 1
      /\ UNCHANGED <<now, lagged, due>>
  BY DEF CallFails, Kept
<1> QED BY <1>1, FaultedTurnSkips

\* A new tick, and the one after a restart, has every cadence to look at again.
LEMMA WholeTickSkips == ASSUME IInv, IInv', SkipInv, StartTick \/ Crash PROVE SkipInv'
<1>1. Kept /\ UNCHANGED <<now, lagged>>
  BY DEF StartTick, Crash, Kept
<1>2. faults <= faults'
  BY SummaryBoundsAssumption DEF IInv, TypeOK, StartTick, Crash
<1>3. InstantInv'
  BY DEF StartTick, Crash, Idle, Tick, InstantInv
<1>4. ASSUME NEW c \in Cadences PROVE ~Looked(c)'
  <2>1. CASE StartTick
    <3>1. PICK i \in DOMAIN Order : Order[i] = c
      BY DEF Cadences
    <3>2. work'.pc = "check" /\ work'.queue = Order
      BY <2>1 DEF StartTick, Tick
    <3> QED BY <3>1, <3>2 DEF Looked
  <2>2. CASE Crash
    BY <2>2 DEF Crash, Looked
  <2> QED BY <2>1, <2>2
<1> QED BY <1>1, <1>2, <1>3, <1>4, SkipFrame

\* Whatever the explorer counts and prices.
LEMMA QuietSkips ==
    ASSUME IInv, IInv', SkipInv, UNCHANGED <<now, due, work, posts, faults, lagged>>
    PROVE  SkipInv'
<1>1. Kept
  BY DEF Kept
<1>2. faults <= faults'
  BY SummaryBoundsAssumption DEF IInv, TypeOK
<1>3. InstantInv'
  BY DEF SkipInv, InstantInv, Cadence, LastClosed, Today
<1> QED BY <1>1, <1>2, <1>3, StayingSkips

LEMMA InitSkips == Init => SkipInv
<1> SUFFICES ASSUME Init PROVE SkipInv
  OBVIOUS
<1>1. now = StartTime /\ due /\ faults = 0 /\ StartTime \in Nat
  BY TimeAssumption DEF Init
<1>2. TypeOK
  BY InitInv DEF IInv
<1>3. InstantInv
  BY DEF Init, Idle, Tick, InstantInv
<1>4. PatienceInv
  <2> SUFFICES ASSUME NEW c \in Cadences
               PROVE  now + (IF Looked(c) THEN 1 ELSE 0) <= Deadline(c, Today) + faults
    BY DEF PatienceInv
  <2>1. ~Looked(c)
    BY <1>1 DEF Looked
  <2>2. Deadline(c, Today) \in Nat /\ Deadline(c, Today) >= StartTime
    BY <1>2, DeadlineBounds
  <2> QED BY <1>1, <2>1, <2>2
<1>5. NoPeriodSkipped
  <2> SUFFICES ASSUME NEW c \in Cadences, NEW p \in Periods(c),
                      LastClosed(c).period <= p, p < LastClosed(c).period
               PROVE  FALSE
    BY <1>1 DEF NoPeriodSkipped, LastClosed, Today
  <2>1. LastClosed(c).period \in Nat
    BY <1>2, LastClosedKnown
  <2>2. p \in Int
    BY PeriodsAreDays
  <2> QED BY <2>1, <2>2
<1> QED BY <1>3, <1>4, <1>5 DEF SkipInv

-----------------------------------------------------------------------------
(* The theorems.                                                           *)

\* Every variable keeps its type: a tick works on a period that its cadence has.
THEOREM Types == Spec => []TypeOK
<1>1. IInv => TypeOK
  BY DEF IInv
<1>. QED BY <1>1, Invariance, PTL

\* summary_poster marks what it posted and nothing else, and posts nothing again unless
\* a post may have been shown without a record: for every choice of cadences, settlement
\* times and deadline, and for failures and crashes anywhere.
THEOREM MarksMatchPosts == Spec => []WatermarksMatchPosts
<1>1. IInv => PostedOncePerPeriod
  <2> SUFFICES ASSUME IInv, NEW c \in Cadences, NEW p \in Periods(c)
               PROVE  Len(posts[c][p]) <= 1 + lapses[c][p]
    BY DEF PostedOncePerPeriod
  <2>1. Len(posts[c][p]) \in Nat /\ lapses[c][p] \in Nat
    BY DEF IInv, TypeOK
  <2>2. IF Recorded(c, p) THEN Len(posts[c][p]) <= lapses[c][p] + 1
        ELSE Len(posts[c][p]) <= lapses[c][p]
    BY DEF IInv, OnceInv
  <2> QED BY <2>1, <2>2
<1>2. IInv => WatermarksMatchPosts
  BY <1>1 DEF IInv, WatermarksMatchPosts
<1>. QED BY <1>2, Invariance, PTL

\* What readers see is honest, of every cadence and on every date: a summary comes after
\* its period's true end and the settlement floor, and says "incomplete" exactly when
\* tickets are unpriced, which is only past the deadline.
THEOREM SummariesHonest == Spec => []PostsHonest
<1>1. IInv => PostsHonest
  BY DEF IInv
<1>. QED BY <1>1, Invariance, PTL

\* With room for the retries no period is skipped: the first tick past its deadline that
\* is spared by faults posts it, and comes before the next period closes.  The settings
\* of summary_skipped leave no room, and a period is.
THEOREM NoneSkipped ==
    ASSUME RoomForRetries
    PROVE  Spec => []NoPeriodSkipped
<1>1. ASSUME IInv, IInv', SkipInv, [Next]_vars PROVE SkipInv'
  <2>1. ASSUME NEW c \in Cadences, CountTicket(c) \/ PriceTicket(c) PROVE SkipInv'
    BY <1>1, <2>1, QuietSkips DEF CountTicket, PriceTicket
  <2>2. CASE PosterNext
    BY <1>1, <2>2, WholeTickSkips, CheckSkips, ObserveSkips, SendSkips, MarkSkips DEF PosterNext
  <2>3. CASE Advance
    BY <1>1, <2>3, AdvanceSkips
  <2>4. CASE SendFails \/ CallFails \/ Crash
    BY <1>1, <2>4, SendSkips, CallFailsSkips, WholeTickSkips
  <2>5. CASE UNCHANGED vars
    BY <1>1, <2>5, QuietSkips DEF vars
  <2> QED BY <1>1, <2>1, <2>2, <2>3, <2>4, <2>5 DEF Next
<1>2. SkipInv => NoPeriodSkipped
  BY DEF SkipInv
<1> QED BY <1>1, <1>2, InitSkips, Invariance, PTL DEF Spec
==============================================================================
