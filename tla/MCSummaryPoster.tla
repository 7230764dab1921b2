--------------------------- MODULE MCSummaryPoster ---------------------------
(***************************************************************************)
(* Small instances of SummaryPoster for TLC: from the morning of a leap    *)
(* day, with a third or a half of a day as the poll interval.              *)
(***************************************************************************)
EXTENDS SummaryPoster, TLC

LeapDay == FromYmd(2024, 2, 29)

\* The day and the month close at the same midnight, after three units.
DayAndMonth == <<"daily", "monthly">>
DayAndMonthSettle == ("daily" :> 0 @@ "monthly" :> 1)
LeapDayStart == 3 * LeapDay
LeapDayEnd == 3 * LeapDay + 4

\* One cadence alone, days of two units.
DayOnly == <<"daily">>
DayOnlySettle == ("daily" :> 1)
DayOnlyStart == 2 * LeapDay
DayOnlyEnd == 2 * LeapDay + 5

\* The settings of the first leave room for a retry, those of the second do not.
ASSUME RoomInTheFirst == RoomForRetries <=> Order = DayAndMonth
=============================================================================
