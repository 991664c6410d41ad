----------------------------- MODULE LocalCalendar -----------------------------
(***************************************************************************)
(* Local dates and hours of the business time zone (app/time_utils.py).    *)
(* An instant is a number of hours in UTC, a zone a record of its UTC      *)
(* offsets before and after the one clock change in view.  Day 0 is a      *)
(* Monday.  Minutes are left out: every rule here cuts at whole hours.     *)
(***************************************************************************)
EXTENDS Integers

Offset(z, t) == IF t < z.switch THEN z.before ELSE z.after

\* astimezone: the local clock at an instant, in hours since day 0.
Wall(z, t) == t + Offset(z, t)

LocalDay(z, t) == Wall(z, t) \div 24
LocalHour(z, t) == Wall(z, t) % 24

\* The clock changes by an hour at most, at night.
IsZone(z) ==
    /\ z \in [before : Int, after : Int, switch : Int]
    /\ z.after - z.before \in {-1, 0, 1}
    /\ LocalHour(z, z.switch - 1) \in 0..4

Later(a, b) == IF a > b THEN a ELSE b

\* combine(day, hour, zone).astimezone(UTC) with fold = 0: an hour that is skipped
\* counts with the offset before the change, one that is repeated is the first.
ToUTC(z, day, hour) ==
    LET w == 24 * day + hour
    IN IF w < z.switch + Later(z.before, z.after) THEN w - z.before ELSE w - z.after

NextDayEmailAt(z, t, hour) == ToUTC(z, LocalDay(z, t) + 1, hour)

Saturday == 5
Weekday(day) == day % 7

\* Variant: the coming Saturday, which may be the day of the first e-mail.
SaturdayOnOrAfter(z, t, hour) ==
    ToUTC(z, LocalDay(z, t) + ((Saturday - Weekday(LocalDay(z, t))) % 7), hour)

FirstSaturdayAfter(z, t, hour) ==
    LET days == (Saturday - Weekday(LocalDay(z, t))) % 7
    IN ToUTC(z, LocalDay(z, t) + (IF days = 0 THEN 7 ELSE days), hour)

\* Variant: the window includes its last hour.
WithinOrAtLocalHours(z, t, start, end) == start <= LocalHour(z, t) /\ LocalHour(z, t) <= end

WithinLocalHours(z, t, start, end) == start <= LocalHour(z, t) /\ LocalHour(z, t) < end

\* Variant: the hours to the next opening are counted with today's offset.
NextNoticeSameOffset(z, t, start, end) ==
    IF WithinLocalHours(z, t, start, end) THEN t ELSE t + ((start - LocalHour(z, t)) % 24)

NextServiceNoticeAt(z, t, start, end) ==
    IF WithinLocalHours(z, t, start, end) THEN t
    ELSE ToUTC(z, LocalDay(z, t) + (IF LocalHour(z, t) < start THEN 0 ELSE 1), start)
================================================================================
