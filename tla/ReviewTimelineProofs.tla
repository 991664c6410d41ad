-------------------------- MODULE ReviewTimelineProofs -------------------------
(***************************************************************************)
(* The calendar rules for every zone and instant, and the window for every *)
(* timeline.  The local clock never goes back by more than it has advanced *)
(* (WallIsMonotone), and an hour of the day exists once (ToUTCIsInverse):  *)
(* the rest is arithmetic with 24 and 7.  While the worker runs every hour *)
(* a message goes out at its first opening (PunctualInv), from which texts *)
(* are on time and a campaign keeps its calendar.                          *)
(***************************************************************************)
EXTENDS ReviewTimeline, TLAPS

\* The clock of a zone is an integer, and its day and hour are those of the clock.
LEMMA WallParts ==
    ASSUME NEW z, IsZone(z), NEW t \in Int
    PROVE  /\ Wall(z, t) \in Int
           /\ LocalDay(z, t) \in Int
           /\ LocalHour(z, t) \in 0..23
           /\ Wall(z, t) = 24 * LocalDay(z, t) + LocalHour(z, t)
<1>1. Wall(z, t) \in Int BY DEF IsZone, Wall, Offset
<1>2. QED BY <1>1 DEF LocalDay, LocalHour

\* A later instant has no earlier local clock: the clock goes back by one hour at
\* most, in an hour in which it would have advanced by one.
LEMMA WallIsMonotone ==
    ASSUME NEW z, IsZone(z), NEW t \in Int, NEW v \in Int, t <= v
    PROVE  Wall(z, t) <= Wall(z, v)
BY DEF IsZone, Wall, Offset

\* A local hour of the day is an instant with that local day and hour, which no
\* earlier instant has.
LEMMA ToUTCIsInverse ==
    ASSUME NEW z, IsZone(z), NEW day \in Int, NEW hour \in 6..23
    PROVE  /\ ToUTC(z, day, hour) \in Int
           /\ LocalDay(z, ToUTC(z, day, hour)) = day
           /\ LocalHour(z, ToUTC(z, day, hour)) = hour
           /\ \A v \in Int : v < ToUTC(z, day, hour) => Wall(z, v) < 24 * day + hour
<1> DEFINE w == 24 * day + hour
           u == ToUTC(z, day, hour)
<1>1. /\ z.before \in Int /\ z.after \in Int /\ z.switch \in Int
      /\ z.after - z.before \in {-1, 0, 1}
  BY DEF IsZone
<1>2. z.switch + z.before # w
  <2>1. (z.switch - 1 + z.before) % 24 \in 0..4
    BY <1>1 DEF IsZone, LocalHour, Wall, Offset
  <2>2. (24 * day + hour - 1) % 24 = hour - 1 OBVIOUS
  <2>3. QED BY <2>1, <2>2, <1>1
<1>3. u \in Int /\ Wall(z, u) = w
  BY <1>1, <1>2 DEF ToUTC, Later, Wall, Offset
<1>4. LocalDay(z, u) = day /\ LocalHour(z, u) = hour
  BY <1>3 DEF LocalDay, LocalHour
<1>5. ASSUME NEW v \in Int, v < u
      PROVE  Wall(z, v) < w
  <2>1. Wall(z, v) # w
    BY <1>1, <1>2, <1>5 DEF ToUTC, Later, Wall, Offset
  <2>2. Wall(z, v) <= Wall(z, u)
    BY <1>3, <1>5, WallIsMonotone
  <2>3. Wall(z, v) \in Int /\ w \in Int
    BY WallParts
  <2>4. QED BY <2>1, <2>2, <2>3, <1>3
<1>6. QED BY <1>3, <1>4, <1>5

\* The second e-mail is due on a Saturday, at the local hour asked for, one to seven
\* local days after the first: strictly after it, in every zone and on either side of
\* a change of the clock.
THEOREM FirstSaturdayIsStrictlyAfter ==
    ASSUME NEW z, IsZone(z), NEW t \in Int, NEW hour \in 6..23
    PROVE  LET s == FirstSaturdayAfter(z, t, hour)
           IN /\ Weekday(LocalDay(z, s)) = Saturday
              /\ LocalHour(z, s) = hour
              /\ LocalDay(z, s) - LocalDay(z, t) \in 1..7
              /\ t < s
<1> DEFINE today == LocalDay(z, t)
           days == (Saturday - Weekday(today)) % 7
           ahead == IF days = 0 THEN 7 ELSE days
           s == FirstSaturdayAfter(z, t, hour)
<1>1. today \in Int BY WallParts
<1>2. ahead \in 1..7 /\ (today + ahead) % 7 = Saturday
  BY <1>1 DEF Weekday, Saturday
<1>3. s = ToUTC(z, today + ahead, hour) BY DEF FirstSaturdayAfter
<1>4. s \in Int /\ LocalDay(z, s) = today + ahead /\ LocalHour(z, s) = hour
  <2>1. today + ahead \in Int /\ hour \in 6..23 BY <1>1, <1>2
  <2> HIDE DEF today, ahead, s
  <2>2. QED BY <2>1, <1>3, ToUTCIsInverse
<1>5. t < s
  <2>1. Wall(z, t) < Wall(z, s)
    <3> HIDE DEF s, ahead
    <3>1. /\ Wall(z, t) = 24 * today + LocalHour(z, t) /\ LocalHour(z, t) \in 0..23
          /\ Wall(z, s) = 24 * LocalDay(z, s) + LocalHour(z, s) /\ LocalHour(z, s) \in 0..23
      BY <1>4, WallParts
    <3> HIDE DEF today
    <3>2. QED BY <3>1, <1>1, <1>2, <1>4
  <2>2. QED BY <2>1, <1>4, WallIsMonotone, WallParts
<1>6. QED BY <1>1, <1>2, <1>4, <1>5 DEF Weekday

\* The time the administration page gives a notice is the first instant from the
\* request on that lies in the window, whatever the clock does in between.
THEOREM NoticeWaitsForTheFirstOpening ==
    ASSUME NEW z, IsZone(z), NEW t \in Int,
           NEW start \in 6..23, NEW end \in (start + 1)..24
    PROVE  LET u == NextServiceNoticeAt(z, t, start, end)
           IN /\ u \in Int
              /\ t <= u
              /\ WithinLocalHours(z, u, start, end)
              /\ \A v \in Int : t <= v /\ v < u => ~WithinLocalHours(z, v, start, end)
<1> DEFINE u == NextServiceNoticeAt(z, t, start, end)
           today == LocalDay(z, t)
           day == today + (IF LocalHour(z, t) < start THEN 0 ELSE 1)
<1>1. CASE WithinLocalHours(z, t, start, end)
  BY <1>1 DEF NextServiceNoticeAt
<1>2. CASE ~WithinLocalHours(z, t, start, end)
  <2>1. /\ Wall(z, t) = 24 * today + LocalHour(z, t)
        /\ today \in Int /\ LocalHour(z, t) \in 0..23
    BY WallParts
  <2>2. u = ToUTC(z, day, start) BY <1>2 DEF NextServiceNoticeAt
  <2>3. day \in Int BY <2>1
  <2>4. /\ u \in Int /\ LocalDay(z, u) = day /\ LocalHour(z, u) = start
        /\ \A v \in Int : v < u => Wall(z, v) < 24 * day + start
    <3> HIDE DEF day, u
    <3>1. QED BY <2>2, <2>3, ToUTCIsInverse
  <2>5. Wall(z, u) = 24 * day + start
    <3> HIDE DEF day, u
    <3>1. QED BY <2>4, WallParts
  <2>6. LocalHour(z, t) < start \/ end <= LocalHour(z, t)
    BY <1>2, <2>1 DEF WithinLocalHours
  <2>7. Wall(z, t) < Wall(z, u)
    BY <2>1, <2>5, <2>6
  <2>8. t <= u
    <3> HIDE DEF u
    <3>1. QED BY <2>4, <2>7, WallIsMonotone, WallParts
  <2>9. WithinLocalHours(z, u, start, end)
    BY <2>4 DEF WithinLocalHours
  <2>10. ASSUME NEW v \in Int, t <= v, v < u
         PROVE  ~WithinLocalHours(z, v, start, end)
    <3>1. Wall(z, t) <= Wall(z, v) BY <2>10, WallIsMonotone
    <3>2. Wall(z, v) < 24 * day + start BY <2>10, <2>4
    <3>3. /\ Wall(z, v) = 24 * LocalDay(z, v) + LocalHour(z, v)
          /\ LocalDay(z, v) \in Int /\ LocalHour(z, v) \in 0..23
      BY WallParts
    <3>4. LocalHour(z, v) < start \/ end <= LocalHour(z, v)
      BY <3>1, <3>2, <3>3, <2>1, <2>6
    <3>5. QED BY <3>3, <3>4 DEF WithinLocalHours
  <2>11. QED BY <2>4, <2>8, <2>9, <2>10
<1>3. QED BY <1>1, <1>2

-------------------------------------------------------------------------------
TimelineTypes ==
    /\ zone \in Zones
    /\ now \in Int
    /\ due \in [Kinds -> Int]
    /\ state \in [Kinds -> {"absent", "queued", "claimed", "sent"}]
    /\ sentAt \in [Kinds -> Int]
    /\ over \in BOOLEAN

\* A claimed message is due, and the run that holds it began in the window of its
\* kind, in this hour or, when the run has lasted past the full hour, in the last.
ClaimedInWindow ==
    \A k \in Claimed :
        /\ due[k] <= now
        /\ StartHour(k) <= LocalHour(zone, now)
        /\ LocalHour(zone, now) <= WindowEnd
        /\ LocalHour(zone, now) = WindowEnd => over

TimelineInv == TimelineTypes /\ ClaimedInWindow /\ SentInWindow

LEMMA HoursOfKinds ==
    \A k \in Kinds : StartHour(k) \in {PollStart, ReviewStart}
BY DEF StartHour

\* Every time the schedule gives is an instant.
LEMMA ScheduleIsInt ==
    ASSUME zone \in Zones, NEW t \in Int
    PROVE  /\ ReviewMessageSchedule(t) \in [Kinds -> Int]
           /\ NextServiceNoticeAt(zone, t, ReviewStart, WindowEnd) \in Int
<1>1. IsZone(zone) BY TimelineConstants
<1>2. EmailHour \in 6..23 /\ SmsDelay \in Int
  BY TimelineConstants DEF ReviewStart, WindowEnd
<1>3. NextDayEmailAt(zone, t, EmailHour) \in Int
  <2>1. LocalDay(zone, t) + 1 \in Int BY <1>1, WallParts
  <2>2. QED BY <1>1, <1>2, <2>1, ToUTCIsInverse DEF NextDayEmailAt
<1>4. ASSUME NEW e \in Int PROVE FirstSaturdayAfter(zone, e, EmailHour) \in Int
  <2> DEFINE days == (Saturday - Weekday(LocalDay(zone, e))) % 7
             ahead == IF days = 0 THEN 7 ELSE days
  <2>1. LocalDay(zone, e) \in Int BY <1>1, WallParts
  <2>2. LocalDay(zone, e) + ahead \in Int BY <2>1 DEF Saturday, Weekday
  <2>3. FirstSaturdayAfter(zone, e, EmailHour) = ToUTC(zone, LocalDay(zone, e) + ahead, EmailHour)
    BY DEF FirstSaturdayAfter
  <2> HIDE DEF ahead
  <2>4. ToUTC(zone, LocalDay(zone, e) + ahead, EmailHour) \in Int
    BY <1>1, <1>2, <2>2, ToUTCIsInverse
  <2>5. QED BY <2>3, <2>4
<1>5. ReviewMessageSchedule(t) \in [Kinds -> Int]
  BY <1>2, <1>3, <1>4 DEF ReviewMessageSchedule
<1>6. NextServiceNoticeAt(zone, t, ReviewStart, WindowEnd) \in Int
  BY <1>1, NoticeWaitsForTheFirstOpening DEF ReviewStart, WindowEnd
<1>7. QED BY <1>5, <1>6

\* Within the window of a kind the local clock advances hour by hour: the zone
\* changes its offset at night only.
LEMMA NextHour ==
    ASSUME NEW z, IsZone(z), NEW t \in Int, LocalHour(z, t) \in 6..22
    PROVE  LocalHour(z, t + 1) = LocalHour(z, t) + 1
<1>1. t # z.switch - 1 BY DEF IsZone
<1>2. Wall(z, t + 1) = Wall(z, t) + 1
  BY <1>1 DEF Wall, Offset, IsZone
<1>3. QED BY <1>2, WallParts DEF LocalHour

LEMMA TimelineInit == Init => TimelineInv
<1> SUFFICES ASSUME Init PROVE TimelineInv
  OBVIOUS
<1>1. TimelineTypes
  <2>1. Never \in Int /\ FirstHour \in Int BY TimelineConstants DEF Never
  <2>2. over \in BOOLEAN BY DEF Init
  <2>3. zone \in Zones /\ now \in Int BY <2>1 DEF Init
  <2>4. due \in [Kinds -> Int] /\ sentAt \in [Kinds -> Int] BY <2>1 DEF Init
  <2>5. state \in [Kinds -> {"absent", "queued", "claimed", "sent"}] BY DEF Init
  <2>6. QED BY <2>2, <2>3, <2>4, <2>5 DEF TimelineTypes
<1>2. \A k \in Kinds : state[k] = "absent"
  BY DEF Init
<1>3. QED BY <1>1, <1>2 DEF TimelineInv, ClaimedInWindow, Claimed, SentInWindow, Sent

LEMMA EnqueueKeeps ==
    ASSUME TimelineInv, NEW kinds, NEW at \in [Kinds -> Int], Enqueue(kinds, at)
    PROVE  TimelineInv'
<1>1. TimelineTypes'
  BY TimelineConstants DEF TimelineInv, TimelineTypes, Enqueue, Never
<1>2. \A k \in Kinds : state'[k] \in {"queued", "absent"}
  BY DEF Enqueue
<1>3. QED BY <1>1, <1>2 DEF TimelineInv, ClaimedInWindow, Claimed, SentInWindow, Sent

LEMMA ProcessKeeps == TimelineInv /\ ProcessDueMessages => TimelineInv'
<1> SUFFICES ASSUME TimelineInv, ProcessDueMessages PROVE TimelineInv'
  OBVIOUS
<1>1. TimelineTypes'
  BY DEF TimelineInv, TimelineTypes, ProcessDueMessages
<1>2. ClaimedInWindow'
  <2>1. \A k \in Claimed' : k \in Claimable
    BY DEF ProcessDueMessages, Claimed
  <2>2. LocalHour(zone, now) \in 0..23
    BY TimelineConstants, WallParts DEF TimelineInv, TimelineTypes
  <2>3. QED
    BY <2>1, <2>2 DEF ClaimedInWindow, ProcessDueMessages, Claimable, AllowedMessageKinds,
                      WithinLocalHours, StartHour, WindowEnd, PollStart, ReviewStart
<1>3. SentInWindow'
  BY DEF TimelineInv, SentInWindow, Sent, ProcessDueMessages, Claimable
<1>4. QED BY <1>1, <1>2, <1>3 DEF TimelineInv

LEMMA SendKeeps ==
    ASSUME TimelineInv, NEW k \in Kinds, SendMessage(k)
    PROVE  TimelineInv'
<1>1. TimelineTypes'
  BY DEF TimelineInv, TimelineTypes, SendMessage
<1>2. k \in Claimed /\ Claimed' = Claimed \ {k}
  BY DEF SendMessage, Claimed, TimelineInv, TimelineTypes
<1>3. ClaimedInWindow'
  BY <1>2 DEF TimelineInv, ClaimedInWindow, SendMessage
<1>4. SentInWindow'
  <2>1. LocalHour(zone, now) \in 0..23
    BY TimelineConstants, WallParts DEF TimelineInv, TimelineTypes
  <2>2. SUFFICES ASSUME NEW m \in Sent'
                 PROVE  /\ sentAt'[m] >= due'[m]
                        /\ LocalHour(zone', sentAt'[m]) \in StartHour(m)..WindowEnd
    BY DEF SentInWindow
  <2>3. CASE m = k
    <3>1. sentAt'[m] = now /\ due' = due /\ zone' = zone
      BY <2>3 DEF SendMessage, TimelineInv, TimelineTypes
    <3>2. StartHour(k) \in Int /\ WindowEnd \in Int /\ due[k] \in Int /\ now \in Int
      BY HoursOfKinds DEF PollStart, ReviewStart, WindowEnd, TimelineInv, TimelineTypes
    <3>3. /\ due[k] <= now
          /\ StartHour(k) <= LocalHour(zone, now)
          /\ LocalHour(zone, now) <= WindowEnd
      BY <1>2 DEF TimelineInv, ClaimedInWindow
    <3>4. QED BY <2>1, <2>3, <3>1, <3>2, <3>3
  <2>4. CASE m # k
    <3>1. m \in Sent /\ sentAt'[m] = sentAt[m] /\ due' = due /\ zone' = zone
      BY <2>4 DEF SendMessage, TimelineInv, TimelineTypes, Sent
    <3>2. QED BY <3>1 DEF TimelineInv, SentInWindow
  <2>5. QED BY <2>3, <2>4
<1>5. QED BY <1>1, <1>3, <1>4 DEF TimelineInv

LEMMA TickKeeps == TimelineInv /\ Tick => TimelineInv'
<1> SUFFICES ASSUME TimelineInv, Tick PROVE TimelineInv'
  OBVIOUS
<1>1. TimelineTypes'
  BY DEF TimelineInv, TimelineTypes, Tick
<1>2. ClaimedInWindow'
  <2> SUFFICES ASSUME NEW k \in Claimed'
               PROVE  /\ due'[k] <= now'
                      /\ StartHour(k) <= LocalHour(zone', now')
                      /\ LocalHour(zone', now') <= WindowEnd
                      /\ LocalHour(zone', now') = WindowEnd => over'
    BY DEF ClaimedInWindow
  <2>1. k \in Claimed /\ over' = TRUE /\ zone' = zone /\ now' = now + 1 /\ due' = due
    BY DEF Tick, Claimed
  <2>2. k \in Kinds /\ due[k] \in Int /\ now \in Int /\ IsZone(zone)
    BY <2>1, TimelineConstants DEF Claimed, TimelineInv, TimelineTypes
  <2>3. LocalHour(zone, now) \in 0..23
    BY <2>2, WallParts
  <2>4. /\ due[k] <= now
        /\ StartHour(k) <= LocalHour(zone, now)
        /\ LocalHour(zone, now) <= WindowEnd
        /\ LocalHour(zone, now) # WindowEnd
    BY <2>1 DEF TimelineInv, ClaimedInWindow, Tick
  <2>5. StartHour(k) \in {6, 9} /\ WindowEnd = 19
    BY <2>2, HoursOfKinds DEF PollStart, ReviewStart, WindowEnd
  <2>6. LocalHour(zone, now + 1) = LocalHour(zone, now) + 1
    <3>1. LocalHour(zone, now) \in 6..22 BY <2>3, <2>4, <2>5
    <3>2. QED BY <2>2, <3>1, NextHour
  <2>7. QED BY <2>1, <2>2, <2>3, <2>4, <2>5, <2>6
<1>3. SentInWindow'
  BY DEF TimelineInv, SentInWindow, Sent, Tick
<1>4. QED BY <1>1, <1>2, <1>3 DEF TimelineInv

LEMMA TimelineAlways == Spec => []TimelineInv
<1>1. TimelineInv /\ [Next]_vars => TimelineInv'
  <2> SUFFICES ASSUME TimelineInv, [Next]_vars PROVE TimelineInv'
    OBVIOUS
  <2>1. CASE PollCompletedServices
    <3>1. ReviewMessageSchedule(now) \in [Kinds -> Int]
      BY ScheduleIsInt DEF TimelineInv, TimelineTypes
    <3>2. QED BY <2>1, <3>1, EnqueueKeeps DEF PollCompletedServices
  <2>2. CASE SendServiceNotice
    <3> DEFINE at == [k \in Kinds |-> NextServiceNoticeAt(zone, now, ReviewStart, WindowEnd)]
    <3>1. at \in [Kinds -> Int]
      BY ScheduleIsInt DEF TimelineInv, TimelineTypes
    <3>2. Enqueue({"service_notice_sms"}, at) BY <2>2 DEF SendServiceNotice
    <3> HIDE DEF at
    <3>3. QED BY <3>1, <3>2, EnqueueKeeps
  <2>3. CASE ProcessDueMessages BY <2>3, ProcessKeeps
  <2>4. CASE \E k \in Kinds : SendMessage(k) BY <2>4, SendKeeps
  <2>5. CASE Tick BY <2>5, TickKeeps
  <2>6. CASE UNCHANGED vars
    BY <2>6 DEF vars, TimelineInv, TimelineTypes, ClaimedInWindow, Claimed, SentInWindow, Sent
  <2>7. QED BY <2>1, <2>2, <2>3, <2>4, <2>5, <2>6 DEF Next
<1>2. QED BY TimelineInit, <1>1, PTL DEF Spec

\* No message goes out before it is due or outside the window of its kind, but for the
\* batch of a run that began in the window's last hour: for every zone, delay and hour
\* of the e-mails.
THEOREM SentInWindowHolds == Spec => []SentInWindow
<1>1. TimelineInv => SentInWindow BY DEF TimelineInv
<1>2. QED BY <1>1, TimelineAlways, PTL

-------------------------------------------------------------------------------
(* While the worker runs every hour.                                       *)

\* The first hour from an instant on in which the window of a kind is open.
FirstOpening(z, t, k) == NextServiceNoticeAt(z, t, StartHour(k), WindowEnd)
Opening(k) == FirstOpening(zone, due[k], k)

\* What was discovered is due as the schedule says, all of it or nothing; a notice is
\* due when the administration page says.
DueAsScheduled ==
    /\ \A k \in ReviewKinds :
          state[k] # "absent" =>
            /\ WithinLocalHours(zone, request, PollStart, WindowEnd)
            /\ \A m \in ReviewKinds :
                  state[m] # "absent" /\ due[m] = ReviewMessageSchedule(request)[m]
    /\ state["service_notice_sms"] # "absent" =>
          due["service_notice_sms"] = NextServiceNoticeAt(zone, request, ReviewStart, WindowEnd)

\* A queued message has not missed its first opening, a claimed one was claimed in it,
\* and a sent one went out in it or in the next hour.
Punctual ==
    \A k \in Kinds :
        /\ state[k] = "queued" => now <= Opening(k)
        /\ state[k] = "claimed" => now = Opening(k) + (IF over THEN 1 ELSE 0)
        /\ k \in Sent => sentAt[k] \in {Opening(k), Opening(k) + 1}

\* A message is taken up only when those whose window opened earlier are out.
InTurn ==
    \A a, b \in ReviewKinds :
        Opening(a) < Opening(b) /\ state[b] \in {"claimed", "sent"} => a \in Sent

PunctualInv ==
    /\ TimelineTypes
    /\ request \in Int
    /\ late \in Nat
    /\ FirstHour <= now
    /\ request = Never => \A k \in Kinds : state[k] = "absent"
    /\ over => Claimed # {}
    /\ DueAsScheduled
    /\ late = 0 => Punctual /\ InTurn

LEMMA OpeningIsFirst ==
    ASSUME NEW z, IsZone(z), NEW t \in Int, NEW k \in Kinds
    PROVE  /\ FirstOpening(z, t, k) \in Int
           /\ t <= FirstOpening(z, t, k)
           /\ WithinLocalHours(z, FirstOpening(z, t, k), StartHour(k), WindowEnd)
           /\ \A v \in Int :
                 t <= v /\ WithinLocalHours(z, v, StartHour(k), WindowEnd)
                    => FirstOpening(z, t, k) <= v
<1>1. StartHour(k) \in 6..23 /\ WindowEnd \in (StartHour(k) + 1)..24
  BY HoursOfKinds DEF PollStart, ReviewStart, WindowEnd
<1> DEFINE start == StartHour(k)
           end == WindowEnd
           u == NextServiceNoticeAt(z, t, start, end)
<1> HIDE DEF start, end, u
<1>2. /\ u \in Int
      /\ t <= u
      /\ WithinLocalHours(z, u, start, end)
      /\ \A v \in Int : t <= v /\ v < u => ~WithinLocalHours(z, v, start, end)
  <2>1. start \in 6..23 /\ end \in (start + 1)..24 BY <1>1 DEF start, end
  <2>2. QED BY <2>1, NoticeWaitsForTheFirstOpening DEF u
<1>3. \A v \in Int : t <= v /\ WithinLocalHours(z, v, start, end) => u <= v
  BY <1>2
<1>4. QED BY <1>2, <1>3 DEF FirstOpening, start, end, u

\* The window of a kind opens within a day.
LEMMA OpeningIsNear ==
    ASSUME NEW z, IsZone(z), NEW t \in Int, NEW k \in Kinds
    PROVE  FirstOpening(z, t, k) <= t + 24
<1> DEFINE u == FirstOpening(z, t, k)
           today == LocalDay(z, t)
           start == StartHour(k)
           day == today + (IF LocalHour(z, t) < start THEN 0 ELSE 1)
<1>1. CASE WithinLocalHours(z, t, start, WindowEnd)
  BY <1>1 DEF FirstOpening, NextServiceNoticeAt
<1>2. CASE ~WithinLocalHours(z, t, start, WindowEnd)
  <2>1. /\ Wall(z, t) = 24 * today + LocalHour(z, t)
        /\ today \in Int /\ LocalHour(z, t) \in 0..23
    BY WallParts
  <2>2. start \in {6, 9} /\ WindowEnd = 19
    BY HoursOfKinds DEF PollStart, ReviewStart, WindowEnd
  <2>3. u = ToUTC(z, day, start) BY <1>2 DEF FirstOpening, NextServiceNoticeAt
  <2>4. day \in Int BY <2>1
  <2>5. u \in Int /\ LocalDay(z, u) = day /\ LocalHour(z, u) = start
    <3> HIDE DEF day, u, start
    <3>1. start \in 6..23 BY <2>2
    <3>2. QED BY <2>3, <2>4, <3>1, ToUTCIsInverse
  <2>6. Wall(z, u) = 24 * day + start
    <3> HIDE DEF day, u, start
    <3>1. QED BY <2>5, WallParts
  <2>7. LocalHour(z, t) < start \/ 19 <= LocalHour(z, t)
    BY <1>2, <2>1, <2>2 DEF WithinLocalHours
  <2>8. Wall(z, u) - Wall(z, t) <= 14
    <3> HIDE DEF u
    <3>1. QED BY <2>1, <2>2, <2>6, <2>7
  <2>9. u <= t + 24
    <3> HIDE DEF u
    <3>1. QED BY <2>5, <2>8 DEF IsZone, Wall, Offset
  <2>10. QED BY <2>9
<1>3. QED BY <1>1, <1>2

\* FirstOpen is what the page and the worker compute.
LEMMA FirstOpenIsOpening ==
    ASSUME zone \in Zones, NEW t \in Int, NEW k \in Kinds
    PROVE  FirstOpen(k, t) = FirstOpening(zone, t, k)
<1>1. IsZone(zone) BY TimelineConstants
<1> DEFINE f == FirstOpening(zone, t, k)
           Open(u) == LocalHour(zone, u) \in StartHour(k)..(WindowEnd - 1)
           First(u) == Open(u) /\ (\A v \in t..(u - 1) : ~Open(v))
<1>2. StartHour(k) \in {6, 9} /\ WindowEnd = 19
  BY HoursOfKinds DEF PollStart, ReviewStart, WindowEnd
<1>3. ASSUME NEW u \in Int
      PROVE  Open(u) <=> WithinLocalHours(zone, u, StartHour(k), WindowEnd)
  <2>1. LocalHour(zone, u) \in Int BY <1>1, WallParts
  <2>2. QED BY <1>2, <2>1 DEF WithinLocalHours
<1>4. /\ f \in t..(t + 24)
      /\ Open(f)
      /\ \A v \in Int : t <= v /\ Open(v) => f <= v
  <2> HIDE DEF f, Open
  <2>1. /\ f \in Int /\ t <= f
        /\ WithinLocalHours(zone, f, StartHour(k), WindowEnd)
        /\ \A v \in Int : t <= v /\ WithinLocalHours(zone, v, StartHour(k), WindowEnd) => f <= v
    BY <1>1, OpeningIsFirst DEF f
  <2>2. f <= t + 24 BY <1>1, OpeningIsNear DEF f
  <2>3. QED BY <1>3, <2>1, <2>2
<1>5. First(f)
  <2> HIDE DEF f, Open
  <2>1. QED BY <1>4
<1>6. ASSUME NEW u \in t..(t + 24), First(u)
      PROVE  u = f
  <2> HIDE DEF f, Open
  <2>1. f <= u BY <1>4, <1>6
  <2>2. ~(f \in t..(u - 1)) BY <1>4, <1>6
  <2>3. QED BY <1>4, <2>1, <2>2
<1>7. FirstOpen(k, t) = CHOOSE u \in t..(t + 24) : First(u)
  BY DEF FirstOpen
<1>8. QED
  <2>1. f = CHOOSE u \in t..(t + 24) : First(u)
    <3> HIDE DEF f, First
    <3>1. QED BY <1>4, <1>5, <1>6
  <2>2. QED BY <1>7, <2>1

\* Nothing is due before it is discovered or asked for.
LEMMA ScheduleIsLater ==
    ASSUME zone \in Zones, NEW t \in Int
    PROVE  /\ \A k \in ReviewKinds : t <= ReviewMessageSchedule(t)[k]
           /\ t < ReviewMessageSchedule(t)["next_day_review_email"]
           /\ t <= NextServiceNoticeAt(zone, t, ReviewStart, WindowEnd)
<1> DEFINE email == NextDayEmailAt(zone, t, EmailHour)
           saturday == FirstSaturdayAfter(zone, email, EmailHour)
<1>1. IsZone(zone) BY TimelineConstants
<1>2. EmailHour \in 6..23 /\ SmsDelay \in Nat
  BY TimelineConstants DEF ReviewStart, WindowEnd
<1>3. email \in Int /\ t < email
  <2> DEFINE today == LocalDay(zone, t)
  <2>1. today \in Int /\ Wall(zone, t) = 24 * today + LocalHour(zone, t) /\ LocalHour(zone, t) \in 0..23
    BY <1>1, WallParts
  <2>2. email = ToUTC(zone, today + 1, EmailHour) BY DEF NextDayEmailAt
  <2> HIDE DEF email, today
  <2>3. email \in Int /\ LocalDay(zone, email) = today + 1 /\ LocalHour(zone, email) = EmailHour
    <3>1. today + 1 \in Int BY <2>1
    <3>2. QED BY <1>1, <1>2, <2>2, <3>1, ToUTCIsInverse
  <2>4. Wall(zone, email) = 24 * (today + 1) + EmailHour
    BY <1>1, <2>3, WallParts
  <2>5. Wall(zone, t) < Wall(zone, email) BY <1>2, <2>1, <2>4
  <2>6. QED BY <1>1, <2>3, <2>5, WallIsMonotone, WallParts
<1>4. email < saturday
  <2> HIDE DEF email
  <2>1. QED BY <1>1, <1>2, <1>3, FirstSaturdayIsStrictlyAfter
<1>5. saturday \in Int
  <2>1. /\ ReviewMessageSchedule(t) \in [Kinds -> Int]
        /\ "saturday_review_email" \in Kinds
        /\ ReviewMessageSchedule(t)["saturday_review_email"] = saturday
    BY ScheduleIsInt DEF ReviewMessageSchedule, Kinds, ReviewKinds
  <2>2. QED BY <2>1
<1>6. t <= NextServiceNoticeAt(zone, t, ReviewStart, WindowEnd)
  BY <1>1, NoticeWaitsForTheFirstOpening DEF ReviewStart, WindowEnd
<1>7. /\ \A k \in ReviewKinds : ReviewMessageSchedule(t)[k] \in {t, t + SmsDelay, email, saturday}
      /\ ReviewMessageSchedule(t)["next_day_review_email"] = email
  BY DEF ReviewMessageSchedule, Kinds, ReviewKinds
<1> HIDE DEF email, saturday
<1>8. QED BY <1>2, <1>3, <1>4, <1>5, <1>6, <1>7

\* What Opening promises of the message of one kind.
LEMMA OpeningFacts ==
    ASSUME TimelineTypes, NEW k \in Kinds
    PROVE  /\ Opening(k) \in Int
           /\ due[k] \in Int
           /\ due[k] <= Opening(k)
           /\ WithinLocalHours(zone, Opening(k), StartHour(k), WindowEnd)
           /\ due[k] <= now /\ WithinLocalHours(zone, now, StartHour(k), WindowEnd)
                 => Opening(k) <= now
<1>1. IsZone(zone) /\ due[k] \in Int /\ now \in Int
  BY TimelineConstants DEF TimelineTypes
<1>2. QED BY <1>1, OpeningIsFirst DEF Opening

LEMMA PunctualStart == Init => PunctualInv
<1> SUFFICES ASSUME Init PROVE PunctualInv
  OBVIOUS
<1>1. TimelineTypes BY TimelineInit DEF TimelineInv
<1>2. \A k \in Kinds : state[k] = "absent" BY DEF Init
<1>3. Claimed = {} /\ Sent = {} BY <1>2 DEF Claimed, Sent
<1>4. Punctual /\ InTurn
  BY <1>2, <1>3 DEF Punctual, InTurn, Kinds
<1>5. DueAsScheduled BY <1>2 DEF DueAsScheduled, Kinds
<1>6. request \in Int /\ late \in Nat /\ FirstHour <= now /\ ~over
  BY TimelineConstants DEF Init, Never
<1>7. QED BY <1>1, <1>2, <1>3, <1>4, <1>5, <1>6 DEF PunctualInv

LEMMA PunctualEnqueue ==
    ASSUME PunctualInv, TimelineTypes', NEW kinds, NEW at \in [Kinds -> Int],
           \A k \in kinds : now <= at[k],
           Enqueue(kinds, at), DueAsScheduled'
    PROVE  PunctualInv'
<1>1. \A k \in Kinds : state[k] = "absent"
  BY DEF PunctualInv, Enqueue
<1>2. ~over BY <1>1 DEF PunctualInv, Claimed
<1>3. \A k \in Kinds :
         /\ state'[k] \in {"queued", "absent"}
         /\ state'[k] = "queued" => k \in kinds /\ due'[k] = at[k]
  BY DEF Enqueue
<1>4. Claimed' = {} /\ Sent' = {} BY <1>3 DEF Claimed, Sent
<1>5. ASSUME NEW k \in Kinds, state'[k] = "queued"
      PROVE  now' <= Opening(k)'
  <2>1. now \in Int /\ now' = now BY DEF PunctualInv, TimelineTypes, Enqueue
  <2>2. now <= due'[k] BY <1>3, <1>5
  <2>3. IsZone(zone') /\ due'[k] \in Int
    BY TimelineConstants DEF TimelineTypes
  <2>4. FirstOpening(zone', due'[k], k) \in Int /\ due'[k] <= FirstOpening(zone', due'[k], k)
    BY <2>3, OpeningIsFirst
  <2>5. QED BY <2>1, <2>2, <2>3, <2>4 DEF Opening
<1>6. Punctual' BY <1>3, <1>4, <1>5 DEF Punctual
<1>7. InTurn' BY <1>3 DEF InTurn, Kinds
<1>8. /\ request' = now /\ now' = now /\ late' = late /\ over' = over
  BY DEF Enqueue
<1>9. request' # Never
  BY <1>8, TimelineConstants DEF PunctualInv, Never, TimelineTypes
<1>10. /\ request' \in Int /\ late' \in Nat /\ FirstHour <= now' /\ ~over'
  BY <1>2, <1>8 DEF PunctualInv, TimelineTypes
<1>11. QED BY <1>4, <1>6, <1>7, <1>9, <1>10 DEF PunctualInv

LEMMA PunctualPoll ==
    ASSUME PunctualInv, TimelineTypes', PollCompletedServices
    PROVE  PunctualInv'
<1> DEFINE at == ReviewMessageSchedule(now)
<1>1. zone \in Zones /\ now \in Int BY DEF PunctualInv, TimelineTypes
<1>2. at \in [Kinds -> Int] /\ \A k \in ReviewKinds : now <= at[k]
  BY <1>1, ScheduleIsInt, ScheduleIsLater
<1>3. Enqueue(ReviewKinds, at) BY DEF PollCompletedServices
<1>4. DueAsScheduled'
  <2>1. zone' = zone /\ request' = now /\ now' = now BY DEF PollCompletedServices, Enqueue
  <2>2. ReviewMessageSchedule(request)' = at BY <2>1 DEF ReviewMessageSchedule
  <2>3. WithinLocalHours(zone', request', PollStart, WindowEnd)
    BY <2>1 DEF PollCompletedServices
  <2> HIDE DEF at
  <2>4. \A m \in ReviewKinds : state'[m] = "queued" /\ due'[m] = at[m]
    BY <1>3 DEF Enqueue, Kinds
  <2>5. state'["service_notice_sms"] = "absent"
    BY <1>3 DEF Enqueue, Kinds, ReviewKinds
  <2>6. QED BY <2>2, <2>3, <2>4, <2>5 DEF DueAsScheduled
<1> HIDE DEF at
<1>5. QED BY <1>2, <1>3, <1>4, PunctualEnqueue

LEMMA PunctualNotice ==
    ASSUME PunctualInv, TimelineTypes', SendServiceNotice
    PROVE  PunctualInv'
<1> DEFINE u == NextServiceNoticeAt(zone, now, ReviewStart, WindowEnd)
           at == [k \in Kinds |-> u]
<1>1. zone \in Zones /\ now \in Int BY DEF PunctualInv, TimelineTypes
<1>2. u \in Int /\ now <= u BY <1>1, ScheduleIsInt, ScheduleIsLater
<1>3. Enqueue({"service_notice_sms"}, at) BY DEF SendServiceNotice
<1>4. DueAsScheduled'
  <2>1. zone' = zone /\ request' = now BY DEF SendServiceNotice, Enqueue
  <2>2. NextServiceNoticeAt(zone, request, ReviewStart, WindowEnd)' = u
    BY <2>1
  <2> HIDE DEF u
  <2>3. /\ \A m \in ReviewKinds : state'[m] = "absent"
        /\ due'["service_notice_sms"] = u
    BY <1>3 DEF Enqueue, Kinds, ReviewKinds
  <2>4. QED BY <2>2, <2>3 DEF DueAsScheduled
<1> HIDE DEF u
<1>5. at \in [Kinds -> Int] /\ \A k \in {"service_notice_sms"} : now <= at[k]
  BY <1>2 DEF Kinds
<1> HIDE DEF at
<1>6. QED BY <1>3, <1>4, <1>5, PunctualEnqueue

\* The schedule is read by messages that wait: the steps after the request leave it.
LEMMA ScheduleIsKept ==
    ASSUME DueAsScheduled, UNCHANGED <<zone, request, due>>,
           \A k \in Kinds : state'[k] = "absent" <=> state[k] = "absent"
    PROVE  /\ DueAsScheduled'
           /\ \A k \in Kinds : Opening(k)' = Opening(k)
<1>1. \A k \in Kinds : Opening(k)' = Opening(k) BY DEF Opening
<1>2. ReviewMessageSchedule(request)' = ReviewMessageSchedule(request)
  BY DEF ReviewMessageSchedule
<1>3. DueAsScheduled' BY <1>2 DEF DueAsScheduled, Kinds
<1>4. QED BY <1>1, <1>3

LEMMA PunctualProcess ==
    ASSUME PunctualInv, TimelineTypes', ProcessDueMessages
    PROVE  PunctualInv'
<1>1. /\ UNCHANGED <<zone, now, request, due, sentAt, over, late>>
      /\ \A k \in Kinds : state'[k] = IF k \in Claimable THEN "claimed" ELSE state[k]
  BY DEF ProcessDueMessages
<1>2. \A k \in Kinds : state'[k] = "absent" <=> state[k] = "absent"
  BY <1>1 DEF Claimable
<1>3. DueAsScheduled' /\ \A k \in Kinds : Opening(k)' = Opening(k)
  BY <1>1, <1>2, ScheduleIsKept DEF PunctualInv
<1>4. ~over /\ Claimed = {}
  BY DEF PunctualInv, ProcessDueMessages
<1>5. Claimed' # {}
  <2>1. PICK k \in Claimable : TRUE BY DEF ProcessDueMessages
  <2>2. k \in Kinds BY DEF Claimable, AllowedMessageKinds
  <2>3. QED BY <1>1, <2>1, <2>2 DEF Claimed
<1>6. ASSUME late' = 0
      PROVE  Punctual' /\ InTurn'
  <2>1. Punctual /\ InTurn BY <1>1, <1>6 DEF PunctualInv
  <2>2. ASSUME NEW k \in Kinds, k \in Claimable
        PROVE  now = Opening(k)
    <3>1. due[k] <= now /\ WithinLocalHours(zone, now, StartHour(k), WindowEnd)
      BY <2>2 DEF Claimable, AllowedMessageKinds
    <3>2. Opening(k) <= now /\ Opening(k) \in Int
      BY <3>1, OpeningFacts DEF PunctualInv
    <3>3. now <= Opening(k) BY <2>1, <2>2 DEF Punctual, Claimable
    <3>4. QED BY <3>2, <3>3 DEF PunctualInv, TimelineTypes
  <2>3. Sent' = Sent BY <1>1 DEF Sent, Claimable
  <2>4. Punctual'
    <3> SUFFICES ASSUME NEW k \in Kinds
                 PROVE  /\ state'[k] = "queued" => now' <= Opening(k)'
                        /\ state'[k] = "claimed" => now' = Opening(k)' + (IF over' THEN 1 ELSE 0)
                        /\ k \in Sent' => sentAt'[k] \in {Opening(k)', Opening(k)' + 1}
      BY DEF Punctual
    <3>1. now' = now /\ sentAt' = sentAt /\ Opening(k)' = Opening(k) /\ ~over' /\ Opening(k) \in Int
      BY <1>1, <1>3, <1>4, OpeningFacts DEF PunctualInv
    <3>2. state'[k] = "claimed" => k \in Claimable BY <1>1, <1>4 DEF Claimed
    <3>3. state'[k] = "queued" => state[k] = "queued" BY <1>1
    <3>4. state'[k] = "claimed" => now = Opening(k) BY <2>2, <3>2
    <3>5. state'[k] = "queued" => now <= Opening(k) BY <2>1, <3>3 DEF Punctual
    <3>6. k \in Sent => sentAt[k] \in {Opening(k), Opening(k) + 1} BY <2>1 DEF Punctual
    <3>7. QED BY <2>3, <3>1, <3>4, <3>5, <3>6
  <2>5. InTurn'
    <3> SUFFICES ASSUME NEW a \in ReviewKinds, NEW b \in ReviewKinds,
                        Opening(a)' < Opening(b)', state'[b] \in {"claimed", "sent"}
                 PROVE  a \in Sent'
      BY DEF InTurn
    <3>1. a \in Kinds /\ b \in Kinds BY DEF Kinds
    <3>2. Opening(a) < Opening(b) BY <1>3, <3>1
    <3>3. CASE b \in Claimable
      <4>1. now = Opening(b) BY <2>2, <3>1, <3>3
      <4>2. state[b] # "absent" BY <3>3 DEF Claimable
      <4>3. state[a] # "absent" BY <4>2 DEF PunctualInv, DueAsScheduled
      <4>4. state[a] # "claimed" BY <1>4, <3>1 DEF Claimed
      <4>5. state[a] # "queued"
        <5>1. Opening(a) \in Int /\ Opening(b) \in Int
          BY <3>1, OpeningFacts DEF PunctualInv
        <5>2. ~(now <= Opening(a)) BY <3>2, <4>1, <5>1
        <5>3. QED BY <2>1, <3>1, <5>2 DEF Punctual
      <4>6. state[a] = "sent" BY <3>1, <4>3, <4>4, <4>5 DEF PunctualInv, TimelineTypes
      <4>7. QED BY <2>3, <3>1, <4>6 DEF Sent
    <3>4. CASE b \notin Claimable
      <4>1. state[b] \in {"claimed", "sent"} BY <1>1, <3>1, <3>4
      <4>2. QED BY <2>1, <2>3, <3>2, <4>1 DEF InTurn
    <3>5. QED BY <3>3, <3>4
  <2>6. QED BY <2>4, <2>5
<1>7. /\ request' \in Int /\ late' \in Nat /\ FirstHour <= now'
      /\ request' = Never => \A k \in Kinds : state'[k] = "absent"
  BY <1>1, <1>2 DEF PunctualInv
<1>8. QED BY <1>3, <1>5, <1>6, <1>7 DEF PunctualInv

LEMMA PunctualSend ==
    ASSUME PunctualInv, TimelineTypes', NEW m \in Kinds, SendMessage(m)
    PROVE  PunctualInv'
<1>1. /\ UNCHANGED <<zone, now, request, due, late>>
      /\ state[m] = "claimed"
      /\ state'[m] = "sent" /\ sentAt'[m] = now
      /\ \A k \in Kinds \ {m} : state'[k] = state[k] /\ sentAt'[k] = sentAt[k]
      /\ over' = (over /\ Claimed # {m})
  BY DEF SendMessage, PunctualInv, TimelineTypes
<1>2. \A k \in Kinds : state'[k] = "absent" <=> state[k] = "absent"
  BY <1>1
<1>3. DueAsScheduled' /\ \A k \in Kinds : Opening(k)' = Opening(k)
  BY <1>1, <1>2, ScheduleIsKept DEF PunctualInv
<1>4. Claimed' = Claimed \ {m} /\ m \in Claimed /\ Sent' = Sent \cup {m}
  BY <1>1 DEF Claimed, Sent
<1>5. over' => Claimed' # {}
  BY <1>1, <1>4
<1>6. ASSUME late' = 0
      PROVE  Punctual' /\ InTurn'
  <2>1. Punctual /\ InTurn BY <1>1, <1>6 DEF PunctualInv
  <2>2. over' \in BOOLEAN /\ over \in BOOLEAN
    BY DEF PunctualInv, TimelineTypes
  <2>3. Punctual'
    <3> SUFFICES ASSUME NEW k \in Kinds
                 PROVE  /\ state'[k] = "queued" => now' <= Opening(k)'
                        /\ state'[k] = "claimed" => now' = Opening(k)' + (IF over' THEN 1 ELSE 0)
                        /\ k \in Sent' => sentAt'[k] \in {Opening(k)', Opening(k)' + 1}
      BY DEF Punctual
    <3>1. now' = now /\ Opening(k)' = Opening(k) /\ Opening(k) \in Int
      BY <1>1, <1>3, OpeningFacts DEF PunctualInv
    <3>2. CASE k = m
      <4>1. now = Opening(k) + (IF over THEN 1 ELSE 0)
        BY <1>1, <2>1, <3>2 DEF Punctual
      <4>2. sentAt'[k] \in {Opening(k), Opening(k) + 1}
        BY <1>1, <3>1, <3>2, <4>1
      <4>3. QED BY <1>1, <3>1, <3>2, <4>2
    <3>3. CASE k # m
      <4>1. state'[k] = state[k] /\ sentAt'[k] = sentAt[k] /\ (k \in Sent' => k \in Sent)
        BY <1>1, <1>4, <3>3
      <4>2. state[k] = "claimed" => over' = over
        <5>1. state[k] = "claimed" => Claimed # {m} BY <3>3 DEF Claimed
        <5>2. QED BY <1>1, <2>2, <5>1
      <4>3. /\ state[k] = "queued" => now <= Opening(k)
            /\ state[k] = "claimed" => now = Opening(k) + (IF over THEN 1 ELSE 0)
            /\ k \in Sent => sentAt[k] \in {Opening(k), Opening(k) + 1}
        BY <2>1 DEF Punctual
      <4>4. QED BY <3>1, <4>1, <4>2, <4>3
    <3>4. QED BY <3>2, <3>3
  <2>4. InTurn'
    <3> SUFFICES ASSUME NEW a \in ReviewKinds, NEW b \in ReviewKinds,
                        Opening(a)' < Opening(b)', state'[b] \in {"claimed", "sent"}
                 PROVE  a \in Sent'
      BY DEF InTurn
    <3>1. Opening(a) < Opening(b) BY <1>3 DEF Kinds
    <3>2. state[b] \in {"claimed", "sent"} BY <1>1 DEF Kinds
    <3>3. QED BY <1>4, <2>1, <3>1, <3>2 DEF InTurn
  <2>5. QED BY <2>3, <2>4
<1>7. /\ request' \in Int /\ late' \in Nat /\ FirstHour <= now'
      /\ request' = Never => \A k \in Kinds : state'[k] = "absent"
  BY <1>1, <1>2 DEF PunctualInv
<1>8. QED BY <1>3, <1>5, <1>6, <1>7 DEF PunctualInv

LEMMA PunctualTick ==
    ASSUME PunctualInv, TimelineTypes', Tick
    PROVE  PunctualInv'
<1>1. /\ UNCHANGED <<zone, request, due, state, sentAt>>
      /\ now' = now + 1 /\ ~over
      /\ over' = (Claimed # {})
      /\ late' = IF Claimable # {} THEN late + 1 ELSE late
      /\ now \in Int /\ late \in Nat
  BY DEF Tick, PunctualInv, TimelineTypes
<1>2. DueAsScheduled' /\ \A k \in Kinds : Opening(k)' = Opening(k)
  BY <1>1, ScheduleIsKept DEF PunctualInv
<1>3. Claimed' = Claimed /\ Sent' = Sent
  BY <1>1 DEF Claimed, Sent
<1>4. ASSUME late' = 0
      PROVE  Punctual' /\ InTurn'
  <2>1. late = 0 /\ Claimable = {} BY <1>1, <1>4
  <2>2. Punctual /\ InTurn BY <2>1 DEF PunctualInv
  <2>3. ASSUME NEW k \in Kinds, state[k] = "queued"
        PROVE  now < Opening(k)
    <3>1. /\ Opening(k) \in Int /\ due[k] <= Opening(k)
          /\ WithinLocalHours(zone, Opening(k), StartHour(k), WindowEnd)
      BY OpeningFacts DEF PunctualInv
    <3>2. now # Opening(k) BY <2>1, <2>3, <3>1 DEF Claimable, AllowedMessageKinds
    <3>3. now <= Opening(k) BY <2>2, <2>3 DEF Punctual
    <3>4. QED BY <1>1, <3>1, <3>2, <3>3
  <2>4. Punctual'
    <3> SUFFICES ASSUME NEW k \in Kinds
                 PROVE  /\ state'[k] = "queued" => now' <= Opening(k)'
                        /\ state'[k] = "claimed" => now' = Opening(k)' + (IF over' THEN 1 ELSE 0)
                        /\ k \in Sent' => sentAt'[k] \in {Opening(k)', Opening(k)' + 1}
      BY DEF Punctual
    <3>1. Opening(k)' = Opening(k) /\ Opening(k) \in Int
      BY <1>2, OpeningFacts DEF PunctualInv
    <3>2. state'[k] = state[k] /\ sentAt' = sentAt BY <1>1
    <3>3. state[k] = "queued" => now' <= Opening(k) BY <1>1, <2>3, <3>1
    <3>4. state[k] = "claimed" => over' /\ now = Opening(k)
      <4>1. state[k] = "claimed" => Claimed # {} BY DEF Claimed
      <4>2. state[k] = "claimed" => now = Opening(k) + 0 BY <1>1, <2>2 DEF Punctual
      <4>3. state[k] = "claimed" => over'
        BY <1>1, <4>1, Zenon
      <4>4. QED BY <3>1, <4>2, <4>3
    <3>5. state[k] = "claimed" => now' = Opening(k) + (IF over' THEN 1 ELSE 0)
      BY <1>1, <3>1, <3>4
    <3>6. k \in Sent => sentAt[k] \in {Opening(k), Opening(k) + 1}
      BY <2>2 DEF Punctual
    <3>7. QED BY <1>3, <3>1, <3>2, <3>3, <3>5, <3>6
  <2>5. InTurn' BY <1>1, <1>2, <1>3, <2>2 DEF InTurn, Kinds
  <2>6. QED BY <2>4, <2>5
<1>5. /\ request' \in Int /\ late' \in Nat /\ FirstHour <= now'
      /\ request' = Never => \A k \in Kinds : state'[k] = "absent"
  <2>1. FirstHour \in Int BY TimelineConstants
  <2>2. QED BY <1>1, <2>1 DEF PunctualInv
<1>6. over' => Claimed' # {} BY <1>1, <1>3
<1>7. QED BY <1>2, <1>4, <1>5, <1>6 DEF PunctualInv

\* The steps of a worker that runs every hour keep to the openings and to their order.
LEMMA PunctualAlways == Spec => []PunctualInv
<1>1. PunctualInv /\ TimelineTypes' /\ [Next]_vars => PunctualInv'
  <2> SUFFICES ASSUME PunctualInv, TimelineTypes', [Next]_vars PROVE PunctualInv'
    OBVIOUS
  <2>1. CASE PollCompletedServices BY <2>1, PunctualPoll
  <2>2. CASE SendServiceNotice BY <2>2, PunctualNotice
  <2>3. CASE ProcessDueMessages BY <2>3, PunctualProcess
  <2>4. CASE \E k \in Kinds : SendMessage(k) BY <2>4, PunctualSend
  <2>5. CASE Tick BY <2>5, PunctualTick
  <2>6. CASE UNCHANGED vars
    <3>1. UNCHANGED <<zone, now, request, due, state, sentAt, over, late>> BY <2>6 DEF vars
    <3>2. Claimed' = Claimed /\ Sent' = Sent BY <3>1 DEF Claimed, Sent
    <3>3. DueAsScheduled' /\ \A k \in Kinds : Opening(k)' = Opening(k)
      BY <3>1, ScheduleIsKept DEF PunctualInv
    <3>4. late = 0 => Punctual' /\ InTurn'
      <4>1. Punctual => Punctual' BY <3>1, <3>2, <3>3 DEF Punctual
      <4>2. InTurn => InTurn' BY <3>1, <3>2, <3>3 DEF InTurn, Kinds
      <4>3. QED BY <4>1, <4>2 DEF PunctualInv
    <3>5. QED BY <3>1, <3>2, <3>3, <3>4 DEF PunctualInv
  <2>7. QED BY <2>1, <2>2, <2>3, <2>4, <2>5, <2>6 DEF Next
<1>2. Spec => []TimelineTypes
  <2>1. TimelineInv => TimelineTypes BY DEF TimelineInv
  <2>2. QED BY <2>1, TimelineAlways, PTL
<1>3. QED BY PunctualStart, <1>1, <1>2, PTL DEF Spec

\* A text of a worker that runs every hour goes out in the first hour of the window
\* from the time it is wanted or in the next, for every zone, delay and hour.
THEOREM TextsAreOnTimeHolds == Spec => []TextsAreOnTime
<1>1. PunctualInv => TextsAreOnTime
  <2> DEFINE Texts == {"completed_service_sms", "initial_review_sms", "service_notice_sms"}
  <2> SUFFICES ASSUME PunctualInv, late = 0, NEW k \in Texts
               PROVE  /\ k \in Sent => sentAt[k] - FirstOpen(k, Wanted(k)) \in {0, 1}
                      /\ state[k] \in {"queued", "claimed"} => now <= FirstOpen(k, Wanted(k)) + 1
    BY DEF TextsAreOnTime
  <2>1. k \in Kinds /\ zone \in Zones /\ request \in Int /\ now \in Int /\ SmsDelay \in Nat
    BY TimelineConstants DEF Kinds, ReviewKinds, PunctualInv, TimelineTypes
  <2>2. Wanted(k) \in Int BY <2>1 DEF Wanted
  <2>3. FirstOpen(k, Wanted(k)) = FirstOpening(zone, Wanted(k), k)
    BY <2>1, <2>2, FirstOpenIsOpening
  <2>4. Opening(k) \in Int BY <2>1, OpeningFacts DEF PunctualInv
  <2>5. ASSUME state[k] # "absent"
        PROVE  FirstOpening(zone, Wanted(k), k) = Opening(k)
    <3>1. CASE k \in ReviewKinds
      <4>1. due[k] = ReviewMessageSchedule(request)[k]
        BY <2>5, <3>1 DEF PunctualInv, DueAsScheduled
      <4>2. ReviewMessageSchedule(request)[k] = Wanted(k)
        BY <2>1, <3>1 DEF ReviewMessageSchedule, Wanted, ReviewKinds
      <4>3. QED BY <4>1, <4>2 DEF Opening
    <3>2. CASE k = "service_notice_sms"
      <4>1. due[k] = NextServiceNoticeAt(zone, request, ReviewStart, WindowEnd)
        BY <2>5, <3>2 DEF PunctualInv, DueAsScheduled
      <4>2. StartHour(k) = ReviewStart /\ Wanted(k) = request
        BY <3>2 DEF StartHour, Wanted
      <4>3. FirstOpening(zone, Wanted(k), k) = due[k]
        BY <4>1, <4>2 DEF FirstOpening
      <4>4. WithinLocalHours(zone, due[k], StartHour(k), WindowEnd)
        BY <2>1, <4>2, <4>3, OpeningIsFirst, TimelineConstants
      <4>5. QED BY <4>3, <4>4 DEF Opening, FirstOpening, NextServiceNoticeAt
    <3>3. QED BY <2>1, <3>1, <3>2 DEF Kinds
  <2>6. /\ state[k] = "queued" => now <= Opening(k)
        /\ state[k] = "claimed" => now = Opening(k) + (IF over THEN 1 ELSE 0)
        /\ k \in Sent => sentAt[k] \in {Opening(k), Opening(k) + 1}
    BY <2>1 DEF PunctualInv, Punctual
  <2>7. k \in Sent => state[k] # "absent" BY DEF Sent
  <2>8. QED BY <2>1, <2>3, <2>4, <2>5, <2>6, <2>7
<1>2. QED BY <1>1, PunctualAlways, PTL

\* A message that goes out at a local hour of the day, or an hour later, goes out on
\* that day.
LEMMA HourOrNext ==
    ASSUME NEW z, IsZone(z), NEW u \in Int, NEW v \in {u, u + 1}, LocalHour(z, u) = EmailHour
    PROVE  /\ LocalDay(z, v) = LocalDay(z, u)
           /\ LocalHour(z, v) \in {EmailHour, EmailHour + 1}
<1>1. EmailHour \in 6..22
  BY TimelineConstants DEF ReviewStart, WindowEnd
<1>2. LocalHour(z, u + 1) = LocalHour(z, u) + 1
  BY <1>1, NextHour
<1>3. Wall(z, u + 1) = Wall(z, u) + 1
  <2>1. u # z.switch - 1 BY <1>1 DEF IsZone
  <2>2. QED BY <2>1 DEF Wall, Offset, IsZone
<1>4. LocalDay(z, u + 1) = LocalDay(z, u)
  <2> DEFINE next == u + 1
  <2> HIDE DEF next
  <2>1. next \in Int BY DEF next
  <2>2. /\ Wall(z, u) = 24 * LocalDay(z, u) + LocalHour(z, u)
        /\ LocalDay(z, u) \in Int /\ LocalHour(z, u) \in 0..23
    BY WallParts
  <2>3. Wall(z, next) = 24 * LocalDay(z, next) + LocalHour(z, next) /\ LocalDay(z, next) \in Int
    BY <2>1, WallParts
  <2>4. Wall(z, next) = Wall(z, u) + 1 /\ LocalHour(z, next) = LocalHour(z, u) + 1
    BY <1>2, <1>3 DEF next
  <2>5. LocalDay(z, next) = LocalDay(z, u)
    <3>1. /\ LocalDay(z, next) = Wall(z, next) \div 24
          /\ LocalHour(z, u) = Wall(z, u) % 24 /\ LocalDay(z, u) = Wall(z, u) \div 24
      BY DEF LocalDay, LocalHour
    <3>2. LocalHour(z, u) \in 6..22 /\ Wall(z, u) \in Int
      BY <1>1, WallParts
    <3>3. QED BY <2>4, <3>1, <3>2
  <2>6. QED BY <2>5 DEF next
<1>5. QED BY <1>2, <1>4

\* The e-mails of a campaign open when they are due, the second after the first.
LEMMA EmailsOpenWhenDue ==
    ASSUME PunctualInv, NEW k \in ReviewKinds, state[k] # "absent"
    PROVE  LET D == LocalDay(zone, request)
               e == Opening("next_day_review_email")
               s == Opening("saturday_review_email")
           IN /\ D \in Int /\ e \in Int /\ s \in Int
              /\ LocalDay(zone, e) = D + 1 /\ LocalHour(zone, e) = EmailHour
              /\ Weekday(LocalDay(zone, s)) = Saturday /\ LocalHour(zone, s) = EmailHour
              /\ LocalDay(zone, s) - D \in 2..8
              /\ e < s
<1> DEFINE D == LocalDay(zone, request)
           email == NextDayEmailAt(zone, request, EmailHour)
           saturday == FirstSaturdayAfter(zone, email, EmailHour)
<1>1. IsZone(zone) /\ request \in Int
  BY TimelineConstants DEF PunctualInv, TimelineTypes
<1>2. EmailHour \in 9..18
  BY TimelineConstants DEF ReviewStart, WindowEnd
<1>3. D \in Int BY <1>1, WallParts
<1>4. email \in Int /\ LocalDay(zone, email) = D + 1 /\ LocalHour(zone, email) = EmailHour
  <2>1. email = ToUTC(zone, D + 1, EmailHour) BY DEF NextDayEmailAt
  <2> HIDE DEF email, D
  <2>2. D + 1 \in Int /\ EmailHour \in 6..23 BY <1>2, <1>3
  <2>3. QED BY <1>1, <2>1, <2>2, ToUTCIsInverse
<1>5. /\ due["next_day_review_email"] = email
      /\ due["saturday_review_email"] = saturday
      /\ saturday \in Int
  <2>1. \A m \in ReviewKinds : due[m] = ReviewMessageSchedule(request)[m]
    BY DEF PunctualInv, DueAsScheduled
  <2>2. /\ ReviewMessageSchedule(request)["next_day_review_email"] = email
        /\ ReviewMessageSchedule(request)["saturday_review_email"] = saturday
    BY DEF ReviewMessageSchedule, Kinds, ReviewKinds
  <2>3. {"next_day_review_email", "saturday_review_email"} \subseteq ReviewKinds
    BY DEF ReviewKinds
  <2>4. \A m \in ReviewKinds : due[m] \in Int
    BY DEF PunctualInv, TimelineTypes, Kinds
  <2> HIDE DEF email, saturday
  <2>5. QED BY <2>1, <2>2, <2>3, <2>4
<1>6. /\ Weekday(LocalDay(zone, saturday)) = Saturday
      /\ LocalHour(zone, saturday) = EmailHour
      /\ LocalDay(zone, saturday) - LocalDay(zone, email) \in 1..7
      /\ email < saturday
  <2> HIDE DEF email
  <2>1. EmailHour \in 6..23 BY <1>2
  <2>2. QED BY <1>1, <1>4, <2>1, FirstSaturdayIsStrictlyAfter
<1>7. /\ Opening("next_day_review_email") = email
      /\ Opening("saturday_review_email") = saturday
  <2>1. ASSUME NEW t \in Int, LocalHour(zone, t) = EmailHour,
               NEW m \in {"next_day_review_email", "saturday_review_email"}
        PROVE  FirstOpening(zone, t, m) = t
    <3>1. StartHour(m) = 9 /\ WindowEnd = 19 BY DEF StartHour, ReviewStart, WindowEnd
    <3>2. WithinLocalHours(zone, t, StartHour(m), WindowEnd)
      BY <1>2, <2>1, <3>1 DEF WithinLocalHours
    <3>3. QED BY <3>2 DEF FirstOpening, NextServiceNoticeAt
  <2> HIDE DEF email, saturday
  <2>2. QED BY <1>4, <1>5, <1>6, <2>1 DEF Opening
<1>8. LocalDay(zone, saturday) - D \in 2..8
  <2>1. LocalDay(zone, saturday) \in Int BY <1>1, <1>5, WallParts
  <2> HIDE DEF email, saturday, D
  <2>2. QED BY <1>3, <1>4, <1>6, <2>1
<1> HIDE DEF email, saturday
<1>9. QED BY <1>3, <1>4, <1>5, <1>6, <1>7, <1>8

\* The review text opens before the first e-mail: discovered before 7 p.m., it is due
\* before the hour of the e-mail on the next day, and if that is at night it waits for
\* the start of the window only.
LEMMA TextOpensFirst ==
    ASSUME PunctualInv, NEW k \in ReviewKinds, state[k] # "absent",
           SmsDelay <= EmailHour + 4, ReviewStart < EmailHour
    PROVE  Opening("initial_review_sms") < Opening("next_day_review_email")
<1> DEFINE D == LocalDay(zone, request)
           text == "initial_review_sms"
           t == request + SmsDelay
           u == Opening(text)
           e == Opening("next_day_review_email")
<1>1. IsZone(zone) /\ request \in Int /\ SmsDelay \in Nat
  BY TimelineConstants DEF PunctualInv, TimelineTypes
<1>2. EmailHour \in 10..18 /\ StartHour(text) = 9 /\ WindowEnd = 19
  BY TimelineConstants DEF ReviewStart, WindowEnd, StartHour
<1>3. /\ D \in Int /\ e \in Int /\ LocalDay(zone, e) = D + 1 /\ LocalHour(zone, e) = EmailHour
  <2> HIDE DEF e, D
  <2>1. QED BY EmailsOpenWhenDue DEF e, D
<1>4. Wall(zone, e) = 24 * (D + 1) + EmailHour
  <2> HIDE DEF e, D
  <2>1. QED BY <1>1, <1>3, WallParts
<1>5. u = FirstOpening(zone, t, text)
  <2>1. text \in ReviewKinds BY DEF ReviewKinds
  <2>2. due[text] = ReviewMessageSchedule(request)[text]
    BY <2>1 DEF PunctualInv, DueAsScheduled
  <2>3. ReviewMessageSchedule(request)[text] = t
    BY DEF ReviewMessageSchedule, Kinds, ReviewKinds
  <2>4. QED BY <2>2, <2>3 DEF Opening
<1>6. Wall(zone, t) < 24 * (D + 1) + EmailHour
  <2>1. /\ Wall(zone, request) = 24 * D + LocalHour(zone, request)
    BY <1>1, WallParts
  <2>2. LocalHour(zone, request) < 19
    BY DEF PunctualInv, DueAsScheduled, WithinLocalHours, WindowEnd
  <2>3. LocalHour(zone, request) \in Int BY <1>1, WallParts
  <2>4. Wall(zone, t) <= Wall(zone, request) + SmsDelay + 1
    <3> HIDE DEF D
    <3>1. QED BY <1>1 DEF IsZone, Wall, Offset
  <2>5. Wall(zone, t) \in Int /\ Wall(zone, request) \in Int
    BY <1>1, WallParts
  <2> HIDE DEF D, t
  <2>6. QED BY <1>1, <1>2, <1>3, <2>1, <2>2, <2>3, <2>4, <2>5
<1>7. Wall(zone, u) < 24 * (D + 1) + EmailHour
  <2>1. t \in Int BY <1>1
  <2> HIDE DEF D, t, e, u
  <2>2. /\ Wall(zone, t) = 24 * LocalDay(zone, t) + LocalHour(zone, t)
        /\ LocalDay(zone, t) \in Int /\ LocalHour(zone, t) \in 0..23
    BY <1>1, <2>1, WallParts
  <2>3. CASE WithinLocalHours(zone, t, StartHour(text), WindowEnd)
    BY <1>5, <1>6, <2>3 DEF FirstOpening, NextServiceNoticeAt
  <2>4. CASE ~WithinLocalHours(zone, t, StartHour(text), WindowEnd)
    <3> DEFINE day == LocalDay(zone, t) + (IF LocalHour(zone, t) < StartHour(text) THEN 0 ELSE 1)
    <3>1. u = ToUTC(zone, day, 9)
      BY <1>2, <1>5, <2>4 DEF FirstOpening, NextServiceNoticeAt
    <3>2. LocalHour(zone, t) < 9 \/ 19 <= LocalHour(zone, t)
      BY <1>2, <2>2, <2>4 DEF WithinLocalHours
    <3>3. day \in Int BY <2>2
    <3>4. Wall(zone, u) = 24 * day + 9
      <4> HIDE DEF day
      <4>1. 9 \in 6..23 OBVIOUS
      <4>2. u \in Int /\ LocalDay(zone, u) = day /\ LocalHour(zone, u) = 9
        BY <1>1, <3>1, <3>3, <4>1, ToUTCIsInverse
      <4>3. QED BY <1>1, <4>2, WallParts
    <3>5. day <= D + 1
      BY <1>2, <1>3, <1>6, <2>2, <3>2
    <3> HIDE DEF day
    <3>6. QED BY <1>2, <1>3, <3>3, <3>4, <3>5
  <2>5. QED BY <2>3, <2>4
<1>8. u \in Int
  BY OpeningFacts DEF PunctualInv, Kinds, ReviewKinds
<1>9. u < e
  <2> HIDE DEF u, e, D
  <2>1. ~(Wall(zone, e) <= Wall(zone, u))
    <3>1. Wall(zone, u) \in Int /\ Wall(zone, e) \in Int
      BY <1>1, <1>3, <1>8, WallParts
    <3>2. QED BY <1>4, <1>7, <3>1
  <2>2. ~(e <= u) BY <1>1, <1>3, <1>8, <2>1, WallIsMonotone
  <2>3. QED BY <1>3, <1>8, <2>2
<1>10. QED BY <1>9

\* The review text is not later than the first e-mail, which goes out on the next local
\* day, and the second on the first Saturday strictly after it, both at the local hour
\* asked for: for every zone, and every delay and hour under which the text is due first.
THEOREM CampaignKeepsItsCalendarHolds ==
    ASSUME SmsDelay <= EmailHour + 4, ReviewStart < EmailHour
    PROVE  Spec => []CampaignKeepsItsCalendar
<1> DEFINE text == "initial_review_sms"
           email == "next_day_review_email"
           saturday == "saturday_review_email"
<1>1. PunctualInv => CampaignKeepsItsCalendar
  <2> SUFFICES ASSUME PunctualInv, late = 0 PROVE CampaignKeepsItsCalendar
    BY DEF CampaignKeepsItsCalendar
  <2> DEFINE D == LocalDay(zone, request)
             day(k) == LocalDay(zone, sentAt[k])
             onTheHour(k) == LocalHour(zone, sentAt[k]) \in {EmailHour, EmailHour + 1}
  <2>1. IsZone(zone) BY TimelineConstants DEF PunctualInv, TimelineTypes
  <2>2. {text, email, saturday} \subseteq ReviewKinds /\ ReviewKinds \subseteq Kinds
    BY DEF ReviewKinds, Kinds
  <2>3. ASSUME NEW k \in Sent
        PROVE  state[k] = "sent" /\ sentAt[k] \in {Opening(k), Opening(k) + 1}
    BY <2>3 DEF PunctualInv, Punctual, Sent
  <2>4. ASSUME email \in Sent
        PROVE  /\ day(email) = D + 1 /\ onTheHour(email)
               /\ text \in Sent /\ sentAt[text] <= sentAt[email]
    <3>1. state[email] = "sent" /\ sentAt[email] \in {Opening(email), Opening(email) + 1}
      BY <2>3, <2>4
    <3>2. /\ Opening(email) \in Int /\ LocalDay(zone, Opening(email)) = D + 1
          /\ LocalHour(zone, Opening(email)) = EmailHour
      BY <2>2, <3>1, EmailsOpenWhenDue
    <3>3. Opening(text) < Opening(email) BY <2>2, <3>1, TextOpensFirst
    <3>4. text \in Sent
      BY <2>2, <3>1, <3>3 DEF PunctualInv, InTurn
    <3>5. sentAt[text] \in {Opening(text), Opening(text) + 1} /\ Opening(text) \in Int
      BY <2>2, <2>3, <3>4, OpeningFacts DEF PunctualInv
    <3>6. day(email) = D + 1 /\ onTheHour(email)
      BY <2>1, <3>1, <3>2, HourOrNext
    <3>7. sentAt[text] <= sentAt[email]
      BY <3>1, <3>2, <3>3, <3>5
    <3>8. QED BY <3>4, <3>6, <3>7
  <2>5. ASSUME saturday \in Sent
        PROVE  /\ Weekday(day(saturday)) = Saturday /\ day(saturday) - D \in 2..8
               /\ onTheHour(saturday) /\ email \in Sent
    <3>1. state[saturday] = "sent" /\ sentAt[saturday] \in {Opening(saturday), Opening(saturday) + 1}
      BY <2>3, <2>5
    <3>2. /\ Opening(saturday) \in Int
          /\ Weekday(LocalDay(zone, Opening(saturday))) = Saturday
          /\ LocalHour(zone, Opening(saturday)) = EmailHour
          /\ LocalDay(zone, Opening(saturday)) - D \in 2..8
          /\ Opening(email) < Opening(saturday)
      BY <2>2, <3>1, EmailsOpenWhenDue
    <3>3. day(saturday) = LocalDay(zone, Opening(saturday)) /\ onTheHour(saturday)
      BY <2>1, <3>1, <3>2, HourOrNext
    <3>4. email \in Sent
      BY <2>2, <3>1, <3>2 DEF PunctualInv, InTurn
    <3>5. QED BY <3>2, <3>3, <3>4
  <2>6. QED BY <2>4, <2>5 DEF CampaignKeepsItsCalendar
<1>2. QED BY <1>1, PunctualAlways, PTL
================================================================================
