---------------------------- MODULE ReviewTimeline -----------------------------
(***************************************************************************)
(* When messages go out: the hours in which the worker looks for completed *)
(* jobs and sends, the times app/domain/reviews.py and the administration  *)
(* page write into scheduled_at, and a clock in a zone that changes its    *)
(* offset.  One completed job or one service notice in a behaviour; what   *)
(* can stop or repeat a message is the subject of MessageOutbox.           *)
(***************************************************************************)
EXTENDS LocalCalendar

CONSTANTS
    Zones,        \* the zones explored
    SmsDelay,     \* REVIEW_SMS_DELAY_HOURS
    EmailHour,    \* REVIEW_EMAIL_HOUR
    FirstHour,    \* the instant the clock starts at
    LastRequest,  \* bound: nothing is discovered or requested later
    MaxLate       \* bound: hours in which the worker fails to run though something is due

ReviewKinds ==
    {"completed_service_sms", "initial_review_sms", "next_day_review_email", "saturday_review_email"}
Kinds == ReviewKinds \cup {"service_notice_sms"}

\* First and last hour of the windows.
PollStart == 6
ReviewStart == 9
WindowEnd == 19

ASSUME TimelineConstants ==
    /\ \A z \in Zones : IsZone(z)
    /\ SmsDelay \in Nat
    /\ EmailHour \in ReviewStart..(WindowEnd - 1)
    /\ FirstHour \in Int /\ LastRequest \in Int
    /\ MaxLate \in Nat

VARIABLES
    zone,     \* chosen once
    now,      \* the clock
    request,  \* instant of the discovery or of the administrator's request, or Never
    due,      \* scheduled_at
    state,    \* state[k]: "absent", "queued", "claimed" or "sent"
    sentAt,   \* instant of the submission
    over,     \* the run under way has lasted past the full hour
    late      \* hours in which something was due and the worker did not run

vars == <<zone, now, request, due, state, sentAt, over, late>>

Never == FirstHour - 1

Init ==
    /\ zone \in Zones
    /\ now = FirstHour
    /\ request = Never
    /\ due = [k \in Kinds |-> Never]
    /\ state = [k \in Kinds |-> "absent"]
    /\ sentAt = [k \in Kinds |-> Never]
    /\ over = FALSE
    /\ late = 0

ReviewMessageSchedule(t) ==
    LET email == NextDayEmailAt(zone, t, EmailHour)
    IN [k \in Kinds |->
          CASE k = "initial_review_sms" -> t + SmsDelay
            [] k = "next_day_review_email" -> email
            [] k = "saturday_review_email" -> FirstSaturdayAfter(zone, email, EmailHour)
            [] OTHER -> t]

Enqueue(kinds, at) ==
    /\ request = Never
    /\ now <= LastRequest
    /\ request' = now
    /\ due' = [k \in Kinds |-> IF k \in kinds THEN at[k] ELSE Never]
    /\ state' = [k \in Kinds |-> IF k \in kinds THEN "queued" ELSE "absent"]
    /\ UNCHANGED <<zone, now, sentAt, over, late>>

\* A job with a telephone number and an address, and no recent campaign.
PollCompletedServices ==
    /\ WithinLocalHours(zone, now, PollStart, WindowEnd)
    /\ Enqueue(ReviewKinds, ReviewMessageSchedule(now))

\* The administration page, at any hour.
SendServiceNotice ==
    Enqueue({"service_notice_sms"},
            [k \in Kinds |-> NextServiceNoticeAt(zone, now, ReviewStart, WindowEnd)])

StartHour(k) == IF k = "completed_service_sms" THEN PollStart ELSE ReviewStart

\* _allowed_message_kinds, with OUTLOOK_SEND_ENABLED.
AllowedMessageKinds == {k \in Kinds : WithinLocalHours(zone, now, StartHour(k), WindowEnd)}

Claimable == {k \in AllowedMessageKinds : state[k] = "queued" /\ due[k] <= now}

Claimed == {k \in Kinds : state[k] = "claimed"}

\* A run reads the window once and claims what is due; runs that find nothing are
\* left out.
ProcessDueMessages ==
    /\ Claimed = {}
    /\ Claimable # {}
    /\ state' = [k \in Kinds |-> IF k \in Claimable THEN "claimed" ELSE state[k]]
    /\ UNCHANGED <<zone, now, request, due, sentAt, over, late>>

\* RETURNING has no order: the messages of a batch go out in any.
SendMessage(k) ==
    /\ state[k] = "claimed"
    /\ state' = [state EXCEPT ![k] = "sent"]
    /\ sentAt' = [sentAt EXCEPT ![k] = now]
    /\ over' = (over /\ Claimed # {k})
    /\ UNCHANGED <<zone, now, request, due, late>>

\* Bounds: a run sees one full hour at most, and the clock stops when the request has
\* been served.
Tick ==
    /\ \/ request = Never /\ now < LastRequest
       \/ \E k \in Kinds : state[k] \in {"queued", "claimed"}
    /\ ~over
    /\ over' = (Claimed # {})
    /\ late' = IF Claimable # {} THEN late + 1 ELSE late
    /\ late' <= MaxLate
    /\ now' = now + 1
    /\ UNCHANGED <<zone, request, due, state, sentAt>>

Next ==
    \/ PollCompletedServices \/ SendServiceNotice
    \/ ProcessDueMessages \/ (\E k \in Kinds : SendMessage(k)) \/ Tick

Spec == Init /\ [][Next]_vars

-------------------------------------------------------------------------------
(* Properties.                                                             *)

Sent == {k \in Kinds : state[k] = "sent"}

\* docs/OPERATIONS.md:26: "The durable worker sends during the 9 a.m.-7 p.m. Eastern
\* window".  Nothing goes out before it is due or outside the window of its kind,
\* but for the batch of a run that began in the window's last hour.
SentInWindow ==
    \A k \in Sent :
        /\ sentAt[k] >= due[k]
        /\ LocalHour(zone, sentAt[k]) \in StartHour(k)..WindowEnd

\* The first instant from t on with a local hour in the window of a kind.
FirstOpen(k, t) ==
    CHOOSE u \in t..(t + 24) :
        /\ LocalHour(zone, u) \in StartHour(k)..(WindowEnd - 1)
        /\ \A v \in t..(u - 1) : LocalHour(zone, v) \notin StartHour(k)..(WindowEnd - 1)

\* When a text may go: three hours after the discovery for the review text, at once
\* for the others.
Wanted(k) == IF k = "initial_review_sms" THEN request + SmsDelay ELSE request

\* While the worker runs every hour, a text goes out in the first hour of the window
\* from the time it is wanted, or in the next: the times the page and the schedule
\* compute agree with the window the worker reads, also across a change of the clock.
TextsAreOnTime ==
    late = 0 =>
        \A k \in {"completed_service_sms", "initial_review_sms", "service_notice_sms"} :
            /\ k \in Sent => sentAt[k] - FirstOpen(k, Wanted(k)) \in {0, 1}
            /\ state[k] \in {"queued", "claimed"} => now <= FirstOpen(k, Wanted(k)) + 1

\* README.md:18-20: while the worker runs every hour, the review text is not later
\* than the first e-mail, which goes out on the next local day, and the second goes
\* out on the first Saturday strictly after that day, both at the hour asked for on
\* the clock the customer then has.
CampaignKeepsItsCalendar ==
    late = 0 =>
        LET day(k) == LocalDay(zone, sentAt[k])
            onTheHour(k) == LocalHour(zone, sentAt[k]) \in {EmailHour, EmailHour + 1}
        IN /\ "next_day_review_email" \in Sent =>
                /\ day("next_day_review_email") = LocalDay(zone, request) + 1
                /\ onTheHour("next_day_review_email")
                /\ "initial_review_sms" \in Sent
                /\ sentAt["initial_review_sms"] <= sentAt["next_day_review_email"]
           /\ "saturday_review_email" \in Sent =>
                /\ Weekday(day("saturday_review_email")) = Saturday
                /\ day("saturday_review_email") - LocalDay(zone, request) \in 2..8
                /\ onTheHour("saturday_review_email")
                /\ "next_day_review_email" \in Sent
================================================================================
