------------------------- MODULE DeliveryReportsProofs -------------------------
(***************************************************************************)
(* The promises about texts and about bounced e-mails, for any number of   *)
(* messages whatever channels they have.  For texts the invariant ties the *)
(* places that speak of one text: a job that has failed was refused, or    *)
(* Twilio has given it up; and as long as no callback has overtaken the    *)
(* worker, none has been stored before the worker's own last write.  For   *)
(* e-mails it counts: a report is recorded once as long as no run dies     *)
(* between recording it and marking it as read, and fails one e-mail.      *)
(***************************************************************************)
EXTENDS DeliveryReports, FiniteSetTheorems, TLAPS

TextJobs == {j \in Jobs : channel[j] = "sms"}

ReportTypes ==
    /\ channel \in [Jobs -> {"sms", "email", "unused"}]
    /\ status \in [Jobs -> JobStatus]
    /\ rank \in [Jobs -> {0, 10, 20, 30, 40, 100}]
    /\ held \in [Jobs -> BOOLEAN]
    /\ phase \in [Jobs -> WorkerPhase]
    /\ provider \in [Jobs -> {"none", "accepted"} \cup DOMAIN StatusRank]
    /\ outcome \in [Jobs -> Outcome]
    /\ pending \in [Jobs -> Outcome]

\* What the job's status says of its rank and of the provider's message.
StatusIsBacked(j) ==
    /\ status[j] \in {"absent", "queued"} => phase[j] = "idle"
    /\ phase[j] \in {"idle", "submitted", "refused"} => provider[j] = "none"
    /\ phase[j] = "answered" => provider[j] # "none"
    /\ status[j] = "failed" =>
          \/ provider[j] = "none" /\ phase[j] \in {"writing", "ended"} /\ rank[j] = 0
          \/ provider[j] \in {"failed", "canceled"} /\ rank[j] = 100
    /\ rank[j] = 100 => status[j] \in {"delivered", "failed"}
    /\ status[j] = "sent" => rank[j] = 40
    /\ status[j] = "delivered" => rank[j] = 100
    /\ provider[j] = "none" => rank[j] = 0

\* Before the worker's last write only a callback that has overtaken it is stored.
NotOvertaken(j) ==
    j \notin early /\ phase[j] # "ended" => rank[j] \in {0, 20} /\ status[j] \notin {"sent", "delivered"}

OutcomeFollows(j) ==
    j \notin early =>
        /\ status[j] \in {"sent", "delivered"} => outcome[j] = status[j]
        /\ status[j] = "failed" /\ rank[j] = 100 => outcome[j] \in {"delivery_failed", "canceled"}

FailureAlerted(j) ==
    /\ status[j] = "failed" /\ provider[j] = "failed" => j \in alerting \cup alerts \cup lost
    /\ j \in alerting \cup alerts => status[j] = "failed" /\ provider[j] = "failed"

TextInv ==
    \A j \in TextJobs :
        StatusIsBacked(j) /\ NotOvertaken(j) /\ OutcomeFollows(j) /\ FailureAlerted(j)

ReportInv == ReportTypes /\ TextInv

\* The statuses Twilio reports, with their ranks (app/domain/jobs.py).
LEMMA Ranks ==
    /\ DOMAIN StatusRank = {"queued", "sending", "sent", "delivered", "failed", "canceled"}
    /\ StatusRank["queued"] = 20 /\ StatusRank["sending"] = 30 /\ StatusRank["sent"] = 40
    /\ StatusRank["delivered"] = 100 /\ StatusRank["failed"] = 100 /\ StatusRank["canceled"] = 100
BY DEF StatusRank

\* A step that leaves a text's job, its worker's phase, the provider, the outcome and
\* the alerts as they are keeps what is said of it.
LEMMA TextFrame ==
    ASSUME NEW j \in Jobs,
           StatusIsBacked(j), NotOvertaken(j), OutcomeFollows(j), FailureAlerted(j),
           status'[j] = status[j], rank'[j] = rank[j], phase'[j] = phase[j],
           provider'[j] = provider[j], outcome'[j] = outcome[j],
           (j \in early') = (j \in early),
           (j \in alerting') = (j \in alerting), (j \in alerts') = (j \in alerts),
           (j \in lost') = (j \in lost)
    PROVE  StatusIsBacked(j)' /\ NotOvertaken(j)' /\ OutcomeFollows(j)' /\ FailureAlerted(j)'
BY DEF StatusIsBacked, NotOvertaken, OutcomeFollows, FailureAlerted

\* All but one text: the frame of the steps of one job.
LEMMA OtherTexts ==
    ASSUME NEW j \in Jobs, ReportInv, ReportTypes', channel' = channel,
           \A k \in Jobs \ {j} :
              /\ status'[k] = status[k] /\ rank'[k] = rank[k] /\ phase'[k] = phase[k]
              /\ provider'[k] = provider[k] /\ outcome'[k] = outcome[k]
              /\ (k \in early') = (k \in early) /\ (k \in alerting') = (k \in alerting)
              /\ (k \in alerts') = (k \in alerts) /\ (k \in lost') = (k \in lost),
           channel[j] = "sms" =>
              StatusIsBacked(j)' /\ NotOvertaken(j)' /\ OutcomeFollows(j)' /\ FailureAlerted(j)'
    PROVE  ReportInv'
<1>1. ASSUME NEW k \in TextJobs'
      PROVE  StatusIsBacked(k)' /\ NotOvertaken(k)' /\ OutcomeFollows(k)' /\ FailureAlerted(k)'
  <2>1. k \in Jobs /\ channel[k] = "sms" /\ k \in TextJobs BY <1>1 DEF TextJobs
  <2>2. CASE k = j BY <2>1, <2>2
  <2>3. CASE k # j
    <3>1. StatusIsBacked(k) /\ NotOvertaken(k) /\ OutcomeFollows(k) /\ FailureAlerted(k)
      BY <2>1 DEF ReportInv, TextInv
    <3>2. QED BY <2>1, <2>3, <3>1, TextFrame
  <2>4. QED BY <2>2, <2>3
<1>2. QED BY <1>1 DEF ReportInv, TextInv

-------------------------------------------------------------------------------
LEMMA ReportInit == Init => ReportInv
<1> SUFFICES ASSUME Init PROVE ReportInv
  OBVIOUS
<1>1. ReportTypes
  BY ReportConstants, Ranks DEF Init, ReportTypes, JobStatus, WorkerPhase, Outcome
<1>2. TextInv
  BY DEF Init, TextInv, TextJobs, StatusIsBacked, NotOvertaken, OutcomeFollows, FailureAlerted
<1>3. QED BY <1>1, <1>2 DEF ReportInv

\* Steps of the worker that sends a text.
LEMMA WorkerTypes ==
    ASSUME ReportTypes, NEW j \in Jobs, WorkerStep(j)
    PROVE  ReportTypes' /\ channel' = channel
<1> USE DEF jobVars, workVars, sourceVars, Outcome, JobStatus, WorkerPhase
<1>1. CASE CreateJob(j) BY <1>1 DEF CreateJob, ReportTypes
<1>2. CASE Submit(j) BY <1>2 DEF Submit, ReportTypes
<1>3. CASE ProviderAccepts(j) BY <1>3, Ranks DEF ProviderAccepts, ReportTypes
<1>4. CASE ProviderRejects(j) BY <1>4 DEF ProviderRejects, ReportTypes
<1>5. CASE MarkAccepted(j) BY <1>5 DEF MarkAccepted, Settle, FirstRank, ReportTypes
<1>6. CASE AcceptanceNotRecorded(j) BY <1>6 DEF AcceptanceNotRecorded, ReportTypes
<1>7. CASE MarkDeliveryUnknown(j)
  <2>1. Settle(j, {"sending"}, "delivery_unknown", "delivery_unknown") /\ rank' = rank
    BY <1>7 DEF MarkDeliveryUnknown
  <2>2. QED BY <2>1, Zenon DEF Settle, ReportTypes
<1>8. CASE FailMessageJob(j) BY <1>8 DEF FailMessageJob, Settle, ReportTypes
<1>9. CASE FailWithoutOutcome(j) BY <1>9 DEF FailWithoutOutcome, ReportTypes
<1>10. CASE UpdateSourceOutcome(j) BY <1>10 DEF UpdateSourceOutcome, ReportTypes
<1>11. CASE OutcomeNotWritten(j) BY <1>11 DEF OutcomeNotWritten, ReportTypes
<1>12. CASE WorkerDies(j) BY <1>12 DEF WorkerDies, ReportTypes
<1>13. CASE CancelMessageJob(j) BY <1>13 DEF CancelMessageJob, ReportTypes
<1>14. CASE RecoverStaleMessageJob(j) BY <1>14 DEF RecoverStaleMessageJob, ReportTypes
<1>15. QED BY <1>1, <1>2, <1>3, <1>4, <1>5, <1>6, <1>7, <1>8, <1>9, <1>10, <1>11, <1>12,
              <1>13, <1>14 DEF WorkerStep

\* Each of them keeps what is said of the text it is about.
LEMMA WorkerKeepsText ==
    ASSUME ReportInv, NEW j \in Jobs, channel[j] = "sms", WorkerStep(j), ReportTypes'
    PROVE  StatusIsBacked(j)' /\ NotOvertaken(j)' /\ OutcomeFollows(j)' /\ FailureAlerted(j)'
<1>1. /\ StatusIsBacked(j) /\ NotOvertaken(j) /\ OutcomeFollows(j) /\ FailureAlerted(j)
      /\ ReportTypes
  BY DEF ReportInv, TextInv, TextJobs
<1> USE DEF jobVars, workVars, sourceVars, callHistory, ReportTypes,
            StatusIsBacked, NotOvertaken, OutcomeFollows, FailureAlerted
<1>2. CASE CreateJob(j) BY <1>1, <1>2 DEF CreateJob
<1>3. CASE Submit(j) BY <1>1, <1>3 DEF Submit
<1>4. CASE ProviderAccepts(j) BY <1>1, <1>4, Ranks DEF ProviderAccepts
<1>5. CASE ProviderRejects(j) BY <1>1, <1>5 DEF ProviderRejects
<1>6. CASE MarkAccepted(j) BY <1>1, <1>6 DEF MarkAccepted, Settle, FirstRank
<1>7. CASE AcceptanceNotRecorded(j) BY <1>1, <1>7 DEF AcceptanceNotRecorded
<1>8. CASE MarkDeliveryUnknown(j) BY <1>1, <1>8 DEF MarkDeliveryUnknown, Settle
<1>9. CASE FailMessageJob(j) BY <1>1, <1>9 DEF FailMessageJob, Settle
<1>10. CASE FailWithoutOutcome(j) BY <1>1, <1>10 DEF FailWithoutOutcome
<1>11. CASE UpdateSourceOutcome(j) BY <1>1, <1>11 DEF UpdateSourceOutcome
<1>12. CASE OutcomeNotWritten(j) BY <1>1, <1>12 DEF OutcomeNotWritten
<1>13. CASE WorkerDies(j) BY <1>1, <1>13 DEF WorkerDies
<1>14. CASE CancelMessageJob(j) BY <1>14 DEF CancelMessageJob
<1>15. CASE RecoverStaleMessageJob(j) BY <1>1, <1>15 DEF RecoverStaleMessageJob
<1>16. QED BY <1>2, <1>3, <1>4, <1>5, <1>6, <1>7, <1>8, <1>9, <1>10, <1>11, <1>12,
              <1>13, <1>14, <1>15 DEF WorkerStep

\* They change no other text.
LEMMA WorkerKeepsOthers ==
    ASSUME ReportTypes, NEW j \in Jobs, WorkerStep(j), NEW k \in Jobs \ {j}
    PROVE  /\ status'[k] = status[k] /\ rank'[k] = rank[k] /\ phase'[k] = phase[k]
           /\ provider'[k] = provider[k] /\ outcome'[k] = outcome[k]
           /\ UNCHANGED <<early, alerting, alerts, lost>>
BY DEF WorkerStep, CreateJob, Submit, ProviderAccepts, ProviderRejects, MarkAccepted,
       AcceptanceNotRecorded, MarkDeliveryUnknown, FailMessageJob, FailWithoutOutcome,
       UpdateSourceOutcome, OutcomeNotWritten, WorkerDies, CancelMessageJob,
       RecoverStaleMessageJob, Settle, jobVars, workVars, sourceVars, callHistory, ReportTypes

LEMMA WorkerKeeps ==
    ASSUME ReportInv, NEW j \in Jobs, WorkerStep(j)
    PROVE  ReportInv'
<1>1. ReportTypes' /\ channel' = channel BY WorkerTypes DEF ReportInv
<1>2. QED BY <1>1, WorkerKeepsText, WorkerKeepsOthers, OtherTexts DEF ReportInv

-------------------------------------------------------------------------------
\* Steps of Twilio and of the web requests that record its callbacks.
LEMMA ProviderProgressKeeps ==
    ASSUME ReportInv, NEW j \in Jobs, NEW s \in DOMAIN StatusRank, ProviderProgress(j, s)
    PROVE  ReportInv'
<1>1. ReportTypes' /\ channel' = channel
  BY Ranks DEF ProviderProgress, ReportInv, ReportTypes, jobVars, sourceVars
<1>2. StatusIsBacked(j)' /\ NotOvertaken(j)' /\ OutcomeFollows(j)' /\ FailureAlerted(j)'
  <2>1. /\ StatusIsBacked(j) /\ NotOvertaken(j) /\ OutcomeFollows(j) /\ FailureAlerted(j)
    BY DEF ReportInv, TextInv, TextJobs, ProviderProgress
  <2>2. provider[j] # "none" /\ provider[j] \notin {"failed", "canceled", "delivered"}
    BY Ranks DEF ProviderProgress
  <2>3. provider'[j] = s /\ s # "none"
    BY Ranks DEF ProviderProgress, ReportInv, ReportTypes
  <2>4. QED
    BY <2>1, <2>2, <2>3 DEF ProviderProgress, jobVars, sourceVars, callHistory,
                StatusIsBacked, NotOvertaken, OutcomeFollows, FailureAlerted
<1>3. QED BY <1>1, <1>2, OtherTexts
          DEF ProviderProgress, ReportInv, ReportTypes, jobVars, sourceVars, callHistory

LEMMA RecordKeeps ==
    ASSUME ReportInv, NEW j \in Jobs, NEW s \in DOMAIN StatusRank, RecordProviderEvent(j, s)
    PROVE  ReportInv'
<1>0. /\ StatusIsBacked(j) /\ NotOvertaken(j) /\ OutcomeFollows(j) /\ FailureAlerted(j)
      /\ ReportTypes /\ channel[j] = "sms"
  BY DEF ReportInv, TextInv, TextJobs, RecordProviderEvent, Emitted
<1>1. ReportTypes' /\ channel' = channel
  <2>1. StatusRank[s] \in {20, 30, 40, 100} BY Ranks
  <2>2. OutcomeOf(j, s) \in Outcome BY Ranks DEF OutcomeOf, Outcome
  <2>3. JobStatusOf(j, s) \in JobStatus BY <1>0 DEF JobStatusOf, ReportTypes, JobStatus
  <2>4. QED BY <1>0, <2>1, <2>2, <2>3 DEF RecordProviderEvent, ReportTypes, workVars
<1>2. StatusIsBacked(j)' /\ NotOvertaken(j)' /\ OutcomeFollows(j)' /\ FailureAlerted(j)'
  <2>1. /\ rank'[j] = StatusRank[s] /\ status'[j] = JobStatusOf(j, s)
        /\ outcome'[j] = OutcomeOf(j, s) /\ phase' = phase /\ provider' = provider
        /\ alerting' = IF AlertDue(j, s) THEN alerting \cup {j} ELSE alerting
        /\ early' = IF phase[j] # "ended" THEN early \cup {j} ELSE early
        /\ alerts' = alerts /\ lost' = lost
    BY <1>0 DEF RecordProviderEvent, ReportTypes, workVars
  <2>2. /\ provider[j] # "none"
        /\ s \in {"failed", "canceled", "delivered"} => provider[j] = s
    BY Ranks DEF RecordProviderEvent, Emitted
  <2>3. /\ status[j] \notin {"failed", "delivered"}
        /\ status[j] = "sent" => s \in {"sent", "delivered", "failed", "canceled"}
    BY <1>0, <2>2, Ranks DEF RecordProviderEvent, Advances, StatusIsBacked
  <2>4. j \notin alerting \cup alerts BY <1>0, <2>3 DEF FailureAlerted
  <2>5. s \in {"queued", "sending", "sent", "delivered", "failed", "canceled"} BY Ranks
  <2>6. StatusIsBacked(j)'
    BY <1>0, <2>1, <2>2, <2>3, <2>5, Ranks DEF StatusIsBacked, JobStatusOf
  <2>7. NotOvertaken(j)'
    BY <1>0, <2>1 DEF NotOvertaken
  <2>8. OutcomeFollows(j)'
    BY <1>0, <2>1, <2>3, <2>5, Ranks DEF OutcomeFollows, JobStatusOf, OutcomeOf
  <2>9. FailureAlerted(j)'
    BY <1>0, <2>1, <2>2, <2>3, <2>4, <2>5 DEF FailureAlerted, JobStatusOf, AlertDue
  <2>10. QED BY <2>6, <2>7, <2>8, <2>9
<1>3. QED BY <1>0, <1>1, <1>2, OtherTexts DEF RecordProviderEvent, ReportTypes, workVars, AlertDue

LEMMA AlertKeeps ==
    ASSUME ReportInv, NEW j \in Jobs, EnqueueDeliveryFailureAlert(j) \/ RequestDies(j)
    PROVE  ReportInv'
<1>1. ReportTypes' /\ channel' = channel
  BY DEF EnqueueDeliveryFailureAlert, RequestDies, ReportInv, ReportTypes, jobVars, workVars
<1>2. channel[j] = "sms" =>
        StatusIsBacked(j)' /\ NotOvertaken(j)' /\ OutcomeFollows(j)' /\ FailureAlerted(j)'
  BY DEF ReportInv, TextInv, TextJobs, EnqueueDeliveryFailureAlert, RequestDies, jobVars, workVars,
         callHistory, StatusIsBacked, NotOvertaken, OutcomeFollows, FailureAlerted
<1>3. QED BY <1>1, <1>2, OtherTexts
          DEF EnqueueDeliveryFailureAlert, RequestDies, jobVars, workVars, callHistory

LEMMA CallbackKeeps ==
    ASSUME ReportInv, NEW j \in Jobs, CallbackStep(j)
    PROVE  ReportInv'
BY ProviderProgressKeeps, RecordKeeps, AlertKeeps DEF CallbackStep

-------------------------------------------------------------------------------
\* Steps of the mail side touch no text.
LEMMA MailKeeps == ReportInv /\ MailStep => ReportInv'
<1> SUFFICES ASSUME ReportInv, MailStep PROVE ReportInv'
  OBVIOUS
<1>1. CASE RecordPermanentBounce
  <2>1. ReportTypes'
    <3>1. /\ status' \in [Jobs -> JobStatus]
          /\ rank' \in [Jobs -> {0, 10, 20, 30, 40, 100}]
      BY <1>1 DEF RecordPermanentBounce, ReportInv, ReportTypes, JobStatus
    <3>2. QED BY <1>1, <3>1 DEF RecordPermanentBounce, ReportInv, ReportTypes, workVars, sourceVars
  <2>2. ASSUME NEW j \in TextJobs' PROVE j \in TextJobs /\ status'[j] = status[j] /\ rank'[j] = rank[j]
    BY <1>1, <2>2 DEF RecordPermanentBounce, TextJobs, Latest, Bounceable
  <2>3. TextInv'
    <3>1. SUFFICES ASSUME NEW j \in TextJobs'
                   PROVE  StatusIsBacked(j)' /\ NotOvertaken(j)' /\ OutcomeFollows(j)' /\ FailureAlerted(j)'
      BY DEF TextInv
    <3>2. /\ j \in Jobs
          /\ StatusIsBacked(j) /\ NotOvertaken(j) /\ OutcomeFollows(j) /\ FailureAlerted(j)
      BY <2>2 DEF ReportInv, TextInv, TextJobs
    <3>3. UNCHANGED <<workVars, sourceVars, callHistory>>
      BY <1>1 DEF RecordPermanentBounce
    <3>4. QED BY <2>2, <3>2, <3>3, TextFrame DEF workVars, sourceVars, callHistory
  <2>4. QED BY <2>1, <2>3 DEF ReportInv
<1>2. CASE ~RecordPermanentBounce
  <2>1. UNCHANGED <<jobVars, workVars, sourceVars, callHistory>>
    BY <1>2 DEF MailStep, SyncStep, BounceArrives, OtherMailArrives, Arrives, SomebodyReads,
                SyncOutlookBounces, RecentInboxMessages, MarkMessageRead, SyncCompletes, SyncFails,
                SyncEnds, SyncTo
  <2>2. QED BY <2>1 DEF ReportInv, ReportTypes, TextInv, TextJobs, StatusIsBacked, NotOvertaken,
                OutcomeFollows, FailureAlerted, jobVars, workVars, sourceVars, callHistory
<1>3. QED BY <1>1, <1>2

LEMMA ReportStep == ReportInv /\ [Next]_vars => ReportInv'
<1> SUFFICES ASSUME ReportInv, [Next]_vars PROVE ReportInv'
  OBVIOUS
<1>1. CASE \E j \in Jobs : WorkerStep(j) \/ CallbackStep(j)
  BY <1>1, WorkerKeeps, CallbackKeeps
<1>2. CASE MailStep BY <1>2, MailKeeps
<1>3. CASE UNCHANGED vars
  BY <1>3 DEF vars, ReportInv, ReportTypes, TextInv, TextJobs, StatusIsBacked, NotOvertaken,
              OutcomeFollows, FailureAlerted, jobVars, workVars, sourceVars, callHistory
<1>4. QED BY <1>1, <1>2, <1>3 DEF Next

\* For any number of messages: the job, the source row and the alert of a text agree
\* with what Twilio has made of it, as ReportInv says.
THEOREM ReportsInvariant == Spec => []ReportInv
BY ReportInit, ReportStep, PTL DEF Spec

\* The source row agrees with the last callback, unless a callback came before the
\* worker's own write.
THEOREM OutcomeFollowsCallbacksHolds == Spec => []OutcomeFollowsCallbacks
<1>1. ReportInv => OutcomeFollowsCallbacks
  BY DEF ReportInv, TextInv, TextJobs, OutcomeFollows, OutcomeFollowsCallbacks
<1>2. QED BY <1>1, ReportsInvariant, PTL

\* A text that fails after acceptance is alerted once, unless the request died between
\* its two transactions.
THEOREM FailureIsAlertedHolds == Spec => []FailureIsAlerted
<1>1. ReportInv => FailureIsAlerted
  BY DEF ReportInv, TextInv, TextJobs, FailureAlerted, FailureIsAlerted
<1>2. QED BY <1>1, ReportsInvariant, PTL

-------------------------------------------------------------------------------
(* The page of the bounce sync.                                            *)

LEMMA LeastNumber ==
    ASSUME NEW T, T \subseteq Nat, T # {}
    PROVE  \E x \in T : \A y \in T : x <= y
<1> DEFINE R == OpToRel(<, Nat)
<1>1. \A x, y \in Nat : x < y => <<x, y>> \in R
  BY DEF OpToRel
<1>2. IsWellFoundedOn(R, Nat) BY NatLessThanWellFounded
<1> HIDE DEF R
<1>3. PICK x \in T : \A y \in T : ~(<<y, x>> \in R)
  BY <1>2, WFMin, Zenon
<1>4. ASSUME NEW y \in T PROVE x <= y
  <2>1. x \in Nat /\ y \in Nat OBVIOUS
  <2>2. ~(y < x) BY <1>1, <1>3, <2>1
  <2>3. QED BY <2>1, <2>2
<1>5. QED BY <1>3, <1>4

AtLeast(S, i) == {m \in S : m >= i}

\* Counted from the newest, every place of a finite set of positions is taken.
LEMMA EveryPlaceIsTaken ==
    ASSUME NEW S \in SUBSET Nat, IsFiniteSet(S), NEW k \in 1..Cardinality(S)
    PROVE  \E i \in S : Cardinality(AtLeast(S, i)) = k
<1> DEFINE n == Cardinality(S)
           Taken(b) == \E i \in S : Cardinality(AtLeast(S, i)) = n - b
           Bad == {b \in 0..(n - 1) : ~Taken(b)}
<1>1. n \in Nat BY FS_CardinalityType
<1>2. S # {} BY <1>1, FS_EmptySet
<1>3. Taken(0)
  <2>1. PICK x \in S : \A y \in S : x <= y BY <1>2, LeastNumber
  <2>2. AtLeast(S, x) = S BY <2>1 DEF AtLeast
  <2>3. QED BY <1>1, <2>2
<1>4. ASSUME NEW b \in Nat, b + 1 \in 0..(n - 1), Taken(b)
      PROVE  Taken(b + 1)
  <2>1. PICK i \in S : Cardinality(AtLeast(S, i)) = n - b BY <1>4
  <2> DEFINE Newer == AtLeast(S, i) \ {i}
  <2>2. IsFiniteSet(AtLeast(S, i)) BY FS_Subset DEF AtLeast
  <2>3. i \in AtLeast(S, i) BY DEF AtLeast
  <2>4. IsFiniteSet(Newer) /\ Cardinality(Newer) = n - b - 1
    BY <2>1, <2>2, <2>3, FS_RemoveElement
  <2>5. Newer # {} BY <1>1, <1>4, <2>4, FS_EmptySet
  <2>6. Newer \subseteq Nat BY DEF AtLeast
  <2>7. PICK j \in Newer : \A y \in Newer : j <= y
    <3> HIDE DEF Newer
    <3>1. QED BY <2>5, <2>6, LeastNumber
  <2>8. j \in S /\ j > i BY DEF AtLeast
  <2>9. AtLeast(S, j) = Newer
    <3>1. ASSUME NEW m \in AtLeast(S, j) PROVE m \in Newer
      BY <2>8 DEF AtLeast
    <3>2. ASSUME NEW m \in Newer PROVE m \in AtLeast(S, j)
      <4>1. j <= m BY <2>7, <3>2
      <4>2. m \in S /\ m \in Nat /\ j \in Nat BY <2>8 DEF AtLeast
      <4>3. QED BY <4>1, <4>2 DEF AtLeast
    <3> HIDE DEF Newer
    <3>3. QED BY <3>1, <3>2
  <2>10. n - b - 1 = n - (b + 1) BY <1>1
  <2>11. QED BY <2>4, <2>8, <2>9, <2>10
<1>5. Bad = {}
  <2> SUFFICES ASSUME Bad # {} PROVE FALSE
    OBVIOUS
  <2>1. Bad \subseteq Nat BY <1>1
  <2>2. PICK b \in Bad : \A c \in Bad : b <= c
    <3> HIDE DEF Bad
    <3>1. QED BY <2>1, LeastNumber
  <2> HIDE DEF Taken
  <2>3. b \in 0..(n - 1) /\ ~Taken(b) OBVIOUS
  <2>4. b # 0 BY <1>3, <2>3
  <2>5. b - 1 \in Nat /\ b - 1 \in 0..(n - 1) BY <1>1, <2>3, <2>4
  <2>6. Taken(b - 1)
    <3>1. b - 1 \notin Bad BY <2>2, <2>3
    <3>2. QED BY <2>5, <3>1
  <2>7. (b - 1) + 1 = b BY <2>3
  <2>8. QED BY <1>4, <2>3, <2>5, <2>6, <2>7
<1>6. n - k \in 0..(n - 1) /\ n - (n - k) = k BY <1>1
<1>7. Taken(n - k)
  <2> HIDE DEF Taken
  <2>1. QED BY <1>5, <1>6
<1> HIDE DEF n
<1>8. QED BY <1>6, <1>7, Zenon

\* The list of a page has each of its members once.
LEMMA NewestFirstLists ==
    ASSUME NEW S \in SUBSET Nat, IsFiniteSet(S)
    PROVE  /\ NewestFirst(S) \in Seq(S)
           /\ \A k, l \in DOMAIN NewestFirst(S) : NewestFirst(S)[k] = NewestFirst(S)[l] => k = l
<1> DEFINE n == Cardinality(S)
           Place(k) == CHOOSE i \in S : Cardinality(AtLeast(S, i)) = k
<1>1. n \in Nat BY FS_CardinalityType
<1>2. NewestFirst(S) = [k \in 1..n |-> Place(k)]
  BY DEF NewestFirst, AtLeast
<1>3. \A k \in 1..n : Place(k) \in S /\ Cardinality(AtLeast(S, Place(k))) = k
  BY EveryPlaceIsTaken
<1> HIDE DEF n, Place
<1>4. NewestFirst(S) \in [1..n -> S] BY <1>2, <1>3
<1>5. NewestFirst(S) \in Seq(S) BY <1>1, <1>4
<1>6. ASSUME NEW k \in 1..n, NEW l \in 1..n, Place(k) = Place(l)
      PROVE  k = l
  BY <1>3, <1>6
<1>7. QED BY <1>2, <1>5, <1>6

MailTypes ==
    /\ inbox \in Seq([about : Jobs \cup {Other}, read : BOOLEAN])
    /\ page \in Seq(Nat)
    /\ \A k \in DOMAIN page : page[k] \in DOMAIN inbox
    /\ \A k, l \in DOMAIN page : page[k] = page[l] => k = l
    /\ syncing = "mark" => page # <<>>
    /\ recorded \subseteq DOMAIN inbox
    /\ interrupted \in BOOLEAN

\* Only a report gives an e-mail the last rank.
FailedForGood ==
    \A j \in Jobs : channel[j] = "email" /\ rank[j] = 100 => status[j] = "failed"

\* While no run dies between recording and marking, what is recorded is read, but for
\* the report in hand, and so the rest of the page is not recorded.
NotRepeated ==
    /\ \A i \in recorded : inbox[i].read \/ (syncing = "mark" /\ i = page[1])
    /\ \A k \in DOMAIN page : page[k] \in recorded => syncing = "mark" /\ k = 1

MailInv ==
    /\ ReportTypes
    /\ MailTypes
    /\ FailedForGood
    /\ ~interrupted => NotRepeated
    /\ BouncesAreBacked

LEMMA BouncedIsFinite == IsFiniteSet(Bounced)
<1>1. IsFiniteSet(Jobs) BY FS_Interval, ReportConstants DEF Jobs
<1>2. Bounced \subseteq Jobs BY DEF Bounced
<1>3. QED BY <1>1, <1>2, FS_Subset

LEMMA RecordedIsFinite == MailTypes => IsFiniteSet(recorded) /\ Cardinality(recorded) \in Nat
<1> SUFFICES ASSUME MailTypes PROVE IsFiniteSet(recorded) /\ Cardinality(recorded) \in Nat
  OBVIOUS
<1>1. DOMAIN inbox = 1..Len(inbox) /\ Len(inbox) \in Nat BY DEF MailTypes
<1>2. IsFiniteSet(DOMAIN inbox) BY <1>1, FS_Interval
<1>3. recorded \in SUBSET (DOMAIN inbox) BY DEF MailTypes
<1>4. IsFiniteSet(recorded) BY <1>2, <1>3, FS_Subset
<1>5. QED BY <1>4, FS_CardinalityType

\* No step of a worker or of Twilio fails an e-mail for good.
LEMMA OthersBounceNothing ==
    ASSUME ReportTypes, FailedForGood, NEW j \in Jobs, WorkerStep(j) \/ CallbackStep(j),
           NEW k \in Jobs, channel[k] = "email", rank'[k] = 100
    PROVE  rank[k] = 100 /\ status'[k] = status[k]
<1> USE DEF ReportTypes, jobVars, workVars, sourceVars
<1>1. rank[k] = 100 => status[k] = "failed" BY DEF FailedForGood
<1>2. CASE k # j
  <2>1. CASE WorkerStep(j) BY <1>2, <2>1, WorkerKeepsOthers
  <2>2. CASE CallbackStep(j)
    BY <1>2, <2>2 DEF CallbackStep, ProviderProgress, RecordProviderEvent,
                      EnqueueDeliveryFailureAlert, RequestDies
  <2>3. QED BY <2>1, <2>2
<1>3. CASE k = j
  <2>1. CASE CreateJob(j) BY <1>1, <1>3, <2>1 DEF CreateJob
  <2>2. CASE Submit(j) BY <1>1, <1>3, <2>2 DEF Submit
  <2>3. CASE ProviderAccepts(j) BY <1>3, <2>3 DEF ProviderAccepts
  <2>4. CASE ProviderRejects(j) BY <1>3, <2>4 DEF ProviderRejects
  <2>5. CASE MarkAccepted(j) BY <1>1, <1>3, <2>5 DEF MarkAccepted, Settle, FirstRank
  <2>6. CASE AcceptanceNotRecorded(j) BY <1>3, <2>6 DEF AcceptanceNotRecorded
  <2>7. CASE MarkDeliveryUnknown(j) BY <1>1, <1>3, <2>7 DEF MarkDeliveryUnknown, Settle
  <2>8. CASE FailMessageJob(j) BY <1>1, <1>3, <2>8 DEF FailMessageJob, Settle
  <2>9. CASE FailWithoutOutcome(j) BY <1>1, <1>3, <2>9 DEF FailWithoutOutcome
  <2>10. CASE UpdateSourceOutcome(j) BY <1>3, <2>10 DEF UpdateSourceOutcome
  <2>11. CASE OutcomeNotWritten(j) BY <1>3, <2>11 DEF OutcomeNotWritten
  <2>12. CASE WorkerDies(j) BY <1>3, <2>12 DEF WorkerDies
  <2>13. CASE CancelMessageJob(j) BY <1>1, <1>3, <2>13 DEF CancelMessageJob
  <2>14. CASE RecoverStaleMessageJob(j) BY <1>1, <1>3, <2>14 DEF RecoverStaleMessageJob
  <2>15. CASE CallbackStep(j)
    BY <1>3, <2>15 DEF CallbackStep, ProviderProgress, RecordProviderEvent, Emitted,
                      EnqueueDeliveryFailureAlert, RequestDies
  <2>16. QED BY <2>1, <2>2, <2>3, <2>4, <2>5, <2>6, <2>7, <2>8, <2>9, <2>10, <2>11, <2>12,
                <2>13, <2>14, <2>15 DEF WorkerStep
<1>4. QED BY <1>2, <1>3

\* What a step that fails no e-mail for good has to keep.
LEMMA NothingBounces ==
    ASSUME MailInv, ReportTypes', MailTypes', channel' = channel, recorded' = recorded,
           \A k \in Jobs : channel[k] = "email" /\ rank'[k] = 100 => rank[k] = 100 /\ status'[k] = status[k],
           interrupted => interrupted',
           ~interrupted' => NotRepeated'
    PROVE  MailInv'
<1>1. Bounced' \subseteq Bounced BY DEF Bounced
<1>2. FailedForGood' BY DEF MailInv, FailedForGood
<1>3. Cardinality(Bounced') <= Cardinality(Bounced) BY <1>1, BouncedIsFinite, FS_Subset
<1>4. BouncesAreBacked'
  <2>1. Cardinality(Bounced) \in Nat /\ IsFiniteSet(Bounced') /\ Cardinality(Bounced') \in Nat
    BY <1>1, BouncedIsFinite, FS_Subset, FS_CardinalityType
  <2>2. Cardinality(recorded) \in Nat BY RecordedIsFinite DEF MailInv
  <2>3. ~interrupted => Cardinality(Bounced) <= Cardinality(recorded)
    BY DEF MailInv, BouncesAreBacked
  <2>4. ~interrupted' => Cardinality(Bounced') <= Cardinality(recorded')
    BY <1>3, <2>1, <2>2, <2>3
  <2>5. QED BY <2>4 DEF BouncesAreBacked
<1>5. QED BY <1>2, <1>4 DEF MailInv

LEMMA OthersKeepMail ==
    ASSUME MailInv, ReportTypes', NEW j \in Jobs, WorkerStep(j) \/ CallbackStep(j)
    PROVE  MailInv'
<1>1. UNCHANGED <<mailVars, mailHistory>>
  <2>1. CASE WorkerStep(j)
    BY <2>1 DEF WorkerStep, CreateJob, Submit, ProviderAccepts, ProviderRejects, MarkAccepted,
       AcceptanceNotRecorded, MarkDeliveryUnknown, FailMessageJob, FailWithoutOutcome,
       UpdateSourceOutcome, OutcomeNotWritten, WorkerDies, CancelMessageJob,
       RecoverStaleMessageJob, Settle
  <2>2. CASE CallbackStep(j)
    BY <2>2 DEF CallbackStep, ProviderProgress, RecordProviderEvent,
                EnqueueDeliveryFailureAlert, RequestDies
  <2>3. QED BY <2>1, <2>2
<1>2. channel' = channel
  BY WorkerTypes DEF MailInv, CallbackStep, ProviderProgress, RecordProviderEvent,
                EnqueueDeliveryFailureAlert, RequestDies, jobVars
<1>3. MailTypes' /\ (NotRepeated => NotRepeated')
  BY <1>1 DEF MailInv, MailTypes, NotRepeated, mailVars, mailHistory
<1>4. recorded' = recorded /\ interrupted' = interrupted BY <1>1 DEF mailHistory
<1>5. \A k \in Jobs : channel[k] = "email" /\ rank'[k] = 100 => rank[k] = 100 /\ status'[k] = status[k]
  BY OthersBounceNothing DEF MailInv
<1>6. QED BY <1>2, <1>3, <1>4, <1>5, NothingBounces DEF MailInv

Mail == [about : Jobs \cup {Other}, read : BOOLEAN]

\* The inbox grows or messages become read.
InboxAdvances ==
    /\ inbox' \in Seq(Mail)
    /\ DOMAIN inbox \subseteq DOMAIN inbox'
    /\ \A i \in DOMAIN inbox : inbox[i].read => inbox'[i].read

LEMMA InboxStep ==
    ASSUME MailTypes,
           \/ \E s \in Jobs \cup {Other} : inbox' = Append(inbox, [about |-> s, read |-> FALSE])
           \/ \E i \in DOMAIN inbox : inbox' = [inbox EXCEPT ![i].read = TRUE]
           \/ inbox' = inbox
    PROVE  InboxAdvances
<1>1. inbox \in Seq(Mail) BY DEF MailTypes, Mail
<1>2. CASE \E s \in Jobs \cup {Other} : inbox' = Append(inbox, [about |-> s, read |-> FALSE])
  <2>1. PICK s \in Jobs \cup {Other} : inbox' = Append(inbox, [about |-> s, read |-> FALSE])
    BY <1>2
  <2> DEFINE new == [about |-> s, read |-> FALSE]
  <2>2. new \in Mail /\ inbox' = Append(inbox, new) BY <2>1 DEF Mail
  <2> HIDE DEF Mail, new
  <2>3. /\ inbox' \in Seq(Mail)
        /\ Len(inbox) \in Nat /\ DOMAIN inbox = 1..Len(inbox) /\ DOMAIN inbox' = 1..(Len(inbox) + 1)
        /\ \A i \in 1..Len(inbox) : inbox'[i] = inbox[i]
    BY <1>1, <2>2
  <2>4. DOMAIN inbox \subseteq DOMAIN inbox'
    <3>1. \A n \in Nat : 1..n \subseteq 1..(n + 1) OBVIOUS
    <3>2. QED BY <2>3, <3>1, Zenon
  <2>5. \A i \in DOMAIN inbox : inbox'[i] = inbox[i] BY <2>3
  <2>6. QED BY <2>3, <2>4, <2>5, Zenon DEF InboxAdvances
<1>3. CASE \E i \in DOMAIN inbox : inbox' = [inbox EXCEPT ![i].read = TRUE]
  <2>1. PICK i \in DOMAIN inbox : inbox' = [inbox EXCEPT ![i].read = TRUE] BY <1>3
  <2>2. inbox[i] \in Mail BY <1>1
  <2>3. [inbox[i] EXCEPT !.read = TRUE] \in Mail /\ [inbox[i] EXCEPT !.read = TRUE].read
    BY <2>2 DEF Mail
  <2> DEFINE new == [inbox[i] EXCEPT !.read = TRUE]
  <2>4. inbox' = [inbox EXCEPT ![i] = new] BY <2>1
  <2> HIDE DEF new, Mail
  <2>5. new \in Mail /\ new.read BY <2>3 DEF new
  <2>6. inbox' \in Seq(Mail) /\ DOMAIN inbox' = DOMAIN inbox
    BY <1>1, <2>4, <2>5
  <2>7. \A m \in DOMAIN inbox : inbox'[m] = IF m = i THEN new ELSE inbox[m]
    BY <1>1, <2>4
  <2>8. QED BY <2>5, <2>6, <2>7 DEF InboxAdvances
<1>4. CASE inbox' = inbox BY <1>1, <1>4 DEF InboxAdvances
<1>5. QED BY <1>2, <1>3, <1>4

\* Mail that comes or is opened changes nothing the sync relies on.
LEMMA InboxKeepsMail ==
    ASSUME MailInv, ReportTypes',
           \/ \E j \in Jobs : BounceArrives(j)
           \/ OtherMailArrives
           \/ \E i \in DOMAIN inbox : SomebodyReads(i)
    PROVE  MailInv'
<1>1. /\ UNCHANGED <<channel, status, rank, page, syncing, recorded, interrupted>>
      /\ \/ \E s \in Jobs \cup {Other} : inbox' = Append(inbox, [about |-> s, read |-> FALSE])
         \/ \E i \in DOMAIN inbox : inbox' = [inbox EXCEPT ![i].read = TRUE]
  BY DEF BounceArrives, OtherMailArrives, Arrives, SomebodyReads, jobVars, mailHistory
<1>2. InboxAdvances BY <1>1, InboxStep DEF MailInv
<1>3. MailTypes'
  BY <1>1, <1>2 DEF MailInv, MailTypes, InboxAdvances, Mail
<1>4. NotRepeated => NotRepeated'
  BY <1>1, <1>2 DEF MailInv, MailTypes, NotRepeated, InboxAdvances
<1>5. QED BY <1>1, <1>3, <1>4, NothingBounces DEF MailInv

\* The steps of the sync that record nothing.
LEMMA ReadingKeepsMail ==
    ASSUME MailInv, ReportTypes', SyncOutlookBounces \/ RecentInboxMessages
    PROVE  MailInv'
<1>1. UNCHANGED <<channel, status, rank, inbox, recorded, interrupted>> /\ syncing' \in {"known", "page"}
  BY DEF SyncOutlookBounces, RecentInboxMessages, SyncTo, jobVars
<1>2. CASE SyncOutlookBounces
  <2>1. page' = page /\ syncing = "idle" BY <1>2 DEF SyncOutlookBounces
  <2>2. MailTypes' BY <1>1, <2>1 DEF MailInv, MailTypes
  <2>3. NotRepeated => NotRepeated' BY <1>1, <2>1 DEF NotRepeated
  <2>4. QED BY <1>1, <2>2, <2>3, NothingBounces DEF MailInv
<1>3. CASE RecentInboxMessages
  <2>1. page' = NewestFirst(Actionable) /\ syncing = "known" BY <1>3 DEF RecentInboxMessages
  <2>2. Actionable \in SUBSET (DOMAIN inbox) /\ \A i \in Actionable : ~inbox[i].read
    BY DEF Actionable, NewestPage
  <2>3. DOMAIN inbox = 1..Len(inbox) /\ Len(inbox) \in Nat BY DEF MailInv, MailTypes
  <2>4. IsFiniteSet(Actionable) /\ Actionable \in SUBSET Nat
    <3>1. IsFiniteSet(DOMAIN inbox) /\ DOMAIN inbox \subseteq Nat BY <2>3, FS_Interval
    <3>2. QED BY <2>2, <3>1, FS_Subset
  <2>5. page' \in Seq(Actionable) /\ \A k, l \in DOMAIN page' : page'[k] = page'[l] => k = l
    BY <2>1, <2>4, NewestFirstLists
  <2>6. \A k \in DOMAIN page' : page'[k] \in Actionable
    BY <2>5
  <2>7. page' \in Seq(Nat)
    <3>1. Len(page') \in Nat /\ DOMAIN page' = 1..Len(page') /\ page' = [k \in DOMAIN page' |-> page'[k]]
      BY <2>5
    <3>2. page' \in [1..Len(page') -> Nat] BY <2>4, <2>6, <3>1
    <3>3. QED BY <3>1, <3>2
  <2>8. MailTypes'
    BY <1>1, <2>2, <2>5, <2>6, <2>7 DEF MailInv, MailTypes
  <2>9. NotRepeated => NotRepeated'
    BY <1>1, <2>1, <2>2, <2>6 DEF NotRepeated
  <2>10. QED BY <1>1, <2>8, <2>9, NothingBounces DEF MailInv
<1>4. QED BY <1>2, <1>3

LEMMA MarkKeepsMail ==
    ASSUME MailInv, ReportTypes', MarkMessageRead
    PROVE  MailInv'
<1>1. /\ UNCHANGED <<channel, status, rank, recorded, interrupted>>
      /\ syncing = "mark" /\ syncing' = "page" /\ page' = Tail(page)
      /\ inbox' = [inbox EXCEPT ![Head(page)].read = TRUE]
  BY DEF MarkMessageRead, SyncTo, jobVars
<1>2. page \in Seq(Nat) /\ page # <<>> BY <1>1 DEF MailInv, MailTypes
<1>3. Head(page) = page[1] /\ 1 \in DOMAIN page /\ page[1] \in DOMAIN inbox
  BY <1>2 DEF MailInv, MailTypes
<1>4. InboxAdvances BY <1>1, <1>3, InboxStep DEF MailInv
<1>5. /\ page' \in Seq(Nat)
      /\ \A k \in DOMAIN page' : k + 1 \in DOMAIN page /\ k + 1 # 1 /\ k \in Int /\ page'[k] = page[k + 1]
  BY <1>1, <1>2
<1>6. MailTypes'
  <2>1. \A k \in DOMAIN page' : page'[k] \in DOMAIN inbox' 
    BY <1>4, <1>5 DEF MailInv, MailTypes, InboxAdvances
  <2>2. \A k, l \in DOMAIN page' : page'[k] = page'[l] => k = l
    <3>1. \A k, l \in DOMAIN page' : page'[k] = page'[l] => k + 1 = l + 1
      BY <1>5 DEF MailInv, MailTypes
    <3>2. QED BY <1>5, <3>1
  <2>3. inbox' \in Seq(Mail) /\ recorded' \subseteq DOMAIN inbox'
    BY <1>1, <1>4 DEF MailInv, MailTypes, InboxAdvances
  <2>4. QED BY <1>1, <1>5, <2>1, <2>2, <2>3 DEF MailInv, MailTypes, Mail
<1>7. NotRepeated => NotRepeated'
  <2> SUFFICES ASSUME NotRepeated PROVE NotRepeated'
    OBVIOUS
  <2>1. inbox'[page[1]].read
    <3> DEFINE p == page[1]
               new == [inbox[p] EXCEPT !.read = TRUE]
    <3>1. p \in DOMAIN inbox /\ inbox[p] \in Mail
      <4>1. inbox \in Seq(Mail) BY DEF MailInv, MailTypes, Mail
      <4> HIDE DEF Mail
      <4>2. QED BY <1>3, <4>1
    <3>2. new.read BY <3>1 DEF Mail
    <3>3. inbox' = [inbox EXCEPT ![p] = new] BY <1>1, <1>3
    <3> HIDE DEF new
    <3>4. inbox'[p] = new BY <3>1, <3>3 DEF MailInv, MailTypes
    <3>5. QED BY <3>2, <3>4
  <2>2. \A i \in recorded' : inbox'[i].read
    BY <1>1, <1>4, <2>1 DEF NotRepeated, InboxAdvances, MailInv, MailTypes
  <2>3. \A k \in DOMAIN page' : page'[k] \notin recorded'
    BY <1>1, <1>5 DEF NotRepeated
  <2>4. QED BY <2>2, <2>3 DEF NotRepeated
<1>8. QED BY <1>1, <1>6, <1>7, NothingBounces DEF MailInv

LEMMA SyncEndKeepsMail ==
    ASSUME MailInv, ReportTypes', SyncEnds
    PROVE  MailInv'
<1>1. /\ UNCHANGED <<channel, status, rank, inbox, recorded>>
      /\ syncing' = "idle" /\ page' = <<>>
      /\ interrupted' = (interrupted \/ syncing = "mark")
  BY DEF SyncEnds, SyncTo, jobVars
<1>2. MailTypes'
  <2>1. page' \in Seq(Nat) /\ DOMAIN page' = {} BY <1>1
  <2>2. interrupted' \in BOOLEAN BY <1>1, Zenon DEF MailInv, MailTypes
  <2>3. QED BY <1>1, <2>1, <2>2 DEF MailInv, MailTypes
<1>3. interrupted => interrupted' BY <1>1, Zenon
<1>4. ~interrupted' => ~interrupted /\ syncing # "mark" BY <1>1, Zenon
<1>5. ~interrupted' => NotRepeated'
  <2>1. DOMAIN page' = {} BY <1>1
  <2>2. QED BY <1>1, <1>4, <2>1 DEF MailInv, NotRepeated
<1>6. QED BY <1>1, <1>2, <1>3, <1>5, NothingBounces

\* The step that records a report fails one e-mail at most, and a report that no step
\* has recorded before.
LEMMA RecordKeepsMail ==
    ASSUME MailInv, ReportTypes', RecordPermanentBounce
    PROVE  MailInv'
<1>1. /\ UNCHANGED <<channel, inbox, page, interrupted>>
      /\ syncing = "page" /\ syncing' = "mark" /\ page # <<>>
      /\ recorded' = recorded \cup {Head(page)}
      /\ \A j \in Jobs : rank'[j] = IF j \in Latest THEN 100 ELSE rank[j]
      /\ \A j \in Jobs : status'[j] = IF j \in Latest THEN "failed"
                           ELSE IF channel[j] = "email" /\ status[j] = "queued" THEN "cancelled"
                           ELSE status[j]
  BY DEF RecordPermanentBounce
<1>2. Head(page) = page[1] /\ 1 \in DOMAIN page /\ page[1] \in DOMAIN inbox
  BY <1>1 DEF MailInv, MailTypes
<1>3. MailTypes'
  BY <1>1, <1>2 DEF MailInv, MailTypes
<1>4. FailedForGood'
  BY <1>1 DEF MailInv, FailedForGood
<1>5. NotRepeated => NotRepeated' /\ Head(page) \notin recorded
  <2> SUFFICES ASSUME NotRepeated PROVE NotRepeated' /\ Head(page) \notin recorded
    OBVIOUS
  <2>1. \A k \in DOMAIN page : page[k] \notin recorded BY <1>1 DEF NotRepeated
  <2>2. \A k \in DOMAIN page : page[k] = page[1] => k = 1
    BY <1>2 DEF MailInv, MailTypes
  <2>3. \A k \in DOMAIN page' : page'[k] \in recorded' => syncing' = "mark" /\ k = 1
    BY <1>1, <1>2, <2>1, <2>2
  <2>4. \A i \in recorded' : inbox'[i].read \/ (syncing' = "mark" /\ i = page'[1])
    BY <1>1, <1>2 DEF NotRepeated
  <2>5. QED BY <1>2, <2>1, <2>3, <2>4 DEF NotRepeated
<1>6. BouncesAreBacked'
  <2> SUFFICES ASSUME ~interrupted
               PROVE  Cardinality(Bounced') <= Cardinality(recorded')
    BY <1>1 DEF BouncesAreBacked
  <2>1. IsFiniteSet(Bounced) /\ Cardinality(Bounced) \in Nat
    BY BouncedIsFinite, FS_CardinalityType
  <2>2. IsFiniteSet(recorded) /\ Cardinality(recorded) \in Nat
    BY RecordedIsFinite DEF MailInv
  <2>3. Cardinality(Bounced) <= Cardinality(recorded) BY DEF MailInv, BouncesAreBacked
  <2>4. Cardinality(recorded') = Cardinality(recorded) + 1
    BY <1>1, <1>5, <2>2, FS_AddElement DEF MailInv
  <2>5. \A j, k \in Latest : j = k BY DEF Latest, Bounceable, Jobs
  <2>6. Bounced' \subseteq Bounced \cup Latest BY <1>1 DEF Bounced
  <2>7. PICK x : Bounced' \subseteq Bounced \cup {x}
    <3>1. CASE Latest = {} BY <2>6, <3>1
    <3>2. CASE Latest # {} BY <2>5, <2>6, <3>2
    <3>3. QED BY <3>1, <3>2
  <2>8. IsFiniteSet(Bounced \cup {x}) /\ Cardinality(Bounced \cup {x}) <= Cardinality(Bounced) + 1
    BY <2>1, FS_AddElement
  <2>9. Cardinality(Bounced') <= Cardinality(Bounced \cup {x}) /\ IsFiniteSet(Bounced')
    BY <2>7, <2>8, FS_Subset
  <2>10. Cardinality(Bounced') \in Nat /\ Cardinality(Bounced \cup {x}) \in Nat
    BY <2>8, <2>9, FS_CardinalityType
  <2>11. QED BY <2>1, <2>2, <2>3, <2>4, <2>8, <2>9, <2>10
<1>7. QED BY <1>1, <1>3, <1>4, <1>5, <1>6 DEF MailInv

LEMMA MailStart == Init => MailInv
<1> SUFFICES ASSUME Init PROVE MailInv
  OBVIOUS
<1>1. ReportTypes BY ReportInit DEF ReportInv
<1>2. DOMAIN inbox = {} /\ DOMAIN page = {} /\ recorded = {} BY DEF Init
<1>3. MailTypes
  <2>1. inbox = <<>> /\ page = <<>> /\ syncing = "idle" /\ interrupted = FALSE BY DEF Init
  <2>2. inbox \in Seq(Mail) /\ page \in Seq(Nat) BY <2>1
  <2>3. QED BY <1>2, <2>1, <2>2 DEF MailTypes, Mail
<1>4. FailedForGood BY DEF Init, FailedForGood
<1>5. NotRepeated BY <1>2 DEF NotRepeated
<1>6. Bounced = {} BY DEF Init, Bounced
<1>7. BouncesAreBacked BY <1>2, <1>6, FS_EmptySet DEF BouncesAreBacked
<1>8. QED BY <1>1, <1>3, <1>4, <1>5, <1>7 DEF MailInv

\* What is recorded is read, one e-mail fails for a report, and no report is recorded
\* twice unless a run dies between recording and marking: as MailInv says.
THEOREM MailInvariant == Spec => []MailInv
<1>1. MailInv /\ ReportTypes' /\ [Next]_vars => MailInv'
  <2> SUFFICES ASSUME MailInv, ReportTypes', [Next]_vars PROVE MailInv'
    OBVIOUS
  <2>1. CASE \E j \in Jobs : WorkerStep(j) \/ CallbackStep(j) BY <2>1, OthersKeepMail
  <2>2. CASE MailStep
    <3>1. CASE \E j \in Jobs : BounceArrives(j) BY <3>1, InboxKeepsMail
    <3>2. CASE OtherMailArrives BY <3>2, InboxKeepsMail
    <3>3. CASE \E i \in DOMAIN inbox : SomebodyReads(i) BY <3>3, InboxKeepsMail
    <3>4. CASE SyncOutlookBounces \/ RecentInboxMessages BY <3>4, ReadingKeepsMail
    <3>5. CASE RecordPermanentBounce BY <3>5, RecordKeepsMail
    <3>6. CASE MarkMessageRead BY <3>6, MarkKeepsMail
    <3>7. CASE SyncCompletes \/ SyncFails
      <4>1. SyncEnds BY <3>7 DEF SyncCompletes, SyncFails
      <4>2. QED BY <4>1, SyncEndKeepsMail
    <3>8. QED BY <2>2, <3>1, <3>2, <3>3, <3>4, <3>5, <3>6, <3>7 DEF MailStep, SyncStep
  <2>3. CASE UNCHANGED vars
    <3>1. UNCHANGED <<channel, status, rank, inbox, page, syncing, recorded, interrupted>>
      BY <2>3 DEF vars, jobVars, mailVars, mailHistory
    <3>2. MailTypes' /\ (NotRepeated => NotRepeated') BY <3>1 DEF MailInv, MailTypes, NotRepeated
    <3>3. QED BY <3>1, <3>2, NothingBounces DEF MailInv
  <2>4. QED BY <2>1, <2>2, <2>3 DEF Next
<1>2. Spec => []ReportTypes
  <2>1. ReportInv => ReportTypes BY DEF ReportInv
  <2>2. QED BY <2>1, ReportsInvariant, PTL
<1>3. QED BY MailStart, <1>1, <1>2, PTL DEF Spec

\* There are as many recorded reports as e-mails failed for good, across any number of
\* runs, unless one died between recording a report and marking it as read: for any
\* number of messages, any inbox and any size of its page.
THEOREM BouncesAreBackedHolds == Spec => []BouncesAreBacked
<1>1. MailInv => BouncesAreBacked BY DEF MailInv
<1>2. QED BY <1>1, MailInvariant, PTL
================================================================================
