------------------------- MODULE ServiceNoticesProofs --------------------------
(***************************************************************************)
(* Theorems about ServiceNotices.  The types of the outbox come from       *)
(* MessageOutboxProofs: every step of a notice that touches the outbox is  *)
(* a step of the outbox or changes nothing but status.                     *)
(***************************************************************************)
EXTENDS ServiceNotices, MessageOutboxProofs

\* A message in one of these statuses may still be handed to the provider.
Live == {"queued", "retry", "leased", "sending"}

-------------------------------------------------------------------------------
(* What a step of the outbox can do to a job.                              *)

LEMMA OutboxStepIsNext == OutboxStep => Next
BY DEF OutboxStep, Next, WebStep

\* Only an insertion or an administrator brings a message back to life.
LEMMA OutboxKeepsDead ==
    ASSUME TypeOK, OutboxStep, NEW j \in Jobs, status[j] \notin Live
    PROVE  status'[j] \notin Live
<1> USE DEF Live
<1>1. ASSUME NEW w \in Runs, RunStep(w) PROVE status'[j] \notin Live
    <2>1. CASE CancelMessageJob(w)
        BY <2>1 DEF CancelMessageJob, Settle, Owns, TypeOK
    <2>2. CASE MarkSending(w)
        BY <2>2 DEF MarkSending, Owns, TypeOK
    <2>3. CASE MarkAccepted(w)
        BY <2>3 DEF MarkAccepted, Settle, Owns, TypeOK
    <2>4. CASE MarkDeliveryUnknown(w)
        BY <2>4 DEF MarkDeliveryUnknown, Settle, Owns, TypeOK
    <2>5. CASE FailMessageJob(w)
        BY <2>5 DEF FailMessageJob, Settle, Owns, TypeOK
    <2>6. CASE status' = status
        BY <2>6
    <2> QED BY <1>1, <2>1, <2>2, <2>3, <2>4, <2>5, <2>6
            DEF RunStep, RenderFails, ClaimLost, ProviderAccepts, ProviderRejects, jobVars,
                AcceptanceNotRecorded, EndRun, Crash, StopRun, Recheck
<1>2. ASSUME NEW w \in Runs, NEW batch \in SUBSET Jobs, ClaimMessageJobs(w, batch)
      PROVE  status'[j] \notin Live
    BY <1>2 DEF ClaimMessageJobs, Claimable, TypeOK
<1>3. CASE MaintenanceStep
    BY <1>3 DEF MaintenanceStep, LeaseExpires, PurgeAttempts, RecoverStaleMessageJobs,
                Stale, CancelSuppressedQueuedJobs, CancelPending, TypeOK
<1>4. ASSUME NEW d \in Destinations, Suppress(d) \/ Unsuppress(d)
      PROVE  status'[j] \notin Live
    BY <1>4 DEF Suppress, Unsuppress, CancelPending, jobVars
<1>5. ASSUME NEW k \in Jobs, NEW n \in AttemptNumbers, NEW s \in ProviderStatus,
             ProviderProgress(k, n, s) \/ TwilioStatus(k, n, s)
      PROVE  status'[j] \notin Live
    BY <1>5 DEF ProviderProgress, TwilioStatus, StatusAfter, jobVars, TypeOK
<1> QED BY <1>1, <1>2, <1>3, <1>4, <1>5 DEF OutboxStep, WorkerStep

\* A run comes to submit a job only from the lease.
LEMMA OutboxSubmitsLeased ==
    ASSUME TypeOK, OutboxStep, NEW j \in Jobs, NEW v \in Runs,
           cur'[v] = j, pc'[v] = "submitted"
    PROVE  (cur[v] = j /\ pc[v] = "submitted") \/ status[j] = "leased"
<1>1. ASSUME NEW w \in Runs, RunStep(w)
      PROVE  (cur[v] = j /\ pc[v] = "submitted") \/ status[j] = "leased"
    <2>1. CASE MarkSending(w)
        BY <2>1 DEF MarkSending, GoTo, Owns, TypeOK
    <2>2. CASE EndRun(w) \/ Crash(w)
        BY <2>2 DEF EndRun, Crash, StopRun, TypeOK
    <2>3. CASE BackToBatch(w)
        BY <2>3 DEF BackToBatch, GoTo, TypeOK
    <2>4. ASSUME NEW k \in Jobs, Recheck(w, k)
          PROVE  cur[v] = j /\ pc[v] = "submitted"
        BY <2>4 DEF Recheck, GoTo, TypeOK
    <2>5. ASSUME NEW phase, phase # "submitted", GoTo(w, phase), UNCHANGED cur
          PROVE  cur[v] = j /\ pc[v] = "submitted"
        BY <2>5 DEF GoTo, TypeOK
    <2>6. CASE RenderFails(w) \/ AcceptanceNotRecorded(w)
        BY <2>5, <2>6 DEF RenderFails, AcceptanceNotRecorded
    <2>7. ASSUME NEW answer \in RunPhase,
                 ProviderAccepts(w, answer) \/ ProviderRejects(w, answer)
          PROVE  cur[v] = j /\ pc[v] = "submitted"
        BY <2>5, <2>7 DEF ProviderAccepts, ProviderRejects
    <2> QED BY <1>1, <2>1, <2>2, <2>3, <2>4, <2>6, <2>7
            DEF RunStep, CancelMessageJob, ClaimLost, MarkAccepted, MarkDeliveryUnknown,
                FailMessageJob
<1>2. ASSUME NEW w \in Runs, NEW batch \in SUBSET Jobs, ClaimMessageJobs(w, batch)
      PROVE  cur[v] = j /\ pc[v] = "submitted"
    BY <1>2 DEF ClaimMessageJobs, TypeOK
<1>3. CASE UNCHANGED runVars
    BY <1>3 DEF runVars
<1> QED BY <1>1, <1>2, <1>3
        DEF OutboxStep, WorkerStep, MaintenanceStep, LeaseExpires, PurgeAttempts,
            RecoverStaleMessageJobs, CancelSuppressedQueuedJobs, Suppress, Unsuppress,
            ProviderProgress, TwilioStatus

\* The provider gets a message only from a run that is submitting it.
LEMMA HandOverIsSubmission ==
    ASSUME TypeOK, OutboxStep, NEW j \in Jobs, ~(HandedOver(j)' \subseteq HandedOver(j))
    PROVE  \E w \in Runs : cur[w] = j /\ pc[w] = "submitted"
<1>1. ASSUME NEW w \in Runs, NEW answer \in RunPhase, ProviderAccepts(w, answer)
      PROVE  \E v \in Runs : cur[v] = j /\ pc[v] = "submitted"
    BY <1>1 DEF ProviderAccepts, HandedOver, TypeOK
<1>2. ASSUME NEW k \in Jobs, NEW n \in AttemptNumbers, NEW s \in ProviderStatus,
             ProviderProgress(k, n, s)
      PROVE  FALSE
    BY <1>2 DEF ProviderProgress, HandedOver, TypeOK, ProviderStatus
<1>3. ASSUME UNCHANGED provider PROVE FALSE
    BY <1>3 DEF HandedOver
<1> QED BY <1>1, <1>2, <1>3
        DEF OutboxStep, WorkerStep, RunStep, CancelMessageJob, RenderFails, MarkSending,
            ClaimLost, ProviderRejects, MarkAccepted, AcceptanceNotRecorded,
            MarkDeliveryUnknown, FailMessageJob, EndRun, Crash, StopRun, Recheck,
            ClaimMessageJobs, MaintenanceStep, LeaseExpires, PurgeAttempts,
            RecoverStaleMessageJobs, CancelSuppressedQueuedJobs, Suppress, Unsuppress,
            TwilioStatus

-------------------------------------------------------------------------------
(* The steps of the notices.                                               *)

LEMMA NoticeInitInv == NoticeInit => NoticeInv
<1> SUFFICES ASSUME NoticeInit PROVE NoticeInv
    OBVIOUS
<1>1. TypeOK
    BY InitType DEF NoticeInit
<1> QED BY <1>1, NoticeConstants
        DEF NoticeInit, NoticeInv, NoticeTypeOK, NoticeStatus, LeftoversWereClaimed,
            RecalledIsNotSubmitted

\* A step that leaves every notice, the history and the statuses alone.
LEMMA QuietStepKeepsNotices ==
    ASSUME NoticeInv, UNCHANGED <<vars, notice, historyVars>>,
           phoneOf' \in [Customers -> Destinations \cup {None}],
           recipients' \in [Notices -> SUBSET Destinations]
    PROVE  NoticeInv'
<1>1. TypeOK'
    BY NextType DEF NoticeInv, NoticeTypeOK
<1> QED BY <1>1
        DEF NoticeInv, NoticeTypeOK, LeftoversWereClaimed, RecalledIsNotSubmitted, vars,
            jobVars, runVars, historyVars

\* A step that touches no more of the outbox than the statuses keeps its types.
LEMMA StatusStepType ==
    ASSUME TypeOK, status' \in [Jobs -> JobStatus],
           UNCHANGED <<attempts, owner, lease, sid, rank, recorded, runVars, envVars,
                       provider, retriedAt>>
    PROVE  TypeOK'
BY DEF TypeOK, runVars, envVars

LEMMA OutboxKeepsNotices ==
    ASSUME NoticeInv, OutboxStep, UNCHANGED noticeVars
    PROVE  NoticeInv'
<1> USE DEF noticeVars, historyVars
<1>1. TypeOK /\ TypeOK'
    BY OutboxStepIsNext, NextType DEF NoticeInv, NoticeTypeOK
<1>2. NoticeTypeOK'
    BY <1>1 DEF NoticeInv, NoticeTypeOK
<1>3. LeftoversWereClaimed'
    BY <1>1, OutboxKeepsDead DEF NoticeInv, LeftoversWereClaimed, Live
<1>4. ASSUME NEW j \in recalled \ (revived \cup spared), NEW w \in Runs,
             cur'[w] = j, pc'[w] = "submitted"
      PROVE  FALSE
    <2>1. j \in Jobs /\ notice[Notice[j]] = "cancelled" /\ status[j] \notin Live
        BY DEF NoticeInv, NoticeTypeOK, LeftoversWereClaimed, RecalledIsNotSubmitted, Live
    <2> QED BY <1>1, <1>4, <2>1, OutboxSubmitsLeased
            DEF NoticeInv, RecalledIsNotSubmitted, Live
<1>5. RecalledIsNotSubmitted'
    BY <1>4 DEF NoticeInv, RecalledIsNotSubmitted
<1> QED BY <1>2, <1>3, <1>5 DEF NoticeInv

LEMMA EnqueueKeepsNotices ==
    ASSUME NoticeInv, NEW n \in Notices, EnqueueServiceNotice(n)
    PROVE  NoticeInv'
<1> USE NoticeConstants DEF EnqueueServiceNotice, historyVars
<1>1. status' \in [Jobs -> JobStatus]
    BY DEF NoticeInv, NoticeTypeOK, TypeOK, JobStatus
<1>2. NoticeTypeOK'
    BY <1>1, StatusStepType DEF NoticeInv, NoticeTypeOK, NoticeStatus
<1>3. LeftoversWereClaimed'
    BY DEF NoticeInv, NoticeTypeOK, LeftoversWereClaimed
<1>4. RecalledIsNotSubmitted'
    BY DEF NoticeInv, NoticeTypeOK, RecalledIsNotSubmitted, runVars
<1> QED BY <1>2, <1>3, <1>4 DEF NoticeInv

\* The notice is marked and its waiting messages are cancelled: what is left of
\* it is with a worker.
LEMMA CancelKeepsNotices ==
    ASSUME NoticeInv, NEW n \in Notices, CancelServiceNotice(n)
    PROVE  NoticeInv'
<1> USE NoticeConstants DEF CancelServiceNotice, JobsOf
<1>1. status' \in [Jobs -> JobStatus]
    BY DEF NoticeInv, NoticeTypeOK, TypeOK, JobStatus
<1>2. NoticeTypeOK'
    BY <1>1, StatusStepType DEF NoticeInv, NoticeTypeOK, NoticeStatus, Recall, WithWorker
<1>3. LeftoversWereClaimed'
    BY DEF NoticeInv, NoticeTypeOK, TypeOK, LeftoversWereClaimed, Recall, WithWorker
<1>4. RecalledIsNotSubmitted'
    BY DEF NoticeInv, NoticeTypeOK, RecalledIsNotSubmitted, Recall, WithWorker, runVars
<1> QED BY <1>2, <1>3, <1>4 DEF NoticeInv

LEMMA RetryKeepsNotices ==
    ASSUME NoticeInv, NEW j \in Jobs, RetryNoticeJob(j)
    PROVE  NoticeInv'
<1> USE NoticeConstants DEF RetryNoticeJob
<1>1. RetryDeadOrFailedJob(j) /\ Next
    BY DEF Next, WebStep
<1>2. TypeOK /\ TypeOK'
    BY <1>1, NextType DEF NoticeInv, NoticeTypeOK
<1>3. NoticeTypeOK'
    BY <1>2 DEF NoticeInv, NoticeTypeOK
<1>4. LeftoversWereClaimed'
    BY <1>1, <1>2 DEF NoticeInv, NoticeTypeOK, LeftoversWereClaimed, RetryDeadOrFailedJob,
                      Settle, TypeOK
<1>5. RecalledIsNotSubmitted'
    BY <1>1 DEF NoticeInv, NoticeTypeOK, RecalledIsNotSubmitted, RetryDeadOrFailedJob, runVars
<1> QED BY <1>3, <1>4, <1>5 DEF NoticeInv

LEMMA NoticeNextInv == NoticeInv /\ [NoticeNext]_allVars => NoticeInv'
<1> SUFFICES ASSUME NoticeInv, [NoticeNext]_allVars PROVE NoticeInv'
    OBVIOUS
<1> USE NoticeConstants
<1>1. CASE OutboxStep /\ UNCHANGED noticeVars
    BY <1>1, OutboxKeepsNotices
<1>2. ASSUME NEW c \in Customers, NEW p \in Destinations, NewReviewCampaign(c, p)
      PROVE  NoticeInv'
    BY <1>2, QuietStepKeepsNotices DEF NewReviewCampaign, NoticeInv, NoticeTypeOK
<1>3. ASSUME NEW n \in Notices, NEW selected \in SUBSET Customers,
             ReadRecipients(n, selected)
      PROVE  NoticeInv'
    <2>1. RecipientRows(selected) \in SUBSET Destinations
        BY DEF RecipientRows, NoticeInv, NoticeTypeOK
    <2>2. TypeOK'
        BY <1>3, NextType DEF ReadRecipients, NoticeInv, NoticeTypeOK
    <2>3. NoticeTypeOK'
        BY <1>3, <2>1, <2>2
        DEF ReadRecipients, NoticeInv, NoticeTypeOK, NoticeStatus, historyVars
    <2>4. \A j \in Jobs : notice'[Notice[j]] = "cancelled" <=> notice[Notice[j]] = "cancelled"
        BY <1>3 DEF ReadRecipients, NoticeInv, NoticeTypeOK
    <2> QED BY <1>3, <2>3, <2>4
            DEF ReadRecipients, NoticeInv, NoticeTypeOK, LeftoversWereClaimed,
                RecalledIsNotSubmitted, vars, jobVars, runVars, historyVars
<1>4. ASSUME NEW n \in Notices, EnqueueServiceNotice(n) PROVE NoticeInv'
    BY <1>4, EnqueueKeepsNotices
<1>5. ASSUME NEW n \in Notices, AbortServiceNotice(n) PROVE NoticeInv'
    <2>1. TypeOK'
        BY <1>5, NextType DEF AbortServiceNotice, NoticeInv, NoticeTypeOK
    <2>2. NoticeTypeOK'
        BY <1>5, <2>1
        DEF AbortServiceNotice, NoticeInv, NoticeTypeOK, NoticeStatus, historyVars
    <2>3. \A j \in Jobs : notice'[Notice[j]] = "cancelled" <=> notice[Notice[j]] = "cancelled"
        BY <1>5 DEF AbortServiceNotice, NoticeInv, NoticeTypeOK
    <2> QED BY <1>5, <2>2, <2>3
            DEF AbortServiceNotice, NoticeInv, NoticeTypeOK, LeftoversWereClaimed,
                RecalledIsNotSubmitted, vars, jobVars, runVars, historyVars
<1>6. ASSUME NEW n \in Notices, CancelServiceNotice(n) PROVE NoticeInv'
    BY <1>6, CancelKeepsNotices
<1>7. ASSUME NEW j \in Jobs, RetryNoticeJob(j) PROVE NoticeInv'
    BY <1>7, RetryKeepsNotices
<1>8. CASE UNCHANGED allVars
    BY <1>8, QuietStepKeepsNotices DEF allVars, noticeVars, NoticeInv, NoticeTypeOK
<1> QED BY <1>1, <1>2, <1>3, <1>4, <1>5, <1>6, <1>7, <1>8 DEF NoticeNext, NoticeStep

-------------------------------------------------------------------------------
(* Theorems.                                                               *)

\* The types, and the two facts about cancelled notices, for every number of
\* notices, customers, phones and runs.
THEOREM NoticesInvariant == NoticeSpec => []NoticeInv
<1>1. NoticeInit /\ [][NoticeNext]_allVars => []NoticeInv
    BY NoticeInitInv, NoticeNextInv, PTL
<1> QED BY <1>1, PTL DEF NoticeSpec

\* What is still sent for a cancelled notice was with a worker when it was
\* cancelled, or was retried by hand.
THEOREM LeftoversWereClaimedHolds == NoticeSpec => []LeftoversWereClaimed
<1>1. NoticeInv => LeftoversWereClaimed
    BY DEF NoticeInv
<1> QED BY <1>1, NoticesInvariant, PTL

\* A recalled message is never handed over by a run that comes late.
THEOREM RecalledIsSilentHolds == NoticeSpec => RecalledIsSilent
<1> DEFINE Silent == \A j \in recalled \ (revived \cup spared) :
                        HandedOver(j)' \subseteq HandedOver(j)
<1>1. ASSUME NoticeInv, [NoticeNext]_allVars PROVE [Silent]_allVars
    <2> SUFFICES ASSUME NoticeNext, NEW j \in recalled \ (revived \cup spared)
                 PROVE  HandedOver(j)' \subseteq HandedOver(j)
        BY <1>1
    <2>1. j \in Jobs
        BY <1>1 DEF NoticeInv, NoticeTypeOK
    <2>2. CASE OutboxStep
        BY <1>1, <2>1, <2>2, HandOverIsSubmission
        DEF NoticeInv, NoticeTypeOK, RecalledIsNotSubmitted
    <2>3. CASE UNCHANGED provider
        BY <2>3 DEF HandedOver
    <2> QED BY <2>2, <2>3
            DEF NoticeNext, NoticeStep, NewReviewCampaign, ReadRecipients,
                EnqueueServiceNotice, AbortServiceNotice, CancelServiceNotice,
                RetryNoticeJob, RetryDeadOrFailedJob, vars
<1> QED BY <1>1, NoticesInvariant, PTL DEF NoticeSpec, RecalledIsSilent

-------------------------------------------------------------------------------
(* What the page shows.                                                    *)

\* The messages of a notice that the page counts.
Counted(n) == {j \in JobsOf(n) : Destination[j] \in recipients[n]}

\* With finitely many messages a count is zero when no message has the status.
LEMMA CountIsZero ==
    ASSUME IsFiniteSet(Jobs), NEW n \in Notices, NEW statuses
    PROVE  /\ CountOf(n, statuses) \in Nat
           /\ CountOf(n, statuses) = 0 <=> \A j \in Counted(n) : status[j] \notin statuses
<1> DEFINE S == {j \in JobsOf(n) : Destination[j] \in recipients[n] /\ status[j] \in statuses}
<1>1. S \in SUBSET Jobs
    BY DEF JobsOf
<1>2. IsFiniteSet(S)
    BY <1>1, FS_Subset
<1>3. S = {} <=> \A j \in Counted(n) : status[j] \notin statuses
    BY DEF Counted
<1>4. CountOf(n, statuses) = Cardinality(S)
    BY DEF CountOf
<1> HIDE DEF S
<1> QED BY <1>2, <1>3, <1>4, FS_CardinalityType, FS_EmptySet

\* A message of a notice that is shown as completed, with nothing outstanding, is
\* neither on its way nor one an administrator could retry.
LEMMA CompletedHasNothingLeft ==
    ASSUME IsFiniteSet(Jobs), NEW n \in Notices, notice[n] = "queued",
           DisplayStatus(n) = "completed", CountOf(n, {"sending"}) = 0
    PROVE  \A j \in Counted(n) : status[j] \notin Live \cup {"failed", "dead"}
<1>1. /\ ~(CountOf(n, {"failed", "dead", "delivery_unknown"}) > 0)
      /\ ~(CountOf(n, {"queued", "retry", "leased"}) > 0)
    BY DEF DisplayStatus
<1>2. /\ CountOf(n, {"failed", "dead", "delivery_unknown"}) = 0
      /\ CountOf(n, {"queued", "retry", "leased"}) = 0
    BY <1>1, CountIsZero
<1>3. \A j \in Counted(n) :
         /\ status[j] \notin {"failed", "dead", "delivery_unknown"}
         /\ status[j] \notin {"queued", "retry", "leased"}
         /\ status[j] \notin {"sending"}
    BY <1>2, CountIsZero
<1> QED BY <1>3 DEF Live

\* One step later none of them is on its way.
LEMMA CompletedStaysQuiet ==
    ASSUME NoticeInv, NoticeNext, NEW n \in Notices, notice[n] = "queued",
           \A j \in Counted(n) : status[j] \notin Live \cup {"failed", "dead"}
    PROVE  /\ Counted(n)' = Counted(n)
           /\ notice'[n] = "cancelled" \/ \A j \in Counted(n) : status'[j] \notin Live
<1>1. Counted(n) \subseteq Jobs
    BY DEF Counted, JobsOf
<1>2. CASE OutboxStep /\ UNCHANGED noticeVars
    <2>1. Counted(n)' = Counted(n)
        BY <1>2 DEF noticeVars, Counted, JobsOf
    <2>2. \A j \in Counted(n) : status'[j] \notin Live
        BY <1>1, <1>2, OutboxKeepsDead DEF NoticeInv, NoticeTypeOK
    <2> QED BY <2>1, <2>2
<1>3. ASSUME status' = status, recipients'[n] = recipients[n]
      PROVE  /\ Counted(n)' = Counted(n)
             /\ \A j \in Counted(n) : status'[j] \notin Live
    BY <1>3 DEF Counted, JobsOf
<1>4. ASSUME NEW c \in Customers, NEW p \in Destinations, NewReviewCampaign(c, p)
      PROVE  status' = status /\ recipients'[n] = recipients[n]
    BY <1>4 DEF NewReviewCampaign, vars, jobVars
<1>5. ASSUME NEW m \in Notices, NEW selected \in SUBSET Customers, ReadRecipients(m, selected)
      PROVE  status' = status /\ recipients'[n] = recipients[n]
    BY <1>5 DEF ReadRecipients, vars, jobVars, NoticeInv, NoticeTypeOK
<1>6. ASSUME NEW m \in Notices, AbortServiceNotice(m)
      PROVE  status' = status /\ recipients'[n] = recipients[n]
    BY <1>6 DEF AbortServiceNotice, vars, jobVars, NoticeInv, NoticeTypeOK
<1>7. ASSUME NEW m \in Notices, EnqueueServiceNotice(m)
      PROVE  /\ Counted(n)' = Counted(n)
             /\ \A j \in Counted(n) : status'[j] \notin Live
    BY <1>7 DEF EnqueueServiceNotice, Counted, JobsOf
<1>8. ASSUME NEW m \in Notices, CancelServiceNotice(m)
      PROVE  /\ Counted(n)' = Counted(n)
             /\ \A j \in Counted(n) : status'[j] \notin Live
    BY <1>8 DEF CancelServiceNotice, Counted, JobsOf, Live
<1>9. ASSUME NEW k \in Jobs, RetryNoticeJob(k)
      PROVE  /\ Counted(n)' = Counted(n)
             /\ \A j \in Counted(n) : status'[j] \notin Live
    <2>1. k \notin Counted(n) /\ Counted(n)' = Counted(n)
        BY <1>9 DEF RetryNoticeJob, RetryDeadOrFailedJob, Counted, JobsOf
    <2>2. \A j \in Jobs \ {k} : status'[j] = status[j]
        BY <1>9 DEF RetryNoticeJob, RetryDeadOrFailedJob, Settle, NoticeInv, NoticeTypeOK, TypeOK
    <2> QED BY <1>1, <2>1, <2>2
<1> QED BY <1>2, <1>3, <1>4, <1>5, <1>6, <1>7, <1>8, <1>9 DEF NoticeNext, NoticeStep

\* A notice shown as completed, with no submission outstanding, does not go back to
\* queued, whatever workers, callbacks, recovery and administrators do next: for any
\* finite set of messages.
THEOREM CompletedNoticeIsOverHolds ==
    ASSUME IsFiniteSet(Jobs)
    PROVE  NoticeSpec => CompletedNoticeIsOver
<1> DEFINE Over == \A n \in Notices :
                      /\ notice[n] = "queued"
                      /\ DisplayStatus(n) = "completed"
                      /\ CountOf(n, {"sending"}) = 0
                      => DisplayStatus(n)' # "queued"
<1>1. ASSUME NoticeInv, [NoticeNext]_allVars PROVE [Over]_allVars
    <2> SUFFICES ASSUME NoticeNext, NEW n \in Notices,
                        notice[n] = "queued", DisplayStatus(n) = "completed",
                        CountOf(n, {"sending"}) = 0
                 PROVE  DisplayStatus(n)' # "queued"
        BY <1>1
    <2>1. \A j \in Counted(n) : status[j] \notin Live \cup {"failed", "dead"}
        BY CompletedHasNothingLeft
    <2>2. /\ Counted(n)' = Counted(n)
          /\ notice'[n] = "cancelled" \/ \A j \in Counted(n) : status'[j] \notin Live
        BY <1>1, <2>1, CompletedStaysQuiet
    <2>3. CASE notice'[n] = "cancelled"
        BY <2>3 DEF DisplayStatus
    <2>4. CASE \A j \in Counted(n) : status'[j] \notin Live
        <3>1. \A j \in Counted(n)' : status'[j] \notin {"queued", "retry", "leased"}
            BY <2>2, <2>4 DEF Live
        <3>2. {j \in JobsOf(n) : /\ Destination[j] \in recipients'[n]
                                 /\ status'[j] \in {"queued", "retry", "leased"}} = {}
            BY <3>1 DEF Counted, JobsOf
        <3>3. CountOf(n, {"queued", "retry", "leased"})' = 0
            BY <3>2, FS_EmptySet DEF CountOf, JobsOf
        <3> QED BY <3>3 DEF DisplayStatus
    <2> QED BY <2>2, <2>3, <2>4
<1> QED BY <1>1, NoticesInvariant, PTL DEF NoticeSpec, CompletedNoticeIsOver
================================================================================
