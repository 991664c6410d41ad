----------------------------- MODULE ServiceNotices ----------------------------
(***************************************************************************)
(* Operational service notices: an administrator sends one text to the     *)
(* customers chosen, and may cancel the campaign while the outbox is       *)
(* sending it.  The messages are jobs of MessageOutbox, whose actions are  *)
(* reused as they are; this module adds the notice campaigns, the choice   *)
(* of recipients and the cancellation.                                     *)
(*                                                                         *)
(* The transaction that queues a notice reads the recipients first and     *)
(* inserts afterwards.  Under READ COMMITTED an opt-out can commit in      *)
(* between, so it is two steps here.                                       *)
(***************************************************************************)
EXTENDS MessageOutboxProperties

CONSTANTS
    Notices,        \* service_notice_campaigns rows
    Customers,
    Notice,         \* Notice[j]: the notice that job j belongs to
    MaxRecipients   \* MAX_SERVICE_NOTICE_RECIPIENTS

\* The idempotency key is made of the notice and the phone.
ASSUME NoticeConstants ==
    /\ Notice \in [Jobs -> Notices]
    /\ \A j, k \in Jobs : Notice[j] = Notice[k] /\ Destination[j] = Destination[k] => j = k
    /\ \A j \in Jobs : Campaign[j] = None
    /\ None \notin Destinations
    /\ MaxRecipients \in Nat \ {0}

VARIABLES
    phoneOf,     \* phone of the customer's latest review campaign that has one
    notice,      \* status of the campaign; "open" inside the queueing transaction
    recipients,  \* phones read by the transaction, then service_notice_recipients
    recalled,    \* history: jobs cancelled by the cancellation of their notice
    spared,      \* history: jobs a worker held or was submitting at the cancellation
    revived      \* history: jobs an administrator retried after the cancellation

historyVars == <<recalled, spared, revived>>
noticeVars == <<phoneOf, notice, recipients, historyVars>>
allVars == <<vars, noticeVars>>

NoticeStatus == {"absent", "open", "queued", "cancelled"}

JobsOf(n) == {j \in Jobs : Notice[j] = n}

NoticeInit ==
    /\ Init
    /\ phoneOf = [c \in Customers |-> None]
    /\ notice = [n \in Notices |-> "absent"]
    /\ recipients = [n \in Notices |-> {}]
    /\ recalled = {}
    /\ spared = {}
    /\ revived = {}

-------------------------------------------------------------------------------
(* Web requests of the administrator.                                      *)

\* A new review campaign of the customer has another phone.
NewReviewCampaign(c, p) ==
    /\ phoneOf' = [phoneOf EXCEPT ![c] = p]
    /\ UNCHANGED <<vars, notice, recipients, historyVars>>

\* Phones of the selected customers, without duplicates and opted-out ones.
\* NULL has no job; no row is left of a customer without a phone.
RecipientRows(selected) == {phoneOf[c] : c \in selected} \ (suppressed \cup {None})

\* The form admits 1 to MaxRecipients customers.  Nothing is inserted when none
\* of them is eligible any more.
ReadRecipients(n, selected) ==
    /\ notice[n] = "absent"
    /\ Cardinality(selected) \in 1..MaxRecipients
    /\ RecipientRows(selected) # {}
    /\ notice' = [notice EXCEPT ![n] = "open"]
    /\ recipients' = [recipients EXCEPT ![n] = RecipientRows(selected)]
    /\ UNCHANGED <<vars, phoneOf, historyVars>>

EnqueueServiceNotice(n) ==
    /\ notice[n] = "open"
    /\ notice' = [notice EXCEPT ![n] = "queued"]
    /\ status' = [j \in Jobs |->
                     IF Notice[j] = n /\ Destination[j] \in recipients[n]
                     THEN "queued" ELSE status[j]]
    /\ UNCHANGED <<attempts, owner, lease, sid, rank, recorded, runVars, envVars,
                   provider, retriedAt, phoneOf, recipients, historyVars>>

\* The transaction is rolled back.
AbortServiceNotice(n) ==
    /\ notice[n] = "open"
    /\ notice' = [notice EXCEPT ![n] = "absent"]
    /\ recipients' = [recipients EXCEPT ![n] = {}]
    /\ UNCHANGED <<vars, phoneOf, historyVars>>

\* Variant: a message that waits for another attempt is not looked for.
RecallForgetsRetry(n) == {j \in JobsOf(n) : status[j] = "queued"}

\* A leased job stays with its worker.
Recall(n) == {j \in JobsOf(n) : status[j] \in {"queued", "retry"}}

\* After a manual retry a row may be back in the queue while a late run still
\* waits for the provider's answer.
WithWorker(n) ==
    {j \in JobsOf(n) : \/ status[j] \in {"leased", "sending"}
                       \/ \E w \in Runs : cur[w] = j /\ pc[w] = "submitted"}

\* Variant: the campaign is closed, its jobs are left to the claim query.
CancelCampaignRowOnly(n) ==
    /\ notice[n] = "queued"
    /\ notice' = [notice EXCEPT ![n] = "cancelled"]
    /\ recalled' = recalled \cup Recall(n)
    /\ spared' = spared \cup WithWorker(n)
    /\ UNCHANGED <<vars, phoneOf, recipients, revived>>

\* The row first, then the jobs; a second cancellation finds no queued row.
CancelServiceNotice(n) ==
    /\ notice[n] = "queued"
    /\ notice' = [notice EXCEPT ![n] = "cancelled"]
    /\ status' = [j \in Jobs |-> IF j \in Recall(n) THEN "cancelled" ELSE status[j]]
    /\ recalled' = recalled \cup Recall(n)
    /\ spared' = spared \cup WithWorker(n)
    /\ UNCHANGED <<attempts, owner, lease, sid, rank, recorded, runVars, envVars,
                   provider, retriedAt, phoneOf, recipients, revived>>

\* The dashboard's retry does not look at the notice.
RetryNoticeJob(j) ==
    /\ RetryDeadOrFailedJob(j)
    /\ revived' = IF notice[Notice[j]] = "cancelled" THEN revived \cup {j} ELSE revived
    /\ UNCHANGED <<phoneOf, notice, recipients, recalled, spared>>

-------------------------------------------------------------------------------
(* What the page shows of a campaign.                                      *)

CountOf(n, statuses) ==
    Cardinality({j \in JobsOf(n) : Destination[j] \in recipients[n] /\ status[j] \in statuses})

\* Variant: a message that was given up does not count as failed.
DisplayStatusWithoutDead(n) ==
    IF notice[n] = "cancelled" THEN "cancelled"
    ELSE IF CountOf(n, {"failed", "delivery_unknown"}) > 0 THEN "attention"
    ELSE IF CountOf(n, {"queued", "retry", "leased"}) > 0 THEN "queued"
    ELSE "completed"

DisplayStatus(n) ==
    IF notice[n] = "cancelled" THEN "cancelled"
    ELSE IF CountOf(n, {"failed", "dead", "delivery_unknown"}) > 0 THEN "attention"
    ELSE IF CountOf(n, {"queued", "retry", "leased"}) > 0 THEN "queued"
    ELSE "completed"

-------------------------------------------------------------------------------
\* Steps of the outbox that leave the notices alone.
OutboxStep ==
    \/ WorkerStep
    \/ MaintenanceStep
    \/ \E d \in Destinations : Suppress(d) \/ Unsuppress(d)
    \/ \E j \in Jobs, n \in AttemptNumbers, s \in ProviderStatus :
          ProviderProgress(j, n, s) \/ TwilioStatus(j, n, s)

NoticeStep ==
    \/ \E c \in Customers, p \in Destinations : NewReviewCampaign(c, p)
    \/ \E n \in Notices :
          \/ \E selected \in SUBSET Customers : ReadRecipients(n, selected)
          \/ EnqueueServiceNotice(n) \/ AbortServiceNotice(n) \/ CancelServiceNotice(n)
    \/ \E j \in Jobs : RetryNoticeJob(j)

NoticeNext == (OutboxStep /\ UNCHANGED noticeVars) \/ NoticeStep

\* process_all begins with recover_stale_work, which sweeps opted-out phones.
NoticeSpec ==
    /\ NoticeInit
    /\ [][NoticeNext]_allVars
    /\ WF_allVars(CancelSuppressedQueuedJobs /\ UNCHANGED noticeVars)

-------------------------------------------------------------------------------
(* Properties.                                                             *)

\* The outbox is well typed under the notices' steps, and so are the notices.
NoticeTypeOK ==
    /\ TypeOK
    /\ phoneOf \in [Customers -> Destinations \cup {None}]
    /\ notice \in [Notices -> NoticeStatus]
    /\ recipients \in [Notices -> SUBSET Destinations]
    /\ recalled \subseteq Jobs
    /\ spared \subseteq Jobs
    /\ revived \subseteq Jobs

\* docs/OPERATIONS.md:30-31: "Use Cancel unsent to stop jobs that have not yet been
\* claimed": the provider never gets a recalled message, from no run that once
\* held it and whatever callbacks do to the row, unless a submission of it was
\* under way at the cancellation or an administrator retries it.
RecalledIsSilent ==
    [][\A j \in recalled \ (revived \cup spared) :
          HandedOver(j)' \subseteq HandedOver(j)]_allVars

\* What can still be sent for a cancelled notice is a message that a worker had
\* claimed at the cancellation, or one an administrator retried afterwards.  (A
\* claimed one may go through 'retry' and be sent by a later run.)
LeftoversWereClaimed ==
    \A j \in Jobs :
        /\ notice[Notice[j]] = "cancelled"
        /\ status[j] \in {"queued", "retry", "leased", "sending"}
        => j \in spared \cup revived

\* No late run is about to hand over a message recalled behind its back: with the
\* types, this and LeftoversWereClaimed carry the proof of RecalledIsSilent.
RecalledIsNotSubmitted ==
    \A j \in recalled \ (revived \cup spared) :
        /\ notice[Notice[j]] = "cancelled"
        /\ \A w \in Runs : ~(cur[w] = j /\ pc[w] = "submitted")

NoticeInv == NoticeTypeOK /\ LeftoversWereClaimed /\ RecalledIsNotSubmitted

\* A phone that opts out while its notice is being queued keeps no pending
\* message: the claim passes it over and the sweep cancels it.
StoppedNoticeIsCancelled ==
    \A j \in Jobs :
        status[j] \in Pending /\ Suppressed(j) ~> status[j] \notin Pending \/ ~Suppressed(j)

\* Once a campaign is shown as completed and no submission is outstanding, no
\* message of it goes back to the queue behind the administrator's back.
CompletedNoticeIsOver ==
    [][\A n \in Notices :
          /\ notice[n] = "queued"
          /\ DisplayStatus(n) = "completed"
          /\ CountOf(n, {"sending"}) = 0
          => DisplayStatus(n)' # "queued"]_allVars
================================================================================
