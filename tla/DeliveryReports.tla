---------------------------- MODULE DeliveryReports ----------------------------
(***************************************************************************)
(* What the system learns of a message after the provider has accepted it, *)
(* and where it writes that down.  Twilio calls back: the message job and  *)
(* the outcome row of its source (processed_alerts or processed_jobs) in   *)
(* one transaction, the alert to the administrator in another, while the   *)
(* worker that sent the message still has its own outcome to write.        *)
(* Outlook does not call back: non-delivery reports are found in the inbox *)
(* by an hourly run, which records each one and then marks it as read.     *)
(*                                                                         *)
(* One attempt for each message: claims, leases of queued jobs and retries *)
(* are the subject of MessageOutbox.  All e-mails go to one address, each  *)
(* text to a customer of its own.                                          *)
(***************************************************************************)
EXTENDS Integers, FiniteSets, Sequences

CONSTANTS
    JobCount,        \* message jobs, numbered in the order of created_at
    ChannelChoices,  \* the assignments of channels to jobs that are explored;
                     \* a number may stay "unused"
    PageSize,        \* messages one inbox request returns (50)
    MaxOther         \* bound: other e-mails that come to the inbox

Jobs == 1..JobCount

ASSUME ReportConstants ==
    /\ JobCount \in Nat \ {0}
    /\ ChannelChoices \subseteq [Jobs -> {"sms", "email", "unused"}]
    /\ PageSize \in Nat \ {0}
    /\ MaxOther \in Nat

VARIABLES
    channel,     \* column channel, chosen once
    status, rank, held,  \* message_jobs: status, provider_status_rank, locked_by set
    phase,       \* phase[j]: where the worker that sends j is
    provider,    \* what became of the message at the provider
    outcome,     \* status column of the source row of a text
    pending,     \* outcome the worker is about to write
    alerting,    \* jobs whose failure a web request has recorded and not yet alerted
    alerts,      \* jobs with a delivery-failure alert in the outbox
    suppressed,  \* the address has a suppressed e-mail preference
    inbox,       \* messages in the order they came: what about, and isRead
    syncing,     \* phase of the bounce sync
    known,       \* the sync has read that an e-mail to the address exists
    page,        \* positions of unread reports left to handle, newest first
    recorded,    \* history: reports the sync has recorded
    interrupted, \* history: a run recorded a report and did not mark it as read
    opened,      \* history: inbox messages somebody else read
    early,       \* history: texts with a callback before the worker's own write
    lost         \* history: failures whose request died before the alert

jobVars == <<channel, status, rank, held>>
workVars == <<phase, provider, pending>>
sourceVars == <<outcome, alerting, alerts>>
mailVars == <<suppressed, inbox, syncing, known, page>>
callHistory == <<early, lost>>
mailHistory == <<recorded, interrupted, opened>>
vars == <<jobVars, workVars, sourceVars, mailVars, callHistory, mailHistory>>

Other == 0  \* what an inbox message that reports no job is about

JobStatus ==
    {"absent", "queued", "sending", "accepted", "sent", "delivered", "failed",
     "cancelled", "delivery_unknown"}

\* Twilio statuses after acceptance; 'undelivered' is "failed".
StatusRank == [s \in {"queued", "sending", "sent", "delivered", "failed", "canceled"} |->
    CASE s = "queued" -> 20 [] s = "sending" -> 30 [] s = "sent" -> 40 [] OTHER -> 100]

WorkerPhase ==
    {"idle", "submitted", "answered", "uncertain", "refused", "writing", "ended"}

\* processed_alerts.status and processed_jobs.status from the insertion on.
Outcome ==
    {"none", "queued", "message_accepted", "delivery_unknown", "send_failed", "sending",
     "sent", "delivered", "delivery_failed", "canceled"}

Init ==
    /\ channel \in ChannelChoices
    /\ status = [j \in Jobs |-> "absent"]
    /\ rank = [j \in Jobs |-> 0]
    /\ held = [j \in Jobs |-> FALSE]
    /\ phase = [j \in Jobs |-> "idle"]
    /\ provider = [j \in Jobs |-> "none"]
    /\ outcome = [j \in Jobs |-> "none"]
    /\ pending = [j \in Jobs |-> "none"]
    /\ alerting = {}
    /\ alerts = {}
    /\ suppressed = FALSE
    /\ inbox = <<>>
    /\ syncing = "idle"
    /\ known = FALSE
    /\ page = <<>>
    /\ recorded = {}
    /\ interrupted = FALSE
    /\ opened = {}
    /\ early = {}
    /\ lost = {}

-------------------------------------------------------------------------------
(* The worker that sends a message.                                        *)

\* A text is inserted together with its source row.
CreateJob(j) ==
    /\ channel[j] # "unused"
    /\ status[j] = "absent"
    /\ \A k \in 1..(j - 1) : status[k] # "absent"
    /\ status' = [status EXCEPT ![j] = "queued"]
    /\ outcome' = [outcome EXCEPT ![j] = IF channel[j] = "sms" THEN "queued" ELSE "none"]
    /\ UNCHANGED <<channel, rank, held, workVars, alerting, alerts, mailVars, callHistory, mailHistory>>

\* The worker finds that the address is suppressed.
CancelMessageJob(j) ==
    /\ status[j] = "queued"
    /\ channel[j] = "email"
    /\ suppressed
    /\ status' = [status EXCEPT ![j] = "cancelled"]
    /\ UNCHANGED <<channel, rank, held, workVars, sourceVars, mailVars, callHistory, mailHistory>>

\* Claim, the check of the preference and mark_sending.
Submit(j) ==
    /\ status[j] = "queued"
    /\ channel[j] = "email" => ~suppressed
    /\ status' = [status EXCEPT ![j] = "sending"]
    /\ held' = [held EXCEPT ![j] = TRUE]
    /\ phase' = [phase EXCEPT ![j] = "submitted"]
    /\ UNCHANGED <<channel, rank, provider, pending, sourceVars, mailVars, callHistory, mailHistory>>

\* The provider takes the message; the answer reaches the worker or not.
ProviderAccepts(j) ==
    /\ phase[j] = "submitted"
    /\ provider' = [provider EXCEPT ![j] = IF channel[j] = "email" THEN "accepted" ELSE "queued"]
    /\ \E answer \in {"answered", "uncertain"} : phase' = [phase EXCEPT ![j] = answer]
    /\ UNCHANGED <<jobVars, pending, sourceVars, mailVars, callHistory, mailHistory>>

\* A definite refusal, or an error before the provider had the message.
ProviderRejects(j) ==
    /\ phase[j] = "submitted"
    /\ \E answer \in {"refused", "uncertain"} : phase' = [phase EXCEPT ![j] = answer]
    /\ UNCHANGED <<jobVars, provider, pending, sourceVars, mailVars, callHistory, mailHistory>>

\* The worker's transaction on the job is committed; the outcome of a text comes next.
Settle(j, statuses, new, result) ==
    /\ IF held[j] /\ status[j] \in statuses
          THEN /\ status' = [status EXCEPT ![j] = new]
               /\ held' = [held EXCEPT ![j] = FALSE]
          ELSE UNCHANGED <<status, held>>
    /\ IF channel[j] = "sms"
          THEN /\ phase' = [phase EXCEPT ![j] = "writing"]
               /\ pending' = [pending EXCEPT ![j] = result]
          ELSE phase' = [phase EXCEPT ![j] = "ended"] /\ UNCHANGED pending
    /\ UNCHANGED <<channel, provider, sourceVars, mailVars, callHistory, mailHistory>>

FirstRank(j) == IF channel[j] = "email" THEN 10 ELSE 20

MarkAccepted(j) ==
    /\ phase[j] = "answered"
    /\ held[j]
    /\ Settle(j, {"sending", "accepted", "sent", "delivered", "failed"},
              IF rank[j] > FirstRank(j) THEN status[j] ELSE "accepted", "message_accepted")
    /\ rank' = [rank EXCEPT ![j] = IF @ > FirstRank(j) THEN @ ELSE FirstRank(j)]

\* No row, because the lease has expired, or the transaction failed: the
\* acceptance counts as unknown.
AcceptanceNotRecorded(j) ==
    /\ phase[j] = "answered"
    /\ phase' = [phase EXCEPT ![j] = "uncertain"]
    /\ UNCHANGED <<jobVars, provider, pending, sourceVars, mailVars, callHistory, mailHistory>>

MarkDeliveryUnknown(j) ==
    /\ phase[j] = "uncertain"
    /\ Settle(j, {"sending"}, "delivery_unknown", "delivery_unknown")
    /\ UNCHANGED rank

\* A refusal is written to the source row as well.
FailMessageJob(j) ==
    /\ phase[j] = "refused"
    /\ held[j] /\ status[j] = "sending"
    /\ Settle(j, {"sending"}, "failed", "send_failed")
    /\ UNCHANGED rank

\* An error other than the provider's leaves the source row as it is, and so does
\* a job that is no longer the worker's.
FailWithoutOutcome(j) ==
    /\ phase[j] = "refused"
    /\ IF held[j] /\ status[j] = "sending"
          THEN /\ status' = [status EXCEPT ![j] = "failed"]
               /\ held' = [held EXCEPT ![j] = FALSE]
          ELSE UNCHANGED <<status, held>>
    /\ phase' = [phase EXCEPT ![j] = "ended"]
    /\ UNCHANGED <<channel, rank, provider, pending, sourceVars, mailVars, callHistory, mailHistory>>

\* An upsert of the source row, whatever it says by now.
UpdateSourceOutcome(j) ==
    /\ phase[j] = "writing"
    /\ outcome' = [outcome EXCEPT ![j] = pending[j]]
    /\ phase' = [phase EXCEPT ![j] = "ended"]
    /\ pending' = [pending EXCEPT ![j] = "none"]
    /\ UNCHANGED <<jobVars, provider, alerting, alerts, mailVars, callHistory, mailHistory>>

\* The handler of the failed write: the job is not its own any more, and the
\* source row becomes that of an unknown delivery.
OutcomeNotWritten(j) ==
    /\ phase[j] = "writing"
    /\ pending[j] = "message_accepted"
    /\ pending' = [pending EXCEPT ![j] = "delivery_unknown"]
    /\ UNCHANGED <<jobVars, phase, provider, sourceVars, mailVars, callHistory, mailHistory>>

WorkerDies(j) ==
    /\ phase[j] \notin {"idle", "ended"}
    /\ phase' = [phase EXCEPT ![j] = "ended"]
    /\ pending' = [pending EXCEPT ![j] = "none"]
    /\ UNCHANGED <<jobVars, provider, sourceVars, mailVars, callHistory, mailHistory>>

\* The lease has run out.
RecoverStaleMessageJob(j) ==
    /\ held[j]
    /\ status[j] = "sending"
    /\ status' = [status EXCEPT ![j] = "delivery_unknown"]
    /\ held' = [held EXCEPT ![j] = FALSE]
    /\ UNCHANGED <<channel, rank, workVars, sourceVars, mailVars, callHistory, mailHistory>>

WorkerStep(j) ==
    \/ CreateJob(j) \/ Submit(j) \/ ProviderAccepts(j) \/ ProviderRejects(j)
    \/ MarkAccepted(j) \/ AcceptanceNotRecorded(j) \/ MarkDeliveryUnknown(j)
    \/ FailMessageJob(j) \/ FailWithoutOutcome(j) \/ UpdateSourceOutcome(j)
    \/ OutcomeNotWritten(j) \/ WorkerDies(j) \/ CancelMessageJob(j)
    \/ RecoverStaleMessageJob(j)

-------------------------------------------------------------------------------
(* Twilio's status callbacks.                                              *)

\* The message moves on at Twilio.
ProviderProgress(j, s) ==
    /\ channel[j] = "sms"
    /\ provider[j] \in DOMAIN StatusRank
    /\ StatusRank[s] > StatusRank[provider[j]]
    /\ provider' = [provider EXCEPT ![j] = s]
    /\ UNCHANGED <<jobVars, phase, pending, sourceVars, mailVars, callHistory, mailHistory>>

\* A callback for s may arrive now, for the first time or again.
Emitted(j, s) ==
    /\ channel[j] = "sms"
    /\ provider[j] \in DOMAIN StatusRank
    /\ s = provider[j] \/ StatusRank[s] < StatusRank[provider[j]]

\* The row is updated and returned.
Advances(j, s) ==
    \/ StatusRank[s] > rank[j]
    \/ StatusRank[s] = rank[j] /\ status[j] \notin {"delivered", "failed", "cancelled"}

JobStatusOf(j, s) ==
    IF s = "canceled" THEN "failed"
    ELSE IF s \in {"sent", "delivered", "failed"} THEN s ELSE status[j]

\* Variant: the source row is left to the worker.
OutcomeOfWorker(j, s) == outcome[j]

OutcomeOf(j, s) == IF s = "failed" THEN "delivery_failed" ELSE s

\* Variant: only a failure that arrives as the first callback is alerted.
AlertDueFirst(j, s) == s = "failed" /\ rank[j] = 0

AlertDue(j, s) == s = "failed"

RecordProviderEvent(j, s) ==
    /\ Emitted(j, s)
    /\ Advances(j, s)
    /\ rank' = [rank EXCEPT ![j] = StatusRank[s]]
    /\ status' = [status EXCEPT ![j] = JobStatusOf(j, s)]
    /\ outcome' = [outcome EXCEPT ![j] = OutcomeOf(j, s)]
    /\ alerting' = IF AlertDue(j, s) THEN alerting \cup {j} ELSE alerting
    /\ early' = IF phase[j] # "ended" THEN early \cup {j} ELSE early
    /\ UNCHANGED <<channel, held, workVars, alerts, mailVars, lost, mailHistory>>

\* ON CONFLICT (idempotency_key) DO NOTHING: one alert for each provider message.
EnqueueDeliveryFailureAlert(j) ==
    /\ j \in alerting
    /\ alerting' = alerting \ {j}
    /\ alerts' = alerts \cup {j}
    /\ UNCHANGED <<jobVars, workVars, outcome, mailVars, callHistory, mailHistory>>

\* The request fails between the two transactions.  Twilio may call again, but
\* the row does not advance a second time.
RequestDies(j) ==
    /\ j \in alerting
    /\ alerting' = alerting \ {j}
    /\ lost' = lost \cup {j}
    /\ UNCHANGED <<jobVars, workVars, outcome, alerts, mailVars, early, mailHistory>>

CallbackStep(j) ==
    \/ \E s \in DOMAIN StatusRank : ProviderProgress(j, s) \/ RecordProviderEvent(j, s)
    \/ EnqueueDeliveryFailureAlert(j) \/ RequestDies(j)

-------------------------------------------------------------------------------
(* Non-delivery reports in the inbox.                                      *)

Reported == {inbox[i].about : i \in DOMAIN inbox}

Arrives(subject) ==
    /\ inbox' = Append(inbox, [about |-> subject, read |-> FALSE])
    /\ UNCHANGED <<jobVars, workVars, sourceVars, suppressed, syncing, known, page, callHistory,
                   mailHistory>>

\* The recipient's server returns an accepted e-mail, once.
BounceArrives(j) ==
    /\ channel[j] = "email"
    /\ provider[j] # "none"
    /\ j \notin Reported
    /\ Arrives(j)

\* Ordinary mail, a report of a delay, one that names no known address or several.
OtherMailArrives ==
    /\ Cardinality({i \in DOMAIN inbox : inbox[i].about = Other}) < MaxOther
    /\ Arrives(Other)

\* Somebody opens a message in Outlook.
SomebodyReads(i) ==
    /\ ~inbox[i].read
    /\ inbox' = [inbox EXCEPT ![i].read = TRUE]
    /\ opened' = opened \cup {i}
    /\ UNCHANGED <<jobVars, workVars, sourceVars, suppressed, syncing, known, page, callHistory,
                   recorded, interrupted>>

SyncTo(next) ==
    /\ syncing' = next
    /\ UNCHANGED <<jobVars, workVars, sourceVars, callHistory, opened>>

\* known_recent_email_destinations, before the inbox is read.
SyncOutlookBounces ==
    /\ syncing = "idle"
    /\ known' = (\E j \in Jobs : channel[j] = "email" /\ status[j] # "absent")
    /\ SyncTo("known")
    /\ UNCHANGED <<suppressed, inbox, page, recorded, interrupted>>

NewestPage == {i \in DOMAIN inbox : i > Len(inbox) - PageSize}

\* Messages of the page that are unread and report a permanent failure.
Actionable ==
    {i \in NewestPage : ~inbox[i].read /\ known /\ inbox[i].about # Other}

NewestFirst(S) ==
    [k \in 1..Cardinality(S) |-> CHOOSE i \in S : Cardinality({m \in S : m >= i}) = k]

RecentInboxMessages ==
    /\ syncing = "known"
    /\ page' = NewestFirst(Actionable)
    /\ SyncTo("page")
    /\ UNCHANGED <<suppressed, inbox, known, recorded, interrupted>>

\* E-mail jobs a report can still fail.
Bounceable == {j \in Jobs : channel[j] = "email" /\ status[j] \in {"accepted", "sent", "delivered"}}

\* Variant: every accepted message to the address.
LatestAll == Bounceable

Latest == {j \in Bounceable : \A k \in Bounceable : k <= j}

\* The preference, the pending messages to the address and its latest accepted
\* one, in one transaction.
RecordPermanentBounce ==
    /\ syncing = "page"
    /\ page # <<>>
    /\ suppressed' = TRUE
    /\ status' = [j \in Jobs |->
                     IF j \in Latest THEN "failed"
                     ELSE IF channel[j] = "email" /\ status[j] = "queued" THEN "cancelled"
                     ELSE status[j]]
    /\ rank' = [j \in Jobs |-> IF j \in Latest THEN 100 ELSE rank[j]]
    /\ recorded' = recorded \cup {Head(page)}
    /\ syncing' = "mark"
    /\ UNCHANGED <<channel, held, workVars, sourceVars, inbox, known, page, interrupted, opened,
                   callHistory>>

\* Variant: the whole page is marked as read with the first report.
MarkPageRead ==
    /\ syncing = "mark"
    /\ inbox' = [i \in DOMAIN inbox |->
                    IF \E k \in DOMAIN page : page[k] = i
                    THEN [inbox[i] EXCEPT !.read = TRUE] ELSE inbox[i]]
    /\ page' = Tail(page)
    /\ SyncTo("page")
    /\ UNCHANGED <<suppressed, known, recorded, interrupted>>

MarkMessageRead ==
    /\ syncing = "mark"
    /\ inbox' = [inbox EXCEPT ![Head(page)].read = TRUE]
    /\ page' = Tail(page)
    /\ SyncTo("page")
    /\ UNCHANGED <<suppressed, known, recorded, interrupted>>

SyncEnds ==
    /\ page' = <<>>
    /\ known' = FALSE
    /\ SyncTo("idle")
    /\ interrupted' = (interrupted \/ syncing = "mark")
    /\ UNCHANGED <<suppressed, inbox, recorded>>

SyncCompletes == syncing = "page" /\ page = <<>> /\ SyncEnds

\* A request to Microsoft or a transaction fails, or the process dies: the run
\* ends where it is.
SyncFails == syncing # "idle" /\ SyncEnds

SyncStep ==
    SyncOutlookBounces \/ RecentInboxMessages \/ RecordPermanentBounce \/ MarkMessageRead
    \/ SyncCompletes

MailStep ==
    \/ \E j \in Jobs : BounceArrives(j)
    \/ OtherMailArrives
    \/ \E i \in DOMAIN inbox : SomebodyReads(i)
    \/ SyncStep
    \/ SyncFails

-------------------------------------------------------------------------------
Next == (\E j \in Jobs : WorkerStep(j) \/ CallbackStep(j)) \/ MailStep

Spec == Init /\ [][Next]_vars

\* Cron starts a sync every hour.  Runs may fail, but not all of them for ever
\* at the same point.
Fairness ==
    /\ WF_vars(SyncOutlookBounces)
    /\ WF_vars(SyncCompletes)
    /\ SF_vars(RecentInboxMessages)
    /\ SF_vars(RecordPermanentBounce)
    /\ SF_vars(MarkMessageRead)

FairSpec == Spec /\ Fairness

-------------------------------------------------------------------------------
(* Properties.                                                             *)

\* Columns, phases and histories have the values the code gives them.
TypeOK ==
    /\ channel \in [Jobs -> {"sms", "email", "unused"}]
    /\ status \in [Jobs -> JobStatus]
    /\ rank \in [Jobs -> {0, 10, 20, 30, 40, 100}]
    /\ held \in [Jobs -> BOOLEAN]
    /\ phase \in [Jobs -> WorkerPhase]
    /\ provider \in [Jobs -> {"none", "accepted"} \cup DOMAIN StatusRank]
    /\ outcome \in [Jobs -> Outcome]
    /\ pending \in [Jobs -> Outcome]
    /\ alerting \subseteq Jobs /\ alerts \subseteq Jobs /\ early \subseteq Jobs
    /\ lost \subseteq Jobs /\ interrupted \in BOOLEAN
    /\ suppressed \in BOOLEAN /\ known \in BOOLEAN
    /\ inbox \in Seq([about : Jobs \cup {Other}, read : BOOLEAN])
    /\ syncing \in {"idle", "known", "page", "mark"}
    /\ page \in Seq(Nat)

\* The source row agrees with the last callback, whatever order callbacks come in,
\* unless a callback came before the worker's own write, which overwrites it.
OutcomeFollowsCallbacks ==
    \A j \in Jobs \ early : channel[j] = "sms" =>
        /\ status[j] \in {"sent", "delivered"} => outcome[j] = status[j]
        /\ status[j] = "failed" /\ rank[j] = 100 => outcome[j] \in {"delivery_failed", "canceled"}

\* A text that fails after acceptance is alerted, or its request is about to, and
\* only such a text is (not a canceled one), however often and in whatever order Twilio calls: unless
\* the request died between recording the failure and inserting the alert.
FailureIsAlerted ==
    \A j \in Jobs : channel[j] = "sms" =>
        /\ status[j] = "failed" /\ provider[j] = "failed" => j \in alerting \cup alerts \cup lost
        /\ j \in alerting \cup alerts => status[j] = "failed" /\ provider[j] = "failed"

\* E-mails that a report has failed.
Bounced == {j \in Jobs : channel[j] = "email" /\ status[j] = "failed" /\ rank[j] = 100}

\* docs/OPERATIONS.md:14-15: "Delivery is considered failed only after a permanent
\* NDR": there are as many reports as failed e-mails, across any number of runs,
\* unless a run recorded a report and did not get to mark it as read.
BouncesAreBacked ==
    ~interrupted => Cardinality(Bounced) <= Cardinality(recorded)

\* A report of a permanent failure is recorded by some run, whatever runs fail in
\* between, unless somebody reads it first or newer mail pushes it off the page.
BounceIsRecorded ==
    \A i \in 1..(JobCount + MaxOther) :
        (i \in DOMAIN inbox /\ inbox[i].about # Other) ~>
            (i \in recorded \/ i \in opened \/ i \notin NewestPage)
================================================================================
