# Verification of the Pool Brian SMS automation

TLA+ models, TLC runs and TLAPS proofs of the automation service under `src/`: a Flask web
application, a set of cron workers and a PostgreSQL database that between them send review requests,
pool alerts and notices by SMS (Twilio) and e-mail (Microsoft Graph), and copy website leads into
PoolBrain. Paths below are relative to the repository; `repositories/` stands for
`app/repositories/`.

## The system

Everything durable is in PostgreSQL (READ COMMITTED). Each repository function opens one
transaction (`app/db.py:44-47`) and commits when it returns. Web requests and worker runs share
nothing but the database, so a repository function is the unit of interleaving: one function, one
action. Provider calls happen between transactions, never inside one.

| Component | State | Operations | Correct when |
|---|---|---|---|
| Message outbox (`repositories/jobs.py`, `workers.py:181-353`) | `message_jobs`, `message_attempts` | enqueue, claim under a lease, send, record, fail, recover, cancel, callback, retry | no message is sent twice on the system's own account, STOP is honoured, status is true, nothing stays claimed |
| Preferences (`repositories/preferences.py`) | `communication_preferences` | suppress (cancels pending jobs), unsuppress | a suppressed destination is not submitted to |
| Inbound event queue (`repositories/events.py`) | `inbound_events` | store, claim, complete, fail, recover, delete | each event is completed or given up, within its attempts, by the holder of its lease |
| PoolBrain event worker (`workers.py:145-178`, `575-642`) | `processed_alerts` | one event with several alerts, retried as a whole | a completed event is completely handled; one message for each alert |
| Agreement relay (`services/agreements.py`) | none | forward `customer.created` | the event stays queued until confirmed |
| Website leads (`services/poolbrain.py:95-172`, `workers.py:365-432`) | `inbound_events.result` | search, create, search again, note | a lead becomes one customer with its note |
| Review campaigns (`repositories/campaigns.py`, `admin.py`, `inbound_messages.py`) | `review_campaigns`, `processed_jobs`, advisory locks | create, reply, confirm, undo, cancel | one live campaign for a recipient; a closure cancels what waits, an answer is final |
| Google review import (`repositories/google_reviews.py`) | `google_reviews` | import, match | a matched review's campaign is confirmed |
| Service notices (`repositories/service_notices.py`, `routes/admin.py`) | `service_notice_campaigns`, `service_notice_recipients` | queue to selected customers, cancel, retry a message, show the status | what is recalled is not sent, an opt-out is obeyed, "completed" is true |
| Delivery reports (`routes/webhooks.py:229-273`, `repositories/bounces.py`, `outcomes.py`, `workers.py:488-516`) | status and rank of the job, outcome of its source, the alert, the preference, the mailbox | callback, alert, worker's outcome, bounce sync | outcome and alert follow the failure; a message fails only for a report of its own; reports are not lost |
| Scheduling (`time_utils.py`, `domain/reviews.py`, `workers.py:664-685`) | `scheduled_at`, the clock | compute due times, open and close the window | messages go out at the local hours promised |
| Unsubscribe tokens, OAuth, retention, dashboard, templates | see `PROJECT.json`, `components` | | |

Interactions: webhooks insert events and callbacks; cron claims events and turns them into message
jobs; the outbox sends them; callbacks, replies and administrators change jobs and campaigns while
runs work on them. The same queue functions serve the general worker (every 5 minutes), the
website-lead worker (every 2) and the immediate dispatch of a lead from a web request, so runs
overlap.

What is hard here: a worker acts on rows it read earlier; a run may die between any two
transactions or outlive its lease; provider answers get lost; callbacks are repeated, reordered and
faster than the response; recovery, administrators and customers act in between. `PROJECT.json`
lists these as `hazards`, each at its line.

## The modules

| Module | What it is |
|---|---|
| `MessageOutbox` | the outbox, its runs, callbacks, recovery, preferences, campaign closure, bounce, retry |
| `MessageOutboxProperties` | its properties, the inductive invariant, the refinement mapping |
| `AuthorisedDelivery` | abstract: every hand-over to a provider uses up a permit, issued once for a message and once for each manual retry |
| `MessageOutboxProofs` | theorems about the outbox, among them the refinement |
| `EventQueue` | the inbound queue and the skeleton of a run; extended by the two modules that say what a run does |
| `PoolBrainEvents` | the general worker: alerts and the agreement relay |
| `WebsiteLeadSync` | the website-lead worker |
| `EventQueueProofs` | lemmas about each queue step, cited by both workers' theorems |
| `PoolBrainEventsProofs`, `WebsiteLeadSyncProofs` | theorems about the general and the website-lead worker |
| `ReviewCampaigns` | creation under advisory locks, the ends of a campaign, the review import |
| `ServiceNotices` | notice campaigns on top of `MessageOutbox`, whose actions it reuses unchanged |
| `DeliveryReports` | what is learnt after acceptance: callbacks, source outcomes, the alert, the bounce sync |
| `LocalCalendar` | the functions of `time_utils.py` over zones with one change of the clock |
| `ReviewTimeline` | discovery or request, due times, the windows of the worker, a clock |
| `ReviewCampaignsProofs`, `ServiceNoticesProofs`, `DeliveryReportsProofs`, `ReviewTimelineProofs` | theorems about these |
| `MC*` | constants for TLC |

`PROJECT.json` maps each definition to its lines. The correspondence in short:

- *Rows and columns* are functions from row to value (`status[j]`, `attempts[j]`, `owner[j]`). NULL
  is `None`; a lease is `"none"`, `"live"` or `"expired"`, and `LeaseExpires` may happen at any time,
  so a run may always turn out to be late.
- *Runs* are processes with a phase `pc`, the batch left (`todo`) and the row in hand (`cur`). A run
  has a fresh worker id and claims once, as in the code. `Crash` is possible at every phase; it
  also stands for an error that escapes an exception handler.
- *Claims* take any non-empty set of claimable rows: which are due and how many the limit allows is
  abstracted, and `SKIP LOCKED` hides rows of other transactions.
- *Provider answers* are choices: accepted, accepted with the answer lost, refused, repeatable,
  uncertain. A callback may arrive for any status the message has reached, any number of times.
- In `ReviewCampaigns` the creating transaction is split where PostgreSQL lets others in (each lock it waits
  for, and between check and insert) and the import at its unlocked read, the lock of the review's row and
  its writes. Row locks the
  import already holds are `RowFree`. `created_at` is the start of the transaction, kept as a
  sequence in that order. Of a campaign's messages it keeps whether one waits (queued, retry or leased)
  and whether a run has ever taken one up; such a message may come back to the queue at any time after
  (`RequeueMessage`), whatever has become of the campaign, which is more than the code does.
- *A transaction that reads and then inserts* is one action where nothing it reads can change in between,
  and two where it can: the recipients of a notice (`ReadRecipients`, `EnqueueServiceNotice`).
- In `DeliveryReports` a job has one attempt; its worker's transactions on the job and on the source
  row are separate steps, as are the two transactions of a callback that reports a failure, and the
  steps of the bounce sync (known addresses, the page, record, mark).
- *History variables* (`retriedAt`, `provider`, `disturbed`, `undone`,  `purges`, `recalled`,
  `spared`, `revived`, `confirmed`, `recorded`, `interrupted`, `opened`, `early`, `lost`) record what the
  properties speak of. They guard nothing, except that `provider` gates the callbacks and
  the bounds gate their own counters.
- *Variants*: an operator whose comment begins with "Variant" is no part of the model. It is the
  same operator with a plausible bug, and shows that the property it is paired with would notice.

## The runs

Passing runs. All but `schedule` check deadlock; there the clock stops once the one job or notice has
been served.

| Run | Instance | Shows |
|---|---|---|
| `outbox_reminder` | one campaign SMS, 2 runs, 2 attempts + 2 retries, fairness | no blind resend, no requeue of an accepted message, true status, authorised attempts; claims are released |
| `outbox_batches` | two e-mails to one mailbox, 2 runs, batches | the inductive invariant `ResendInv`, STOP and closure before submission, refinement of `AuthorisedDelivery` |
| `events_alerts` | two events with a common alert and a malformed one, 2 runs, 2 attempts, each event deleted and redelivered once | completed events are handled, one message for each alert, attempts, only the holder settles |
| `events_relay` | one event, of two alerts or a `customer.created` with one deletion, 4 runs, fairness | the relay is confirmed before completion; the event settles, also when redelivered |
| `website_leads` | one lead, 3 runs, 3 attempts, one deletion | completed leads are recorded, attempts remembered, duplicates need a lost outcome |
| `campaigns_locking` | 2 jobs that share a phone and an e-mail address, 2 runs | no lock cycle, one live campaign, which a reply ends |
| `campaigns_lifecycle` | 2 jobs of one phone, a review with the names of both, 1 run | what a closure cancelled stays so, an answered campaign is never active again, matched means confirmed |
| `service_notices` | one notice to one customer, who may have a phone, 2 runs, 2 attempts + 2 retries, fairness of the sweep | leftovers of a cancelled notice were claimed, recalled messages stay silent, "completed" is not taken back, an opt-out during the queueing is obeyed |
| `delivery_reports` | one text, or two e-mails to one address with a page of two and one other mail; fairness of the sync | the source row follows the callbacks, failures are alerted, a bounced e-mail has a report, a report is recorded |
| `schedule` | a discovery or request at each of 193 hours, 3 zones, up to 2 hours without a run | the windows, texts on time, the calendar of a campaign |

Runs that end in a violation, each of one sentence the repository says of itself (`findings` has the
quotations and the path):

| Run | The sentence | What happens |
|---|---|---|
| `outbox_stuck_sending` | accepted messages are reconciled by lease recovery | a 'sending' callback before the response leaves the job in `sending` with no lease |
| `website_duplicate` | a create is not repeated | an error after an accepted create is recorded without the attempt |

**Known divergences** that no run repeats, each met while modelling and visible in the modules:

- `docs/OPERATIONS.md:70` says a malformed alert's event is "retained/retried"; `SkipMalformed` skips
  the alert and the event is completed (`workers.py:609-614`).
- `tests/integration/test_durable_workflow.py:305` says a manual retry replaces the provider
  reference; a late callback of the first message finds the reference NULL and writes the old one back
  (`jobs.py:397`, `TwilioStatus`).
- `docs/ARCHITECTURE.md:40` says one active/recent campaign per customer is enforced;
  `UndoCampaignConfirmation` takes no lock and looks for no other campaign, hence `undone` in
  `OneLiveCampaign`. It restores `active` also to a campaign that was cancelled before it was confirmed.
  Two campaigns of a recipient are active, too, when the older has left the window with messages still
  queued: the window may be a day (`config.py:81`), and with `OUTLOOK_SEND_ENABLED` off, the default,
  no run takes e-mails (`config.py:86`, `workers.py:678`). In both cases both may send.
- `docs/ARCHITECTURE.md:44` says pending campaign jobs are cancelled when a campaign closes. A job in
  `sending` at that moment may come back as `retry` (`jobs.py:197`), and an administrator may retry a
  failed or dead one (`jobs.py:341-358`): neither looks at the campaign. The claim does, so the message
  is not sent while the campaign is closed, but stays in the queue and is sent if an undo reopens it.
  `OnlyTriedMessagesReturn` says what holds: only such messages come back.
- The same line and `README.md:21` say a reply ends the campaign and its pending jobs. It ends the active
  campaign with the latest `created_at`; another that left the window or was reopened stays active.
  `ReplyStopsTheLiveCampaign` is about the window, and excepts phones with an undone confirmation.
- `docs/ARCHITECTURE.md:46` says an ambiguous review is not confirmed; the list is cut to 100 before
  names are compared (`google_reviews.py:92`), so a namesake beyond them is not seen.
- `google_reviews.py:34-46` reads the review's state before it locks the row. A confirmation by an
  administrator that commits in between is not seen: the review becomes a candidate again, or is matched
  to another campaign, which is then confirmed as well. `MatchedIsConfirmed` holds all the same.
- `campaigns.py:69-70` says sorted keys cannot deadlock; the order is of texts and the locks are of
  their 32-bit hashes. With a `SlotOf` that gives two keys one slot `NoLockCycle` fails; with one for
  each it is proved.
- `docs/ARCHITECTURE.md:71` and `docs/OPERATIONS.md:14-15`: a report fails the latest e-mail to the
  address. A run that dies, or whose request fails, between recording a report and marking it as read
  records it again, and an older e-mail fails without a report: hence `interrupted` in
  `BouncesAreBacked`.
- The alert about a failed text is lost when its request dies between the two transactions: the
  repeated callback no longer advances the row. Hence `lost` in `FailureIsAlerted`.
- The worker writes a source's outcome after its transaction on the job (`workers.py:283`) and overwrites
  what an earlier callback wrote: hence `early` in `OutcomeFollowsCallbacks`. On the paths of
  `workers.py:307-316` and `332-344`, which do not write it, the source stays `queued`.
- `docs/OPERATIONS.md:26` gives 7 p.m. as the end of sending. The window is read once per run, so a batch
  begun in the last hour may go on after it: `SentInWindow` allows the local hour 19.
- `README.md:17` schedules the review text three hours after completion; it is three hours after the
  discovery (`domain/reviews.py:15`), and may be in the same hour as the first e-mail when both
  wait for the morning (`CampaignKeepsItsCalendar` says "not later"). The claim's `UPDATE ... RETURNING`
  has no order, so within an hour the text need not come first. With a delay above `EmailHour` + 4
  hours, or an e-mail hour of 9 (the opening), the text may come with or after the first e-mail:
  `config.py:79-80` admits delays up to 72 hours and any hour of the day.
- `README.md:27` promises an exact recipient preview. The send computes the recipients again
  (`admin.py:281`), so an opt-out or a new phone in between changes them.
- A notice counts as "completed" while its last message is in `sending`
  (`service_notices.py:175-203`), and as "queued" again if that attempt is repeated: hence the condition
  in `CompletedNoticeIsOver`.

**Bounds.** Two runs are what a stale claim needs (one late, one current); three, where three
attempts or a retry after two crashes matter. `MaxAttempts` of 2 or 3 makes "one attempt left" and
"none left" different states. `AttemptCap` lets every permitted attempt and retry happen.
`MaxRetries` bounds the administrator, `MaxPurges` retention. `CandidateLimit` (100 in the code) is the
number of campaigns. A run claims once, so a liveness run has at least as many runs as the
event can be claimed: two attempts need two runs, with a redelivery four. `OneEvent` keeps
`events_relay` to one event in a behaviour and redelivers only the relayed one; the interference of
two events is the subject of `events_alerts`. Runs are symmetric; symmetry is used only where no
liveness property is checked.

`service_notices` has one message, since messages of a notice share nothing but the notice's row, which
is cancelled once, and the run's batch, whose mixtures `outbox_batches` explores; one customer, since
the rows are a set of phones, whoever has them; and two retries: with them a late callback of an earlier attempt
can fail a job whose run is still waiting, and the next retry leaves that run submitting a message that
is then recalled. (That behaviour is why `spared` counts runs as well as statuses.)
`delivery_reports` keeps texts and e-mails apart, which share no state; two e-mails and one other
mail make an older e-mail to fail and newer mail that fills the page (`PageSize` is 50 in the code).
In `schedule` the hours 29 to 221 cover a full week on either side of the change of the clock on Sunday;
`MaxLate` lets messages be delayed over a window's end, and a run lasts past one full hour at most.

**Fairness.** Weak fairness of a run's next step (each provider request has a timeout and the
platform ends a run that hangs; `Crash` counts as a step), of lease expiry (time passes), of
recovery and of the claim (`render.yaml:103-117`: cron starts the workers every 5 and 2 minutes, and
`process_all` begins with recovery), and for the notices of its sweep. For the bounce sync, which
cron starts every hour (`render.yaml:127-132`), weak fairness of its start and strong fairness of its
requests and writes: runs may fail, but not all of them for ever at the same point. Nothing is assumed
of callbacks, customers or administrators,
nor that any send or relay ever succeeds.

## The proofs

TLAPS proves, for every set of jobs, runs, events, alerts, recipients, reviews, notices and customers and
every value of the bounds, from the modules' ASSUMEs (`OutboxConstants`, `QueueConstants`,
`AlertConstants`, `CampaignConstants`, `NoticeConstants`, `ReportConstants`, `TimelineConstants`), which
say what kind of thing each constant is. Three theorems have a hypothesis besides; it is in their
statement and named below. Every invariant a run checks is proved, with each action property and the
refinement. `outbox_batches` checks the inductive invariant `ResendInv` itself.

- `MessageOutboxProofs`. `ResendInvariant` gives `NoBlindResendHolds` and `AcceptedIsNotRequeuedHolds`.
  `NoBlindResend` is not inductive: that an accepted attempt is not followed by another depends on
  attempts still in a run's hands (`Open`), on the status and the attempt counter agreeing with what
  the runs believe (`StepInv`), and on a late run never finding a row it can still settle. The proof
  has one lemma for each way of touching it: quiet steps, claims, retries, submission, acceptance,
  failure. `DeliveryInvariant`, on top of it, gives `SettledStatusIsTrueHolds`,
  `ExtraAttemptsAreAuthorisedHolds`, `SubmissionHonoursStopHolds` and `DeliveredIsFinalHolds`: a leased
  job may be sent (`LeasedMaySend`: what suppresses a destination or closes a campaign cancels its
  leased jobs too, and a claim looks at both), a delivered job is finished in every place that speaks of it (`DeliveredInStep`), and a counter
  beyond `max_attempts` stands for a retry (`BudgetInStep`).
- `OutboxImplementsAuthorisedDelivery`: for each job every step of the outbox is a grant (an insert, a
  retry), a delivery against a permit (an acceptance), a forfeit, or a stutter. The mapping reads the
  permits off the rows and the runs: a waiting or leased job has one, and so has each run that
  has submitted it and does not know the outcome (`PermitHolders`). The proof has one lemma for each way
  a step moves the holders, and counts them as one that joins or leaves a finite set; that a
  permit is never used twice rests on `ResendInvariant`.
- `EventQueueProofs`: each step of the queue keeps the queue's types and `RetryBudget`, and only the
  holder of a lease settles an event, whatever module extends it.
- `PoolBrainEventsProofs`: `EventTypes`, `RetryBudgetHolds`, `NotifiedOnceHolds`,
  `CompletedIsHandledHolds`, `OnlyTheHolderSettlesHolds`. The strengthening says how far each
  run is with its event (every alert before its position is decided), that `jobs` and `outcome`
  agree, and that the owner of a leased event is a run that has it in hand or in its batch, or
  has ended.
- `WebsiteLeadSyncProofs`: `LeadInvariant`, `CompletedLeadIsRecordedHolds`,
  `DuplicatesNeedALostOutcomeHolds`, `AttemptIsRememberedHolds`, and the queue's two promises again for
  this worker. The invariant says what an undisturbed lead's holder knows: what is in
  the row (`UndisturbedIsHeld`), and that a customer created for it can be found, is remembered in the row
  or will be by that run (`UndisturbedIsKnown`).
- `ReviewCampaignsProofs`: `CampaignInvariant` gives `OneLiveCampaignHolds`,
  `OnlyTriedMessagesReturnHolds`, `RepliedStaysClosedHolds` and `MatchedIsConfirmedHolds`. Its heart is
  that a transaction which has checked holds all its recipient's locks (`LocksInStep`), so what it found
  stays right until it inserts (`ChecksHold`), although administrators and the import take none of them.
  `NoLockCycleHolds` for finite `Keys` whose hashes are apart: of waiting transactions take the one that
  wants the greatest key. `ReplyStopsTheLiveCampaignHolds` for any overlap of workflows: the campaign a
  reply ends was begun after every other active one of the phone, so it is in the window if one of them
  is (`LapseInOrder`), and `OneLiveCampaign` excludes two.
- `ServiceNoticesProofs`: `NoticesInvariant`, `LeftoversWereClaimedHolds`, `RecalledIsSilentHolds`,
  `CompletedNoticeIsOverHolds` (for finitely many messages, since the page counts them). The
  outbox's types come from `MessageOutboxProofs`, since a step of a notice is a step of the outbox or
  changes only `status`. Two facts about the outbox carry the rest: a settled job comes back to the
  queue only through an insertion or a retry (`OutboxKeepsDead`), and a run comes to submit a job only
  from the lease (`OutboxSubmitsLeased`). `RecalledIsNotSubmitted` is the strengthening: without it a
  run that took the job before the cancellation could still hand it over.
- `DeliveryReportsProofs`: `ReportsInvariant`, `OutcomeFollowsCallbacksHolds`, `FailureIsAlertedHolds`,
  `MailInvariant`, `BouncesAreBackedHolds`.
  For texts the strengthening ties the status to the rank and to what the provider did
  (`StatusIsBacked`: a failed text was refused, or Twilio has given it up), and says that until the
  worker's last write no callback is stored unless the text is in `early` (`NotOvertaken`). For e-mails
  it says that a recorded report has been read or is the first of the page in hand, and that the rest
  of the page is new (`NotRepeated`), so that recording adds to both sides of the count.
- `ReviewTimelineProofs`: `FirstSaturdayIsStrictlyAfter` and `NoticeWaitsForTheFirstOpening` about the
  calendar functions, for every instant and every zone with one change of at most an hour at night;
  both follow from the local clock being monotone and each local hour of the day existing once.
  `SentInWindowHolds` about every timeline, from where a claimed message's run can be
  (`ClaimedInWindow`). `TextsAreOnTimeHolds` and `CampaignKeepsItsCalendarHolds` about timelines in which
  the worker runs every hour, from `PunctualInv`: a message is claimed at its first opening
  (`Punctual`), and one that opens later is not taken up before (`InTurn`). The calendar
  theorem assumes `SmsDelay <= EmailHour + 4` and `ReviewStart < EmailHour` (the defaults are 3 and 10
  to 9). TLC finds the property violated one hour beyond either bound.

Only model-checked are the liveness properties `ClaimsAreReleased`, `EventsSettle`,
`StoppedNoticeIsCancelled` and `BounceIsRecorded`: they rest on fairness and ENABLED, which TLAPS does not
reach.

## Abstractions

- Except in `ReviewTimeline` time is not counted: due dates, business hours, back-off and the 120-day
  window are choices. `WindowPasses` lets campaigns leave the window in the order of their creation, and while
  a transaction begun before them is open, none (transactions take seconds, a window a day at least).
- Message bodies, templates, contact normalisation and name matching are constants
  (`Score` gives what the import tells apart: the whole name, half of it or more, less, or a campaign
  outside the review's window).
- `message_attempts` is the highest attempt number recorded. Retention may delete it at any time,
  which is more than the code does.
- In `MessageOutbox` a bounce fails any message sent to the address; in `DeliveryReports` the latest
  created, as in the code.
- `ReviewTimeline` counts whole hours, since every rule of the code cuts at them (minutes matter in one
  way: a text due at 18:57 that misses the run before seven waits until morning, as a late one would);
  the zones change their clock by an hour at most, between midnight and five. `EmailHour` is assumed to lie in the
  window (the code's default is 10; with `REVIEW_EMAIL_HOUR` outside 9 to 18, which `config.py:80`
  admits, an e-mail would wait for the next opening and the calendar of a campaign would not hold).
  Outlook sending is enabled.
- In `DeliveryReports` all e-mails go to one address and are created in the order of their numbers, each
  text is the message of a source row of its own, and the alert is for such a text; texts to the
  administrator, which have no source row, are left out.
- Administrators' transactions take their locks in one step, so the opposite row-lock order of the
  review import (which PostgreSQL resolves by aborting one of them) appears only as `AbortImport`.
- The same goes for `save_preference`: each of its two statements sees the rows at its own start, so a job
  that is in `sending` then and comes back before the commit may be missed; in the model it is not.
- A text Twilio accepts with a 2xx body its library cannot decode becomes `failed` or `dead`
  (`workers.py:332-344`): `ProviderAccepts` of `MessageOutbox` has it, that of `DeliveryReports` not.
- One review import runs at a time, as with cron; a manual sync beside it is not modelled.

## Not modelled

- *Unsubscribe tokens*: lookup and page; the effect is `save_preference`, modelled as `Suppress`.
- *OAuth connections*: a state row marked as used by the statement that reads it, and encrypted tokens.
- *Contact backfill*: a manual command that fills empty columns.
- *Templates, messages, contact normalisation*: text formatting, which no property is about.
- *Dashboard, audit, heartbeats, application shell*: reads, logs, configuration and wiring; `transaction`
  is what makes a repository function one action.

## Plan

Done: the outbox, the queue with its two workers, campaigns, service notices, delivery reports with the
bounce sync, scheduling; proofs of all their safety properties and of the refinement. Left:

1. OAuth state and unsubscribe tokens: single use under concurrent requests.
2. Administrators' transactions lock by lock, so that the opposite order of the review import shows.
