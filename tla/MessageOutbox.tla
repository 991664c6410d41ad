----------------------------- MODULE MessageOutbox -----------------------------
(***************************************************************************)
(* The durable message outbox (table message_jobs) and everything that     *)
(* writes to it: the overlapping worker runs of process_due_messages,      *)
(* lease recovery, Twilio status callbacks, Microsoft bounces, opt-outs,   *)
(* campaign closure and the administrator's retry.                         *)
(*                                                                         *)
(* Every repository function is one database transaction and therefore one *)
(* action.  A worker run is a process: the provider call, and each of its  *)
(* transactions, is a step of its own, so other runs and web requests come *)
(* in between, and a run may crash at any point.                           *)
(*                                                                         *)
(* Time is abstracted to what the code tests: a lease is live or expired,  *)
(* and a claim takes any set of claimable jobs (due, allowed at this hour, *)
(* not locked by another transaction).                                     *)
(***************************************************************************)
EXTENDS Integers, FiniteSets, Sequences

CONSTANTS
    Jobs,          \* message jobs, one for each idempotency key
    Runs,          \* worker runs; each has a fresh worker_id and claims once
    Destinations,  \* normalised (channel, destination) pairs
    Campaigns,     \* review campaigns
    Destination,   \* Destination[j]: where j goes
    Campaign,      \* Campaign[j]: the campaign j belongs to, or None
    Email,         \* jobs sent through Microsoft Graph; the others use Twilio
    Admin,         \* jobs whose message_kind starts with "admin_"
    None,          \* SQL NULL for locked_by and campaign_id
    MaxAttempts,   \* message_jobs.max_attempts
    AttemptCap,    \* bound: highest attempt number a behaviour explores
    MaxRetries     \* bound: administrator retries of one job

ASSUME OutboxConstants ==
    /\ Destination \in [Jobs -> Destinations]
    /\ Campaign \in [Jobs -> Campaigns \cup {None}]
    /\ Email \subseteq Jobs
    /\ Admin \subseteq Jobs
    /\ None \notin Campaigns \cup Runs \cup Jobs
    /\ MaxAttempts \in Nat \ {0}
    /\ AttemptCap \in Nat
    /\ MaxRetries \in Nat

VARIABLES
    \* Columns of message_jobs.
    status, attempts, owner, lease, sid, rank,
    recorded,    \* highest attempt_number in message_attempts for the job
    suppressed,  \* communication_preferences rows with suppressed = TRUE
    active,      \* campaigns whose status is 'active'
    \* Worker runs.
    pc, todo, cur, attempt,
    provider,    \* provider[j][n]: what became of the message of attempt n of j
    retriedAt    \* history: attempt_count at each administrator retry

jobVars == <<status, attempts, owner, lease, sid, rank, recorded>>
runVars == <<pc, todo, cur, attempt>>
envVars == <<suppressed, active>>
vars == <<jobVars, runVars, envVars, provider, retriedAt>>

JobStatus ==
    {"absent", "queued", "leased", "retry", "sending", "accepted", "sent",
     "delivered", "failed", "cancelled", "dead", "delivery_unknown"}

\* Provider statuses, as the callback handler tells them apart: 'scheduled'
\* behaves like "queued", 'undelivered' and 'canceled' like "failed".
ProviderStatus == {"accepted", "queued", "sending", "sent", "delivered", "failed"}

StatusRank ==
    [s \in ProviderStatus |->
        CASE s = "accepted" -> 10
          [] s = "queued"   -> 20
          [] s = "sending"  -> 30
          [] s = "sent"     -> 40
          [] OTHER          -> 100]

\* Provider references are numbered by the attempt that created them; 0 is NULL.
AttemptNumbers == 1..AttemptCap
NoReference == 0

RunPhase ==
    {"idle", "batch", "suppressed", "render", "submitted", "accepted",
     "uncertain", "retryable", "permanent", "ended"}

Greatest(a, b) == IF a >= b THEN a ELSE b

\* Attempts of j that a provider accepted.
HandedOver(j) == {n \in AttemptNumbers : provider[j][n] # "none"}

Suppressed(j) == Destination[j] \in suppressed
CampaignOpen(j) == Campaign[j] = None \/ Campaign[j] \in active

\* A campaign's jobs are inserted by the transaction that creates it.  A row
\* left by an earlier release may have attempt_count 0 beside a recorded attempt.
Init ==
    /\ status = [j \in Jobs |-> IF Campaign[j] = None THEN "absent" ELSE "queued"]
    /\ attempts = [j \in Jobs |-> 0]
    /\ owner = [j \in Jobs |-> None]
    /\ lease = [j \in Jobs |-> "none"]
    /\ sid = [j \in Jobs |-> NoReference]
    /\ rank = [j \in Jobs |-> 0]
    /\ recorded \in [Jobs -> {0, 1}]
    /\ \A j \in Jobs : recorded[j] = 1 => Campaign[j] # None /\ 1 < MaxAttempts
    /\ suppressed = {}
    /\ active = Campaigns
    /\ pc = [w \in Runs |-> "idle"]
    /\ todo = [w \in Runs |-> {}]
    /\ cur = [w \in Runs |-> None]
    /\ attempt = [w \in Runs |-> 0]
    /\ provider = [j \in Jobs |-> [n \in AttemptNumbers |-> "none"]]
    /\ retriedAt = [j \in Jobs |-> <<>>]

-------------------------------------------------------------------------------
(* Insertion and claim.                                                    *)

\* INSERT ... ON CONFLICT (idempotency_key) DO NOTHING: a second insert of the
\* same key changes nothing and is a stuttering step.
Enqueue(j) ==
    /\ status[j] = "absent"
    /\ status' = [status EXCEPT ![j] = "queued"]
    /\ UNCHANGED <<attempts, owner, lease, sid, rank, recorded, runVars, envVars,
                   provider, retriedAt>>

NextAttempt(j) == Greatest(attempts[j], recorded[j]) + 1

Claimable(j) ==
    /\ status[j] \in {"queued", "retry"}
    /\ ~Suppressed(j)
    /\ CampaignOpen(j)
    /\ NextAttempt(j) <= AttemptCap

ClaimMessageJobs(w, batch) ==
    /\ pc[w] = "idle"
    /\ batch # {}
    /\ \A j \in batch : Claimable(j)
    /\ status' = [j \in Jobs |-> IF j \in batch THEN "leased" ELSE status[j]]
    /\ attempts' = [j \in Jobs |-> IF j \in batch THEN NextAttempt(j) ELSE attempts[j]]
    /\ recorded' = [j \in Jobs |-> IF j \in batch THEN NextAttempt(j) ELSE recorded[j]]
    /\ owner' = [j \in Jobs |-> IF j \in batch THEN w ELSE owner[j]]
    /\ lease' = [j \in Jobs |-> IF j \in batch THEN "live" ELSE lease[j]]
    /\ pc' = [pc EXCEPT ![w] = "batch"]
    /\ todo' = [todo EXCEPT ![w] = batch]
    /\ UNCHANGED <<sid, rank, cur, attempt, envVars, provider, retriedAt>>

-------------------------------------------------------------------------------
(* One iteration of the loop in process_due_messages.                      *)

\* The WHERE clause every worker transaction uses.
Owns(w, j, statuses) == owner[j] = w /\ status[j] \in statuses

\* Set the status and clear locked_at, locked_by and lease_expires_at.
Settle(j, new) ==
    /\ status' = [status EXCEPT ![j] = new]
    /\ owner' = [owner EXCEPT ![j] = None]
    /\ lease' = [lease EXCEPT ![j] = "none"]

GoTo(w, phase) == pc' = [pc EXCEPT ![w] = phase]

BackToBatch(w) ==
    /\ GoTo(w, "batch")
    /\ cur' = [cur EXCEPT ![w] = None]
    /\ attempt' = [attempt EXCEPT ![w] = 0]
    /\ UNCHANGED todo

\* is_suppressed, read in a transaction of its own.
Recheck(w, j) ==
    /\ pc[w] = "batch"
    /\ j \in todo[w]
    /\ GoTo(w, IF j \notin Admin /\ Suppressed(j) THEN "suppressed" ELSE "render")
    /\ todo' = [todo EXCEPT ![w] = @ \ {j}]
    /\ cur' = [cur EXCEPT ![w] = j]
    /\ UNCHANGED <<jobVars, attempt, envVars, provider, retriedAt>>

CancelMessageJob(w) ==
    /\ pc[w] = "suppressed"
    /\ IF Owns(w, cur[w], {"leased", "sending"})
          THEN Settle(cur[w], "cancelled")
          ELSE UNCHANGED <<status, owner, lease>>
    /\ BackToBatch(w)
    /\ UNCHANGED <<attempts, sid, rank, recorded, envVars, provider, retriedAt>>

\* The unsubscribe token or the template raises before anything is submitted.
RenderFails(w) ==
    /\ pc[w] = "render"
    /\ GoTo(w, "permanent")
    /\ UNCHANGED <<jobVars, todo, cur, attempt, envVars, provider, retriedAt>>

MarkSending(w) ==
    /\ pc[w] = "render"
    /\ Owns(w, cur[w], {"leased"})
    /\ status' = [status EXCEPT ![cur[w]] = "sending"]
    /\ GoTo(w, "submitted")
    /\ attempt' = [attempt EXCEPT ![w] = attempts[cur[w]]]
    /\ UNCHANGED <<attempts, owner, lease, sid, rank, recorded, todo, cur, envVars,
                   provider, retriedAt>>

\* mark_sending matched no row: the job was cancelled, recovered or settled.
ClaimLost(w) ==
    /\ pc[w] = "render"
    /\ ~Owns(w, cur[w], {"leased"})
    /\ BackToBatch(w)
    /\ UNCHANGED <<jobVars, envVars, provider, retriedAt>>

\* What the send call returns for an accepted message.
SendStatus(j) == IF j \in Email THEN "accepted" ELSE "queued"

\* The provider takes the message.  Its answer reaches the worker, or is lost and the
\* worker sees a timeout or an ambiguous error, or Twilio's has a body that cannot be
\* decoded, which the worker takes for an error of its own.
ProviderAccepts(w, answer) ==
    /\ pc[w] = "submitted"
    /\ answer \in {"accepted", "uncertain", "permanent"}
    /\ answer = "permanent" => cur[w] \notin Email
    /\ provider' = [provider EXCEPT ![cur[w]][attempt[w]] = SendStatus(cur[w])]
    /\ GoTo(w, answer)
    /\ UNCHANGED <<jobVars, todo, cur, attempt, envVars, retriedAt>>

\* The provider refuses the message, or the request never reached it.
ProviderRejects(w, answer) ==
    /\ pc[w] = "submitted"
    /\ answer \in {"retryable", "permanent", "uncertain"}
    /\ GoTo(w, answer)
    /\ UNCHANGED <<jobVars, todo, cur, attempt, envVars, provider, retriedAt>>

\* Variant: the response overwrites what a callback already reported.
MarkAcceptedIgnoresRank(w) ==
    LET j == cur[w]
        new == StatusRank[SendStatus(j)]
    IN  /\ pc[w] = "accepted"
        /\ Owns(w, j, {"sending", "accepted", "sent", "delivered", "failed"})
        /\ sid[j] \in {NoReference, attempt[w]}
        /\ Settle(j, "accepted")
        /\ sid' = [sid EXCEPT ![j] = attempt[w]]
        /\ rank' = [rank EXCEPT ![j] = Greatest(@, new)]
        /\ BackToBatch(w)
        /\ UNCHANGED <<attempts, recorded, envVars, provider, retriedAt>>

MarkAccepted(w) ==
    LET j == cur[w]
        new == StatusRank[SendStatus(j)]
    IN  /\ pc[w] = "accepted"
        /\ Owns(w, j, {"sending", "accepted", "sent", "delivered", "failed"})
        /\ sid[j] \in {NoReference, attempt[w]}
        /\ Settle(j, IF rank[j] > new THEN status[j] ELSE "accepted")
        /\ sid' = [sid EXCEPT ![j] = attempt[w]]
        /\ rank' = [rank EXCEPT ![j] = Greatest(@, new)]
        /\ BackToBatch(w)
        /\ UNCHANGED <<attempts, recorded, envVars, provider, retriedAt>>

\* Variant: an unrecorded acceptance is treated as a failed, repeatable send.
AcceptanceNotRecordedRetries(w) ==
    /\ pc[w] = "accepted"
    /\ GoTo(w, "retryable")
    /\ UNCHANGED <<jobVars, todo, cur, attempt, envVars, provider, retriedAt>>

\* mark_accepted matched no row or its transaction failed.
AcceptanceNotRecorded(w) ==
    /\ pc[w] = "accepted"
    /\ GoTo(w, "uncertain")
    /\ UNCHANGED <<jobVars, todo, cur, attempt, envVars, provider, retriedAt>>

MarkDeliveryUnknown(w) ==
    /\ pc[w] = "uncertain"
    /\ IF Owns(w, cur[w], {"sending"})
          THEN Settle(cur[w], "delivery_unknown")
          ELSE UNCHANGED <<status, owner, lease>>
    /\ BackToBatch(w)
    /\ UNCHANGED <<attempts, sid, rank, recorded, envVars, provider, retriedAt>>

FailureStatus(j, retryable) ==
    IF attempts[j] >= MaxAttempts THEN "dead"
    ELSE IF retryable THEN "retry" ELSE "failed"

FailMessageJob(w) ==
    /\ pc[w] \in {"retryable", "permanent"}
    /\ IF Owns(w, cur[w], {"leased", "sending"})
          THEN Settle(cur[w], FailureStatus(cur[w], pc[w] = "retryable"))
          ELSE UNCHANGED <<status, owner, lease>>
    /\ BackToBatch(w)
    /\ UNCHANGED <<attempts, sid, rank, recorded, envVars, provider, retriedAt>>

StopRun(w) ==
    /\ pc' = [pc EXCEPT ![w] = "ended"]
    /\ todo' = [todo EXCEPT ![w] = {}]
    /\ cur' = [cur EXCEPT ![w] = None]
    /\ attempt' = [attempt EXCEPT ![w] = 0]
    /\ UNCHANGED <<jobVars, envVars, provider, retriedAt>>

EndRun(w) == pc[w] = "batch" /\ todo[w] = {} /\ StopRun(w)

\* The process dies, or an error escapes an exception handler of the loop.
Crash(w) == pc[w] \notin {"idle", "ended"} /\ StopRun(w)

-------------------------------------------------------------------------------
(* Lease recovery and the suppression sweep of recover_stale_work.         *)

LeaseExpires(j) ==
    /\ lease[j] = "live"
    /\ lease' = [lease EXCEPT ![j] = "expired"]
    /\ UNCHANGED <<status, attempts, owner, sid, rank, recorded, runVars, envVars,
                   provider, retriedAt>>

\* Variant: only leased jobs are recovered.
StaleForgetsSending(j) == status[j] = "leased" /\ lease[j] = "expired"

Stale(j) == status[j] \in {"leased", "sending"} /\ lease[j] = "expired"

\* Variants: a submitted job is requeued; the limit is off by one.
RecoveredStatusRequeuesSending(j) ==
    IF attempts[j] >= MaxAttempts THEN "dead" ELSE "retry"
RecoveredStatusOneMore(j) ==
    IF status[j] = "sending" THEN "delivery_unknown"
    ELSE IF attempts[j] > MaxAttempts THEN "dead" ELSE "retry"

RecoveredStatus(j) ==
    IF status[j] = "sending" THEN "delivery_unknown"
    ELSE IF attempts[j] >= MaxAttempts THEN "dead" ELSE "retry"

RecoverStaleMessageJobs ==
    /\ \E j \in Jobs : Stale(j)
    /\ status' = [j \in Jobs |-> IF Stale(j) THEN RecoveredStatus(j) ELSE status[j]]
    /\ owner' = [j \in Jobs |-> IF Stale(j) THEN None ELSE owner[j]]
    /\ lease' = [j \in Jobs |-> IF Stale(j) THEN "none" ELSE lease[j]]
    /\ UNCHANGED <<attempts, sid, rank, recorded, runVars, envVars, provider, retriedAt>>

\* Variant: a leased job is left to its worker.
PendingWithoutLeased == {"queued", "retry"}

Pending == {"queued", "retry", "leased"}

\* Variant: a message waiting for its next attempt is not looked for.
CancelPendingForgetsRetry(group) ==
    status' = [j \in Jobs |->
                  IF j \in group /\ status[j] = "queued" THEN "cancelled" ELSE status[j]]

\* Cancels without clearing the lock columns, as each of the three callers does.
CancelPending(group) ==
    status' = [j \in Jobs |->
                  IF j \in group /\ status[j] \in Pending THEN "cancelled" ELSE status[j]]

CancelSuppressedQueuedJobs ==
    /\ \E j \in Jobs : Suppressed(j) /\ status[j] \in Pending
    /\ CancelPending({j \in Jobs : Suppressed(j)})
    /\ UNCHANGED <<attempts, owner, lease, sid, rank, recorded, runVars, envVars,
                   provider, retriedAt>>

-------------------------------------------------------------------------------
(* Web requests: callbacks, opt-outs, campaign closure, manual retry.      *)

\* The provider moves a Twilio message forward, possibly skipping statuses.
ProviderProgress(j, n, s) ==
    /\ j \notin Email
    /\ provider[j][n] \in ProviderStatus
    /\ StatusRank[s] > StatusRank[provider[j][n]]
    /\ provider' = [provider EXCEPT ![j][n] = s]
    /\ UNCHANGED <<jobVars, runVars, envVars, retriedAt>>

\* A callback for s may be on its way, once or many times, in any order.
Emitted(j, n, s) ==
    /\ j \notin Email
    /\ provider[j][n] \in ProviderStatus
    /\ s = provider[j][n] \/ StatusRank[s] < StatusRank[provider[j][n]]
    /\ s # "accepted"

StatusAfter(j, s) ==
    IF s \in {"delivered", "failed", "sent"} THEN s ELSE status[j]

\* Variant: the status is written to the job named by the callback whatever
\* message it refers to.
TwilioStatusIgnoresReference(j, n, s) ==
    /\ Emitted(j, n, s)
    /\ sid' = [sid EXCEPT ![j] = IF @ = NoReference THEN n ELSE @]
    /\ IF StatusRank[s] > rank[j]
          THEN /\ rank' = [rank EXCEPT ![j] = StatusRank[s]]
               /\ status' = [status EXCEPT ![j] = StatusAfter(j, s)]
          ELSE UNCHANGED <<rank, status>>
    /\ UNCHANGED <<attempts, owner, lease, recorded, runVars, envVars, provider,
                   retriedAt>>

\* record_provider_event: the callback names the job, so a job without a
\* provider reference takes the callback's; the status follows by rank.
TwilioStatus(j, n, s) ==
    LET attached == sid[j] \in {NoReference, n}
        advances == \/ StatusRank[s] > rank[j]
                    \/ /\ StatusRank[s] = rank[j]
                       /\ status[j] \notin {"delivered", "failed", "cancelled", "dead"}
    IN  /\ Emitted(j, n, s)
        /\ attached
        /\ sid' = [sid EXCEPT ![j] = n]
        /\ IF advances
              THEN /\ rank' = [rank EXCEPT ![j] = StatusRank[s]]
                   /\ status' = [status EXCEPT ![j] = StatusAfter(j, s)]
              ELSE UNCHANGED <<rank, status>>
        /\ UNCHANGED <<attempts, owner, lease, recorded, runVars, envVars, provider,
                       retriedAt>>

\* save_preference(suppressed = TRUE): STOP, unsubscribe, administrator.
Suppress(d) ==
    /\ suppressed' = suppressed \cup {d}
    /\ CancelPending({j \in Jobs : Destination[j] = d})
    /\ UNCHANGED <<attempts, owner, lease, sid, rank, recorded, active, runVars,
                   provider, retriedAt>>

\* save_preference(suppressed = FALSE): START.
Unsuppress(d) ==
    /\ d \in suppressed
    /\ suppressed' = suppressed \ {d}
    /\ UNCHANGED <<jobVars, active, runVars, provider, retriedAt>>

\* A non-delivery report: suppress the address and fail an email job sent to
\* it (the latest one; here any, the order of creation is not modelled).
RecordPermanentBounce(j) ==
    /\ j \in Email
    /\ status[j] \in {"accepted", "sent", "delivered"}
    /\ suppressed' = suppressed \cup {Destination[j]}
    /\ status' = [k \in Jobs |->
                     IF k = j THEN "failed"
                     ELSE IF Destination[k] = Destination[j] /\ status[k] \in Pending
                     THEN "cancelled" ELSE status[k]]
    /\ rank' = [rank EXCEPT ![j] = 100]
    /\ UNCHANGED <<attempts, owner, lease, sid, recorded, active, runVars, provider,
                   retriedAt>>

\* Reply, confirmation or manual cancellation: the campaign leaves 'active'
\* (a confirmation may find it closed already) and cancel_campaign_jobs runs in
\* the same transaction.
CloseCampaign(c) ==
    /\ active' = active \ {c}
    /\ CancelPending({j \in Jobs : Campaign[j] = c})
    /\ UNCHANGED <<attempts, owner, lease, sid, rank, recorded, suppressed, runVars,
                   provider, retriedAt>>

\* Undo of a review confirmation puts the campaign back to 'active'.
ReopenCampaign(c) ==
    /\ c \in Campaigns \ active
    /\ active' = active \cup {c}
    /\ UNCHANGED <<jobVars, suppressed, runVars, provider, retriedAt>>

RetryDeadOrFailedJob(j) ==
    /\ status[j] \in {"failed", "dead"}
    /\ Len(retriedAt[j]) < MaxRetries
    /\ Settle(j, "queued")
    /\ sid' = [sid EXCEPT ![j] = NoReference]
    /\ rank' = [rank EXCEPT ![j] = 0]
    /\ retriedAt' = [retriedAt EXCEPT ![j] = Append(@, attempts[j])]
    /\ UNCHANGED <<attempts, recorded, runVars, envVars, provider>>

\* Retention deletes message_attempts rows that are a year old.
PurgeAttempts(j) ==
    /\ recorded[j] > 0
    /\ recorded' = [recorded EXCEPT ![j] = 0]
    /\ UNCHANGED <<status, attempts, owner, lease, sid, rank, runVars, envVars,
                   provider, retriedAt>>

-------------------------------------------------------------------------------
RunStep(w) ==
    \/ CancelMessageJob(w) \/ RenderFails(w) \/ MarkSending(w) \/ ClaimLost(w)
    \/ \E answer \in RunPhase : ProviderAccepts(w, answer) \/ ProviderRejects(w, answer)
    \/ MarkAccepted(w) \/ AcceptanceNotRecorded(w) \/ MarkDeliveryUnknown(w)
    \/ FailMessageJob(w) \/ EndRun(w) \/ Crash(w)
    \/ \E j \in Jobs : Recheck(w, j)

WorkerStep ==
    \E w \in Runs : RunStep(w) \/ \E batch \in SUBSET Jobs : ClaimMessageJobs(w, batch)

WebStep ==
    \/ \E j \in Jobs : Enqueue(j) \/ RecordPermanentBounce(j) \/ RetryDeadOrFailedJob(j)
    \/ \E d \in Destinations : Suppress(d) \/ Unsuppress(d)
    \/ \E c \in Campaigns : CloseCampaign(c) \/ ReopenCampaign(c)
    \/ \E j \in Jobs, n \in AttemptNumbers, s \in ProviderStatus :
          ProviderProgress(j, n, s) \/ TwilioStatus(j, n, s)

MaintenanceStep ==
    \/ \E j \in Jobs : LeaseExpires(j) \/ PurgeAttempts(j)
    \/ RecoverStaleMessageJobs
    \/ CancelSuppressedQueuedJobs

Next == WorkerStep \/ WebStep \/ MaintenanceStep

Spec == Init /\ [][Next]_vars

\* A run never hangs (every provider call has a timeout; the platform kills a
\* run that does), leases run out, and cron starts recovery again and again.
Fairness ==
    /\ \A w \in Runs : WF_vars(RunStep(w))
    /\ \A j \in Jobs : WF_vars(LeaseExpires(j))
    /\ WF_vars(RecoverStaleMessageJobs)

FairSpec == Spec /\ Fairness
================================================================================
