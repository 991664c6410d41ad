------------------------ MODULE MessageOutboxProperties ------------------------
(* What must hold of the message outbox. *)
EXTENDS MessageOutbox

\* Phases in which a run works on one job of its batch.
AtJob ==
    {"suppressed", "render", "submitted", "accepted", "uncertain", "retryable", "permanent"}

\* The columns and the run states have the values the code gives them,
\* and a run that works on a job has one.
TypeOK ==
    /\ status \in [Jobs -> JobStatus]
    /\ attempts \in [Jobs -> 0..AttemptCap]
    /\ owner \in [Jobs -> Runs \cup {None}]
    /\ lease \in [Jobs -> {"none", "live", "expired"}]
    /\ sid \in [Jobs -> 0..AttemptCap]
    /\ rank \in [Jobs -> Nat]
    /\ recorded \in [Jobs -> Nat]
    /\ suppressed \subseteq Destinations
    /\ active \subseteq Campaigns
    /\ pc \in [Runs -> RunPhase]
    /\ todo \in [Runs -> SUBSET Jobs]
    /\ cur \in [Runs -> Jobs \cup {None}]
    /\ attempt \in [Runs -> 0..AttemptCap]
    /\ provider \in [Jobs -> [AttemptNumbers -> ProviderStatus \cup {"none"}]]
    /\ retriedAt \in [Jobs -> Seq(0..AttemptCap)]
    /\ \A w \in Runs : pc[w] \in AtJob => cur[w] \in Jobs

RetriedBetween(j, m, n) == \E i \in 1..Len(retriedAt[j]) : m <= retriedAt[j][i] /\ retriedAt[j][i] < n

\* A provider accepts a message a second time only if an administrator retried
\* the job after the first attempt: no crash, lost answer, expired lease, late
\* worker or callback ever makes the outbox send the same message again.
NoBlindResend ==
    \A j \in Jobs : \A m, n \in HandedOver(j) : m < n => RetriedBetween(j, m, n)

\* While the provider has the message of the current attempt, the job is not
\* put back in the queue, unless an administrator retried it.
AcceptedIsNotRequeued ==
    \A j \in Jobs :
        attempts[j] \in HandedOver(j) /\ status[j] \in {"queued", "retry", "leased"} =>
            RetriedBetween(j, attempts[j], attempts[j] + 1)

\* A job enters 'sending' (the last transaction before the provider call) only
\* while its destination is not suppressed and its campaign is active, although
\* the worker read both in earlier transactions.
SubmissionHonoursStop ==
    [][\A j \in Jobs : status[j] # "sending" /\ status'[j] = "sending" =>
          ~Suppressed(j) /\ CampaignOpen(j)]_vars

\* Whatever order callbacks, worker and administrator come in, 'sent' and
\* 'delivered' are true of the provider message the job refers to: it is there now,
\* or was and has moved on.
SettledStatusIsTrue ==
    \A j \in Jobs : status[j] \in {"sent", "delivered"} =>
        /\ sid[j] \in HandedOver(j)
        /\ \/ provider[j][sid[j]] = status[j]
           \/ StatusRank[provider[j][sid[j]]] > StatusRank[status[j]]

\* A delivered message is never sent again, reopened or reported as failed.
DeliveredIsFinal ==
    [][\A j \in Jobs : status[j] = "delivered" => status'[j] = "delivered"]_vars

\* Attempts beyond max_attempts are each owed to an administrator's retry,
\* through crashes, recoveries and legacy rows.
ExtraAttemptsAreAuthorised ==
    \A j \in Jobs : \A n \in (MaxAttempts + 1)..attempts[j] : RetriedBetween(j, n - 1, n)

Held(j) == owner[j] # None /\ status[j] \in {"leased", "sending"}

\* No claim is held for ever: the worker settles it, or its lease runs out and
\* recovery does, whenever and wherever the worker crashed.
ClaimsAreReleased == \A j \in Jobs : Held(j) ~> ~Held(j)

\* docs/ARCHITECTURE.md:28-29: after provider acceptance "Lease recovery changes
\* the record to delivery_unknown": no job stays in 'sending' for ever.
SendingIsReconciled == \A j \in Jobs : status[j] = "sending" ~> status[j] # "sending"

-------------------------------------------------------------------------------
(* The inductive invariant behind NoBlindResend and AcceptedIsNotRequeued. *)

\* Run w has submitted attempt m of job j, and the outcome, as far as w knows,
\* leaves room for another attempt (or is not known yet).
InHand(w, j, m) ==
    cur[w] = j /\ attempt[w] = m /\ pc[w] \in {"submitted", "retryable"}

\* Attempt m of j is with the provider or may still get there.
Open(j, m) == m \in HandedOver(j) \/ \E w \in Runs : InHand(w, j, m)

RetriedSince(j, m) == \E i \in 1..Len(retriedAt[j]) : m <= retriedAt[j][i]

\* Open attempts are in the past; between any two of them, and between an open
\* attempt and a job that waits for the next one, lies an administrator's retry.
OpenAttemptsInOrder ==
    \A j \in Jobs : \A m \in AttemptNumbers : Open(j, m) =>
        /\ m <= attempts[j]
        /\ status[j] \in {"queued", "retry"} => RetriedSince(j, m)
        /\ status[j] = "leased" => RetriedBetween(j, m, attempts[j])
        /\ \A n \in AttemptNumbers : Open(j, n) /\ m < n => RetriedBetween(j, m, n)

\* An attempt in a run's hands is in no other run's, and no provider has it.
InHandUnresolved ==
    \A w \in Runs, j \in Jobs, m \in AttemptNumbers : InHand(w, j, m) =>
        /\ m \notin HandedOver(j)
        /\ \A v \in Runs \ {w} : ~InHand(v, j, m)

RetriesInPast ==
    \A j \in Jobs : \A i \in 1..Len(retriedAt[j]) : retriedAt[j][i] <= attempts[j]

\* Run w holds job k in its batch and has not submitted it.
Unsubmitted(w, k) ==
    \/ k \in todo[w]
    \/ cur[w] = k /\ pc[w] \in {"suppressed", "render"}
    \/ cur[w] = k /\ pc[w] = "permanent" /\ attempt[w] = 0

RunsInStep ==
    \A w \in Runs :
        /\ pc[w] \notin AtJob => cur[w] = None
        /\ cur[w] \notin todo[w]
        /\ pc[w] \in {"submitted", "retryable"} => attempt[w] # 0
        /\ pc[w] \in {"idle", "batch", "suppressed", "render"} => attempt[w] = 0

\* What a run's claim, if it still has it, says about the job.
ClaimsInStep ==
    \A w \in Runs, j \in Jobs : owner[j] = w =>
        /\ Unsubmitted(w, j) => status[j] # "sending"
        /\ cur[w] = j /\ attempt[w] # 0 => attempt[w] = attempts[j] /\ status[j] # "leased"

AttemptsInStep ==
    \A j \in Jobs :
        /\ status[j] = "absent" => attempts[j] = 0
        /\ status[j] = "leased" => attempts[j] # 0

StepInv == RunsInStep /\ ClaimsInStep /\ AttemptsInStep
OpenInv == OpenAttemptsInOrder /\ InHandUnresolved /\ RetriesInPast
ResendInv == TypeOK /\ StepInv /\ OpenInv

-------------------------------------------------------------------------------
(* The inductive invariants behind the other properties, beside ResendInv. *)

\* Whatever suppresses a destination or closes a campaign cancels the leased jobs too.
LeasedMaySend == \A j \in Jobs : status[j] = "leased" => ~Suppressed(j) /\ CampaignOpen(j)

\* No callback advances a delivered job, and no bounce finds one.
DeliveredInStep == \A j \in Jobs : status[j] = "delivered" => rank[j] = 100 /\ j \notin Email

\* Row j of an earlier release: its attempt is recorded and not counted.
Legacy(j) == attempts[j] = 0 /\ recorded[j] = 1 /\ 1 < MaxAttempts

\* The counter never falls behind the recorded attempts of this release, and a job in
\* the queue is new, has attempts left, or was retried at the present count.
BudgetInStep ==
    \A j \in Jobs :
        /\ recorded[j] <= attempts[j] \/ Legacy(j)
        /\ status[j] = "queued" =>
              attempts[j] = 0 \/ RetriedBetween(j, attempts[j], attempts[j] + 1)
        /\ status[j] = "retry" => attempts[j] < MaxAttempts

DeliveryInv ==
    /\ LeasedMaySend
    /\ DeliveredInStep
    /\ BudgetInStep
    /\ SettledStatusIsTrue
    /\ ExtraAttemptsAreAuthorised

\* Only a job that was in the queue has been retried.
AbsentIsNew == \A j \in Jobs : status[j] = "absent" => retriedAt[j] = <<>>

-------------------------------------------------------------------------------
(* The outbox implements AuthorisedDelivery.                               *)

\* A permit is with the job while it waits or is leased, and with the run from
\* the submission until the provider's answer says it may be tried again.
PermitHolders(j) ==
    {w \in Runs : cur[w] = j /\ pc[w] \in {"submitted", "retryable"}}

PermitsLeft ==
    [j \in Jobs |-> Cardinality(PermitHolders(j)) + IF status[j] \in Pending THEN 1 ELSE 0]

PermitsGranted ==
    [j \in Jobs |-> IF status[j] = "absent" THEN 0 ELSE 1 + Len(retriedAt[j])]

TimesHandedOver == [j \in Jobs |-> Cardinality(HandedOver(j))]

Authorised ==
    INSTANCE AuthorisedDelivery
        WITH Messages <- Jobs, granted <- PermitsGranted, permits <- PermitsLeft,
             deliveries <- TimesHandedOver

\* Every step of workers, recovery, callbacks and web requests is a grant, a
\* delivery against a permit, a forfeit, or invisible.
ImplementsAuthorisedDelivery == Authorised!Spec
================================================================================
