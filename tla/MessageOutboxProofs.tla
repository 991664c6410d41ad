-------------------------- MODULE MessageOutboxProofs --------------------------
(***************************************************************************)
(* Theorems about MessageOutbox for every set of jobs, runs, destinations  *)
(* and campaigns and every value of the bounds.                            *)
(***************************************************************************)
EXTENDS MessageOutboxProperties, FiniteSetTheorems, TLAPS

-------------------------------------------------------------------------------
(* Facts about the operators.                                              *)

LEMMA StatusRankType ==
    /\ \A s \in ProviderStatus : StatusRank[s] \in 1..100
    /\ \A s \in ProviderStatus \ {"delivered", "failed"} : StatusRank[s] <= 40
    /\ StatusRank["delivered"] = 100
    /\ StatusRank["failed"] = 100
    /\ StatusRank["sent"] = 40
BY DEF StatusRank, ProviderStatus

LEMMA SendStatusType ==
    ASSUME NEW j
    PROVE  /\ SendStatus(j) \in ProviderStatus \ {"sent", "delivered", "failed"}
           /\ StatusRank[SendStatus(j)] \in 1..20
BY DEF SendStatus, StatusRank, ProviderStatus

LEMMA GreatestType ==
    ASSUME NEW a \in Nat, NEW b \in Nat
    PROVE  /\ Greatest(a, b) \in {a, b}
           /\ Greatest(a, b) >= a
           /\ Greatest(a, b) >= b
BY DEF Greatest

LEMMA NextAttemptType ==
    ASSUME TypeOK, NEW j \in Jobs
    PROVE  /\ NextAttempt(j) \in Nat
           /\ NextAttempt(j) > attempts[j]
           /\ NextAttempt(j) > recorded[j]
BY OutboxConstants DEF TypeOK, NextAttempt, Greatest

-------------------------------------------------------------------------------
(* Type correctness.                                                       *)

LEMMA InitType == Init => TypeOK
BY OutboxConstants
DEF Init, TypeOK, JobStatus, RunPhase, AtJob, AttemptNumbers, NoReference

LEMMA SettleType ==
    ASSUME TypeOK, NEW j \in Jobs, NEW s \in JobStatus, Settle(j, s)
    PROVE  /\ status' \in [Jobs -> JobStatus]
           /\ owner' \in [Jobs -> Runs \cup {None}]
           /\ lease' \in [Jobs -> {"none", "live", "expired"}]
BY DEF Settle, TypeOK

LEMMA CancelPendingType ==
    ASSUME TypeOK, NEW group, CancelPending(group)
    PROVE  status' \in [Jobs -> JobStatus]
BY DEF CancelPending, TypeOK, JobStatus

RunTypes ==
    /\ pc \in [Runs -> RunPhase]
    /\ todo \in [Runs -> SUBSET Jobs]
    /\ cur \in [Runs -> Jobs \cup {None}]
    /\ attempt \in [Runs -> 0..AttemptCap]
    /\ \A w \in Runs : pc[w] \in AtJob => cur[w] \in Jobs

LEMMA BackToBatchType ==
    ASSUME TypeOK, NEW w \in Runs, BackToBatch(w)
    PROVE  RunTypes'
BY OutboxConstants DEF BackToBatch, GoTo, TypeOK, RunTypes, RunPhase, AtJob

\* A run that stays with its job and moves to another phase.
LEMMA GoToType ==
    ASSUME TypeOK, NEW w \in Runs, NEW phase \in RunPhase, pc[w] \in AtJob,
           GoTo(w, phase), UNCHANGED <<todo, cur, attempt>>
    PROVE  RunTypes'
BY DEF GoTo, TypeOK, RunTypes

LEMMA RunStepType ==
    ASSUME TypeOK, NEW w \in Runs, RunStep(w)
    PROVE  TypeOK'
<1> USE DEF envVars, RunTypes
<1>1. CASE CancelMessageJob(w)
    <2>1. cur[w] \in Jobs /\ "cancelled" \in JobStatus
        BY <1>1 DEF CancelMessageJob, TypeOK, AtJob, JobStatus
    <2> QED BY <1>1, <2>1, SettleType, BackToBatchType DEF CancelMessageJob, TypeOK
<1>2. CASE RenderFails(w)
    BY <1>2, GoToType DEF RenderFails, TypeOK, jobVars, RunPhase, AtJob
<1>3. CASE MarkSending(w)
    <2>1. cur[w] \in Jobs
        BY <1>3 DEF MarkSending, TypeOK, AtJob
    <2> QED BY <1>3, <2>1 DEF MarkSending, GoTo, TypeOK, JobStatus, RunPhase, AtJob
<1>4. CASE ClaimLost(w)
    BY <1>4, BackToBatchType DEF ClaimLost, TypeOK, jobVars
<1>5. ASSUME NEW answer \in RunPhase, ProviderAccepts(w, answer) PROVE TypeOK'
    <2>1. cur[w] \in Jobs /\ SendStatus(cur[w]) \in ProviderStatus
        BY <1>5 DEF ProviderAccepts, TypeOK, AtJob, SendStatus, ProviderStatus
    <2>2. RunTypes'
        BY <1>5, GoToType DEF ProviderAccepts, AtJob
    <2> QED BY <1>5, <2>1, <2>2 DEF ProviderAccepts, TypeOK, jobVars
<1>6. ASSUME NEW answer \in RunPhase, ProviderRejects(w, answer) PROVE TypeOK'
    BY <1>6, GoToType DEF ProviderRejects, TypeOK, jobVars, AtJob
<1>7. CASE MarkAccepted(w)
    <2> DEFINE j == cur[w]
               new == StatusRank[SendStatus(j)]
    <2>1. j \in Jobs /\ new \in Nat /\ rank[j] \in Nat
        <3>1. j \in Jobs
            BY <1>7 DEF MarkAccepted, TypeOK, AtJob
        <3>2. new \in 1..20
            BY SendStatusType
        <3>3. rank[j] \in Nat
            BY <3>1 DEF TypeOK
        <3> QED BY <3>1, <3>2, <3>3
    <2>2. PICK s \in JobStatus : Settle(j, s)
        BY <1>7, <2>1 DEF MarkAccepted, TypeOK, JobStatus
    <2>3. rank' \in [Jobs -> Nat]
        BY <1>7, <2>1, GreatestType DEF MarkAccepted, TypeOK
    <2>4. sid' \in [Jobs -> 0..AttemptCap]
        BY <1>7, <2>1 DEF MarkAccepted, TypeOK
    <2>5. RunTypes'
        BY <1>7, BackToBatchType DEF MarkAccepted
    <2> QED BY <1>7, <2>1, <2>2, <2>3, <2>4, <2>5, SettleType DEF MarkAccepted, TypeOK
<1>8. CASE AcceptanceNotRecorded(w)
    BY <1>8, GoToType DEF AcceptanceNotRecorded, TypeOK, jobVars, RunPhase, AtJob
<1>9. CASE MarkDeliveryUnknown(w)
    <2>1. cur[w] \in Jobs /\ "delivery_unknown" \in JobStatus
        BY <1>9 DEF MarkDeliveryUnknown, TypeOK, AtJob, JobStatus
    <2> QED BY <1>9, <2>1, SettleType, BackToBatchType DEF MarkDeliveryUnknown, TypeOK
<1>10. CASE FailMessageJob(w)
    <2>1. cur[w] \in Jobs /\ FailureStatus(cur[w], pc[w] = "retryable") \in JobStatus
        BY <1>10 DEF FailMessageJob, TypeOK, AtJob, JobStatus, FailureStatus
    <2> QED BY <1>10, <2>1, SettleType, BackToBatchType DEF FailMessageJob, TypeOK
<1>11. CASE EndRun(w) \/ Crash(w)
    <2>1. StopRun(w)
        BY <1>11 DEF EndRun, Crash
    <2>2. RunTypes'
        BY <2>1, OutboxConstants DEF StopRun, TypeOK, RunPhase, AtJob
    <2> QED BY <2>1, <2>2 DEF StopRun, TypeOK, jobVars
<1>12. ASSUME NEW j \in Jobs, Recheck(w, j) PROVE TypeOK'
    BY <1>12 DEF Recheck, GoTo, TypeOK, jobVars, RunPhase, AtJob
<1> QED BY <1>1, <1>2, <1>3, <1>4, <1>5, <1>6, <1>7, <1>8, <1>9, <1>10, <1>11, <1>12
        DEF RunStep

LEMMA WebStepType ==
    ASSUME TypeOK, WebStep
    PROVE  TypeOK'
<1> USE DEF envVars, runVars, jobVars
<1>1. ASSUME NEW j \in Jobs, Enqueue(j) PROVE TypeOK'
    BY <1>1 DEF Enqueue, TypeOK, JobStatus
<1>2. ASSUME NEW j \in Jobs, RecordPermanentBounce(j) PROVE TypeOK'
    <2>0. Destination[j] \in Destinations
        BY OutboxConstants
    <2>1. suppressed' \subseteq Destinations
        BY <1>2, <2>0 DEF RecordPermanentBounce, TypeOK
    <2>2. status' \in [Jobs -> JobStatus] /\ rank' \in [Jobs -> Nat]
        BY <1>2 DEF RecordPermanentBounce, TypeOK, JobStatus
    <2> QED BY <1>2, <2>1, <2>2 DEF RecordPermanentBounce, TypeOK
<1>3. ASSUME NEW j \in Jobs, RetryDeadOrFailedJob(j) PROVE TypeOK'
    <2>1. "queued" \in JobStatus
        BY DEF JobStatus
    <2>2. retriedAt' \in [Jobs -> Seq(0..AttemptCap)]
        BY <1>3 DEF RetryDeadOrFailedJob, TypeOK
    <2>3. sid' \in [Jobs -> 0..AttemptCap] /\ rank' \in [Jobs -> Nat]
        BY <1>3, OutboxConstants DEF RetryDeadOrFailedJob, TypeOK, NoReference
    <2> QED BY <1>3, <2>1, <2>2, <2>3, SettleType DEF RetryDeadOrFailedJob, TypeOK
<1>4. ASSUME NEW d \in Destinations, Suppress(d) \/ Unsuppress(d) PROVE TypeOK'
    BY <1>4, CancelPendingType DEF Suppress, Unsuppress, TypeOK
<1>5. ASSUME NEW c \in Campaigns, CloseCampaign(c) \/ ReopenCampaign(c) PROVE TypeOK'
    BY <1>5, CancelPendingType DEF CloseCampaign, ReopenCampaign, TypeOK
<1>6. ASSUME NEW j \in Jobs, NEW n \in AttemptNumbers, NEW s \in ProviderStatus,
             ProviderProgress(j, n, s)
      PROVE  TypeOK'
    BY <1>6 DEF ProviderProgress, TypeOK
<1>7. ASSUME NEW j \in Jobs, NEW n \in AttemptNumbers, NEW s \in ProviderStatus,
             TwilioStatus(j, n, s)
      PROVE  TypeOK'
    <2>1. StatusAfter(j, s) \in JobStatus /\ StatusRank[s] \in Nat
        <3>1. StatusAfter(j, s) \in JobStatus
            BY DEF StatusAfter, TypeOK, JobStatus
        <3> QED BY <3>1, StatusRankType
    <2>2. status' \in [Jobs -> JobStatus] /\ rank' \in [Jobs -> Nat]
        BY <1>7, <2>1 DEF TwilioStatus, TypeOK
    <2>3. sid' \in [Jobs -> 0..AttemptCap]
        BY <1>7, OutboxConstants DEF TwilioStatus, TypeOK, AttemptNumbers
    <2> QED BY <1>7, <2>2, <2>3 DEF TwilioStatus, TypeOK
<1> QED BY <1>1, <1>2, <1>3, <1>4, <1>5, <1>6, <1>7 DEF WebStep

LEMMA NextType == TypeOK /\ [Next]_vars => TypeOK'
<1> SUFFICES ASSUME TypeOK, [Next]_vars PROVE TypeOK'
    OBVIOUS
<1> USE DEF envVars, runVars, jobVars
<1>1. ASSUME NEW w \in Runs, NEW batch \in SUBSET Jobs, ClaimMessageJobs(w, batch)
      PROVE  TypeOK'
    <2>1. \A j \in batch : NextAttempt(j) \in 0..AttemptCap
        BY <1>1, NextAttemptType, OutboxConstants DEF ClaimMessageJobs, Claimable
    <2>2. status' \in [Jobs -> JobStatus]
        BY <1>1 DEF ClaimMessageJobs, TypeOK, JobStatus
    <2>3. attempts' \in [Jobs -> 0..AttemptCap] /\ recorded' \in [Jobs -> Nat]
        BY <1>1, <2>1 DEF ClaimMessageJobs, TypeOK
    <2>4. /\ owner' \in [Jobs -> Runs \cup {None}]
          /\ lease' \in [Jobs -> {"none", "live", "expired"}]
        BY <1>1 DEF ClaimMessageJobs, TypeOK
    <2>5. RunTypes'
        BY <1>1 DEF ClaimMessageJobs, TypeOK, RunTypes, RunPhase, AtJob
    <2> QED BY <1>1, <2>2, <2>3, <2>4, <2>5 DEF ClaimMessageJobs, TypeOK, RunTypes
<1>2. ASSUME NEW j \in Jobs, LeaseExpires(j) \/ PurgeAttempts(j) PROVE TypeOK'
    <2>1. CASE LeaseExpires(j)
        BY <2>1 DEF LeaseExpires, TypeOK
    <2>2. CASE PurgeAttempts(j)
        BY <2>2 DEF PurgeAttempts, TypeOK
    <2> QED BY <1>2, <2>1, <2>2
<1>3. CASE RecoverStaleMessageJobs
    <2>1. \A j \in Jobs : RecoveredStatus(j) \in JobStatus
        BY DEF RecoveredStatus, JobStatus
    <2> QED BY <1>3, <2>1 DEF RecoverStaleMessageJobs, TypeOK
<1>4. CASE CancelSuppressedQueuedJobs
    BY <1>4, CancelPendingType DEF CancelSuppressedQueuedJobs, TypeOK
<1>5. CASE UNCHANGED vars
    BY <1>5 DEF vars, TypeOK
<1> QED BY <1>1, <1>2, <1>3, <1>4, <1>5, RunStepType, WebStepType
        DEF Next, WorkerStep, MaintenanceStep

\* The columns, run states and bounds keep their types in every reachable state.
THEOREM TypeCorrect == Spec => []TypeOK
<1>1. QED BY InitType, NextType, PTL DEF Spec

-------------------------------------------------------------------------------
(* Runs, claims and attempt numbers stay in step.                          *)

LEMMA InitStep == Init => StepInv
BY OutboxConstants
DEF Init, StepInv, RunsInStep, ClaimsInStep, AttemptsInStep, Unsubmitted, AtJob

\* Steps that leave the runs, the lock owners or their absence, and the attempt
\* counters alone, and make no job 'sending', 'leased' or 'absent'.
LEMMA QuietStepKeepsStep ==
    ASSUME TypeOK, StepInv, UNCHANGED <<runVars, attempts>>,
           \A j \in Jobs : owner'[j] \in {owner[j], None},
           \A j \in Jobs : \/ status'[j] = status[j]
                           \/ status'[j] \notin {"sending", "leased", "absent"}
    PROVE  StepInv'
<1> USE DEF StepInv, runVars
<1>1. RunsInStep'
    BY DEF RunsInStep
<1>2. ClaimsInStep'
    BY OutboxConstants DEF ClaimsInStep, Unsubmitted
<1>3. AttemptsInStep'
    BY DEF AttemptsInStep
<1> QED BY <1>1, <1>2, <1>3

\* A run that leaves its job behind, possibly settling it.
LEMMA LeaveJobKeepsStep ==
    ASSUME TypeOK, StepInv, NEW w \in Runs,
           cur' = [cur EXCEPT ![w] = None], attempt' = [attempt EXCEPT ![w] = 0],
           pc' = [pc EXCEPT ![w] = "batch"] \/ pc' = [pc EXCEPT ![w] = "ended"],
           \A v \in Runs : todo'[v] \subseteq todo[v],
           UNCHANGED attempts,
           \A j \in Jobs : owner'[j] \in {owner[j], None},
           \A j \in Jobs : \/ status'[j] = status[j]
                           \/ status'[j] \notin {"sending", "leased", "absent"}
    PROVE  StepInv'
<1> USE DEF StepInv, TypeOK
<1>1. RunsInStep'
    <2> SUFFICES ASSUME NEW v \in Runs
                 PROVE  /\ pc'[v] \notin AtJob => cur'[v] = None
                        /\ cur'[v] \notin todo'[v]
                        /\ pc'[v] \in {"submitted", "retryable"} => attempt'[v] # 0
                        /\ pc'[v] \in {"idle", "batch", "suppressed", "render"} => attempt'[v] = 0
        BY DEF RunsInStep
    <2>1. CASE v = w
        <3>1. cur'[v] = None /\ attempt'[v] = 0 /\ pc'[v] \in {"batch", "ended"}
            BY <2>1
        <3>2. None \notin todo'[v]
            BY OutboxConstants
        <3> QED BY <3>1, <3>2
    <2>2. CASE v # w
        BY <2>2 DEF RunsInStep
    <2> QED BY <2>1, <2>2
<1>2. ClaimsInStep'
    <2> SUFFICES ASSUME NEW v \in Runs, NEW j \in Jobs, owner'[j] = v
                 PROVE  /\ Unsubmitted(v, j)' => status'[j] # "sending"
                        /\ cur'[v] = j /\ attempt'[v] # 0 =>
                              attempt'[v] = attempts'[j] /\ status'[j] # "leased"
        BY DEF ClaimsInStep
    <2>1. owner[j] = v
        BY OutboxConstants
    <2>2. CASE v = w
        <3>1. cur'[v] = None /\ attempt'[v] = 0
            BY <2>2
        <3>2. cur'[v] # j
            BY <3>1, OutboxConstants
        <3> QED BY <2>1, <3>1, <3>2 DEF ClaimsInStep, Unsubmitted
    <2>3. CASE v # w
        BY <2>1, <2>3 DEF ClaimsInStep, Unsubmitted
    <2> QED BY <2>2, <2>3
<1>3. AttemptsInStep'
    BY DEF AttemptsInStep
<1> QED BY <1>1, <1>2, <1>3

\* A run that moves on with its job, after the submission or to 'permanent'
\* before it.
LEMMA GoToKeepsStep ==
    ASSUME TypeOK, StepInv, NEW w \in Runs, NEW phase \in RunPhase, GoTo(w, phase),
           UNCHANGED <<jobVars, todo, cur, attempt>>,
           \/ pc[w] = "render" /\ phase = "permanent"
           \/ /\ pc[w] \in {"submitted", "accepted"}
              /\ attempt[w] # 0
              /\ phase \in {"accepted", "uncertain", "retryable", "permanent"}
    PROVE  StepInv'
<1> USE DEF StepInv, TypeOK, jobVars
<1>1. RunsInStep'
    BY DEF RunsInStep, GoTo, AtJob
<1>2. ClaimsInStep'
    BY DEF ClaimsInStep, RunsInStep, GoTo, Unsubmitted
<1>3. AttemptsInStep'
    BY DEF AttemptsInStep
<1> QED BY <1>1, <1>2, <1>3

LEMMA ClaimKeepsStep ==
    ASSUME TypeOK, StepInv, NEW w \in Runs, NEW batch \in SUBSET Jobs,
           ClaimMessageJobs(w, batch)
    PROVE  StepInv'
<1> USE DEF StepInv, TypeOK, ClaimMessageJobs
<1>1. RunsInStep'
    BY OutboxConstants DEF RunsInStep, AtJob
<1>2. ClaimsInStep'
    <2> SUFFICES ASSUME NEW v \in Runs, NEW j \in Jobs, owner'[j] = v
                 PROVE  /\ Unsubmitted(v, j)' => status'[j] # "sending"
                        /\ cur'[v] = j /\ attempt'[v] # 0 =>
                              attempt'[v] = attempts'[j] /\ status'[j] # "leased"
        BY DEF ClaimsInStep
    <2>1. CASE j \in batch
        <3>1. v = w /\ status'[j] = "leased" /\ attempt'[v] = 0
            BY <2>1 DEF RunsInStep
        <3> QED BY <3>1
    <2>2. CASE j \notin batch
        <3>1. owner[j] = v /\ status'[j] = status[j] /\ attempts'[j] = attempts[j]
            BY <2>2
        <3>2. Unsubmitted(v, j)' => Unsubmitted(v, j)
            BY <2>2 DEF Unsubmitted
        <3> QED BY <3>1, <3>2 DEF ClaimsInStep
    <2> QED BY <2>1, <2>2
<1>3. AttemptsInStep'
    <2>1. \A j \in batch : NextAttempt(j) # 0 /\ status'[j] = "leased"
        BY NextAttemptType
    <2> QED BY <2>1 DEF AttemptsInStep
<1> QED BY <1>1, <1>2, <1>3

LEMMA RecheckKeepsStep ==
    ASSUME TypeOK, StepInv, NEW w \in Runs, NEW j \in Jobs, Recheck(w, j)
    PROVE  StepInv'
<1> USE DEF StepInv, TypeOK, Recheck, GoTo, jobVars
<1>1. RunsInStep'
    BY DEF RunsInStep, AtJob
<1>2. ClaimsInStep'
    <2>1. \A v \in Runs, k \in Jobs : Unsubmitted(v, k)' => Unsubmitted(v, k)
        BY DEF Unsubmitted
    <2>2. \A v \in Runs : attempt'[v] # 0 => v # w /\ cur'[v] = cur[v]
        BY DEF RunsInStep
    <2> QED BY <2>1, <2>2 DEF ClaimsInStep
<1>3. AttemptsInStep'
    BY DEF AttemptsInStep
<1> QED BY <1>1, <1>2, <1>3

LEMMA MarkSendingKeepsStep ==
    ASSUME TypeOK, StepInv, NEW w \in Runs, MarkSending(w)
    PROVE  StepInv'
<1> USE DEF StepInv, TypeOK, MarkSending, GoTo, Owns
<1>0. cur[w] \in Jobs /\ attempts[cur[w]] # 0
    <2>1. cur[w] \in Jobs
        BY DEF AtJob
    <2> QED BY <2>1 DEF AttemptsInStep
<1>1. RunsInStep'
    BY <1>0 DEF RunsInStep, AtJob
<1>2. ClaimsInStep'
    <2> SUFFICES ASSUME NEW v \in Runs, NEW j \in Jobs, owner'[j] = v
                 PROVE  /\ Unsubmitted(v, j)' => status'[j] # "sending"
                        /\ cur'[v] = j /\ attempt'[v] # 0 =>
                              attempt'[v] = attempts'[j] /\ status'[j] # "leased"
        BY DEF ClaimsInStep
    <2>1. CASE v = w /\ j = cur[w]
        <3>1. ~Unsubmitted(v, j)'
            BY <2>1 DEF Unsubmitted, RunsInStep
        <3>2. attempt'[v] = attempts'[j] /\ status'[j] # "leased"
            BY <1>0, <2>1
        <3> QED BY <3>1, <3>2
    <2>2. CASE v = w /\ j # cur[w]
        <3>1. status'[j] = status[j] /\ cur'[v] # j
            BY <2>2
        <3>2. Unsubmitted(v, j)' => Unsubmitted(v, j)
            BY <2>2 DEF Unsubmitted
        <3> QED BY <3>1, <3>2 DEF ClaimsInStep
    <2>3. CASE v # w
        <3>1. j # cur[w]
            BY <2>3
        <3>2. Unsubmitted(v, j)' => Unsubmitted(v, j)
            BY <2>3 DEF Unsubmitted
        <3> QED BY <2>3, <3>1, <3>2 DEF ClaimsInStep
    <2> QED BY <2>1, <2>2, <2>3
<1>3. AttemptsInStep'
    BY DEF AttemptsInStep
<1> QED BY <1>1, <1>2, <1>3

\* The five transactions that end an iteration leave the job.
SettlesJob(w) ==
    \/ CancelMessageJob(w) \/ MarkAccepted(w) \/ MarkDeliveryUnknown(w) \/ FailMessageJob(w)

LEMMA SettlingKeepsStep ==
    ASSUME TypeOK, StepInv, NEW w \in Runs, SettlesJob(w)
    PROVE  StepInv'
<1>1. cur[w] \in Jobs
    BY DEF SettlesJob, CancelMessageJob, MarkAccepted, MarkDeliveryUnknown, FailMessageJob,
           TypeOK, AtJob
<1>2. PICK new : /\ new \in JobStatus
                 /\ new = status[cur[w]] \/ new \notin {"sending", "leased", "absent"}
                 /\ Settle(cur[w], new) \/ UNCHANGED <<status, owner, lease>>
    <2>1. \A b \in BOOLEAN : FailureStatus(cur[w], b) \in {"dead", "retry", "failed"}
        BY DEF FailureStatus
    <2>2. CASE CancelMessageJob(w)
        BY <2>2 DEF CancelMessageJob, JobStatus
    <2>3. CASE MarkAccepted(w)
        BY <1>1, <2>3 DEF MarkAccepted, JobStatus, TypeOK
    <2>4. CASE MarkDeliveryUnknown(w)
        BY <2>4 DEF MarkDeliveryUnknown, JobStatus
    <2>5. CASE FailMessageJob(w)
        BY <2>1, <2>5 DEF FailMessageJob, JobStatus
    <2> QED BY <2>2, <2>3, <2>4, <2>5 DEF SettlesJob
<1>3. \A j \in Jobs : owner'[j] \in {owner[j], None}
    BY <1>2 DEF Settle, TypeOK
<1>4. \A j \in Jobs : status'[j] = status[j] \/ status'[j] \notin {"sending", "leased", "absent"}
    BY <1>2 DEF Settle, TypeOK
<1>5. BackToBatch(w) /\ UNCHANGED attempts
    BY DEF SettlesJob, CancelMessageJob, MarkAccepted, MarkDeliveryUnknown, FailMessageJob
<1> QED BY <1>3, <1>4, <1>5, LeaveJobKeepsStep DEF BackToBatch, GoTo

LEMMA RunKeepsStep ==
    ASSUME TypeOK, StepInv, NEW w \in Runs, RunStep(w)
    PROVE  StepInv'
<1> USE DEF StepInv
<1>1. CASE SettlesJob(w)
    BY <1>1, SettlingKeepsStep
<1>2. CASE RenderFails(w)
    BY <1>2, GoToKeepsStep DEF RenderFails, RunPhase
<1>3. CASE MarkSending(w)
    BY <1>3, MarkSendingKeepsStep
<1>4. CASE ClaimLost(w)
    BY <1>4, LeaveJobKeepsStep DEF ClaimLost, BackToBatch, GoTo, jobVars
<1>5. ASSUME NEW answer \in RunPhase, ProviderAccepts(w, answer) PROVE StepInv'
    BY <1>5, GoToKeepsStep DEF ProviderAccepts, RunsInStep
<1>6. ASSUME NEW answer \in RunPhase, ProviderRejects(w, answer) PROVE StepInv'
    BY <1>6, GoToKeepsStep DEF ProviderRejects, RunsInStep
<1>7. CASE AcceptanceNotRecorded(w)
    <2>1. RunsInStep'
        BY <1>7 DEF AcceptanceNotRecorded, GoTo, TypeOK, RunsInStep, AtJob
    <2>2. ClaimsInStep'
        BY <1>7 DEF AcceptanceNotRecorded, GoTo, TypeOK, ClaimsInStep, Unsubmitted, jobVars
    <2>3. AttemptsInStep'
        BY <1>7 DEF AcceptanceNotRecorded, AttemptsInStep, jobVars
    <2> QED BY <2>1, <2>2, <2>3
<1>8. CASE EndRun(w) \/ Crash(w)
    <2>1. StopRun(w)
        BY <1>8 DEF EndRun, Crash
    <2>2. \A v \in Runs : todo'[v] \subseteq todo[v]
        BY <2>1 DEF StopRun, TypeOK
    <2> QED BY <2>1, <2>2, LeaveJobKeepsStep DEF StopRun, jobVars
<1>9. ASSUME NEW j \in Jobs, Recheck(w, j) PROVE StepInv'
    BY <1>9, RecheckKeepsStep
<1> QED BY <1>1, <1>2, <1>3, <1>4, <1>5, <1>6, <1>7, <1>8, <1>9 DEF RunStep, SettlesJob

LEMMA NextStep == TypeOK /\ StepInv /\ [Next]_vars => StepInv'
<1> SUFFICES ASSUME TypeOK, StepInv, [Next]_vars PROVE StepInv'
    OBVIOUS
<1> USE DEF envVars, runVars, jobVars
<1>1. ASSUME NEW w \in Runs, NEW batch \in SUBSET Jobs, ClaimMessageJobs(w, batch)
      PROVE  StepInv'
    BY <1>1, ClaimKeepsStep
<1>2. ASSUME NEW j \in Jobs, Enqueue(j) PROVE StepInv'
    BY <1>2, QuietStepKeepsStep DEF Enqueue, TypeOK
<1>3. ASSUME NEW j \in Jobs, RecordPermanentBounce(j) PROVE StepInv'
    BY <1>3, QuietStepKeepsStep DEF RecordPermanentBounce, TypeOK
<1>4. ASSUME NEW j \in Jobs, RetryDeadOrFailedJob(j) PROVE StepInv'
    BY <1>4, QuietStepKeepsStep DEF RetryDeadOrFailedJob, Settle, TypeOK
<1>5. ASSUME NEW group, CancelPending(group), UNCHANGED <<runVars, attempts, owner>>
      PROVE  StepInv'
    BY <1>5, QuietStepKeepsStep DEF CancelPending, TypeOK
<1>6. ASSUME NEW d \in Destinations, Suppress(d) \/ Unsuppress(d) PROVE StepInv'
    BY <1>5, <1>6, QuietStepKeepsStep DEF Suppress, Unsuppress
<1>7. ASSUME NEW c \in Campaigns, CloseCampaign(c) \/ ReopenCampaign(c) PROVE StepInv'
    BY <1>5, <1>7, QuietStepKeepsStep DEF CloseCampaign, ReopenCampaign
<1>8. ASSUME NEW j \in Jobs, NEW n \in AttemptNumbers, NEW s \in ProviderStatus,
             ProviderProgress(j, n, s) \/ TwilioStatus(j, n, s)
      PROVE  StepInv'
    BY <1>8, QuietStepKeepsStep DEF ProviderProgress, TwilioStatus, StatusAfter, TypeOK
<1>9. ASSUME NEW j \in Jobs, LeaseExpires(j) \/ PurgeAttempts(j) PROVE StepInv'
    BY <1>9, QuietStepKeepsStep DEF LeaseExpires, PurgeAttempts
<1>10. CASE RecoverStaleMessageJobs
    <2>1. \A j \in Jobs : RecoveredStatus(j) \notin {"sending", "leased", "absent"}
        BY DEF RecoveredStatus
    <2> QED BY <1>10, <2>1, QuietStepKeepsStep DEF RecoverStaleMessageJobs
<1>11. CASE CancelSuppressedQueuedJobs
    BY <1>5, <1>11 DEF CancelSuppressedQueuedJobs
<1>12. CASE UNCHANGED vars
    BY <1>12, QuietStepKeepsStep DEF vars
<1> QED BY <1>1, <1>2, <1>3, <1>4, <1>6, <1>7, <1>8, <1>9, <1>10, <1>11, <1>12, RunKeepsStep
        DEF Next, WorkerStep, WebStep, MaintenanceStep

-------------------------------------------------------------------------------
(* Open attempts are separated by an administrator's retries.              *)

LEMMA InitOpen == Init => OpenInv
BY OutboxConstants
DEF Init, OpenInv, OpenAttemptsInOrder, InHandUnresolved, RetriesInPast, Open, InHand, HandedOver

Waiting == {"queued", "retry"}

\* Steps that open no attempt, add no retry and put no job in the queue except
\* from the queue or a lease.
LEMMA QuietStepKeepsOpen ==
    ASSUME TypeOK, OpenInv, UNCHANGED <<attempts, retriedAt>>,
           \A j \in Jobs : HandedOver(j)' = HandedOver(j),
           \A w \in Runs, j \in Jobs, m \in AttemptNumbers : InHand(w, j, m)' => InHand(w, j, m),
           \A j \in Jobs : \/ status'[j] = status[j]
                           \/ status'[j] \notin Waiting \cup {"leased"}
                           \/ status'[j] \in Waiting /\ status[j] \in Waiting \cup {"leased"}
    PROVE  OpenInv'
<1> USE DEF OpenInv
<1>1. \A j \in Jobs, m \in AttemptNumbers : Open(j, m)' => Open(j, m)
    BY DEF Open
<1>2. \A j \in Jobs : \A m, n : RetriedBetween(j, m, n)' <=> RetriedBetween(j, m, n)
    BY DEF RetriedBetween
<1>3. \A j \in Jobs : \A m : RetriedSince(j, m)' <=> RetriedSince(j, m)
    BY DEF RetriedSince
<1>4. \A j \in Jobs : \A m : RetriedBetween(j, m, attempts[j]) => RetriedSince(j, m)
    BY DEF RetriedBetween, RetriedSince
<1>5. OpenAttemptsInOrder'
    <2> SUFFICES ASSUME NEW j \in Jobs, NEW m \in AttemptNumbers, Open(j, m)'
                 PROVE  /\ m <= attempts'[j]
                        /\ status'[j] \in Waiting => RetriedSince(j, m)'
                        /\ status'[j] = "leased" => RetriedBetween(j, m, attempts[j])'
                        /\ \A n \in AttemptNumbers :
                              Open(j, n)' /\ m < n => RetriedBetween(j, m, n)'
        BY DEF OpenAttemptsInOrder, Waiting
    <2>1. Open(j, m)
        BY <1>1
    <2>2. status[j] \in Waiting \cup {"leased"} => RetriedSince(j, m)
        BY <1>4, <2>1 DEF OpenAttemptsInOrder, Waiting
    <2>3. status'[j] \in Waiting => RetriedSince(j, m)'
        BY <1>3, <2>2 DEF Waiting
    <2>4. status'[j] = "leased" => RetriedBetween(j, m, attempts[j])'
        BY <2>1 DEF OpenAttemptsInOrder, RetriedBetween, Waiting
    <2> QED BY <1>1, <1>2, <2>1, <2>3, <2>4 DEF OpenAttemptsInOrder
<1>6. InHandUnresolved'
    BY DEF InHandUnresolved
<1>7. RetriesInPast'
    BY DEF RetriesInPast
<1> QED BY <1>5, <1>6, <1>7

LEMMA ElementType ==
    ASSUME NEW S, NEW s \in Seq(S), NEW i \in 1..Len(s)
    PROVE  s[i] \in S
OBVIOUS

LEMMA RetryMark ==
    ASSUME TypeOK, NEW j \in Jobs, NEW i \in 1..Len(retriedAt[j])
    PROVE  retriedAt[j][i] \in Nat
<1>1. retriedAt[j] \in Seq(0..AttemptCap)
    BY DEF TypeOK
<1>2. retriedAt[j][i] \in 0..AttemptCap
    BY <1>1, ElementType
<1> QED BY <1>2

LEMMA ClaimKeepsOpen ==
    ASSUME TypeOK, OpenInv, NEW w \in Runs, NEW batch \in SUBSET Jobs,
           ClaimMessageJobs(w, batch)
    PROVE  OpenInv'
<1> USE DEF OpenInv, ClaimMessageJobs
<1>1. \A j \in Jobs : HandedOver(j)' = HandedOver(j)
    BY DEF HandedOver
<1>2. \A v \in Runs, j \in Jobs, m \in AttemptNumbers : InHand(v, j, m)' => InHand(v, j, m)
    BY DEF InHand, TypeOK
<1>3. \A j \in Jobs, m \in AttemptNumbers : Open(j, m)' => Open(j, m)
    BY <1>1, <1>2 DEF Open
<1>4. \A j \in Jobs : attempts'[j] \in Nat /\ attempts'[j] >= attempts[j]
                      /\ (j \in batch => attempts'[j] > attempts[j])
    <2> SUFFICES ASSUME NEW j \in Jobs
                 PROVE  /\ attempts'[j] \in Nat /\ attempts'[j] >= attempts[j]
                        /\ j \in batch => attempts'[j] > attempts[j]
        OBVIOUS
    <2>1. attempts[j] \in Nat
        BY OutboxConstants DEF TypeOK
    <2>2. NextAttempt(j) \in Nat /\ NextAttempt(j) > attempts[j]
        BY NextAttemptType
    <2>3. attempts'[j] = IF j \in batch THEN NextAttempt(j) ELSE attempts[j]
        OBVIOUS
    <2> HIDE DEF OpenInv, ClaimMessageJobs
    <2> QED BY <2>1, <2>2, <2>3
<1>5. OpenAttemptsInOrder'
    <2> SUFFICES ASSUME NEW j \in Jobs, NEW m \in AttemptNumbers, Open(j, m)'
                 PROVE  /\ m <= attempts'[j]
                        /\ status'[j] \in Waiting => RetriedSince(j, m)'
                        /\ status'[j] = "leased" => RetriedBetween(j, m, attempts[j])'
                        /\ \A n \in AttemptNumbers :
                              Open(j, n)' /\ m < n => RetriedBetween(j, m, n)'
        BY DEF OpenAttemptsInOrder, Waiting
    <2>1. Open(j, m) /\ m <= attempts[j] /\ attempts[j] \in Nat
        BY <1>3 DEF OpenAttemptsInOrder, TypeOK
    <2>2. m <= attempts'[j]
        BY <1>4, <2>1 DEF AttemptNumbers
    <2>3. status'[j] \in Waiting => RetriedSince(j, m)'
        <3> SUFFICES ASSUME status'[j] \in Waiting PROVE RetriedSince(j, m)'
            OBVIOUS
        <3>1. status[j] \in Waiting
            BY DEF TypeOK, Waiting
        <3>2. RetriedSince(j, m)
            BY <2>1, <3>1 DEF OpenAttemptsInOrder, Waiting
        <3> QED BY <3>2 DEF RetriedSince
    <2>4. status'[j] = "leased" => RetriedBetween(j, m, attempts[j])'
        <3>1. CASE j \in batch
            <4>1. RetriedSince(j, m)
                BY <2>1, <3>1 DEF OpenAttemptsInOrder, Claimable
            <4>2. PICK i \in 1..Len(retriedAt[j]) : m <= retriedAt[j][i]
                BY <4>1 DEF RetriedSince
            <4>3. retriedAt[j][i] \in Nat /\ retriedAt[j][i] <= attempts[j]
                BY RetryMark DEF RetriesInPast
            <4>4. retriedAt[j][i] < attempts'[j]
                BY <1>4, <2>1, <3>1, <4>3
            <4> QED BY <4>2, <4>4 DEF RetriedBetween
        <3>2. CASE j \notin batch
            <4>1. status'[j] = status[j] /\ attempts'[j] = attempts[j]
                BY <3>2 DEF TypeOK
            <4> QED BY <2>1, <4>1 DEF OpenAttemptsInOrder, RetriedBetween
        <3> QED BY <3>1, <3>2
    <2>5. \A n \in AttemptNumbers : Open(j, n)' /\ m < n => RetriedBetween(j, m, n)'
        BY <1>3, <2>1 DEF OpenAttemptsInOrder, RetriedBetween
    <2> QED BY <2>2, <2>3, <2>4, <2>5
<1>6. InHandUnresolved'
    BY <1>1, <1>2 DEF InHandUnresolved
<1>7. RetriesInPast'
    <2> SUFFICES ASSUME NEW j \in Jobs, NEW i \in 1..Len(retriedAt[j])
                 PROVE  retriedAt[j][i] <= attempts'[j]
        BY DEF RetriesInPast
    <2>1. retriedAt[j][i] \in Nat /\ retriedAt[j][i] <= attempts[j]
        BY RetryMark DEF RetriesInPast
    <2>2. attempts[j] \in Nat
        BY DEF TypeOK
    <2> QED BY <1>4, <2>1, <2>2
<1> QED BY <1>5, <1>6, <1>7

LEMMA RetryKeepsOpen ==
    ASSUME TypeOK, OpenInv, NEW k \in Jobs, RetryDeadOrFailedJob(k)
    PROVE  OpenInv'
<1> USE DEF OpenInv, RetryDeadOrFailedJob, Settle
<1>1. \A j \in Jobs : HandedOver(j)' = HandedOver(j)
    BY DEF HandedOver
<1>2. \A v \in Runs, j \in Jobs, m \in AttemptNumbers : InHand(v, j, m)' <=> InHand(v, j, m)
    BY DEF InHand, runVars
<1>3. \A j \in Jobs, m \in AttemptNumbers : Open(j, m)' <=> Open(j, m)
    BY <1>1, <1>2 DEF Open
<1>4. \A j \in Jobs : /\ retriedAt[j] \in Seq(0..AttemptCap)
                      /\ Len(retriedAt'[j]) >= Len(retriedAt[j])
                      /\ \A i \in 1..Len(retriedAt[j]) : retriedAt'[j][i] = retriedAt[j][i]
    BY DEF TypeOK
<1>5. \A j \in Jobs : \A m, n : RetriedBetween(j, m, n) => RetriedBetween(j, m, n)'
    BY <1>4 DEF RetriedBetween
<1>6. \A j \in Jobs : \A m : RetriedSince(j, m) => RetriedSince(j, m)'
    BY <1>4 DEF RetriedSince
<1>7. /\ Len(retriedAt'[k]) = Len(retriedAt[k]) + 1
      /\ retriedAt'[k][Len(retriedAt[k]) + 1] = attempts[k]
    BY DEF TypeOK
<1>8. OpenAttemptsInOrder'
    <2> SUFFICES ASSUME NEW j \in Jobs, NEW m \in AttemptNumbers, Open(j, m)'
                 PROVE  /\ m <= attempts'[j]
                        /\ status'[j] \in Waiting => RetriedSince(j, m)'
                        /\ status'[j] = "leased" => RetriedBetween(j, m, attempts[j])'
                        /\ \A n \in AttemptNumbers :
                              Open(j, n)' /\ m < n => RetriedBetween(j, m, n)'
        BY DEF OpenAttemptsInOrder, Waiting
    <2>1. Open(j, m) /\ m <= attempts[j]
        BY <1>3 DEF OpenAttemptsInOrder
    <2>2. status'[j] \in Waiting => RetriedSince(j, m)'
        <3>1. CASE j = k
            <4>1. m <= retriedAt'[k][Len(retriedAt[k]) + 1]
                BY <1>7, <2>1, <3>1
            <4>2. Len(retriedAt[k]) + 1 \in 1..Len(retriedAt'[k])
                BY <1>4, <1>7
            <4> QED BY <3>1, <4>1, <4>2 DEF RetriedSince
        <3>2. CASE j # k
            BY <1>6, <2>1, <3>2 DEF OpenAttemptsInOrder, TypeOK, Waiting
        <3> QED BY <3>1, <3>2
    <2>3. status'[j] = "leased" => RetriedBetween(j, m, attempts[j])'
        <3>1. status'[j] = "leased" => status[j] = "leased"
            BY DEF TypeOK
        <3>2. RetriedBetween(j, m, attempts[j]) => RetriedBetween(j, m, attempts[j])'
            BY <1>4 DEF RetriedBetween
        <3> QED BY <2>1, <3>1, <3>2 DEF OpenAttemptsInOrder
    <2> QED BY <1>3, <1>5, <2>1, <2>2, <2>3 DEF OpenAttemptsInOrder
<1>9. InHandUnresolved'
    BY <1>1, <1>2 DEF InHandUnresolved
<1>10. RetriesInPast'
    <2> SUFFICES ASSUME NEW j \in Jobs, NEW i \in 1..Len(retriedAt'[j])
                 PROVE  retriedAt'[j][i] <= attempts[j]
        BY DEF RetriesInPast
    <2>1. attempts[j] \in Nat
        BY DEF TypeOK
    <2>2. CASE i \in 1..Len(retriedAt[j])
        BY <1>4, <2>2 DEF RetriesInPast
    <2>3. CASE i \notin 1..Len(retriedAt[j])
        <3>1. j = k
            BY <2>3 DEF TypeOK
        <3>2. i = Len(retriedAt[k]) + 1
            BY <1>4, <1>7, <2>3, <3>1
        <3> QED BY <1>7, <2>1, <3>1, <3>2
    <2> QED BY <2>2, <2>3
<1> QED BY <1>8, <1>9, <1>10

\* An attempt is submitted: it comes after every open one, with a retry between.
LEMMA MarkSendingKeepsOpen ==
    ASSUME TypeOK, StepInv, OpenInv, NEW w \in Runs, MarkSending(w)
    PROVE  OpenInv'
<1> USE DEF OpenInv, MarkSending, Owns, GoTo
<1> PICK k \in Jobs : k = cur[w]
    BY DEF TypeOK, AtJob
<1>1. k \in Jobs /\ status[k] = "leased" /\ attempts[k] \in Nat /\ attempts[k] # 0
    <2>1. attempts[k] \in Nat
        BY DEF TypeOK
    <2> QED BY <2>1 DEF StepInv, AttemptsInStep
<1>2. \A j \in Jobs : HandedOver(j)' = HandedOver(j)
    BY DEF HandedOver
<1>3. /\ \A v \in Runs, j \in Jobs, m \in AttemptNumbers :
              InHand(v, j, m)' => InHand(v, j, m) \/ (v = w /\ j = k /\ m = attempts[k])
      /\ \A j \in Jobs, m \in AttemptNumbers : ~InHand(w, j, m)
    BY DEF InHand, TypeOK
<1>4. \A j \in Jobs, m \in AttemptNumbers :
          Open(j, m)' => Open(j, m) \/ (j = k /\ m = attempts[k])
    BY <1>2, <1>3 DEF Open
<1>5. \A m \in AttemptNumbers : Open(k, m) => RetriedBetween(k, m, attempts[k]) /\ m < attempts[k]
    <2> SUFFICES ASSUME NEW m \in AttemptNumbers, Open(k, m)
                 PROVE  RetriedBetween(k, m, attempts[k]) /\ m < attempts[k]
        OBVIOUS
    <2>1. RetriedBetween(k, m, attempts[k])
        BY <1>1 DEF OpenAttemptsInOrder
    <2>2. PICK i \in 1..Len(retriedAt[k]) : m <= retriedAt[k][i] /\ retriedAt[k][i] < attempts[k]
        BY <2>1 DEF RetriedBetween
    <2>3. retriedAt[k][i] \in Nat
        BY <1>1, RetryMark
    <2> QED BY <1>1, <2>1, <2>2, <2>3 DEF AttemptNumbers
<1>6. \A j \in Jobs : \A m, n : RetriedBetween(j, m, n)' <=> RetriedBetween(j, m, n)
    BY DEF RetriedBetween
<1>7. \A j \in Jobs : \A m : RetriedSince(j, m)' <=> RetriedSince(j, m)
    BY DEF RetriedSince
<1>8. status'[k] = "sending" /\ \A j \in Jobs : j # k => status'[j] = status[j]
    BY <1>1 DEF TypeOK
<1>9. OpenAttemptsInOrder'
    <2> SUFFICES ASSUME NEW j \in Jobs, NEW m \in AttemptNumbers, Open(j, m)'
                 PROVE  /\ m <= attempts'[j]
                        /\ status'[j] \in Waiting => RetriedSince(j, m)'
                        /\ status'[j] = "leased" => RetriedBetween(j, m, attempts[j])'
                        /\ \A n \in AttemptNumbers :
                              Open(j, n)' /\ m < n => RetriedBetween(j, m, n)'
        BY DEF OpenAttemptsInOrder, Waiting
    <2>1. CASE j # k
        <3>1. Open(j, m) /\ \A n \in AttemptNumbers : Open(j, n)' => Open(j, n)
            BY <1>4, <2>1
        <3> QED BY <1>6, <1>7, <1>8, <2>1, <3>1 DEF OpenAttemptsInOrder, Waiting
    <2>2. CASE j = k
        <3>1. m <= attempts[k]
            BY <1>1, <1>4, <1>5, <2>2 DEF AttemptNumbers
        <3>2. ASSUME NEW n \in AttemptNumbers, Open(k, n)', m < n
              PROVE  RetriedBetween(k, m, n)'
            <4>1. n <= attempts[k]
                BY <1>1, <1>4, <1>5, <3>2 DEF AttemptNumbers
            <4>2. Open(k, m)
                BY <1>1, <1>4, <2>2, <3>2, <4>1 DEF AttemptNumbers
            <4>3. CASE Open(k, n)
                BY <1>1, <1>6, <3>2, <4>2, <4>3 DEF OpenAttemptsInOrder
            <4>4. CASE n = attempts[k]
                BY <1>1, <1>5, <1>6, <4>2, <4>4
            <4> QED BY <1>1, <1>4, <3>2, <4>3, <4>4
        <3> QED BY <1>8, <2>2, <3>1, <3>2 DEF Waiting
    <2> QED BY <2>1, <2>2
<1>10. InHandUnresolved'
    <2> SUFFICES ASSUME NEW v \in Runs, NEW j \in Jobs, NEW m \in AttemptNumbers, InHand(v, j, m)'
                 PROVE  m \notin HandedOver(j)' /\ \A u \in Runs \ {v} : ~InHand(u, j, m)'
        BY DEF InHandUnresolved
    <2>1. CASE InHand(v, j, m)
        <3>1. ~(j = k /\ m = attempts[k])
            BY <1>1, <1>5, <2>1 DEF Open, AttemptNumbers
        <3> QED BY <1>2, <1>3, <2>1, <3>1 DEF InHandUnresolved
    <2>2. CASE v = w /\ j = k /\ m = attempts[k]
        <3>1. ~Open(k, m)
            BY <1>1, <1>5, <2>2
        <3> QED BY <1>2, <1>3, <2>2, <3>1 DEF Open
    <2> QED BY <1>3, <2>1, <2>2
<1>11. RetriesInPast'
    BY DEF RetriesInPast
<1> QED BY <1>9, <1>10, <1>11

\* The provider takes an attempt: it passes from a run's hands to the provider.
LEMMA ProviderAcceptsKeepsOpen ==
    ASSUME TypeOK, StepInv, OpenInv, NEW w \in Runs, NEW answer \in RunPhase,
           ProviderAccepts(w, answer)
    PROVE  OpenInv'
<1> USE DEF OpenInv, ProviderAccepts, GoTo, jobVars
<1> DEFINE k == cur[w]
           a == attempt[w]
<1>1. k \in Jobs /\ a \in AttemptNumbers
    <2>1. k \in Jobs
        BY DEF TypeOK, AtJob
    <2>2. a \in 0..AttemptCap /\ a # 0
        BY DEF TypeOK, StepInv, RunsInStep
    <2> QED BY <2>1, <2>2, OutboxConstants DEF AttemptNumbers
<1>2. InHand(w, k, a)
    BY DEF InHand
<1>3. /\ HandedOver(k)' = HandedOver(k) \cup {a}
      /\ \A j \in Jobs : j # k => HandedOver(j)' = HandedOver(j)
    <2>1. /\ SendStatus(k) # "none"
          /\ provider[k] \in [AttemptNumbers -> ProviderStatus \cup {"none"}]
        BY <1>1 DEF SendStatus, TypeOK
    <2>2. /\ provider'[k] = [provider[k] EXCEPT ![a] = SendStatus(k)]
          /\ \A j \in Jobs : j # k => provider'[j] = provider[j]
        BY <1>1 DEF TypeOK
    <2> QED BY <1>1, <2>1, <2>2 DEF HandedOver
<1>4. \A v \in Runs, j \in Jobs, m \in AttemptNumbers :
          InHand(v, j, m)' => InHand(v, j, m) /\ v # w
    BY DEF InHand, TypeOK
<1>5. \A j \in Jobs, m \in AttemptNumbers : Open(j, m)' => Open(j, m)
    BY <1>1, <1>2, <1>3, <1>4 DEF Open
<1>6. \A j \in Jobs : \A m, n : RetriedBetween(j, m, n)' <=> RetriedBetween(j, m, n)
    BY DEF RetriedBetween
<1>7. \A j \in Jobs : \A m : RetriedSince(j, m)' <=> RetriedSince(j, m)
    BY DEF RetriedSince
<1>8. OpenAttemptsInOrder'
    BY <1>5, <1>6, <1>7 DEF OpenAttemptsInOrder
<1>9. InHandUnresolved'
    <2> SUFFICES ASSUME NEW v \in Runs, NEW j \in Jobs, NEW m \in AttemptNumbers, InHand(v, j, m)'
                 PROVE  m \notin HandedOver(j)' /\ \A u \in Runs \ {v} : ~InHand(u, j, m)'
        BY DEF InHandUnresolved
    <2>1. InHand(v, j, m) /\ v # w
        BY <1>4
    <2>2. ~(j = k /\ m = a)
        BY <1>1, <1>2, <2>1 DEF InHandUnresolved
    <2> QED BY <1>3, <1>4, <2>1, <2>2 DEF InHandUnresolved
<1>10. RetriesInPast'
    BY DEF RetriesInPast
<1> QED BY <1>8, <1>9, <1>10

\* A failed attempt goes back to the queue only while the run that made it
\* still owns the job, so the attempt is the current one and nobody's any more.
LEMMA FailKeepsOpen ==
    ASSUME TypeOK, StepInv, OpenInv, NEW w \in Runs, FailMessageJob(w)
    PROVE  OpenInv'
<1> USE DEF OpenInv, FailMessageJob, BackToBatch, GoTo
<1> PICK k \in Jobs : k = cur[w]
    BY DEF TypeOK, AtJob
<1>1. k \in Jobs /\ attempts[k] \in Nat
    BY DEF TypeOK
<1>2. \A j \in Jobs : HandedOver(j)' = HandedOver(j)
    BY DEF HandedOver
<1>3. \A v \in Runs, j \in Jobs, m \in AttemptNumbers :
          InHand(v, j, m)' => InHand(v, j, m) /\ v # w
    BY DEF InHand, TypeOK
<1>4. \A j \in Jobs : j # k => status'[j] = status[j]
    BY DEF Settle, TypeOK
<1>5. CASE \/ ~Owns(w, k, {"leased", "sending"}) \/ status[k] = "leased"
           \/ pc[w] = "permanent"
    <2>1. /\ \A b \in BOOLEAN : FailureStatus(k, b) \in {"dead", "retry", "failed"}
          /\ FailureStatus(k, FALSE) \in {"dead", "failed"}
        BY DEF FailureStatus
    <2>2. \/ status'[k] = status[k]
          \/ status[k] = "leased" /\ status'[k] \in {"dead", "retry", "failed"}
          \/ status'[k] \in {"dead", "failed"}
        BY <1>1, <1>5, <2>1 DEF Settle, TypeOK
    <2> QED BY <1>2, <1>3, <1>4, <2>2, QuietStepKeepsOpen DEF Waiting
<1>6. CASE Owns(w, k, {"sending"}) /\ pc[w] = "retryable"
    <2>1. attempt[w] = attempts[k] /\ attempt[w] # 0
        <3>1. owner[k] = w /\ status[k] = "sending"
            BY <1>6 DEF Owns
        <3>2. attempt[w] # 0
            BY <1>1, <3>1 DEF StepInv, RunsInStep, ClaimsInStep, Unsubmitted
        <3> QED BY <1>1, <3>1, <3>2 DEF StepInv, ClaimsInStep
    <2>2. attempts[k] \in AttemptNumbers
        <3>1. attempts[k] \in 0..AttemptCap
            BY <1>1 DEF TypeOK
        <3> QED BY <2>1, <3>1, OutboxConstants DEF AttemptNumbers
    <2>3. InHand(w, k, attempts[k])
        BY <1>6, <2>1 DEF InHand
    <2>4. ~Open(k, attempts[k])'
        BY <1>1, <1>2, <1>3, <2>2, <2>3 DEF Open, InHandUnresolved
    <2>5. \A j \in Jobs, m \in AttemptNumbers : Open(j, m)' => Open(j, m)
        BY <1>2, <1>3 DEF Open
    <2>6. \A j \in Jobs : \A m, n : RetriedBetween(j, m, n)' <=> RetriedBetween(j, m, n)
        BY DEF RetriedBetween
    <2>7. \A j \in Jobs : \A m : RetriedSince(j, m)' <=> RetriedSince(j, m)
        BY DEF RetriedSince
    <2>8. status'[k] # "leased"
        BY <1>1, <1>6 DEF Settle, Owns, FailureStatus, TypeOK
    <2>9. \A m \in AttemptNumbers : Open(k, m)' => RetriedSince(k, m)
        <3> SUFFICES ASSUME NEW m \in AttemptNumbers, Open(k, m)' PROVE RetriedSince(k, m)
            OBVIOUS
        <3>1. m # attempts[k] /\ Open(k, m)
            <4>1. Open(k, m)
                BY <2>5
            <4>2. attempts'[k] = attempts[k]
                OBVIOUS
            <4>3. m # attempts[k]
                BY <2>4, <4>2
            <4> QED BY <4>1, <4>3
        <3>2. m < attempts[k]
            BY <1>1, <3>1 DEF OpenAttemptsInOrder, AttemptNumbers
        <3>3. Open(k, attempts[k])
            BY <2>3 DEF Open
        <3>4. RetriedBetween(k, m, attempts[k])
            BY <1>1, <2>2, <3>1, <3>2, <3>3 DEF OpenAttemptsInOrder
        <3> QED BY <3>4 DEF RetriedBetween, RetriedSince
    <2>10. OpenAttemptsInOrder'
        <3> SUFFICES ASSUME NEW j \in Jobs, NEW m \in AttemptNumbers, Open(j, m)'
                     PROVE  /\ m <= attempts[j]
                            /\ status'[j] \in Waiting => RetriedSince(j, m)
                            /\ status'[j] = "leased" => RetriedBetween(j, m, attempts[j])
                            /\ \A n \in AttemptNumbers :
                                  Open(j, n)' /\ m < n => RetriedBetween(j, m, n)
            BY <2>6, <2>7 DEF OpenAttemptsInOrder, Waiting
        <3>1. Open(j, m) /\ \A n \in AttemptNumbers : Open(j, n)' => Open(j, n)
            BY <2>5
        <3> QED BY <1>4, <2>8, <2>9, <3>1 DEF OpenAttemptsInOrder, Waiting
    <2>11. InHandUnresolved'
        BY <1>2, <1>3 DEF InHandUnresolved
    <2>12. RetriesInPast'
        BY DEF RetriesInPast
    <2> QED BY <2>10, <2>11, <2>12
<1> QED BY <1>5, <1>6 DEF Owns

LEMMA RunKeepsOpen ==
    ASSUME TypeOK, StepInv, OpenInv, NEW w \in Runs, RunStep(w)
    PROVE  OpenInv'
<1>1. ASSUME UNCHANGED <<attempts, provider, retriedAt>>,
             \A v \in Runs, j \in Jobs, m \in AttemptNumbers :
                 InHand(v, j, m)' => InHand(v, j, m),
             \A j \in Jobs : status'[j] = status[j] \/ status'[j] \notin Waiting \cup {"leased"}
      PROVE  OpenInv'
    <2>1. \A j \in Jobs : HandedOver(j)' = HandedOver(j)
        BY <1>1 DEF HandedOver
    <2> QED BY <1>1, <2>1, QuietStepKeepsOpen
<1>2. CASE CancelMessageJob(w) \/ MarkAccepted(w) \/ MarkDeliveryUnknown(w)
    <2>1. \A v \in Runs, j \in Jobs, m \in AttemptNumbers : InHand(v, j, m)' => InHand(v, j, m)
        BY <1>2 DEF InHand, CancelMessageJob, MarkAccepted, MarkDeliveryUnknown, BackToBatch,
                    GoTo, TypeOK
    <2>2. \A j \in Jobs : status'[j] = status[j] \/ status'[j] \notin Waiting \cup {"leased"}
        BY <1>2 DEF CancelMessageJob, MarkAccepted, MarkDeliveryUnknown, Settle, Waiting, TypeOK
    <2>3. UNCHANGED <<attempts, provider, retriedAt>>
        BY <1>2 DEF CancelMessageJob, MarkAccepted, MarkDeliveryUnknown
    <2> QED BY <1>1, <2>1, <2>2, <2>3
<1>3. CASE RenderFails(w)
    <2>1. pc[w] = "render" /\ attempt[w] = 0
        BY <1>3 DEF RenderFails, StepInv, RunsInStep
    <2>2. \A v \in Runs, j \in Jobs, m \in AttemptNumbers : InHand(v, j, m)' => InHand(v, j, m)
        BY <1>3, <2>1 DEF InHand, RenderFails, GoTo, TypeOK, AttemptNumbers
    <2> QED BY <1>1, <1>3, <2>2 DEF RenderFails, jobVars
<1>4. CASE ClaimLost(w)
    <2>1. \A v \in Runs, j \in Jobs, m \in AttemptNumbers : InHand(v, j, m)' => InHand(v, j, m)
        BY <1>4 DEF InHand, ClaimLost, BackToBatch, GoTo, TypeOK
    <2> QED BY <1>1, <1>4, <2>1 DEF ClaimLost, jobVars
<1>5. ASSUME NEW answer \in RunPhase, ProviderRejects(w, answer) PROVE OpenInv'
    <2>1. \A v \in Runs, j \in Jobs, m \in AttemptNumbers : InHand(v, j, m)' => InHand(v, j, m)
        BY <1>5 DEF InHand, ProviderRejects, GoTo, TypeOK
    <2> QED BY <1>1, <1>5, <2>1 DEF ProviderRejects, jobVars
<1>6. CASE AcceptanceNotRecorded(w)
    <2>1. \A v \in Runs, j \in Jobs, m \in AttemptNumbers : InHand(v, j, m)' => InHand(v, j, m)
        BY <1>6 DEF InHand, AcceptanceNotRecorded, GoTo, TypeOK
    <2> QED BY <1>1, <1>6, <2>1 DEF AcceptanceNotRecorded, jobVars
<1>7. CASE EndRun(w) \/ Crash(w)
    <2>1. StopRun(w)
        BY <1>7 DEF EndRun, Crash
    <2>2. \A v \in Runs, j \in Jobs, m \in AttemptNumbers : InHand(v, j, m)' => InHand(v, j, m)
        BY <2>1 DEF InHand, StopRun, TypeOK
    <2> QED BY <1>1, <2>1, <2>2 DEF StopRun, jobVars
<1>8. ASSUME NEW k \in Jobs, Recheck(w, k) PROVE OpenInv'
    <2>1. \A v \in Runs, j \in Jobs, m \in AttemptNumbers : InHand(v, j, m)' => InHand(v, j, m)
        BY <1>8 DEF InHand, Recheck, GoTo, TypeOK
    <2> QED BY <1>1, <1>8, <2>1 DEF Recheck, jobVars
<1> QED BY <1>2, <1>3, <1>4, <1>5, <1>6, <1>7, <1>8, MarkSendingKeepsOpen,
           ProviderAcceptsKeepsOpen, FailKeepsOpen DEF RunStep

LEMMA NextOpen == TypeOK /\ StepInv /\ OpenInv /\ [Next]_vars => OpenInv'
<1> SUFFICES ASSUME TypeOK, StepInv, OpenInv, [Next]_vars PROVE OpenInv'
    OBVIOUS
<1> USE DEF envVars, jobVars
\* Steps of web requests and maintenance leave the runs alone.
<1>1. ASSUME UNCHANGED <<attempts, retriedAt, runVars>>,
             \A j \in Jobs : HandedOver(j)' = HandedOver(j),
             \A j \in Jobs : \/ status'[j] = status[j]
                             \/ status'[j] \notin Waiting \cup {"leased"}
                             \/ status'[j] \in Waiting /\ status[j] \in Waiting \cup {"leased"}
      PROVE  OpenInv'
    <2>1. \A v \in Runs, j \in Jobs, m \in AttemptNumbers : InHand(v, j, m)' => InHand(v, j, m)
        BY <1>1 DEF InHand, runVars
    <2> QED BY <1>1, <2>1, QuietStepKeepsOpen
<1>2. UNCHANGED provider => \A j \in Jobs : HandedOver(j)' = HandedOver(j)
    BY DEF HandedOver
<1>3. ASSUME NEW k \in Jobs, Enqueue(k) PROVE OpenInv'
    <2>1. attempts[k] = 0
        BY <1>3 DEF Enqueue, StepInv, AttemptsInStep
    <2>2. \A m \in AttemptNumbers : ~Open(k, m)
        BY <2>1 DEF OpenInv, OpenAttemptsInOrder, AttemptNumbers
    <2>3. \A v \in Runs, j \in Jobs, m \in AttemptNumbers : InHand(v, j, m)' <=> InHand(v, j, m)
        BY <1>3 DEF InHand, runVars, Enqueue
    <2>4. \A j \in Jobs, m \in AttemptNumbers : Open(j, m)' <=> Open(j, m)
        BY <1>2, <1>3, <2>3 DEF Open, Enqueue
    <2>5. \A j \in Jobs : \A m, n : RetriedBetween(j, m, n)' <=> RetriedBetween(j, m, n)
        BY <1>3 DEF RetriedBetween, Enqueue
    <2>6. \A j \in Jobs : \A m : RetriedSince(j, m)' <=> RetriedSince(j, m)
        BY <1>3 DEF RetriedSince, Enqueue
    <2>7. \A j \in Jobs : j # k => status'[j] = status[j]
        BY <1>3 DEF Enqueue, TypeOK
    <2>8. OpenAttemptsInOrder'
        BY <1>3, <2>2, <2>4, <2>5, <2>6, <2>7 DEF OpenInv, OpenAttemptsInOrder, Enqueue
    <2>9. InHandUnresolved'
        BY <1>2, <1>3, <2>3 DEF OpenInv, InHandUnresolved, Enqueue
    <2>10. RetriesInPast'
        BY <1>3 DEF OpenInv, RetriesInPast, Enqueue
    <2> QED BY <2>8, <2>9, <2>10 DEF OpenInv
<1>4. ASSUME NEW k \in Jobs, RecordPermanentBounce(k) PROVE OpenInv'
    <2>1. \A j \in Jobs : status'[j] = status[j] \/ status'[j] \notin Waiting \cup {"leased"}
        BY <1>4 DEF RecordPermanentBounce, TypeOK, Waiting
    <2> QED BY <1>1, <1>2, <1>4, <2>1 DEF RecordPermanentBounce
<1>5. ASSUME NEW group, CancelPending(group), UNCHANGED <<attempts, retriedAt, runVars, provider>>
      PROVE  OpenInv'
    <2>1. \A j \in Jobs : status'[j] = status[j] \/ status'[j] \notin Waiting \cup {"leased"}
        BY <1>5 DEF CancelPending, TypeOK, Waiting
    <2> QED BY <1>1, <1>2, <1>5, <2>1
<1>6. ASSUME NEW d \in Destinations, Suppress(d) \/ Unsuppress(d) PROVE OpenInv'
    BY <1>1, <1>2, <1>5, <1>6 DEF Suppress, Unsuppress
<1>7. ASSUME NEW c \in Campaigns, CloseCampaign(c) \/ ReopenCampaign(c) PROVE OpenInv'
    BY <1>1, <1>2, <1>5, <1>7 DEF CloseCampaign, ReopenCampaign
<1>8. ASSUME NEW k \in Jobs, NEW n \in AttemptNumbers, NEW s \in ProviderStatus,
             ProviderProgress(k, n, s)
      PROVE  OpenInv'
    <2>1. \A j \in Jobs : HandedOver(j)' = HandedOver(j)
        <3>1. s # "none" /\ provider[k][n] # "none"
            BY <1>8 DEF ProviderProgress, ProviderStatus
        <3>2. \A j \in Jobs, m \in AttemptNumbers :
                  provider'[j][m] = IF j = k /\ m = n THEN s ELSE provider[j][m]
            BY <1>8 DEF ProviderProgress, TypeOK
        <3> QED BY <3>1, <3>2 DEF HandedOver
    <2> QED BY <1>1, <1>8, <2>1 DEF ProviderProgress
<1>9. ASSUME NEW k \in Jobs, NEW n \in AttemptNumbers, NEW s \in ProviderStatus,
             TwilioStatus(k, n, s)
      PROVE  OpenInv'
    <2>1. \A j \in Jobs : status'[j] = status[j] \/ status'[j] \notin Waiting \cup {"leased"}
        BY <1>9 DEF TwilioStatus, StatusAfter, TypeOK, Waiting
    <2> QED BY <1>1, <1>2, <1>9, <2>1 DEF TwilioStatus
<1>10. ASSUME NEW j \in Jobs, LeaseExpires(j) \/ PurgeAttempts(j) PROVE OpenInv'
    BY <1>1, <1>2, <1>10 DEF LeaseExpires, PurgeAttempts
<1>11. CASE RecoverStaleMessageJobs
    <2>1. \A j \in Jobs : \/ status'[j] = status[j]
                          \/ status'[j] \notin Waiting \cup {"leased"}
                          \/ status'[j] \in Waiting /\ status[j] \in Waiting \cup {"leased"}
        BY <1>11 DEF RecoverStaleMessageJobs, Stale, RecoveredStatus, Waiting
    <2> QED BY <1>1, <1>2, <1>11, <2>1 DEF RecoverStaleMessageJobs
<1>12. CASE CancelSuppressedQueuedJobs
    BY <1>5, <1>12 DEF CancelSuppressedQueuedJobs
<1>13. CASE UNCHANGED vars
    BY <1>1, <1>2, <1>13 DEF vars
<1> QED BY <1>3, <1>4, <1>6, <1>7, <1>8, <1>9, <1>10, <1>11, <1>12, <1>13, RunKeepsOpen,
           ClaimKeepsOpen, RetryKeepsOpen DEF Next, WorkerStep, WebStep, MaintenanceStep

-------------------------------------------------------------------------------
(* The safety theorems.                                                    *)

\* The strengthening of NoBlindResend and AcceptedIsNotRequeued is inductive.
THEOREM ResendInvariant == Spec => []ResendInv
<1>1. Init => ResendInv
    BY InitType, InitStep, InitOpen DEF ResendInv
<1>2. ResendInv /\ [Next]_vars => ResendInv'
    BY NextType, NextStep, NextOpen DEF ResendInv
<1> QED BY <1>1, <1>2, PTL DEF Spec

\* Whatever the numbers of jobs, overlapping runs and attempts: no provider
\* accepts a message twice unless an administrator retried it in between.
THEOREM NoBlindResendHolds == Spec => []NoBlindResend
<1>1. ResendInv => NoBlindResend
    <2> SUFFICES ASSUME OpenInv, NEW j \in Jobs, NEW m \in HandedOver(j),
                        NEW n \in HandedOver(j), m < n
                 PROVE  RetriedBetween(j, m, n)
        BY DEF ResendInv, NoBlindResend
    <2>1. m \in AttemptNumbers /\ n \in AttemptNumbers /\ Open(j, m) /\ Open(j, n)
        BY DEF HandedOver, Open
    <2> QED BY <2>1 DEF OpenInv, OpenAttemptsInOrder
<1> QED BY <1>1, ResendInvariant, PTL

\* An attempt the provider accepted is never requeued or claimed again by the system
\* itself.
THEOREM AcceptedIsNotRequeuedHolds == Spec => []AcceptedIsNotRequeued
<1>1. ResendInv => AcceptedIsNotRequeued
    <2> SUFFICES ASSUME TypeOK, OpenInv, NEW j \in Jobs, attempts[j] \in HandedOver(j),
                        status[j] \in {"queued", "retry", "leased"}
                 PROVE  RetriedBetween(j, attempts[j], attempts[j] + 1)
        BY DEF ResendInv, AcceptedIsNotRequeued
    <2>1. attempts[j] \in AttemptNumbers /\ attempts[j] \in Nat /\ Open(j, attempts[j])
        BY DEF HandedOver, Open, AttemptNumbers, TypeOK
    <2>2. CASE status[j] = "leased"
        <3>1. RetriedBetween(j, attempts[j], attempts[j])
            BY <2>1, <2>2 DEF OpenInv, OpenAttemptsInOrder
        <3>2. PICK i \in 1..Len(retriedAt[j]) :
                  attempts[j] <= retriedAt[j][i] /\ retriedAt[j][i] < attempts[j]
            BY <3>1 DEF RetriedBetween
        <3> QED BY <2>1, <3>2, RetryMark
    <2>3. CASE status[j] # "leased"
        <3>1. RetriedSince(j, attempts[j])
            BY <2>1, <2>3 DEF OpenInv, OpenAttemptsInOrder
        <3>2. PICK i \in 1..Len(retriedAt[j]) : attempts[j] <= retriedAt[j][i]
            BY <3>1 DEF RetriedSince
        <3>3. retriedAt[j][i] \in Nat /\ retriedAt[j][i] <= attempts[j]
            BY RetryMark DEF OpenInv, RetriesInPast
        <3>4. retriedAt[j][i] < attempts[j] + 1
            BY <2>1, <3>3
        <3> QED BY <3>2, <3>4 DEF RetriedBetween
    <2> QED BY <2>2, <2>3
<1> QED BY <1>1, ResendInvariant, PTL

-------------------------------------------------------------------------------
(* What one step does to one job.                                          *)

Untouched(j) ==
    /\ status'[j] = status[j]
    /\ attempts'[j] = attempts[j]
    /\ sid'[j] = sid[j]
    /\ rank'[j] = rank[j]
    /\ recorded'[j] \in {recorded[j], 0}
    /\ retriedAt'[j] = retriedAt[j]

\* The status goes from one of froms to one of tos, and the rest stays.
Moved(j, froms, tos) ==
    /\ status[j] \in froms
    /\ status'[j] \in tos
    /\ attempts'[j] = attempts[j]
    /\ sid'[j] = sid[j]
    /\ rank'[j] = rank[j]
    /\ recorded'[j] = recorded[j]
    /\ retriedAt'[j] = retriedAt[j]

Claimed(j) ==
    /\ Claimable(j)
    /\ status'[j] = "leased"
    /\ attempts'[j] = NextAttempt(j)
    /\ recorded'[j] = NextAttempt(j)
    /\ sid'[j] = sid[j]
    /\ rank'[j] = rank[j]
    /\ retriedAt'[j] = retriedAt[j]

\* MarkAccepted: a response that arrives after a callback changes no status.
Acknowledged(j) ==
    \E new \in 1..20 :
        /\ status[j] \in {"sending", "accepted", "sent", "delivered", "failed"}
        /\ status'[j] = IF rank[j] > new THEN status[j] ELSE "accepted"
        /\ rank'[j] = Greatest(rank[j], new)
        /\ sid[j] \in {NoReference, sid'[j]}
        /\ attempts'[j] = attempts[j]
        /\ recorded'[j] = recorded[j]
        /\ retriedAt'[j] = retriedAt[j]

\* TwilioStatus for attempt n and status s.
Reported(j, n, s) ==
    /\ Emitted(j, n, s)
    /\ sid[j] \in {NoReference, n}
    /\ sid'[j] = n
    /\ \/ /\ status'[j] = StatusAfter(j, s)
          /\ rank'[j] = StatusRank[s]
          /\ StatusRank[s] >= rank[j]
          /\ StatusRank[s] = rank[j] => status[j] # "delivered"
       \/ status'[j] = status[j] /\ rank'[j] = rank[j]
    /\ attempts'[j] = attempts[j]
    /\ recorded'[j] = recorded[j]
    /\ retriedAt'[j] = retriedAt[j]

Bounced(j) ==
    /\ j \in Email
    /\ status[j] \in {"accepted", "sent", "delivered"}
    /\ status'[j] = "failed"
    /\ rank'[j] = 100
    /\ attempts'[j] = attempts[j]
    /\ sid'[j] = sid[j]
    /\ recorded'[j] = recorded[j]
    /\ retriedAt'[j] = retriedAt[j]

Retried(j) ==
    /\ status[j] \in {"failed", "dead"}
    /\ status'[j] = "queued"
    /\ sid'[j] = NoReference
    /\ rank'[j] = 0
    /\ attempts'[j] = attempts[j]
    /\ recorded'[j] = recorded[j]
    /\ retriedAt'[j] = Append(retriedAt[j], attempts[j])

\* Settled by its worker or by recovery; 'retry' while attempts are left.
SettledWithoutAnswer(j) ==
    \/ Moved(j, {"leased", "sending"}, {"cancelled", "delivery_unknown", "failed", "dead"})
    \/ Moved(j, {"leased", "sending"}, {"retry"}) /\ attempts[j] < MaxAttempts

EffectOn(j) ==
    \/ Untouched(j)
    \/ Moved(j, {"absent"}, {"queued"})
    \/ Moved(j, {"leased"}, {"sending"})
    \/ Moved(j, Pending, {"cancelled"})
    \/ SettledWithoutAnswer(j)
    \/ Claimed(j)
    \/ Acknowledged(j)
    \/ \E n \in AttemptNumbers, s \in ProviderStatus : Reported(j, n, s)
    \/ Bounced(j)
    \/ Retried(j)

LEMMA CancelPendingEffect ==
    ASSUME TypeOK, NEW group, CancelPending(group), NEW j \in Jobs,
           UNCHANGED <<attempts, sid, rank, recorded, retriedAt>>
    PROVE  Untouched(j) \/ Moved(j, Pending, {"cancelled"})
BY DEF CancelPending, Untouched, Moved

LEMMA SettleEffect ==
    ASSUME TypeOK, NEW k \in Jobs, NEW j \in Jobs, NEW new,
           UNCHANGED <<attempts, sid, rank, recorded, retriedAt>>,
           \/ UNCHANGED status
           \/ /\ Settle(k, new)
              /\ status[k] \in {"leased", "sending"}
              /\ new \in {"cancelled", "delivery_unknown", "failed", "dead", "retry"}
              /\ new = "retry" => attempts[k] < MaxAttempts
    PROVE  Untouched(j) \/ SettledWithoutAnswer(j)
<1>1. CASE UNCHANGED status
    BY <1>1 DEF Untouched
<1>2. CASE ~UNCHANGED status /\ j = k
    BY <1>2 DEF SettledWithoutAnswer, Moved, Settle, TypeOK
<1>3. CASE ~UNCHANGED status /\ j # k
    BY <1>3 DEF Untouched, Settle, TypeOK
<1> QED BY <1>1, <1>2, <1>3

LEMMA RunEffect ==
    ASSUME TypeOK, NEW w \in Runs, RunStep(w), NEW j \in Jobs
    PROVE  EffectOn(j)
<1> USE DEF EffectOn
<1>0. pc[w] \in AtJob => cur[w] \in Jobs
    BY DEF TypeOK
<1>1. CASE CancelMessageJob(w)
    BY <1>0, <1>1, SettleEffect DEF CancelMessageJob, Owns, AtJob
<1>2. CASE MarkSending(w)
    <2>1. CASE j = cur[w]
        BY <1>2, <2>1 DEF MarkSending, Owns, Moved, TypeOK
    <2>2. CASE j # cur[w]
        BY <1>2, <2>2 DEF MarkSending, Untouched, TypeOK
    <2> QED BY <2>1, <2>2
<1>3. CASE MarkAccepted(w)
    <2> PICK k \in Jobs : k = cur[w]
        BY <1>0, <1>3 DEF MarkAccepted, AtJob
    <2> PICK new \in 1..20 : new = StatusRank[SendStatus(k)]
        BY SendStatusType
    <2>1. CASE j = k
        <3>1. Acknowledged(j)
            BY <1>3, <2>1 DEF MarkAccepted, Acknowledged, Owns, Settle, TypeOK
        <3> QED BY <3>1
    <2>2. CASE j # k
        BY <1>3, <2>2 DEF MarkAccepted, Untouched, Settle, TypeOK
    <2> QED BY <2>1, <2>2
<1>4. CASE MarkDeliveryUnknown(w)
    BY <1>0, <1>4, SettleEffect DEF MarkDeliveryUnknown, Owns, AtJob
<1>5. CASE FailMessageJob(w)
    <2> PICK k \in Jobs : k = cur[w]
        BY <1>0, <1>5 DEF FailMessageJob, AtJob
    <2> DEFINE new == FailureStatus(k, pc[w] = "retryable")
    <2>1. attempts[k] \in Nat /\ MaxAttempts \in Nat
        BY OutboxConstants DEF TypeOK
    <2>2. new \in {"dead", "retry", "failed"} /\ (new = "retry" => attempts[k] < MaxAttempts)
        BY <2>1 DEF FailureStatus
    <2>3. \/ Settle(k, new) /\ status[k] \in {"leased", "sending"}
          \/ UNCHANGED status
        BY <1>5 DEF FailMessageJob, Owns
    <2>4. UNCHANGED <<attempts, sid, rank, recorded, retriedAt>>
        BY <1>5 DEF FailMessageJob
    <2> HIDE DEF new
    <2> QED BY <2>2, <2>3, <2>4, SettleEffect
<1>6. CASE UNCHANGED <<jobVars, retriedAt>>
    BY <1>6 DEF jobVars, Untouched
<1> QED BY <1>1, <1>2, <1>3, <1>4, <1>5, <1>6
        DEF RunStep, RenderFails, ClaimLost, ProviderAccepts, ProviderRejects,
            AcceptanceNotRecorded, EndRun, Crash, StopRun, Recheck

LEMMA NextEffect ==
    ASSUME TypeOK, [Next]_vars, NEW j \in Jobs
    PROVE  EffectOn(j)
<1> USE DEF EffectOn
<1>1. ASSUME NEW w \in Runs, NEW batch \in SUBSET Jobs, ClaimMessageJobs(w, batch)
      PROVE  EffectOn(j)
    BY <1>1 DEF ClaimMessageJobs, Claimed, Untouched
<1>2. ASSUME NEW k \in Jobs, Enqueue(k) PROVE EffectOn(j)
    BY <1>2 DEF Enqueue, Moved, Untouched, TypeOK
<1>3. ASSUME NEW k \in Jobs, RecordPermanentBounce(k) PROVE EffectOn(j)
    <2>1. CASE j = k
        <3>1. Bounced(j)
            BY <1>3, <2>1 DEF RecordPermanentBounce, Bounced, TypeOK
        <3> QED BY <3>1
    <2>2. CASE j # k
        <3>1. Untouched(j) \/ Moved(j, Pending, {"cancelled"})
            BY <1>3, <2>2 DEF RecordPermanentBounce, Untouched, Moved, TypeOK
        <3> QED BY <3>1
    <2> QED BY <2>1, <2>2
<1>4. ASSUME NEW k \in Jobs, RetryDeadOrFailedJob(k) PROVE EffectOn(j)
    <2>1. CASE j = k
        <3>1. Retried(j)
            BY <1>4, <2>1 DEF RetryDeadOrFailedJob, Retried, Settle, TypeOK
        <3> QED BY <3>1
    <2>2. CASE j # k
        BY <1>4, <2>2 DEF RetryDeadOrFailedJob, Untouched, Settle, TypeOK
    <2> QED BY <2>1, <2>2
<1>5. ASSUME NEW k \in Jobs, NEW n \in AttemptNumbers, NEW s \in ProviderStatus,
             TwilioStatus(k, n, s)
      PROVE  EffectOn(j)
    <2>1. CASE j = k
        <3>1. StatusRank[s] \in Nat /\ rank[j] \in Nat
            <4>1. StatusRank[s] \in 1..100
                BY StatusRankType
            <4>2. rank[j] \in Nat
                BY DEF TypeOK
            <4> QED BY <4>1, <4>2
        <3>2. Reported(j, n, s)
            BY <1>5, <2>1, <3>1 DEF TwilioStatus, Reported, TypeOK
        <3>3. \E m \in AttemptNumbers, t \in ProviderStatus : Reported(j, m, t)
            BY <3>2
        <3> QED BY <3>3
    <2>2. CASE j # k
        BY <1>5, <2>2 DEF TwilioStatus, Untouched, TypeOK
    <2> QED BY <2>1, <2>2
<1>6. ASSUME NEW k \in Jobs, PurgeAttempts(k) PROVE EffectOn(j)
    BY <1>6 DEF PurgeAttempts, Untouched, TypeOK
<1>7. CASE RecoverStaleMessageJobs
    <2>1. attempts[j] \in Nat /\ MaxAttempts \in Nat
        BY OutboxConstants DEF TypeOK
    <2>2. CASE Stale(j)
        <3>1. SettledWithoutAnswer(j)
            BY <1>7, <2>1, <2>2
            DEF RecoverStaleMessageJobs, Stale, RecoveredStatus, SettledWithoutAnswer, Moved
        <3> QED BY <3>1
    <2>3. CASE ~Stale(j)
        BY <1>7, <2>3 DEF RecoverStaleMessageJobs, Untouched
    <2> QED BY <2>2, <2>3
<1>8. ASSUME NEW group, CancelPending(group),
             UNCHANGED <<attempts, sid, rank, recorded, retriedAt>>
      PROVE  EffectOn(j)
    BY <1>8, CancelPendingEffect
<1>9. CASE UNCHANGED <<jobVars, retriedAt>>
    BY <1>9 DEF jobVars, Untouched
<1>10. ASSUME NEW k \in Jobs, LeaseExpires(k) PROVE EffectOn(j)
    BY <1>10 DEF LeaseExpires, Untouched
<1>11. ASSUME WebStep PROVE EffectOn(j)
    BY <1>2, <1>3, <1>4, <1>5, <1>8, <1>9, <1>11
    DEF WebStep, Suppress, Unsuppress, CloseCampaign, ReopenCampaign, ProviderProgress
<1>12. CASE CancelSuppressedQueuedJobs
    BY <1>8, <1>12 DEF CancelSuppressedQueuedJobs
<1> QED BY <1>1, <1>6, <1>7, <1>9, <1>10, <1>11, <1>12, RunEffect
        DEF Next, WorkerStep, MaintenanceStep, vars

\* A provider never gives an attempt back, and moves it on by rank.
LEMMA ProviderEffect ==
    ASSUME TypeOK, StepInv, OpenInv, [Next]_vars, NEW j \in Jobs, NEW n \in HandedOver(j)
    PROVE  /\ n \in HandedOver(j)'
           /\ \/ provider'[j][n] = provider[j][n]
              \/ StatusRank[provider'[j][n]] > StatusRank[provider[j][n]]
<1>0. n \in AttemptNumbers
    BY DEF HandedOver
<1>1. CASE UNCHANGED provider
    BY <1>1 DEF HandedOver
<1>2. ASSUME NEW w \in Runs, NEW answer \in RunPhase, ProviderAccepts(w, answer)
      PROVE  n \in HandedOver(j)' /\ provider'[j][n] = provider[j][n]
    <2>1. cur[w] \in Jobs /\ attempt[w] \in 0..AttemptCap /\ attempt[w] # 0
        BY <1>2 DEF ProviderAccepts, TypeOK, AtJob, StepInv, RunsInStep
    <2>2. attempt[w] \in AttemptNumbers
        BY <2>1, OutboxConstants DEF AttemptNumbers
    <2>3. InHand(w, cur[w], attempt[w])
        BY <1>2 DEF InHand, ProviderAccepts
    <2>4. ~(j = cur[w] /\ n = attempt[w])
        BY <2>1, <2>2, <2>3 DEF OpenInv, InHandUnresolved
    <2>5. provider'[j][n] = provider[j][n]
        BY <1>0, <1>2, <2>1, <2>2, <2>4 DEF ProviderAccepts, TypeOK
    <2> QED BY <1>0, <2>5 DEF HandedOver
<1>3. ASSUME NEW k \in Jobs, NEW m \in AttemptNumbers, NEW s \in ProviderStatus,
             ProviderProgress(k, m, s)
      PROVE  /\ n \in HandedOver(j)'
             /\ \/ provider'[j][n] = provider[j][n]
                \/ StatusRank[provider'[j][n]] > StatusRank[provider[j][n]]
    <2>1. provider'[j][n] = IF j = k /\ n = m THEN s ELSE provider[j][n]
        BY <1>0, <1>3 DEF ProviderProgress, TypeOK
    <2>2. s # "none"
        BY DEF ProviderStatus
    <2>3. n \in HandedOver(j)'
        BY <1>0, <2>1, <2>2 DEF HandedOver
    <2>4. j = k /\ n = m => StatusRank[s] > StatusRank[provider[j][n]]
        BY <1>3 DEF ProviderProgress
    <2> QED BY <2>1, <2>3, <2>4
<1>4. ASSUME NEW w \in Runs, RunStep(w)
      PROVE  UNCHANGED provider \/ \E answer \in RunPhase : ProviderAccepts(w, answer)
    BY <1>4
    DEF RunStep, CancelMessageJob, RenderFails, MarkSending, ClaimLost, ProviderRejects,
        MarkAccepted, AcceptanceNotRecorded, MarkDeliveryUnknown, FailMessageJob, EndRun, Crash,
        StopRun, Recheck
<1>5. ASSUME WebStep
      PROVE  \/ UNCHANGED provider
             \/ \E k \in Jobs, m \in AttemptNumbers, s \in ProviderStatus :
                   ProviderProgress(k, m, s)
    BY <1>5
    DEF WebStep, Enqueue, RecordPermanentBounce, RetryDeadOrFailedJob, Suppress, Unsuppress,
        CloseCampaign, ReopenCampaign, TwilioStatus
<1>6. UNCHANGED provider \/ WebStep \/ \E w \in Runs : RunStep(w)
    BY DEF Next, WorkerStep, MaintenanceStep, ClaimMessageJobs, LeaseExpires, PurgeAttempts,
           RecoverStaleMessageJobs, CancelSuppressedQueuedJobs, vars
<1> QED BY <1>1, <1>2, <1>3, <1>4, <1>5, <1>6

-------------------------------------------------------------------------------
(* Suppression, delivery and the attempt budget.                           *)

LEMMA InitDelivery == Init => DeliveryInv
<1> SUFFICES ASSUME Init PROVE DeliveryInv
    OBVIOUS
<1> USE DEF Init
<1>1. LeasedMaySend /\ DeliveredInStep /\ SettledStatusIsTrue
    BY DEF LeasedMaySend, DeliveredInStep, SettledStatusIsTrue
<1>2. BudgetInStep
    BY OutboxConstants DEF BudgetInStep, Legacy
<1>3. ExtraAttemptsAreAuthorised
    BY OutboxConstants DEF ExtraAttemptsAreAuthorised
<1> QED BY <1>1, <1>2, <1>3 DEF DeliveryInv

\* A job that is leased now was leased and untouched, or has just been claimed.
LEMMA LeasedEffect ==
    ASSUME TypeOK, [Next]_vars, NEW j \in Jobs, status'[j] = "leased"
    PROVE  status[j] = "leased" \/ Claimable(j)
BY NextEffect
DEF EffectOn, Untouched, Moved, SettledWithoutAnswer, Claimed, Acknowledged, Reported, Bounced,
    Retried, StatusAfter

LEMMA NextLeased == TypeOK /\ LeasedMaySend /\ [Next]_vars => LeasedMaySend'
<1> SUFFICES ASSUME TypeOK, LeasedMaySend, [Next]_vars, NEW j \in Jobs, status'[j] = "leased"
             PROVE  ~Suppressed(j)' /\ CampaignOpen(j)'
    BY DEF LeasedMaySend
<1>1. ~Suppressed(j) /\ CampaignOpen(j)
    BY LeasedEffect DEF LeasedMaySend, Claimable
<1>2. CASE UNCHANGED envVars
    BY <1>1, <1>2 DEF envVars, Suppressed, CampaignOpen
<1>3. ASSUME NEW d \in Destinations, Suppress(d) PROVE ~Suppressed(j)' /\ CampaignOpen(j)'
    <2>1. Destination[j] # d
        BY <1>3 DEF Suppress, CancelPending, Pending
    <2> QED BY <1>1, <1>3, <2>1 DEF Suppress, Suppressed, CampaignOpen
<1>4. ASSUME NEW d \in Destinations, Unsuppress(d)
      PROVE  ~Suppressed(j)' /\ CampaignOpen(j)'
    BY <1>1, <1>4 DEF Unsuppress, Suppressed, CampaignOpen
<1>5. ASSUME NEW k \in Jobs, RecordPermanentBounce(k)
      PROVE  ~Suppressed(j)' /\ CampaignOpen(j)'
    <2>1. Destination[j] # Destination[k]
        BY <1>5 DEF RecordPermanentBounce, Pending
    <2> QED BY <1>1, <1>5, <2>1 DEF RecordPermanentBounce, Suppressed, CampaignOpen
<1>6. ASSUME NEW c \in Campaigns, CloseCampaign(c) PROVE ~Suppressed(j)' /\ CampaignOpen(j)'
    <2>1. Campaign[j] # c
        BY <1>6 DEF CloseCampaign, CancelPending, Pending
    <2> QED BY <1>1, <1>6, <2>1 DEF CloseCampaign, Suppressed, CampaignOpen
<1>7. ASSUME NEW c \in Campaigns, ReopenCampaign(c)
      PROVE  ~Suppressed(j)' /\ CampaignOpen(j)'
    BY <1>1, <1>7 DEF ReopenCampaign, Suppressed, CampaignOpen
<1>8. ASSUME NEW w \in Runs, RunStep(w) PROVE UNCHANGED envVars
    BY <1>8
    DEF RunStep, CancelMessageJob, RenderFails, MarkSending, ClaimLost, ProviderAccepts,
        ProviderRejects, MarkAccepted, AcceptanceNotRecorded, MarkDeliveryUnknown,
        FailMessageJob, EndRun, Crash, StopRun, Recheck
<1>9. CASE WebStep
    BY <1>2, <1>3, <1>4, <1>5, <1>6, <1>7, <1>9
    DEF WebStep, Enqueue, RetryDeadOrFailedJob, ProviderProgress, TwilioStatus
<1>10. UNCHANGED envVars \/ WebStep \/ \E w \in Runs : RunStep(w)
    BY DEF Next, WorkerStep, MaintenanceStep, ClaimMessageJobs, LeaseExpires, PurgeAttempts,
           RecoverStaleMessageJobs, CancelSuppressedQueuedJobs, vars
<1> QED BY <1>2, <1>8, <1>9, <1>10

LEMMA NextDelivered == TypeOK /\ DeliveredInStep /\ [Next]_vars => DeliveredInStep'
<1> SUFFICES ASSUME TypeOK, DeliveredInStep, [Next]_vars, NEW j \in Jobs,
                    status'[j] = "delivered"
             PROVE  rank'[j] = 100 /\ j \notin Email
    BY DEF DeliveredInStep
<1> USE DEF DeliveredInStep
<1>1. EffectOn(j)
    BY NextEffect
<1>2. CASE Untouched(j)
    BY <1>2 DEF Untouched
<1>3. CASE Acknowledged(j)
    <2>1. rank[j] = 100 /\ status[j] = "delivered"
        BY <1>3 DEF Acknowledged
    <2> QED BY <1>3, <2>1 DEF Acknowledged, Greatest
<1>4. ASSUME NEW n \in AttemptNumbers, NEW s \in ProviderStatus, Reported(j, n, s)
      PROVE  rank'[j] = 100 /\ j \notin Email
    <2>1. j \notin Email
        BY <1>4 DEF Reported, Emitted
    <2>2. CASE status'[j] = status[j] /\ rank'[j] = rank[j]
        BY <2>1, <2>2
    <2>3. CASE /\ status'[j] = StatusAfter(j, s)
               /\ rank'[j] = StatusRank[s]
               /\ StatusRank[s] >= rank[j]
               /\ StatusRank[s] = rank[j] => status[j] # "delivered"
        <3>1. s # "delivered" => status[j] = "delivered" /\ rank[j] = 100
            BY <2>3 DEF StatusAfter
        <3>2. StatusRank[s] \in 1..100 /\ StatusRank["delivered"] = 100
            BY StatusRankType
        <3> QED BY <2>1, <2>3, <3>1, <3>2
    <2> QED BY <1>4, <2>2, <2>3 DEF Reported
<1> QED BY <1>1, <1>2, <1>3, <1>4
        DEF EffectOn, Moved, SettledWithoutAnswer, Claimed, Bounced, Retried

LEMMA RetriedBetweenStays ==
    ASSUME TypeOK, [Next]_vars, NEW j \in Jobs, NEW m, NEW n, RetriedBetween(j, m, n)
    PROVE  RetriedBetween(j, m, n)'
<1>1. retriedAt'[j] = retriedAt[j] \/ retriedAt'[j] = Append(retriedAt[j], attempts[j])
    BY NextEffect
    DEF EffectOn, Untouched, Moved, SettledWithoutAnswer, Claimed, Acknowledged, Reported,
        Bounced, Retried
<1>2. CASE retriedAt'[j] = retriedAt[j]
    BY <1>2 DEF RetriedBetween
<1>3. CASE retriedAt'[j] = Append(retriedAt[j], attempts[j])
    <2>1. retriedAt[j] \in Seq(0..AttemptCap) /\ attempts[j] \in 0..AttemptCap
        BY DEF TypeOK
    <2>2. \A i \in 1..Len(retriedAt[j]) :
              i \in 1..Len(retriedAt'[j]) /\ retriedAt'[j][i] = retriedAt[j][i]
        BY <1>3, <2>1
    <2> QED BY <2>2 DEF RetriedBetween
<1> QED BY <1>1, <1>2, <1>3

\* A retry at the present count is a retry between this attempt and the next.
LEMMA RetryCounts ==
    ASSUME TypeOK, NEW j \in Jobs, Retried(j)
    PROVE  RetriedBetween(j, attempts[j], attempts[j] + 1)'
<1>1. retriedAt[j] \in Seq(0..AttemptCap) /\ attempts[j] \in Nat /\ attempts'[j] = attempts[j]
    BY DEF TypeOK, Retried
<1> DEFINE last == Len(retriedAt[j]) + 1
<1>2. last \in 1..Len(retriedAt'[j]) /\ retriedAt'[j][last] = attempts[j]
    <2>1. retriedAt'[j] = Append(retriedAt[j], attempts[j]) /\ attempts[j] \in 0..AttemptCap
        BY DEF Retried, TypeOK
    <2> QED BY <1>1, <2>1
<1> HIDE DEF last
<1> QED BY <1>1, <1>2 DEF RetriedBetween

LEMMA NextBudget == TypeOK /\ StepInv /\ BudgetInStep /\ [Next]_vars => BudgetInStep'
<1> SUFFICES ASSUME TypeOK, StepInv, BudgetInStep, [Next]_vars, NEW j \in Jobs
             PROVE  /\ recorded'[j] <= attempts'[j] \/ Legacy(j)'
                    /\ status'[j] = "queued" =>
                          attempts'[j] = 0 \/ RetriedBetween(j, attempts[j], attempts[j] + 1)'
                    /\ status'[j] = "retry" => attempts'[j] < MaxAttempts
    BY DEF BudgetInStep
<1>0. attempts[j] \in Nat /\ recorded[j] \in Nat
    BY DEF TypeOK
<1>1. EffectOn(j)
    BY NextEffect
<1>2. CASE Claimed(j)
    BY <1>0, <1>2, NextAttemptType DEF Claimed
<1>3. CASE Retried(j)
    BY <1>3, RetryCounts DEF Retried, BudgetInStep, Legacy
<1>4. CASE ~Claimed(j) /\ ~Retried(j)
    <2>1. attempts'[j] = attempts[j] /\ recorded'[j] \in {recorded[j], 0}
        BY <1>1, <1>4
        DEF EffectOn, Untouched, Moved, SettledWithoutAnswer, Acknowledged, Reported, Bounced
    <2>2. recorded'[j] <= attempts'[j] \/ Legacy(j)'
        BY <1>0, <2>1 DEF BudgetInStep, Legacy
    <2>3. status'[j] = "queued" => status[j] \in {"queued", "absent"}
        BY <1>1, <1>4
        DEF EffectOn, Untouched, Moved, SettledWithoutAnswer, Acknowledged, Reported, Bounced,
            StatusAfter
    <2>4. status'[j] = "retry" => attempts[j] < MaxAttempts
        BY <1>1, <1>4
        DEF EffectOn, Untouched, Moved, SettledWithoutAnswer, Acknowledged, Reported, Bounced,
            StatusAfter, BudgetInStep
    <2>5. status[j] = "absent" => attempts[j] = 0
        BY DEF StepInv, AttemptsInStep
    <2>6. RetriedBetween(j, attempts[j], attempts[j] + 1) =>
              RetriedBetween(j, attempts[j], attempts[j] + 1)'
        BY <2>1, RetriedBetweenStays DEF RetriedBetween
    <2> QED BY <2>1, <2>2, <2>3, <2>4, <2>5, <2>6 DEF BudgetInStep
<1> QED BY <1>2, <1>3, <1>4

LEMMA NextSettledStatus ==
    ASSUME TypeOK, StepInv, OpenInv, SettledStatusIsTrue, [Next]_vars
    PROVE  SettledStatusIsTrue'
<1> SUFFICES ASSUME NEW j \in Jobs, status'[j] \in {"sent", "delivered"}
             PROVE  /\ sid'[j] \in HandedOver(j)'
                    /\ \/ provider'[j][sid'[j]] = status'[j]
                       \/ StatusRank[provider'[j][sid'[j]]] > StatusRank[status'[j]]
    BY DEF SettledStatusIsTrue
<1> DEFINE Reached(n, s) ==
               /\ n \in HandedOver(j)
               /\ provider[j][n] = s \/ StatusRank[provider[j][n]] > StatusRank[s]
\* What a provider has reached stays reached.
<1>1. ASSUME NEW n, NEW s \in ProviderStatus, Reached(n, s)
      PROVE  /\ n \in HandedOver(j)'
             /\ \/ provider'[j][n] = s
                \/ StatusRank[provider'[j][n]] > StatusRank[s]
    <2>1. /\ n \in HandedOver(j)'
          /\ \/ provider'[j][n] = provider[j][n]
             \/ StatusRank[provider'[j][n]] > StatusRank[provider[j][n]]
        BY <1>1, ProviderEffect
    <2>2. n \in AttemptNumbers /\ provider[j][n] \in ProviderStatus
        BY <1>1 DEF HandedOver, TypeOK
    <2>3. provider'[j][n] \in ProviderStatus
        <3>1. TypeOK'
            BY NextType
        <3> QED BY <2>1, <2>2, <3>1 DEF HandedOver, TypeOK
    <2>4. /\ StatusRank[s] \in 1..100
          /\ StatusRank[provider[j][n]] \in 1..100
          /\ StatusRank[provider'[j][n]] \in 1..100
        BY <2>2, <2>3, StatusRankType
    <2>5. CASE provider'[j][n] = provider[j][n]
        BY <1>1, <2>1, <2>5
    <2>6. CASE provider'[j][n] # provider[j][n] /\ provider[j][n] = s
        BY <2>1, <2>6
    <2>7. CASE provider'[j][n] # provider[j][n] /\ provider[j][n] # s
        <3>1. StatusRank[provider[j][n]] > StatusRank[s]
            BY <1>1, <2>7
        <3>2. StatusRank[provider'[j][n]] > StatusRank[provider[j][n]]
            BY <2>1, <2>7
        <3> DEFINE a == StatusRank[s]
                   b == StatusRank[provider[j][n]]
                   c == StatusRank[provider'[j][n]]
        <3>3. a \in 1..100 /\ b \in 1..100 /\ c \in 1..100 /\ b > a /\ c > b
            BY <2>4, <3>1, <3>2
        <3> HIDE DEF a, b, c
        <3>4. c > a
            BY <3>3
        <3> QED BY <2>1, <3>4 DEF a, c
    <2> QED BY <2>5, <2>6, <2>7
<1>2. CASE status'[j] = status[j] /\ sid'[j] = sid[j]
    <2>1. Reached(sid[j], status[j]) /\ status[j] \in ProviderStatus
        BY <1>2 DEF SettledStatusIsTrue, ProviderStatus
    <2> QED BY <1>1, <1>2, <2>1
<1>3. CASE Acknowledged(j)
    <2>1. status'[j] = status[j] /\ sid[j] \in {NoReference, sid'[j]}
        BY <1>3 DEF Acknowledged
    <2>2. sid[j] \in AttemptNumbers
        BY <2>1 DEF SettledStatusIsTrue, HandedOver
    <2>3. sid[j] # NoReference
        BY <2>2 DEF AttemptNumbers, NoReference
    <2> QED BY <1>2, <2>1, <2>3
<1>4. ASSUME NEW n \in AttemptNumbers, NEW s \in ProviderStatus, Reported(j, n, s)
      PROVE  /\ sid'[j] \in HandedOver(j)'
             /\ \/ provider'[j][sid'[j]] = status'[j]
                \/ StatusRank[provider'[j][sid'[j]]] > StatusRank[status'[j]]
    <2>1. CASE status'[j] = status[j]
        <3>1. sid[j] \in AttemptNumbers
            BY <2>1 DEF SettledStatusIsTrue, HandedOver
        <3>2. sid'[j] = sid[j]
            BY <1>4, <3>1 DEF Reported, AttemptNumbers, NoReference
        <3> QED BY <1>2, <2>1, <3>2
    <2>2. CASE status'[j] # status[j]
        <3>1. status'[j] = s /\ sid'[j] = n
            BY <1>4, <2>2 DEF Reported, StatusAfter
        <3>2. Reached(n, s)
            BY <1>4 DEF Reported, Emitted, HandedOver, ProviderStatus
        <3> QED BY <1>1, <3>1, <3>2
    <2> QED BY <2>1, <2>2
<1>5. EffectOn(j)
    BY NextEffect
<1>6. \/ status'[j] = status[j] /\ sid'[j] = sid[j]
      \/ Acknowledged(j)
      \/ \E n \in AttemptNumbers, s \in ProviderStatus : Reported(j, n, s)
    BY <1>5 DEF EffectOn, Untouched, Moved, SettledWithoutAnswer, Claimed, Bounced, Retried
<1> QED BY <1>2, <1>3, <1>4, <1>6

LEMMA NextExtraAttempts ==
    ASSUME TypeOK, BudgetInStep, ExtraAttemptsAreAuthorised, [Next]_vars
    PROVE  ExtraAttemptsAreAuthorised'
<1> SUFFICES ASSUME NEW j \in Jobs, NEW n \in (MaxAttempts + 1)..attempts'[j]
             PROVE  RetriedBetween(j, n - 1, n)'
    BY DEF ExtraAttemptsAreAuthorised
<1>0. attempts[j] \in Nat /\ recorded[j] \in Nat /\ MaxAttempts \in Nat \ {0}
    BY OutboxConstants DEF TypeOK
<1>1. CASE n \in (MaxAttempts + 1)..attempts[j]
    <2>1. RetriedBetween(j, n - 1, n)
        BY <1>1 DEF ExtraAttemptsAreAuthorised
    <2> QED BY <2>1, RetriedBetweenStays DEF RetriedBetween
<1>2. CASE n \notin (MaxAttempts + 1)..attempts[j]
    <2>1. attempts'[j] # attempts[j]
        BY <1>2
    <2>2. Claimed(j)
        BY <2>1, NextEffect
        DEF EffectOn, Untouched, Moved, SettledWithoutAnswer, Acknowledged, Reported, Bounced,
            Retried
    <2>3. attempts'[j] = NextAttempt(j) /\ status[j] \in {"queued", "retry"}
        BY <2>2 DEF Claimed, Claimable
    <2>4. ~Legacy(j)
        BY <1>0, <2>3 DEF Legacy, NextAttempt, Greatest
    <2>5. attempts'[j] = attempts[j] + 1
        BY <1>0, <2>3, <2>4 DEF BudgetInStep, NextAttempt, Greatest
    <2>6. n = attempts[j] + 1 /\ n - 1 = attempts[j] /\ attempts[j] >= MaxAttempts
        BY <1>0, <1>2, <2>5
    <2>7. RetriedBetween(j, attempts[j], attempts[j] + 1)
        BY <1>0, <2>3, <2>6 DEF BudgetInStep
    <2>8. RetriedBetween(j, n - 1, n)
        BY <2>6, <2>7
    <2> QED BY <2>8, RetriedBetweenStays DEF RetriedBetween
<1> QED BY <1>1, <1>2

\* The strengthening is inductive on top of ResendInv.
THEOREM DeliveryInvariant == Spec => []DeliveryInv
<1>1. Init => DeliveryInv
    BY InitDelivery
<1>2. ResendInv /\ DeliveryInv /\ [Next]_vars => DeliveryInv'
    BY NextLeased, NextDelivered, NextBudget, NextSettledStatus, NextExtraAttempts
    DEF ResendInv, DeliveryInv
<1> QED BY <1>1, <1>2, ResendInvariant, PTL DEF Spec

\* 'sent' and 'delivered' are true of the provider message the job refers to, in every
\* order of callbacks, responses, late workers and retries.
THEOREM SettledStatusIsTrueHolds == Spec => []SettledStatusIsTrue
<1>1. DeliveryInv => SettledStatusIsTrue
    BY DEF DeliveryInv
<1> QED BY <1>1, DeliveryInvariant, PTL

\* Every attempt beyond max_attempts follows a retry by an administrator at exactly
\* that count, through crashes, recoveries, deleted history and legacy rows.
THEOREM ExtraAttemptsAreAuthorisedHolds == Spec => []ExtraAttemptsAreAuthorised
<1>1. DeliveryInv => ExtraAttemptsAreAuthorised
    BY DEF DeliveryInv
<1> QED BY <1>1, DeliveryInvariant, PTL

\* No job is submitted after its destination was suppressed or its campaign closed,
\* although the worker read both in earlier transactions.
THEOREM SubmissionHonoursStopHolds == Spec => SubmissionHonoursStop
<1> DEFINE Step == \A j \in Jobs : status[j] # "sending" /\ status'[j] = "sending" =>
                      ~Suppressed(j) /\ CampaignOpen(j)
<1>1. TypeOK /\ DeliveryInv /\ [Next]_vars => [Step]_vars
    <2> SUFFICES ASSUME TypeOK, LeasedMaySend, [Next]_vars, NEW j \in Jobs,
                        status[j] # "sending", status'[j] = "sending"
                 PROVE  ~Suppressed(j) /\ CampaignOpen(j)
        BY DEF DeliveryInv
    <2>1. status[j] = "leased"
        BY NextEffect
        DEF EffectOn, Untouched, Moved, SettledWithoutAnswer, Claimed, Acknowledged, Reported,
            Bounced, Retried, StatusAfter
    <2> QED BY <2>1 DEF LeasedMaySend
<1> QED BY <1>1, TypeCorrect, DeliveryInvariant, PTL DEF Spec, SubmissionHonoursStop

\* A delivered message is never sent again, reopened or reported as failed.
THEOREM DeliveredIsFinalHolds == Spec => DeliveredIsFinal
<1> DEFINE Step == \A j \in Jobs : status[j] = "delivered" => status'[j] = "delivered"
<1>1. TypeOK /\ DeliveryInv /\ [Next]_vars => [Step]_vars
    <2> SUFFICES ASSUME TypeOK, DeliveredInStep, [Next]_vars, NEW j \in Jobs,
                        status[j] = "delivered"
                 PROVE  status'[j] = "delivered"
        BY DEF DeliveryInv
    <2>1. rank[j] = 100 /\ j \notin Email
        BY DEF DeliveredInStep
    <2>2. \A s \in ProviderStatus : StatusRank[s] \in 1..100
        BY StatusRankType
    <2>3. \A n \in AttemptNumbers, s \in ProviderStatus :
              Reported(j, n, s) => status'[j] = "delivered"
        BY <2>1, <2>2 DEF Reported
    <2> QED
        BY <2>1, <2>3, NextEffect
        DEF EffectOn, Untouched, Moved, SettledWithoutAnswer, Claimed, Claimable, Acknowledged,
            Bounced, Retried, Pending
<1> QED BY <1>1, TypeCorrect, DeliveryInvariant, PTL DEF Spec, DeliveredIsFinal

-------------------------------------------------------------------------------
(* The outbox implements AuthorisedDelivery.                               *)

HoldersFinite == \A j \in Jobs : IsFiniteSet(PermitHolders(j))

RefinementInv == AbsentIsNew /\ HoldersFinite

LEMMA InitRefinement == Init => RefinementInv
<1> SUFFICES ASSUME Init PROVE RefinementInv
    OBVIOUS
<1>1. AbsentIsNew
    BY DEF Init, AbsentIsNew
<1>2. \A j \in Jobs : PermitHolders(j) = {}
    BY DEF Init, PermitHolders
<1> QED BY <1>1, <1>2, FS_EmptySet DEF RefinementInv, HoldersFinite

LEMMA NextAbsent == TypeOK /\ AbsentIsNew /\ [Next]_vars => AbsentIsNew'
<1> SUFFICES ASSUME TypeOK, AbsentIsNew, [Next]_vars, NEW j \in Jobs, status'[j] = "absent"
             PROVE  retriedAt'[j] = <<>>
    BY DEF AbsentIsNew
<1> QED
    BY NextEffect
    DEF AbsentIsNew, EffectOn, Untouched, Moved, SettledWithoutAnswer, Claimed, Acknowledged,
        Reported, Bounced, Retried, StatusAfter

\* Which run joins or leaves the holders of a permit for j.
HoldersStay(j) == PermitHolders(j)' = PermitHolders(j)
HolderJoins(w, j) == w \notin PermitHolders(j) /\ PermitHolders(j)' = PermitHolders(j) \cup {w}
HolderLeaves(w, j) == w \in PermitHolders(j) /\ PermitHolders(j)' = PermitHolders(j) \ {w}

LEMMA MarkSendingHolders ==
    ASSUME TypeOK, NEW w \in Runs, MarkSending(w), NEW k \in Jobs, cur[w] = k
    PROVE  /\ HolderJoins(w, k)
           /\ \A j \in Jobs \ {k} : HoldersStay(j)
BY DEF MarkSending, GoTo, TypeOK, PermitHolders, HolderJoins, HoldersStay

\* A run that leaves its job, or moves on to where it holds no permit.
LEMMA LeavingHolders ==
    ASSUME TypeOK, NEW w \in Runs, NEW k \in Jobs, cur[w] = k,
           pc[w] \in {"submitted", "retryable"},
           \E phase \in RunPhase \ {"submitted", "retryable"} : GoTo(w, phase),
           \A v \in Runs \ {w} : cur'[v] = cur[v]
    PROVE  /\ HolderLeaves(w, k)
           /\ \A j \in Jobs \ {k} : HoldersStay(j)
BY DEF GoTo, TypeOK, PermitHolders, HolderLeaves, HoldersStay

LEMMA StayingHolders ==
    ASSUME TypeOK, NEW w \in Runs,
           \/ /\ pc[w] \notin {"submitted", "retryable"}
              /\ \E phase \in RunPhase \ {"submitted", "retryable"} : GoTo(w, phase)
           \/ /\ pc[w] \in {"submitted", "retryable"}
              /\ GoTo(w, "retryable")
              /\ cur'[w] = cur[w],
           \A v \in Runs \ {w} : cur'[v] = cur[v]
    PROVE  \A j \in Jobs : HoldersStay(j)
BY DEF GoTo, TypeOK, PermitHolders, HoldersStay

\* The steps of a run that neither take nor give a permit.
KeepsPermit(w) ==
    \/ CancelMessageJob(w) \/ RenderFails(w) \/ ClaimLost(w) \/ MarkAccepted(w)
    \/ AcceptanceNotRecorded(w) \/ MarkDeliveryUnknown(w) \/ EndRun(w)
    \/ \E j \in Jobs : Recheck(w, j)
    \/ Crash(w) /\ pc[w] \notin {"submitted", "retryable"}
    \/ FailMessageJob(w) /\ pc[w] = "permanent"
    \/ ProviderRejects(w, "retryable")

\* The steps that end one.
EndsPermit(w) ==
    \/ \E answer \in {"permanent", "uncertain"} : ProviderRejects(w, answer)
    \/ Crash(w) /\ pc[w] \in {"submitted", "retryable"}
    \/ FailMessageJob(w) /\ pc[w] = "retryable"
    \/ \E answer \in RunPhase : ProviderAccepts(w, answer)

LEMMA RunStepPermits ==
    ASSUME NEW w \in Runs, RunStep(w)
    PROVE  MarkSending(w) \/ KeepsPermit(w) \/ EndsPermit(w)
BY DEF RunStep, KeepsPermit, EndsPermit, FailMessageJob, ProviderRejects

LEMMA KeepsPermitHolders ==
    ASSUME TypeOK, NEW w \in Runs, KeepsPermit(w)
    PROVE  \A j \in Jobs : HoldersStay(j)
<1> USE DEF RunPhase
<1>1. ASSUME NEW j \in Jobs, Recheck(w, j)
      PROVE  /\ pc[w] \notin {"submitted", "retryable"}
             /\ \E phase \in RunPhase \ {"submitted", "retryable"} : GoTo(w, phase)
             /\ \A v \in Runs \ {w} : cur'[v] = cur[v]
    BY <1>1 DEF Recheck, TypeOK
<1>2. CASE \/ CancelMessageJob(w) \/ ClaimLost(w) \/ MarkAccepted(w) \/ MarkDeliveryUnknown(w)
           \/ FailMessageJob(w) /\ pc[w] = "permanent"
    <2>1. BackToBatch(w) /\ pc[w] \notin {"submitted", "retryable"}
        BY <1>2 DEF CancelMessageJob, ClaimLost, MarkAccepted, MarkDeliveryUnknown,
                    FailMessageJob
    <2> QED BY <2>1, StayingHolders DEF BackToBatch, TypeOK
<1>3. CASE RenderFails(w) \/ AcceptanceNotRecorded(w)
    BY <1>3, StayingHolders DEF RenderFails, AcceptanceNotRecorded
<1>4. CASE \/ EndRun(w)
           \/ Crash(w) /\ pc[w] \notin {"submitted", "retryable"}
    <2>1. StopRun(w) /\ pc[w] \notin {"submitted", "retryable"}
        BY <1>4 DEF EndRun, Crash
    <2> QED BY <2>1, StayingHolders DEF StopRun, GoTo, TypeOK
<1>5. CASE ProviderRejects(w, "retryable")
    BY <1>5, StayingHolders DEF ProviderRejects
<1>6. CASE \E j \in Jobs : Recheck(w, j)
    BY <1>1, <1>6, StayingHolders
<1> QED BY <1>2, <1>3, <1>4, <1>5, <1>6 DEF KeepsPermit

LEMMA EndsPermitHolders ==
    ASSUME TypeOK, NEW w \in Runs, EndsPermit(w)
    PROVE  /\ cur[w] \in Jobs
           /\ \A k \in Jobs : cur[w] = k =>
                 HolderLeaves(w, k) /\ \A j \in Jobs \ {k} : HoldersStay(j)
<1> USE DEF RunPhase
<1>1. pc[w] \in {"submitted", "retryable"}
    BY DEF EndsPermit, ProviderRejects, ProviderAccepts, FailMessageJob
<1>2. PICK k \in Jobs : cur[w] = k
    BY <1>1 DEF TypeOK, AtJob
<1>3. /\ \E phase \in RunPhase \ {"submitted", "retryable"} : GoTo(w, phase)
      /\ \A v \in Runs \ {w} : cur'[v] = cur[v]
    BY DEF EndsPermit, ProviderRejects, ProviderAccepts, FailMessageJob, BackToBatch, Crash,
           StopRun, GoTo, TypeOK
<1> QED BY <1>1, <1>2, <1>3, LeavingHolders

\* Steps of web requests and maintenance, and the claim.
LEMMA OtherStepHolders ==
    ASSUME TypeOK, [Next]_vars, ~\E w \in Runs : RunStep(w)
    PROVE  \A j \in Jobs : HoldersStay(j)
<1>1. ASSUME NEW w \in Runs, NEW batch \in SUBSET Jobs, ClaimMessageJobs(w, batch)
      PROVE  \A j \in Jobs : HoldersStay(j)
    BY <1>1, StayingHolders DEF ClaimMessageJobs, GoTo, RunPhase
<1>2. CASE UNCHANGED runVars
    BY <1>2 DEF runVars, HoldersStay, PermitHolders
<1>3. WebStep => UNCHANGED runVars
    BY DEF WebStep, Enqueue, RecordPermanentBounce, RetryDeadOrFailedJob, Suppress, Unsuppress,
           CloseCampaign, ReopenCampaign, ProviderProgress, TwilioStatus
<1>4. MaintenanceStep => UNCHANGED runVars
    BY DEF MaintenanceStep, LeaseExpires, PurgeAttempts, RecoverStaleMessageJobs,
           CancelSuppressedQueuedJobs
<1> QED BY <1>1, <1>2, <1>3, <1>4 DEF Next, WorkerStep, vars

LEMMA NextHolders == TypeOK /\ HoldersFinite /\ [Next]_vars => HoldersFinite'
<1> SUFFICES ASSUME TypeOK, HoldersFinite, [Next]_vars, NEW j \in Jobs
             PROVE  IsFiniteSet(PermitHolders(j)')
    BY DEF HoldersFinite
<1>1. IsFiniteSet(PermitHolders(j))
    BY DEF HoldersFinite
<1>2. \A w : /\ IsFiniteSet(PermitHolders(j) \cup {w})
             /\ IsFiniteSet(PermitHolders(j) \ {w})
    BY <1>1, FS_AddElement, FS_RemoveElement
<1>3. HoldersStay(j) \/ \E w \in Runs : HolderJoins(w, j) \/ HolderLeaves(w, j)
    <2>1. ASSUME NEW w \in Runs, RunStep(w)
          PROVE  HoldersStay(j) \/ HolderJoins(w, j) \/ HolderLeaves(w, j)
        <3>1. CASE MarkSending(w)
            <4>1. cur[w] \in Jobs
                BY <3>1 DEF MarkSending, TypeOK, AtJob
            <4> QED BY <3>1, <4>1, MarkSendingHolders
        <3>2. CASE KeepsPermit(w)
            BY <3>2, KeepsPermitHolders
        <3>3. CASE EndsPermit(w)
            BY <3>3, EndsPermitHolders
        <3> QED BY <2>1, <3>1, <3>2, <3>3, RunStepPermits
    <2> QED BY <2>1, OtherStepHolders
<1> QED BY <1>1, <1>2, <1>3 DEF HoldersStay, HolderJoins, HolderLeaves

\* How the abstract view of one job may change in a step.
SameView(j) ==
    /\ PermitsGranted'[j] = PermitsGranted[j]
    /\ PermitsLeft'[j] = PermitsLeft[j]
    /\ TimesHandedOver'[j] = TimesHandedOver[j]

LostView(j) ==
    /\ PermitsLeft[j] > 0
    /\ PermitsGranted'[j] = PermitsGranted[j]
    /\ PermitsLeft'[j] = PermitsLeft[j] - 1
    /\ TimesHandedOver'[j] = TimesHandedOver[j]

GrantedView(j) ==
    /\ PermitsGranted'[j] = PermitsGranted[j] + 1
    /\ PermitsLeft'[j] = PermitsLeft[j] + 1
    /\ TimesHandedOver'[j] = TimesHandedOver[j]

DeliveredView(j) ==
    /\ PermitsLeft[j] > 0
    /\ PermitsGranted'[j] = PermitsGranted[j]
    /\ PermitsLeft'[j] = PermitsLeft[j] - 1
    /\ TimesHandedOver'[j] = TimesHandedOver[j] + 1

AuthorisedStep == [Authorised!Next]_(Authorised!vars)

LEMMA ViewFunctions ==
    /\ PermitsGranted = [j \in Jobs |-> PermitsGranted[j]]
    /\ PermitsLeft = [j \in Jobs |-> PermitsLeft[j]]
    /\ TimesHandedOver = [j \in Jobs |-> TimesHandedOver[j]]
    /\ PermitsGranted' = [j \in Jobs |-> PermitsGranted'[j]]
    /\ PermitsLeft' = [j \in Jobs |-> PermitsLeft'[j]]
    /\ TimesHandedOver' = [j \in Jobs |-> TimesHandedOver'[j]]
BY DEF PermitsGranted, PermitsLeft, TimesHandedOver

LEMMA QuietViews ==
    ASSUME \A j \in Jobs : SameView(j) \/ LostView(j)
    PROVE  AuthorisedStep
<1> DEFINE group == {j \in Jobs : LostView(j)}
<1>1. Authorised!Forfeit(group)
    <2>1. \A j \in group : PermitsLeft[j] > 0
        BY DEF LostView
    <2>2. PermitsGranted' = PermitsGranted /\ TimesHandedOver' = TimesHandedOver
        BY ViewFunctions DEF SameView, LostView
    <2>3. PermitsLeft' =
              [j \in Jobs |-> IF j \in group THEN PermitsLeft[j] - 1 ELSE PermitsLeft[j]]
        BY ViewFunctions DEF SameView, LostView
    <2> QED BY <2>1, <2>2, <2>3 DEF Authorised!Forfeit
<1> QED BY <1>1 DEF AuthorisedStep, Authorised!Next

LEMMA GrantViews ==
    ASSUME NEW k \in Jobs, GrantedView(k), \A j \in Jobs \ {k} : SameView(j)
    PROVE  AuthorisedStep
<1>1. /\ PermitsGranted' = [PermitsGranted EXCEPT ![k] = @ + 1]
      /\ PermitsLeft' = [PermitsLeft EXCEPT ![k] = @ + 1]
      /\ TimesHandedOver' = TimesHandedOver
    BY ViewFunctions DEF GrantedView, SameView
<1>2. Authorised!Grant(k)
    BY <1>1 DEF Authorised!Grant
<1> QED BY <1>2 DEF AuthorisedStep, Authorised!Next

LEMMA DeliverViews ==
    ASSUME NEW k \in Jobs, DeliveredView(k), \A j \in Jobs \ {k} : SameView(j)
    PROVE  AuthorisedStep
<1>1. /\ PermitsLeft[k] > 0
      /\ PermitsGranted' = PermitsGranted
      /\ PermitsLeft' = [PermitsLeft EXCEPT ![k] = @ - 1]
      /\ TimesHandedOver' = [TimesHandedOver EXCEPT ![k] = @ + 1]
    BY ViewFunctions DEF DeliveredView, SameView
<1>2. Authorised!Deliver(k)
    BY <1>1 DEF Authorised!Deliver
<1> QED BY <1>2 DEF AuthorisedStep, Authorised!Next

LEMMA HandedOverFinite == \A j : IsFiniteSet(HandedOver(j))
<1>1. IsFiniteSet(AttemptNumbers)
    BY OutboxConstants, FS_Interval DEF AttemptNumbers
<1> QED BY <1>1, FS_Subset DEF HandedOver

\* A view's numbers in terms of the holders and of what is in the queue.
Queued(j) == IF status[j] \in Pending THEN 1 ELSE 0
HandOversSame(j) == HandedOver(j)' = HandedOver(j)
GrantsSame(j) ==
    /\ retriedAt'[j] = retriedAt[j]
    /\ status[j] = "absent" <=> status'[j] = "absent"

LEMMA ViewNumbers ==
    ASSUME TypeOK, HoldersFinite, NEW j \in Jobs
    PROVE  /\ PermitsLeft[j] = Cardinality(PermitHolders(j)) + Queued(j)
           /\ PermitsLeft'[j] = Cardinality(PermitHolders(j)') + Queued(j)'
           /\ Cardinality(PermitHolders(j)) \in Nat
           /\ GrantsSame(j) => PermitsGranted'[j] = PermitsGranted[j]
           /\ HandOversSame(j) => TimesHandedOver'[j] = TimesHandedOver[j]
<1>1. Cardinality(PermitHolders(j)) \in Nat
    BY FS_CardinalityType DEF HoldersFinite
<1> QED BY <1>1 DEF PermitsLeft, PermitsGranted, TimesHandedOver, Queued, GrantsSame, HandOversSame

\* The holders stay and the job does not enter the queue.
LEMMA FadingView ==
    ASSUME TypeOK, HoldersFinite, NEW j \in Jobs, HoldersStay(j), HandOversSame(j), GrantsSame(j),
           status'[j] \in Pending => status[j] \in Pending
    PROVE  SameView(j) \/ LostView(j)
BY ViewNumbers DEF SameView, LostView, Queued, HoldersStay

LEMMA StayingView ==
    ASSUME TypeOK, HoldersFinite, NEW j \in Jobs, HoldersStay(j), HandOversSame(j), GrantsSame(j),
           status'[j] \in Pending <=> status[j] \in Pending
    PROVE  SameView(j)
BY ViewNumbers DEF SameView, Queued, HoldersStay

LEMMA LeavingCount ==
    ASSUME TypeOK, HoldersFinite, NEW j \in Jobs, NEW w, HolderLeaves(w, j)
    PROVE  Cardinality(PermitHolders(j)') = Cardinality(PermitHolders(j)) - 1
BY FS_RemoveElement DEF HoldersFinite, HolderLeaves

LEMMA LeavingPositive ==
    ASSUME TypeOK, HoldersFinite, NEW j \in Jobs, NEW w, HolderLeaves(w, j)
    PROVE  Cardinality(PermitHolders(j)) > 0
<1>1. IsFiniteSet(PermitHolders(j)) /\ PermitHolders(j) # {}
    BY DEF HoldersFinite, HolderLeaves
<1>2. Cardinality(PermitHolders(j)) \in Nat /\ Cardinality(PermitHolders(j)) # 0
    BY <1>1, FS_CardinalityType, FS_EmptySet
<1> QED BY <1>2

LEMMA JoiningCount ==
    ASSUME TypeOK, HoldersFinite, NEW j \in Jobs, NEW w, HolderJoins(w, j)
    PROVE  Cardinality(PermitHolders(j)') = Cardinality(PermitHolders(j)) + 1
BY FS_AddElement DEF HoldersFinite, HolderJoins

\* A hand-over of an attempt happens in ProviderAccepts and nowhere else.
LEMMA HandedOverStays ==
    ASSUME TypeOK, [Next]_vars, NEW j \in Jobs,
           ~\E w \in Runs, answer \in RunPhase : ProviderAccepts(w, answer)
    PROVE  HandOversSame(j)
<1>1. CASE UNCHANGED provider
    BY <1>1 DEF HandOversSame, HandedOver
<1>2. ASSUME NEW k \in Jobs, NEW m \in AttemptNumbers, NEW s \in ProviderStatus,
             ProviderProgress(k, m, s)
      PROVE  HandOversSame(j)
    <2>1. \A n \in AttemptNumbers :
              provider'[j][n] = IF j = k /\ n = m THEN s ELSE provider[j][n]
        BY <1>2 DEF ProviderProgress, TypeOK
    <2>2. s # "none" /\ provider[k][m] # "none"
        BY <1>2 DEF ProviderProgress, ProviderStatus
    <2> QED BY <2>1, <2>2 DEF HandOversSame, HandedOver
<1>3. ASSUME NEW w \in Runs, RunStep(w)
      PROVE  UNCHANGED provider
    BY <1>3
    DEF RunStep, CancelMessageJob, RenderFails, MarkSending, ClaimLost, ProviderRejects,
        MarkAccepted, AcceptanceNotRecorded, MarkDeliveryUnknown, FailMessageJob, EndRun, Crash,
        StopRun, Recheck
<1>4. ASSUME WebStep
      PROVE  \/ UNCHANGED provider
             \/ \E k \in Jobs, m \in AttemptNumbers, s \in ProviderStatus :
                   ProviderProgress(k, m, s)
    BY <1>4
    DEF WebStep, Enqueue, RecordPermanentBounce, RetryDeadOrFailedJob, Suppress, Unsuppress,
        CloseCampaign, ReopenCampaign, TwilioStatus
<1>5. UNCHANGED provider \/ WebStep \/ \E w \in Runs : RunStep(w)
    BY DEF Next, WorkerStep, MaintenanceStep, ClaimMessageJobs, LeaseExpires, PurgeAttempts,
           RecoverStaleMessageJobs, CancelSuppressedQueuedJobs, vars
<1> QED BY <1>1, <1>2, <1>3, <1>4, <1>5

\* A job becomes one by being queued; a callback finds no job that is absent.
LEMMA AbsentEffect ==
    ASSUME TypeOK, StepInv, OpenInv, [Next]_vars, NEW j \in Jobs
    PROVE  /\ status'[j] = "absent" => status[j] = "absent"
           /\ status[j] = "absent" => status'[j] \in {"absent", "queued"}
<1>1. ASSUME NEW n \in AttemptNumbers, NEW s \in ProviderStatus, Reported(j, n, s)
      PROVE  status[j] # "absent" /\ status'[j] # "absent"
    <2>1. n \in HandedOver(j)
        BY <1>1 DEF Reported, Emitted, HandedOver, ProviderStatus
    <2>2. n <= attempts[j]
        BY <2>1 DEF OpenInv, OpenAttemptsInOrder, Open
    <2>3. n > 0 /\ attempts[j] \in Nat /\ n \in Nat
        BY OutboxConstants DEF AttemptNumbers, TypeOK
    <2>4. status[j] # "absent"
        BY <2>2, <2>3 DEF StepInv, AttemptsInStep
    <2> QED BY <1>1, <2>4 DEF Reported, StatusAfter
<1>2. CASE \E n \in AttemptNumbers, s \in ProviderStatus : Reported(j, n, s)
    BY <1>1, <1>2
<1>3. CASE ~\E n \in AttemptNumbers, s \in ProviderStatus : Reported(j, n, s)
    BY <1>3, NextEffect
    DEF EffectOn, Untouched, Moved, SettledWithoutAnswer, Claimed, Acknowledged, Bounced, Retried,
        Claimable, Pending
<1> QED BY <1>2, <1>3

\* Outside a run's steps, a job enters the queue by an insert or a retry only.
LEMMA OtherStepFades ==
    ASSUME TypeOK, [Next]_vars, ~\E w \in Runs : RunStep(w),
           ~\E k \in Jobs : Enqueue(k) \/ RetryDeadOrFailedJob(k), NEW j \in Jobs
    PROVE  /\ retriedAt'[j] = retriedAt[j]
           /\ status'[j] \in Pending => status[j] \in Pending
<1> USE DEF Pending
<1>1. ASSUME NEW w \in Runs, NEW batch \in SUBSET Jobs, ClaimMessageJobs(w, batch)
      PROVE  UNCHANGED retriedAt /\ (status'[j] \in Pending => status[j] \in Pending)
    BY <1>1 DEF ClaimMessageJobs, Claimable
<1>2. ASSUME NEW group, CancelPending(group)
      PROVE  status'[j] \in Pending => status[j] \in Pending
    BY <1>2 DEF CancelPending
<1>3. ASSUME NEW k \in Jobs, RecordPermanentBounce(k)
      PROVE  UNCHANGED retriedAt /\ (status'[j] \in Pending => status[j] \in Pending)
    BY <1>3 DEF RecordPermanentBounce
<1>4. ASSUME NEW k \in Jobs, NEW n \in AttemptNumbers, NEW s \in ProviderStatus,
             TwilioStatus(k, n, s)
      PROVE  UNCHANGED retriedAt /\ (status'[j] \in Pending => status[j] \in Pending)
    BY <1>4 DEF TwilioStatus, StatusAfter, TypeOK
<1>5. CASE RecoverStaleMessageJobs
    BY <1>5 DEF RecoverStaleMessageJobs, RecoveredStatus, Stale
<1>6. CASE UNCHANGED <<status, retriedAt>>
    BY <1>6
<1>7. CASE WebStep
    <2>1. ASSUME NEW d \in Destinations, Suppress(d) \/ Unsuppress(d)
          PROVE  UNCHANGED retriedAt /\ (status'[j] \in Pending => status[j] \in Pending)
        BY <1>2, <2>1 DEF Suppress, Unsuppress, jobVars
    <2>2. ASSUME NEW c \in Campaigns, CloseCampaign(c) \/ ReopenCampaign(c)
          PROVE  UNCHANGED retriedAt /\ (status'[j] \in Pending => status[j] \in Pending)
        BY <1>2, <2>2 DEF CloseCampaign, ReopenCampaign, jobVars
    <2>3. ASSUME NEW k \in Jobs, NEW n \in AttemptNumbers, NEW s \in ProviderStatus,
                 ProviderProgress(k, n, s)
          PROVE  UNCHANGED <<status, retriedAt>>
        BY <2>3 DEF ProviderProgress, jobVars
    <2> QED BY <1>3, <1>4, <1>6, <1>7, <2>1, <2>2, <2>3 DEF WebStep
<1>8. CASE MaintenanceStep
    <2>1. ASSUME NEW k \in Jobs, LeaseExpires(k) \/ PurgeAttempts(k)
          PROVE  UNCHANGED <<status, retriedAt>>
        BY <2>1 DEF LeaseExpires, PurgeAttempts
    <2> QED BY <1>2, <1>5, <1>6, <1>8, <2>1 DEF MaintenanceStep, CancelSuppressedQueuedJobs
<1> QED BY <1>1, <1>6, <1>7, <1>8 DEF Next, WorkerStep, vars, jobVars

LEMMA OtherStepRefines ==
    ASSUME TypeOK, StepInv, OpenInv, RefinementInv, [Next]_vars, ~\E w \in Runs : RunStep(w)
    PROVE  AuthorisedStep
<1>1. \A j \in Jobs : HoldersStay(j)
    BY OtherStepHolders
<1>2. \A j \in Jobs : HandOversSame(j)
    BY HandedOverStays DEF RunStep
<1>3. HoldersFinite
    BY DEF RefinementInv
<1>4. ASSUME NEW k \in Jobs, Enqueue(k) PROVE AuthorisedStep
    <2>1. /\ status[k] = "absent" /\ status'[k] = "queued"
          /\ retriedAt'[k] = retriedAt[k] /\ retriedAt[k] = <<>>
        BY <1>4 DEF Enqueue, TypeOK, RefinementInv, AbsentIsNew
    <2>2. PermitsGranted[k] = 0 /\ PermitsGranted'[k] = 1
        BY <2>1 DEF PermitsGranted
    <2>3. GrantedView(k)
        BY <1>1, <1>2, <1>3, <2>1, <2>2, ViewNumbers
        DEF GrantedView, Queued, Pending, HoldersStay
    <2>4. ASSUME NEW j \in Jobs \ {k} PROVE SameView(j)
        <3>1. status'[j] = status[j] /\ retriedAt'[j] = retriedAt[j]
            BY <1>4 DEF Enqueue, TypeOK
        <3> QED BY <1>1, <1>2, <1>3, <3>1, StayingView DEF GrantsSame
    <2> QED BY <2>3, <2>4, GrantViews
<1>5. ASSUME NEW k \in Jobs, RetryDeadOrFailedJob(k) PROVE AuthorisedStep
    <2>1. /\ status[k] \in {"failed", "dead"} /\ status'[k] = "queued"
          /\ retriedAt'[k] = Append(retriedAt[k], attempts[k])
        BY <1>5 DEF RetryDeadOrFailedJob, Settle, TypeOK
    <2>2. retriedAt[k] \in Seq(0..AttemptCap) /\ attempts[k] \in 0..AttemptCap
        BY DEF TypeOK
    <2>3. Len(retriedAt'[k]) = Len(retriedAt[k]) + 1 /\ Len(retriedAt[k]) \in Nat
        BY <2>1, <2>2
    <2>4. /\ PermitsGranted[k] = 1 + Len(retriedAt[k])
          /\ PermitsGranted'[k] = 1 + Len(retriedAt'[k])
        BY <2>1 DEF PermitsGranted
    <2>5. GrantedView(k)
        BY <1>1, <1>2, <1>3, <2>1, <2>3, <2>4, ViewNumbers
        DEF GrantedView, Queued, Pending, HoldersStay
    <2>6. ASSUME NEW j \in Jobs \ {k} PROVE SameView(j)
        <3>1. status'[j] = status[j] /\ retriedAt'[j] = retriedAt[j]
            BY <1>5 DEF RetryDeadOrFailedJob, Settle, TypeOK
        <3> QED BY <1>1, <1>2, <1>3, <3>1, StayingView DEF GrantsSame
    <2> QED BY <2>5, <2>6, GrantViews
<1>6. CASE ~\E k \in Jobs : Enqueue(k) \/ RetryDeadOrFailedJob(k)
    <2>1. ASSUME NEW j \in Jobs PROVE SameView(j) \/ LostView(j)
        <3>1. retriedAt'[j] = retriedAt[j] /\ (status'[j] \in Pending => status[j] \in Pending)
            BY <1>6, OtherStepFades
        <3>2. GrantsSame(j)
            BY <3>1, AbsentEffect DEF GrantsSame, Pending
        <3> QED BY <1>1, <1>2, <1>3, <3>1, <3>2, FadingView
    <2> QED BY <2>1, QuietViews
<1> QED BY <1>4, <1>5, <1>6

\* A run's steps retry nothing, and only a failed attempt enters the queue.
LEMMA RunStepGrants ==
    ASSUME TypeOK, StepInv, OpenInv, [Next]_vars, NEW w \in Runs, RunStep(w), NEW j \in Jobs
    PROVE  /\ GrantsSame(j)
           /\ ~(FailMessageJob(w) /\ pc[w] = "retryable") =>
                 (status'[j] \in Pending => status[j] \in Pending)
<1> USE DEF Pending
<1>0. pc[w] \in AtJob => cur[w] \in Jobs
    BY DEF TypeOK
<1>1. retriedAt' = retriedAt
    BY DEF RunStep, CancelMessageJob, RenderFails, MarkSending, ClaimLost, ProviderAccepts,
           ProviderRejects, MarkAccepted, AcceptanceNotRecorded, MarkDeliveryUnknown,
           FailMessageJob, EndRun, Crash, StopRun, Recheck
<1>2. status'[j] = status[j] \/ status'[j] \notin {"absent", "queued"}
    <2>1. CASE CancelMessageJob(w)
        BY <1>0, <2>1 DEF CancelMessageJob, Settle, AtJob, TypeOK
    <2>2. CASE MarkSending(w)
        BY <1>0, <2>2 DEF MarkSending, AtJob, TypeOK
    <2>3. CASE MarkAccepted(w)
        BY <1>0, <2>3 DEF MarkAccepted, Settle, Owns, AtJob, TypeOK
    <2>4. CASE MarkDeliveryUnknown(w)
        BY <1>0, <2>4 DEF MarkDeliveryUnknown, Settle, AtJob, TypeOK
    <2>5. CASE FailMessageJob(w)
        BY <1>0, <2>5 DEF FailMessageJob, FailureStatus, Settle, AtJob, TypeOK
    <2>6. CASE UNCHANGED status
        BY <2>6
    <2> QED BY <2>1, <2>2, <2>3, <2>4, <2>5, <2>6
            DEF RunStep, RenderFails, ClaimLost, ProviderAccepts, ProviderRejects,
                AcceptanceNotRecorded, EndRun, Crash, StopRun, Recheck, jobVars
<1>3. ASSUME ~(FailMessageJob(w) /\ pc[w] = "retryable")
      PROVE  status'[j] \in Pending => status[j] \in Pending
    <2>1. CASE CancelMessageJob(w)
        BY <1>0, <2>1 DEF CancelMessageJob, Settle, AtJob, TypeOK
    <2>2. CASE MarkSending(w)
        BY <1>0, <2>2 DEF MarkSending, AtJob, TypeOK
    <2>3. CASE MarkAccepted(w)
        BY <1>0, <2>3 DEF MarkAccepted, Settle, Owns, AtJob, TypeOK
    <2>4. CASE MarkDeliveryUnknown(w)
        BY <1>0, <2>4 DEF MarkDeliveryUnknown, Settle, AtJob, TypeOK
    <2>5. CASE FailMessageJob(w)
        BY <1>0, <1>3, <2>5 DEF FailMessageJob, FailureStatus, Settle, AtJob, TypeOK
    <2>6. CASE UNCHANGED status
        BY <2>6
    <2> QED BY <2>1, <2>2, <2>3, <2>4, <2>5, <2>6
            DEF RunStep, RenderFails, ClaimLost, ProviderAccepts, ProviderRejects,
                AcceptanceNotRecorded, EndRun, Crash, StopRun, Recheck, jobVars
<1> QED BY <1>1, <1>2, <1>3, AbsentEffect DEF GrantsSame

LEMMA MarkSendingRefines ==
    ASSUME TypeOK, StepInv, OpenInv, RefinementInv, [Next]_vars, NEW w \in Runs, MarkSending(w)
    PROVE  AuthorisedStep
<1>1. PICK k \in Jobs : cur[w] = k
    BY DEF MarkSending, TypeOK, AtJob
<1>2. RunStep(w) /\ HoldersFinite
    BY DEF RunStep, RefinementInv
<1>3. HolderJoins(w, k) /\ \A j \in Jobs \ {k} : HoldersStay(j)
    BY <1>1, MarkSendingHolders
<1>4. ASSUME NEW j \in Jobs PROVE HandOversSame(j) /\ GrantsSame(j)
    BY <1>2, RunStepGrants DEF MarkSending, HandOversSame, HandedOver
<1>5. SameView(k)
    <2>1. status[k] = "leased" /\ status'[k] = "sending"
        BY <1>1 DEF MarkSending, Owns, TypeOK
    <2>2. Queued(k) = 1 /\ Queued(k)' = 0
        BY <2>1 DEF Queued, Pending
    <2> QED BY <1>2, <1>3, <1>4, <2>2, ViewNumbers, JoiningCount DEF SameView
<1>6. ASSUME NEW j \in Jobs \ {k} PROVE SameView(j)
    <2>1. status'[j] = status[j]
        BY <1>1 DEF MarkSending, TypeOK
    <2> QED BY <1>2, <1>3, <1>4, <2>1, StayingView
<1> QED BY <1>5, <1>6, QuietViews

LEMMA KeepsPermitRefines ==
    ASSUME TypeOK, StepInv, OpenInv, RefinementInv, [Next]_vars, NEW w \in Runs, RunStep(w),
           KeepsPermit(w), ~\E v \in Runs, answer \in RunPhase : ProviderAccepts(v, answer)
    PROVE  AuthorisedStep
<1>1. HoldersFinite /\ \A j \in Jobs : HoldersStay(j)
    BY KeepsPermitHolders DEF RefinementInv
<1>2. \A j \in Jobs : HandOversSame(j)
    BY HandedOverStays
<1>3. ~(FailMessageJob(w) /\ pc[w] = "retryable")
    BY DEF KeepsPermit, CancelMessageJob, RenderFails, ClaimLost, MarkAccepted,
           AcceptanceNotRecorded, MarkDeliveryUnknown, EndRun, Recheck, ProviderRejects
<1> QED BY <1>1, <1>2, <1>3, RunStepGrants, FadingView, QuietViews

LEMMA EndsPermitRefines ==
    ASSUME TypeOK, StepInv, OpenInv, RefinementInv, [Next]_vars, NEW w \in Runs, RunStep(w),
           EndsPermit(w)
    PROVE  AuthorisedStep
<1>0. HoldersFinite
    BY DEF RefinementInv
<1>1. PICK k \in Jobs : cur[w] = k
    BY EndsPermitHolders
<1>2. HolderLeaves(w, k) /\ \A j \in Jobs \ {k} : HoldersStay(j)
    BY <1>1, EndsPermitHolders
<1>3. \A j \in Jobs : GrantsSame(j)
    BY RunStepGrants
<1>4. /\ Cardinality(PermitHolders(k)') = Cardinality(PermitHolders(k)) - 1
      /\ Cardinality(PermitHolders(k)) > 0
    BY <1>0, <1>2, LeavingCount, LeavingPositive
<1>5. \A j \in Jobs \ {k} : status'[j] = status[j]
    BY <1>1 DEF EndsPermit, ProviderRejects, ProviderAccepts, Crash, StopRun, jobVars,
                FailMessageJob, Settle, TypeOK
<1>6. ASSUME NEW answer \in RunPhase, ProviderAccepts(w, answer) PROVE AuthorisedStep
    <2> DEFINE n == attempt[w]
    <2>1. n \in AttemptNumbers
        BY <1>6, OutboxConstants
        DEF ProviderAccepts, TypeOK, AttemptNumbers, StepInv, RunsInStep
    <2>2. InHand(w, k, n)
        BY <1>1, <1>6 DEF InHand, ProviderAccepts
    <2>3. n \notin HandedOver(k)
        BY <2>1, <2>2 DEF OpenInv, InHandUnresolved
    <2>4. \A j \in Jobs, m \in AttemptNumbers :
              provider'[j][m] =
                  IF j = k /\ m = n THEN SendStatus(k) ELSE provider[j][m]
        BY <1>1, <1>6, <2>1 DEF ProviderAccepts, TypeOK
    <2>5. SendStatus(k) # "none"
        BY SendStatusType DEF ProviderStatus
    <2>6. HandedOver(k)' = HandedOver(k) \cup {n}
        BY <2>1, <2>4, <2>5 DEF HandedOver
    <2>7. Cardinality(HandedOver(k)') = Cardinality(HandedOver(k)) + 1
        <3> HIDE DEF n
        <3> QED BY <2>3, <2>6, HandedOverFinite, FS_AddElement
    <2>8. status' = status
        BY <1>6 DEF ProviderAccepts, jobVars
    <2>9. DeliveredView(k)
        BY <1>0, <1>3, <1>4, <2>7, <2>8, ViewNumbers DEF DeliveredView, TimesHandedOver, Queued
    <2>10. ASSUME NEW j \in Jobs \ {k} PROVE SameView(j)
        <3>1. HandOversSame(j)
            BY <2>4 DEF HandOversSame, HandedOver
        <3> QED BY <1>0, <1>2, <1>3, <2>8, <3>1, StayingView
    <2> QED BY <2>9, <2>10, DeliverViews
<1>7. ASSUME ~\E answer \in RunPhase : ProviderAccepts(w, answer) PROVE AuthorisedStep
    <2>1. provider' = provider
        BY <1>7 DEF EndsPermit, ProviderRejects, Crash, StopRun, FailMessageJob
    <2>2. \A j \in Jobs : HandOversSame(j)
        BY <2>1 DEF HandOversSame, HandedOver
    <2>3. \A j \in Jobs \ {k} : SameView(j)
        BY <1>0, <1>2, <1>3, <1>5, <2>2, StayingView
    <2>4. Queued(k)' = Queued(k) \/ (Queued(k) = 0 /\ Queued(k)' = 1)
        <3>1. CASE FailMessageJob(w)
            <4>1. pc[w] = "retryable"
                BY <1>2, <3>1 DEF HolderLeaves, PermitHolders, FailMessageJob
            <4>2. owner[k] = w => status[k] # "leased"
                BY <1>1, <4>1 DEF StepInv, RunsInStep, ClaimsInStep
            <4>3. status'[k] = status[k] \/ status[k] = "sending"
                BY <1>1, <3>1, <4>2 DEF FailMessageJob, Owns
            <4> QED BY <4>3 DEF Queued, Pending
        <3>2. CASE ~FailMessageJob(w)
            BY <1>7, <3>2 DEF EndsPermit, ProviderRejects, Crash, StopRun, jobVars, Queued
        <3> QED BY <3>1, <3>2
    <2>5. SameView(k) \/ LostView(k)
        BY <1>0, <1>3, <1>4, <2>2, <2>4, ViewNumbers DEF SameView, LostView, Queued
    <2> QED BY <2>3, <2>5, QuietViews
<1> QED BY <1>6, <1>7

LEMMA NextRefines ==
    TypeOK /\ StepInv /\ OpenInv /\ RefinementInv /\ [Next]_vars => AuthorisedStep
<1> SUFFICES ASSUME TypeOK, StepInv, OpenInv, RefinementInv, [Next]_vars PROVE AuthorisedStep
    OBVIOUS
<1>1. CASE ~\E w \in Runs : RunStep(w)
    BY <1>1, OtherStepRefines
<1>2. ASSUME NEW w \in Runs, RunStep(w) PROVE AuthorisedStep
    <2>1. CASE MarkSending(w)
        BY <2>1, MarkSendingRefines
    <2>2. CASE EndsPermit(w)
        BY <1>2, <2>2, EndsPermitRefines
    <2>3. CASE KeepsPermit(w) /\ ~\E v \in Runs, answer \in RunPhase : ProviderAccepts(v, answer)
        BY <1>2, <2>3, KeepsPermitRefines
    <2>4. ASSUME NEW v \in Runs, NEW answer \in RunPhase, ProviderAccepts(v, answer)
          PROVE  AuthorisedStep
        <3>1. RunStep(v) /\ EndsPermit(v)
            BY <2>4 DEF RunStep, EndsPermit
        <3> QED BY <3>1, EndsPermitRefines
    <2> QED BY <1>2, <2>1, <2>2, <2>3, <2>4, RunStepPermits
<1> QED BY <1>1, <1>2

LEMMA InitRefines == Init => Authorised!Init
<1> SUFFICES ASSUME Init PROVE Authorised!Init
    OBVIOUS
<1>1. \A j \in Jobs : PermitHolders(j) = {} /\ HandedOver(j) = {}
    BY DEF Init, PermitHolders, HandedOver
<1>2. \A j \in Jobs : Cardinality(PermitHolders(j)) = 0 /\ Cardinality(HandedOver(j)) = 0
    BY <1>1, FS_EmptySet
<1>3. ASSUME NEW j \in Jobs
      PROVE  PermitsGranted[j] \in {0, 1} /\ PermitsLeft[j] = PermitsGranted[j]
    BY <1>2 DEF Init, PermitsGranted, PermitsLeft, Pending
<1>4. TimesHandedOver = [j \in Jobs |-> 0]
    BY <1>2 DEF TimesHandedOver
<1> QED BY <1>3, <1>4, ViewFunctions DEF Authorised!Init

\* The outbox implements AuthorisedDelivery: read through PermitsGranted, PermitsLeft and
\* TimesHandedOver, every behaviour of workers, recovery, callbacks and web requests hands a
\* message to a provider only against a permit that an insert or an administrator issued.
THEOREM OutboxImplementsAuthorisedDelivery == Spec => ImplementsAuthorisedDelivery
<1>1. Spec => []RefinementInv
    <2>1. TypeOK /\ RefinementInv /\ [Next]_vars => RefinementInv'
        BY NextAbsent, NextHolders DEF RefinementInv
    <2> QED BY <2>1, InitRefinement, TypeCorrect, PTL DEF Spec
<1>2. ResendInv /\ RefinementInv /\ [Next]_vars => [Authorised!Next]_(Authorised!vars)
    BY NextRefines DEF AuthorisedStep, ResendInv
<1> QED BY <1>1, <1>2, InitRefines, ResendInvariant, PTL
        DEF Spec, ImplementsAuthorisedDelivery, Authorised!Spec

================================================================================
