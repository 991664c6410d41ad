---------------------------- MODULE EventQueueProofs ----------------------------
(***************************************************************************)
(* What every operation of EventQueue preserves, for the proofs about the  *)
(* modules that extend it.                                                 *)
(***************************************************************************)
EXTENDS EventQueue, TLAPS

\* RetryBudget with what makes it inductive: a new or deleted row starts from zero.
QueueInv ==
    /\ QueueTypeOK
    /\ RetryBudget
    /\ \A e \in Events : status[e] = "absent" => attempts[e] = 0

\* What OnlyTheHolderSettles says of one step.
HolderStep ==
    \A e \in Events :
        /\ status[e] = "completed" => status'[e] \in {"completed", "absent"}
        /\ status[e] = "leased" /\ lease[e] = "live" /\ status'[e] # "leased" =>
              cur[owner[e]] = e

LEMMA QueueInitInv == QueueInit => QueueInv
BY QueueConstants
DEF QueueInit, QueueInv, QueueTypeOK, RetryBudget, EventStatus, EventResult

LEMMA StatusAfterFailureBudget ==
    ASSUME QueueInv, NEW e \in Events
    PROVE  /\ StatusAfterFailure(e) \in {"dead", "retry"}
           /\ StatusAfterFailure(e) = "dead" => attempts[e] = MaxAttempts
           /\ StatusAfterFailure(e) = "retry" => attempts[e] < MaxAttempts
<1>1. attempts[e] \in Nat /\ MaxAttempts \in Nat /\ attempts[e] <= MaxAttempts
    BY QueueConstants DEF QueueInv, QueueTypeOK, RetryBudget
<1> QED BY <1>1 DEF StatusAfterFailure

LEMMA StoreInv ==
    ASSUME QueueInv, NEW e \in Events, StoreInboundEvent(e)
    PROVE  QueueInv' /\ HolderStep
<1>1. 0 < MaxAttempts
    BY QueueConstants
<1> QED
    BY <1>1 DEF QueueInv, QueueTypeOK, RetryBudget, StoreInboundEvent, EventStatus, runVars,
                HolderStep

LEMMA ClaimInv ==
    ASSUME QueueInv, NEW w \in Runs, NEW batch \in SUBSET Events,
           ClaimInboundEvents(w, batch)
    PROVE  QueueInv' /\ HolderStep
<1>1. QueueTypeOK'
    BY DEF QueueInv, QueueTypeOK, ClaimInboundEvents, EventStatus
<1>2. ASSUME NEW e \in Events
      PROVE  /\ attempts'[e] <= MaxAttempts
             /\ status'[e] \in {"queued", "retry"} => attempts'[e] < MaxAttempts
             /\ status'[e] = "dead" => attempts'[e] = MaxAttempts
             /\ status'[e] = "absent" => attempts'[e] = 0
    <2>1. attempts[e] \in Nat /\ MaxAttempts \in Nat
        BY QueueConstants DEF QueueInv, QueueTypeOK
    <2>2. CASE e \in batch
        <3>1. attempts[e] < MaxAttempts
            BY <2>2 DEF QueueInv, RetryBudget, ClaimInboundEvents
        <3>2. attempts'[e] = attempts[e] + 1 /\ status'[e] = "leased"
            BY <2>2 DEF ClaimInboundEvents
        <3> QED BY <2>1, <3>1, <3>2
    <2>3. CASE e \notin batch
        BY <2>3 DEF QueueInv, RetryBudget, ClaimInboundEvents
    <2> QED BY <2>2, <2>3
<1>3. HolderStep
    BY DEF HolderStep, ClaimInboundEvents
<1> QED BY <1>1, <1>2, <1>3 DEF QueueInv, RetryBudget

LEMMA TakeInv ==
    ASSUME QueueInv, NEW w \in Runs, NEW e \in Events, NEW phase, Take(w, e, phase)
    PROVE  QueueInv' /\ HolderStep
BY DEF QueueInv, QueueTypeOK, RetryBudget, Take, queueVars, HolderStep

LEMMA BackToBatchInv ==
    ASSUME QueueInv, NEW w \in Runs, BackToBatch(w)
    PROVE  todo' \in [Runs -> SUBSET Events] /\ cur' \in [Runs -> Events \cup {None}]
BY DEF QueueInv, QueueTypeOK, BackToBatch

\* A row settled by its holder.
LEMMA SettleInv ==
    ASSUME QueueInv, NEW w \in Runs, NEW e \in Events, NEW new \in EventStatus \ {"absent"},
           NEW res \in EventResult,
           cur[w] = e, Owns(w, e), Settle(e, new, res),
           new \in {"queued", "retry"} => attempts[e] < MaxAttempts,
           new = "dead" => attempts[e] = MaxAttempts,
           BackToBatch(w), UNCHANGED <<attempts, purges>>
    PROVE  QueueInv' /\ HolderStep
<1>1. QueueTypeOK'
    BY BackToBatchInv DEF QueueInv, QueueTypeOK, Settle
<1>2. /\ RetryBudget'
      /\ \A f \in Events : status'[f] = "absent" => attempts'[f] = 0
    BY DEF QueueInv, QueueTypeOK, RetryBudget, Settle
<1>3. HolderStep
    BY DEF HolderStep, Settle, Owns, QueueInv, QueueTypeOK
<1> QED BY <1>1, <1>2, <1>3 DEF QueueInv

\* A settling step that found the row in other hands.
LEMMA LateInv ==
    ASSUME QueueInv, NEW w \in Runs, BackToBatch(w),
           UNCHANGED <<status, attempts, owner, lease, result, purges>>
    PROVE  QueueInv' /\ HolderStep
BY BackToBatchInv DEF QueueInv, QueueTypeOK, RetryBudget, HolderStep

LEMMA CompleteInv ==
    ASSUME QueueInv, NEW w \in Runs, cur[w] \in Events, NEW res \in EventResult,
           CompleteInboundEvent(w, res)
    PROVE  QueueInv' /\ HolderStep
<1>1. CASE Owns(w, cur[w])
    <2>1. PICK e \in Events : e = cur[w]
        OBVIOUS
    <2>2. /\ Owns(w, e) /\ Settle(e, "completed", res)
          /\ BackToBatch(w) /\ UNCHANGED <<attempts, purges>>
        BY <1>1, <2>1 DEF CompleteInboundEvent
    <2>3. "completed" \in EventStatus \ {"absent"}
        BY DEF EventStatus
    <2> QED BY <2>1, <2>2, <2>3, SettleInv
<1>2. CASE ~Owns(w, cur[w])
    BY <1>2, LateInv DEF CompleteInboundEvent
<1> QED BY <1>1, <1>2

LEMMA FailInv ==
    ASSUME QueueInv, NEW w \in Runs, cur[w] \in Events, NEW res \in EventResult,
           FailInboundEvent(w, res)
    PROVE  QueueInv' /\ HolderStep
<1>1. CASE Owns(w, cur[w])
    <2>1. PICK e \in Events : e = cur[w]
        OBVIOUS
    <2> DEFINE kept == IF res = None THEN result[e] ELSE res
    <2>2. /\ Owns(w, e) /\ Settle(e, StatusAfterFailure(e), kept)
          /\ BackToBatch(w) /\ UNCHANGED <<attempts, purges>>
        BY <1>1, <2>1 DEF FailInboundEvent
    <2>3. kept \in EventResult
        BY DEF QueueInv, QueueTypeOK
    <2>4. StatusAfterFailure(e) \in EventStatus \ {"absent", "queued"}
        BY StatusAfterFailureBudget DEF EventStatus
    <2> HIDE DEF kept
    <2> QED BY <2>1, <2>2, <2>3, <2>4, SettleInv, StatusAfterFailureBudget
<1>2. CASE ~Owns(w, cur[w])
    BY <1>2, LateInv DEF FailInboundEvent
<1> QED BY <1>1, <1>2

LEMMA StopRunInv ==
    ASSUME QueueInv, NEW w \in Runs, EndRun(w) \/ Crash(w)
    PROVE  QueueInv' /\ HolderStep
BY DEF QueueInv, QueueTypeOK, RetryBudget, EndRun, Crash, StopRun, queueVars, HolderStep

LEMMA LeaseExpiresInv ==
    ASSUME QueueInv, NEW e \in Events, LeaseExpires(e)
    PROVE  QueueInv' /\ HolderStep
BY DEF QueueInv, QueueTypeOK, RetryBudget, LeaseExpires, runVars, HolderStep

LEMMA RecoverInv ==
    ASSUME QueueInv, RecoverStaleEvents
    PROVE  QueueInv' /\ HolderStep
<1>1. \A e \in Events : StatusAfterFailure(e) \in EventStatus
    BY StatusAfterFailureBudget DEF EventStatus
<1>2. QueueTypeOK'
    BY <1>1 DEF QueueInv, QueueTypeOK, RecoverStaleEvents, runVars
<1>3. ASSUME NEW e \in Events
      PROVE  /\ attempts'[e] <= MaxAttempts
             /\ status'[e] \in {"queued", "retry"} => attempts'[e] < MaxAttempts
             /\ status'[e] = "dead" => attempts'[e] = MaxAttempts
             /\ status'[e] = "absent" => attempts'[e] = 0
    <2>1. attempts'[e] = attempts[e]
        BY DEF RecoverStaleEvents
    <2>2. CASE Stale(e)
        BY <2>1, <2>2, StatusAfterFailureBudget DEF RecoverStaleEvents, QueueInv, RetryBudget
    <2>3. CASE ~Stale(e)
        BY <2>1, <2>3 DEF RecoverStaleEvents, QueueInv, RetryBudget
    <2> QED BY <2>2, <2>3
<1>4. HolderStep
    BY DEF HolderStep, RecoverStaleEvents, Stale
<1> QED BY <1>2, <1>3, <1>4 DEF QueueInv, RetryBudget

LEMMA PurgeInv ==
    ASSUME QueueInv, NEW e \in Events, PurgeEvent(e)
    PROVE  QueueInv' /\ HolderStep
<1>1. QueueTypeOK'
    BY DEF QueueInv, QueueTypeOK, PurgeEvent, runVars, EventStatus, EventResult
<1>2. /\ RetryBudget'
      /\ \A f \in Events : status'[f] = "absent" => attempts'[f] = 0
    BY QueueConstants DEF QueueInv, QueueTypeOK, RetryBudget, PurgeEvent, EventStatus
<1>3. HolderStep
    BY DEF HolderStep, PurgeEvent, QueueInv, QueueTypeOK
<1> QED BY <1>1, <1>2, <1>3 DEF QueueInv

LEMMA QueueStepInv ==
    ASSUME QueueInv, QueueStep
    PROVE  QueueInv' /\ HolderStep
BY StoreInv, LeaseExpiresInv, PurgeInv, RecoverInv DEF QueueStep

\* A step that leaves the queue and the runs' lists alone.
LEMMA QueueUnchanged ==
    ASSUME QueueInv, UNCHANGED <<queueVars, todo, cur>>
    PROVE  QueueInv' /\ HolderStep
BY DEF QueueInv, QueueTypeOK, RetryBudget, queueVars, HolderStep
================================================================================
