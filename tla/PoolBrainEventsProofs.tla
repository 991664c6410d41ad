-------------------------- MODULE PoolBrainEventsProofs --------------------------
(***************************************************************************)
(* Theorems about PoolBrainEvents for every set of events, runs and alerts *)
(* and every value of the bounds.                                          *)
(***************************************************************************)
EXTENDS PoolBrainEvents, EventQueueProofs

\* Why CompletedIsHandled holds: a run has decided on every alert before its
\* position, and is done with a relayed event it still owns only after the confirmation.
DecidedBefore(w) ==
    \A i \in DOMAIN AlertsOf[cur[w]] : i < at[w] => Decided(AlertsOf[cur[w]][i])

RunProgress(w) ==
    /\ pc[w] \in {"idle", "batch"} => at[w] = 1
    /\ pc[w] \in {"alert", "clear", "stopped"} => cur[w] \notin Relayed /\ DecidedBefore(w)
    /\ pc[w] \in {"clear", "stopped"} => AlertsLeft(w)
    /\ pc[w] = "relay" => cur[w] \in Relayed
    /\ pc[w] = "done" => cur[w] \in Relayed /\ (Owns(w, cur[w]) => cur[w] \in confirmed)

Progress == \A w \in Runs : RunProgress(w)

\* Why NotifiedOnce holds: an alert without a row has no message yet.
Claims == \A a \in Alerts : outcome[a] = None => jobs[a] = 0

Inv == TypeOK /\ QueueInv /\ Progress /\ Claims /\ NotifiedOnce /\ CompletedIsHandled

\* What a step of the handler leaves for the proof of Inv'.
HandlerTypes ==
    /\ pc \in [Runs -> Phase]
    /\ \A w \in Runs : pc[w] \in AtEvent => cur[w] \in Events
    /\ at \in [Runs -> Nat \ {0}]
    /\ outcome \in [Alerts -> AlertStatus \cup {None}]
    /\ jobs \in [Alerts -> Nat]
    /\ suppressed \subseteq Phones
    /\ confirmed \subseteq Events

LEMMA TypeOKParts == TypeOK <=> QueueTypeOK /\ HandlerTypes
BY DEF TypeOK, HandlerTypes

\* Decisions are never taken back, confirmations only with the deletion of the event.
Monotone ==
    /\ \A a \in Alerts : outcome[a] # None => outcome'[a] # None
    /\ \A e \in confirmed : e \in confirmed' \/ status'[e] = "absent"

\* A run comes to own an event only with its one claim.
OwnersKept ==
    \A w \in Runs, e \in Events : Owns(w, e)' => Owns(w, e) \/ pc[w] = "idle"

LEMMA InitInv == Init => Inv
<1> SUFFICES ASSUME Init PROVE Inv
    OBVIOUS
<1>1. QueueInv
    BY QueueInitInv DEF Init
<1>2. HandlerTypes
    BY DEF Init, QueueInit, HandlerTypes, Phase, AtEvent
<1>3. Progress /\ Claims /\ NotifiedOnce /\ CompletedIsHandled
    BY DEF Init, QueueInit, Progress, RunProgress, Claims, NotifiedOnce, CompletedIsHandled
<1> QED BY <1>1, <1>2, <1>3, TypeOKParts DEF Inv, QueueInv

LEMMA AlertType ==
    ASSUME Inv, NEW w \in Runs, pc[w] \in AtEvent, AlertsLeft(w)
    PROVE  /\ cur[w] \in Events
           /\ at[w] \in DOMAIN AlertsOf[cur[w]]
           /\ Alert(w) \in Alerts
<1>1. cur[w] \in Events /\ at[w] \in Nat \ {0}
    BY DEF Inv, TypeOK
<1>2. PICK s \in Seq(Alerts) : s = AlertsOf[cur[w]]
    BY <1>1, AlertConstants
<1>3. at[w] \in 1..Len(s) /\ DOMAIN s = 1..Len(s)
    BY <1>1, <1>2 DEF AlertsLeft
<1> QED BY <1>1, <1>2, <1>3 DEF Alert

\* The parts of Inv that only need the decisions to stay.
LEMMA DecisionsStay ==
    ASSUME Inv, Monotone, NEW e \in Events, EventHandled(e), status'[e] # "absent"
    PROVE  EventHandled(e)'
<1>1. PICK s \in Seq(Alerts) : s = AlertsOf[e]
    BY AlertConstants
<1>2. \A i \in DOMAIN s : s[i] \in Alerts
    BY <1>1
<1> QED BY <1>1, <1>2 DEF Monotone, EventHandled, Decided

LEMMA CompletedStays ==
    ASSUME Inv, Monotone,
           \A e \in Events : status'[e] = "completed" =>
               status[e] = "completed" \/ EventHandled(e)
    PROVE  CompletedIsHandled'
BY DecisionsStay DEF Inv, CompletedIsHandled

LEMMA DecidedStays ==
    ASSUME Inv, Monotone, NEW w \in Runs, cur[w] \in Events, DecidedBefore(w),
           at'[w] = at[w], cur'[w] = cur[w]
    PROVE  DecidedBefore(w)'
<1>1. PICK s \in Seq(Alerts) : s = AlertsOf[cur[w]]
    BY AlertConstants
<1>2. \A i \in DOMAIN s : s[i] \in Alerts
    BY <1>1
<1> QED BY <1>1, <1>2 DEF DecidedBefore, Decided, Monotone

\* Runs that a step does not move keep their part of Progress.
LEMMA OthersProgress ==
    ASSUME Inv, OwnersKept, Monotone, NEW w \in Runs,
           pc'[w] = pc[w], at'[w] = at[w], cur'[w] = cur[w]
    PROVE  RunProgress(w)'
<1>1. RunProgress(w)
    BY DEF Inv, Progress
<1>2. pc[w] \in {"alert", "clear", "stopped"} => DecidedBefore(w)'
    <2>1. pc[w] \in {"alert", "clear", "stopped"} => cur[w] \in Events
        BY DEF Inv, TypeOK, AtEvent, Phase
    <2> QED BY <1>1, <2>1, DecidedStays DEF RunProgress
<1>3. AlertsLeft(w) => AlertsLeft(w)'
    BY DEF AlertsLeft
<1>4. pc[w] = "done" /\ Owns(w, cur[w])' => cur[w] \in confirmed'
    <2>1. pc[w] = "done" => cur[w] \in Events
        BY DEF Inv, TypeOK, AtEvent, Phase
    <2>2. Owns(w, cur[w])' => status'[cur[w]] = "leased"
        BY DEF Owns
    <2>3. pc[w] = "done" /\ Owns(w, cur[w])' => Owns(w, cur[w])
        BY <2>1 DEF OwnersKept, Owns
    <2> QED BY <1>1, <2>2, <2>3 DEF RunProgress, Monotone
<1> QED BY <1>1, <1>2, <1>3, <1>4 DEF RunProgress

\* The parts of Inv about the alerts, for a step that does not write them.
AlertsUntouched == UNCHANGED <<outcome, jobs, suppressed, confirmed>>

LEMMA AlertsUntouchedInv ==
    ASSUME Inv, AlertsUntouched
    PROVE  Monotone /\ Claims' /\ NotifiedOnce'
BY DEF Inv, AlertsUntouched, Monotone, Claims, NotifiedOnce

-------------------------------------------------------------------------------
(* Every step preserves Inv.                                               *)

LEMMA InvParts ==
    ASSUME QueueInv', HandlerTypes', Progress', Claims', NotifiedOnce', CompletedIsHandled'
    PROVE  Inv'
BY DEF Inv, QueueInv, TypeOK, HandlerTypes

LEMMA ClaimEventsInv ==
    ASSUME Inv, OwnersKept, NEW w \in Runs, NEW batch \in SUBSET Events, ClaimEvents(w, batch)
    PROVE  Inv' /\ HolderStep
<1>1. QueueInv' /\ HolderStep
    BY ClaimInv DEF Inv, ClaimEvents
<1>2. AlertsUntouched /\ at' = at /\ cur' = cur
    BY DEF ClaimEvents, ClaimInboundEvents, handlerVars, AlertsUntouched
<1>3. HandlerTypes'
    BY <1>2, TypeOKParts
    DEF Inv, HandlerTypes, ClaimEvents, ClaimInboundEvents, Phase, AtEvent, AlertsUntouched
<1>4. Monotone /\ Claims' /\ NotifiedOnce'
    BY <1>2, AlertsUntouchedInv
<1>5. CompletedIsHandled'
    BY <1>4, CompletedStays DEF ClaimEvents, ClaimInboundEvents
<1>6. ASSUME NEW v \in Runs PROVE RunProgress(v)'
    <2>1. CASE v = w
        <3>1. pc'[v] = "batch" /\ pc[v] = "idle"
            BY <2>1 DEF ClaimEvents, ClaimInboundEvents, Inv, TypeOK
        <3> QED BY <1>2, <3>1 DEF Inv, Progress, RunProgress
    <2>2. CASE v # w
        <3>1. pc'[v] = pc[v]
            BY <2>2 DEF ClaimEvents, ClaimInboundEvents, Inv, TypeOK
        <3> QED BY <1>2, <1>4, <3>1, OthersProgress
    <2> QED BY <2>1, <2>2
<1> QED BY <1>1, <1>3, <1>4, <1>5, <1>6, InvParts DEF Progress

LEMMA BeginEventInv ==
    ASSUME Inv, OwnersKept, NEW w \in Runs, NEW e \in Events, BeginEvent(w, e)
    PROVE  Inv' /\ HolderStep
<1> DEFINE phase == IF e \in Relayed THEN "relay" ELSE "alert"
<1>1. QueueInv' /\ HolderStep
    BY TakeInv DEF Inv, BeginEvent
<1>2. AlertsUntouched /\ at' = at /\ status' = status
    BY DEF BeginEvent, Take, queueVars, handlerVars, AlertsUntouched
<1>3. /\ pc[w] = "batch" /\ pc' = [pc EXCEPT ![w] = phase]
      /\ cur' = [cur EXCEPT ![w] = e]
    BY DEF BeginEvent, Take, GoTo
<1>4. HandlerTypes'
    BY <1>2, <1>3, TypeOKParts
    DEF Inv, TypeOK, QueueTypeOK, HandlerTypes, Phase, AtEvent, AlertsUntouched
<1>5. Monotone /\ Claims' /\ NotifiedOnce'
    BY <1>2, AlertsUntouchedInv
<1>6. CompletedIsHandled'
    BY <1>2, <1>5, CompletedStays
<1>7. ASSUME NEW v \in Runs PROVE RunProgress(v)'
    <2>1. CASE v = w
        <3>1. pc'[v] = phase /\ cur'[v] = e /\ at'[v] = 1
            BY <1>2, <1>3, <2>1 DEF Inv, TypeOK, QueueTypeOK, Progress, RunProgress
        <3>2. DecidedBefore(v)'
            <4>1. PICK s \in Seq(Alerts) : s = AlertsOf[e]
                BY AlertConstants
            <4>2. \A i \in DOMAIN s : ~(i < 1)
                BY <4>1
            <4> QED BY <3>1, <4>1, <4>2 DEF DecidedBefore
        <3> QED BY <3>1, <3>2 DEF RunProgress
    <2>2. CASE v # w
        BY <1>2, <1>3, <1>5, <2>2, OthersProgress DEF Inv, TypeOK, QueueTypeOK
    <2> QED BY <2>1, <2>2
<1> QED BY <1>1, <1>4, <1>5, <1>6, <1>7, InvParts DEF Progress

\* The run goes on to the next alert, having decided on this one.
LEMMA NextAlertInv ==
    ASSUME Inv, OwnersKept, NEW w \in Runs, Monotone, NextAlert(w), UNCHANGED <<queueVars, todo, cur>>,
           pc[w] \in {"alert", "clear", "stopped"}, AlertsLeft(w),
           NEW a \in Alerts, a = Alert(w), Decided(a)',
           Claims', NotifiedOnce',
           outcome' \in [Alerts -> AlertStatus \cup {None}], jobs' \in [Alerts -> Nat],
           UNCHANGED <<suppressed, confirmed>>
    PROVE  Inv' /\ HolderStep
<1>1. QueueInv' /\ HolderStep
    BY QueueUnchanged DEF Inv
<1>2. HandlerTypes'
    BY TypeOKParts DEF Inv, HandlerTypes, NextAlert, GoTo, Phase, AtEvent
<1>3. CompletedIsHandled'
    BY CompletedStays DEF queueVars
<1>4. ASSUME NEW v \in Runs PROVE RunProgress(v)'
    <2>1. CASE v = w
        <3>1. pc'[v] = "alert" /\ at'[v] = at[v] + 1 /\ cur'[v] = cur[v] /\ cur[v] \in Events
            BY <2>1 DEF NextAlert, GoTo, Inv, TypeOK, AtEvent, Phase
        <3>2. cur[v] \notin Relayed /\ DecidedBefore(v)
            BY <2>1 DEF Inv, Progress, RunProgress
        <3>3. at[v] \in Nat \ {0}
            BY DEF Inv, TypeOK
        <3>4. PICK s \in Seq(Alerts) : s = AlertsOf[cur[v]]
            BY <3>1, AlertConstants
        <3>5. ASSUME NEW i \in DOMAIN s, i < at[v] + 1 PROVE Decided(s[i])'
            <4>1. s[i] \in Alerts /\ i \in Nat
                BY <3>4
            <4>2. CASE i < at[v]
                BY <3>2, <3>4, <4>1, <4>2 DEF DecidedBefore, Decided, Monotone
            <4>3. CASE i = at[v]
                BY <2>1, <3>4, <4>3 DEF Alert
            <4> QED BY <3>3, <3>5, <4>1, <4>2, <4>3
        <3>6. DecidedBefore(v)'
            BY <3>1, <3>4, <3>5 DEF DecidedBefore
        <3> QED BY <3>1, <3>2, <3>6 DEF RunProgress
    <2>2. CASE v # w
        BY <2>2, OthersProgress DEF NextAlert, GoTo, Inv, TypeOK, QueueTypeOK
    <2> QED BY <2>1, <2>2
<1> QED BY <1>1, <1>2, <1>3, <1>4, InvParts DEF Progress

\* The run only moves on within its event.
LEMMA MoveInv ==
    ASSUME Inv, OwnersKept, NEW w \in Runs, NEW phase \in AtEvent, pc[w] \in AtEvent, GoTo(w, phase),
           UNCHANGED <<queueVars, todo, cur, at, outcome, jobs, suppressed>>,
           Monotone, confirmed' \subseteq Events,
           RunProgress(w)'
    PROVE  Inv' /\ HolderStep
<1>1. QueueInv' /\ HolderStep
    BY QueueUnchanged DEF Inv
<1>2. HandlerTypes'
    BY TypeOKParts DEF Inv, HandlerTypes, GoTo, AtEvent
<1>3. Claims' /\ NotifiedOnce'
    BY DEF Inv, Claims, NotifiedOnce
<1>4. CompletedIsHandled'
    BY CompletedStays DEF queueVars
<1>5. ASSUME NEW v \in Runs, v # w PROVE RunProgress(v)'
    BY <1>5, OthersProgress DEF GoTo, Inv, TypeOK, QueueTypeOK
<1> QED BY <1>1, <1>2, <1>3, <1>4, <1>5, InvParts DEF Progress

\* The run goes back to its batch, or ends.
LEMMA LeaveEventInv ==
    ASSUME Inv, OwnersKept, NEW w \in Runs, NEW phase \in {"batch", "ended"},
           pc' = [pc EXCEPT ![w] = phase], cur' = [cur EXCEPT ![w] = None],
           at' = [at EXCEPT ![w] = 1],
           AlertsUntouched, QueueInv',
           \A e \in Events : status'[e] = "completed" =>
               status[e] = "completed" \/ EventHandled(e)
    PROVE  Inv'
<1>1. HandlerTypes'
    BY TypeOKParts
    DEF Inv, TypeOK, QueueTypeOK, HandlerTypes, Phase, AtEvent, AlertsUntouched
<1>2. Monotone /\ Claims' /\ NotifiedOnce'
    BY AlertsUntouchedInv
<1>3. CompletedIsHandled'
    BY <1>2, CompletedStays
<1>4. ASSUME NEW v \in Runs PROVE RunProgress(v)'
    <2>1. CASE v = w
        BY <2>1 DEF RunProgress, Inv, TypeOK, QueueTypeOK
    <2>2. CASE v # w
        BY <1>2, <2>2, OthersProgress DEF Inv, TypeOK, QueueTypeOK
    <2> QED BY <2>1, <2>2
<1> QED BY <1>1, <1>2, <1>3, <1>4, InvParts DEF Progress

LEMMA SkipMalformedInv ==
    ASSUME Inv, OwnersKept, NEW w \in Runs, SkipMalformed(w)
    PROVE  Inv' /\ HolderStep
<1>1. pc[w] \in AtEvent /\ AlertsLeft(w)
    BY DEF SkipMalformed, AtEvent, Phase
<1>2. PICK a \in Alerts : a = Alert(w)
    BY <1>1, AlertType
<1>3. AlertsUntouched
    BY DEF SkipMalformed, AlertsUntouched
<1>4. Monotone /\ Claims' /\ NotifiedOnce'
    BY <1>3, AlertsUntouchedInv
<1>5. Decided(a)'
    BY <1>2 DEF SkipMalformed, Decided
<1> QED BY <1>2, <1>4, <1>5, NextAlertInv DEF SkipMalformed, Inv, TypeOK

\* The upsert, with a status that is not NULL.
LEMMA SetOutcomeInv ==
    ASSUME Inv, OwnersKept, NEW w \in Runs, NEW r \in Refusals, SetProcessedAlertOutcome(w, r),
           pc[w] \in {"alert", "clear", "stopped"}, AlertsLeft(w)
    PROVE  Inv' /\ HolderStep
<1>1. PICK a \in Alerts : a = Alert(w)
    BY AlertType DEF AtEvent, Phase
<1>2. r # None /\ r \in AlertStatus
    BY AlertConstants DEF AlertStatus
<1>3. outcome' = [outcome EXCEPT ![a] = r] /\ outcome \in [Alerts -> AlertStatus \cup {None}]
    BY <1>1 DEF SetProcessedAlertOutcome, Inv, TypeOK
<1>4. UNCHANGED <<queueVars, todo, cur, jobs, suppressed, confirmed>> /\ NextAlert(w)
    BY DEF SetProcessedAlertOutcome
<1>5. Monotone
    BY <1>2, <1>3, <1>4 DEF Monotone
<1>6. Claims' /\ NotifiedOnce'
    BY <1>2, <1>3, <1>4 DEF Inv, Claims, NotifiedOnce
<1>7. Decided(a)'
    BY <1>2, <1>3 DEF Decided
<1>8. outcome' \in [Alerts -> AlertStatus \cup {None}] /\ jobs' \in [Alerts -> Nat]
    BY <1>2, <1>3, <1>4 DEF Inv, TypeOK
<1> QED BY <1>1, <1>4, <1>5, <1>6, <1>7, <1>8, NextAlertInv

LEMMA CreateWaterAlertJobInv ==
    ASSUME Inv, OwnersKept, NEW w \in Runs, CreateWaterAlertJob(w)
    PROVE  Inv' /\ HolderStep
<1>1. pc[w] = "clear" /\ AlertsLeft(w)
    BY DEF CreateWaterAlertJob, Inv, Progress, RunProgress
<1>2. PICK a \in Alerts : a = Alert(w)
    BY <1>1, AlertType DEF AtEvent, Phase
<1>3. outcome \in [Alerts -> AlertStatus \cup {None}] /\ jobs \in [Alerts -> Nat]
    BY DEF Inv, TypeOK
<1>4. UNCHANGED <<queueVars, todo, cur, suppressed, confirmed>> /\ NextAlert(w)
    BY DEF CreateWaterAlertJob
<1>5. CASE outcome[a] = None
    <2>1. outcome' = [outcome EXCEPT ![a] = "queued"] /\ jobs' = [jobs EXCEPT ![a] = @ + 1]
        BY <1>2, <1>5 DEF CreateWaterAlertJob
    <2>2. "queued" # None /\ "queued" \in AlertStatus
        BY AlertConstants DEF AlertStatus
    <2>3. jobs[a] = 0
        BY <1>5 DEF Inv, Claims
    <2>4. Monotone /\ Decided(a)'
        BY <1>3, <1>4, <2>1, <2>2 DEF Monotone, Decided
    <2>5. Claims' /\ NotifiedOnce'
        BY <1>3, <2>1, <2>2, <2>3 DEF Inv, Claims, NotifiedOnce
    <2>6. outcome' \in [Alerts -> AlertStatus \cup {None}] /\ jobs' \in [Alerts -> Nat]
        BY <1>3, <2>1, <2>2
    <2> QED BY <1>1, <1>2, <1>4, <2>4, <2>5, <2>6, NextAlertInv
<1>6. CASE outcome[a] # None
    <2>1. UNCHANGED <<outcome, jobs>>
        BY <1>2, <1>6 DEF CreateWaterAlertJob
    <2>2. Monotone /\ Claims' /\ NotifiedOnce'
        BY <1>4, <2>1, AlertsUntouchedInv DEF AlertsUntouched
    <2>3. Decided(a)'
        BY <1>6, <2>1 DEF Decided
    <2> QED BY <1>1, <1>2, <1>3, <1>4, <2>1, <2>2, <2>3, NextAlertInv
<1> QED BY <1>5, <1>6

LEMMA CheckSuppressedInv ==
    ASSUME Inv, OwnersKept, NEW w \in Runs, CheckSuppressed(w)
    PROVE  Inv' /\ HolderStep
<1> DEFINE phase == IF PhoneOf[Alert(w)] \in suppressed THEN "stopped" ELSE "clear"
<1>1. phase \in AtEvent /\ phase \in {"clear", "stopped"} /\ pc[w] \in AtEvent
    BY DEF CheckSuppressed, AtEvent, Phase
<1>2. GoTo(w, phase) /\ UNCHANGED <<queueVars, todo, cur, at, outcome, jobs, suppressed, confirmed>>
    BY DEF CheckSuppressed, handlerVars
<1> HIDE DEF phase
<1>3. AlertsUntouched
    BY <1>2 DEF AlertsUntouched
<1>4. Monotone
    BY <1>3, AlertsUntouchedInv
<1>5. RunProgress(w)'
    <2>1. pc'[w] = phase /\ cur'[w] = cur[w] /\ at'[w] = at[w] /\ cur[w] \in Events
        BY <1>1, <1>2 DEF GoTo, Inv, TypeOK
    <2>2. cur[w] \notin Relayed /\ DecidedBefore(w) /\ AlertsLeft(w)
        BY DEF CheckSuppressed, Inv, Progress, RunProgress
    <2>3. DecidedBefore(w)' /\ AlertsLeft(w)'
        BY <1>4, <2>1, <2>2, DecidedStays DEF AlertsLeft
    <2> QED BY <1>1, <2>1, <2>2, <2>3 DEF RunProgress
<1> QED BY <1>1, <1>2, <1>4, <1>5, MoveInv DEF Inv, TypeOK

LEMMA ForwardCustomerCreatedInv ==
    ASSUME Inv, OwnersKept, NEW w \in Runs, ForwardCustomerCreated(w)
    PROVE  Inv' /\ HolderStep
<1>1. PICK phase \in {"done", "failed"} : GoTo(w, phase) /\ (phase = "done" => cur[w] \in confirmed')
    BY DEF ForwardCustomerCreated
<1>2. pc[w] = "relay" /\ cur[w] \in Relayed /\ cur[w] \in Events
    BY DEF ForwardCustomerCreated, Inv, Progress, RunProgress, TypeOK, AtEvent, Phase
<1>3. UNCHANGED <<queueVars, todo, cur, at, outcome, jobs, suppressed>>
    BY DEF ForwardCustomerCreated
<1>4. confirmed \subseteq confirmed' /\ confirmed' \subseteq Events
    BY <1>2 DEF ForwardCustomerCreated, Inv, TypeOK
<1>5. Monotone
    BY <1>3, <1>4 DEF Monotone
<1>6. RunProgress(w)'
    BY <1>1, <1>2, <1>3 DEF RunProgress, GoTo, Inv, TypeOK
<1>7. phase \in AtEvent /\ pc[w] \in AtEvent
    BY <1>2 DEF AtEvent, Phase
<1> QED BY <1>1, <1>3, <1>4, <1>5, <1>6, <1>7, MoveInv

LEMMA CompleteEventInv ==
    ASSUME Inv, OwnersKept, NEW w \in Runs, Complete(w)
    PROVE  Inv' /\ HolderStep
<1>1. cur[w] \in Events
    BY DEF Complete, Handled, Inv, TypeOK, AtEvent, Phase
<1>2. QueueInv' /\ HolderStep
    BY <1>1, CompleteInv DEF Inv, Complete, EventResult
<1>3. Owns(w, cur[w]) => EventHandled(cur[w])
    <2>1. CASE pc[w] = "done"
        BY <2>1 DEF Inv, Progress, RunProgress, EventHandled
    <2>2. CASE pc[w] = "alert" /\ ~AlertsLeft(w)
        <3>1. cur[w] \notin Relayed /\ DecidedBefore(w)
            BY <2>2 DEF Inv, Progress, RunProgress
        <3>2. PICK s \in Seq(Alerts) : s = AlertsOf[cur[w]]
            BY <1>1, AlertConstants
        <3>3. \A i \in DOMAIN s : i < at[w]
            <4>1. DOMAIN s = 1..Len(s) /\ Len(s) \in Nat /\ at[w] \in Nat
                BY <3>2 DEF Inv, TypeOK
            <4> QED BY <2>2, <3>2, <4>1 DEF AlertsLeft
        <3> QED BY <3>1, <3>2, <3>3 DEF DecidedBefore, EventHandled
    <2> QED BY <2>1, <2>2 DEF Complete, Handled
<1>4. AlertsUntouched /\ at' = [at EXCEPT ![w] = 1]
    BY DEF Complete, AlertsUntouched
<1>5. pc' = [pc EXCEPT ![w] = "batch"] /\ cur' = [cur EXCEPT ![w] = None]
    BY DEF Complete, CompleteInboundEvent, BackToBatch, GoTo
<1>6. \A e \in Events : status'[e] = "completed" =>
          status[e] = "completed" \/ EventHandled(e)
    BY <1>3 DEF Complete, CompleteInboundEvent, Settle, Inv, TypeOK, QueueTypeOK
<1> QED BY <1>2, <1>4, <1>5, <1>6, LeaveEventInv

LEMMA FailEventInv ==
    ASSUME Inv, OwnersKept, NEW w \in Runs, Fail(w)
    PROVE  Inv' /\ HolderStep
<1>1. cur[w] \in Events
    BY DEF Fail, Inv, TypeOK, AtEvent, Phase
<1>2. QueueInv' /\ HolderStep
    BY <1>1, FailInv DEF Inv, Fail, EventResult
<1>3. AlertsUntouched /\ at' = [at EXCEPT ![w] = 1]
    BY DEF Fail, AlertsUntouched
<1>4. pc' = [pc EXCEPT ![w] = "batch"] /\ cur' = [cur EXCEPT ![w] = None]
    BY DEF Fail, FailInboundEvent, BackToBatch, GoTo
<1>5. StatusAfterFailure(cur[w]) # "completed"
    BY DEF StatusAfterFailure
<1>6. \A e \in Events : status'[e] = "completed" => status[e] = "completed"
    BY <1>5 DEF Fail, FailInboundEvent, Settle, Inv, TypeOK, QueueTypeOK
<1> QED BY <1>2, <1>3, <1>4, <1>6, LeaveEventInv

LEMMA StopInv ==
    ASSUME Inv, OwnersKept, NEW w \in Runs, Stop(w)
    PROVE  Inv' /\ HolderStep
<1>1. QueueInv' /\ HolderStep
    BY StopRunInv DEF Inv, Stop
<1>2. /\ pc' = [pc EXCEPT ![w] = "ended"] /\ cur' = [cur EXCEPT ![w] = None]
      /\ at' = [at EXCEPT ![w] = 1] /\ AlertsUntouched /\ status' = status
    BY DEF Stop, EndRun, Crash, StopRun, queueVars, AlertsUntouched
<1> QED BY <1>1, <1>2, LeaveEventInv

\* Steps that leave the runs and the alerts' decisions alone.
LEMMA OutsideStepInv ==
    ASSUME Inv, OwnersKept, UNCHANGED <<pc, todo, cur, at>>, QueueInv', Monotone, Claims', NotifiedOnce',
           outcome' \in [Alerts -> AlertStatus \cup {None}], jobs' \in [Alerts -> Nat],
           suppressed' \subseteq Phones, confirmed' \subseteq Events,
           \A e \in Events : status'[e] = "completed" => status[e] = "completed"
    PROVE  Inv'
<1>1. HandlerTypes'
    BY TypeOKParts DEF Inv, HandlerTypes
<1>2. Progress'
    BY OthersProgress DEF Progress
<1>3. CompletedIsHandled'
    BY CompletedStays
<1> QED BY <1>1, <1>2, <1>3, InvParts

LEMMA QueueOnlyInv ==
    ASSUME Inv, OwnersKept, QueueStep, KeepConfirmed, UNCHANGED <<at, outcome, jobs, suppressed>>
    PROVE  Inv' /\ HolderStep
<1>1. QueueInv' /\ HolderStep
    BY QueueStepInv DEF Inv
<1>2. \A e \in Events : purges'[e] = purges[e] \/ status'[e] = "absent"
    BY DEF QueueStep, StoreInboundEvent, LeaseExpires, PurgeEvent, RecoverStaleEvents,
           Inv, TypeOK, QueueTypeOK
<1>3. Monotone /\ Claims' /\ NotifiedOnce'
    BY <1>2 DEF KeepConfirmed, Monotone, Inv, TypeOK, Claims, NotifiedOnce
<1>4. UNCHANGED <<pc, todo, cur>>
    BY DEF QueueStep, StoreInboundEvent, LeaseExpires, PurgeEvent, RecoverStaleEvents, runVars
<1>5. \A e \in Events : status'[e] = "completed" => status[e] = "completed"
    BY DEF QueueStep, StoreInboundEvent, LeaseExpires, PurgeEvent, RecoverStaleEvents,
           StatusAfterFailure, Inv, TypeOK, QueueTypeOK
<1> QED
    BY <1>1, <1>3, <1>4, <1>5, OutsideStepInv DEF KeepConfirmed, Inv, TypeOK

LEMMA SavePreferenceInv ==
    ASSUME Inv, OwnersKept, NEW p \in Phones, SavePreference(p)
    PROVE  Inv' /\ HolderStep
<1>1. QueueInv' /\ HolderStep
    BY QueueUnchanged DEF Inv, SavePreference, runVars
<1>2. Monotone /\ Claims' /\ NotifiedOnce'
    BY DEF SavePreference, Monotone, Inv, Claims, NotifiedOnce
<1> QED BY <1>1, <1>2, OutsideStepInv DEF SavePreference, Inv, TypeOK, queueVars, runVars

LEMMA UpdateSourceOutcomeInv ==
    ASSUME Inv, OwnersKept, NEW a \in Alerts, UpdateSourceOutcome(a)
    PROVE  Inv' /\ HolderStep
<1>1. QueueInv' /\ HolderStep
    BY QueueUnchanged DEF Inv, UpdateSourceOutcome, runVars
<1>2. "delivery" # None /\ "delivery" \in AlertStatus
    BY AlertConstants DEF AlertStatus
<1>3. Monotone /\ Claims' /\ NotifiedOnce'
    BY <1>2 DEF UpdateSourceOutcome, Monotone, Inv, TypeOK, Claims, NotifiedOnce
<1> QED
    BY <1>1, <1>2, <1>3, OutsideStepInv
    DEF UpdateSourceOutcome, Inv, TypeOK, queueVars, runVars

LEMMA OwnersKeptByStep ==
    ASSUME Inv, [Next]_vars
    PROVE  OwnersKept
<1>1. ASSUME UNCHANGED <<status, owner>> PROVE OwnersKept
    BY <1>1 DEF OwnersKept, Owns
<1>2. ASSUME NEW e \in Events, NEW new \in EventStatus, NEW res, Settle(e, new, res)
      PROVE  OwnersKept
    <2>1. \A w \in Runs : ~Owns(w, e)'
        BY <1>2, QueueConstants DEF Settle, Owns, Inv, TypeOK, QueueTypeOK
    <2> QED BY <1>2, <2>1 DEF Settle, Owns, OwnersKept, Inv, TypeOK, QueueTypeOK
<1>3. ASSUME NEW w \in Runs, RunStep(w) PROVE OwnersKept
    <2>1. CASE Complete(w)
        <3>1. cur[w] \in Events
            BY <2>1 DEF Complete, Handled, Inv, TypeOK, AtEvent, Phase
        <3> QED BY <1>1, <1>2, <2>1, <3>1 DEF Complete, CompleteInboundEvent, EventStatus
    <2>2. CASE Fail(w)
        <3>1. cur[w] \in Events
            BY <2>2 DEF Fail, Inv, TypeOK, AtEvent, Phase
        <3>2. StatusAfterFailure(cur[w]) \in EventStatus
            BY DEF StatusAfterFailure, EventStatus
        <3> QED BY <1>1, <1>2, <2>2, <3>1, <3>2 DEF Fail, FailInboundEvent
    <2> QED
        BY <1>1, <1>3, <2>1, <2>2
        DEF RunStep, BeginEvent, Take, SkipMalformed, RefuseAlert, CheckSuppressed,
            RefuseSuppressed, SetProcessedAlertOutcome, CreateWaterAlertJob,
            ForwardCustomerCreated, queueVars
<1>4. ASSUME NEW w \in Runs, NEW batch \in SUBSET Events, ClaimEvents(w, batch) PROVE OwnersKept
    BY <1>4 DEF ClaimEvents, ClaimInboundEvents, OwnersKept, Owns, Inv, TypeOK, QueueTypeOK
<1>5. ASSUME QueueStep PROVE OwnersKept
    BY <1>5, QueueConstants
    DEF QueueStep, StoreInboundEvent, LeaseExpires, PurgeEvent, RecoverStaleEvents,
        StatusAfterFailure, OwnersKept, Owns, Inv, TypeOK, QueueTypeOK
<1> QED
    BY <1>1, <1>3, <1>4, <1>5
    DEF Next, Stop, EndRun, Crash, StopRun, SavePreference, UpdateSourceOutcome, vars, queueVars

LEMMA StepInv ==
    ASSUME Inv, [Next]_vars
    PROVE  Inv' /\ HolderStep
<1>0. OwnersKept
    BY OwnersKeptByStep
<1>1. ASSUME NEW w \in Runs, RunStep(w) PROVE Inv' /\ HolderStep
    <2>1. CASE RefuseAlert(w)
        BY <1>0, <2>1, SetOutcomeInv DEF RefuseAlert, Refusals
    <2>2. CASE RefuseSuppressed(w)
        BY <1>0, <2>2, SetOutcomeInv DEF RefuseSuppressed, Refusals, Inv, Progress, RunProgress
    <2> QED
        BY <1>0, <1>1, <2>1, <2>2, BeginEventInv, SkipMalformedInv, CheckSuppressedInv,
           CreateWaterAlertJobInv, ForwardCustomerCreatedInv, CompleteEventInv, FailEventInv
        DEF RunStep
<1>2. CASE UNCHANGED vars
    <2>1. QueueInv' /\ HolderStep
        BY <1>2, QueueUnchanged DEF vars, runVars, Inv
    <2>2. Monotone /\ Claims' /\ NotifiedOnce'
        BY <1>2, AlertsUntouchedInv DEF vars, handlerVars, AlertsUntouched
    <2> QED
        BY <1>0, <1>2, <2>1, <2>2, OutsideStepInv
        DEF vars, runVars, queueVars, handlerVars, Inv, TypeOK
<1> QED
    BY <1>0, <1>1, <1>2, StopInv, ClaimEventsInv, QueueOnlyInv, SavePreferenceInv,
       UpdateSourceOutcomeInv
    DEF Next

-------------------------------------------------------------------------------
(* The theorems.                                                           *)

LEMMA InductiveInvariant == Spec => []Inv
<1>1. Inv /\ [Next]_vars => Inv'
    BY StepInv
<1> QED BY <1>1, InitInv, PTL DEF Spec

\* The tables of the queue and of the alerts, and the runs, keep their types.
THEOREM EventTypes == Spec => []TypeOK
<1>1. Inv => TypeOK
    BY DEF Inv
<1> QED BY <1>1, InductiveInvariant, PTL

\* The retry budget of an event holds for any number of runs, crashes and
\* recoveries and any max_attempts.
THEOREM RetryBudgetHolds == Spec => []RetryBudget
<1>1. Inv => RetryBudget
    BY DEF Inv, QueueInv
<1> QED BY <1>1, InductiveInvariant, PTL

\* However many events name an alert and however often they are delivered and
\* retried, one message is created for it.
THEOREM NotifiedOnceHolds == Spec => []NotifiedOnce
<1>1. Inv => NotifiedOnce
    BY DEF Inv
<1> QED BY <1>1, InductiveInvariant, PTL

\* A completed event was handled to its last alert, or confirmed.
THEOREM CompletedIsHandledHolds == Spec => []CompletedIsHandled
<1>1. Inv => CompletedIsHandled
    BY DEF Inv
<1> QED BY <1>1, InductiveInvariant, PTL

\* Only the run that holds the lease settles an event, and a completed event
\* stays completed.
THEOREM OnlyTheHolderSettlesHolds == Spec => OnlyTheHolderSettles
<1>1. Inv /\ [Next]_vars => [HolderStep]_<<queueVars, runVars>>
    BY StepInv
<1> QED BY <1>1, InductiveInvariant, PTL DEF Spec, OnlyTheHolderSettles, HolderStep
================================================================================
