---------------------------- MODULE PoolBrainEvents ----------------------------
(***************************************************************************)
(* process_inbound_events: what the general worker does with the events of *)
(* EventQueue that are not website leads.  An alert event names several    *)
(* alerts, handled one by one, each with a PoolBrain lookup and one or two *)
(* transactions; a failure in the middle sends the whole event back to the *)
(* queue.  A customer.created event is relayed to the agreement app.       *)
(* Anything else is completed at once.                                     *)
(***************************************************************************)
EXTENDS EventQueue, Sequences

CONSTANTS
    Alerts,     \* WaterLevelLow alerts (alertId)
    AlertsOf,   \* AlertsOf[e]: the alerts of event e, in payload order
    Malformed,  \* alerts without a usable alert or customer id
    Relayed,    \* events of type customer.created
    Phones,     \* normalised customer phones
    PhoneOf     \* PhoneOf[a]: phone of the customer of a

Refusals == {"customer_not_found", "no_phone", "sms_suppressed"}

\* processed_alerts.status, as far as the queue's runs tell it apart.
AlertStatus == Refusals \cup {"queued", "delivery"}

ASSUME AlertConstants ==
    /\ None \notin AlertStatus
    /\ AlertsOf \in [Events -> Seq(Alerts)]
    /\ Malformed \subseteq Alerts
    /\ Relayed \subseteq Events
    /\ PhoneOf \in [Alerts -> Phones]

VARIABLES
    at,          \* at[w]: position of run w in the alerts of its event
    outcome,     \* processed_alerts.status, or None without a row
    jobs,        \* message jobs ever inserted for the alert
    suppressed,  \* phones with a suppressed SMS preference
    confirmed    \* events the agreement app confirmed since they were last deleted

handlerVars == <<at, outcome, jobs, suppressed, confirmed>>
vars == <<queueVars, runVars, handlerVars>>

\* Where a run stands in process_inbound_events.  "clear" and "stopped" are the
\* two answers of is_suppressed, not acted on yet.
Phase ==
    {"idle", "batch", "alert", "clear", "stopped", "relay", "done", "failed", "ended"}

AtEvent == Phase \ {"idle", "batch", "ended"}

Init ==
    /\ QueueInit
    /\ at = [w \in Runs |-> 1]
    /\ outcome = [a \in Alerts |-> None]
    /\ jobs = [a \in Alerts |-> 0]
    /\ suppressed = {}
    /\ confirmed = {}

BeginEvent(w, e) ==
    /\ Take(w, e, IF e \in Relayed THEN "relay" ELSE "alert")
    /\ UNCHANGED handlerVars

AlertsLeft(w) == at[w] <= Len(AlertsOf[cur[w]])
Alert(w) == AlertsOf[cur[w]][at[w]]

NextAlert(w) ==
    /\ GoTo(w, "alert")
    /\ at' = [at EXCEPT ![w] = @ + 1]

\* Logged and skipped.
SkipMalformed(w) ==
    /\ pc[w] = "alert"
    /\ AlertsLeft(w)
    /\ Alert(w) \in Malformed
    /\ NextAlert(w)
    /\ UNCHANGED <<queueVars, todo, cur, outcome, jobs, suppressed, confirmed>>

\* Upsert of processed_alerts: it overwrites what is there.
SetProcessedAlertOutcome(w, refusal) ==
    /\ outcome' = [outcome EXCEPT ![Alert(w)] = refusal]
    /\ NextAlert(w)
    /\ UNCHANGED <<queueVars, todo, cur, jobs, suppressed, confirmed>>

\* PoolBrain knows no such customer, or no phone to write to.
RefuseAlert(w) ==
    /\ pc[w] = "alert"
    /\ AlertsLeft(w)
    /\ Alert(w) \notin Malformed
    /\ \E r \in {"customer_not_found", "no_phone"} : SetProcessedAlertOutcome(w, r)

\* PoolBrain gives a phone, and is_suppressed reads its preference.
CheckSuppressed(w) ==
    /\ pc[w] = "alert"
    /\ AlertsLeft(w)
    /\ Alert(w) \notin Malformed
    /\ GoTo(w, IF PhoneOf[Alert(w)] \in suppressed THEN "stopped" ELSE "clear")
    /\ UNCHANGED <<queueVars, todo, cur, handlerVars>>

RefuseSuppressed(w) ==
    /\ pc[w] = "stopped"
    /\ SetProcessedAlertOutcome(w, "sms_suppressed")

\* Variant: the message is inserted whether or not the alert is claimed.
CreateWaterAlertJobAlways(w) ==
    /\ pc[w] = "clear"
    /\ outcome' = [outcome EXCEPT ![Alert(w)] = "queued"]
    /\ jobs' = [jobs EXCEPT ![Alert(w)] = @ + 1]
    /\ NextAlert(w)
    /\ UNCHANGED <<queueVars, todo, cur, suppressed, confirmed>>

\* The insert into processed_alerts claims the alert; only then is the message
\* inserted, in the same transaction.
CreateWaterAlertJob(w) ==
    /\ pc[w] = "clear"
    /\ IF outcome[Alert(w)] = None
          THEN /\ outcome' = [outcome EXCEPT ![Alert(w)] = "queued"]
               /\ jobs' = [jobs EXCEPT ![Alert(w)] = @ + 1]
          ELSE UNCHANGED <<outcome, jobs>>
    /\ NextAlert(w)
    /\ UNCHANGED <<queueVars, todo, cur, suppressed, confirmed>>

\* Variant: an answer that does not confirm the event counts as a success.
ForwardUnconfirmed(w) ==
    /\ pc[w] = "relay"
    /\ GoTo(w, "done")
    /\ confirmed' \in {confirmed, confirmed \cup {cur[w]}}
    /\ UNCHANGED <<queueVars, todo, cur, at, outcome, jobs, suppressed>>

\* The relay: confirmed, confirmed with the answer lost, or refused.
ForwardCustomerCreated(w) ==
    /\ pc[w] = "relay"
    /\ \/ GoTo(w, "done") /\ confirmed' = confirmed \cup {cur[w]}
       \/ GoTo(w, "failed") /\ confirmed' \in {confirmed, confirmed \cup {cur[w]}}
    /\ UNCHANGED <<queueVars, todo, cur, at, outcome, jobs, suppressed>>

Handled(w) == pc[w] = "done" \/ (pc[w] = "alert" /\ ~AlertsLeft(w))

\* Variant: an error half-way through an event is logged and the event completed.
CompleteDespiteErrors(w) ==
    /\ pc[w] \in {"done", "alert", "clear", "stopped"}
    /\ CompleteInboundEvent(w, None)
    /\ at' = [at EXCEPT ![w] = 1]
    /\ UNCHANGED <<outcome, jobs, suppressed, confirmed>>

Complete(w) ==
    /\ Handled(w)
    /\ CompleteInboundEvent(w, None)
    /\ at' = [at EXCEPT ![w] = 1]
    /\ UNCHANGED <<outcome, jobs, suppressed, confirmed>>

\* A lookup or a transaction raised; what was committed before stays.
Fail(w) ==
    /\ pc[w] \in {"alert", "clear", "stopped", "failed"}
    /\ FailInboundEvent(w, None)
    /\ at' = [at EXCEPT ![w] = 1]
    /\ UNCHANGED <<outcome, jobs, suppressed, confirmed>>

\* STOP and START of a customer.
SavePreference(p) ==
    /\ suppressed' \in {suppressed \cup {p}, suppressed \ {p}}
    /\ UNCHANGED <<queueVars, runVars, at, outcome, jobs, confirmed>>

\* The message worker records what became of the alert's message.
UpdateSourceOutcome(a) ==
    /\ jobs[a] > 0
    /\ outcome' = [outcome EXCEPT ![a] = "delivery"]
    /\ UNCHANGED <<queueVars, runVars, at, jobs, suppressed, confirmed>>

\* An event that retention deletes and PoolBrain delivers again is to be confirmed again.
KeepConfirmed == confirmed' = {e \in confirmed : purges'[e] = purges[e]}

ClaimEvents(w, batch) == ClaimInboundEvents(w, batch) /\ UNCHANGED handlerVars

Stop(w) ==
    /\ EndRun(w) \/ Crash(w)
    /\ at' = [at EXCEPT ![w] = 1]
    /\ UNCHANGED <<outcome, jobs, suppressed, confirmed>>

RunStep(w) ==
    \/ \E e \in Events : BeginEvent(w, e)
    \/ SkipMalformed(w) \/ RefuseAlert(w) \/ CheckSuppressed(w) \/ RefuseSuppressed(w)
    \/ CreateWaterAlertJob(w) \/ ForwardCustomerCreated(w) \/ Complete(w) \/ Fail(w)

Next ==
    \/ \E w \in Runs : RunStep(w) \/ Stop(w)
    \/ \E w \in Runs, batch \in SUBSET Events : ClaimEvents(w, batch)
    \/ QueueStep /\ KeepConfirmed /\ UNCHANGED <<at, outcome, jobs, suppressed>>
    \/ \E p \in Phones : SavePreference(p)
    \/ \E a \in Alerts : UpdateSourceOutcome(a)

Spec == Init /\ [][Next]_vars

\* Cron starts a run every five minutes, a run never hangs (every request has a
\* timeout), leases run out and recovery runs again and again.
Fairness ==
    /\ \A w \in Runs : WF_vars(RunStep(w) \/ Stop(w))
    /\ \A e \in Events :
          WF_vars(\E w \in Runs, batch \in SUBSET Events : e \in batch /\ ClaimEvents(w, batch))
    /\ \A e \in Events : WF_vars(LeaseExpires(e) /\ UNCHANGED handlerVars)
    /\ WF_vars(RecoverStaleEvents /\ UNCHANGED handlerVars)

FairSpec == Spec /\ Fairness

-------------------------------------------------------------------------------
(* Properties.                                                             *)

\* The queue is well typed, and so are the phases, positions and outcomes.
TypeOK ==
    /\ QueueTypeOK
    /\ pc \in [Runs -> Phase]
    /\ \A w \in Runs : pc[w] \in AtEvent => cur[w] \in Events
    /\ at \in [Runs -> Nat \ {0}]
    /\ outcome \in [Alerts -> AlertStatus \cup {None}]
    /\ jobs \in [Alerts -> Nat]
    /\ suppressed \subseteq Phones
    /\ confirmed \subseteq Events

Decided(a) == a \in Malformed \/ outcome[a] # None

EventHandled(e) ==
    IF e \in Relayed
    THEN e \in confirmed
    ELSE \A i \in DOMAIN AlertsOf[e] : Decided(AlertsOf[e][i])

\* An event is completed only when every alert in it was decided on and, for a
\* customer.created event, the agreement app confirmed it: no failure half-way,
\* expired lease or late run completes an event that is not done.
CompletedIsHandled == \A e \in Events : status[e] = "completed" => EventHandled(e)

\* A customer hears of an alert at most once, however many events name it, however
\* often an event is retried or delivered again, and whichever runs handle it.
NotifiedOnce == \A a \in Alerts : jobs[a] <= 1
================================================================================
