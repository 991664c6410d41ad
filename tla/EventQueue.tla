------------------------------ MODULE EventQueue ------------------------------
(***************************************************************************)
(* The durable inbound queue (table inbound_events) and the worker runs    *)
(* that drain it.  A webhook stores an event before it answers; a run      *)
(* claims a batch under a lease and settles the events one by one; lease   *)
(* recovery returns what a dead run left.  Every repository function is    *)
(* one transaction and one action.  What a run does with an event is in    *)
(* the modules that extend this one: they own the phases between Take and  *)
(* the two settling steps.                                                 *)
(***************************************************************************)
EXTENDS Integers, FiniteSets

CONSTANTS
    Events,       \* external ids of events the queue's claim query selects
    Runs,         \* worker runs; each has a fresh worker_id and claims once
    None,         \* SQL NULL for locked_by and result
    MaxAttempts,  \* inbound_events.max_attempts
    MaxPurges     \* bound: retention deletes of one event explored

ASSUME QueueConstants ==
    /\ None \notin Runs \cup Events \cup {"creation_attempted", "synced"}
    /\ MaxAttempts \in Nat \ {0}
    /\ MaxPurges \in Nat

VARIABLES
    \* Columns of inbound_events.
    status, attempts, owner, lease, result,
    purges,    \* times retention deleted the row
    \* Worker runs.
    pc, todo, cur

queueVars == <<status, attempts, owner, lease, result, purges>>
runVars == <<pc, todo, cur>>

EventStatus == {"absent", "queued", "leased", "retry", "completed", "dead"}

\* The result column, as far as a later attempt reads it.
EventResult == {None, "creation_attempted", "synced"}

QueueInit ==
    /\ status = [e \in Events |-> "absent"]
    /\ attempts = [e \in Events |-> 0]
    /\ owner = [e \in Events |-> None]
    /\ lease = [e \in Events |-> "none"]
    /\ result = [e \in Events |-> None]
    /\ purges = [e \in Events |-> 0]
    /\ pc = [w \in Runs |-> "idle"]
    /\ todo = [w \in Runs |-> {}]
    /\ cur = [w \in Runs |-> None]

\* INSERT ... ON CONFLICT (provider, external_id) DO NOTHING: a repeated delivery
\* changes nothing.
StoreInboundEvent(e) ==
    /\ status' = IF status[e] = "absent" THEN [status EXCEPT ![e] = "queued"] ELSE status
    /\ UNCHANGED <<attempts, owner, lease, result, purges, runVars>>

ClaimInboundEvents(w, batch) ==
    /\ pc[w] = "idle"
    /\ batch # {}
    /\ \A e \in batch : status[e] \in {"queued", "retry"}
    /\ status' = [e \in Events |-> IF e \in batch THEN "leased" ELSE status[e]]
    /\ attempts' = [e \in Events |-> IF e \in batch THEN attempts[e] + 1 ELSE attempts[e]]
    /\ owner' = [e \in Events |-> IF e \in batch THEN w ELSE owner[e]]
    /\ lease' = [e \in Events |-> IF e \in batch THEN "live" ELSE lease[e]]
    /\ pc' = [pc EXCEPT ![w] = "batch"]
    /\ todo' = [todo EXCEPT ![w] = batch]
    /\ UNCHANGED <<result, purges, cur>>

GoTo(w, phase) == pc' = [pc EXCEPT ![w] = phase]

\* The next event of the batch.
Take(w, e, phase) ==
    /\ pc[w] = "batch"
    /\ e \in todo[w]
    /\ GoTo(w, phase)
    /\ todo' = [todo EXCEPT ![w] = @ \ {e}]
    /\ cur' = [cur EXCEPT ![w] = e]
    /\ UNCHANGED queueVars

BackToBatch(w) ==
    /\ GoTo(w, "batch")
    /\ cur' = [cur EXCEPT ![w] = None]
    /\ UNCHANGED todo

\* Variant: WHERE id = :event_id.
OwnsByIdOnly(w, e) == status[e] # "absent"

Owns(w, e) == owner[e] = w /\ status[e] = "leased"

Settle(e, new, res) ==
    /\ status' = [status EXCEPT ![e] = new]
    /\ owner' = [owner EXCEPT ![e] = None]
    /\ lease' = [lease EXCEPT ![e] = "none"]
    /\ result' = [result EXCEPT ![e] = res]

\* The row may have been recovered and claimed by another run meanwhile: the
\* update then matches nothing.
CompleteInboundEvent(w, res) ==
    /\ IF Owns(w, cur[w])
          THEN Settle(cur[w], "completed", res)
          ELSE UNCHANGED <<status, owner, lease, result>>
    /\ BackToBatch(w)
    /\ UNCHANGED <<attempts, purges>>

\* Variant: an event gets one attempt more than max_attempts.
StatusAfterFailureOneMore(e) == IF attempts[e] > MaxAttempts THEN "dead" ELSE "retry"

\* Variant: the column's CHECK has no 'failed', which is a status of message_jobs.
StatusAfterFailureOfJobs(e) == IF attempts[e] >= MaxAttempts THEN "failed" ELSE "retry"

StatusAfterFailure(e) == IF attempts[e] >= MaxAttempts THEN "dead" ELSE "retry"

\* Variant: the result is written without COALESCE.
FailInboundEventForgets(w, res) ==
    /\ IF Owns(w, cur[w])
          THEN Settle(cur[w], StatusAfterFailure(cur[w]), res)
          ELSE UNCHANGED <<status, owner, lease, result>>
    /\ BackToBatch(w)
    /\ UNCHANGED <<attempts, purges>>

\* result = COALESCE(:result, result).
FailInboundEvent(w, res) ==
    /\ IF Owns(w, cur[w])
          THEN Settle(cur[w], StatusAfterFailure(cur[w]),
                      IF res = None THEN result[cur[w]] ELSE res)
          ELSE UNCHANGED <<status, owner, lease, result>>
    /\ BackToBatch(w)
    /\ UNCHANGED <<attempts, purges>>

StopRun(w) ==
    /\ pc' = [pc EXCEPT ![w] = "ended"]
    /\ todo' = [todo EXCEPT ![w] = {}]
    /\ cur' = [cur EXCEPT ![w] = None]
    /\ UNCHANGED queueVars

EndRun(w) == pc[w] = "batch" /\ todo[w] = {} /\ StopRun(w)

\* The process dies, or the settling transaction itself raises.
Crash(w) == pc[w] \notin {"idle", "ended"} /\ StopRun(w)

LeaseExpires(e) ==
    /\ lease[e] = "live"
    /\ lease' = [lease EXCEPT ![e] = "expired"]
    /\ UNCHANGED <<status, attempts, owner, result, purges, runVars>>

\* Variant: only events that may be tried again are looked for.
StaleWithAttemptsLeft(e) ==
    status[e] = "leased" /\ lease[e] = "expired" /\ attempts[e] < MaxAttempts

Stale(e) == status[e] = "leased" /\ lease[e] = "expired"

RecoverStaleEvents ==
    /\ \E e \in Events : Stale(e)
    /\ status' = [e \in Events |-> IF Stale(e) THEN StatusAfterFailure(e) ELSE status[e]]
    /\ owner' = [e \in Events |-> IF Stale(e) THEN None ELSE owner[e]]
    /\ lease' = [e \in Events |-> IF Stale(e) THEN "none" ELSE lease[e]]
    /\ UNCHANGED <<attempts, result, purges, runVars>>

\* Retention deletes settled events; the provider may deliver them again.
PurgeEvent(e) ==
    /\ status[e] \in {"completed", "dead"}
    /\ purges[e] < MaxPurges
    /\ status' = [status EXCEPT ![e] = "absent"]
    /\ attempts' = [attempts EXCEPT ![e] = 0]
    /\ result' = [result EXCEPT ![e] = None]
    /\ purges' = [purges EXCEPT ![e] = @ + 1]
    /\ UNCHANGED <<owner, lease, runVars>>

\* The steps of the queue that are not a run's.
QueueStep ==
    \/ \E e \in Events : StoreInboundEvent(e) \/ LeaseExpires(e) \/ PurgeEvent(e)
    \/ RecoverStaleEvents

-------------------------------------------------------------------------------
(* Properties of the queue, whatever the runs do with its events.          *)

\* The columns and the runs' lists have the values the code gives them.
QueueTypeOK ==
    /\ status \in [Events -> EventStatus]
    /\ attempts \in [Events -> Nat]
    /\ owner \in [Events -> Runs \cup {None}]
    /\ lease \in [Events -> {"none", "live", "expired"}]
    /\ result \in [Events -> EventResult]
    /\ purges \in [Events -> Nat]
    /\ todo \in [Runs -> SUBSET Events]
    /\ cur \in [Runs -> Events \cup {None}]

\* An event in the queue has attempts left, and only an event whose attempts are
\* used up is given up: counted across failures, crashes and recoveries.
RetryBudget ==
    \A e \in Events :
        /\ attempts[e] <= MaxAttempts
        /\ status[e] \in {"queued", "retry"} => attempts[e] < MaxAttempts
        /\ status[e] = "dead" => attempts[e] = MaxAttempts

\* A run that lost its lease settles nothing: a completed event stays completed until
\* retention deletes it, and an event under a live lease is settled by its holder.
OnlyTheHolderSettles ==
    [][\A e \in Events :
          /\ status[e] = "completed" => status'[e] \in {"completed", "absent"}
          /\ status[e] = "leased" /\ lease[e] = "live" /\ status'[e] # "leased" =>
                cur[owner[e]] = e]_<<queueVars, runVars>>

\* A stored event does not stay in the queue or with a run for ever: it is
\* completed, or given up for the operators to see.
EventsSettle == \A e \in Events : status[e] = "queued" ~> status[e] \in {"completed", "dead"}
================================================================================
