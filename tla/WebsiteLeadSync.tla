---------------------------- MODULE WebsiteLeadSync ----------------------------
(***************************************************************************)
(* process_website_lead_poolbrain_events: every website lead becomes one   *)
(* PoolBrain customer with one note.  PoolBrain has no idempotency key: a  *)
(* create whose outcome is uncertain, or whose customer cannot be found    *)
(* yet, is remembered in the event's result so that a later attempt only   *)
(* searches.  The scheduled run and the immediate dispatch are both runs.  *)
(***************************************************************************)
EXTENDS EventQueue

VARIABLES
    seen,       \* seen[w]: result column of the claimed rows, as read by the claim
    customers,  \* customers PoolBrain created for the lead
    visible,    \* a search finds a customer that matches the lead
    notes,      \* notes with the lead's marker on that customer
    disturbed   \* history: leads with a lost lease, a crash, a deleted event, or an
                \* accepted create whose answer or second search raised

poolBrainVars == <<customers, visible, notes>>
leadVars == <<seen, poolBrainVars, disturbed>>
vars == <<queueVars, runVars, leadVars>>

\* Where a run stands in sync_website_lead.  "pending" is PoolBrainCreatePending,
\* "raised" any other exception, not recorded yet.
Phase ==
    {"idle", "batch", "search", "create", "verify", "note", "write", "pending", "raised",
     "synced", "ended"}

Init ==
    /\ QueueInit
    /\ seen = [w \in Runs |-> [e \in Events |-> None]]
    /\ customers = [e \in Events |-> 0]
    /\ visible \in [Events -> BOOLEAN]
    /\ notes = [e \in Events |-> 0]
    /\ disturbed = {}

ClaimLeads(w, batch) ==
    /\ ClaimInboundEvents(w, batch)
    /\ seen' = [seen EXCEPT ![w] = [e \in Events |-> IF e \in batch THEN result[e] ELSE None]]
    /\ UNCHANGED <<poolBrainVars, disturbed>>

BeginLead(w, e) ==
    /\ Take(w, e, "search")
    /\ UNCHANGED leadVars

Attempted(w) == seen[w][cur[w]] = "creation_attempted"

OnlyPhase(w, phase) ==
    /\ GoTo(w, phase)
    /\ UNCHANGED <<queueVars, todo, cur, leadVars>>

\* The first search, and what follows from what it finds.
FindMatchingCustomer(w) ==
    /\ pc[w] = "search"
    /\ IF visible[cur[w]] THEN OnlyPhase(w, "note")
       ELSE IF Attempted(w) THEN OnlyPhase(w, "pending")
       ELSE OnlyPhase(w, "create")

\* Variant: a 5xx answer is raised like a 4xx one.
CreateCustomerRaises(w) ==
    /\ pc[w] = "create"
    /\ \/ UNCHANGED customers /\ GoTo(w, "raised")
       \/ customers' = [customers EXCEPT ![cur[w]] = @ + 1] /\ GoTo(w, "raised")
       \/ customers' = [customers EXCEPT ![cur[w]] = @ + 1] /\ GoTo(w, "verify")
    /\ UNCHANGED <<queueVars, todo, cur, seen, visible, notes, disturbed>>

\* POST /v2/create_customer: refused (4xx), uncertain (5xx or no answer; the
\* customer may or may not exist), or accepted.
CreateCustomer(w) ==
    /\ pc[w] = "create"
    /\ \/ UNCHANGED customers /\ GoTo(w, "raised")
       \/ UNCHANGED customers /\ GoTo(w, "pending")
       \/ customers' = [customers EXCEPT ![cur[w]] = @ + 1] /\ GoTo(w, "pending")
       \/ customers' = [customers EXCEPT ![cur[w]] = @ + 1] /\ GoTo(w, "verify")
    /\ UNCHANGED <<queueVars, todo, cur, seen, visible, notes, disturbed>>

\* A create is accepted with an answer that is no JSON object: an exception like any
\* other, so the create is forgotten.
CreateAnswerUnreadable(w) ==
    /\ pc[w] = "create"
    /\ customers' = [customers EXCEPT ![cur[w]] = @ + 1]
    /\ GoTo(w, "raised")
    /\ disturbed' = disturbed \cup {cur[w]}
    /\ UNCHANGED <<queueVars, todo, cur, seen, visible, notes>>

\* Variant: an accepted create is taken for a customer that can be read.
FindCreatedCustomerAtOnce(w) == pc[w] = "verify" /\ OnlyPhase(w, "synced")

\* The search after an accepted create.
FindCreatedCustomer(w) ==
    /\ pc[w] = "verify"
    /\ OnlyPhase(w, IF visible[cur[w]] THEN "note" ELSE "pending")

\* That search raises: the create is forgotten in the same way.
SecondSearchRaises(w) ==
    /\ pc[w] = "verify"
    /\ GoTo(w, "raised")
    /\ disturbed' = disturbed \cup {cur[w]}
    /\ UNCHANGED <<queueVars, todo, cur, seen, poolBrainVars>>

\* The first half of _ensure_website_lead_note: is the marker there?
ReadNotes(w) ==
    /\ pc[w] = "note"
    /\ OnlyPhase(w, IF notes[cur[w]] > 0 THEN "synced" ELSE "write")

\* The second half: written, or an error that may have written it.
WriteNote(w) ==
    /\ pc[w] = "write"
    /\ \/ notes' = [notes EXCEPT ![cur[w]] = @ + 1] /\ GoTo(w, "synced")
       \/ notes' = [notes EXCEPT ![cur[w]] = @ + 1] /\ GoTo(w, "raised")
       \/ UNCHANGED notes /\ GoTo(w, "raised")
    /\ UNCHANGED <<queueVars, todo, cur, seen, customers, visible, disturbed>>

\* A GET before the create or after the customer was found raises, or the
\* customer has no RecordID.
GetRaises(w) == pc[w] \in {"search", "note"} /\ OnlyPhase(w, "raised")

CompleteLead(w) ==
    /\ pc[w] = "synced"
    /\ CompleteInboundEvent(w, "synced")
    /\ UNCHANGED leadVars

FailLead(w) ==
    /\ \/ pc[w] = "pending" /\ FailInboundEvent(w, "creation_attempted")
       \/ pc[w] = "raised" /\ FailInboundEvent(w, None)
    /\ UNCHANGED leadVars

Stop(w) ==
    /\ EndRun(w) \/ Crash(w)
    /\ disturbed' = disturbed \cup ({cur[w]} \ {None})
    /\ UNCHANGED <<seen, poolBrainVars>>

LeadLeaseExpires(e) ==
    /\ LeaseExpires(e)
    /\ disturbed' = disturbed \cup {e}
    /\ UNCHANGED <<seen, poolBrainVars>>

\* PoolBrain's search catches up with its creates.
CustomerAppears(e) ==
    /\ customers[e] > 0
    /\ ~visible[e]
    /\ visible' = [visible EXCEPT ![e] = TRUE]
    /\ UNCHANGED <<queueVars, runVars, seen, customers, notes, disturbed>>

RunStep(w) ==
    \/ \E e \in Events : BeginLead(w, e)
    \/ FindMatchingCustomer(w) \/ CreateCustomer(w) \/ CreateAnswerUnreadable(w)
    \/ FindCreatedCustomer(w) \/ SecondSearchRaises(w) \/ ReadNotes(w) \/ WriteNote(w) \/ GetRaises(w)
    \/ CompleteLead(w) \/ FailLead(w)

PurgeLead(e) ==
    /\ PurgeEvent(e)
    /\ disturbed' = disturbed \cup {e}
    /\ UNCHANGED <<seen, poolBrainVars>>

QuietQueueStep ==
    /\ RecoverStaleEvents \/ \E e \in Events : StoreInboundEvent(e)
    /\ UNCHANGED leadVars

Next ==
    \/ \E w \in Runs : RunStep(w) \/ Stop(w)
    \/ \E w \in Runs, batch \in SUBSET Events : ClaimLeads(w, batch)
    \/ \E e \in Events : LeadLeaseExpires(e) \/ PurgeLead(e) \/ CustomerAppears(e)
    \/ QuietQueueStep

Spec == Init /\ [][Next]_vars

-------------------------------------------------------------------------------
(* Properties.                                                             *)

\* The queue is well typed, and so are the phases and PoolBrain's records.
TypeOK ==
    /\ QueueTypeOK
    /\ pc \in [Runs -> Phase]
    /\ seen \in [Runs -> [Events -> EventResult]]
    /\ customers \in [Events -> Nat]
    /\ visible \in [Events -> BOOLEAN]
    /\ notes \in [Events -> Nat]
    /\ disturbed \subseteq Events

\* A completed lead has a customer that staff can find, with the lead's note on it,
\* whichever attempts created, timed out or crashed on the way.
CompletedLeadIsRecorded ==
    \A e \in Events : status[e] = "completed" => visible[e] /\ notes[e] > 0

\* An attempt that was recorded is never forgotten by a later failure that says
\* nothing of it: the mark goes only when the lead is synced or the row deleted.
AttemptIsRemembered ==
    [][\A e \in Events :
          result[e] = "creation_attempted" =>
              result'[e] \in {"creation_attempted", "synced"} \/ status'[e] = "absent"]_vars

\* A lead is created twice only after a lost lease, a crash, the deletion of its event
\* or an exception between an accepted create and the search that follows: a refused,
\* uncertain or slow create is never repeated by the retries.
DuplicatesNeedALostOutcome == \A e \in Events : customers[e] <= 1 \/ e \in disturbed

\* tests/test_poolbrain_website_leads.py:97: "PoolBrain create must not be repeated".
CreateIsNotRepeated == \A e \in Events : customers[e] <= 1
================================================================================
