-------------------------- MODULE WebsiteLeadSyncProofs --------------------------
(***************************************************************************)
(* Theorems about WebsiteLeadSync for every set of leads and runs and      *)
(* every value of the bounds.                                              *)
(***************************************************************************)
EXTENDS WebsiteLeadSync, EventQueueProofs

-------------------------------------------------------------------------------
(* The inductive invariant.                                                *)

\* Phases in which a run works on one lead of its batch.
AtLead == {"search", "create", "verify", "note", "write", "pending", "raised", "synced"}

\* What a step of the handler leaves for the proof of TypeOK'.
HandlerTypes ==
    /\ pc \in [Runs -> Phase]
    /\ seen \in [Runs -> [Events -> EventResult]]
    /\ customers \in [Events -> Nat]
    /\ visible \in [Events -> BOOLEAN]
    /\ notes \in [Events -> Nat]
    /\ disturbed \subseteq Events

RunsInStep ==
    \A w \in Runs :
        /\ pc[w] \in AtLead <=> cur[w] # None
        /\ cur[w] \notin todo[w]
        /\ pc[w] = "idle" => todo[w] = {}

\* Why CompletedLeadIsRecorded holds: a run reports a lead as synced after it found the
\* customer and the note, and neither goes away.
FoundIsVisible ==
    \A w \in Runs :
        /\ pc[w] \in {"note", "write", "synced"} => visible[cur[w]]
        /\ pc[w] = "synced" => notes[cur[w]] > 0

Holds(w, e) == e \in todo[w] \/ cur[w] = e

\* A lead that nothing disturbed is in the hands of the run that leased it and of no
\* other, and that run knows what the row remembers.
UndisturbedIsHeld ==
    \A e \in Events \ disturbed :
        /\ lease[e] # "expired"
        /\ \A w \in Runs : Holds(w, e) =>
              status[e] = "leased" /\ owner[e] = w /\ seen[w][e] = result[e]

\* Why it is not created again: a customer that was created for it can be found, is
\* remembered in the row, or will be by the run that waits for it.
CreateIsKnown(e) ==
    \/ customers[e] = 0
    \/ visible[e]
    \/ result[e] = "creation_attempted"
    \/ \E w \in Runs : cur[w] = e /\ pc[w] \in {"verify", "pending"}

UndisturbedIsKnown ==
    \A e \in Events \ disturbed :
        /\ CreateIsKnown(e)
        /\ customers[e] <= 1
        /\ \A w \in Runs : cur[w] = e /\ pc[w] = "create" => customers[e] = 0

LeadInv ==
    /\ QueueInv
    /\ HandlerTypes
    /\ RunsInStep
    /\ FoundIsVisible
    /\ CompletedLeadIsRecorded
    /\ UndisturbedIsHeld
    /\ UndisturbedIsKnown

LEMMA TypeOKParts == TypeOK <=> QueueTypeOK /\ HandlerTypes
BY DEF TypeOK, HandlerTypes

LEMMA InitInv == Init => LeadInv
<1> SUFFICES ASSUME Init PROVE LeadInv
    OBVIOUS
<1> USE DEF Init, QueueInit
<1>1. QueueInv
    BY QueueInitInv
<1>2. HandlerTypes
    BY DEF HandlerTypes, Phase, EventResult
<1>3. RunsInStep
    BY DEF RunsInStep, AtLead
<1>4. FoundIsVisible /\ CompletedLeadIsRecorded
    BY DEF FoundIsVisible, CompletedLeadIsRecorded
<1>5. UndisturbedIsHeld /\ UndisturbedIsKnown
    BY QueueConstants DEF UndisturbedIsHeld, UndisturbedIsKnown, Holds, CreateIsKnown
<1> QED BY <1>1, <1>2, <1>3, <1>4, <1>5 DEF LeadInv

-------------------------------------------------------------------------------
(* The steps of a run within one lead.                                     *)

PhaseStep(w) ==
    \/ FindMatchingCustomer(w) \/ CreateCustomer(w) \/ CreateAnswerUnreadable(w)
    \/ FindCreatedCustomer(w) \/ SecondSearchRaises(w) \/ ReadNotes(w) \/ WriteNote(w)
    \/ GetRaises(w)

LEMMA PhaseStepShape ==
    ASSUME NEW w \in Runs, PhaseStep(w)
    PROVE  /\ pc[w] \in {"search", "create", "verify", "note", "write"}
           /\ \E phase \in AtLead \ {"search"} : GoTo(w, phase)
           /\ UNCHANGED <<queueVars, todo, cur, seen, visible>>
BY DEF PhaseStep, FindMatchingCustomer, CreateCustomer, CreateAnswerUnreadable,
       FindCreatedCustomer, SecondSearchRaises, ReadNotes, WriteNote, GetRaises, OnlyPhase,
       leadVars, poolBrainVars, AtLead

LEMMA CurrentLead ==
    ASSUME LeadInv, NEW w \in Runs, pc[w] \in AtLead
    PROVE  cur[w] \in Events
BY DEF LeadInv, RunsInStep, QueueInv, QueueTypeOK

LEMMA PhaseStepTypes ==
    ASSUME LeadInv, NEW w \in Runs, PhaseStep(w)
    PROVE  HandlerTypes'
<1>1. pc[w] \in AtLead
    BY PhaseStepShape DEF AtLead
<1>2. cur[w] \in Events
    BY <1>1, CurrentLead
<1>3. pc' \in [Runs -> Phase] /\ seen' = seen /\ visible' = visible
    BY PhaseStepShape DEF GoTo, LeadInv, HandlerTypes, Phase, AtLead
<1>4. /\ customers' = customers \/ customers' = [customers EXCEPT ![cur[w]] = @ + 1]
      /\ notes' = notes \/ notes' = [notes EXCEPT ![cur[w]] = @ + 1]
      /\ disturbed' = disturbed \/ disturbed' = disturbed \cup {cur[w]}
    BY DEF PhaseStep, FindMatchingCustomer, CreateCustomer, CreateAnswerUnreadable,
           FindCreatedCustomer, SecondSearchRaises, ReadNotes, WriteNote, GetRaises, OnlyPhase,
           leadVars, poolBrainVars
<1>5. customers' \in [Events -> Nat] /\ notes' \in [Events -> Nat] /\ disturbed' \subseteq Events
    BY <1>2, <1>4 DEF LeadInv, HandlerTypes
<1> QED BY <1>3, <1>5 DEF LeadInv, HandlerTypes

LEMMA PhaseStepFound ==
    ASSUME LeadInv, NEW w \in Runs, PhaseStep(w)
    PROVE  FoundIsVisible' /\ CompletedLeadIsRecorded'
<1> USE DEF LeadInv, HandlerTypes
<1>1. pc[w] \in AtLead
    BY PhaseStepShape DEF AtLead
<1>2. PICK e \in Events : cur[w] = e
    BY <1>1, CurrentLead
<1>3. UNCHANGED <<status, cur, visible>>
    BY PhaseStepShape DEF queueVars
<1>4. \A f \in Events : notes[f] > 0 => notes'[f] > 0
    BY <1>2 DEF PhaseStep, FindMatchingCustomer, CreateCustomer, CreateAnswerUnreadable,
           FindCreatedCustomer, SecondSearchRaises, ReadNotes, WriteNote, GetRaises, OnlyPhase,
           leadVars, poolBrainVars
<1>5. /\ pc'[w] \in {"note", "write", "synced"} => visible[e]
      /\ pc'[w] = "synced" => notes'[e] > 0
    BY <1>2 DEF PhaseStep, FindMatchingCustomer, CreateCustomer, CreateAnswerUnreadable,
           FindCreatedCustomer, SecondSearchRaises, ReadNotes, WriteNote, GetRaises, OnlyPhase,
           GoTo, leadVars, poolBrainVars, FoundIsVisible
<1>6. \A v \in Runs \ {w} : pc'[v] = pc[v]
    BY PhaseStepShape DEF GoTo
<1>7. FoundIsVisible'
    <2> SUFFICES ASSUME NEW v \in Runs
                 PROVE  /\ pc'[v] \in {"note", "write", "synced"} => visible'[cur'[v]]
                        /\ pc'[v] = "synced" => notes'[cur'[v]] > 0
        BY DEF FoundIsVisible
    <2>1. CASE v = w
        BY <1>2, <1>3, <1>5, <2>1
    <2>2. CASE v # w
        <3>1. pc[v] = "synced" => cur[v] \in Events
            BY CurrentLead DEF AtLead
        <3> QED BY <1>3, <1>4, <1>6, <2>2, <3>1 DEF FoundIsVisible
    <2> QED BY <2>1, <2>2
<1>8. CompletedLeadIsRecorded'
    BY <1>3, <1>4 DEF CompletedLeadIsRecorded
<1> QED BY <1>7, <1>8

LEMMA PhaseStepKnown ==
    ASSUME LeadInv, NEW w \in Runs, PhaseStep(w)
    PROVE  UndisturbedIsKnown'
<1> USE DEF LeadInv, HandlerTypes
<1>1. PICK e \in Events : cur[w] = e
    BY PhaseStepShape, CurrentLead DEF AtLead
<1>2. UNCHANGED <<status, result, cur, todo, visible, seen>>
    BY PhaseStepShape DEF queueVars
<1>3. disturbed \subseteq disturbed'
    BY DEF PhaseStep, FindMatchingCustomer, CreateCustomer, CreateAnswerUnreadable,
           FindCreatedCustomer, SecondSearchRaises, ReadNotes, WriteNote, GetRaises, OnlyPhase,
           leadVars
<1>4. \A v \in Runs \ {w} : pc'[v] = pc[v]
    BY PhaseStepShape DEF GoTo
<1>5. ASSUME NEW f \in Events \ disturbed', f # e
      PROVE  /\ CreateIsKnown(f)'
             /\ customers'[f] <= 1
             /\ \A v \in Runs : cur'[v] = f /\ pc'[v] = "create" => customers'[f] = 0
    <2>1. customers'[f] = customers[f]
        BY <1>1, <1>5 DEF PhaseStep, FindMatchingCustomer, CreateCustomer,
           CreateAnswerUnreadable, FindCreatedCustomer, SecondSearchRaises, ReadNotes, WriteNote,
           GetRaises, OnlyPhase, leadVars, poolBrainVars
    <2> QED BY <1>1, <1>2, <1>3, <1>4, <1>5, <2>1 DEF UndisturbedIsKnown, CreateIsKnown
<1>6. ASSUME e \notin disturbed'
      PROVE  /\ CreateIsKnown(e)'
             /\ customers'[e] <= 1
             /\ \A v \in Runs : cur'[v] = e /\ pc'[v] = "create" => customers'[e] = 0
    <2>1. /\ CreateIsKnown(e) /\ customers[e] <= 1
          /\ \A v \in Runs : cur[v] = e /\ pc[v] = "create" => customers[e] = 0
        BY <1>3, <1>6 DEF UndisturbedIsKnown
    <2>2. seen[w][e] = result[e] /\ \A v \in Runs : cur[v] = e => v = w
        BY <1>1, <1>3, <1>6 DEF UndisturbedIsHeld, Holds
    <2>3. CASE FindMatchingCustomer(w)
        <3>1. customers' = customers
            BY <2>3 DEF FindMatchingCustomer, OnlyPhase, leadVars, poolBrainVars
        <3>2. pc[w] = "search"
            BY <2>3 DEF FindMatchingCustomer
        <3>3. customers[e] = 0 \/ visible[e] \/ result[e] = "creation_attempted"
            BY <2>1, <2>2, <3>2 DEF CreateIsKnown
        <3>4. pc'[w] = "create" => ~visible[e] /\ result[e] # "creation_attempted"
            BY <1>1, <2>2, <2>3 DEF FindMatchingCustomer, OnlyPhase, GoTo, Attempted
        <3> QED BY <1>2, <2>1, <2>2, <3>1, <3>3, <3>4 DEF CreateIsKnown
    <2>4. CASE CreateCustomer(w)
        <3>1. customers[e] = 0
            BY <1>1, <2>1, <2>4 DEF CreateCustomer
        <3>2. pc'[w] # "create"
            BY <2>4 DEF CreateCustomer, GoTo
        <3>3. \/ customers'[e] = 0
              \/ customers'[e] = 1 /\ pc'[w] \in {"verify", "pending"}
            BY <1>1, <2>4, <3>1 DEF CreateCustomer, GoTo
        <3> QED BY <1>1, <1>2, <2>2, <3>2, <3>3 DEF CreateIsKnown
    <2>5. CASE FindCreatedCustomer(w)
        <3>1. visible[e] \/ pc'[w] = "pending"
            BY <1>1, <2>5 DEF FindCreatedCustomer, OnlyPhase, GoTo
        <3>2. pc'[w] # "create" /\ customers' = customers
            BY <2>5 DEF FindCreatedCustomer, OnlyPhase, GoTo, leadVars, poolBrainVars
        <3> QED BY <1>1, <1>2, <2>1, <2>2, <3>1, <3>2 DEF CreateIsKnown
    <2>6. CASE ReadNotes(w) \/ WriteNote(w) \/ GetRaises(w)
        <3>1. pc'[w] # "create" /\ customers' = customers /\ pc[w] \notin {"verify", "pending"}
            BY <2>6 DEF ReadNotes, WriteNote, GetRaises, OnlyPhase, GoTo, leadVars, poolBrainVars
        <3> QED BY <1>1, <1>2, <2>1, <2>2, <3>1 DEF CreateIsKnown
    <2>7. ~CreateAnswerUnreadable(w) /\ ~SecondSearchRaises(w)
        BY <1>1, <1>6 DEF CreateAnswerUnreadable, SecondSearchRaises
    <2> QED BY <2>3, <2>4, <2>5, <2>6, <2>7 DEF PhaseStep
<1> QED BY <1>5, <1>6 DEF UndisturbedIsKnown

LEMMA PhaseStepInv ==
    ASSUME LeadInv, NEW w \in Runs, PhaseStep(w)
    PROVE  LeadInv' /\ HolderStep
<1>1. QueueInv' /\ HolderStep
    BY PhaseStepShape, QueueUnchanged DEF LeadInv
<1>2. RunsInStep'
    BY PhaseStepShape DEF LeadInv, HandlerTypes, RunsInStep, GoTo, AtLead
<1>3. disturbed \subseteq disturbed'
    BY DEF PhaseStep, FindMatchingCustomer, CreateCustomer, CreateAnswerUnreadable,
           FindCreatedCustomer, SecondSearchRaises, ReadNotes, WriteNote, GetRaises, OnlyPhase,
           leadVars
<1>4. UndisturbedIsHeld'
    BY <1>3, PhaseStepShape DEF LeadInv, UndisturbedIsHeld, Holds, queueVars
<1> QED BY <1>1, <1>2, <1>4, PhaseStepTypes, PhaseStepFound, PhaseStepKnown DEF LeadInv

-------------------------------------------------------------------------------
(* The claim, the hand-over of leads within a batch, and the queue.         *)

LEMMA BeginLeadInv ==
    ASSUME LeadInv, NEW w \in Runs, NEW e \in Events, BeginLead(w, e)
    PROVE  LeadInv' /\ HolderStep
<1> USE DEF LeadInv, HandlerTypes, BeginLead, Take, GoTo, leadVars, poolBrainVars
<1>1. QueueInv' /\ HolderStep
    BY TakeInv
<1>2. HandlerTypes'
    BY DEF Phase
<1>3. RunsInStep'
    BY QueueConstants DEF RunsInStep, AtLead, QueueInv, QueueTypeOK
<1>4. FoundIsVisible' /\ CompletedLeadIsRecorded'
    BY DEF FoundIsVisible, CompletedLeadIsRecorded, queueVars, QueueInv, QueueTypeOK
<1>5. UndisturbedIsHeld'
    BY DEF UndisturbedIsHeld, Holds, queueVars, QueueInv, QueueTypeOK
<1>6. UndisturbedIsKnown'
    <2>1. cur[w] = None
        BY DEF RunsInStep, AtLead
    <2>2. \A v \in Runs, f \in Events : cur[v] = f => cur'[v] = f /\ pc'[v] = pc[v]
        BY <2>1, QueueConstants DEF QueueInv, QueueTypeOK
    <2>3. \A f \in Events : CreateIsKnown(f) => CreateIsKnown(f)'
        BY <2>2 DEF CreateIsKnown, queueVars
    <2>4. \A v \in Runs, f \in Events : cur'[v] = f /\ pc'[v] = "create" =>
              cur[v] = f /\ pc[v] = "create"
        BY DEF QueueInv, QueueTypeOK
    <2> QED BY <2>3, <2>4 DEF UndisturbedIsKnown
<1> QED BY <1>1, <1>2, <1>3, <1>4, <1>5, <1>6

LEMMA ClaimLeadsInv ==
    ASSUME LeadInv, NEW w \in Runs, NEW batch \in SUBSET Events, ClaimLeads(w, batch)
    PROVE  LeadInv' /\ HolderStep
<1> USE DEF LeadInv, HandlerTypes, ClaimLeads, ClaimInboundEvents, poolBrainVars
<1>1. QueueInv' /\ HolderStep
    BY ClaimInv
<1>2. HandlerTypes'
    BY DEF Phase, QueueInv, QueueTypeOK, EventResult
<1>3. cur[w] = None /\ todo[w] = {}
    BY DEF RunsInStep, AtLead
<1>4. RunsInStep'
    BY <1>3, QueueConstants DEF RunsInStep, AtLead, QueueInv, QueueTypeOK
<1>5. FoundIsVisible' /\ CompletedLeadIsRecorded'
    BY DEF FoundIsVisible, CompletedLeadIsRecorded
<1>6. UndisturbedIsHeld'
    <2> SUFFICES ASSUME NEW e \in Events \ disturbed
                 PROVE  /\ lease'[e] # "expired"
                        /\ \A v \in Runs : Holds(v, e)' =>
                              status'[e] = "leased" /\ owner'[e] = v /\ seen'[v][e] = result'[e]
        BY DEF UndisturbedIsHeld
    <2>1. CASE e \in batch
        <3>1. \A v \in Runs : ~Holds(v, e)
            BY <2>1 DEF UndisturbedIsHeld
        <3>2. \A v \in Runs : Holds(v, e)' => v = w
            BY <1>3, <3>1 DEF Holds, QueueInv, QueueTypeOK
        <3> QED BY <2>1, <3>2
    <2>2. CASE e \notin batch
        <3>1. \A v \in Runs : Holds(v, e)' => Holds(v, e) /\ v # w
            BY <1>3, <2>2, QueueConstants DEF Holds, QueueInv, QueueTypeOK
        <3> QED BY <2>2, <3>1 DEF UndisturbedIsHeld
    <2> QED BY <2>1, <2>2
<1>7. UndisturbedIsKnown'
    <2>1. \A v \in Runs, f \in Events : cur[v] = f => cur'[v] = f /\ pc'[v] = pc[v]
        BY <1>3, QueueConstants DEF QueueInv, QueueTypeOK
    <2>2. \A f \in Events : CreateIsKnown(f) => CreateIsKnown(f)'
        BY <2>1 DEF CreateIsKnown
    <2>3. \A v \in Runs, f \in Events : cur'[v] = f /\ pc'[v] = "create" =>
              cur[v] = f /\ pc[v] = "create"
        BY DEF QueueInv, QueueTypeOK
    <2> QED BY <2>2, <2>3 DEF UndisturbedIsKnown
<1> QED BY <1>1, <1>2, <1>4, <1>5, <1>6, <1>7

\* A run that is done with lead e, whoever has the row.
LeavesLead(w, e) ==
    /\ cur[w] = e
    /\ pc' = [pc EXCEPT ![w] = "batch"]
    /\ cur' = [cur EXCEPT ![w] = None]
    /\ UNCHANGED <<todo, leadVars>>

\* Its settling transaction wrote the row, or matched nothing.
Wrote(w, e, new, res) == Owns(w, e) /\ Settle(e, new, res)
FoundNothing(w, e) == ~Owns(w, e) /\ UNCHANGED <<status, owner, lease, result>>

LEMMA LeavesLeadInv ==
    ASSUME LeadInv, QueueInv', NEW w \in Runs, NEW e \in Events, LeavesLead(w, e),
           NEW new \in {"completed", "dead", "retry"}, NEW res \in EventResult,
           Wrote(w, e, new, res) \/ FoundNothing(w, e),
           new = "completed" => visible[e] /\ notes[e] > 0,
           pc[w] = "pending" => res = "creation_attempted",
           pc[w] # "verify",
           res = "creation_attempted" \/ res = result[e] \/ visible[e]
    PROVE  LeadInv'
<1> USE DEF LeadInv, HandlerTypes, LeavesLead, leadVars, poolBrainVars
<1>1. HandlerTypes'
    BY DEF Phase
<1>2. RunsInStep'
    BY QueueConstants DEF RunsInStep, AtLead, QueueInv, QueueTypeOK
<1>3. FoundIsVisible'
    BY DEF FoundIsVisible, QueueInv, QueueTypeOK
<1>4. CompletedLeadIsRecorded'
    BY DEF CompletedLeadIsRecorded, Wrote, FoundNothing, Settle, QueueInv, QueueTypeOK
<1>5. \A v \in Runs, f \in Events : Holds(v, f)' => Holds(v, f) /\ ~(v = w /\ f = e)
    BY QueueConstants DEF Holds, RunsInStep, QueueInv, QueueTypeOK
<1>6. \A f \in Events \ {e} :
          /\ status'[f] = status[f] /\ owner'[f] = owner[f]
          /\ lease'[f] = lease[f] /\ result'[f] = result[f]
    BY DEF Wrote, FoundNothing, Settle, QueueInv, QueueTypeOK
<1>7. e \notin disturbed => Owns(w, e)
    BY DEF UndisturbedIsHeld, Holds, Owns
<1>8. e \notin disturbed => result'[e] = res /\ lease'[e] = "none"
    BY <1>7 DEF Wrote, FoundNothing, Settle, QueueInv, QueueTypeOK
<1>9. e \notin disturbed => \A v \in Runs : ~Holds(v, e)'
    BY <1>5 DEF UndisturbedIsHeld, Holds
<1>10. UndisturbedIsHeld'
    BY <1>5, <1>6, <1>8, <1>9 DEF UndisturbedIsHeld
<1>11. \A v \in Runs, f \in Events : cur[v] = f /\ ~(v = w /\ f = e) => cur'[v] = f /\ pc'[v] = pc[v]
    BY DEF QueueInv, QueueTypeOK
<1>12. \A v \in Runs, f \in Events : cur'[v] = f /\ pc'[v] = "create" =>
              cur[v] = f /\ pc[v] = "create"
    BY DEF QueueInv, QueueTypeOK
<1>13. ASSUME NEW f \in Events \ disturbed, CreateIsKnown(f) PROVE CreateIsKnown(f)'
    <2>1. CASE f # e
        BY <1>6, <1>11, <1>13, <2>1 DEF CreateIsKnown
    <2>2. CASE f = e
        <3>1. result'[e] = res
            BY <1>8, <2>2
        <3>2. ASSUME NEW v \in Runs, cur[v] = e, pc[v] \in {"verify", "pending"}
              PROVE  res = "creation_attempted"
            BY <2>2, <3>2 DEF UndisturbedIsHeld, Holds
        <3> QED BY <1>13, <2>2, <3>1, <3>2 DEF CreateIsKnown
    <2> QED BY <2>1, <2>2
<1>14. UndisturbedIsKnown'
    BY <1>12, <1>13 DEF UndisturbedIsKnown
<1> QED BY <1>1, <1>2, <1>3, <1>4, <1>10, <1>14

LEMMA CompleteLeadInv ==
    ASSUME LeadInv, NEW w \in Runs, CompleteLead(w)
    PROVE  LeadInv' /\ HolderStep
<1>1. PICK e \in Events : cur[w] = e
    BY CurrentLead DEF CompleteLead, AtLead
<1>2. "synced" \in EventResult
    BY DEF EventResult
<1>3. QueueInv' /\ HolderStep
    BY <1>1, <1>2, CompleteInv DEF CompleteLead, LeadInv
<1>4. visible[e] /\ notes[e] > 0
    BY <1>1 DEF CompleteLead, LeadInv, FoundIsVisible
<1>5. LeavesLead(w, e) /\ (Wrote(w, e, "completed", "synced") \/ FoundNothing(w, e))
    BY <1>1 DEF CompleteLead, CompleteInboundEvent, LeavesLead, Wrote, FoundNothing, BackToBatch,
                GoTo
<1>6. pc[w] = "synced"
    BY DEF CompleteLead
<1> QED BY <1>2, <1>3, <1>4, <1>5, <1>6, LeavesLeadInv

LEMMA FailLeadInv ==
    ASSUME LeadInv, NEW w \in Runs, FailLead(w)
    PROVE  LeadInv' /\ HolderStep
<1>1. PICK e \in Events : cur[w] = e
    BY CurrentLead DEF FailLead, AtLead
<1>2. PICK asked \in EventResult :
          /\ FailInboundEvent(w, asked)
          /\ \/ pc[w] = "pending" /\ asked = "creation_attempted"
             \/ pc[w] = "raised" /\ asked = None
    BY DEF FailLead, EventResult
<1>3. QueueInv' /\ HolderStep
    BY <1>1, <1>2, FailInv DEF LeadInv
<1> DEFINE res == IF asked = None THEN result[e] ELSE asked
           new == StatusAfterFailure(e)
<1>4. res \in EventResult /\ new \in {"completed", "dead", "retry"} /\ new # "completed"
    BY StatusAfterFailureBudget DEF LeadInv, QueueInv, QueueTypeOK
<1>5. LeavesLead(w, e) /\ (Wrote(w, e, new, res) \/ FoundNothing(w, e))
    BY <1>1, <1>2 DEF FailLead, FailInboundEvent, LeavesLead, Wrote, FoundNothing, BackToBatch,
                      GoTo
<1>6. /\ pc[w] = "pending" => res = "creation_attempted"
      /\ res = "creation_attempted" \/ res = result[e]
      /\ pc[w] # "verify"
    BY <1>2, QueueConstants DEF EventResult
<1> HIDE DEF res, new
<1> QED BY <1>3, <1>4, <1>5, <1>6, LeavesLeadInv

LEMMA StopInv ==
    ASSUME LeadInv, NEW w \in Runs, Stop(w)
    PROVE  LeadInv' /\ HolderStep
<1> USE DEF LeadInv, HandlerTypes, poolBrainVars
<1>1. QueueInv' /\ HolderStep
    BY StopRunInv DEF Stop
<1>2. /\ pc' = [pc EXCEPT ![w] = "ended"]
      /\ todo' = [todo EXCEPT ![w] = {}]
      /\ cur' = [cur EXCEPT ![w] = None]
      /\ disturbed' = disturbed \cup ({cur[w]} \ {None})
      /\ UNCHANGED <<queueVars, seen, poolBrainVars>>
    BY DEF Stop, EndRun, Crash, StopRun
<1>3. HandlerTypes'
    BY <1>2 DEF Phase, QueueInv, QueueTypeOK
<1>4. RunsInStep'
    BY <1>2 DEF RunsInStep, AtLead, QueueInv, QueueTypeOK
<1>5. FoundIsVisible' /\ CompletedLeadIsRecorded'
    BY <1>2 DEF FoundIsVisible, CompletedLeadIsRecorded, queueVars, QueueInv, QueueTypeOK
<1>6. \A v \in Runs, e \in Events : Holds(v, e)' => Holds(v, e)
    BY <1>2, QueueConstants DEF Holds, QueueInv, QueueTypeOK
<1>7. UndisturbedIsHeld'
    BY <1>2, <1>6 DEF UndisturbedIsHeld, queueVars
<1>8. \A v \in Runs, e \in Events \ disturbed' : cur[v] = e => cur'[v] = e /\ pc'[v] = pc[v]
    BY <1>2, QueueConstants DEF QueueInv, QueueTypeOK
<1>9. \A e \in Events \ disturbed' : CreateIsKnown(e) => CreateIsKnown(e)'
    BY <1>2, <1>8 DEF CreateIsKnown, queueVars
<1>10. \A v \in Runs, e \in Events : cur'[v] = e /\ pc'[v] = "create" =>
            cur[v] = e /\ pc[v] = "create"
    BY <1>2 DEF QueueInv, QueueTypeOK
<1>11. UndisturbedIsKnown'
    BY <1>2, <1>9, <1>10 DEF UndisturbedIsKnown
<1> QED BY <1>1, <1>3, <1>4, <1>5, <1>7, <1>11

\* A step of the queue that moves no run, and whose rows are still held by their runs.
LEMMA QueueRowsInv ==
    ASSUME LeadInv, QueueInv', UNCHANGED <<runVars, seen, customers, notes>>,
           visible' \in [Events -> BOOLEAN], disturbed' \subseteq Events,
           disturbed \subseteq disturbed',
           \A e \in Events : visible[e] => visible'[e],
           \A e \in Events : status'[e] = "completed" => status[e] = "completed",
           \A e \in Events \ disturbed' :
               /\ result'[e] = result[e]
               /\ lease'[e] # "expired"
               /\ status[e] = "leased" => status'[e] = "leased" /\ owner'[e] = owner[e]
    PROVE  LeadInv'
<1> USE DEF LeadInv, HandlerTypes, runVars
<1>1. HandlerTypes' /\ RunsInStep'
    BY DEF RunsInStep
<1>2. FoundIsVisible'
    BY CurrentLead DEF FoundIsVisible, AtLead
<1>3. CompletedLeadIsRecorded'
    BY DEF CompletedLeadIsRecorded
<1>4. UndisturbedIsHeld'
    BY DEF UndisturbedIsHeld, Holds
<1>5. UndisturbedIsKnown'
    BY DEF UndisturbedIsKnown, CreateIsKnown
<1> QED BY <1>1, <1>2, <1>3, <1>4, <1>5

LEMMA LeadLeaseExpiresInv ==
    ASSUME LeadInv, NEW e \in Events, LeadLeaseExpires(e)
    PROVE  LeadInv' /\ HolderStep
<1>1. QueueInv' /\ HolderStep
    BY LeaseExpiresInv DEF LeadLeaseExpires, LeadInv
<1>2. \A f \in Events \ {e} : lease'[f] = lease[f]
    BY DEF LeadLeaseExpires, LeaseExpires, LeadInv, QueueInv, QueueTypeOK
<1> QED BY <1>1, <1>2, QueueRowsInv
        DEF LeadLeaseExpires, LeaseExpires, LeadInv, HandlerTypes, UndisturbedIsHeld, poolBrainVars

LEMMA PurgeLeadInv ==
    ASSUME LeadInv, NEW e \in Events, PurgeLead(e)
    PROVE  LeadInv' /\ HolderStep
<1>1. QueueInv' /\ HolderStep
    BY PurgeInv DEF PurgeLead, LeadInv
<1>2. \A f \in Events \ {e} : status'[f] = status[f] /\ result'[f] = result[f]
    BY DEF PurgeLead, PurgeEvent, LeadInv, QueueInv, QueueTypeOK
<1>3. status'[e] = "absent"
    BY DEF PurgeLead, PurgeEvent, LeadInv, QueueInv, QueueTypeOK
<1> QED BY <1>1, <1>2, <1>3, QueueRowsInv
        DEF PurgeLead, PurgeEvent, LeadInv, HandlerTypes, UndisturbedIsHeld, poolBrainVars

LEMMA CustomerAppearsInv ==
    ASSUME LeadInv, NEW e \in Events, CustomerAppears(e)
    PROVE  LeadInv' /\ HolderStep
<1>1. QueueInv' /\ HolderStep
    BY QueueUnchanged DEF CustomerAppears, LeadInv, runVars
<1>2. visible' \in [Events -> BOOLEAN] /\ \A f \in Events : visible[f] => visible'[f]
    BY DEF CustomerAppears, LeadInv, HandlerTypes
<1> QED BY <1>1, <1>2, QueueRowsInv
        DEF CustomerAppears, LeadInv, HandlerTypes, UndisturbedIsHeld, queueVars

LEMMA QuietQueueStepInv ==
    ASSUME LeadInv, QuietQueueStep
    PROVE  LeadInv' /\ HolderStep
<1> USE DEF LeadInv, HandlerTypes, leadVars, poolBrainVars
<1>1. CASE RecoverStaleEvents
    <2>1. QueueInv' /\ HolderStep
        BY <1>1, RecoverInv
    <2>2. \A e \in Events : StatusAfterFailure(e) # "completed"
        BY StatusAfterFailureBudget
    <2>3. \A e \in Events \ disturbed : ~Stale(e)
        BY DEF Stale, UndisturbedIsHeld
    <2>4. \A e \in Events : status'[e] = "completed" => status[e] = "completed"
        BY <1>1, <2>2 DEF RecoverStaleEvents
    <2> QED BY <1>1, <2>1, <2>3, <2>4, QueueRowsInv
            DEF RecoverStaleEvents, QuietQueueStep, UndisturbedIsHeld
<1>2. ASSUME NEW e \in Events, StoreInboundEvent(e) PROVE LeadInv' /\ HolderStep
    <2>1. QueueInv' /\ HolderStep
        BY <1>2, StoreInv
    <2>2. \A f \in Events : /\ status'[f] = "completed" => status[f] = "completed"
                            /\ status[f] = "leased" => status'[f] = "leased"
        BY <1>2 DEF StoreInboundEvent, QueueInv, QueueTypeOK
    <2> QED BY <1>2, <2>1, <2>2, QueueRowsInv
            DEF StoreInboundEvent, QuietQueueStep, UndisturbedIsHeld
<1> QED BY <1>1, <1>2 DEF QuietQueueStep

LEMMA NextInv == LeadInv /\ [Next]_vars => LeadInv' /\ HolderStep
<1> SUFFICES ASSUME LeadInv, [Next]_vars PROVE LeadInv' /\ HolderStep
    OBVIOUS
<1>1. ASSUME NEW w \in Runs, RunStep(w) PROVE LeadInv' /\ HolderStep
    BY <1>1, BeginLeadInv, PhaseStepInv, CompleteLeadInv, FailLeadInv DEF RunStep, PhaseStep
<1>2. CASE UNCHANGED vars
    <2>1. QueueInv' /\ HolderStep
        BY <1>2, QueueUnchanged DEF vars, LeadInv, runVars
    <2> QED BY <1>2, <2>1, QueueRowsInv
            DEF vars, leadVars, poolBrainVars, queueVars, LeadInv, HandlerTypes, UndisturbedIsHeld
<1> QED
    BY <1>1, <1>2, StopInv, ClaimLeadsInv, LeadLeaseExpiresInv, PurgeLeadInv, CustomerAppearsInv,
       QuietQueueStepInv
    DEF Next

-------------------------------------------------------------------------------
(* The theorems.                                                           *)

\* The invariant of the synchronisation holds in every reachable state.
THEOREM LeadInvariant == Spec => []LeadInv
BY InitInv, NextInv, PTL DEF Spec

\* The queue, the phases and PoolBrain's records are well typed.
THEOREM TypeCorrect == Spec => []TypeOK
<1>1. LeadInv => TypeOK
    BY TypeOKParts DEF LeadInv, QueueInv
<1> QED BY <1>1, LeadInvariant, PTL

\* process_website_lead_poolbrain_events completes a lead only when a search finds its
\* customer and the note with its marker is there, over all attempts and overlapping runs.
THEOREM CompletedLeadIsRecordedHolds == Spec => []CompletedLeadIsRecorded
<1>1. LeadInv => CompletedLeadIsRecorded
    BY DEF LeadInv
<1> QED BY <1>1, LeadInvariant, PTL

\* A second customer for one lead needs a lost lease, a crash, a deleted event or an
\* exception right after an accepted create; the retries themselves never make one.
THEOREM DuplicatesNeedALostOutcomeHolds == Spec => []DuplicatesNeedALostOutcome
<1>1. LeadInv => DuplicatesNeedALostOutcome
    BY DEF LeadInv, UndisturbedIsKnown, DuplicatesNeedALostOutcome
<1> QED BY <1>1, LeadInvariant, PTL

\* fail_inbound_event's COALESCE keeps the mark of an attempted create through every later
\* failure, recovery and overlapping run.
THEOREM AttemptIsRememberedHolds == Spec => AttemptIsRemembered
<1> DEFINE Kept == \A e \in Events :
               result[e] = "creation_attempted" =>
                   result'[e] \in {"creation_attempted", "synced"} \/ status'[e] = "absent"
<1>1. LeadInv /\ [Next]_vars => Kept
    <2> SUFFICES ASSUME LeadInv, [Next]_vars, NEW e \in Events, result[e] = "creation_attempted"
                 PROVE  result'[e] \in {"creation_attempted", "synced"} \/ status'[e] = "absent"
        OBVIOUS
    <2>1. CASE UNCHANGED result
        BY <2>1
    <2>2. ASSUME NEW w \in Runs, CompleteLead(w) \/ FailLead(w)
          PROVE  result'[e] \in {"creation_attempted", "synced"}
        BY <2>2 DEF CompleteLead, FailLead, CompleteInboundEvent, FailInboundEvent, Settle,
                    LeadInv, QueueInv, QueueTypeOK
    <2>3. ASSUME NEW f \in Events, PurgeLead(f)
          PROVE  result'[e] = result[e] \/ status'[e] = "absent"
        BY <2>3 DEF PurgeLead, PurgeEvent, LeadInv, QueueInv, QueueTypeOK
    <2>4. ASSUME NEW w \in Runs, PhaseStep(w) PROVE UNCHANGED result
        BY <2>4, PhaseStepShape DEF queueVars
    <2>5. ASSUME NEW w \in Runs, RunStep(w)
          PROVE  UNCHANGED result \/ CompleteLead(w) \/ FailLead(w)
        BY <2>4, <2>5 DEF RunStep, PhaseStep, BeginLead, Take, queueVars
    <2> QED BY <2>1, <2>2, <2>3, <2>5
            DEF Next, Stop, EndRun, Crash, StopRun, ClaimLeads, ClaimInboundEvents,
                LeadLeaseExpires, LeaseExpires, CustomerAppears, QuietQueueStep,
                RecoverStaleEvents, StoreInboundEvent, queueVars, vars
<1> QED BY <1>1, LeadInvariant, PTL DEF Spec, AttemptIsRemembered

\* The lead worker spends at most max_attempts on a lead, across failures, crashes and recoveries.
THEOREM RetryBudgetHolds == Spec => []RetryBudget
<1>1. LeadInv => RetryBudget
    BY DEF LeadInv, QueueInv
<1> QED BY <1>1, LeadInvariant, PTL

\* A run of the lead worker that lost its lease settles nothing.
THEOREM OnlyTheHolderSettlesHolds == Spec => OnlyTheHolderSettles
<1>1. LeadInv /\ [Next]_vars => [HolderStep]_<<queueVars, runVars>>
    BY NextInv
<1> QED BY <1>1, LeadInvariant, PTL DEF Spec, OnlyTheHolderSettles, HolderStep
================================================================================
