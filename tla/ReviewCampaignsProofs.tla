-------------------------- MODULE ReviewCampaignsProofs --------------------------
(***************************************************************************)
(* Theorems about ReviewCampaigns for every set of jobs, recipients, runs  *)
(* and reviews.                                                            *)
(***************************************************************************)
EXTENDS ReviewCampaigns, FiniteSetTheorems, SequenceTheorems, TLAPS

-------------------------------------------------------------------------------
(* The inductive invariant.                                                *)

Locking(w) == pc[w] \in {"locking", "checked"}

\* Recipient keys that the transaction of w has locked.
Taken(w) == KeysOf[job[w]] \ need[w]

RunsInStep ==
    \A w \in Runs :
        /\ pc[w] # "idle" => job[w] \in Jobs
        /\ pc[w] # "locking" => need[w] = {}
        /\ pc[w] = "locking" => need[w] \subseteq KeysOf[job[w]]

\* A transaction that has begun to lock holds the slots of its job and of the keys it
\* took, and no other, and it took the keys in sorted order.
LocksInStep ==
    /\ \A w \in Runs : Locking(w) =>
          /\ holder[SlotOf[job[w]]] = w
          /\ \A k \in Taken(w) : holder[SlotOf[k]] = w
          /\ \A k \in Taken(w), l \in need[w] : KeyRank[k] < KeyRank[l]
    /\ \A w \in Runs, s \in Slots : holder[s] = w =>
          /\ Locking(w)
          /\ s = SlotOf[job[w]] \/ \E k \in Taken(w) : s = SlotOf[k]

\* The status is 'confirmed' exactly as long as confirmed_at is set, a reply leaves the
\* campaign closed, and what waits in a closed or reopened one was taken up before.
CampaignInStep(j) ==
    /\ confirmedAt[j] <=> status[j] = "confirmed"
    /\ repliedAt[j] => status[j] \in {"completed", "cancelled", "confirmed"}
    /\ j \in undone => status[j] # "none"
    /\ waiting[j] /\ ~tried[j] => status[j] = "active" /\ j \notin undone

CampaignsInStep ==
    /\ Campaigns \subseteq processed
    /\ \A j \in Jobs : CampaignInStep(j)

\* What was out of the window when a transaction began stays out of it.
LapsedInStep == \A w \in Runs : \A i \in lapsed[w] : i \in Campaigns /\ ~recent[i]

Live(i) == recent[i] /\ status[i] \in {"active", "completed"}

\* Between its checks and its insert a transaction stays right about what it found: its
\* job has no campaign, and no campaign of the recipient is live.
ChecksHold ==
    /\ \A w \in Runs : Locking(w) => job[w] \notin Campaigns
    /\ \A w \in Runs : pc[w] = "checked" =>
          \A i \in Campaigns : SharesRecipient(i, job[w]) => ~Live(i) \/ i \in undone

\* A campaign stays one whatever happens to it after the import has read it, and only an
\* import holds the row of a review.
ImportInStep ==
    /\ found \subseteq Campaigns
    /\ locked => reading # None

LocksInv == TypeOK /\ RunsInStep /\ LocksInStep

CampaignInv ==
    /\ LocksInv
    /\ CampaignsInStep
    /\ LapsedInStep
    /\ ChecksHold
    /\ ImportInStep
    /\ OneLiveCampaign
    /\ MatchedIsConfirmed

-------------------------------------------------------------------------------
(* The parts of the type invariant.                                        *)

LockTypes ==
    /\ pc \in [Runs -> {"idle", "begun", "locking", "checked"}]
    /\ job \in [Runs -> Jobs \cup {None}]
    /\ need \in [Runs -> SUBSET Keys]
    /\ holder \in [Slots -> Runs \cup {None}]
    /\ lapsed \in [Runs -> SUBSET Jobs]

CampaignTypes ==
    /\ processed \subseteq Jobs
    /\ status \in [Jobs -> CampaignStatus]
    /\ recent \in [Jobs -> BOOLEAN]
    /\ confirmedAt \in [Jobs -> BOOLEAN]
    /\ repliedAt \in [Jobs -> BOOLEAN]
    /\ waiting \in [Jobs -> BOOLEAN]
    /\ tried \in [Jobs -> BOOLEAN]
    /\ undone \subseteq Jobs

ReviewTypes ==
    /\ matchStatus \in [Reviews -> {"absent", "unmatched", "candidate", "matched"}]
    /\ matched \in [Reviews -> Jobs \cup {None}]
    /\ reading \in Reviews \cup {None}
    /\ found \subseteq Jobs
    /\ locked \in BOOLEAN

OrderTypes == createdAt \in Seq(Jobs \cup Runs)

\* A run that holds a lock is inside its transaction: LocksInStep says more.
LEMMA TypeOKParts ==
    LocksInv <=> LockTypes /\ CampaignTypes /\ ReviewTypes /\ OrderTypes /\ RunsInStep /\ LocksInStep
BY DEF LocksInv, TypeOK, LockTypes, CampaignTypes, ReviewTypes, OrderTypes, LocksInStep, Locking

LEMMA InitInv == Init => CampaignInv
<1> SUFFICES ASSUME Init PROVE CampaignInv
    OBVIOUS
<1> USE DEF Init
<1>1. LockTypes /\ CampaignTypes /\ ReviewTypes
    BY DEF LockTypes, CampaignTypes, ReviewTypes, CampaignStatus
<1>2. OrderTypes
    BY EmptySeq DEF OrderTypes
<1>3. RunsInStep /\ LocksInStep
    BY CampaignConstants DEF RunsInStep, LocksInStep, Locking
<1>4. CampaignsInStep /\ LapsedInStep /\ ChecksHold
    BY DEF CampaignsInStep, CampaignInStep, LapsedInStep, ChecksHold, Campaigns, Locking
<1>5. OneLiveCampaign /\ MatchedIsConfirmed
    BY DEF OneLiveCampaign, Campaigns, MatchedIsConfirmed
<1>6. ImportInStep
    BY DEF ImportInStep
<1> QED BY <1>1, <1>2, <1>3, <1>4, <1>5, <1>6, TypeOKParts DEF CampaignInv

-------------------------------------------------------------------------------
(* The order of the campaigns' creation.                                   *)

\* Forgetting a transaction leaves a sequence of campaigns and transactions.
LEMMA ForgetType ==
    ASSUME OrderTypes, NEW w, Forget(w)
    PROVE  OrderTypes'
<1> DEFINE S == Jobs \cup Runs
           n == Len(createdAt)
<1>1. createdAt \in Seq(S) /\ DOMAIN createdAt = 1..n /\ n \in Nat
    BY LenProperties DEF OrderTypes
<1>2. PICK i \in 1..n : createdAt' = SubSeq(createdAt, 1, i - 1) \o SubSeq(createdAt, i + 1, n)
    BY <1>1 DEF Forget, RemoveAt
<1>3. \A m \in 1..n : createdAt[m] \in S
    BY <1>1, ElementOfSeq
<1>4. SubSeq(createdAt, 1, i - 1) \in Seq(S)
    <2>1. 1 \in Int /\ i - 1 \in Int /\ \A m \in 1..(i - 1) : createdAt[m] \in S
        BY <1>1, <1>3
    <2> HIDE DEF S
    <2> QED BY <2>1, SubSeqProperties
<1>5. SubSeq(createdAt, i + 1, n) \in Seq(S)
    <2>1. i + 1 \in Int /\ n \in Int /\ \A m \in (i + 1)..n : createdAt[m] \in S
        BY <1>1, <1>3
    <2> HIDE DEF S, n
    <2> QED BY <2>1, SubSeqProperties
<1>6. createdAt' \in Seq(S)
    <2> HIDE DEF S
    <2> QED BY <1>2, <1>4, <1>5, ConcatProperties
<1> QED BY <1>6 DEF OrderTypes

LEMMA BeginType ==
    ASSUME OrderTypes, NEW w \in Runs, createdAt' = Append(createdAt, w)
    PROVE  OrderTypes'
BY AppendProperties DEF OrderTypes

LEMMA InsertType ==
    ASSUME OrderTypes, NEW w, NEW j \in Jobs,
           createdAt' = [i \in DOMAIN createdAt |-> IF createdAt[i] = w THEN j ELSE createdAt[i]]
    PROVE  OrderTypes'
<1> DEFINE n == Len(createdAt)
           e(i) == IF createdAt[i] = w THEN j ELSE createdAt[i]
<1>1. DOMAIN createdAt = 1..n /\ n \in Nat
    BY LenProperties DEF OrderTypes
<1>2. \A i \in 1..n : e(i) \in Jobs \cup Runs
    BY <1>1, ElementOfSeq DEF OrderTypes
<1>3. createdAt' = [i \in 1..n |-> e(i)]
    BY <1>1
<1>4. [i \in 1..n |-> e(i)] \in Seq(Jobs \cup Runs)
    <2> HIDE DEF e, n
    <2> QED BY <1>1, <1>2, IsASeq
<1> QED BY <1>3, <1>4 DEF OrderTypes

-------------------------------------------------------------------------------
(* The locks.                                                              *)

\* Commit and rollback release what the transaction held and nothing else.
LEMMA EndTransactionLocks ==
    ASSUME LocksInv, NEW w \in Runs, EndTransaction(w)
    PROVE  LockTypes' /\ RunsInStep' /\ LocksInStep'
<1> USE TypeOKParts, CampaignConstants DEF EndTransaction
<1>1. LockTypes'
    BY DEF LockTypes
<1>2. RunsInStep'
    BY DEF RunsInStep, LockTypes
<1>3. \A v \in Runs : v # w =>
         /\ pc'[v] = pc[v] /\ job'[v] = job[v] /\ need'[v] = need[v]
         /\ \A s \in Slots : holder'[s] = v <=> holder[s] = v
    BY DEF LockTypes
<1>4. pc'[w] = "idle" /\ \A s \in Slots : holder'[s] # w
    BY DEF LockTypes
<1>5. \A v \in Runs : Locking(v)' => v # w
    BY <1>4 DEF Locking
<1>6. \A v \in Runs : v # w => (Locking(v)' <=> Locking(v)) /\ Taken(v)' = Taken(v)
    BY <1>3 DEF Locking, Taken
<1>7. \A v \in Runs : Locking(v) => job[v] \in Jobs /\ SlotOf[job[v]] \in Slots
    BY DEF Locking, RunsInStep
<1>8. \A v \in Runs : Locking(v) => \A k \in Taken(v) : SlotOf[k] \in Slots
    BY <1>7 DEF Taken
<1>9. LocksInStep'
    <2>1. ASSUME NEW v \in Runs, Locking(v)'
          PROVE  /\ holder'[SlotOf[job'[v]]] = v
                 /\ \A k \in Taken(v)' : holder'[SlotOf[k]] = v
                 /\ \A k \in Taken(v)', l \in need'[v] : KeyRank[k] < KeyRank[l]
        BY <2>1, <1>3, <1>5, <1>6, <1>7, <1>8 DEF LocksInStep
    <2>2. ASSUME NEW v \in Runs, NEW s \in Slots, holder'[s] = v
          PROVE  /\ Locking(v)'
                 /\ s = SlotOf[job'[v]] \/ \E k \in Taken(v)' : s = SlotOf[k]
        <3>1. v # w
            BY <2>2, <1>4
        <3>2. holder[s] = v
            BY <2>2, <3>1, <1>3
        <3> QED BY <3>1, <3>2, <1>3, <1>6 DEF LocksInStep
    <2> QED BY <2>1, <2>2 DEF LocksInStep
<1> QED BY <1>1, <1>2, <1>9

\* A transaction that begins holds nothing yet.
LEMMA BeginLocks ==
    ASSUME LocksInv, NEW w \in Runs, NEW j \in Jobs, BeginWorkflow(w, j)
    PROVE  LockTypes' /\ RunsInStep' /\ LocksInStep'
<1> USE TypeOKParts, CampaignConstants DEF BeginWorkflow
<1>1. LockTypes'
    BY DEF LockTypes, Campaigns
<1>2. \A v \in Runs : v # w => pc'[v] = pc[v] /\ job'[v] = job[v]
    BY DEF LockTypes
<1>3. pc[w] = "idle" /\ pc'[w] = "begun" /\ job'[w] = j /\ need' = need /\ holder' = holder
    BY DEF LockTypes
<1>4. RunsInStep'
    BY <1>2, <1>3 DEF RunsInStep
<1>5. \A v \in Runs : Locking(v) \/ Locking(v)' => v # w
    BY <1>3 DEF Locking
<1>6. \A v \in Runs : v # w => (Locking(v)' <=> Locking(v)) /\ Taken(v)' = Taken(v)
    BY <1>2, <1>3 DEF Locking, Taken
<1>7. LocksInStep'
    BY <1>2, <1>3, <1>5, <1>6 DEF LocksInStep
<1> QED BY <1>1, <1>4, <1>7

\* A transaction that has not begun to lock holds no slot, so that a slot which is free
\* for it has no holder.
LEMMA FreeMeansNobody ==
    ASSUME LocksInv, NEW w \in Runs, NEW s \in Slots, ~Locking(w), Free(w, s)
    PROVE  holder[s] = None
BY TypeOKParts DEF Free, LocksInStep

LEMMA LockJobLocks ==
    ASSUME LocksInv, NEW w \in Runs, LockJob(w), job[w] \notin processed
    PROVE  /\ LockTypes' /\ RunsInStep' /\ LocksInStep'
           /\ UNCHANGED <<job, lapsed, createdAt>>
           /\ \A v \in Runs : (Locking(v)' <=> Locking(v) \/ v = w)
           /\ \A v \in Runs : pc'[v] = "checked" => pc[v] = "checked"
<1> USE TypeOKParts, CampaignConstants
<1>1. PICK j \in Jobs : job[w] = j
    BY DEF LockJob, RunsInStep
<1>2. PICK s \in Slots : s = SlotOf[j]
    OBVIOUS
<1>3. pc[w] = "begun" /\ ~Locking(w)
    BY DEF LockJob, Locking
<1>4. holder[s] = None
    BY <1>1, <1>2, <1>3, FreeMeansNobody DEF LockJob
<1>5. /\ holder' = [holder EXCEPT ![s] = w]
      /\ pc' = [pc EXCEPT ![w] = "locking"]
      /\ need' = [need EXCEPT ![w] = KeysOf[j]]
      /\ job' = job /\ lapsed' = lapsed /\ createdAt' = createdAt
    BY <1>1, <1>2 DEF LockJob
<1>6. LockTypes'
    BY <1>5 DEF LockTypes
<1>7. /\ pc'[w] = "locking" /\ need'[w] = KeysOf[j] /\ holder'[s] = w
      /\ \A v \in Runs : v # w => pc'[v] = pc[v] /\ need'[v] = need[v]
      /\ \A t \in Slots : t # s => holder'[t] = holder[t]
    BY <1>5 DEF LockTypes
<1>8. RunsInStep'
    BY <1>1, <1>5, <1>7 DEF RunsInStep
<1>9. \A v \in Runs : v # w => (Locking(v)' <=> Locking(v)) /\ Taken(v)' = Taken(v)
    BY <1>5, <1>7 DEF Locking, Taken
<1>10. Locking(w)' /\ Taken(w)' = {}
    BY <1>1, <1>5, <1>7 DEF Locking, Taken
<1>11. LocksInStep'
    <2>1. ASSUME NEW v \in Runs, Locking(v)'
          PROVE  /\ holder'[SlotOf[job'[v]]] = v
                 /\ \A k \in Taken(v)' : holder'[SlotOf[k]] = v
                 /\ \A k \in Taken(v)', l \in need'[v] : KeyRank[k] < KeyRank[l]
        <3>1. CASE v = w
            BY <3>1, <1>1, <1>2, <1>5, <1>7, <1>10
        <3>2. CASE v # w
            <4>1. Locking(v) /\ job[v] \in Jobs
                BY <2>1, <3>2, <1>9 DEF RunsInStep, Locking
            <4>2. v # None
                BY CampaignConstants
            <4>3. \A t \in Slots : holder[t] = v => holder'[t] = v
                BY <4>2, <1>4, <1>7
            <4>4. \A k \in Taken(v) : SlotOf[k] \in Slots
                BY <4>1 DEF Taken
            <4> QED BY <3>2, <4>1, <4>3, <4>4, <1>5, <1>7, <1>9 DEF LocksInStep
        <3> QED BY <3>1, <3>2
    <2>2. ASSUME NEW v \in Runs, NEW t \in Slots, holder'[t] = v
          PROVE  /\ Locking(v)'
                 /\ t = SlotOf[job'[v]] \/ \E k \in Taken(v)' : t = SlotOf[k]
        <3>1. CASE t = s
            BY <2>2, <3>1, <1>1, <1>2, <1>5, <1>7, <1>10
        <3>2. CASE t # s
            <4>1. holder[t] = v /\ v # w
                BY <2>2, <3>2, <1>3, <1>7 DEF LocksInStep
            <4> QED BY <4>1, <1>5, <1>7, <1>9 DEF LocksInStep
        <3> QED BY <3>1, <3>2
    <2> QED BY <2>1, <2>2 DEF LocksInStep
<1>12. \A v \in Runs : (Locking(v)' <=> Locking(v) \/ v = w)
    BY <1>9, <1>10
<1>13. \A v \in Runs : pc'[v] = "checked" => pc[v] = "checked"
    BY <1>7
<1> QED BY <1>5, <1>6, <1>8, <1>11, <1>12, <1>13

LEMMA StrictlyBefore == \A m, n \in Nat : m <= n /\ m # n => m < n
OBVIOUS

\* The next key comes after every key already taken.
LEMMA LockRecipientLocks ==
    ASSUME LocksInv, NEW w \in Runs, LockRecipient(w)
    PROVE  LockTypes' /\ RunsInStep' /\ LocksInStep'
<1> USE TypeOKParts, CampaignConstants
<1>1. PICK j \in Jobs : job[w] = j
    BY DEF LockRecipient, RunsInStep
<1>2. PICK k \in Keys :
         /\ k \in need[w] /\ \A l \in need[w] : KeyRank[k] <= KeyRank[l]
         /\ Free(w, SlotOf[k])
         /\ holder' = [holder EXCEPT ![SlotOf[k]] = w]
         /\ need' = [need EXCEPT ![w] = @ \ {k}]
    BY DEF LockRecipient, NextKey
<1>3. PICK s \in Slots : s = SlotOf[k]
    OBVIOUS
<1>4. pc[w] = "locking" /\ Locking(w) /\ pc' = pc /\ job' = job /\ lapsed' = lapsed
    BY DEF LockRecipient, Locking
<1>5. LockTypes'
    BY <1>2, <1>3, <1>4 DEF LockTypes
<1>6. /\ need'[w] = need[w] \ {k} /\ holder'[s] = w
      /\ \A v \in Runs : v # w => need'[v] = need[v]
      /\ \A t \in Slots : t # s => holder'[t] = holder[t]
    BY <1>2, <1>3 DEF LockTypes
<1>7. RunsInStep'
    BY <1>1, <1>4, <1>6 DEF RunsInStep
<1>8. \A v \in Runs : Locking(v)' <=> Locking(v)
    BY <1>4 DEF Locking
<1>9. \A v \in Runs : v # w => Taken(v)' = Taken(v)
    BY <1>4, <1>6 DEF Taken
<1>10. Taken(w)' = Taken(w) \cup {k}
    BY <1>1, <1>2, <1>4, <1>6 DEF Taken, RunsInStep
<1>11. LocksInStep'
    <2>1. ASSUME NEW v \in Runs, Locking(v)'
          PROVE  /\ holder'[SlotOf[job'[v]]] = v
                 /\ \A l \in Taken(v)' : holder'[SlotOf[l]] = v
                 /\ \A l \in Taken(v)', m \in need'[v] : KeyRank[l] < KeyRank[m]
        <3>1. Locking(v) /\ job[v] \in Jobs
            BY <2>1, <1>8 DEF RunsInStep, Locking
        <3>2. \A t \in Slots : holder[t] = v => holder'[t] = v
            BY <1>2, <1>3, <1>6 DEF Free
        <3>3. \A l \in Taken(v) : SlotOf[l] \in Slots
            BY <3>1 DEF Taken
        <3>4. CASE v # w
            BY <3>1, <3>2, <3>3, <3>4, <1>4, <1>6, <1>9 DEF LocksInStep
        <3>5. CASE v = w
            <4>1. /\ holder'[SlotOf[job'[v]]] = v
                  /\ \A l \in Taken(v)' : holder'[SlotOf[l]] = v
                BY <3>1, <3>2, <3>3, <3>5, <1>3, <1>4, <1>6, <1>10 DEF LocksInStep
            <4>2. ASSUME NEW m \in need'[w]
                  PROVE  KeyRank[k] < KeyRank[m]
                <5>1. m \in need[w] /\ m # k /\ m \in Keys
                    BY <1>6 DEF LockTypes
                <5>2. KeyRank[k] \in Nat /\ KeyRank[m] \in Nat /\ KeyRank[k] <= KeyRank[m]
                    BY <5>1, <1>2
                <5>3. KeyRank[k] # KeyRank[m]
                    BY <5>1
                <5> QED BY <5>2, <5>3, StrictlyBefore
            <4>3. \A l \in Taken(v)', m \in need'[v] : KeyRank[l] < KeyRank[m]
                BY <3>1, <3>5, <4>2, <1>6, <1>10 DEF LocksInStep
            <4> QED BY <4>1, <4>3
        <3> QED BY <3>4, <3>5
    <2>2. ASSUME NEW v \in Runs, NEW t \in Slots, holder'[t] = v
          PROVE  /\ Locking(v)'
                 /\ t = SlotOf[job'[v]] \/ \E l \in Taken(v)' : t = SlotOf[l]
        <3>1. CASE t = s
            BY <2>2, <3>1, <1>3, <1>4, <1>6, <1>8, <1>10
        <3>2. CASE t # s
            BY <2>2, <3>2, <1>4, <1>6, <1>8, <1>9, <1>10 DEF LocksInStep
        <3> QED BY <3>1, <3>2
    <2> QED BY <2>1, <2>2 DEF LocksInStep
<1> QED BY <1>5, <1>7, <1>11

\* Two transactions that hold their locks have neither a job nor a recipient in common.
LEMMA LockedApart ==
    ASSUME LocksInv, NEW v \in Runs, NEW w \in Runs, v # w, Locking(v), Locking(w),
           need[v] = {}, need[w] = {}
    PROVE  ~SharesRecipient(job[v], job[w])
BY TypeOKParts DEF LocksInStep, Taken, SharesRecipient

LEMMA JobsApart ==
    ASSUME LocksInv, NEW v \in Runs, NEW w \in Runs, v # w, Locking(v), Locking(w)
    PROVE  job[v] # job[w]
BY TypeOKParts DEF LocksInStep

-------------------------------------------------------------------------------
(* The campaigns.                                                          *)

LEMMA CampaignFacts ==
    ASSUME CampaignInv
    PROVE  /\ LocksInv /\ LockTypes /\ CampaignTypes /\ ReviewTypes /\ OrderTypes
           /\ RunsInStep /\ LocksInStep /\ CampaignsInStep /\ LapsedInStep /\ ChecksHold
           /\ ImportInStep /\ OneLiveCampaign /\ MatchedIsConfirmed
BY TypeOKParts DEF CampaignInv

\* A step that creates no campaign, revives none but those whose confirmation is undone,
\* and lets no transaction past its checks, leaves the relations
\* between campaigns and transactions as they are.
LEMMA QuieterStep ==
    ASSUME CampaignInv,
           \A j \in Jobs : status'[j] = "none" <=> status[j] = "none",
           processed \subseteq processed', undone \subseteq undone',
           \A j \in Jobs : Live(j)' => Live(j) \/ j \in undone',
           \A v \in Runs : Locking(v)' => job'[v] = job[v],
           \A v \in Runs : Locking(v)' => Locking(v) \/ job[v] \notin processed,
           \A v \in Runs : pc'[v] = "checked" => pc[v] = "checked"
    PROVE  Campaigns' \subseteq processed' /\ ChecksHold' /\ OneLiveCampaign'
<1> USE CampaignFacts
<1>1. Campaigns' = Campaigns
    BY DEF Campaigns
<1>2. Campaigns' \subseteq processed'
    BY <1>1 DEF CampaignsInStep
<1>3. OneLiveCampaign'
    <2>1. ASSUME NEW i \in Campaigns' \ undone', NEW j \in Campaigns' \ undone',
                 SharesRecipient(i, j), i # j
          PROVE  ~Live(i)' \/ ~Live(j)'
        <3>1. i \in Campaigns \ undone /\ j \in Campaigns \ undone /\ i \in Jobs /\ j \in Jobs
            BY <1>1 DEF Campaigns
        <3>2. ~Live(i) \/ ~Live(j)
            BY <2>1, <3>1 DEF OneLiveCampaign, Live
        <3> QED BY <3>1, <3>2
    <2> QED BY <2>1 DEF OneLiveCampaign, Live
<1>4. ChecksHold'
    <2>1. \A v \in Runs : Locking(v)' => job'[v] \notin Campaigns'
        BY <1>1 DEF ChecksHold, CampaignsInStep
    <2>2. ASSUME NEW v \in Runs, pc'[v] = "checked",
                 NEW i \in Campaigns', SharesRecipient(i, job'[v])
          PROVE  ~Live(i)' \/ i \in undone'
        <3>1. pc[v] = "checked" /\ job'[v] = job[v] /\ i \in Campaigns /\ i \in Jobs
            BY <2>2, <1>1 DEF Locking, Campaigns
        <3>2. ~Live(i) \/ i \in undone
            BY <2>2, <3>1 DEF ChecksHold
        <3> QED BY <3>1, <3>2
    <2>3. \A v \in Runs : pc'[v] = "checked" =>
             \A i \in Campaigns' : SharesRecipient(i, job'[v]) =>
                 ~Live(i)' \/ i \in undone'
        BY <2>2
    <2> QED BY <2>1, <2>3 DEF ChecksHold
<1> QED BY <1>2, <1>3, <1>4

\* The steps of a worker's transaction before its insert do not touch the campaigns.
LEMMA WorkerStep ==
    ASSUME CampaignInv, LockTypes', OrderTypes', RunsInStep', LocksInStep', ChecksHold',
           \A v \in Runs : \A i \in lapsed'[v] : i \in lapsed[v] \/ (i \in Campaigns /\ ~recent[i]),
           processed \subseteq processed', processed' \subseteq Jobs,
           UNCHANGED <<campaignVars, reviewVars, importVars, undone>>
    PROVE  CampaignInv'
<1> USE CampaignFacts DEF campaignVars, reviewVars, importVars
<1>1. CampaignTypes' /\ ReviewTypes'
    BY DEF CampaignTypes, ReviewTypes
<1>2. LocksInv'
    BY <1>1, TypeOKParts, PTL
<1>3. CampaignsInStep' /\ ImportInStep' /\ OneLiveCampaign' /\ MatchedIsConfirmed'
    BY DEF CampaignsInStep, CampaignInStep, ImportInStep, Campaigns, OneLiveCampaign,
           MatchedIsConfirmed
<1>4. LapsedInStep'
    BY DEF LapsedInStep, Campaigns
<1> QED BY <1>2, <1>3, <1>4 DEF CampaignInv

LEMMA WorkerChecks ==
    ASSUME CampaignInv, processed \subseteq processed', UNCHANGED <<campaignVars, undone>>,
           \A v \in Runs : Locking(v)' => job'[v] = job[v],
           \A v \in Runs : Locking(v)' => Locking(v) \/ job[v] \notin processed,
           \A v \in Runs : pc'[v] = "checked" => pc[v] = "checked"
    PROVE  ChecksHold'
<1>1. \A j \in Jobs : /\ status'[j] = "none" <=> status[j] = "none"
                      /\ Live(j)' => Live(j) \/ j \in undone'
    BY DEF campaignVars, Live
<1> QED BY <1>1, QuieterStep

LEMMA EndTransactionRuns ==
    ASSUME LocksInv, NEW w \in Runs, EndTransaction(w)
    PROVE  \A v \in Runs : /\ Locking(v)' => Locking(v) /\ job'[v] = job[v]
                           /\ pc'[v] = "checked" => pc[v] = "checked"
                           /\ lapsed'[v] \subseteq lapsed[v]
BY TypeOKParts DEF EndTransaction, LockTypes, Locking

LEMMA BeginWorkflowInv ==
    ASSUME CampaignInv, NEW w \in Runs, NEW j \in Jobs, BeginWorkflow(w, j)
    PROVE  CampaignInv'
<1> USE CampaignFacts
<1>1. LockTypes' /\ RunsInStep' /\ LocksInStep' /\ OrderTypes'
    BY BeginLocks, BeginType DEF BeginWorkflow
<1>2. UNCHANGED <<processed, campaignVars, reviewVars, importVars, undone>>
    BY DEF BeginWorkflow
<1>3. \A v \in Runs : /\ Locking(v)' => Locking(v) /\ job'[v] = job[v]
                      /\ pc'[v] = "checked" => pc[v] = "checked"
    BY DEF BeginWorkflow, Locking, LockTypes
<1>4. ChecksHold'
    BY <1>2, <1>3, WorkerChecks
<1>5. processed' \subseteq Jobs
    BY <1>2 DEF CampaignTypes
<1>6. \A v \in Runs : \A i \in lapsed'[v] : i \in lapsed[v] \/ (i \in Campaigns /\ ~recent[i])
    BY DEF BeginWorkflow, LockTypes
<1> QED BY <1>1, <1>2, <1>4, <1>5, <1>6, WorkerStep

LEMMA EndWithoutCampaignInv ==
    ASSUME CampaignInv, NEW w \in Runs, EndTransaction(w), Forget(w),
           processed \subseteq processed', processed' \subseteq Jobs,
           UNCHANGED <<campaignVars, reviewVars, importVars, undone>>
    PROVE  CampaignInv'
<1> USE CampaignFacts
<1>1. LockTypes' /\ RunsInStep' /\ LocksInStep' /\ OrderTypes'
    BY EndTransactionLocks, ForgetType
<1>2. \A v \in Runs : /\ Locking(v)' => Locking(v) /\ job'[v] = job[v]
                      /\ pc'[v] = "checked" => pc[v] = "checked"
                      /\ lapsed'[v] \subseteq lapsed[v]
    BY EndTransactionRuns
<1>3. ChecksHold'
    BY <1>2, WorkerChecks
<1> QED BY <1>1, <1>2, <1>3, WorkerStep

LEMMA LockJobInv ==
    ASSUME CampaignInv, NEW w \in Runs, LockJob(w)
    PROVE  CampaignInv'
<1> USE CampaignFacts
<1>1. UNCHANGED <<processed, campaignVars, reviewVars, importVars, undone>>
    BY DEF LockJob
<1>2. processed' \subseteq Jobs
    BY <1>1 DEF CampaignTypes
<1>3. CASE job[w] \in processed
    BY <1>1, <1>2, <1>3, EndWithoutCampaignInv DEF LockJob
<1>4. CASE job[w] \notin processed
    <2>1. /\ LockTypes' /\ RunsInStep' /\ LocksInStep'
          /\ UNCHANGED <<job, lapsed, createdAt>>
          /\ \A v \in Runs : (Locking(v)' <=> Locking(v) \/ v = w)
          /\ \A v \in Runs : pc'[v] = "checked" => pc[v] = "checked"
        BY <1>4, LockJobLocks
    <2>2. OrderTypes'
        BY <2>1 DEF OrderTypes
    <2>3. ChecksHold'
        BY <1>1, <1>4, <2>1, WorkerChecks
    <2> QED BY <1>1, <1>2, <2>1, <2>2, <2>3, WorkerStep
<1> QED BY <1>3, <1>4

LEMMA LockRecipientInv ==
    ASSUME CampaignInv, NEW w \in Runs, LockRecipient(w)
    PROVE  CampaignInv'
<1> USE CampaignFacts
<1>1. UNCHANGED <<pc, job, lapsed, processed, campaignVars, createdAt, reviewVars, importVars,
                  undone>>
    BY DEF LockRecipient
<1>2. LockTypes' /\ RunsInStep' /\ LocksInStep'
    BY LockRecipientLocks
<1>3. OrderTypes' /\ processed' \subseteq Jobs
    BY <1>1 DEF OrderTypes, CampaignTypes
<1>4. \A v \in Runs : Locking(v)' => Locking(v) /\ job'[v] = job[v]
    BY <1>1 DEF Locking
<1>5. ChecksHold'
    BY <1>1, <1>4, WorkerChecks
<1> QED BY <1>1, <1>2, <1>3, <1>5, WorkerStep

\* What the query finds missing is what the transaction relies on until its insert.
LEMMA CheckSuppressionInv ==
    ASSUME CampaignInv, NEW w \in Runs, CheckSuppression(w)
    PROVE  CampaignInv'
<1> USE CampaignFacts
<1>1. UNCHANGED <<campaignVars, reviewVars, importVars, undone>> /\ pc[w] = "locking"
    BY DEF CheckSuppression
<1>2. job[w] \in Jobs
    BY <1>1 DEF RunsInStep
<1>3. CASE \E i \in Campaigns : SharesRecipient(i, job[w]) /\ Suppressing(w, i)
    <2>1. EndTransaction(w) /\ Forget(w) /\ processed' = processed \cup {job[w]}
        BY <1>3 DEF CheckSuppression
    <2>2. processed \subseteq processed' /\ processed' \subseteq Jobs
        BY <2>1, <1>2 DEF CampaignTypes
    <2> QED BY <1>1, <2>1, <2>2, EndWithoutCampaignInv
<1>4. CASE ~\E i \in Campaigns : SharesRecipient(i, job[w]) /\ Suppressing(w, i)
    <2>1. /\ pc' = [pc EXCEPT ![w] = "checked"]
          /\ UNCHANGED <<job, need, holder, lapsed, createdAt, processed>>
          /\ need[w] = {}
        BY <1>4 DEF CheckSuppression
    <2>2. /\ pc'[w] = "checked"
          /\ \A v \in Runs : v # w => pc'[v] = pc[v]
        BY <2>1 DEF LockTypes
    <2>3. \A v \in Runs : Locking(v)' <=> Locking(v)
        BY <1>1, <2>2 DEF Locking
    <2>4. \A v \in Runs : Taken(v)' = Taken(v)
        BY <2>1 DEF Taken
    <2>5. LockTypes' /\ OrderTypes' /\ processed' \subseteq Jobs
        BY <2>1 DEF LockTypes, OrderTypes, CampaignTypes
    <2>6. RunsInStep'
        BY <1>2, <2>1, <2>2 DEF RunsInStep
    <2>7. LocksInStep'
        BY <2>1, <2>3, <2>4 DEF LocksInStep
    <2>8. ASSUME NEW i \in Campaigns, SharesRecipient(i, job[w])
          PROVE  ~Live(i)
        <3>1. i \in Jobs /\ ~Suppressing(w, i)
            BY <2>8, <1>4 DEF Campaigns
        <3>2. i \in lapsed[w] => ~recent[i]
            BY DEF LapsedInStep
        <3> QED BY <3>1, <3>2 DEF Suppressing, Live
    <2>9. Campaigns' = Campaigns /\ \A i \in Campaigns : Live(i)' <=> Live(i)
        BY <1>1 DEF campaignVars, Campaigns, Live
    <2>10. ChecksHold'
        <3>1. \A v \in Runs : Locking(v)' => job'[v] \notin Campaigns'
            BY <2>1, <2>3, <2>9 DEF ChecksHold
        <3>2. ASSUME NEW v \in Runs, pc'[v] = "checked",
                     NEW i \in Campaigns', SharesRecipient(i, job'[v])
              PROVE  ~Live(i)' \/ i \in undone'
            <4>1. CASE v = w
                BY <3>2, <4>1, <1>1, <2>1, <2>8, <2>9 DEF campaignVars
            <4>2. CASE v # w
                BY <3>2, <4>2, <1>1, <2>1, <2>2, <2>9 DEF ChecksHold, campaignVars
            <4> QED BY <4>1, <4>2
        <3>3. \A v \in Runs : pc'[v] = "checked" =>
                 \A i \in Campaigns' : SharesRecipient(i, job'[v]) =>
                     ~Live(i)' \/ i \in undone'
            BY <3>2
        <3> QED BY <3>1, <3>3 DEF ChecksHold
    <2> QED BY <1>1, <2>1, <2>5, <2>6, <2>7, <2>10, WorkerStep
<1> QED BY <1>3, <1>4

\* The insert is right because nobody else has the job or the recipient locked.
LEMMA InsertCampaignInv ==
    ASSUME CampaignInv, NEW w \in Runs, InsertCampaign(w)
    PROVE  CampaignInv'
<1> USE CampaignFacts
<1>1. pc[w] = "checked" /\ Locking(w) /\ EndTransaction(w)
    BY DEF InsertCampaign, Locking
<1>2. PICK j \in Jobs : job[w] = j
    BY <1>1 DEF RunsInStep
<1>3. /\ processed' = processed \cup {j}
      /\ status' = [status EXCEPT ![j] = "active"]
      /\ recent' = [recent EXCEPT ![j] = TRUE]
      /\ waiting' = [waiting EXCEPT ![j] = TRUE]
      /\ createdAt' = [i \in DOMAIN createdAt |-> IF createdAt[i] = w THEN j ELSE createdAt[i]]
      /\ UNCHANGED <<confirmedAt, repliedAt, tried, matchStatus, matched, reading, found, locked,
                     undone>>
    BY <1>2 DEF InsertCampaign, reviewVars, importVars
<1>4. LockTypes' /\ RunsInStep' /\ LocksInStep' /\ OrderTypes'
    BY <1>1, <1>3, EndTransactionLocks, InsertType
<1>5. CampaignTypes' /\ ReviewTypes'
    BY <1>3 DEF CampaignTypes, ReviewTypes, CampaignStatus
<1>6. /\ status'[j] = "active" /\ recent'[j]
      /\ \A i \in Jobs : i # j => /\ status'[i] = status[i] /\ recent'[i] = recent[i]
                                  /\ waiting'[i] = waiting[i]
    BY <1>3 DEF CampaignTypes
<1>7. j \notin Campaigns /\ Campaigns' = Campaigns \cup {j}
    BY <1>1, <1>2, <1>6 DEF ChecksHold, Campaigns
<1>8. \A i \in Campaigns : SharesRecipient(i, j) => ~Live(i) \/ i \in undone
    BY <1>1, <1>2 DEF ChecksHold
<1>9. \A i \in Jobs : i # j => (Live(i)' <=> Live(i))
    BY <1>6 DEF Live
<1>10. CampaignsInStep'
    <2>1. Campaigns' \subseteq processed'
        BY <1>3, <1>7 DEF CampaignsInStep
    <2>2. CampaignInStep(j)'
        BY <1>3, <1>6, <1>7 DEF CampaignsInStep, CampaignInStep, Campaigns
    <2>3. \A i \in Jobs : i # j => CampaignInStep(i)'
        BY <1>3, <1>6 DEF CampaignsInStep, CampaignInStep
    <2> QED BY <2>1, <2>2, <2>3 DEF CampaignsInStep
<1>11. LapsedInStep'
    BY <1>1, <1>6, <1>7, EndTransactionRuns DEF LapsedInStep, Campaigns
<1>12. OneLiveCampaign'
    <2>1. ASSUME NEW h \in Campaigns' \ undone', NEW i \in Campaigns' \ undone',
                 SharesRecipient(h, i), h # i
          PROVE  ~Live(h)' \/ ~Live(i)'
        <3>1. h \in Jobs /\ i \in Jobs /\ h \notin undone /\ i \notin undone /\ SharesRecipient(i, h)
            BY <1>3, <2>1 DEF Campaigns, SharesRecipient
        <3>2. CASE h # j /\ i # j
            <4>1. ~Live(h) \/ ~Live(i)
                BY <2>1, <3>1, <3>2, <1>7 DEF OneLiveCampaign, Live
            <4> QED BY <3>1, <3>2, <4>1, <1>9
        <3>3. CASE h = j
            BY <2>1, <3>1, <3>3, <1>7, <1>8, <1>9
        <3>4. CASE i = j
            BY <2>1, <3>1, <3>4, <1>7, <1>8, <1>9
        <3> QED BY <3>2, <3>3, <3>4
    <2> QED BY <2>1 DEF OneLiveCampaign, Live
<1>13. \A v \in Runs : v # w => (Locking(v)' => Locking(v)) /\ job'[v] = job[v] /\ pc'[v] = pc[v]
    BY <1>1 DEF EndTransaction, LockTypes, Locking
<1>14. pc'[w] = "idle"
    BY <1>1 DEF EndTransaction, LockTypes
<1>15. ChecksHold'
    <2>1. ASSUME NEW v \in Runs, Locking(v)'
          PROVE  job'[v] \notin Campaigns'
        <3>1. v # w /\ Locking(v) /\ job'[v] = job[v]
            BY <2>1, <1>13, <1>14 DEF Locking
        <3>2. job[v] # j
            BY <3>1, <1>1, <1>2, JobsApart
        <3> QED BY <3>1, <3>2, <1>7 DEF ChecksHold
    <2>2. ASSUME NEW v \in Runs, pc'[v] = "checked",
                 NEW i \in Campaigns', SharesRecipient(i, job'[v])
          PROVE  ~Live(i)' \/ i \in undone'
        <3>1. v # w /\ Locking(v) /\ job'[v] = job[v] /\ pc[v] = "checked"
            BY <2>2, <1>13, <1>14 DEF Locking
        <3>2. need[v] = {} /\ need[w] = {}
            BY <3>1, <1>1 DEF RunsInStep
        <3>3. ~SharesRecipient(j, job[v])
            BY <3>1, <3>2, <1>1, <1>2, LockedApart
        <3>4. i # j /\ i \in Campaigns /\ i \in Jobs
            BY <2>2, <3>1, <3>3, <1>7 DEF Campaigns
        <3>5. ~Live(i) \/ i \in undone
            BY <2>2, <3>1, <3>4 DEF ChecksHold
        <3> QED BY <3>4, <3>5, <1>3, <1>6, <1>9
    <2>3. \A v \in Runs : pc'[v] = "checked" =>
             \A i \in Campaigns' : SharesRecipient(i, job'[v]) =>
                 ~Live(i)' \/ i \in undone'
        BY <2>2
    <2> QED BY <2>1, <2>3 DEF ChecksHold
<1>16. MatchedIsConfirmed'
    BY <1>3 DEF MatchedIsConfirmed
<1>17. LocksInv'
    BY <1>4, <1>5, TypeOKParts, PTL
<1>18. ImportInStep'
    BY <1>3, <1>7 DEF ImportInStep
<1> QED BY <1>10, <1>11, <1>12, <1>15, <1>16, <1>17, <1>18 DEF CampaignInv

\* A step that ends or keeps campaigns, outside the transactions that create them.
LEMMA CampaignEventInv ==
    ASSUME CampaignInv, UNCHANGED <<lockVars, createdAt>>,
           CampaignTypes', ReviewTypes', MatchedIsConfirmed',
           \/ UNCHANGED importVars
           \/ found' \subseteq Campaigns /\ (locked' => reading' # None),
           \A j \in Jobs : status'[j] = "none" <=> status[j] = "none",
           processed \subseteq processed', undone \subseteq undone',
           \A j \in Jobs : recent'[j] => recent[j],
           \A j \in Jobs : Live(j)' => Live(j) \/ j \in undone',
           \A j \in Jobs : CampaignInStep(j)'
    PROVE  CampaignInv'
<1> USE CampaignFacts
<1>1. \A v \in Runs : /\ Locking(v)' => Locking(v) /\ job'[v] = job[v]
                      /\ pc'[v] = "checked" => pc[v] = "checked"
    BY DEF lockVars, Locking
<1>2. Campaigns' \subseteq processed' /\ ChecksHold' /\ OneLiveCampaign'
    BY <1>1, QuieterStep
<1>3. CampaignsInStep'
    BY <1>2 DEF CampaignsInStep
<1>4. LockTypes' /\ OrderTypes' /\ RunsInStep'
    BY DEF lockVars, LockTypes, OrderTypes, RunsInStep
<1>5. LocksInStep'
    BY DEF lockVars, LocksInStep, Locking, Taken
<1>6. LocksInv'
    BY <1>4, <1>5, TypeOKParts, PTL
<1>7. ImportInStep' /\ LapsedInStep'
    BY DEF ImportInStep, LapsedInStep, Campaigns, lockVars, LockTypes, importVars
<1> QED BY <1>2, <1>3, <1>6, <1>7 DEF CampaignInv

LEMMA SetProcessedJobOutcomeInv ==
    ASSUME CampaignInv, NEW j \in Jobs, SetProcessedJobOutcome(j)
    PROVE  CampaignInv'
<1> USE CampaignFacts DEF SetProcessedJobOutcome, campaignVars, reviewVars, importVars
<1>1. CampaignTypes' /\ ReviewTypes' /\ MatchedIsConfirmed'
    BY DEF CampaignTypes, ReviewTypes, MatchedIsConfirmed
<1>2. \A i \in Jobs : /\ CampaignInStep(i)' /\ (recent'[i] => recent[i])
                      /\ Live(i)' => Live(i)
    BY DEF CampaignsInStep, CampaignInStep, Live
<1> QED BY <1>1, <1>2, CampaignEventInv

LEMMA TakeMessageInv ==
    ASSUME CampaignInv, NEW j \in Jobs, TakeMessage(j)
    PROVE  CampaignInv'
<1> USE CampaignFacts DEF TakeMessage, reviewVars, importVars
<1>1. CampaignTypes' /\ ReviewTypes' /\ MatchedIsConfirmed'
    BY DEF CampaignTypes, ReviewTypes, MatchedIsConfirmed
<1>2. \A i \in Jobs : CampaignInStep(i)' /\ (Live(i)' => Live(i))
    BY DEF CampaignsInStep, CampaignInStep, Live, CampaignTypes
<1> QED BY <1>1, <1>2, CampaignEventInv

LEMMA RequeueMessageInv ==
    ASSUME CampaignInv, NEW j \in Jobs, RequeueMessage(j)
    PROVE  CampaignInv'
<1> USE CampaignFacts DEF RequeueMessage, reviewVars, importVars
<1>1. CampaignTypes' /\ ReviewTypes' /\ MatchedIsConfirmed'
    BY DEF CampaignTypes, ReviewTypes, MatchedIsConfirmed
<1>2. \A i \in Jobs : CampaignInStep(i)' /\ (Live(i)' => Live(i))
    BY DEF CampaignsInStep, CampaignInStep, Live, CampaignTypes
<1> QED BY <1>1, <1>2, CampaignEventInv

LEMMA SuppressMessagesInv ==
    ASSUME CampaignInv, NEW j \in Jobs, SuppressMessages(j)
    PROVE  CampaignInv'
<1> USE CampaignFacts DEF SuppressMessages, reviewVars, importVars
<1>1. CampaignTypes' /\ ReviewTypes' /\ MatchedIsConfirmed'
    BY DEF CampaignTypes, ReviewTypes, MatchedIsConfirmed
<1>2. \A i \in Jobs : CampaignInStep(i)' /\ (Live(i)' => Live(i))
    BY DEF CampaignsInStep, CampaignInStep, Live, CampaignTypes
<1> QED BY <1>1, <1>2, CampaignEventInv

LEMMA WindowPassesInv ==
    ASSUME CampaignInv, NEW j \in Jobs, WindowPasses(j)
    PROVE  CampaignInv'
<1> USE CampaignFacts DEF WindowPasses, reviewVars, importVars
<1>1. CampaignTypes' /\ ReviewTypes' /\ MatchedIsConfirmed'
    BY DEF CampaignTypes, ReviewTypes, MatchedIsConfirmed
<1>2. \A i \in Jobs : /\ CampaignInStep(i)' /\ (recent'[i] => recent[i])
                      /\ Live(i)' => Live(i)
    BY DEF CampaignsInStep, CampaignInStep, Live, CampaignTypes
<1> QED BY <1>1, <1>2, CampaignEventInv

LEMMA ReplyInv ==
    ASSUME CampaignInv, NEW phone \in PhoneKeys, Reply(phone)
    PROVE  CampaignInv'
<1> USE CampaignFacts DEF reviewVars, importVars
<1>1. PICK j \in Jobs, new \in {"cancelled", "completed"} :
         /\ RepliesTo(phone, j)
         /\ status' = [status EXCEPT ![j] = new]
         /\ repliedAt' = [repliedAt EXCEPT ![j] = TRUE]
         /\ waiting' = [waiting EXCEPT ![j] = FALSE]
    BY DEF Reply
<1>2. UNCHANGED <<lockVars, processed, recent, confirmedAt, tried, createdAt, reviewVars, 
                  importVars, undone>>
    BY DEF Reply
<1>3. status[j] = "active"
    BY <1>1 DEF RepliesTo, ActiveAt
<1>4. CampaignTypes' /\ ReviewTypes' /\ MatchedIsConfirmed'
    BY <1>1, <1>2 DEF CampaignTypes, CampaignStatus, ReviewTypes, MatchedIsConfirmed
<1>5. \A i \in Jobs : /\ CampaignInStep(i)' /\ (recent'[i] => recent[i])
                      /\ status'[i] = "none" <=> status[i] = "none"
                      /\ Live(i)' => Live(i)
    BY <1>1, <1>2, <1>3 DEF CampaignsInStep, CampaignInStep, Live, CampaignTypes
<1> QED BY <1>2, <1>4, <1>5, CampaignEventInv

LEMMA CancelCampaignInv ==
    ASSUME CampaignInv, NEW j \in Jobs, CancelCampaign(j)
    PROVE  CampaignInv'
<1> USE CampaignFacts DEF CancelCampaign, reviewVars, importVars
<1>1. CampaignTypes' /\ ReviewTypes' /\ MatchedIsConfirmed'
    BY DEF CampaignTypes, CampaignStatus, ReviewTypes, MatchedIsConfirmed
<1>2. \A i \in Jobs : /\ CampaignInStep(i)' /\ (recent'[i] => recent[i])
                      /\ status'[i] = "none" <=> status[i] = "none"
                      /\ Live(i)' => Live(i)
    BY DEF CampaignsInStep, CampaignInStep, Live, CampaignTypes
<1> QED BY <1>1, <1>2, CampaignEventInv

\* An undone confirmation revives a campaign whose cancelled messages stay cancelled.
LEMMA UndoInv ==
    ASSUME CampaignInv, NEW j \in Jobs, UndoCampaignConfirmation(j)
    PROVE  CampaignInv'
<1> USE CampaignFacts DEF UndoCampaignConfirmation, importVars
<1>1. CampaignTypes' /\ ReviewTypes'
    BY DEF CampaignTypes, CampaignStatus, ReviewTypes, RestoredStatus
<1>2. MatchedIsConfirmed'
    <2>1. ASSUME NEW r \in Reviews, matchStatus'[r] = "matched"
          PROVE  matched'[r] # None /\ confirmedAt'[matched'[r]]
        <3>1. matched[r] # j /\ matched'[r] = matched[r] /\ matchStatus[r] = "matched"
            BY <2>1
        <3>2. matched[r] \in Jobs /\ confirmedAt[matched[r]]
            BY <3>1 DEF MatchedIsConfirmed, ReviewTypes
        <3>3. confirmedAt'[matched[r]]
            BY <3>1, <3>2 DEF CampaignTypes
        <3> QED BY <3>1, <3>2, <3>3, CampaignConstants
    <2> QED BY <2>1 DEF MatchedIsConfirmed
<1>3. status[j] = "confirmed" /\ status'[j] = RestoredStatus(j)
    BY DEF CampaignsInStep, CampaignInStep, CampaignTypes
<1>4. \A i \in Jobs : /\ CampaignInStep(i)' /\ (recent'[i] => recent[i])
                      /\ status'[i] = "none" <=> status[i] = "none"
                      /\ Live(i)' => Live(i) \/ i \in undone'
    BY <1>3 DEF CampaignsInStep, CampaignInStep, Live, CampaignTypes, RestoredStatus
<1> QED BY <1>1, <1>2, <1>4, CampaignEventInv

\* A confirmation, whoever makes it.
LEMMA ConfirmedCampaign ==
    ASSUME CampaignInv, NEW j \in Jobs, j \in Campaigns, Confirmed(j),
           UNCHANGED <<processed, undone>>
    PROVE  /\ CampaignTypes'
           /\ \A i \in Jobs : /\ CampaignInStep(i)' /\ (recent'[i] => recent[i])
                              /\ status'[i] = "none" <=> status[i] = "none"
                              /\ Live(i)' => Live(i)
                              /\ confirmedAt[i] \/ i = j => confirmedAt'[i]
<1> USE CampaignFacts DEF Confirmed
<1>1. CampaignTypes'
    BY DEF CampaignTypes, CampaignStatus
<1>2. \A i \in Jobs : /\ CampaignInStep(i)' /\ (recent'[i] => recent[i])
                      /\ status'[i] = "none" <=> status[i] = "none"
                      /\ Live(i)' => Live(i)
                      /\ confirmedAt[i] \/ i = j => confirmedAt'[i]
    BY DEF CampaignsInStep, CampaignInStep, Live, CampaignTypes, Campaigns
<1> QED BY <1>1, <1>2

\* A review that is matched with a campaign as it is confirmed stays in step with it.
LEMMA MatchIsConfirmed ==
    ASSUME CampaignInv, NEW j \in Jobs, NEW r \in Reviews,
           \A i \in Jobs : confirmedAt[i] \/ i = j => confirmedAt'[i],
           matchStatus' = [matchStatus EXCEPT ![r] = "matched"],
           matched' = [matched EXCEPT ![r] = j]
    PROVE  MatchedIsConfirmed'
<1> USE CampaignFacts
<1>1. ASSUME NEW q \in Reviews, matchStatus'[q] = "matched"
      PROVE  matched'[q] # None /\ confirmedAt'[matched'[q]]
    <2>1. CASE q = r
        BY <2>1, CampaignConstants DEF ReviewTypes
    <2>2. CASE q # r
        <3>1. matched'[q] = matched[q] /\ matchStatus[q] = "matched"
            BY <1>1, <2>2 DEF ReviewTypes
        <3>2. matched[q] \in Jobs /\ confirmedAt[matched[q]]
            BY <3>1 DEF MatchedIsConfirmed, ReviewTypes
        <3> QED BY <3>1, <3>2, CampaignConstants
    <2> QED BY <2>1, <2>2
<1> QED BY <1>1 DEF MatchedIsConfirmed

LEMMA ConfirmCampaignInv ==
    ASSUME CampaignInv, NEW j \in Jobs, NEW r \in Reviews \cup {None}, ConfirmCampaign(j, r)
    PROVE  CampaignInv'
<1> USE CampaignFacts
<1>1. /\ j \in Campaigns /\ Confirmed(j)
      /\ UNCHANGED <<lockVars, processed, createdAt, importVars, undone>>
    BY DEF ConfirmCampaign
<1>2. /\ CampaignTypes'
      /\ \A i \in Jobs : /\ CampaignInStep(i)' /\ (recent'[i] => recent[i])
                         /\ status'[i] = "none" <=> status[i] = "none"
                         /\ Live(i)' => Live(i)
                         /\ confirmedAt[i] \/ i = j => confirmedAt'[i]
    BY <1>1, ConfirmedCampaign
<1>3. ReviewTypes' /\ MatchedIsConfirmed'
    <2>1. CASE r # None /\ matchStatus[r] # "absent"
        <3>1. /\ r \in Reviews
              /\ matchStatus' = [matchStatus EXCEPT ![r] = "matched"]
              /\ matched' = [matched EXCEPT ![r] = j]
            BY <2>1 DEF ConfirmCampaign
        <3>2. ReviewTypes'
            BY <1>1, <3>1 DEF ReviewTypes, importVars
        <3> QED BY <1>2, <3>1, <3>2, MatchIsConfirmed
    <2>2. CASE ~(r # None /\ matchStatus[r] # "absent")
        <3>1. UNCHANGED <<matchStatus, matched>>
            BY <2>2 DEF ConfirmCampaign, reviewVars
        <3> QED BY <1>1, <1>2, <3>1, CampaignConstants
                DEF ReviewTypes, importVars, MatchedIsConfirmed
    <2> QED BY <2>1, <2>2
<1> QED BY <1>1, <1>2, <1>3, CampaignEventInv DEF importVars

-------------------------------------------------------------------------------
(* The import of a review.                                                 *)

LEMMA ReadReviewInv ==
    ASSUME CampaignInv, NEW r \in Reviews, ReadReview(r)
    PROVE  CampaignInv'
<1> USE CampaignFacts DEF ReadReview, campaignVars, reviewVars
<1>1. CampaignTypes' /\ ReviewTypes' /\ MatchedIsConfirmed'
    BY DEF CampaignTypes, ReviewTypes, MatchedIsConfirmed
<1>2. \A i \in Jobs : CampaignInStep(i)' /\ (Live(i)' => Live(i))
    BY DEF CampaignsInStep, CampaignInStep, Live
<1>3. found' \subseteq Campaigns /\ reading' # None
    BY CampaignConstants DEF ImportInStep
<1> QED BY <1>1, <1>2, <1>3, CampaignEventInv

LEMMA LockReviewInv ==
    ASSUME CampaignInv, LockReview
    PROVE  CampaignInv'
<1> USE CampaignFacts DEF LockReview, campaignVars, reviewVars
<1>1. found' \subseteq Campaigns /\ found' \subseteq Jobs /\ reading' # None
    BY DEF Newest, Eligible, Campaigns
<1>2. CampaignTypes' /\ ReviewTypes' /\ MatchedIsConfirmed'
    BY <1>1 DEF CampaignTypes, ReviewTypes, MatchedIsConfirmed
<1>3. \A i \in Jobs : CampaignInStep(i)' /\ (Live(i)' => Live(i))
    BY DEF CampaignsInStep, CampaignInStep, Live
<1> QED BY <1>1, <1>2, <1>3, CampaignEventInv

LEMMA WriteMatchInv ==
    ASSUME CampaignInv, WriteMatch
    PROVE  CampaignInv'
<1> USE CampaignFacts
<1>1. PICK j \in Jobs :
         /\ AutoConfirms(j) /\ Confirmed(j)
         /\ matchStatus' = [matchStatus EXCEPT ![reading] = "matched"]
         /\ matched' = [matched EXCEPT ![reading] = j]
    BY DEF WriteMatch
<1>2. /\ reading \in Reviews /\ reading' = None /\ found' = {} /\ locked' = FALSE
      /\ UNCHANGED <<lockVars, processed, createdAt, undone>>
    BY DEF WriteMatch, EndImport, ReviewTypes, ImportInStep
<1>3. j \in Campaigns
    BY <1>1 DEF AutoConfirms, Exact, ImportInStep
<1>4. /\ CampaignTypes'
      /\ \A i \in Jobs : /\ CampaignInStep(i)' /\ (recent'[i] => recent[i])
                         /\ status'[i] = "none" <=> status[i] = "none"
                         /\ Live(i)' => Live(i)
                         /\ confirmedAt[i] \/ i = j => confirmedAt'[i]
    BY <1>1, <1>2, <1>3, ConfirmedCampaign
<1>5. ReviewTypes'
    BY <1>1, <1>2 DEF ReviewTypes
<1>6. MatchedIsConfirmed'
    BY <1>1, <1>2, <1>4, MatchIsConfirmed
<1> QED BY <1>2, <1>4, <1>5, <1>6, CampaignEventInv

\* The import's other outcomes leave the campaigns alone.
LEMMA WriteKeepsCampaigns ==
    ASSUME CampaignInv, ReviewTypes', MatchedIsConfirmed', found' = {}, ~locked',
           UNCHANGED <<lockVars, processed, campaignVars, createdAt, undone>>
    PROVE  CampaignInv'
<1> USE CampaignFacts DEF campaignVars
<1>1. CampaignTypes'
    BY DEF CampaignTypes
<1>2. \A i \in Jobs : /\ CampaignInStep(i)' /\ (recent'[i] => recent[i])
                      /\ status'[i] = "none" <=> status[i] = "none"
                      /\ Live(i)' => Live(i)
    BY DEF CampaignsInStep, CampaignInStep, Live
<1>3. found' \subseteq Campaigns
    OBVIOUS
<1> QED BY <1>1, <1>2, <1>3, CampaignEventInv

\* A candidate is not a match, and a review without one keeps what it had.
LEMMA WriteCandidateInv ==
    ASSUME CampaignInv, WriteCandidate
    PROVE  CampaignInv'
<1> USE CampaignFacts
<1>1. /\ reading \in Reviews /\ reading' = None /\ found' = {} /\ locked' = FALSE
      /\ UNCHANGED <<lockVars, processed, campaignVars, createdAt, undone>>
    BY DEF WriteCandidate, EndImport, ReviewTypes, ImportInStep
<1>2. Best \subseteq Jobs
    BY DEF Best, Similar, Exact, ReviewTypes
<1>3. CASE Similar = {}
    <2>1. /\ matchStatus' = [matchStatus EXCEPT
                               ![reading] = IF @ = "absent" THEN "unmatched" ELSE @]
          /\ matched' = matched
        BY <1>3 DEF WriteCandidate
    <2>2. ReviewTypes'
        BY <1>1, <2>1 DEF ReviewTypes
    <2>3. MatchedIsConfirmed'
        BY <1>1, <2>1 DEF MatchedIsConfirmed, ReviewTypes, campaignVars
    <2> QED BY <2>2, <2>3, <1>1, WriteKeepsCampaigns
<1>4. CASE Similar # {}
    <2>1. PICK j \in Jobs : /\ matchStatus' = [matchStatus EXCEPT ![reading] = "candidate"]
                            /\ matched' = [matched EXCEPT ![reading] = j]
        BY <1>2, <1>4 DEF WriteCandidate
    <2>2. ReviewTypes'
        BY <1>1, <2>1 DEF ReviewTypes
    <2>3. MatchedIsConfirmed'
        BY <1>1, <2>1 DEF MatchedIsConfirmed, ReviewTypes, campaignVars
    <2> QED BY <2>2, <2>3, <1>1, WriteKeepsCampaigns
<1> QED BY <1>3, <1>4

LEMMA AbortImportInv ==
    ASSUME CampaignInv, AbortImport
    PROVE  CampaignInv'
<1> USE CampaignFacts
<1>1. /\ reading' = None /\ found' = {} /\ locked' = FALSE
      /\ UNCHANGED <<lockVars, processed, campaignVars, createdAt, reviewVars, undone>>
    BY DEF AbortImport, EndImport
<1>2. ReviewTypes' /\ MatchedIsConfirmed'
    BY <1>1 DEF ReviewTypes, MatchedIsConfirmed, reviewVars, campaignVars
<1> QED BY <1>1, <1>2, WriteKeepsCampaigns

-------------------------------------------------------------------------------
(* The theorems.                                                           *)

LEMMA NextInv == CampaignInv /\ [Next]_vars => CampaignInv'
<1> SUFFICES ASSUME CampaignInv, [Next]_vars PROVE CampaignInv'
    OBVIOUS
<1>1. ASSUME NEW w \in Runs, WorkflowStep(w) PROVE CampaignInv'
    <2>1. CASE AbortWorkflow(w)
        <3>1. /\ EndTransaction(w) /\ Forget(w)
              /\ UNCHANGED <<processed, campaignVars, reviewVars, importVars, undone>>
            BY <2>1 DEF AbortWorkflow
        <3>2. processed \subseteq processed' /\ processed' \subseteq Jobs
            BY <3>1, CampaignFacts DEF CampaignTypes
        <3> QED BY <3>1, <3>2, EndWithoutCampaignInv
    <2>2. CASE ~AbortWorkflow(w)
        BY <1>1, <2>2, BeginWorkflowInv, LockJobInv, LockRecipientInv, CheckSuppressionInv,
           InsertCampaignInv DEF WorkflowStep
    <2> QED BY <2>1, <2>2
<1>2. ASSUME NEW j \in Jobs, CampaignStep(j) PROVE CampaignInv'
    BY <1>2, SetProcessedJobOutcomeInv, WindowPassesInv, TakeMessageInv, RequeueMessageInv,
       SuppressMessagesInv, UndoInv, CancelCampaignInv, ConfirmCampaignInv DEF CampaignStep
<1>3. ASSUME NEW phone \in PhoneKeys, Reply(phone) PROVE CampaignInv'
    BY <1>3, ReplyInv
<1>4. CASE ImportStep
    BY <1>4, ReadReviewInv, LockReviewInv, WriteMatchInv, WriteCandidateInv, AbortImportInv DEF ImportStep
<1>5. CASE UNCHANGED vars
    BY <1>5 DEF vars, lockVars, campaignVars, reviewVars, importVars, CampaignInv, LocksInv,
        TypeOK, RunsInStep, LocksInStep, Locking, Taken, CampaignsInStep, CampaignInStep, Campaigns,
        LapsedInStep, ChecksHold, Live, ImportInStep, OneLiveCampaign, MatchedIsConfirmed
<1> QED BY <1>1, <1>2, <1>3, <1>4, <1>5 DEF Next

\* The invariant that the locks, the checks under them, and everything that ends a
\* campaign keep together.
THEOREM CampaignInvariant == Spec => []CampaignInv
BY InitInv, NextInv, PTL DEF Spec

\* Every variable has its type, and a run holds locks only inside its transaction.
THEOREM TypeCorrect == Spec => []TypeOK
<1>1. CampaignInv => TypeOK
    BY DEF CampaignInv, LocksInv
<1> QED BY <1>1, CampaignInvariant, PTL

\* One recipient has one live campaign in its window, with any number of overlapping
\* workers, jobs and shared phones and emails, and even where locks share a hash.
THEOREM OneLiveCampaignHolds == Spec => []OneLiveCampaign
<1>1. CampaignInv => OneLiveCampaign
    BY DEF CampaignInv
<1> QED BY <1>1, CampaignInvariant, PTL

\* What waits in a closed or reopened campaign was taken up by a run before.
THEOREM OnlyTriedMessagesReturnHolds == Spec => []OnlyTriedMessagesReturn
<1>1. CampaignInv => OnlyTriedMessagesReturn
    BY DEF CampaignInv, CampaignsInStep, CampaignInStep, OnlyTriedMessagesReturn
<1> QED BY <1>1, CampaignInvariant, PTL

\* A campaign the customer has answered is never active again.
THEOREM RepliedStaysClosedHolds == Spec => []RepliedStaysClosed
<1>1. CampaignInv => RepliedStaysClosed
    BY DEF CampaignInv, CampaignsInStep, CampaignInStep, RepliedStaysClosed
<1> QED BY <1>1, CampaignInvariant, PTL

\* The campaign of a matched review is confirmed.
THEOREM MatchedIsConfirmedHolds == Spec => []MatchedIsConfirmed
<1>1. CampaignInv => MatchedIsConfirmed
    BY DEF CampaignInv
<1> QED BY <1>1, CampaignInvariant, PTL

-------------------------------------------------------------------------------
(* Deadlock.                                                               *)

\* No two lock keys have the same hashtext.  The locks are ordered by their keys and
\* taken by their hashes, so this is what the order of the keys is good for.
HashesApart ==
    /\ Keys \cap Jobs = {}
    /\ \A k, l \in Keys \cup Jobs : SlotOf[k] = SlotOf[l] => k = l

\* Whoever is waited for has begun to lock, and took the key that a locking transaction
\* waits for.
LEMMA WaitedForHolds ==
    ASSUME LocksInv, HashesApart, NEW w \in Runs, NEW v \in WaitsFor(w)
    PROVE  /\ v \in Runs /\ Locking(v)
           /\ pc[w] \in {"begun", "locking"}
           /\ pc[w] = "locking" => \E k \in Keys : NextKey(w, k) /\ k \in Taken(v)
<1> USE TypeOKParts, CampaignConstants
<1>1. PICK s \in Slots :
         /\ v = holder[s] /\ v # None /\ v # w
         /\ \/ pc[w] = "begun" /\ s = SlotOf[job[w]]
            \/ pc[w] = "locking" /\ \E k \in Keys : NextKey(w, k) /\ s = SlotOf[k]
    BY DEF WaitsFor
<1>2. v \in Runs /\ holder[s] = v
    BY <1>1 DEF LockTypes
<1>3. Locking(v) /\ (s = SlotOf[job[v]] \/ \E k \in Taken(v) : s = SlotOf[k])
    BY <1>2 DEF LocksInStep
<1>4. job[v] \in Jobs
    BY <1>2, <1>3 DEF Locking, RunsInStep
<1>5. Taken(v) \subseteq Keys
    BY <1>4 DEF Taken
<1>6. ASSUME NEW k \in Keys, NextKey(w, k), s = SlotOf[k]
      PROVE  k \in Taken(v)
    BY <1>3, <1>4, <1>5, <1>6 DEF HashesApart
<1> QED BY <1>1, <1>2, <1>3, <1>6

LEMMA NoCycle ==
    ASSUME LocksInv, HashesApart, IsFiniteSet(Keys)
    PROVE  NoLockCycle
<1> SUFFICES ASSUME NEW W \in SUBSET Runs, W # {}, \A w \in W : WaitsFor(w) \cap W # {}
             PROVE  FALSE
    BY Zenon DEF NoLockCycle
<1> USE TypeOKParts, CampaignConstants
<1> DEFINE L == {w \in W : pc[w] = "locking"}
           Wanted == {k \in Keys : \E v, w \in L : NextKey(w, k) /\ k \in Taken(v)}
           Above(k) == {l \in Keys : KeyRank[k] <= KeyRank[l]}
           T == {Above(k) : k \in Wanted}
<1>1. ASSUME NEW w \in W
      PROVE  \E v \in L : v \in WaitsFor(w)
    <2>1. PICK v \in W : v \in WaitsFor(w)
        OBVIOUS
    <2>2. Locking(v)
        BY <2>1, WaitedForHolds
    <2>3. PICK u \in W : u \in WaitsFor(v)
        OBVIOUS
    <2>4. pc[v] \in {"begun", "locking"}
        BY <2>3, WaitedForHolds
    <2> QED BY <2>1, <2>2, <2>4 DEF Locking
<1>2. ASSUME NEW w \in L
      PROVE  \E k \in Wanted : NextKey(w, k)
    <2>1. PICK v \in L : v \in WaitsFor(w)
        BY <1>1
    <2>2. PICK k \in Keys : NextKey(w, k) /\ k \in Taken(v)
        BY <2>1, WaitedForHolds
    <2> QED BY <2>1, <2>2
<1>3. Wanted # {}
    BY <1>1, <1>2
<1>4. T \subseteq FiniteSubsetsOf(Keys) /\ T # {}
    <2>1. FiniteSubsetsOf(Keys) = SUBSET Keys
        BY FS_FiniteSubsetsOfFinite
    <2>2. \A k \in Wanted : Above(k) \in SUBSET Keys
        OBVIOUS
    <2> HIDE DEF Wanted, Above
    <2>3. T \subseteq SUBSET Keys
        BY <2>2
    <2>4. T # {}
        BY <1>3
    <2> QED BY <2>1, <2>3, <2>4
<1>5. PICK x \in T : \A y \in T : <<y, x>> \notin StrictSubsetOrdering(Keys)
    <2> DEFINE R == StrictSubsetOrdering(Keys)
               S == FiniteSubsetsOf(Keys)
    <2>1. IsWellFoundedOn(R, S)
        BY FS_StrictSubsetOrderingWellFounded
    <2> HIDE DEF T, R, S
    <2>2. T \subseteq S /\ T # {}
        BY <1>4 DEF S
    <2>3. \E x \in T : \A y \in T : ~(<<y, x>> \in R)
        BY <2>1, <2>2, WFMin, Zenon
    <2> QED BY <2>3 DEF R
<1>6. PICK k \in Wanted : x = Above(k)
    OBVIOUS
<1>7. PICK v \in L : k \in Taken(v)
    OBVIOUS
<1>8. PICK l \in Wanted : NextKey(v, l)
    BY <1>2
<1>9. KeyRank[k] < KeyRank[l]
    BY <1>7, <1>8 DEF NextKey, LocksInStep, Locking
<1>10. KeyRank[k] \in Nat /\ KeyRank[l] \in Nat /\ \A m \in Keys : KeyRank[m] \in Nat
    OBVIOUS
<1>11. Above(l) \subseteq Above(k)
    BY <1>9, <1>10
<1>12. k \in Above(k) /\ k \notin Above(l)
    BY <1>9, <1>10
<1>13. <<Above(l), x>> \in StrictSubsetOrdering(Keys)
    BY <1>6, <1>11, <1>12 DEF StrictSubsetOrdering
<1> QED BY <1>5, <1>8, <1>13

\* Transactions that create campaigns never wait for each other in a circle, however
\* many there are and whatever recipients they share, as long as the hashes of their
\* keys differ.
THEOREM NoLockCycleHolds ==
    ASSUME HashesApart, IsFiniteSet(Keys)
    PROVE  Spec => []NoLockCycle
<1>1. CampaignInv => NoLockCycle
    BY NoCycle DEF CampaignInv
<1> QED BY <1>1, CampaignInvariant, PTL

-------------------------------------------------------------------------------
(* Replies.                                                                *)

OutOfWindow(c) == c \in Jobs /\ ~recent[c]

\* Campaigns leave the window in the order in which their transactions began, whatever
\* the order of the commits, and only a campaign takes the place of its transaction.
LapseInOrder ==
    \A m, n \in DOMAIN createdAt :
        m < n /\ OutOfWindow(createdAt[n]) => OutOfWindow(createdAt[m])
PlacedAreCampaigns ==
    \A n \in DOMAIN createdAt : createdAt[n] \in Jobs => createdAt[n] \in Campaigns

OrderInv == LapseInOrder /\ PlacedAreCampaigns

LEMMA BeginOrder ==
    ASSUME CampaignInv, OrderInv, NEW w \in Runs, NEW j \in Jobs, BeginWorkflow(w, j)
    PROVE  OrderInv'
<1> DEFINE n == Len(createdAt)
<1>1. createdAt \in Seq(Jobs \cup Runs) /\ DOMAIN createdAt = 1..n /\ n \in Nat
    BY CampaignFacts, LenProperties DEF OrderTypes
<1>2. createdAt' = Append(createdAt, w) /\ UNCHANGED <<status, recent>> /\ w \notin Jobs
    BY CampaignConstants DEF BeginWorkflow, campaignVars
<1>3. /\ DOMAIN createdAt' = 1..(n + 1) /\ createdAt'[n + 1] = w
      /\ \A m \in 1..n : createdAt'[m] = createdAt[m]
    BY <1>1, <1>2, AppendProperties, LenProperties
<1> HIDE DEF n
<1>4. \A m \in 1..(n + 1) : m \in 1..n \/ m = n + 1
    BY <1>1
<1>5. \A k, m \in 1..(n + 1) : k < m /\ m \in 1..n => k \in 1..n
    BY <1>1
<1>6. LapseInOrder'
    BY <1>1, <1>2, <1>3, <1>4, <1>5 DEF OrderInv, LapseInOrder, OutOfWindow
<1>7. PlacedAreCampaigns'
    BY <1>1, <1>2, <1>3, <1>4 DEF OrderInv, PlacedAreCampaigns, Campaigns
<1> QED BY <1>6, <1>7 DEF OrderInv

LEMMA ForgetOrder ==
    ASSUME CampaignInv, OrderInv, NEW w \in Runs, Forget(w), UNCHANGED campaignVars
    PROVE  OrderInv'
<1> DEFINE n == Len(createdAt)
           S == Jobs \cup Runs
<1>1. createdAt \in Seq(S) /\ DOMAIN createdAt = 1..n /\ n \in Nat
    BY CampaignFacts, LenProperties DEF OrderTypes
<1>2. PICK i \in 1..n : createdAt' = SubSeq(createdAt, 1, i - 1) \o SubSeq(createdAt, i + 1, n)
    BY <1>1 DEF Forget, RemoveAt
<1> DEFINE s == SubSeq(createdAt, 1, i - 1)
           e == SubSeq(createdAt, i + 1, n)
           Old(m) == IF m < i THEN m ELSE m + 1
<1>3. \A m \in 1..n : createdAt[m] \in S
    BY <1>1, ElementOfSeq
<1>4. s \in Seq(S) /\ Len(s) = i - 1 /\ \A m \in 1..(i - 1) : s[m] = createdAt[m]
    <2>1. /\ 1 \in Int /\ i - 1 \in Int /\ \A m \in 1..(i - 1) : createdAt[m] \in S
          /\ 1 <= i - 1 + 1
        BY <1>1, <1>3
    <2> HIDE DEF S
    <2>2. s \in Seq(S) /\ Len(s) = IF 1 <= i - 1 THEN i - 1 - 1 + 1 ELSE 0
        BY <1>1, <2>1, SubSeqProperties
    <2>3. \A m \in 1..(i - 1) : s[m] = createdAt[m]
        BY <1>1, <2>1, <2>2, SubSeqProperties
    <2> QED BY <1>1, <2>2, <2>3
<1>5. e \in Seq(S) /\ Len(e) = n - i /\ \A m \in 1..(n - i) : e[m] = createdAt[m + i]
    <2>1. i + 1 \in Int /\ n \in Int /\ \A m \in (i + 1)..n : createdAt[m] \in S
        BY <1>1, <1>3
    <2> HIDE DEF S
    <2>2. e \in Seq(S) /\ Len(e) = IF i + 1 <= n THEN n - (i + 1) + 1 ELSE 0
        BY <1>1, <2>1, SubSeqProperties
    <2>3. Len(e) = n - i
        <3> HIDE DEF n, e
        <3> QED BY <1>1, <2>2
    <2>4. \A m \in 1..(n - (i + 1) + 1) : e[m] = createdAt[i + 1 + m - 1]
        BY <2>1, SubSeqProperties
    <2> HIDE DEF n, e
    <2>5. \A m \in 1..(n - i) : m \in 1..(n - (i + 1) + 1) /\ i + 1 + m - 1 = m + i
        BY <1>1
    <2> QED BY <2>2, <2>3, <2>4, <2>5
<1> HIDE DEF n, s, e, S
<1>6. /\ s \o e \in Seq(S) /\ Len(s \o e) = n - 1
      /\ \A m \in 1..(n - 1) : (s \o e)[m] = IF m < i THEN s[m] ELSE e[m - (i - 1)]
    <2>1. /\ s \o e \in Seq(S) /\ Len(s \o e) = Len(s) + Len(e)
          /\ \A m \in 1..(Len(s) + Len(e)) :
                (s \o e)[m] = IF m <= Len(s) THEN s[m] ELSE e[m - Len(s)]
        BY <1>4, <1>5, ConcatProperties
    <2> QED BY <1>1, <1>4, <1>5, <2>1
<1>7. createdAt' = s \o e
    BY <1>2 DEF s, e, n
<1>8. DOMAIN createdAt' = 1..(n - 1)
    BY <1>6, <1>7, LenProperties
<1>9. \A m \in 1..(n - 1) : Old(m) \in 1..n /\ createdAt'[m] = createdAt[Old(m)]
    <2> TAKE m \in 1..(n - 1)
    <2>1. CASE m < i
        <3>1. m \in 1..(i - 1) /\ m \in 1..n
            BY <1>1, <2>1
        <3> QED BY <2>1, <3>1, <1>4, <1>6, <1>7
    <2>2. CASE ~(m < i)
        <3>1. m - (i - 1) \in 1..(n - i) /\ m - (i - 1) + i = m + 1 /\ m + 1 \in 1..n
            BY <1>1, <2>2
        <3> QED BY <2>2, <3>1, <1>5, <1>6, <1>7
    <2> QED BY <2>1, <2>2
<1>10. \A k, m \in 1..(n - 1) : k < m => Old(k) < Old(m)
    BY <1>1
<1> HIDE DEF Old
<1>11. LapseInOrder'
    BY <1>1, <1>8, <1>9, <1>10 DEF OrderInv, LapseInOrder, OutOfWindow, campaignVars
<1>12. PlacedAreCampaigns'
    BY <1>1, <1>8, <1>9 DEF OrderInv, PlacedAreCampaigns, Campaigns, campaignVars
<1> QED BY <1>11, <1>12 DEF OrderInv

LEMMA InsertOrder ==
    ASSUME CampaignInv, OrderInv, NEW w \in Runs, InsertCampaign(w)
    PROVE  OrderInv'
<1> USE CampaignFacts
<1>1. PICK j \in Jobs : job[w] = j
    BY DEF InsertCampaign, RunsInStep
<1>2. j \notin Campaigns
    BY <1>1 DEF InsertCampaign, Locking, ChecksHold
<1>3. /\ recent'[j] /\ \A i \in Jobs : i # j => recent'[i] = recent[i]
      /\ Campaigns' = Campaigns \cup {j}
    BY <1>1 DEF InsertCampaign, CampaignTypes, Campaigns
<1>4. /\ DOMAIN createdAt' = DOMAIN createdAt
      /\ \A n \in DOMAIN createdAt :
            createdAt'[n] = IF createdAt[n] = w THEN j ELSE createdAt[n]
    BY <1>1 DEF InsertCampaign
<1>5. \A n \in DOMAIN createdAt :
         createdAt'[n] \in Jobs /\ ~recent'[createdAt'[n]] <=> OutOfWindow(createdAt[n])
    <2> TAKE n \in DOMAIN createdAt
    <2>1. CASE createdAt[n] = w
        BY <2>1, <1>3, <1>4, CampaignConstants DEF OutOfWindow
    <2>2. CASE createdAt[n] # w
        BY <2>2, <1>2, <1>3, <1>4 DEF OutOfWindow, OrderInv, PlacedAreCampaigns
    <2> QED BY <2>1, <2>2
<1>6. LapseInOrder'
    BY <1>4, <1>5 DEF OrderInv, LapseInOrder, OutOfWindow
<1>7. PlacedAreCampaigns'
    BY <1>3, <1>4 DEF OrderInv, PlacedAreCampaigns
<1> QED BY <1>6, <1>7 DEF OrderInv

LEMMA WindowOrder ==
    ASSUME CampaignInv, OrderInv, NEW j \in Jobs, WindowPasses(j)
    PROVE  OrderInv'
<1>1. /\ UNCHANGED <<createdAt, status>> /\ ~recent'[j]
      /\ \A i \in Jobs : i # j => recent'[i] = recent[i]
    BY CampaignFacts DEF WindowPasses, CampaignTypes
<1>2. ASSUME NEW m \in DOMAIN createdAt, NEW n \in DOMAIN createdAt, m < n,
             OutOfWindow(createdAt[n])'
      PROVE  OutOfWindow(createdAt[m])'
    <2>1. OutOfWindow(createdAt[m])
        <3>1. CASE createdAt[n] = j
            BY <1>2, <3>1 DEF WindowPasses, OutOfWindow
        <3>2. CASE createdAt[n] # j
            BY <1>1, <1>2, <3>2 DEF OutOfWindow, OrderInv, LapseInOrder
        <3> QED BY <3>1, <3>2
    <2> QED BY <1>1, <2>1 DEF OutOfWindow
<1>3. LapseInOrder'
    BY <1>1, <1>2 DEF LapseInOrder
<1>4. PlacedAreCampaigns'
    BY <1>1 DEF OrderInv, PlacedAreCampaigns, Campaigns
<1> QED BY <1>3, <1>4 DEF OrderInv

\* What opens or closes no transaction and moves no campaign out of the window.
LEMMA OrderStays ==
    ASSUME OrderInv, UNCHANGED <<createdAt, recent>>,
           \A j \in Jobs : status[j] # "none" => status'[j] # "none"
    PROVE  OrderInv'
BY DEF OrderInv, LapseInOrder, PlacedAreCampaigns, OutOfWindow, Campaigns

LEMMA OrderStep == CampaignInv /\ OrderInv /\ [Next]_vars => OrderInv'
<1> SUFFICES ASSUME CampaignInv, OrderInv, [Next]_vars PROVE OrderInv'
    OBVIOUS
<1>1. status \in [Jobs -> CampaignStatus]
    BY CampaignFacts DEF CampaignTypes
<1>2. ASSUME NEW w \in Runs, WorkflowStep(w) PROVE OrderInv'
    <2>1. ASSUME NEW j \in Jobs, BeginWorkflow(w, j) PROVE OrderInv'
        BY <2>1, BeginOrder
    <2>2. CASE InsertCampaign(w)
        BY <2>2, InsertOrder
    <2>3. CASE Forget(w) /\ UNCHANGED campaignVars
        BY <2>3, ForgetOrder
    <2>4. CASE UNCHANGED <<createdAt, campaignVars>>
        BY <2>4, OrderStays DEF campaignVars
    <2>5. LockJob(w) => UNCHANGED campaignVars /\ (Forget(w) \/ UNCHANGED createdAt)
        BY DEF LockJob
    <2>6. CheckSuppression(w) => UNCHANGED campaignVars /\ (Forget(w) \/ UNCHANGED createdAt)
        BY DEF CheckSuppression
    <2>7. LockRecipient(w) => UNCHANGED <<createdAt, campaignVars>>
        BY DEF LockRecipient
    <2>8. AbortWorkflow(w) => Forget(w) /\ UNCHANGED campaignVars
        BY DEF AbortWorkflow
    <2> QED BY <1>2, <2>1, <2>2, <2>3, <2>4, <2>5, <2>6, <2>7, <2>8 DEF WorkflowStep
<1>3. ASSUME NEW j \in Jobs, CampaignStep(j) PROVE OrderInv'
    <2>1. CASE WindowPasses(j)
        BY <2>1, WindowOrder
    <2>2. CASE \/ SetProcessedJobOutcome(j) \/ TakeMessage(j) \/ RequeueMessage(j)
               \/ SuppressMessages(j)
        BY <2>2, OrderStays DEF SetProcessedJobOutcome, TakeMessage, RequeueMessage,
                                SuppressMessages, campaignVars
    <2>3. CASE UndoCampaignConfirmation(j)
        BY <1>1, <2>3, OrderStays DEF UndoCampaignConfirmation, RestoredStatus
    <2>4. CASE CancelCampaign(j)
        BY <1>1, <2>4, OrderStays DEF CancelCampaign
    <2>5. ASSUME NEW r \in Reviews \cup {None}, ConfirmCampaign(j, r) PROVE OrderInv'
        BY <1>1, <2>5, OrderStays DEF ConfirmCampaign, Confirmed
    <2> QED BY <1>3, <2>1, <2>2, <2>3, <2>4, <2>5 DEF CampaignStep
<1>4. ASSUME NEW phone \in PhoneKeys, Reply(phone) PROVE OrderInv'
    BY <1>1, <1>4, OrderStays DEF Reply
<1>5. CASE ImportStep
    <2>1. CASE WriteMatch
        BY <1>1, <2>1, OrderStays DEF WriteMatch, Confirmed
    <2>2. CASE ~WriteMatch
        BY <1>5, <2>2, OrderStays DEF ImportStep, ReadReview, LockReview, WriteCandidate,
                                      AbortImport, campaignVars
    <2> QED BY <2>1, <2>2
<1>6. CASE UNCHANGED vars
    BY <1>6, OrderStays DEF vars, campaignVars
<1> QED BY <1>2, <1>3, <1>4, <1>5, <1>6 DEF Next

\* The campaign a reply ends is the last to leave the window of those of its phone, so
\* that another in its window would be a second live one.
LEMMA ReplyEndsTheLiveOne ==
    ASSUME CampaignInv, OrderInv, NEW phone \in PhoneKeys, Reply(phone),
           NEW j \in Jobs, phone \in KeysOf[j], status'[j] = "active", recent'[j]
    PROVE  \E i \in undone : phone \in KeysOf[i]
<1> USE CampaignFacts
<1>1. PICK k \in Jobs, new \in {"cancelled", "completed"} :
         RepliesTo(phone, k) /\ status' = [status EXCEPT ![k] = new]
    BY DEF Reply
<1>2. j # k /\ status[j] = "active" /\ recent[j]
    BY <1>1 DEF Reply, CampaignTypes
<1>3. j \in ActiveAt(phone) /\ j \in Campaigns
    BY <1>2 DEF ActiveAt, Campaigns
<1>4. k \in Campaigns /\ phone \in KeysOf[k] /\ status[k] = "active" /\ Newer(k, j)
    BY <1>1, <1>2, <1>3 DEF RepliesTo, ActiveAt
<1>5. recent[k]
    <2>1. PICK m, n \in DOMAIN createdAt : m > n /\ createdAt[m] = k /\ createdAt[n] = j
        BY <1>4 DEF Newer
    <2>2. n < m
        <3>1. DOMAIN createdAt \subseteq Nat
            BY LenProperties DEF OrderTypes
        <3> QED BY <2>1, <3>1
    <2> QED BY <1>2, <2>1, <2>2 DEF OrderInv, LapseInOrder, OutOfWindow
<1>6. SharesRecipient(j, k)
    BY <1>4 DEF SharesRecipient
<1>7. j \in undone \/ k \in undone
    BY <1>2, <1>3, <1>4, <1>5, <1>6 DEF OneLiveCampaign
<1> QED BY <1>4, <1>7

\* After a reply no campaign of that phone is active in its window unless a confirmation
\* was undone, for any number of overlapping runs, jobs and shared phones.
THEOREM ReplyStopsTheLiveCampaignHolds == Spec => ReplyStopsTheLiveCampaign
<1>1. Init => OrderInv
    BY DEF Init, OrderInv, LapseInOrder, PlacedAreCampaigns
<1>2. CampaignInv /\ OrderInv /\ [Next]_vars => OrderInv'
    BY OrderStep
<1>3. CampaignInv /\ OrderInv =>
          [\A phone \in PhoneKeys : Reply(phone) =>
              \A j \in Jobs : phone \in KeysOf[j] /\ status'[j] = "active" /\ recent'[j] =>
                  \E i \in undone : phone \in KeysOf[i]]_vars
    BY ReplyEndsTheLiveOne
<1> QED BY <1>1, <1>2, <1>3, CampaignInvariant, PTL DEF Spec, ReplyStopsTheLiveCampaign
================================================================================
