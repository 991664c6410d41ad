---------------------------- MODULE ReviewCampaigns ----------------------------
(***************************************************************************)
(* Review campaigns: their creation from completed services under sorted   *)
(* advisory locks, and everything that ends them: the customer's reply,    *)
(* the administrators, and the Google review sync.  A campaign is named by *)
(* its source job (source_job_id is unique).  MessageOutbox models the     *)
(* messages; here a campaign has messages waiting or not, and a run has    *)
(* taken one up or not, which may therefore come back to the queue.        *)
(*                                                                         *)
(* The creating transaction is split where PostgreSQL lets others in: at   *)
(* every lock it waits for and between the check and the insert.  The      *)
(* review import is split at its unlocked read, at the lock of the review  *)
(* row, and before its writes.  Everything else is one transaction that    *)
(* takes its row locks at once.                                            *)
(***************************************************************************)
EXTENDS Integers, Sequences, FiniteSets, SequencesExt

CONSTANTS
    Jobs,            \* completed PoolBrain jobs
    Keys,            \* recipient lock keys: review-customer:, review-email:, review-phone:
    KeysOf,          \* KeysOf[j]: keys of the recipient of job j
    PhoneKeys,       \* the keys that are phones
    KeyRank,         \* position of a key in sorted order
    Slots,           \* advisory locks
    SlotOf,          \* hashtext of a recipient key or of a job's key
    Runs,            \* worker runs that poll completed services
    Reviews,         \* Google reviews
    Score,           \* Score[r][j]: name match of review r and campaign j; "none": not in
                     \* the window of r
    CandidateLimit,  \* LIMIT of the candidate query
    None

ASSUME CampaignConstants ==
    /\ KeysOf \in [Jobs -> SUBSET Keys]
    /\ PhoneKeys \subseteq Keys
    /\ KeyRank \in [Keys -> Nat]
    /\ \A k, l \in Keys : KeyRank[k] = KeyRank[l] => k = l
    /\ SlotOf \in [Keys \cup Jobs -> Slots]
    /\ Score \in [Reviews -> [Jobs -> {"exact", "partial", "other", "none"}]]
    /\ CandidateLimit \in Nat \ {0}
    /\ None \notin Jobs \cup Runs \cup Reviews
    /\ Jobs \cap Runs = {}

VARIABLES
    \* Worker runs and the advisory locks.
    pc, job, need, holder,
    lapsed,          \* campaigns out of the suppression window when the run's transaction began
    \* processed_jobs and review_campaigns.
    processed, status, recent, confirmedAt, repliedAt,
    waiting,         \* some message of the campaign is queued, retry or leased
    tried,           \* a run has taken up a message of the campaign
    createdAt,       \* campaigns and open transactions by the start of their transaction
    \* google_reviews, and the import in progress.
    matchStatus, matched, reading, found,
    locked,          \* the import has locked its review's row
    \* History.
    undone           \* campaigns whose confirmation was undone

lockVars == <<pc, job, need, holder, lapsed>>
campaignVars == <<status, recent, confirmedAt, repliedAt, waiting, tried>>
reviewVars == <<matchStatus, matched>>
importVars == <<reading, found, locked>>
vars == <<lockVars, processed, campaignVars, createdAt, reviewVars, importVars, undone>>

CampaignStatus == {"none", "active", "completed", "confirmed", "cancelled"}

Init ==
    /\ pc = [w \in Runs |-> "idle"]
    /\ job = [w \in Runs |-> None]
    /\ need = [w \in Runs |-> {}]
    /\ holder = [s \in Slots |-> None]
    /\ lapsed = [w \in Runs |-> {}]
    /\ processed = {}
    /\ status = [j \in Jobs |-> "none"]
    /\ recent = [j \in Jobs |-> FALSE]
    /\ confirmedAt = [j \in Jobs |-> FALSE]
    /\ repliedAt = [j \in Jobs |-> FALSE]
    /\ waiting = [j \in Jobs |-> FALSE]
    /\ tried = [j \in Jobs |-> FALSE]
    /\ createdAt = <<>>
    /\ matchStatus = [r \in Reviews |-> "absent"]
    /\ matched = [r \in Reviews |-> None]
    /\ reading = None
    /\ found = {}
    /\ locked = FALSE
    /\ undone = {}

Campaigns == {j \in Jobs : status[j] # "none"}
SharesRecipient(i, j) == KeysOf[i] \cap KeysOf[j] # {}

-------------------------------------------------------------------------------
(* create_completed_service_workflow.                                      *)

Free(w, s) == holder[s] \in {None, w}

\* NOW() is the start of the transaction, whatever it waits for later: it dates the
\* campaign and says which campaigns are out of the window.
BeginWorkflow(w, j) ==
    /\ pc[w] = "idle"
    /\ pc' = [pc EXCEPT ![w] = "begun"]
    /\ job' = [job EXCEPT ![w] = j]
    /\ lapsed' = [lapsed EXCEPT ![w] = {i \in Campaigns : ~recent[i]}]
    /\ createdAt' = Append(createdAt, w)
    /\ UNCHANGED <<need, holder, processed, campaignVars, reviewVars, importVars, undone>>

\* Variant: session locks (pg_advisory_lock), which outlive the transaction.
EndTransactionKeepsLocks(w) ==
    /\ pc' = [pc EXCEPT ![w] = "idle"]
    /\ job' = [job EXCEPT ![w] = None]
    /\ need' = [need EXCEPT ![w] = {}]
    /\ lapsed' = [lapsed EXCEPT ![w] = {}]
    /\ UNCHANGED holder

\* Commit or rollback: the locks go with the transaction.
EndTransaction(w) ==
    /\ pc' = [pc EXCEPT ![w] = "idle"]
    /\ job' = [job EXCEPT ![w] = None]
    /\ need' = [need EXCEPT ![w] = {}]
    /\ lapsed' = [lapsed EXCEPT ![w] = {}]
    /\ holder' = [s \in Slots |-> IF holder[s] = w THEN None ELSE holder[s]]

Forget(w) == \E i \in DOMAIN createdAt : createdAt[i] = w /\ createdAt' = RemoveAt(createdAt, i)

\* Variant: the first key, review-customer, is the only one locked.
LockJobAndCustomer(w) ==
    /\ pc[w] = "begun"
    /\ Free(w, SlotOf[job[w]])
    /\ job[w] \notin processed
    /\ holder' = [holder EXCEPT ![SlotOf[job[w]]] = w]
    /\ pc' = [pc EXCEPT ![w] = "locking"]
    /\ need' = [need EXCEPT ![w] =
                   {k \in KeysOf[job[w]] : \A l \in KeysOf[job[w]] : KeyRank[k] <= KeyRank[l]}]
    /\ UNCHANGED <<job, lapsed, createdAt, processed, campaignVars, reviewVars, importVars, undone>>

\* The lock of the source job, then the insert that finds it processed or not.
LockJob(w) ==
    /\ pc[w] = "begun"
    /\ Free(w, SlotOf[job[w]])
    /\ IF job[w] \in processed
          THEN EndTransaction(w) /\ Forget(w)
          ELSE /\ holder' = [holder EXCEPT ![SlotOf[job[w]]] = w]
               /\ pc' = [pc EXCEPT ![w] = "locking"]
               /\ need' = [need EXCEPT ![w] = KeysOf[job[w]]]
               /\ UNCHANGED <<job, lapsed, createdAt>>
    /\ UNCHANGED <<processed, campaignVars, reviewVars, importVars, undone>>

\* Variant: the keys are taken in the order a set happens to iterate.
NextKeyUnsorted(w, k) == k \in need[w]

NextKey(w, k) == k \in need[w] /\ \A l \in need[w] : KeyRank[k] <= KeyRank[l]

LockRecipient(w) ==
    /\ pc[w] = "locking"
    /\ \E k \in Keys :
          /\ NextKey(w, k)
          /\ Free(w, SlotOf[k])
          /\ holder' = [holder EXCEPT ![SlotOf[k]] = w]
          /\ need' = [need EXCEPT ![w] = @ \ {k}]
    /\ UNCHANGED <<pc, job, lapsed, processed, campaignVars, createdAt, reviewVars, importVars,
                   undone>>

\* As the transaction of w sees campaign i.  A campaign created after its start is in
\* its window.
Suppressing(w, i) ==
    \/ confirmedAt[i]
    \/ status[i] \in {"active", "completed", "confirmed"} /\ i \notin lapsed[w]

\* The query for a campaign of the same recipient.  A suppressed job is still
\* processed: its service message is committed without a campaign.
CheckSuppression(w) ==
    /\ pc[w] = "locking"
    /\ need[w] = {}
    /\ IF \E i \in Campaigns : SharesRecipient(i, job[w]) /\ Suppressing(w, i)
          THEN /\ EndTransaction(w)
               /\ Forget(w)
               /\ processed' = processed \cup {job[w]}
          ELSE /\ pc' = [pc EXCEPT ![w] = "checked"]
               /\ UNCHANGED <<job, need, holder, lapsed, createdAt, processed>>
    /\ UNCHANGED <<campaignVars, reviewVars, importVars, undone>>

InsertCampaign(w) ==
    /\ pc[w] = "checked"
    /\ EndTransaction(w)
    /\ processed' = processed \cup {job[w]}
    /\ status' = [status EXCEPT ![job[w]] = "active"]
    /\ recent' = [recent EXCEPT ![job[w]] = TRUE]
    /\ waiting' = [waiting EXCEPT ![job[w]] = TRUE]
    /\ createdAt' = [i \in DOMAIN createdAt |->
                        IF createdAt[i] = w THEN job[w] ELSE createdAt[i]]
    /\ UNCHANGED <<confirmedAt, repliedAt, tried, reviewVars, importVars, undone>>

\* A statement fails, the process dies, or PostgreSQL breaks a deadlock.
AbortWorkflow(w) ==
    /\ pc[w] # "idle"
    /\ EndTransaction(w)
    /\ Forget(w)
    /\ UNCHANGED <<processed, campaignVars, reviewVars, importVars, undone>>

\* The customer is unknown or has no contact: the job is remembered as done.
SetProcessedJobOutcome(j) ==
    /\ processed' = processed \cup {j}
    /\ UNCHANGED <<lockVars, campaignVars, createdAt, reviewVars, importVars, undone>>

-------------------------------------------------------------------------------
(* What happens to a campaign afterwards.                                  *)

\* A run takes up a message, the last one waiting or not.  The claim looks at the
\* campaign, and what closes a campaign cancels its leased messages.
TakeMessage(j) ==
    /\ status[j] = "active"
    /\ waiting[j]
    /\ tried' = [tried EXCEPT ![j] = TRUE]
    /\ \E more \in BOOLEAN : waiting' = [waiting EXCEPT ![j] = more]
    /\ UNCHANGED <<lockVars, processed, status, recent, confirmedAt, repliedAt, createdAt,
                   reviewVars, importVars, undone>>

\* A message that was taken up comes back: from 'sending' as 'retry', or from 'failed'
\* or 'dead' by an administrator's retry.  Neither looks at the campaign.
RequeueMessage(j) ==
    /\ tried[j]
    /\ waiting' = [waiting EXCEPT ![j] = TRUE]
    /\ UNCHANGED <<lockVars, processed, status, recent, confirmedAt, repliedAt, tried, createdAt,
                   reviewVars, importVars, undone>>

\* The waiting messages are cancelled because their destination is suppressed.
SuppressMessages(j) ==
    /\ waiting[j]
    /\ waiting' = [waiting EXCEPT ![j] = FALSE]
    /\ UNCHANGED <<lockVars, processed, status, recent, confirmedAt, repliedAt, tried, createdAt,
                   reviewVars, importVars, undone>>

\* Days pass, whatever is still waiting: e-mails wait for ever while Outlook is off.
\* Campaigns leave the window in the order of created_at; no transaction is open for as
\* long as a window, a day at least.
WindowPasses(j) ==
    /\ recent[j]
    /\ \A m, n \in DOMAIN createdAt :
          createdAt[n] = j /\ m < n => createdAt[m] \in Jobs /\ ~recent[createdAt[m]]
    /\ recent' = [recent EXCEPT ![j] = FALSE]
    /\ UNCHANGED <<lockVars, processed, status, confirmedAt, repliedAt, waiting, tried, createdAt,
                   reviewVars, importVars, undone>>

\* ORDER BY created_at DESC LIMIT 1.
Newer(i, j) == \E m, n \in DOMAIN createdAt : m > n /\ createdAt[m] = i /\ createdAt[n] = j
ActiveAt(phone) == {j \in Campaigns : phone \in KeysOf[j] /\ status[j] = "active"}

\* Variant: ORDER BY created_at.
RepliesToOldest(phone, j) ==
    j \in ActiveAt(phone) /\ \A i \in ActiveAt(phone) \ {j} : Newer(i, j)

RepliesTo(phone, j) ==
    j \in ActiveAt(phone) /\ \A i \in ActiveAt(phone) \ {j} : Newer(j, i)

\* An incoming SMS ends the newest active campaign of the phone.
Reply(phone) ==
    /\ \E j \in Jobs, new \in {"cancelled", "completed"} :
          /\ RepliesTo(phone, j)
          /\ status' = [status EXCEPT ![j] = new]
          /\ repliedAt' = [repliedAt EXCEPT ![j] = TRUE]
          /\ waiting' = [waiting EXCEPT ![j] = FALSE]
    /\ UNCHANGED <<lockVars, processed, recent, confirmedAt, tried, createdAt, reviewVars,
                   importVars, undone>>

\* Variant: the messages of a confirmed campaign stay in the queue.
ConfirmedStillSending(j) ==
    /\ status' = [status EXCEPT ![j] = "confirmed"]
    /\ confirmedAt' = [confirmedAt EXCEPT ![j] = TRUE]
    /\ UNCHANGED <<recent, repliedAt, waiting, tried>>

Confirmed(j) ==
    /\ status' = [status EXCEPT ![j] = "confirmed"]
    /\ confirmedAt' = [confirmedAt EXCEPT ![j] = TRUE]
    /\ waiting' = [waiting EXCEPT ![j] = FALSE]
    /\ UNCHANGED <<recent, repliedAt, tried>>

\* The import holds the row of its review from the upsert until it commits.
RowFree(r) == ~(locked /\ r = reading)

\* An administrator confirms any campaign, naming a stored review or none.
ConfirmCampaign(j, r) ==
    /\ j \in Campaigns
    /\ Confirmed(j)
    /\ IF r # None /\ matchStatus[r] # "absent"
          THEN /\ RowFree(r)
               /\ matchStatus' = [matchStatus EXCEPT ![r] = "matched"]
               /\ matched' = [matched EXCEPT ![r] = j]
          ELSE UNCHANGED reviewVars
    /\ UNCHANGED <<lockVars, processed, createdAt, importVars, undone>>

\* Variant: the campaign is active again whatever the customer has answered.
RestoredStatusForgetsReply(j) == "active"

RestoredStatus(j) == IF repliedAt[j] THEN "completed" ELSE "active"

\* Variant: the reviews keep their campaign.
UndoKeepsReviews(j) ==
    /\ confirmedAt[j]
    /\ status' = [status EXCEPT ![j] = RestoredStatus(j)]
    /\ confirmedAt' = [confirmedAt EXCEPT ![j] = FALSE]
    /\ undone' = undone \cup {j}
    /\ UNCHANGED <<lockVars, processed, recent, repliedAt, waiting, tried, createdAt, reviewVars,
                   importVars>>

UndoCampaignConfirmation(j) ==
    /\ confirmedAt[j]
    /\ \A r \in Reviews : matched[r] = j => RowFree(r)
    /\ status' = [status EXCEPT ![j] = RestoredStatus(j)]
    /\ confirmedAt' = [confirmedAt EXCEPT ![j] = FALSE]
    /\ matchStatus' = [r \in Reviews |-> IF matched[r] = j THEN "unmatched" ELSE matchStatus[r]]
    /\ matched' = [r \in Reviews |-> IF matched[r] = j THEN None ELSE matched[r]]
    /\ undone' = undone \cup {j}
    /\ UNCHANGED <<lockVars, processed, recent, repliedAt, waiting, tried, createdAt, importVars>>

CancelCampaign(j) ==
    /\ status[j] = "active"
    /\ status' = [status EXCEPT ![j] = "cancelled"]
    /\ waiting' = [waiting EXCEPT ![j] = FALSE]
    /\ UNCHANGED <<lockVars, processed, recent, confirmedAt, repliedAt, tried, createdAt, reviewVars,
                   importVars, undone>>

-------------------------------------------------------------------------------
(* import_google_review, one review at a time.                             *)

\* Campaigns the review may belong to: those of its window, whatever their names.
Eligible(r) ==
    {j \in Jobs : status[j] \in {"active", "completed"} /\ Score[r][j] # "none"}

\* ORDER BY created_at DESC LIMIT 100.
Newest(group) ==
    {j \in group : Cardinality({i \in group \ {j} : Newer(i, j)}) < CandidateLimit}

Exact(r, group) == {j \in group : Score[r][j] = "exact"}

\* The first statement, which locks nothing.  A review it finds matched is refreshed and
\* left; of any other the import goes on, even if it is matched meanwhile.
ReadReview(r) ==
    /\ reading = None
    /\ matchStatus[r] # "matched"
    /\ reading' = r
    /\ UNCHANGED <<lockVars, processed, campaignVars, createdAt, reviewVars, found, locked, undone>>

\* The upsert locks the row (of a new review, too); then the candidates are read.
LockReview ==
    /\ reading # None
    /\ ~locked
    /\ locked' = TRUE
    /\ found' = Newest(Eligible(reading))
    /\ UNCHANGED <<lockVars, processed, campaignVars, createdAt, reviewVars, reading, undone>>

EndImport ==
    /\ reading' = None
    /\ found' = {}
    /\ locked' = FALSE

AutoConfirms(j) == Exact(reading, found) = {j}

\* Candidates with half of the name or more; the best of them is the newest with the
\* whole name, or one of the others (which of two partial names is closer is left out).
Similar == {j \in found : Score[reading][j] \in {"exact", "partial"}}
Best ==
    LET exact == Exact(reading, found)
    IN  IF exact = {} THEN Similar
        ELSE {j \in exact : \A i \in exact \ {j} : Newer(j, i)}

WriteMatch ==
    /\ locked
    /\ \E j \in Jobs :
          /\ AutoConfirms(j)
          /\ Confirmed(j)
          /\ matchStatus' = [matchStatus EXCEPT ![reading] = "matched"]
          /\ matched' = [matched EXCEPT ![reading] = j]
    /\ EndImport
    /\ UNCHANGED <<lockVars, processed, createdAt, undone>>

WriteCandidate ==
    /\ locked
    /\ ~\E j \in Jobs : AutoConfirms(j)
    /\ IF Similar = {}
          THEN /\ matchStatus' = [matchStatus EXCEPT
                                    ![reading] = IF @ = "absent" THEN "unmatched" ELSE @]
               /\ UNCHANGED matched
          ELSE /\ matchStatus' = [matchStatus EXCEPT ![reading] = "candidate"]
               /\ \E j \in Best : matched' = [matched EXCEPT ![reading] = j]
    /\ EndImport
    /\ UNCHANGED <<lockVars, processed, campaignVars, createdAt, undone>>

AbortImport ==
    /\ reading # None
    /\ EndImport
    /\ UNCHANGED <<lockVars, processed, campaignVars, createdAt, reviewVars, undone>>

-------------------------------------------------------------------------------

WorkflowStep(w) ==
    \/ \E j \in Jobs : BeginWorkflow(w, j)
    \/ LockJob(w) \/ LockRecipient(w) \/ CheckSuppression(w) \/ InsertCampaign(w)
    \/ AbortWorkflow(w)

CampaignStep(j) ==
    \/ SetProcessedJobOutcome(j) \/ WindowPasses(j)
    \/ TakeMessage(j) \/ RequeueMessage(j) \/ SuppressMessages(j)
    \/ UndoCampaignConfirmation(j) \/ CancelCampaign(j)
    \/ \E r \in Reviews \cup {None} : ConfirmCampaign(j, r)

ImportStep ==
    \/ \E r \in Reviews : ReadReview(r)
    \/ LockReview \/ WriteMatch \/ WriteCandidate \/ AbortImport

Next ==
    \/ \E w \in Runs : WorkflowStep(w)
    \/ \E j \in Jobs : CampaignStep(j)
    \/ \E phone \in PhoneKeys : Reply(phone)
    \/ ImportStep

Spec == Init /\ [][Next]_vars

-------------------------------------------------------------------------------
(* Properties.                                                             *)

\* Locks, campaigns and reviews have the values the code gives them, and a run
\* holds locks only inside its transaction.
TypeOK ==
    /\ pc \in [Runs -> {"idle", "begun", "locking", "checked"}]
    /\ job \in [Runs -> Jobs \cup {None}]
    /\ need \in [Runs -> SUBSET Keys]
    /\ holder \in [Slots -> Runs \cup {None}]
    /\ lapsed \in [Runs -> SUBSET Jobs]
    /\ processed \subseteq Jobs
    /\ status \in [Jobs -> CampaignStatus]
    /\ recent \in [Jobs -> BOOLEAN]
    /\ confirmedAt \in [Jobs -> BOOLEAN]
    /\ repliedAt \in [Jobs -> BOOLEAN]
    /\ waiting \in [Jobs -> BOOLEAN]
    /\ tried \in [Jobs -> BOOLEAN]
    /\ createdAt \in Seq(Jobs \cup Runs)
    /\ matchStatus \in [Reviews -> {"absent", "unmatched", "candidate", "matched"}]
    /\ matched \in [Reviews -> Jobs \cup {None}]
    /\ reading \in Reviews \cup {None}
    /\ found \subseteq Jobs
    /\ undone \subseteq Jobs
    /\ locked \in BOOLEAN
    /\ \A s \in Slots : holder[s] # None => pc[holder[s]] # "idle"

WaitsFor(w) ==
    {holder[s] : s \in {t \in Slots :
        \/ pc[w] = "begun" /\ t = SlotOf[job[w]]
        \/ pc[w] = "locking" /\ \E k \in Keys : NextKey(w, k) /\ t = SlotOf[k]}} \ {None, w}

\* Transactions that create campaigns never wait for each other in a circle,
\* whatever recipients they share (campaigns.py:69-70 says why they cannot).
NoLockCycle ==
    \A W \in (SUBSET Runs) \ {{}} : \E w \in W : WaitsFor(w) \cap W = {}

\* One recipient has one live campaign in the suppression window, however many jobs
\* are completed at once and whether it is known by customer, phone or email; only an
\* administrator who undoes a confirmation can bring an older one back beside it.
OneLiveCampaign ==
    \A i, j \in Campaigns \ undone :
        SharesRecipient(i, j) /\ i # j =>
            \E c \in {i, j} : ~recent[c] \/ status[c] \notin {"active", "completed"}

\* docs/DEPLOYMENT.md:85: "undo restores review eligibility without resending old
\* cancelled jobs".  The messages a closure cancelled stay cancelled, also in a campaign
\* reopened since: what waits outside an active campaign, or in a reopened one, is there
\* because a run had taken up a message before.
OnlyTriedMessagesReturn ==
    \A j \in Jobs : waiting[j] /\ ~tried[j] => status[j] = "active" /\ j \notin undone

\* A campaign the customer has answered is never active again, whatever is confirmed,
\* matched and undone afterwards: a message that comes back to it is not sent.
RepliedStaysClosed == \A j \in Jobs : repliedAt[j] => status[j] # "active"

\* A matched review's campaign is confirmed, so that it suppresses later ones: not
\* undone, reopened or rematched behind the review's back.
MatchedIsConfirmed ==
    \A r \in Reviews : matchStatus[r] = "matched" => matched[r] # None /\ confirmedAt[matched[r]]

\* README.md:21: "Any customer SMS reply completes the campaign and cancels pending
\* reminders".  After a reply no campaign of that phone is active in its window, although
\* the reply ends only one, that with the latest created_at, and transactions commit in
\* another order; except where an administrator has undone a confirmation.
ReplyStopsTheLiveCampaign ==
    [][\A phone \in PhoneKeys : Reply(phone) =>
          \A j \in Jobs : phone \in KeysOf[j] /\ status'[j] = "active" /\ recent'[j] =>
              \E i \in undone : phone \in KeysOf[i]]_vars
================================================================================
