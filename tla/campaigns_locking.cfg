\* Two jobs of one household, two overlapping runs.
CONSTANTS
    job1 = job1
    job2 = job2
    cust1 = cust1
    cust2 = cust2
    mail = mail
    phone = phone
    run1 = run1
    run2 = run2
    rev1 = rev1
    None = None
    Jobs = {job1, job2}
    Keys = {cust1, cust2, mail, phone}
    KeysOf <- Recipient
    PhoneKeys = {phone}
    KeyRank <- Rank
    Slots <- OwnSlots
    SlotOf <- OwnSlot
    Runs = {run1, run2}
    Reviews = {}
    Score <- Names
    CandidateLimit = 2
SPECIFICATION Spec
INVARIANTS TypeOK NoLockCycle OneLiveCampaign
PROPERTY ReplyStopsTheLiveCampaign
