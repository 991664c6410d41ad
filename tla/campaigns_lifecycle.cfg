\* Two jobs of one household, one review with the names of both, one run at a time.
CONSTANTS
    job1 = job1
    job2 = job2
    cust1 = cust1
    cust2 = cust2
    mail = mail
    phone = phone
    run1 = run1
    run2 = run2
    rev1 = rev1
    None = None
    Jobs = {job1, job2}
    Keys = {cust1, cust2, mail, phone}
    KeysOf <- Recipient
    PhoneKeys = {phone}
    KeyRank <- Rank
    Slots <- OwnSlots
    SlotOf <- OwnSlot
    Runs = {run1}
    Reviews = {rev1}
    Score <- Names
    CandidateLimit = 2
SPECIFICATION Spec
INVARIANTS OnlyTriedMessagesReturn RepliedStaysClosed MatchedIsConfirmed
