\* One notice to one customer, overlapping worker runs.
CONSTANTS
    storm = storm
    toFirst = toFirst
    toSecond = toSecond
    phone1 = phone1
    phone2 = phone2
    alice = alice
    run1 = run1
    run2 = run2
    None = None
    Jobs = {toFirst}
    Runs = {run1, run2}
    Destinations = {phone1}
    Campaigns = {}
    Destination <- DestinationOf
    Campaign <- NoCampaign
    Email = {}
    Admin = {}
    MaxAttempts = 2
    AttemptCap = 2
    MaxRetries = 2
    Notices = {storm}
    Customers = {alice}
    Notice <- NoticeOf
    MaxRecipients = 1
SPECIFICATION NoticeSpec
INVARIANTS LeftoversWereClaimed
PROPERTIES RecalledIsSilent CompletedNoticeIsOver StoppedNoticeIsCancelled
