\* One campaign SMS, two overlapping runs, up to two manual retries, under cron and timeouts.
CONSTANTS
    reminder = reminder
    notice = notice
    mail = mail
    mailNotice = mailNotice
    run1 = run1
    run2 = run2
    phone = phone
    mailbox = mailbox
    campaign = campaign
    None = None
    Jobs = {reminder}
    Runs = {run1, run2}
    Destinations = {phone}
    Campaigns = {campaign}
    Destination <- DestinationOf
    Campaign <- CampaignOf
    Email = {}
    Admin = {}
    MaxAttempts = 2
    AttemptCap = 4
    MaxRetries = 2
SPECIFICATION FairSpec
INVARIANTS NoBlindResend AcceptedIsNotRequeued SettledStatusIsTrue ExtraAttemptsAreAuthorised
PROPERTIES DeliveredIsFinal ClaimsAreReleased
