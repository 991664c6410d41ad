\* One SMS whose callback overtakes the send response.
CONSTANTS
    reminder = reminder
    notice = notice
    mail = mail
    mailNotice = mailNotice
    run1 = run1
    run2 = run2
    phone = phone
    mailbox = mailbox
    campaign = campaign
    None = None
    Jobs = {notice}
    Runs = {run1}
    Destinations = {phone}
    Campaigns = {campaign}
    Destination <- DestinationOf
    Campaign <- CampaignOf
    Email = {}
    Admin = {notice}
    MaxAttempts = 1
    AttemptCap = 1
    MaxRetries = 0
SPECIFICATION FairSpec
PROPERTIES SendingIsReconciled
