\* A campaign e-mail and an administrator e-mail to one mailbox; batches hold both.
CONSTANTS
    reminder = reminder
    notice = notice
    mail = mail
    mailNotice = mailNotice
    run1 = run1
    run2 = run2
    phone = phone
    mailbox = mailbox
    campaign = campaign
    None = None
    Jobs = {mail, mailNotice}
    Runs = {run1, run2}
    Destinations = {mailbox}
    Campaigns = {campaign}
    Destination <- DestinationOf
    Campaign <- CampaignOf
    Email = {mail, mailNotice}
    Admin = {mailNotice}
    MaxAttempts = 1
    AttemptCap = 2
    MaxRetries = 1
SPECIFICATION Spec
SYMMETRY RunSymmetry
INVARIANTS ResendInv
PROPERTIES SubmissionHonoursStop ImplementsAuthorisedDelivery
