\* One event, four runs, under cron: of two alerts, or a customer.created event that is
\* delivered again after its deletion.
CONSTANTS
    both = both
    again = again
    created = created
    low1 = low1
    low2 = low2
    broken = broken
    run1 = run1
    run2 = run2
    run3 = run3
    run4 = run4
    phone = phone
    None = None
    Events = {created, both}
    Runs = {run1, run2, run3, run4}
    MaxAttempts = 2
    MaxPurges = 1
    Alerts = {low1, low2, broken}
    AlertsOf <- Payload
    Malformed = {broken}
    Relayed = {created}
    Phones = {phone}
    PhoneOf <- OnePhone
SPECIFICATION FairSpec
CONSTRAINT OneEvent
INVARIANTS CompletedIsHandled
PROPERTIES EventsSettle
