\* Two events that share an alert, two overlapping runs, each event delivered again once.
CONSTANTS
    both = both
    again = again
    created = created
    low1 = low1
    low2 = low2
    broken = broken
    run1 = run1
    run2 = run2
    run3 = run3
    run4 = run4
    phone = phone
    None = None
    Events = {both, again}
    Runs = {run1, run2}
    MaxAttempts = 2
    MaxPurges = 1
    Alerts = {low1, low2, broken}
    AlertsOf <- Payload
    Malformed = {broken}
    Relayed = {}
    Phones = {phone}
    PhoneOf <- OnePhone
SPECIFICATION Spec
SYMMETRY RunSymmetry
INVARIANTS TypeOK CompletedIsHandled NotifiedOnce RetryBudget
PROPERTIES OnlyTheHolderSettles
