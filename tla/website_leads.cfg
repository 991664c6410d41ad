\* One lead, three runs of which any two may overlap, three attempts.
CONSTANTS
    lead1 = lead1
    lead2 = lead2
    run1 = run1
    run2 = run2
    run3 = run3
    None = None
    Events = {lead1}
    Runs = {run1, run2, run3}
    MaxAttempts = 3
    MaxPurges = 1
SPECIFICATION Spec
SYMMETRY Symmetry
INVARIANTS TypeOK CompletedLeadIsRecorded DuplicatesNeedALostOutcome
PROPERTIES AttemptIsRemembered
