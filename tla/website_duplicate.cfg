\* The same lead; the error of the second search is enough.
CONSTANTS
    lead1 = lead1
    lead2 = lead2
    run1 = run1
    run2 = run2
    run3 = run3
    None = None
    Events = {lead1}
    Runs = {run1, run2}
    MaxAttempts = 2
    MaxPurges = 0
SPECIFICATION Spec
SYMMETRY Symmetry
INVARIANTS CreateIsNotRepeated
