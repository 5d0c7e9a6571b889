SPECIFICATION Spec
CONSTANTS
    Query = {q1, q2, q3}
    Size = {0, 2, 3, 5, 6}
    CapBytes = 5
    Ttl = 2
    Finders = {f1, f2}
    MaxTime = 3
    None = None
INVARIANTS TypeOK Budget NeverOutlives
PROPERTIES EvictsForRoom ExpiredEntriesGo
