CONSTANTS
    d1 = d1
    d2 = d2
    r1 = r1
    r2 = r2
    r3 = r3
    s1 = s1
    s2 = s2
    s3 = s3
    s4 = s4
    s5 = s5
    None = None
    Days = {d1, d2}
    Requests = {r1, r2}
    Saves = {s1, s3, s4, s5}
    Form <- MCForm
    MaxHours = 2
SPECIFICATION Spec
SYMMETRY Symmetry
INVARIANTS
    DayIsOneSave
PROPERTY
    ApprovedIsFinal
