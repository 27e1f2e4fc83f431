CONSTANTS
    c1 = c1
    c2 = c2
    r1 = r1
    r2 = r2
    i1 = i1
    i2 = i2
    None = None
    Claims = {c1, c2}
    Requests = {r1, r2}
    Items = {i1, i2}
    AmountOf <- MCAmountOf
    MaxRows = 2
    MaxLines = 2
    MaxClaimAmount = 2
    MaxSubmits = 1
    Ops <- ClaimRun
SPECIFICATION Spec
SYMMETRY Symmetry
CHECK_DEADLOCK FALSE
INVARIANTS
    TotalsMatchLines
    ReviewedClaimsAreValid
    NoDuplicateUnderReview
