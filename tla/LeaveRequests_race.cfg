CONSTANTS
    p1 = p1
    p2 = p2
    p3 = p3
    l1 = l1
    l2 = l2
    r1 = r1
    r2 = r2
    None = None
    Rule <- MCRule
    Leaves = {l1, l2}
    Ops <- AllOps
    Requests = {r1, r2}
    Policies = {p1, p2, p3}
    Spans <- RaceSpans
    Weekend = {2}
    Holidays = {4}
SPECIFICATION Spec
SYMMETRY Symmetry
CHECK_DEADLOCK FALSE
INVARIANTS
    BalancesMatchLeaves
    NoOverdraft
    BookedOnce
    ChargedForSessionsTaken
