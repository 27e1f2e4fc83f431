SPECIFICATION Spec
CONSTANTS
    e1 = e1
    e2 = e2
    e3 = e3
    q1 = q1
    q2 = q2
    qm = qm
    r1 = r1
    r2 = r2
    None = None
    Employees = {e1, e2, e3}
    Managers = {e1, e2, e3}
    Requests = {r1, r2}
    LastDay = 2
    MaxRows = 3
    Questions = {q1, q2, qm}
    Scored = {q1, q2}
    Ratings <- MCRatings
    RoleHolders = {"person"}
    RoleSets <- MCRoleSets
    EditedRoles = {"AUDITOR"}
    Grants = {"p1", "p2"}
    Plans = {1, 2, 3}
    Periods = {1, 2}
    Scenarios <- MCScenarios
SYMMETRY Alike
INVARIANTS
    NoCircularChain
    StagesSigned
    ScoreMatchesAnswers
    LinksAsAssigned
    PlanKept
PROPERTIES
    NothingUndone
CHECK_DEADLOCK FALSE
