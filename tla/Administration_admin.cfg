SPECIFICATION Spec
CONSTANTS
    e1 = e1
    e2 = e2
    r1 = r1
    r2 = r2
    l1 = l1
    l2 = l2
    d1 = d1
    m1 = m1
    m2 = m2
    n1 = n1
    n2 = n2
    h1 = h1
    h2 = h2
    b1 = b1
    None = None
    Employees = {e1, e2}
    Requests = {r1, r2}
    LastDay = 0
    Lines = {l1, l2}
    MaxKeys = 3
    Departments = {d1}
    Designations = {"engineer"}
    Emails = {m1, m2}
    FirstCode = 9998
    Padding = 10000
    Locations = {b1}
    LeaveTypes = {"sick"}
    Shapes = {"day"}
    OldShifts <- MCOldShifts
    MaxShifts = 2
    Dates = {"newyear"}
    HolidayNames = {h1, h2}
    MaxHolidays = 2
    Names = {n1, n2}
    DefaultName = n1
    OtherName = n2
    MaxRows = 5
    director = director
    Director = director
    RoleChoices <- MCRoleChoices
    GrantChoices <- MCGrantChoices
    MaxChanges = 3
    Scenarios <- MCScenarios
SYMMETRY Alike
INVARIANTS
    FilesAreThere
    OneForm16
    EmployeesPlaced
    EmployeesDiffer
    OldShiftsMoveOnce
    BranchesExist
    ImportsHold
    SkillTree
    PendingIsReachable
CHECK_DEADLOCK FALSE
