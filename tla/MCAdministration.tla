--------------------------- MODULE MCAdministration ---------------------------
(* Small instances of Administration.                                      *)
EXTENDS Administration, TLC

CONSTANTS e1, e2, r1, r2, l1, l2, d1, m1, m2, n1, n2, h1, h2, b1, director

Alike == Permutations(Employees) \cup Permutations(Requests) \cup Permutations(HolidayNames)

MCOldShifts == {[shape |-> "day", location |-> b1], [shape |-> "day", location |-> None]}

MCRoleChoices == {{"EMPLOYEE"}, {"MANAGER"}, {"HR_ADMIN"}, {"TEAM_LEAD", "REVIEWER"},
                  {"MANAGER", "PAYROLL_ADMIN"}}

Granting(kind, role, read, act) ==
    [kind |-> kind, role |-> role, scopes |-> [p \in Permissions |-> IF p = "read" THEN read ELSE act]]
(* Decide without reading, read the department and decide for the team,    *)
(* nothing left to administrators.                                         *)
MCGrantChoices ==
    {Granting("leave", "REVIEWER", 0, 3), Granting("expense", "REVIEWER", 0, 4),
     Granting("regularization", "MANAGER", 3, 2), Granting("timesheet", "HR_ADMIN", 1, 0),
     Granting("expense", "HR_ADMIN", 4, 1), Granting("expense", "ORG_ADMIN", 0, 0)}

MCScenarios ==
    {{"upload", "receipts"},
     {"upload", "documents"},
     {"upload", "logo"},
     {"upload", "photo"},
     {"upload", "attachments", "purge"},
     {"policies", "purge", "softDelete"},
     {"zip"},
     {"form16", "softDelete", "updateDocument"},
     {"one employee", "hire", "transfer", "onboard", "structure"},
     {"hire", "rename"},
     {"hire", "hyphen"},
     {"shifts", "branches"},
     {"leave types", "branches"},
     {"calendar", "publish"},
     {"calendar", "changes"},
     {"tree", "catalogue", "delete"},
     {"tree", "move", "delete"},
     {"tree", "activate"},
     {"tree", "rename", "move"},
     {"defaults", "delete"},
     {"approvals"},
     {"approvals", "legacy scopes"}}
===============================================================================
