------------------------------- MODULE MCPeople -------------------------------
(* Small instances of PeopleSystem: three employees, and eight ways of      *)
(* using it.                                                               *)
EXTENDS PeopleSystem, TLC

CONSTANTS e1, e2, e3, q1, q2, qm, r1, r2

Alike == Permutations(Employees) \cup Permutations(Requests)

MCRatings == (q1 :> {2}) @@ (q2 :> {1}) @@ (qm :> {0})

MCRoleSets == {[items |-> {"MANAGER", "EMPLOYEE"}, primary |-> "MANAGER"],
              [items |-> {"EMPLOYEE"}, primary |-> "EMPLOYEE"],
              [items |-> {"MANAGER", "EMPLOYEE"}, primary |-> "HR_ADMIN"],
              [items |-> {"HR_ADMIN"}, primary |-> "HR_ADMIN"]}

MCScenarios ==
    {{"assign", "remove"},
     {"create", "saveDraft", "submit", "managerDraft"},
     {"create", "submit", "managerReview", "hrReview"},
     {"create", "submit", "managerReview", "hrDraft"},
     {"create", "submit", "managerReview", "roleReview"},
     {"assignRoles"},
     {"updatePermissions"},
     {"subscribe", "renew", "expire", "midnight"}}

=============================================================================
