--------------------------- MODULE ApprovalRouting ---------------------------
(***************************************************************************)
(* To whom a request for approval goes, who finds it among those that wait *)
(* for him, and who may decide it, while people come and go, change their  *)
(* managers, their departments and their roles, and administrators change  *)
(* what a role may do.  One request at a time.                             *)
(***************************************************************************)
EXTENDS PortalHandlers

CONSTANTS
    Director,       \* the administrator who is there from the start
    RoleChoices,    \* the sets of roles that employees are given
    GrantChoices,   \* the permissions that roles are given
    MaxChanges      \* bound: changes of the staff and its roles in one history

Kinds == {"leave", "regularization", "expense", "timesheet"}
(* REVIEWER is a role of the organization's own making.                    *)
Roles == {"ORG_ADMIN", "HR_ADMIN", "PAYROLL_ADMIN", "MANAGER", "TEAM_LEAD", "EMPLOYEE", "REVIEWER"}
(* SELF, TEAM, DEPARTMENT, ORGANIZATION; 0 is no permission at all.        *)
Scopes == 0 .. 4
(* approvals.<kind>:read, and approvals.<kind>:act                         *)
Permissions == {"read", "act"}

Staff == Employees \cup {Director}

ASSUME RoutingAssumption ==
    /\ MaxChanges \in Nat
    /\ Director \notin Employees \cup {None} /\ \A S \in SUBSET Staff : S # None
    /\ RoleChoices \subseteq SUBSET Roles
    /\ GrantChoices \subseteq [kind : Kinds, role : Roles, scopes : [Permissions -> Scopes]]

VARIABLES
    account,        \* employees.status: those of active employees may be used
    legacyRole,     \* employees.role
    rolesOf,        \* rbac_employee_role_assignments: those in effect
    grants,         \* rbac_role_permissions: the scope of each permission of a role
    deptOf,         \* employees.departmentId
    boss,           \* employee_reporting_managers: the active primary one
    bossToday,      \* the rows that ended today, as pairs: employee and manager
    request,        \* the request that is pending, if any
    changes

staffVars == <<account, legacyRole, rolesOf, grants, deptOf, boss, bossToday, changes>>
routingVars == <<staffVars, request>>

NoRequest == [kind |-> "none", of |-> None, to |-> None]
ScopeV2 == ~Asked("legacy scopes")

-----------------------------------------------------------------------------
(* What the roles allow at first: getDefaultAccessScope for those that     *)
(* SYSTEM_ROLES gives the two permissions of a kind.                       *)
DefaultScope(kind, role) ==
    CASE role \in {"ORG_ADMIN", "HR_ADMIN"} -> 4
      [] role = "REVIEWER" -> 3
      [] role = "MANAGER" \/ (role = "TEAM_LEAD" /\ kind # "timesheet") -> 2
      [] OTHER -> 0

Permitted(a, kind, p) == \E role \in rolesOf[a] : grants[kind][role][p] > 0
accessScope(a, kind, p) == Max({1} \cup {grants[kind][role][p] : role \in rolesOf[a]})
PermissionsGuard(a, kind, p) == account[a] = "ACTIVE" /\ Permitted(a, kind, p)

FullRoster(a) == rolesOf[a] \cap {"ORG_ADMIN", "HR_ADMIN", "PAYROLL_ADMIN"} # {}
resolveTeamScope(a) == {a} \cup {e \in Staff : boss[e] = a \/ <<e, a>> \in bossToday}
resolveDepartmentScope(a) == IF deptOf[a] = None THEN {a} ELSE {e \in Staff : deptOf[e] = deptOf[a]}

resolveVisibleEmployeeIds(a, scope) ==
    CASE scope = 4 -> None
      [] scope = 3 -> resolveDepartmentScope(a)
      [] scope = 2 -> resolveTeamScope(a)
      [] OTHER -> {a}
getVisibleEmployeeIdsLegacy(a) ==
    IF rolesOf[a] \cap {"MANAGER", "TEAM_LEAD"} = {} THEN {a} ELSE resolveTeamScope(a)

(* None for everybody; and a list that is None never includes anyone.      *)
getVisibleEmployeeIds(a, kind, p) ==
    IF FullRoster(a) THEN None
    ELSE IF ScopeV2 THEN resolveVisibleEmployeeIds(a, accessScope(a, kind, p))
    ELSE getVisibleEmployeeIdsLegacy(a)
Includes(ids, e) == ids # None /\ e \in ids
Sees(a, q, p) == LET ids == getVisibleEmployeeIds(a, q.kind, p) IN ids = None \/ Includes(ids, q.of)
SeesByName(a, q, p) == Includes(getVisibleEmployeeIds(a, q.kind, p), q.of)
WholeOrganization(a, q, p) == accessScope(a, q.kind, p) = 4

-----------------------------------------------------------------------------
(* Who finds the request among those that wait.                            *)
findPendingApprovalRows(a, q) ==
    \/ q.to = a
    \/ ScopeV2 /\ (WholeOrganization(a, q, "read") \/ SeesByName(a, q, "read"))
findPendingManagerRows(a, q) ==
    \/ q.to = a
    \/ ScopeV2 /\ (WholeOrganization(a, q, "read") \/ Sees(a, q, "read"))
listPendingApprovals(a, q) == Sees(a, q, "read")

Finds(a, q) ==
    /\ PermissionsGuard(a, q.kind, "read")
    /\ CASE q.kind \in {"leave", "regularization"} -> findPendingApprovalRows(a, q)
         [] q.kind = "expense" -> findPendingManagerRows(a, q)
         [] q.kind = "timesheet" -> listPendingApprovals(a, q)

(* Who may open it.                                                        *)
findLeaveRequestForApproverRead(a, q) == q.to = a \/ (ScopeV2 /\ SeesByName(a, q, "read"))
findRequestForApproverRead(a, q) == q.to = a \/ (ScopeV2 /\ SeesByName(a, q, "read"))
assertCanViewAsManager(a, q) ==
    \/ q.to = a
    \/ ScopeV2 /\ (WholeOrganization(a, q, "read") \/ Sees(a, q, "read"))
getTimesheetDayForApproverRead(a, q) == Sees(a, q, "read")

Views(a, q) ==
    /\ PermissionsGuard(a, q.kind, "read")
    /\ CASE q.kind = "leave" -> findLeaveRequestForApproverRead(a, q)
         [] q.kind = "regularization" -> findRequestForApproverRead(a, q)
         [] q.kind = "expense" -> assertCanViewAsManager(a, q)
         [] q.kind = "timesheet" -> getTimesheetDayForApproverRead(a, q)

(* Who may decide it.                                                      *)
findPendingLeaveForApprover(a, q) == q.to = a \/ (ScopeV2 /\ SeesByName(a, q, "act"))
findPendingForApproverAct(a, q) == q.to = a \/ (ScopeV2 /\ SeesByName(a, q, "act"))
ListedOnly(a, q) ==         \* mutant: whoever has no list of employees has nobody
    q.to = a \/ (ScopeV2 /\ SeesByName(a, q, "act"))
assertCanActAsManager(a, q) ==
    \/ q.to = a
    \/ ScopeV2 /\ (WholeOrganization(a, q, "act") \/ Sees(a, q, "act"))
getApprovableDay(a, q) == Sees(a, q, "act")

CanDecide(a, q) ==
    /\ PermissionsGuard(a, q.kind, "act")
    /\ CASE q.kind = "leave" -> findPendingLeaveForApprover(a, q)
         [] q.kind = "regularization" -> findPendingForApproverAct(a, q)
         [] q.kind = "expense" -> assertCanActAsManager(a, q)
         [] q.kind = "timesheet" -> getApprovableDay(a, q)

-----------------------------------------------------------------------------
(* The addressee.  Of several administrators it is the first by name.      *)
Employable == {"ACTIVE", "PENDING_ACTIVATION"}
Admins == {a \in Staff : legacyRole[a] = "ORG_ADMIN" /\ account[a] \in Employable}

resolveApprovers(e) == IF boss[e] # None THEN {boss[e]} ELSE Admins
resolveAssignedManager(e) == {boss[e]} \ {None}
resolveManagerForSubmit(e) ==
    IF boss[e] \notin {None, e} /\ account[boss[e]] \in Employable THEN {boss[e]}
    ELSE Admins \ {e}
Addressees(kind, e) ==
    CASE kind = "leave" -> resolveApprovers(e)
      [] kind = "regularization" -> resolveAssignedManager(e)
      [] kind = "expense" -> resolveManagerForSubmit(e)
      [] kind = "timesheet" -> {None}

submitForApproval(r, e, kind) ==
    /\ Asked("approvals") /\ account[e] = "ACTIVE"
    /\ request = NoRequest /\ \A q \in Requests : tx[q] = Idle
    /\ \E to \in Addressees(kind, e) :
        Begin(r, [op |-> "ask", pc |-> "save", q |-> [kind |-> kind, of |-> e, to |-> to]])
    /\ UNCHANGED routingVars

SaveRequest(r) ==
    /\ At(r, "ask", "save") /\ request = NoRequest
    /\ request' = tx[r].q
    /\ Ends(r)
    /\ UNCHANGED staffVars

decide(a) ==
    /\ request # NoRequest /\ CanDecide(a, request)
    /\ request' = NoRequest
    /\ UNCHANGED <<portalVars, staffVars>>

-----------------------------------------------------------------------------
(* Changes of the staff.                                                   *)
Change ==
    /\ Asked("approvals") /\ changes < MaxChanges
    /\ changes' = changes + 1
    /\ UNCHANGED <<portalVars, request>>

becomes(e, s) ==
    /\ Change /\ s # account[e]
    /\ account' = [account EXCEPT ![e] = s]
    /\ UNCHANGED <<legacyRole, rolesOf, grants, deptOf, boss, bossToday>>

movesTo(e, d) ==
    /\ Change /\ d # deptOf[e]
    /\ deptOf' = [deptOf EXCEPT ![e] = d]
    /\ UNCHANGED <<account, legacyRole, rolesOf, grants, boss, bossToday>>

assignRoles(e, roles) ==
    /\ Change /\ roles # rolesOf[e]
    /\ rolesOf' = [rolesOf EXCEPT ![e] = roles]
    /\ \E primary \in roles :
        legacyRole' = [legacyRole EXCEPT ![e] =
                         IF primary \in {"ORG_ADMIN", "MANAGER", "EMPLOYEE"} THEN primary ELSE @]
    /\ UNCHANGED <<account, grants, deptOf, boss, bossToday>>

(* What ORG_ADMIN may do is never changed.  (That the permissions of a     *)
(* role are deleted and inserted one by one is in EmployeeRoles.)          *)
AnyRole(role) == TRUE                               \* mutant: ORG_ADMIN is a role like any
Customizable(role) == role # "ORG_ADMIN"
updateRolePermissions(c) ==
    /\ Change /\ Customizable(c.role)
    /\ grants' = [grants EXCEPT ![c.kind] = [@ EXCEPT ![c.role] = c.scopes]]
    /\ UNCHANGED <<account, legacyRole, rolesOf, deptOf, boss, bossToday>>

Circle(e, m) ==
    \E S \in SUBSET Staff : {e, m} \subseteq S /\ \A x \in S \ {e} : boss[x] \in S

(* It takes effect on the day it is made.                                  *)
reportTo(e, m) ==
    /\ Change
    /\ m \notin {e, boss[e]} /\ "MANAGER" \in rolesOf[m] /\ ~Circle(e, m)
    /\ boss' = [boss EXCEPT ![e] = m]
    /\ bossToday' = bossToday \cup {<<e, x>> : x \in {boss[e]} \ {None}}
    /\ UNCHANGED <<account, legacyRole, rolesOf, grants, deptOf>>

reportToNobody(e) ==
    /\ Change /\ boss[e] # None
    /\ boss' = [boss EXCEPT ![e] = None]
    /\ bossToday' = bossToday \cup {<<e, boss[e]>>}
    /\ UNCHANGED <<account, legacyRole, rolesOf, grants, deptOf>>

tomorrow ==
    /\ Change /\ bossToday # {}
    /\ bossToday' = {}
    /\ UNCHANGED <<account, legacyRole, rolesOf, grants, deptOf, boss>>

-----------------------------------------------------------------------------
RoutingInit ==
    /\ account = [e \in Staff |-> "ACTIVE"]
    /\ legacyRole = [e \in Staff |-> IF e = Director THEN "ORG_ADMIN" ELSE "EMPLOYEE"]
    /\ rolesOf = [e \in Staff |-> {legacyRole[e]}]
    /\ grants = [kind \in Kinds |-> [role \in Roles |-> [p \in Permissions |-> DefaultScope(kind, role)]]]
    /\ deptOf = [e \in Staff |-> IF e = Director THEN None ELSE "first"]
    /\ boss = [e \in Staff |-> None] /\ bossToday = {}
    /\ request = NoRequest /\ changes = 0

RoutingStep(r) ==
    \/ \E e \in Staff, kind \in Kinds : submitForApproval(r, e, kind)
    \/ SaveRequest(r)

StaffStep ==
    \/ \E e \in Staff :
        \/ decide(e) \/ reportToNobody(e)
        \/ \E s \in {"ACTIVE", "INACTIVE"} : becomes(e, s)
        \/ \E d \in {"first", "second"} : movesTo(e, d)
        \/ \E roles \in RoleChoices : assignRoles(e, roles)
        \/ \E m \in Staff : reportTo(e, m)
    \/ \E c \in GrantChoices : updateRolePermissions(c)
    \/ tomorrow

-----------------------------------------------------------------------------
(* Reading and deciding are permissions of their own, each with its scope. *)
ReadsWhatHeActsOn(a, kind) ==
    Permitted(a, kind, "read") /\ accessScope(a, kind, "read") = accessScope(a, kind, "act")

(* While a request waits, and whatever happened since to its addressee,    *)
(* its employee, their roles and what the roles may do:                    *)
(* - whoever may open it finds it in his list, and the other way round for *)
(*   claims and timesheets;                                                *)
(* - whoever may decide it, and read on the same scope as he acts, finds   *)
(*   and may open it;                                                      *)
(* - a timesheet, and a claim where scopes are in use, is decided by every *)
(*   active administrator whose roles let him act at all, which those of   *)
(*   an administrator of the organization always do;                       *)
(* - where scopes are in use, any request is decided by who manages the    *)
(*   employee now, if he may act on his team.                              *)
PendingIsReachable ==
    request # NoRequest =>
        \A a \in Staff :
            LET kind == request.kind
                mayAct == account[a] = "ACTIVE" /\ Permitted(a, kind, "act") IN
            /\ Views(a, request) => Finds(a, request)
            /\ kind \in {"expense", "timesheet"} => (Finds(a, request) => Views(a, request))
            /\ CanDecide(a, request) /\ ReadsWhatHeActsOn(a, kind) => Finds(a, request) /\ Views(a, request)
            /\ /\ kind = "timesheet" \/ (kind = "expense" /\ ScopeV2)
               /\ \/ mayAct /\ FullRoster(a)
                  \/ account[a] = "ACTIVE" /\ "ORG_ADMIN" \in rolesOf[a]
               => CanDecide(a, request)
            /\ /\ ScopeV2 /\ mayAct /\ ~FullRoster(a)
               /\ boss[request.of] = a /\ accessScope(a, kind, "act") = 2
               => CanDecide(a, request)

=============================================================================
