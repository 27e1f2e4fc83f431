---------------------------- MODULE EmployeeRoles ----------------------------
(***************************************************************************)
(* The links of employees to their roles and of roles to their             *)
(* permissions, as data that administrators edit.  An edit deletes the     *)
(* links of its owner and inserts the new ones one by one, in no           *)
(* transaction; that of an employee then copies the primary role to his    *)
(* record.                                                                 *)
(***************************************************************************)
EXTENDS PortalHandlers

CONSTANTS
    RoleHolders,    \* the employees whose roles are edited
    RoleSets,        \* the roles that are assigned, and the one named as primary
    EditedRoles,    \* the roles whose permissions are edited
    Grants          \* the permissions that are granted

(* The only roles an employee record knows.                                *)
LegacyRoles == {"ORG_ADMIN", "MANAGER", "EMPLOYEE"}

(* At least one role is assigned.  Nothing demands that the role named as  *)
(* primary is one of them; where none is named, it is the first.           *)
ASSUME RolesAssumption ==
    /\ \A c \in RoleSets : c.items # {} /\ IsFiniteSet(c.items)
    /\ IsFiniteSet(Grants)
    /\ RoleHolders \cap EditedRoles = {} /\ None \notin LegacyRoles

VARIABLES
    links,          \* rbac_employee_role_assignments and rbac_role_permissions
    legacy,         \* employees.role
    wanted,         \* history: what the last edit of an owner asked for
    torn            \* history: the owners whose last edit overlapped or failed

roleVars == <<links, legacy, wanted, torn>>

Owners == RoleHolders \cup EditedRoles
Editing(r, owner) == tx[r].op = "edit" /\ tx[r].owner = owner
LinksOf(owner) == {l \in links : l.owner = owner}

(* Two edits of one owner overlap.                                         *)
StartEdit(r, owner, choice) ==
    /\ tx[r].pc = "idle"
    /\ tx' = [q \in Requests |->
                IF q = r THEN [op |-> "edit", pc |-> "delete", owner |-> owner, choice |-> choice,
                               left |-> choice.items,
                               alone |-> \A o \in Requests : ~Editing(o, owner)]
                ELSE IF Editing(q, owner) THEN [tx[q] EXCEPT !.alone = FALSE] ELSE tx[q]]
    /\ UNCHANGED <<scenario, today>>
    /\ UNCHANGED roleVars

assignEmployeeRoles(r, e, choice) == Asked("assignRoles") /\ StartEdit(r, e, choice)

updateRolePermissions(r, role, perms) ==
    /\ Asked("updatePermissions")
    /\ StartEdit(r, role, [items |-> perms, primary |-> None])

DeletePrimary(r) ==         \* mutant: the other roles of the employee stay
    /\ At(r, "edit", "delete")
    /\ links' = links \ {l \in LinksOf(tx[r].owner) : l.primary}
    /\ Goes(r, [tx[r] EXCEPT !.pc = "insert"])
    /\ UNCHANGED <<legacy, wanted, torn>>
DeleteLinks(r) ==
    /\ At(r, "edit", "delete")
    /\ links' = links \ LinksOf(tx[r].owner)
    /\ Goes(r, [tx[r] EXCEPT !.pc = "insert"])
    /\ UNCHANGED <<legacy, wanted, torn>>

(* by tells apart the rows that two edits inserted for one role: nothing   *)
(* forbids them, whereas UQ_rbac_role_permission allows a permission once. *)
Link(r, item) == [owner |-> tx[r].owner, item |-> item, by |-> r,
                  primary |-> item = tx[r].choice.primary]
Refused(owner, item) == owner \in EditedRoles /\ \E l \in LinksOf(owner) : l.item = item

InsertLink(r) ==
    /\ At(r, "edit", "insert")
    /\ \E item \in tx[r].left :
        /\ ~Refused(tx[r].owner, item)
        /\ links' = links \cup {Link(r, item)}
        /\ Goes(r, [tx[r] EXCEPT !.left = @ \ {item}])
        /\ UNCHANGED <<legacy, wanted, torn>>

Done(r) ==
    /\ wanted' = [wanted EXCEPT ![tx[r].owner] = tx[r].choice]
    /\ torn' = [torn EXCEPT ![tx[r].owner] = ~tx[r].alone]
    /\ Ends(r)

EndOfPermissions(r) ==
    /\ At(r, "edit", "insert") /\ tx[r].left = {} /\ tx[r].owner \in EditedRoles
    /\ Done(r)
    /\ UNCHANGED <<links, legacy>>

(* syncLegacyEmployeeRole: the primary link if there is one, or any.       *)
PrimaryLinks(L) == IF \E l \in L : l.primary THEN {l \in L : l.primary} ELSE L
syncLegacyEmployeeRole(r) ==
    LET owner == tx[r].owner  found == PrimaryLinks(LinksOf(owner)) IN
    /\ At(r, "edit", "insert") /\ tx[r].left = {} /\ owner \in RoleHolders
    /\ \/ found = {} /\ UNCHANGED legacy
       \/ \E l \in found :
              legacy' = IF l.item \in LegacyRoles THEN [legacy EXCEPT ![owner] = l.item] ELSE legacy
    /\ Done(r)
    /\ UNCHANGED links

(* Any statement may fail; what was written stays.                         *)
FailEdit(r) ==
    /\ tx[r].op = "edit"
    /\ torn' = [torn EXCEPT ![tx[r].owner] = TRUE]
    /\ Ends(r)
    /\ UNCHANGED <<links, legacy, wanted>>

RolesInit ==
    /\ links = {}
    /\ legacy = [e \in RoleHolders |-> "EMPLOYEE"]
    /\ wanted = [o \in Owners |-> [items |-> {}, primary |-> None]]
    /\ torn = [o \in Owners |-> FALSE]

RolesStep(r) ==
    \/ \E e \in RoleHolders, choice \in RoleSets : assignEmployeeRoles(r, e, choice)
    \/ \E role \in EditedRoles, perms \in SUBSET Grants : updateRolePermissions(r, role, perms)
    \/ DeleteLinks(r) \/ InsertLink(r)
    \/ EndOfPermissions(r) \/ syncLegacyEmployeeRole(r) \/ FailEdit(r)

-----------------------------------------------------------------------------
(* Between edits an owner has the links its last edit asked for, each      *)
(* once; of an employee's, the one of the role named as primary is         *)
(* primary, and none if that role is none of them.  His record then has    *)
(* that role, or else any of those assigned, where records know them.      *)
(* Unless that edit overlapped with another one, or an edit failed since.  *)
RecordFits(choice, role) ==
    /\ choice.primary \in choice.items \cap LegacyRoles => role = choice.primary
    /\ choice.items # {} /\ choice.items \subseteq LegacyRoles => role \in choice.items

LinksAsAssigned ==
    \A o \in Owners :
        ~torn[o] /\ (\A r \in Requests : ~Editing(r, o)) =>
            /\ {l.item : l \in LinksOf(o)} = wanted[o].items
            /\ Cardinality(LinksOf(o)) = Cardinality(wanted[o].items)
            /\ o \in RoleHolders =>
                 /\ \A l \in LinksOf(o) : l.primary <=> l.item = wanted[o].primary
                 /\ RecordFits(wanted[o], legacy[o])

=============================================================================
