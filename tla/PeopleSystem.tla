---------------------------- MODULE PeopleSystem ----------------------------
(***************************************************************************)
(* The records of people that managers and administrators keep: who        *)
(* reports to whom, assessments, roles and permissions, and the plan the   *)
(* organization pays for.                                                  *)
(***************************************************************************)
EXTENDS ReportingLines, Assessments, EmployeeRoles, Subscriptions

vars == <<portalVars, lineVars, assessmentVars, roleVars, planVars>>

Init == PortalInit /\ LinesInit /\ AssessmentInit /\ RolesInit /\ PlansInit

Next ==
    \/ NextDay /\ UNCHANGED <<lineVars, assessmentVars, roleVars, planVars>>
    \/ /\ \E r \in Requests : LinesStep(r)
       /\ UNCHANGED <<assessmentVars, roleVars, planVars>>
    \/ /\ \E r \in Requests : AssessmentStep(r)
       /\ UNCHANGED <<lineVars, roleVars, planVars>>
    \/ /\ \E r \in Requests : RolesStep(r)
       /\ UNCHANGED <<lineVars, assessmentVars, planVars>>
    \/ /\ markExpiredSubscriptions \/ \E r \in Requests : PlansStep(r)
       /\ UNCHANGED <<lineVars, assessmentVars, roleVars>>

Spec == Init /\ [][Next]_vars

-----------------------------------------------------------------------------
Statuses == {"NONE", "DRAFT", "SUBMITTED", "MANAGER_REVIEWED", "COMPLETED"}

(* Rows and handlers keep their types; in particular no row number is used *)
(* twice, and the questions a handler has still to ask about a chain are   *)
(* never those of the employee it is about.                                *)
TypeOK ==
    /\ scenario \in Scenarios /\ today \in 0 .. LastDay
    /\ \A e \in Employees :
        /\ \/ line[e] = NoLine
           \/ line[e].row \in 1 .. rows /\ line[e].manager \in Employees \ {e}
        /\ \A f \in Employees \ {e} : line[e] # NoLine => line[e].row # line[f].row
    /\ \A r \in Requests :
        /\ tx[r].op = "assign" => tx[r].employee \notin tx[r].visited
        /\ tx[r].op = "edit" => tx[r].left \subseteq tx[r].choice.items
        /\ tx[r].op = "renew" /\ tx[r].pc = "supersede" => plan[tx[r].old] # NoPlan
    /\ assessment.status \in Statuses
    /\ \A q \in Questions : answers[q] \in Ratings[q] \cup {None}
    /\ \A p \in Plans : plan[p].status \in {"NONE", "ACTIVE", "EXPIRED", "SUPERSEDED"}

=============================================================================
