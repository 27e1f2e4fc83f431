--------------------------- MODULE ReportingLines ---------------------------
(***************************************************************************)
(* Who reports to whom.  An assignment walks up the chain of the new       *)
(* manager to see that the employee is not in it, and only then opens the  *)
(* transaction that closes the active row and inserts the new one.         *)
(***************************************************************************)
EXTENDS PortalHandlers

CONSTANTS
    Managers,       \* the employees who have the role of a manager
    MaxRows         \* bound: rows of employee_reporting_managers

ASSUME ReportingAssumption == Managers \subseteq Employees /\ MaxRows \in Nat

VARIABLES
    line,       \* employee_reporting_managers: the active primary row of each employee
    rows,       \* the number of rows, which also names them
    crossed     \* history: the lines of employees assigned while another one changed

lineVars == <<line, rows, crossed>>

NoLine == [row |-> 0, manager |-> None]

assignOrChange(r, e, m) ==
    /\ Asked("assign")
    /\ e # m /\ m \in Managers
    /\ rows < MaxRows
    /\ Begin(r, [op |-> "assign", pc |-> "walk", employee |-> e, manager |-> m,
                 current |-> m, visited |-> {}, active |-> NoLine, crossed |-> FALSE])
    /\ UNCHANGED lineVars

(* One round of the loop of assertNoCycle, which reads one row.            *)
OneLevelUp(r) ==            \* mutant: only the new manager's own manager is looked at
    LET t == tx[r]  up == line[t.current] IN
    /\ At(r, "assign", "walk")
    /\ IF t.current = t.employee THEN Ends(r)
       ELSE IF t.visited # {} \/ up = NoLine THEN Goes(r, [t EXCEPT !.pc = "load"])
       ELSE Goes(r, [t EXCEPT !.current = up.manager, !.visited = @ \cup {t.current}])
    /\ UNCHANGED lineVars
assertNoCycle(r) ==
    LET t == tx[r]  up == line[t.current] IN
    /\ At(r, "assign", "walk")
    /\ \/ t.current = t.employee /\ Ends(r)
       \/ /\ t.current # t.employee
          /\ t.current \in t.visited
          /\ Goes(r, [t EXCEPT !.pc = "load"])
       \/ /\ t.current # t.employee
          /\ t.current \notin t.visited
          /\ Goes(r, IF up = NoLine
                     THEN [t EXCEPT !.pc = "load", !.visited = @ \cup {t.current}]
                     ELSE [t EXCEPT !.current = up.manager, !.visited = @ \cup {t.current}])
    /\ UNCHANGED lineVars

findActivePrimary(r) ==
    LET t == tx[r] IN
    /\ At(r, "assign", "load")
    /\ IF line[t.employee].manager = t.manager
       THEN Ends(r)
       ELSE Goes(r, [t EXCEPT !.pc = "save", !.active = line[t.employee]])
    /\ UNCHANGED lineVars

(* UQ_erm_active_primary: one active row for an employee.                  *)
Conflicts(t) == line[t.employee] # NoLine /\ line[t.employee] # t.active

(* A change of a line crosses the assignments that are under way.          *)
Crossing(r) ==
    [q \in Requests |-> IF q = r THEN Idle
                        ELSE IF tx[q].op = "assign" THEN [tx[q] EXCEPT !.crossed = TRUE]
                        ELSE tx[q]]

NewRow == rows + 1

SaveAssignment(r) ==
    LET t == tx[r]  e == t.employee IN
    /\ At(r, "assign", "save")
    /\ ~Conflicts(t)
    /\ line' = [line EXCEPT ![e] = [row |-> NewRow, manager |-> t.manager]]
    /\ rows' = NewRow
    /\ crossed' = [crossed EXCEPT ![e] = t.crossed]
    /\ tx' = Crossing(r)
    /\ UNCHANGED <<scenario, today>>

RejectAssignment(r) ==
    /\ At(r, "assign", "save")
    /\ Conflicts(tx[r])
    /\ Ends(r)
    /\ UNCHANGED lineVars

remove(r, e) ==
    /\ Asked("remove")
    /\ line[e] # NoLine
    /\ Begin(r, [op |-> "remove", pc |-> "save", employee |-> e, active |-> line[e]])
    /\ UNCHANGED lineVars

(* The row that was loaded ends, whether or not it is still the active one. *)
SaveRemoval(r) ==
    LET t == tx[r]  e == t.employee IN
    /\ At(r, "remove", "save")
    /\ line' = [line EXCEPT ![e] = IF @ = t.active THEN NoLine ELSE @]
    /\ Ends(r)
    /\ UNCHANGED <<rows, crossed>>

LinesInit ==
    /\ line = [e \in Employees |-> NoLine]
    /\ rows = 0
    /\ crossed = [e \in Employees |-> FALSE]

LinesStep(r) ==
    \/ \E e \in Employees : remove(r, e) \/ \E m \in Employees : assignOrChange(r, e, m)
    \/ assertNoCycle(r) \/ findActivePrimary(r)
    \/ SaveAssignment(r) \/ RejectAssignment(r) \/ SaveRemoval(r)

-----------------------------------------------------------------------------
(* Nobody is his own superior, however long the chain, as long as each     *)
(* line in it was assigned while no other one changed: a set of employees  *)
(* whose managers are all in it would hold a circle.                       *)
NoCircularChain ==
    \A S \in (SUBSET Employees) \ {{}} :
        \E e \in S : line[e].manager \notin S \/ crossed[e]

=============================================================================
