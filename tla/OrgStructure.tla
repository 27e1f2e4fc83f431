---------------------------- MODULE OrgStructure ----------------------------
(***************************************************************************)
(* Departments, designations and which of them belong together, saved as   *)
(* whole lists, and the employees whose rows refer to one of each.  An     *)
(* employee is checked against the lists before the transaction that       *)
(* writes him; deleting a department empties his reference to it.          *)
(***************************************************************************)
EXTENDS PortalHandlers, Sequences

CONSTANTS
    Departments, Designations,
    Emails,
    FirstCode,      \* the highest employee code of the year when the history starts
    Padding         \* 10000: codes below it are padded with zeros to the same length

(* A column of the post is empty if what it referred to was deleted.       *)
EmployeeRows ==
    [email : Emails, status : {"pending", "active", "inactive"},
     post : [department : Departments \cup {None}, designation : Designations \cup {None}]]

ASSUME StructureAssumption ==
    /\ FirstCode \in Nat /\ Padding \in Nat \ {0}
    /\ Emails # {} /\ None \notin EmployeeRows

VARIABLES
    departments,    \* department -> "absent", "active" or "inactive"
    designations,
    mapped,         \* designation_departments: pairs of a department and a designation
    employees,      \* employee -> row, None before he is created
    codes,          \* the employee codes of the year
    displaced,      \* history: employees whose lists changed after or while they were checked
    rivals          \* history: emails that two handlers were about at once

structureVars == <<departments, designations, mapped, employees, codes, displaced, rivals>>

Statuses == {"absent", "active", "inactive"}
NoPost == [department |-> None, designation |-> None]
Posts == {NoPost} \cup [department : Departments, designation : Designations]

IsPost(post) == post # NoPost
Listed(list) == {x \in DOMAIN list : list[x] # "absent"}

Hired == {e \in Employees : employees[e] # None}
WithEmail(email) == {e \in Hired : employees[e].email = email}
Unchecked(email) == TRUE                            \* mutant: the email is not looked up
Free(email) == WithEmail(email) = {}

-----------------------------------------------------------------------------
(* Codes are compared as text.                                             *)
TextOrder(n) == IF n < Padding THEN <<n, 0>> ELSE <<n \div 10, (n % 10) + 1>>
Before(m, n) ==
    LET a == TextOrder(m) b == TextOrder(n) IN a[1] < b[1] \/ (a[1] = b[1] /\ a[2] < b[2])

LastCode == CHOOSE n \in codes : \A m \in codes \ {n} : Before(m, n)
(* The last code is split at its hyphens: one in the prefix makes too many *)
(* parts, and the number starts again.                                     *)
HyphenInPrefix == Asked("hyphen")
generateEmployeeCode == IF codes = {} \/ HyphenInPrefix THEN 1 ELSE LastCode + 1

AnyPlace(post) ==                                   \* mutant: the mapping is not looked up
    IsPost(post) =>
        /\ post.department # None /\ departments[post.department] = "active"
        /\ post.designation # None /\ designations[post.designation] = "active"
(* validateDepartmentAndDesignation: both of them, or neither.             *)
Placeable(post) ==
    IsPost(post) =>
        /\ post.department # None /\ departments[post.department] = "active"
        /\ post.designation # None /\ designations[post.designation] = "active"
        /\ <<post.department, post.designation>> \in mapped

-----------------------------------------------------------------------------
(* create checks the post, then the email; createHrOnboarding the email,   *)
(* then the post.  Both take a code and insert the row, with the rows of   *)
(* the details in one transaction.  tx.sure says that the lists did not    *)
(* change since the post was checked.                                      *)
Hiring(q) == tx[q].op = "hire"

(* The row that an edit saves.  A post that is undefined is not written:   *)
(* its columns keep what they hold by then.                                *)
EmailSaved(t) == IF "email" \in DOMAIN t.change THEN t.change.email ELSE t.row.email
PostSaved(t) == IF "post" \in DOMAIN t.change THEN t.change.post
                ELSE IF "undefined" \in DOMAIN t.change THEN employees[t.e].post ELSE t.row.post
Entity(t) == [email |-> EmailSaved(t), post |-> PostSaved(t),
              status |-> IF "status" \in DOMAIN t.change THEN t.change.status ELSE t.row.status]

(* The emails that a handler has read, or is about to write.               *)
EmailsOf(t) == IF t.op = "hire" THEN {t.email}
               ELSE IF t.op = "edit" THEN {t.row.email, EmailSaved(t)} ELSE {}
Contend(r, t) ==
    /\ rivals' = rivals \cup UNION {EmailsOf(t) \cap EmailsOf(tx[q]) : q \in Requests \ {r}}
    /\ UNCHANGED <<departments, designations, mapped, employees, codes, displaced>>

StartHire(r, e, email, post, checks) ==
    LET t == [op |-> "hire", pc |-> "check", e |-> e, email |-> email, post |-> post,
              checks |-> checks, sure |-> FALSE, code |-> None, alone |-> FALSE] IN
    /\ Asked("hire") /\ employees[e] = None
    /\ \A q \in Requests : Hiring(q) => tx[q].e # e /\ ~Asked("one employee")
    /\ Asked("one employee") => Hired = {}
    /\ Begin(r, t) /\ Contend(r, t)

create(r, e, email, post) == StartHire(r, e, email, post, <<"post", "email">>)
createHrOnboarding(r, e, email, post) == StartHire(r, e, email, post, <<"email", "post">>)

Checking(r, what) == At(r, "hire", "check") /\ tx[r].checks # <<>> /\ Head(tx[r].checks) = what
CheckEmail(r) ==
    /\ Checking(r, "email") /\ Free(tx[r].email)
    /\ Goes(r, [tx[r] EXCEPT !.checks = Tail(@)])
    /\ UNCHANGED structureVars
CheckPost(r) ==
    /\ Checking(r, "post") /\ Placeable(tx[r].post)
    /\ Goes(r, [tx[r] EXCEPT !.checks = Tail(@), !.sure = TRUE])
    /\ UNCHANGED structureVars

TakeCode(r) ==
    /\ At(r, "hire", "check") /\ tx[r].checks = <<>>
    /\ tx' = [q \in Requests |->
                IF q = r THEN [tx[r] EXCEPT !.pc = "insert", !.code = generateEmployeeCode, !.alone =
                                   \A o \in Requests \ {r} : ~At(o, "hire", "insert")]
                ELSE IF Hiring(q) THEN [tx[q] EXCEPT !.alone = FALSE] ELSE tx[q]]
    /\ UNCHANGED <<scenario, today, structureVars>>

(* The foreign keys and the one unique column of the table, the code.      *)
PostExists(post) ==
    IsPost(post) => /\ departments[post.department] # "absent"
                    /\ designations[post.designation] # "absent"

InsertEmployee(r) ==
    LET t == tx[r] IN
    /\ At(r, "hire", "insert")
    /\ t.code \notin codes /\ PostExists(t.post)
    /\ employees' = [employees EXCEPT ![t.e] = [email |-> t.email, post |-> t.post, status |-> "pending"]]
    /\ codes' = codes \cup {t.code}
    /\ displaced' = IF t.sure THEN displaced ELSE displaced \cup {t.e}
    /\ Ends(r)
    /\ UNCHANGED <<departments, designations, mapped, rivals>>

-----------------------------------------------------------------------------
(* updateEmployee and updateHrOnboarding change some columns of the row    *)
(* they read first and save it whole.                                      *)
Editing(q, e) == tx[q].op = "edit" /\ tx[q].e = e

StartEdit(r, e, change) ==
    LET t == [op |-> "edit", pc |-> "validate", e |-> e, row |-> employees[e], change |-> change,
              sure |-> FALSE] IN
    e \in Hired /\ Begin(r, t) /\ Contend(r, t)

(* What an edit does not give of a post is taken from the row.             *)
Completed(given, post) ==
    [department |-> IF given.department = None THEN post.department ELSE given.department,
     designation |-> IF given.designation = None THEN post.designation ELSE given.designation]
updateEmployee(r, e, change) == StartEdit(r, e, change)
transfer(r, e, given) ==
    /\ Asked("transfer") /\ e \in Hired
    /\ updateEmployee(r, e, [post |-> Completed(given, employees[e].post)])
(* The form of the onboarding always has an email; a post that it does not *)
(* have is undefined.                                                      *)
updateHrOnboarding(r, e, email, post) ==
    /\ Asked("onboard")
    /\ StartEdit(r, e, IF post = NoPost THEN [email |-> email, undefined |-> "post"]
                       ELSE [email |-> email, post |-> post])

ValidateEdit(r) ==
    LET t == tx[r] IN
    /\ At(r, "edit", "validate")
    /\ "email" \in DOMAIN t.change =>
          LET holders == WithEmail(t.change.email) IN holders = {} \/ t.e \in holders
    /\ "post" \in DOMAIN t.change => Placeable(t.change.post)
    /\ Goes(r, [t EXCEPT !.pc = "save", !.sure = "post" \in DOMAIN t.change])
    /\ UNCHANGED structureVars

SaveEmployee(r) ==
    LET t == tx[r] entity == Entity(t) IN
    /\ At(r, "edit", "save")
    /\ entity.post.department # None => departments[entity.post.department] # "absent"
    /\ entity.post.designation # None => designations[entity.post.designation] # "absent"
    /\ employees' = [employees EXCEPT ![t.e] = entity]
    /\ displaced' = IF t.sure THEN displaced \ {t.e}
                    ELSE IF entity.post = employees[t.e].post THEN displaced ELSE displaced \cup {t.e}
    /\ Ends(r)
    /\ UNCHANGED <<departments, designations, mapped, codes, rivals>>

-----------------------------------------------------------------------------
(* A list replaces the rows that the transaction found; rows are deleted,  *)
(* and what refers to them is deleted or emptied.                          *)
Replaced(old, seen, list) ==
    [x \in DOMAIN old |-> IF list[x] # "absent" THEN list[x] ELSE IF x \in seen THEN "absent" ELSE old[x]]

updateDepartments(r, list) ==
    /\ Asked("structure")
    /\ Begin(r, [op |-> "departments", pc |-> "save", list |-> list, seen |-> Listed(departments)])
    /\ UNCHANGED structureVars
updateDesignations(r, list, pairs) ==
    /\ Asked("structure")
    /\ Begin(r, [op |-> "designations", pc |-> "save", list |-> list, seen |-> Listed(designations),
                 pairs |-> pairs])
    /\ UNCHANGED structureVars

(* FK_employees_departmentId, FK_employees_designationId: ON DELETE SET NULL *)
Emptied(e) ==
    IF employees[e] = None THEN None
    ELSE [employees[e] EXCEPT
            !.post.department = IF @ \in Listed(departments') THEN @ ELSE None,
            !.post.designation = IF @ \in Listed(designations') THEN @ ELSE None]

Fits(post, pairs) == post = NoPost \/ <<post.department, post.designation>> \in pairs

ListsSaved(r) ==
    /\ employees' = [e \in Employees |-> Emptied(e)]
    /\ displaced' = displaced \cup {e \in Hired : ~Fits(employees'[e].post, mapped')}
    /\ tx' = [q \in Requests |->
                IF q = r THEN Idle
                ELSE IF "sure" \in DOMAIN tx[q] THEN [tx[q] EXCEPT !.sure = FALSE] ELSE tx[q]]
    /\ UNCHANGED <<scenario, today, codes, rivals>>

SaveDepartments(r) ==
    /\ At(r, "departments", "save")
    /\ departments' = Replaced(departments, tx[r].seen, tx[r].list)
    /\ mapped' = {p \in mapped : p[1] \in Listed(departments')}
    /\ UNCHANGED designations
    /\ ListsSaved(r)

SaveDesignations(r) ==
    /\ At(r, "designations", "save")
    /\ \A p \in tx[r].pairs : p[1] \in Listed(departments)
    /\ designations' = Replaced(designations, tx[r].seen, tx[r].list)
    /\ mapped' = tx[r].pairs
    /\ UNCHANGED departments
    /\ ListsSaved(r)

FailStructure(r) ==
    /\ tx[r].op \in {"hire", "edit", "departments", "designations"}
    /\ Ends(r)
    /\ UNCHANGED structureVars

-----------------------------------------------------------------------------
StructureInit ==
    /\ departments = [d \in Departments |-> "active"]
    /\ designations = [z \in Designations |-> "active"]
    /\ mapped = Departments \X Designations
    /\ employees = [e \in Employees |-> None]
    /\ codes = IF FirstCode = 0 \/ HyphenInPrefix THEN {} ELSE {FirstCode}
    /\ displaced = {} /\ rivals = {}

EmailsSent == IF Asked("one employee") THEN {CHOOSE email \in Emails : TRUE} ELSE Emails
PostsSent == IF Asked("structure") THEN Posts ELSE {NoPost}
PostsGiven == [department : Departments \cup {None}, designation : Designations \cup {None}]
Changes == IF Asked("rename") THEN [email : Emails] \cup [status : {"active", "inactive"}] ELSE {}

StructureStep(r) ==
    \/ \E e \in Employees, email \in EmailsSent, post \in PostsSent :
          \/ create(r, e, email, post) \/ createHrOnboarding(r, e, email, post)
          \/ updateHrOnboarding(r, e, email, post)
    \/ \E e \in Employees, change \in Changes : updateEmployee(r, e, change)
    \/ \E e \in Employees, given \in PostsGiven : transfer(r, e, given)
    \/ CheckEmail(r) \/ CheckPost(r) \/ TakeCode(r) \/ InsertEmployee(r) \/ ValidateEdit(r) \/ SaveEmployee(r)
    \/ \E list \in [Departments -> Statuses] : updateDepartments(r, list)
    \/ \E list \in [Designations -> Statuses] :
          \E pairs \in SUBSET (Departments \X Listed(list)) : updateDesignations(r, list, pairs)
    \/ SaveDepartments(r) \/ SaveDesignations(r) \/ FailStructure(r)

-----------------------------------------------------------------------------
(* An employee has a department and a designation that belong together, or *)
(* neither, unless a list was saved that displaced him or that his own     *)
(* handler did not see.                                                    *)
EmployeesPlaced ==
    \A e \in Hired \ displaced : Fits(employees[e].post, mapped)

(* No two employees have one email, which they log in with, though no      *)
(* index says so, unless two handlers were about that email at once.  And  *)
(* a code that is about to be inserted is new, unless two employees were   *)
(* created at once, the codes outgrew their padding, or the prefix has a   *)
(* hyphen.  Past the padding the last of the padded codes stays the        *)
(* greatest as text, and every later hire fails on a code that is taken;   *)
(* with a hyphen every code is the first, and the year has only one.       *)
EmployeesDiffer ==
    /\ \A email \in Emails \ rivals : Cardinality(WithEmail(email)) <= 1
    /\ HyphenInPrefix => Cardinality(codes) <= 1
    /\ \A r \in Requests :
        At(r, "hire", "insert") /\ tx[r].alone /\ (\A n \in codes : n < Padding) /\ ~HyphenInPrefix
        => tx[r].code \notin codes

=============================================================================
