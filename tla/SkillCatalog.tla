---------------------------- MODULE SkillCatalog ----------------------------
(***************************************************************************)
(* The catalogue of skills: categories, their subcategories, their skills, *)
(* and the skills that employees hold.  A row is removed by marking it, so *)
(* no foreign key protects what is below it: the handler counts that       *)
(* first.  A skill repeats the category of its subcategory.                *)
(***************************************************************************)
EXTENDS PortalHandlers, Sequences

CONSTANTS
    Names, DefaultName, OtherName,
    MaxRows         \* bound: rows that are ever made

ASSUME CatalogAssumption == MaxRows \in Nat /\ None \notin Nat /\ {DefaultName, OtherName} \subseteq Names

VARIABLES
    rows,           \* the rows of the four tables; the id of a row is its place
    moved,          \* history: subcategories that went to another category
    entangled       \* history: rows that overlapping handlers wrote

catalogVars == <<rows, moved, entangled>>

Category == 1
Subcategory == 2
Skill == 3
Held == 4           \* employee_skills, whose name is the employee's

Ids == DOMAIN rows
Live(level) == {i \in Ids : rows[i].level = level /\ rows[i].live}
Below(id) == {i \in Ids : rows[i].live /\ id \in {rows[i].up, rows[i].category}}

SkillRow(level, name, up, category) ==
    [level |-> level, name |-> name, up |-> up, category |-> category, active |-> TRUE, live |-> TRUE]

(* requireCategory, requireSubcategory; an employee takes active skills.   *)
Requires(level, up) ==
    IF level = Category THEN up = None
    ELSE up \in Live(level - 1) /\ (level = Held => rows[up].active)
UniqueName(level, up, name, id) ==
    \A i \in Live(level) \ {id} : rows[i].up # up \/ rows[i].name # name

AnyRow(id) == id \in Ids                            \* mutant: what is below is not counted
(* deleteCategory, deleteSubcategory, deleteSkill                          *)
Removable(id) == Below(id) = {}

-----------------------------------------------------------------------------
Overlap(q, ids) == "ids" \in DOMAIN tx[q] /\ tx[q].ids \cap ids # {}

Reads(r, t) ==
    /\ tx[r].pc = "idle"
    /\ tx' = [q \in Requests |->
                IF q = r THEN [t EXCEPT !.alone = \A o \in Requests : ~Overlap(o, t.ids)]
                ELSE IF Overlap(q, t.ids) THEN [tx[q] EXCEPT !.alone = FALSE] ELSE tx[q]]
    /\ UNCHANGED <<scenario, today, catalogVars>>

CategoryAt(level, up) == IF level = Skill THEN rows[up].up ELSE None

createRow(r, level, name, up) ==
    /\ Asked("catalogue")
    /\ Requires(level, up) /\ UniqueName(level, up, name, None)
    /\ Reads(r, [op |-> "create", pc |-> "save", row |-> SkillRow(level, name, up, CategoryAt(level, up)),
                 ids |-> {up} \ {None}, alone |-> TRUE])

createCategory(r, name) == createRow(r, Category, name, None)
createSubcategory(r, name, c) == createRow(r, Subcategory, name, c)
createSkill(r, name, u) == createRow(r, Skill, name, u)
addSkill(r, e, s) == createRow(r, Held, e, s)

updateRow(r, id, change) ==
    LET up == IF "up" \in DOMAIN change THEN change.up ELSE rows[id].up
        row == [rows[id] EXCEPT
                  !.up = up,
                  !.category = IF up = rows[id].up THEN @ ELSE CategoryAt(rows[id].level, up),
                  !.name = IF "name" \in DOMAIN change THEN change.name ELSE @,
                  !.active = IF "active" \in DOMAIN change THEN change.active ELSE @] IN
    /\ rows[id].live
    /\ up # rows[id].up => Requires(rows[id].level, up)
    /\ "name" \in DOMAIN change => UniqueName(rows[id].level, up, change.name, id)
    /\ Reads(r, [op |-> "update", pc |-> "save", id |-> id, read |-> rows[id], row |-> row,
                 ids |-> {id, rows[id].up, up} \ {None}, alone |-> TRUE])

updateCategory(r, id, change) ==
    rows[id].level = Category /\ "up" \notin DOMAIN change /\ updateRow(r, id, change)
updateSubcategory(r, id, change) == rows[id].level = Subcategory /\ updateRow(r, id, change)
updateSkill(r, id, change) == rows[id].level = Skill /\ updateRow(r, id, change)
(* The experience of an employee, which is left out.                       *)
updateHeldSkill(r, id) == Asked("rename") /\ rows[id].level = Held /\ updateRow(r, id, <<>>)

deleteRow(r, id) ==
    /\ Asked("delete") /\ rows[id].live
    /\ Removable(id)
    /\ Reads(r, [op |-> "delete", pc |-> "save", id |-> id, ids |-> {id}, alone |-> TRUE])

deleteCategory(r, id) == rows[id].level = Category /\ deleteRow(r, id)
deleteSubcategory(r, id) == rows[id].level = Subcategory /\ deleteRow(r, id)
deleteSkill(r, id) == rows[id].level = Skill /\ deleteRow(r, id)
removeSkill(r, id) == rows[id].level = Held /\ deleteRow(r, id)

(* The partial unique indexes.                                             *)
Admitted(row, id) == UniqueName(row.level, row.up, row.name, id)
Entangles(r, ids) == entangled' = entangled \cup (IF tx[r].alone THEN {} ELSE tx[r].ids \cup ids)

InsertRow(r) ==
    /\ At(r, "create", "save")
    /\ Admitted(tx[r].row, None) /\ Len(rows) < MaxRows
    /\ rows' = Append(rows, tx[r].row)
    /\ Entangles(r, {Len(rows) + 1})
    /\ Ends(r)
    /\ UNCHANGED moved

(* The row is read with what it belongs to: the save of a move keeps the   *)
(* loaded relation or takes the new column.  The save of a row that was    *)
(* removed meanwhile restores it.                                          *)
UpdateRow(r) ==
    LET t == tx[r] IN
    /\ At(r, "update", "save")
    /\ \E from \in {t.row, t.read} :
          LET row == [t.row EXCEPT !.up = from.up, !.category = from.category] IN
          /\ Admitted(row, t.id)
          /\ rows' = [rows EXCEPT ![t.id] = row]
          /\ moved' = IF row.up # rows[t.id].up THEN moved \cup {t.id} ELSE moved
    /\ Entangles(r, {})
    /\ Ends(r)

RemoveRow(r) ==
    /\ At(r, "delete", "save")
    /\ rows' = [rows EXCEPT ![tx[r].id].live = FALSE]
    /\ Entangles(r, {})
    /\ Ends(r)
    /\ UNCHANGED moved

-----------------------------------------------------------------------------
(* ensureDefaultCatalog: one row after the other, each under the last; the *)
(* skill also repeats the id of the category that was made first.          *)
ensureDefaultCatalog(r) ==
    /\ Asked("defaults") /\ Live(Category) = {}
    /\ Reads(r, [op |-> "defaults", pc |-> "save", level |-> Category, last |-> None, category |-> None,
                 ids |-> {}, alone |-> TRUE])

SeedRow(r) ==
    LET t == tx[r]
        row == SkillRow(t.level, DefaultName, t.last, IF t.level = Skill THEN t.category ELSE None) IN
    /\ At(r, "defaults", "save") /\ t.level <= Skill
    /\ Admitted(row, None) /\ Len(rows) < MaxRows
    /\ rows' = Append(rows, row)
    /\ Entangles(r, {Len(rows) + 1})
    /\ Goes(r, [t EXCEPT !.level = @ + 1, !.last = Len(rows) + 1, !.ids = @ \cup {Len(rows) + 1},
                        !.category = IF t.level = Category THEN Len(rows) + 1 ELSE @])
    /\ UNCHANGED moved

EndOfCatalog(r) ==
    /\ tx[r].op \in {"create", "update", "delete", "defaults"}
    /\ Ends(r)
    /\ UNCHANGED catalogVars

-----------------------------------------------------------------------------
(* Nothing yet, or a skill that is held, and perhaps another category.     *)
Tree(e) == <<SkillRow(Category, DefaultName, None, None), SkillRow(Subcategory, DefaultName, 1, None),
             SkillRow(Skill, DefaultName, 2, 1), SkillRow(Held, e, 3, None)>>
CatalogInit ==
    /\ moved = {} /\ entangled = {}
    /\ \E e \in Employees :
          rows = IF ~Asked("tree") THEN <<>>
                 ELSE IF ~Asked("move") THEN Tree(e)
                 ELSE Append(Tree(e), SkillRow(Category, OtherName, None, None))

RowChanges ==
    (IF Asked("activate") THEN [active : BOOLEAN] ELSE {})
        \cup (IF Asked("move") THEN [up : Ids] ELSE {})
        \cup (IF Asked("rename") THEN [name : Names] ELSE {})

MasterStep(r) ==
    \/ \E name \in Names : \/ createCategory(r, name)
                          \/ \E up \in Ids : createSubcategory(r, name, up) \/ createSkill(r, name, up)
    \/ \E id \in Ids, change \in RowChanges :
          updateCategory(r, id, change) \/ updateSubcategory(r, id, change) \/ updateSkill(r, id, change)
    \/ \E id \in Ids : deleteCategory(r, id) \/ deleteSubcategory(r, id) \/ deleteSkill(r, id)

OwnSkillsStep(r) ==
    \E s \in Ids : \/ \E e \in Employees : addSkill(r, e, s)
                  \/ updateHeldSkill(r, s) \/ removeSkill(r, s)

CatalogStep(r) ==
    \/ MasterStep(r) \/ OwnSkillsStep(r)
    \/ InsertRow(r) \/ UpdateRow(r) \/ RemoveRow(r)
    \/ ensureDefaultCatalog(r) \/ SeedRow(r) \/ EndOfCatalog(r)

-----------------------------------------------------------------------------
(* getCatalog: the skills that an employee is offered.                     *)
Active(level) == {i \in Live(level) : rows[i].active}
getCatalog ==
    {s \in Active(Skill) :
        \E u \in Active(Subcategory) : u = rows[s].up /\ \E c \in Active(Category) : c = rows[u].up}

(* searchEmployees by a category or a subcategory.                         *)
assignmentMatchesFilters(h, category, subcategory) ==
    LET s == rows[h].up IN
    rows[s].live /\ category \in {None, rows[s].category} /\ subcategory \in {None, rows[s].up}

(* No row hangs under a removed one: what is active in an active           *)
(* subcategory of an active category is offered, and the search for a      *)
(* category finds who holds a skill of one of its subcategories, unless    *)
(* the handlers that wrote these rows overlapped or the subcategory moved. *)
SkillTree ==
    /\ \A s \in Active(Skill) :
          LET u == rows[s].up c == rows[u].up IN
          {s, u, c} \cap entangled = {} /\ rows[u].active /\ rows[c].active => s \in getCatalog
    /\ \A h \in Live(Held) :
          LET s == rows[h].up u == rows[s].up c == rows[u].up IN
          {h, s, u, c} \cap entangled = {} =>
              /\ assignmentMatchesFilters(h, None, u)
              /\ u \notin moved => assignmentMatchesFilters(h, c, None)

=============================================================================
