------------------------ MODULE Administration_proofs ------------------------
(***************************************************************************)
(* Files stay with the rows that refer to them, employees with their       *)
(* departments and emails, shifts and leave types with their branches,     *)
(* skills with their categories, and who may decide a request finds it:    *)
(* for any number of employees, handlers, files, rows and lists.           *)
(***************************************************************************)
EXTENDS Administration, FiniteSetTheorems, TLAPS

(* What the handlers of each part do.                                      *)
FileOps == {"file", "purge"}
CentreOps == {"form16", "policy", "document"}
StructureOps == {"hire", "edit", "departments", "designations"}
SettingsOps == {"move", "shifts", "locations", "leaves"}
CalendarOps == {"holiday", "import", "publish", "change", "remove"}
CatalogOps == {"create", "update", "delete", "defaults"}
RoutingOps == {"ask"}

Handler(t) ==
    /\ {"op", "pc"} \subseteq DOMAIN t
    /\ t.pc = "idle" => t.op = "none"
    /\ t.pc = "make" => t.op \in CalendarOps
    /\ "sure" \in DOMAIN t => t.op \in {"hire", "edit"}
    /\ "ids" \in DOMAIN t => t.op \in CatalogOps
Sane == tx = [r \in Requests |-> tx[r]] /\ \A r \in Requests : Handler(tx[r])

(* A step that starts, ends or changes handlers of these kinds only.       *)
Own(O) == \A q \in Requests : tx'[q] = tx[q] \/ {tx[q].op, tx'[q].op} \subseteq O \cup {"none"}

LEMMA IdleHandler == Handler(Idle) /\ Idle.op = "none"
BY DEF Handler, Idle

LEMMA GoesOwn ==
    ASSUME NEW r \in Requests, NEW O, NEW t, Sane, Goes(r, t), Handler(t),
           {tx[r].op, t.op} \subseteq O \cup {"none"}
    PROVE  Sane' /\ Own(O)
BY DEF Sane, Goes, Own

LEMMA StartsOwn ==
    ASSUME NEW r \in Requests, NEW O, NEW t, Sane, Begin(r, t), Handler(t), t.op \in O
    PROVE  Sane' /\ Own(O)
<1>1. tx[r].op = "none"
  BY DEF Begin, Sane, Handler
<1> QED BY <1>1, GoesOwn DEF Begin

LEMMA EndsOwn ==
    ASSUME NEW r \in Requests, NEW O, Sane, Ends(r), tx[r].op \in O
    PROVE  Sane' /\ Own(O)
BY GoesOwn, IdleHandler DEF Ends

LEMMA ChangesOwn ==
    ASSUME NEW r \in Requests, NEW O, NEW t, Sane, Goes(r, t), tx[r].op \in O,
           t.op = tx[r].op, DOMAIN t = DOMAIN tx[r], t.pc \notin {"idle", "make"}
    PROVE  Sane' /\ Own(O)
<1>1. Handler(t)
  BY DEF Sane, Handler
<1> QED BY <1>1, GoesOwn

(* A step that changes handlers of one kind besides its own.               *)
LEMMA MarksOwn ==
    ASSUME NEW O, Sane, tx' = [q \in Requests |-> tx'[q]],
           \A q \in Requests : \/ tx'[q] = tx[q]
                               \/ Handler(tx'[q]) /\ {tx[q].op, tx'[q].op} \subseteq O \cup {"none"}
    PROVE  Sane' /\ Own(O)
BY DEF Sane, Own

LEMMA FilesOwn ==
    ASSUME NEW r \in Requests, Sane, FilesStep(r)
    PROVE  Sane' /\ Own(FileOps)
<1>1. ASSUME NEW kind, NEW line, NEW source, NEW new, NEW old, NEW todo,
             StartForm(r, kind, line, source, new, old, todo)
      PROVE  Sane' /\ Own(FileOps)
  <2> DEFINE t == [op |-> "file", pc |-> "run", kind |-> kind, line |-> line, source |-> source,
                   new |-> new, old |-> old, todo |-> todo, cleaned |-> {}, alone |-> TRUE]
             u == [t EXCEPT !.alone = \A o \in Requests : ~Meets(o, t)]
  <2>1. Handler(u) /\ u.op = "file"
    BY DEF Handler
  <2>2. \A q \in Requests : InForm(q) =>
            LET v == [tx[q] EXCEPT !.alone = FALSE] IN Handler(v) /\ v.op = "file"
    BY DEF Sane, Handler, InForm
  <2>3. tx[r].pc = "idle" /\ tx' = [q \in Requests |->
                IF q = r THEN u ELSE IF InForm(q) /\ Meets(q, t) THEN [tx[q] EXCEPT !.alone = FALSE] ELSE tx[q]]
    BY <1>1 DEF StartForm
  <2>4. tx[r].op = "none"
    BY <2>3 DEF Sane, Handler
  <2> HIDE DEF t, u
  <2>5. tx' = [q \in Requests |-> tx'[q]]
    BY <2>3
  <2>6. \A q \in Requests : \/ tx'[q] = tx[q]
                            \/ Handler(tx'[q]) /\ {tx[q].op, tx'[q].op} \subseteq FileOps \cup {"none"}
    BY <2>1, <2>2, <2>3, <2>4 DEF FileOps, InForm
  <2> QED BY <2>5, <2>6, MarksOwn
<1>2. ASSUME purgeOrganizationAssets(r) PROVE Sane' /\ Own(FileOps)
  <2> DEFINE t == [op |-> "purge", pc |-> "delete", listed |-> objects]
  <2>1. Handler(t) /\ t.op = "purge"
    BY DEF Handler
  <2>2. \A q \in Requests : InForm(q) =>
            LET v == [tx[q] EXCEPT !.alone = FALSE] IN Handler(v) /\ v.op = "file"
    BY DEF Sane, Handler, InForm
  <2>3. tx[r].pc = "idle" /\ tx' = [q \in Requests |->
                IF q = r THEN t ELSE IF InForm(q) THEN [tx[q] EXCEPT !.alone = FALSE] ELSE tx[q]]
    BY <1>2 DEF purgeOrganizationAssets
  <2>4. tx[r].op = "none"
    BY <2>3 DEF Sane, Handler
  <2> HIDE DEF t
  <2>5. tx' = [q \in Requests |-> tx'[q]]
    BY <2>3
  <2>6. \A q \in Requests : \/ tx'[q] = tx[q]
                            \/ Handler(tx'[q]) /\ {tx[q].op, tx'[q].op} \subseteq FileOps \cup {"none"}
    BY <2>1, <2>2, <2>3, <2>4 DEF FileOps, InForm
  <2> QED BY <2>5, <2>6, MarksOwn
<1>3. CASE copyObject(r)
  <2> DEFINE t == [[tx[r] EXCEPT !.new = NewKey] EXCEPT !.todo = Tail(@)]
  <2>1. Goes(r, t) /\ At(r, "file", "run")
    BY <1>3 DEF copyObject, Doing, Does
  <2>2. DOMAIN t = DOMAIN tx[r] /\ t.op = tx[r].op /\ t.pc = tx[r].pc
    BY DEF Sane, Handler
  <2> HIDE DEF t
  <2> QED BY <2>1, <2>2, ChangesOwn DEF At, FileOps
<1>4. ASSUME At(r, "file", "run"), Does(r, tx[r]) PROVE Sane' /\ Own(FileOps)
  <2> DEFINE t == [tx[r] EXCEPT !.todo = Tail(@)]
  <2>1. DOMAIN t = DOMAIN tx[r] /\ t.op = tx[r].op /\ t.pc = tx[r].pc
    BY DEF Sane, Handler
  <2>2. Goes(r, t)
    BY <1>4 DEF Does
  <2> HIDE DEF t
  <2> QED BY <1>4, <2>1, <2>2, ChangesOwn DEF At, FileOps
<1>5. CASE deleteObject(r)
  BY <1>4, <1>5 DEF deleteObject, Doing
<1>6. CASE cleanupExpenseReceipt(r)
  <2> DEFINE t == [[tx[r] EXCEPT !.cleaned = {tx[r].old}] EXCEPT !.todo = Tail(@)]
  <2>1. At(r, "file", "run") /\ (Goes(r, t) \/ Does(r, tx[r]))
    BY <1>6 DEF cleanupExpenseReceipt, Doing, Does
  <2>2. DOMAIN t = DOMAIN tx[r] /\ t.op = tx[r].op /\ t.pc = tx[r].pc
    BY DEF Sane, Handler
  <2> HIDE DEF t
  <2> QED BY <1>4, <2>1, <2>2, ChangesOwn DEF At, FileOps
<1>7. CASE deleteAllUnderPrefix(r)
  <2> DEFINE t == [tx[r] EXCEPT !.pc = "clear"]
  <2>1. Goes(r, t) /\ At(r, "purge", "delete")
    BY <1>7 DEF deleteAllUnderPrefix
  <2>2. DOMAIN t = DOMAIN tx[r] /\ t.op = tx[r].op /\ t.pc = "clear"
    BY DEF Sane, Handler
  <2> HIDE DEF t
  <2> QED BY <2>1, <2>2, ChangesOwn DEF At, FileOps
<1>8. CASE CommitForm(r) \/ FailForm(r) \/ ClearReferences(r) \/ FailPurge(r)
  BY <1>8, EndsOwn DEF CommitForm, FailForm, ClearReferences, FailPurge, At, InForm, Purging, FileOps
<1> QED
  BY <1>1, <1>2, <1>3, <1>5, <1>6, <1>7, <1>8
     DEF FilesStep, deleteLine, attachReceipt, reuseReceipt, createLeave, finalizeProfilePhoto,
         updateOrgProfile, updateDocuments

LEMMA CentreOwn ==
    ASSUME NEW r \in Requests, Sane, CentreStep(r)
    PROVE  Sane' /\ Own(CentreOps)
<1>1. ASSUME NEW t, NEW S, StartCentre(r, t, S), Handler(t), t.op \in CentreOps
      PROVE  Sane' /\ Own(CentreOps)
  BY <1>1, StartsOwn DEF StartCentre
<1>2. \A left, zip, stored : LET t == Upload(left, zip, stored) IN Handler(t) /\ t.op = "form16"
  BY DEF Handler, Upload
<1>3. ASSUME NEW e, uploadForm16(r, e) \/ uploadForm16Zip(r, e) PROVE Sane' /\ Own(CentreOps)
  <2>1. \E t, S : StartCentre(r, t, S) /\ Handler(t) /\ t.op = "form16"
    BY <1>2, <1>3 DEF uploadForm16, uploadForm16Zip
  <2> QED BY <1>1, <2>1 DEF CentreOps
<1>4. ASSUME NEW doc, NEW change \in {"softDelete", "updateDocument"}, findDocumentOrFail(r, doc, change)
      PROVE  Sane' /\ Own(CentreOps)
  <2> DEFINE t == [op |-> "document", pc |-> change, doc |-> doc]
  <2>1. Handler(t) /\ t.op \in CentreOps
    BY DEF Handler, CentreOps
  <2>2. StartCentre(r, t, {doc.owner} \ {None})
    BY <1>4 DEF findDocumentOrFail
  <2> HIDE DEF t
  <2> QED BY <1>1, <2>1, <2>2
<1>5. CASE uploadPublicDocument(r)
  <2> DEFINE t == [op |-> "policy", pc |-> "save", key |-> NewKey]
  <2>1. Handler(t) /\ t.op \in CentreOps
    BY DEF Handler, CentreOps
  <2>2. Begin(r, t)
    BY <1>5 DEF uploadPublicDocument
  <2> HIDE DEF t
  <2> QED BY <2>1, <2>2, StartsOwn
<1>6. CASE FindForm(r)
  <2>1. PICK e \in tx[r].left : Goes(r, [tx[r] EXCEPT !.pc = "remove", !.e = e, !.old = Forms(e)])
    BY <1>6 DEF FindForm
  <2> DEFINE t == [tx[r] EXCEPT !.pc = "remove", !.e = e, !.old = Forms(e)]
  <2>2. DOMAIN t = DOMAIN tx[r] /\ t.op = tx[r].op /\ t.pc = "remove"
    BY DEF Sane, Handler
  <2>3. tx[r].op \in CentreOps
    BY <1>6 DEF FindForm, At, CentreOps
  <2> HIDE DEF t
  <2> QED BY <2>1, <2>2, <2>3, ChangesOwn DEF t
<1>7. CASE RemoveForm(r)
  <2> DEFINE t == [tx[r] EXCEPT !.pc = "put"]
  <2>1. Goes(r, t) /\ tx[r].op \in CentreOps
    BY <1>7 DEF RemoveForm, At, CentreOps
  <2>2. DOMAIN t = DOMAIN tx[r] /\ t.op = tx[r].op /\ t.pc = "put"
    BY DEF Sane, Handler
  <2> HIDE DEF t
  <2> QED BY <2>1, <2>2, ChangesOwn
<1>8. CASE PutForm(r)
  <2> DEFINE t == [tx[r] EXCEPT !.pc = "save", !.key = NewKey]
  <2>1. Goes(r, t) /\ tx[r].op \in CentreOps
    BY <1>8 DEF PutForm, At, CentreOps
  <2>2. DOMAIN t = DOMAIN tx[r] /\ t.op = tx[r].op /\ t.pc = "save"
    BY DEF Sane, Handler
  <2> HIDE DEF t
  <2> QED BY <2>1, <2>2, ChangesOwn
<1>9. CASE SaveForm(r) \/ FailEntry(r)
  <2>1. PICK stored \in BOOLEAN : Goes(r, Entry(r, stored)) /\ tx[r].op \in CentreOps
    BY <1>9 DEF SaveForm, FailEntry, At, CentreOps
  <2>2. Handler(Entry(r, stored)) /\ Entry(r, stored).op \in CentreOps
    BY <1>2 DEF Entry, CentreOps
  <2> QED BY <2>1, <2>2, GoesOwn
<1>10. CASE EndOfForms(r) \/ SavePublic(r) \/ softDelete(r) \/ updateDocument(r) \/ FailCentre(r)
  BY <1>10, EndsOwn DEF EndOfForms, SavePublic, softDelete, updateDocument, FailCentre, At, CentreOps
<1> QED BY <1>3, <1>4, <1>5, <1>6, <1>7, <1>8, <1>9, <1>10 DEF CentreStep

LEMMA StructureOwn ==
    ASSUME NEW r \in Requests, Sane, StructureStep(r)
    PROVE  Sane' /\ Own(StructureOps)
<1>1. ASSUME NEW e, NEW email, NEW post, NEW checks, StartHire(r, e, email, post, checks)
      PROVE  Sane' /\ Own(StructureOps)
  <2> DEFINE t == [op |-> "hire", pc |-> "check", e |-> e, email |-> email, post |-> post,
              checks |-> checks, sure |-> FALSE, code |-> None, alone |-> FALSE]
  <2>1. Handler(t) /\ t.op \in StructureOps
    BY DEF Handler, StructureOps
  <2>2. Begin(r, t)
    BY <1>1 DEF StartHire
  <2> HIDE DEF t
  <2> QED BY <2>1, <2>2, StartsOwn
<1>2. ASSUME NEW e, NEW change, StartEdit(r, e, change) PROVE Sane' /\ Own(StructureOps)
  <2> DEFINE t == [op |-> "edit", pc |-> "validate", e |-> e, row |-> employees[e], change |-> change,
              sure |-> FALSE]
  <2>1. Handler(t) /\ t.op \in StructureOps
    BY DEF Handler, StructureOps
  <2>2. Begin(r, t)
    BY <1>2 DEF StartEdit
  <2> HIDE DEF t
  <2> QED BY <2>1, <2>2, StartsOwn
<1>3. ASSUME NEW list, updateDepartments(r, list) PROVE Sane' /\ Own(StructureOps)
  <2> DEFINE t == [op |-> "departments", pc |-> "save", list |-> list, seen |-> Listed(departments)]
  <2>1. Handler(t) /\ t.op \in StructureOps
    BY DEF Handler, StructureOps
  <2>2. Begin(r, t)
    BY <1>3 DEF updateDepartments
  <2> HIDE DEF t
  <2> QED BY <2>1, <2>2, StartsOwn
<1>4. ASSUME NEW list, NEW pairs, updateDesignations(r, list, pairs) PROVE Sane' /\ Own(StructureOps)
  <2> DEFINE t == [op |-> "designations", pc |-> "save", list |-> list, seen |-> Listed(designations),
                 pairs |-> pairs]
  <2>1. Handler(t) /\ t.op \in StructureOps
    BY DEF Handler, StructureOps
  <2>2. Begin(r, t)
    BY <1>4 DEF updateDesignations
  <2> HIDE DEF t
  <2> QED BY <2>1, <2>2, StartsOwn
<1>5. CASE CheckEmail(r)
  <2> DEFINE t == [tx[r] EXCEPT !.checks = Tail(@)]
  <2>1. Goes(r, t) /\ tx[r].op \in StructureOps /\ tx[r].pc = "check"
    BY <1>5 DEF CheckEmail, Checking, At, StructureOps
  <2>2. DOMAIN t = DOMAIN tx[r] /\ t.op = tx[r].op /\ t.pc = tx[r].pc
    BY DEF Sane, Handler
  <2> HIDE DEF t
  <2> QED BY <2>1, <2>2, ChangesOwn
<1>6. CASE CheckPost(r)
  <2> DEFINE t == [tx[r] EXCEPT !.checks = Tail(@), !.sure = TRUE]
  <2>1. Goes(r, t) /\ tx[r].op \in StructureOps /\ tx[r].pc = "check"
    BY <1>6 DEF CheckPost, Checking, At, StructureOps
  <2>2. DOMAIN t = DOMAIN tx[r] /\ t.op = tx[r].op /\ t.pc = tx[r].pc
    BY DEF Sane, Handler
  <2> HIDE DEF t
  <2> QED BY <2>1, <2>2, ChangesOwn
<1>7. CASE ValidateEdit(r)
  <2> DEFINE t == [tx[r] EXCEPT !.pc = "save", !.sure = "post" \in DOMAIN tx[r].change]
  <2>1. Goes(r, t) /\ tx[r].op \in StructureOps
    BY <1>7 DEF ValidateEdit, At, StructureOps
  <2>2. DOMAIN t = DOMAIN tx[r] /\ t.op = tx[r].op /\ t.pc = "save"
    BY DEF Sane, Handler
  <2> HIDE DEF t
  <2> QED BY <2>1, <2>2, ChangesOwn
<1>9. CASE TakeCode(r)
  <2> DEFINE alone == \A o \in Requests \ {r} : ~At(o, "hire", "insert")
             u == [tx[r] EXCEPT !.pc = "insert", !.code = generateEmployeeCode, !.alone = alone]
  <2>1. tx[r].op = "hire" /\ tx[r].pc = "check"
    BY <1>9 DEF TakeCode, At
  <2>2. Handler(u) /\ u.op = "hire"
    BY <2>1 DEF Sane, Handler
  <2>3. tx' = [q \in Requests |-> IF q = r THEN u
                                  ELSE IF Hiring(q) THEN [tx[q] EXCEPT !.alone = FALSE] ELSE tx[q]]
    BY <1>9 DEF TakeCode
  <2>4. \A q \in Requests : Hiring(q) =>
            LET v == [tx[q] EXCEPT !.alone = FALSE] IN Handler(v) /\ v.op = "hire"
    BY DEF Sane, Handler, Hiring
  <2> HIDE DEF u
  <2>5. tx' = [q \in Requests |-> tx'[q]]
    BY <2>3
  <2>6. \A q \in Requests : \/ tx'[q] = tx[q]
                            \/ Handler(tx'[q]) /\ {tx[q].op, tx'[q].op} \subseteq StructureOps \cup {"none"}
    BY <2>1, <2>2, <2>3, <2>4 DEF StructureOps, Hiring
  <2> QED BY <2>5, <2>6, MarksOwn
<1>10. ASSUME ListsSaved(r), tx[r].op \in StructureOps PROVE Sane' /\ Own(StructureOps)
  <2>1. tx' = [q \in Requests |-> IF q = r THEN Idle
                ELSE IF "sure" \in DOMAIN tx[q] THEN [tx[q] EXCEPT !.sure = FALSE] ELSE tx[q]]
    BY <1>10 DEF ListsSaved
  <2>2. \A q \in Requests : "sure" \in DOMAIN tx[q] =>
            LET v == [tx[q] EXCEPT !.sure = FALSE] IN Handler(v) /\ v.op = tx[q].op /\ v.op \in {"hire", "edit"}
    BY DEF Sane, Handler
  <2>3. tx' = [q \in Requests |-> tx'[q]]
    BY <2>1
  <2>4. \A q \in Requests : \/ tx'[q] = tx[q]
                            \/ Handler(tx'[q]) /\ {tx[q].op, tx'[q].op} \subseteq StructureOps \cup {"none"}
    BY <1>10, <2>1, <2>2, IdleHandler DEF StructureOps
  <2> QED BY <2>3, <2>4, MarksOwn
<1>11. CASE SaveDepartments(r) \/ SaveDesignations(r)
  BY <1>10, <1>11 DEF SaveDepartments, SaveDesignations, At, StructureOps
<1>12. CASE InsertEmployee(r) \/ SaveEmployee(r) \/ FailStructure(r)
  BY <1>12, EndsOwn DEF InsertEmployee, SaveEmployee, FailStructure, At, StructureOps
<1> QED
  BY <1>1, <1>2, <1>3, <1>4, <1>5, <1>6, <1>7, <1>9, <1>11, <1>12
     DEF StructureStep, create, createHrOnboarding, updateHrOnboarding, transfer, updateEmployee

LEMMA SettingsOwn ==
    ASSUME NEW r \in Requests, Sane, SettingsStep(r)
    PROVE  Sane' /\ Own(SettingsOps)
<1>1. ASSUME getAttendanceSettings(r) PROVE Sane' /\ Own(SettingsOps)
  <2> DEFINE t == [op |-> "move", pc |-> "count", items |-> legacy]
  <2>1. Handler(t) /\ t.op \in SettingsOps
    BY DEF Handler, SettingsOps
  <2>2. Begin(r, t)
    BY <1>1 DEF getAttendanceSettings
  <2> HIDE DEF t
  <2> QED BY <2>1, <2>2, StartsOwn
<1>2. ASSUME NEW list, updateAttendanceSettings(r, list) PROVE Sane' /\ Own(SettingsOps)
  <2> DEFINE t == [op |-> "shifts", pc |-> "read", list |-> list, seen |-> {}]
  <2>1. Handler(t) /\ t.op \in SettingsOps
    BY DEF Handler, SettingsOps
  <2>2. Begin(r, t)
    BY <1>2 DEF updateAttendanceSettings
  <2> HIDE DEF t
  <2> QED BY <2>1, <2>2, StartsOwn
<1>3. ASSUME NEW list, updateLocationConfigurations(r, list) PROVE Sane' /\ Own(SettingsOps)
  <2> DEFINE t == [op |-> "locations", pc |-> "check", list |-> list, gone |-> {}]
  <2>1. Handler(t) /\ t.op \in SettingsOps
    BY DEF Handler, SettingsOps
  <2>2. Begin(r, t)
    BY <1>3 DEF updateLocationConfigurations
  <2> HIDE DEF t
  <2> QED BY <2>1, <2>2, StartsOwn
<1>4. ASSUME NEW list, updateLeaveConfigurations(r, list) PROVE Sane' /\ Own(SettingsOps)
  <2> DEFINE t == [op |-> "leaves", pc |-> "read", list |-> list, seen |-> {}]
  <2>1. Handler(t) /\ t.op \in SettingsOps
    BY DEF Handler, SettingsOps
  <2>2. Begin(r, t)
    BY <1>4 DEF updateLeaveConfigurations
  <2> HIDE DEF t
  <2> QED BY <2>1, <2>2, StartsOwn
<1>5. CASE resolveShifts(r)
  <2> DEFINE t == [tx[r] EXCEPT !.pc = "save"]
  <2>1. (Goes(r, t) \/ Ends(r)) /\ tx[r].op \in SettingsOps
    BY <1>5 DEF resolveShifts, At, SettingsOps
  <2>2. DOMAIN t = DOMAIN tx[r] /\ t.op = tx[r].op /\ t.pc = "save"
    BY DEF Sane, Handler
  <2> HIDE DEF t
  <2> QED BY <2>1, <2>2, ChangesOwn, EndsOwn
<1>6. CASE ReadShifts(r)
  <2> DEFINE t == [tx[r] EXCEPT !.pc = "save", !.seen = shifts]
  <2>1. Goes(r, t) /\ tx[r].op \in SettingsOps
    BY <1>6 DEF ReadShifts, At, SettingsOps
  <2>2. DOMAIN t = DOMAIN tx[r] /\ t.op = tx[r].op /\ t.pc = "save"
    BY DEF Sane, Handler
  <2> HIDE DEF t
  <2> QED BY <2>1, <2>2, ChangesOwn
<1>7. CASE CheckBranches(r)
  <2> DEFINE t == [tx[r] EXCEPT !.pc = "save", !.gone = locations \ tx[r].list]
  <2>1. Goes(r, t) /\ tx[r].op \in SettingsOps
    BY <1>7 DEF CheckBranches, At, SettingsOps
  <2>2. DOMAIN t = DOMAIN tx[r] /\ t.op = tx[r].op /\ t.pc = "save"
    BY DEF Sane, Handler
  <2> HIDE DEF t
  <2> QED BY <2>1, <2>2, ChangesOwn
<1>8. CASE ReadLeaveTypes(r)
  <2> DEFINE t == [tx[r] EXCEPT !.pc = "save", !.seen = Configured]
  <2>1. Goes(r, t) /\ tx[r].op \in SettingsOps
    BY <1>8 DEF ReadLeaveTypes, At, SettingsOps
  <2>2. DOMAIN t = DOMAIN tx[r] /\ t.op = tx[r].op /\ t.pc = "save"
    BY DEF Sane, Handler
  <2> HIDE DEF t
  <2> QED BY <2>1, <2>2, ChangesOwn
<1>9. CASE migrateJsonShiftsToDatabase(r) \/ SaveShifts(r) \/ SaveBranches(r)
             \/ SaveLeaveTypes(r) \/ FailSettings(r)
  BY <1>9, EndsOwn DEF migrateJsonShiftsToDatabase, SaveShifts, SaveBranches, SaveLeaveTypes, FailSettings, At, SettingsOps
<1> QED BY <1>1, <1>2, <1>3, <1>4, <1>5, <1>6, <1>7, <1>8, <1>9 DEF SettingsStep

LEMMA CalendarOwn ==
    ASSUME NEW r \in Requests, Sane, CalendarStep(r)
    PROVE  Sane' /\ Own(CalendarOps)
<1>1. ASSUME NEW item, createHoliday(r, item) PROVE Sane' /\ Own(CalendarOps)
  <2> DEFINE t == [op |-> "holiday", pc |-> "calendar", item |-> item]
  <2>1. Handler(t) /\ t.op \in CalendarOps
    BY DEF Handler, CalendarOps
  <2>2. Begin(r, t)
    BY <1>1 DEF createHoliday, StartHoliday
  <2> HIDE DEF t
  <2> QED BY <2>1, <2>2, StartsOwn
<1>2. ASSUME NEW file, bulkUpsertHolidays(r, file) PROVE Sane' /\ Own(CalendarOps)
  <2> DEFINE t == [op |-> "import", pc |-> "calendar", items |-> Deduped(file),
                   keys |-> {file[i].key : i \in DOMAIN file}, over |-> <<>>, alone |-> FALSE]
  <2>1. Handler(t) /\ t.op \in CalendarOps
    BY DEF Handler, CalendarOps
  <2>2. Begin(r, t)
    BY <1>2 DEF bulkUpsertHolidays, StartHoliday
  <2> HIDE DEF t
  <2> QED BY <2>1, <2>2, StartsOwn
<1>3. ASSUME publishCalendar(r) PROVE Sane' /\ Own(CalendarOps)
  <2> DEFINE t == [op |-> "publish", pc |-> "calendar"]
  <2>1. Handler(t) /\ t.op \in CalendarOps
    BY DEF Handler, CalendarOps
  <2>2. Begin(r, t)
    BY <1>3 DEF publishCalendar, StartHoliday
  <2> HIDE DEF t
  <2> QED BY <2>1, <2>2, StartsOwn
<1>4. ASSUME NEW i, NEW item, updateHoliday(r, i, item) PROVE Sane' /\ Own(CalendarOps)
  <2> DEFINE t == [op |-> "change", pc |-> "save", id |-> i, item |-> item]
  <2>1. Handler(t) /\ t.op \in CalendarOps
    BY DEF Handler, CalendarOps
  <2>2. Begin(r, t)
    BY <1>4 DEF updateHoliday, StartHoliday
  <2> HIDE DEF t
  <2> QED BY <2>1, <2>2, StartsOwn
<1>5. ASSUME NEW i, deleteHoliday(r, i) PROVE Sane' /\ Own(CalendarOps)
  <2> DEFINE t == [op |-> "remove", pc |-> "save", id |-> i]
  <2>1. Handler(t) /\ t.op \in CalendarOps
    BY DEF Handler, CalendarOps
  <2>2. Begin(r, t)
    BY <1>5 DEF deleteHoliday, StartHoliday
  <2> HIDE DEF t
  <2> QED BY <2>1, <2>2, StartsOwn
<1>6. CASE FindCalendar(r)
  <2> DEFINE t == [tx[r] EXCEPT !.pc = IF calendar = None THEN "make" ELSE "save"]
  <2>1. Goes(r, t) /\ tx[r].op \in CalendarOps
    BY <1>6 DEF FindCalendar, CalendarOps
  <2>2. Handler(t) /\ t.op = tx[r].op
    BY <2>1 DEF Sane, Handler
  <2> HIDE DEF t
  <2> QED BY <2>1, <2>2, GoesOwn
<1>7. CASE MakeCalendar(r)
  <2> DEFINE t == [tx[r] EXCEPT !.pc = "save"]
  <2>1. Goes(r, t) /\ tx[r].op \in CalendarOps
    BY <1>7 DEF MakeCalendar, Sane, Handler
  <2>2. DOMAIN t = DOMAIN tx[r] /\ t.op = tx[r].op /\ t.pc = "save"
    BY DEF Sane, Handler
  <2> HIDE DEF t
  <2> QED BY <2>1, <2>2, ChangesOwn
<1>8. CASE ReadHolidays(r)
  <2>1. PICK over : Goes(r, [tx[r] EXCEPT !.pc = "write", !.over = over, !.alone = TRUE])
    BY <1>8 DEF ReadHolidays
  <2> DEFINE t == [tx[r] EXCEPT !.pc = "write", !.over = over, !.alone = TRUE]
  <2>2. DOMAIN t = DOMAIN tx[r] /\ t.op = tx[r].op /\ t.pc = "write"
    BY DEF Sane, Handler
  <2>3. tx[r].op \in CalendarOps
    BY <1>8 DEF ReadHolidays, At, CalendarOps
  <2>4. Goes(r, t)
    BY <2>1
  <2> HIDE DEF t
  <2> QED BY <2>2, <2>3, <2>4, ChangesOwn
<1>9. ASSUME EndsWriting(r), tx[r].op \in CalendarOps PROVE Sane' /\ Own(CalendarOps)
  <2>1. tx' = [q \in Requests |-> IF q = r THEN Idle
                ELSE IF At(q, "import", "write") /\ tx[q].keys \cap Written(holidays') # {}
                THEN [tx[q] EXCEPT !.alone = FALSE] ELSE tx[q]]
    BY <1>9 DEF EndsWriting
  <2>2. \A q \in Requests : At(q, "import", "write") =>
            LET v == [tx[q] EXCEPT !.alone = FALSE] IN Handler(v) /\ v.op = "import"
    BY DEF Sane, Handler, At
  <2>3. tx' = [q \in Requests |-> tx'[q]]
    BY <2>1
  <2>4. \A q \in Requests : \/ tx'[q] = tx[q]
                            \/ Handler(tx'[q]) /\ {tx[q].op, tx'[q].op} \subseteq CalendarOps \cup {"none"}
    BY <1>9, <2>1, <2>2, IdleHandler DEF CalendarOps, At
  <2> QED BY <2>3, <2>4, MarksOwn
<1>10. CASE SaveHoliday(r) \/ ChangeHoliday(r) \/ RemoveHoliday(r) \/ ImportHolidays(r)
  BY <1>9, <1>10
     DEF SaveHoliday, ChangeHoliday, RemoveHoliday, ImportHolidays, WriteHolidays, At, CalendarOps
<1>11. CASE PublishCalendar(r) \/ FailHoliday(r)
  BY <1>11, EndsOwn DEF PublishCalendar, FailHoliday, At, CalendarOps
<1> QED
  BY <1>1, <1>2, <1>3, <1>4, <1>5, <1>6, <1>7, <1>8, <1>10, <1>11 DEF CalendarStep

(* The handlers of the catalogue start from a record that is complete.     *)
LEMMA ReadsOwn ==
    ASSUME NEW r \in Requests, NEW t, Sane, Reads(r, t), Handler(t), t.op \in CatalogOps
    PROVE  Sane' /\ Own(CatalogOps)
<1> DEFINE u == [t EXCEPT !.alone = \A o \in Requests : ~Overlap(o, t.ids)]
<1>1. tx[r].pc = "idle" /\ tx' = [q \in Requests |->
          IF q = r THEN u ELSE IF Overlap(q, t.ids) THEN [tx[q] EXCEPT !.alone = FALSE] ELSE tx[q]]
  BY DEF Reads
<1>2. Handler(u) /\ u.op \in CatalogOps
  BY DEF Handler
<1>3. \A q \in Requests : Overlap(q, t.ids) =>
          LET v == [tx[q] EXCEPT !.alone = FALSE] IN Handler(v) /\ v.op = tx[q].op /\ v.op \in CatalogOps
  BY DEF Sane, Handler, Overlap
<1>4. tx[r].op = "none"
  BY <1>1 DEF Sane, Handler
<1> HIDE DEF u
<1>5. tx' = [q \in Requests |-> tx'[q]]
  BY <1>1
<1>6. \A q \in Requests : \/ tx'[q] = tx[q]
                          \/ Handler(tx'[q]) /\ {tx[q].op, tx'[q].op} \subseteq CatalogOps \cup {"none"}
  BY <1>1, <1>2, <1>3, <1>4
<1> QED BY <1>5, <1>6, MarksOwn

LEMMA CatalogOwn ==
    ASSUME NEW r \in Requests, Sane, CatalogStep(r)
    PROVE  Sane' /\ Own(CatalogOps)
<1>1. ASSUME NEW level, NEW name, NEW up, createRow(r, level, name, up) PROVE Sane' /\ Own(CatalogOps)
  <2> DEFINE t == [op |-> "create", pc |-> "save",
                   row |-> SkillRow(level, name, up, CategoryAt(level, up)),
                   ids |-> {up} \ {None}, alone |-> TRUE]
  <2>1. Handler(t) /\ t.op \in CatalogOps
    BY DEF Handler, CatalogOps
  <2>2. Reads(r, t)
    BY <1>1 DEF createRow
  <2> HIDE DEF t
  <2> QED BY <2>1, <2>2, ReadsOwn
<1>2. ASSUME NEW id, NEW change, updateRow(r, id, change) PROVE Sane' /\ Own(CatalogOps)
  <2>1. PICK row, ids : Reads(r, [op |-> "update", pc |-> "save", id |-> id, read |-> rows[id], row |-> row,
                                  ids |-> ids, alone |-> TRUE])
    BY <1>2 DEF updateRow
  <2> DEFINE t == [op |-> "update", pc |-> "save", id |-> id, read |-> rows[id], row |-> row,
                   ids |-> ids, alone |-> TRUE]
  <2>2. Handler(t) /\ t.op \in CatalogOps
    BY DEF Handler, CatalogOps
  <2>3. Reads(r, t)
    BY <2>1
  <2> HIDE DEF t
  <2> QED BY <2>2, <2>3, ReadsOwn
<1>3. ASSUME NEW id, deleteRow(r, id) PROVE Sane' /\ Own(CatalogOps)
  <2> DEFINE t == [op |-> "delete", pc |-> "save", id |-> id, ids |-> {id}, alone |-> TRUE]
  <2>1. Handler(t) /\ t.op \in CatalogOps
    BY DEF Handler, CatalogOps
  <2>2. Reads(r, t)
    BY <1>3 DEF deleteRow
  <2> HIDE DEF t
  <2> QED BY <2>1, <2>2, ReadsOwn
<1>4. ASSUME ensureDefaultCatalog(r) PROVE Sane' /\ Own(CatalogOps)
  <2> DEFINE t == [op |-> "defaults", pc |-> "save", level |-> Category, last |-> None, category |-> None,
                   ids |-> {}, alone |-> TRUE]
  <2>1. Handler(t) /\ t.op \in CatalogOps
    BY DEF Handler, CatalogOps
  <2>2. Reads(r, t)
    BY <1>4 DEF ensureDefaultCatalog
  <2> HIDE DEF t
  <2> QED BY <2>1, <2>2, ReadsOwn
<1>5. CASE SeedRow(r)
  <2> DEFINE t == [tx[r] EXCEPT !.level = @ + 1, !.last = Len(rows) + 1, !.ids = @ \cup {Len(rows) + 1},
                                !.category = IF tx[r].level = Category THEN Len(rows) + 1 ELSE @]
  <2>1. Goes(r, t) /\ tx[r].op \in CatalogOps /\ tx[r].pc = "save"
    BY <1>5 DEF SeedRow, At, CatalogOps
  <2>2. DOMAIN t = DOMAIN tx[r] /\ t.op = tx[r].op /\ t.pc = tx[r].pc
    BY DEF Sane, Handler
  <2> HIDE DEF t
  <2> QED BY <2>1, <2>2, ChangesOwn
<1>6. CASE InsertRow(r) \/ UpdateRow(r) \/ RemoveRow(r) \/ EndOfCatalog(r)
  BY <1>6, EndsOwn DEF InsertRow, UpdateRow, RemoveRow, EndOfCatalog, At, CatalogOps
<1> QED
  BY <1>1, <1>2, <1>3, <1>4, <1>5, <1>6
     DEF CatalogStep, MasterStep, OwnSkillsStep, createCategory, createSubcategory, createSkill, addSkill,
         updateCategory, updateSubcategory, updateSkill, updateHeldSkill, deleteCategory, deleteSubcategory,
         deleteSkill, removeSkill

LEMMA RoutingOwn ==
    ASSUME NEW r \in Requests, Sane, RoutingStep(r)
    PROVE  Sane' /\ Own(RoutingOps)
<1>1. ASSUME NEW e, NEW kind, submitForApproval(r, e, kind) PROVE Sane' /\ Own(RoutingOps)
  <2>1. PICK to : Begin(r, [op |-> "ask", pc |-> "save", q |-> [kind |-> kind, of |-> e, to |-> to]])
    BY <1>1 DEF submitForApproval
  <2> DEFINE t == [op |-> "ask", pc |-> "save", q |-> [kind |-> kind, of |-> e, to |-> to]]
  <2>2. Handler(t) /\ t.op \in RoutingOps
    BY DEF Handler, RoutingOps
  <2>3. Begin(r, t)
    BY <2>1
  <2> HIDE DEF t
  <2> QED BY <2>2, <2>3, StartsOwn
<1>2. CASE SaveRequest(r)
  BY <1>2, EndsOwn DEF SaveRequest, At, RoutingOps
<1> QED BY <1>1, <1>2 DEF RoutingStep

LEMMA SaneInitially == Init => Sane
BY IdleHandler DEF Init, PortalInit, Sane

(* A request of the portal is for one part, and leaves the state and the   *)
(* handlers of the others alone.                                           *)
LEMMA RequestsApart ==
    ASSUME NEW r \in Requests, Sane, Handle(r)
    PROVE  /\ Sane'
           /\ \/ /\ FilesStep(r) /\ Own(FileOps)
                 /\ UNCHANGED <<centreVars, structureVars, settingsVars, calendarVars, catalogVars, routingVars>>
              \/ /\ CentreStep(r) /\ Own(CentreOps)
                 /\ UNCHANGED <<structureVars, settingsVars, calendarVars, catalogVars, routingVars>>
              \/ /\ StructureStep(r) /\ Own(StructureOps)
                 /\ UNCHANGED <<documentVars, settingsVars, calendarVars, catalogVars, routingVars>>
              \/ /\ SettingsStep(r) /\ Own(SettingsOps)
                 /\ UNCHANGED <<documentVars, structureVars, calendarVars, catalogVars, routingVars>>
              \/ /\ CalendarStep(r) /\ Own(CalendarOps)
                 /\ UNCHANGED <<documentVars, structureVars, catalogVars, routingVars>>
              \/ /\ CatalogStep(r) /\ Own(CatalogOps)
                 /\ UNCHANGED <<documentVars, structureVars, settingsVars, calendarVars, routingVars>>
              \/ /\ RoutingStep(r) /\ Own(RoutingOps)
                 /\ UNCHANGED <<documentVars, structureVars, settingsVars, calendarVars, catalogVars>>
<1> USE DEF Handle, DocumentsStep, YearStep, documentVars, yearVars
<1>1. CASE DocumentsStep(r) /\ UNCHANGED <<structureVars, yearVars, catalogVars, routingVars>>
  BY <1>1, FilesOwn, CentreOwn
<1>2. CASE StructureStep(r) /\ UNCHANGED <<documentVars, yearVars, catalogVars, routingVars>>
  BY <1>2, StructureOwn
<1>3. CASE YearStep(r) /\ UNCHANGED <<documentVars, structureVars, catalogVars, routingVars>>
  BY <1>3, SettingsOwn, CalendarOwn
<1>4. CASE CatalogStep(r) /\ UNCHANGED <<documentVars, structureVars, yearVars, routingVars>>
  BY <1>4, CatalogOwn
<1>5. CASE RoutingStep(r) /\ UNCHANGED <<documentVars, structureVars, yearVars, catalogVars>>
  BY <1>5, RoutingOwn
<1> QED BY <1>1, <1>2, <1>3, <1>4, <1>5

LEMMA OthersApart ==
    ASSUME Sane, Outside
    PROVE  Sane' /\ tx' = tx
<1>1. tx' = tx
  <2>1. CASE \E m \in UploadModules, c \in Categories : uploadFile(m, c)
    BY <2>1 DEF uploadFile, portalVars
  <2>2. CASE \E l \in LeaveTypes : requestLeave(l)
    BY <2>2 DEF requestLeave, portalVars
  <2>3. CASE StaffStep
    BY <2>3 DEF StaffStep, decide, tomorrow, Change, reportTo, reportToNobody, becomes, movesTo,
                assignRoles, updateRolePermissions, portalVars
  <2> QED BY <2>1, <2>2, <2>3 DEF Outside
<1> QED BY <1>1 DEF Sane

LEMMA SaneKept == Sane /\ [Next]_vars => Sane'
<1> SUFFICES ASSUME Sane, [Next]_vars PROVE Sane'
  OBVIOUS
<1>1. CASE UNCHANGED vars
  BY <1>1 DEF vars, portalVars, Sane
<1> QED BY <1>1, RequestsApart, OthersApart, SMTT(30) DEF Next

LEMMA ScenarioStays == [Next]_vars => UNCHANGED scenario
<1> SUFFICES ASSUME [Next]_vars PROVE UNCHANGED scenario
  OBVIOUS
<1> USE DEF Goes, Begin, Ends, portalVars
<1>1. ASSUME NEW r \in Requests, FilesStep(r) PROVE UNCHANGED scenario
  BY <1>1 DEF FilesStep, deleteLine, attachReceipt, reuseReceipt, createLeave, finalizeProfilePhoto,
     updateOrgProfile, updateDocuments, copyObject, deleteObject, cleanupExpenseReceipt, CommitForm, FailForm,
     StartForm, Does, purgeOrganizationAssets, deleteAllUnderPrefix, ClearReferences, FailPurge
<1>2. ASSUME NEW r \in Requests, CentreStep(r) PROVE UNCHANGED scenario
  BY <1>2 DEF CentreStep, StartCentre, uploadForm16, uploadForm16Zip, FindForm, RemoveForm, PutForm, SaveForm, FailEntry,
     EndOfForms, uploadPublicDocument, SavePublic, findDocumentOrFail, softDelete, updateDocument, FailCentre
<1>3. ASSUME NEW r \in Requests, StructureStep(r) PROVE UNCHANGED scenario
  BY <1>3 DEF StructureStep, create, createHrOnboarding, StartHire, updateHrOnboarding, updateEmployee, transfer,
     StartEdit, CheckEmail, CheckPost, TakeCode, InsertEmployee, ValidateEdit, SaveEmployee, updateDepartments,
     updateDesignations, SaveDepartments, SaveDesignations, ListsSaved, FailStructure
<1>4. ASSUME NEW r \in Requests, SettingsStep(r) PROVE UNCHANGED scenario
  BY <1>4 DEF SettingsStep, getAttendanceSettings, resolveShifts, migrateJsonShiftsToDatabase,
     updateAttendanceSettings, ReadShifts, SaveShifts, updateLocationConfigurations, CheckBranches, SaveBranches,
     updateLeaveConfigurations, ReadLeaveTypes, SaveLeaveTypes, FailSettings
<1>5. ASSUME NEW r \in Requests, CalendarStep(r) PROVE UNCHANGED scenario
  BY <1>5 DEF CalendarStep, createHoliday, bulkUpsertHolidays, deleteHoliday, updateHoliday, publishCalendar,
     StartHoliday, FindCalendar, MakeCalendar, PublishCalendar, SaveHoliday, ChangeHoliday, RemoveHoliday,
     ReadHolidays, ImportHolidays, WriteHolidays, EndsWriting, FailHoliday
<1>6. ASSUME NEW r \in Requests, CatalogStep(r) PROVE UNCHANGED scenario
  <2>1. ASSUME NEW t, Reads(r, t) PROVE UNCHANGED scenario
    BY <2>1 DEF Reads
  <2>2. ASSUME NEW level, NEW name, NEW up, createRow(r, level, name, up) PROVE UNCHANGED scenario
    BY <2>1, <2>2 DEF createRow
  <2>3. ASSUME NEW id, NEW change, updateRow(r, id, change) PROVE UNCHANGED scenario
    BY <2>1, <2>3 DEF updateRow
  <2>4. ASSUME NEW id, deleteRow(r, id) PROVE UNCHANGED scenario
    BY <2>1, <2>4 DEF deleteRow
  <2>5. CASE MasterStep(r) \/ OwnSkillsStep(r)
    BY <2>2, <2>3, <2>4, <2>5
       DEF MasterStep, OwnSkillsStep, createCategory, createSubcategory, createSkill, addSkill, updateCategory,
           updateSubcategory, updateSkill, updateHeldSkill, deleteCategory, deleteSubcategory, deleteSkill,
           removeSkill
  <2>6. CASE ensureDefaultCatalog(r)
    BY <2>1, <2>6 DEF ensureDefaultCatalog
  <2>7. CASE InsertRow(r) \/ UpdateRow(r) \/ RemoveRow(r) \/ SeedRow(r) \/ EndOfCatalog(r)
    BY <2>7 DEF InsertRow, UpdateRow, RemoveRow, SeedRow, EndOfCatalog
  <2> QED BY <1>6, <2>5, <2>6, <2>7 DEF CatalogStep
<1>7. ASSUME NEW r \in Requests, RoutingStep(r) PROVE UNCHANGED scenario
  BY <1>7 DEF RoutingStep, submitForApproval, SaveRequest
<1>8. CASE Outside
  BY <1>8 DEF Outside, uploadFile, requestLeave, StaffStep, decide, tomorrow, Change, reportTo, reportToNobody,
     becomes, movesTo, assignRoles, updateRolePermissions
<1>9. CASE UNCHANGED vars
  BY <1>9 DEF vars
<1> QED
  BY <1>1, <1>2, <1>3, <1>4, <1>5, <1>6, <1>7, <1>8, <1>9 DEF Next, Handle, DocumentsStep, YearStep

(* The handlers of these kinds go on as they were.                         *)
Untouched(K) == \A q \in Requests : {tx[q].op, tx'[q].op} \cap K # {} => tx'[q] = tx[q]

LEMMA DocumentsApart ==
    ASSUME Sane, [Next]_vars
    PROVE  \/ \E r \in Requests : FilesStep(r) /\ UNCHANGED centreVars /\ Untouched(CentreOps)
           \/ \E m \in UploadModules, c \in Categories : uploadFile(m, c) /\ UNCHANGED centreVars /\ tx' = tx
           \/ \E r \in Requests : CentreStep(r) /\ Untouched(FileOps)
           \/ UNCHANGED documentVars /\ Untouched(FileOps) /\ Untouched(CentreOps)
<1> USE DEF Own, Untouched, documentVars
<1>1. CASE UNCHANGED vars
  BY <1>1 DEF vars, portalVars
<1>2. CASE Outside
  <2>1. tx' = tx
    BY <1>2, OthersApart
  <2>2. CASE \E l \in LeaveTypes : requestLeave(l) /\ UNCHANGED documentVars
    BY <2>1, <2>2
  <2> QED BY <1>2, <2>1, <2>2 DEF Outside
<1>3. ASSUME NEW r \in Requests, Handle(r)
      PROVE  \/ FilesStep(r) /\ UNCHANGED centreVars /\ Untouched(CentreOps)
             \/ CentreStep(r) /\ Untouched(FileOps)
             \/ UNCHANGED documentVars /\ Untouched(FileOps) /\ Untouched(CentreOps)
  BY <1>3, RequestsApart
     DEF FileOps, CentreOps, StructureOps, SettingsOps, CalendarOps, CatalogOps, RoutingOps
<1> QED BY <1>1, <1>2, <1>3 DEF Next

LEMMA StructureApart ==
    ASSUME Sane, [Next]_vars
    PROVE  \/ \E r \in Requests : StructureStep(r)
           \/ UNCHANGED structureVars /\ Untouched(StructureOps)
<1> USE DEF Own, Untouched
<1>1. CASE UNCHANGED vars
  BY <1>1 DEF vars, portalVars
<1>2. CASE Outside
  BY <1>2, OthersApart DEF Outside
<1>3. ASSUME NEW r \in Requests, Handle(r)
      PROVE  StructureStep(r) \/ (UNCHANGED structureVars /\ Untouched(StructureOps))
  BY <1>3, RequestsApart
     DEF FileOps, CentreOps, StructureOps, SettingsOps, CalendarOps, CatalogOps, RoutingOps
<1> QED BY <1>1, <1>2, <1>3 DEF Next

LEMMA SettingsApart ==
    ASSUME Sane, [Next]_vars
    PROVE  \/ \E r \in Requests : SettingsStep(r)
           \/ \E l \in LeaveTypes : requestLeave(l)
           \/ UNCHANGED settingsVars /\ Untouched(SettingsOps)
<1> USE DEF Own, Untouched
<1>1. CASE UNCHANGED vars
  BY <1>1 DEF vars, portalVars, yearVars
<1>2. CASE Outside
  BY <1>2, OthersApart DEF Outside, yearVars
<1>3. ASSUME NEW r \in Requests, Handle(r)
      PROVE  SettingsStep(r) \/ (UNCHANGED settingsVars /\ Untouched(SettingsOps))
  <2>1. CalendarStep(r) => UNCHANGED settingsVars
    <3> USE DEF CalendarStep, StartHoliday, createHoliday, bulkUpsertHolidays, publishCalendar,
            updateHoliday, deleteHoliday, FindCalendar, MakeCalendar, PublishCalendar, SaveHoliday,
            ChangeHoliday, RemoveHoliday, WriteHolidays, EndsWriting, ReadHolidays, ImportHolidays, FailHoliday
    <3> QED OBVIOUS
  <2> HIDE DEF Own, Untouched
  <2>2. \/ SettingsStep(r)
        \/ /\ UNCHANGED settingsVars
           /\ \/ Own(FileOps) \/ Own(CentreOps) \/ Own(StructureOps)
              \/ Own(CalendarOps) \/ Own(CatalogOps) \/ Own(RoutingOps)
    BY <1>3, <2>1, RequestsApart
  <2>3. \/ Own(FileOps) \/ Own(CentreOps) \/ Own(StructureOps)
        \/ Own(CalendarOps) \/ Own(CatalogOps) \/ Own(RoutingOps)
        => Untouched(SettingsOps)
    BY DEF Own, Untouched, FileOps, CentreOps, StructureOps, SettingsOps, CalendarOps, CatalogOps, RoutingOps
  <2> QED BY <2>2, <2>3
<1> QED BY <1>1, <1>2, <1>3 DEF Next

LEMMA CalendarApart ==
    ASSUME Sane, [Next]_vars
    PROVE  \/ \E r \in Requests : CalendarStep(r)
           \/ UNCHANGED calendarVars /\ Untouched(CalendarOps)
<1> USE DEF Own, Untouched
<1>1. CASE UNCHANGED vars
  BY <1>1 DEF vars, portalVars, yearVars
<1>2. CASE Outside
  BY <1>2, OthersApart DEF Outside, yearVars
<1>3. ASSUME NEW r \in Requests, Handle(r)
      PROVE  CalendarStep(r) \/ (UNCHANGED calendarVars /\ Untouched(CalendarOps))
  BY <1>3, RequestsApart
     DEF FileOps, CentreOps, StructureOps, SettingsOps, CalendarOps, CatalogOps, RoutingOps
<1> QED BY <1>1, <1>2, <1>3 DEF Next

LEMMA CatalogApart ==
    ASSUME Sane, [Next]_vars
    PROVE  \/ \E r \in Requests : CatalogStep(r)
           \/ UNCHANGED catalogVars /\ Untouched(CatalogOps)
<1> USE DEF Own, Untouched
<1>1. CASE UNCHANGED vars
  BY <1>1 DEF vars, portalVars
<1>2. CASE Outside
  BY <1>2, OthersApart DEF Outside
<1>3. ASSUME NEW r \in Requests, Handle(r)
      PROVE  CatalogStep(r) \/ (UNCHANGED catalogVars /\ Untouched(CatalogOps))
  BY <1>3, RequestsApart
     DEF FileOps, CentreOps, StructureOps, SettingsOps, CalendarOps, CatalogOps, RoutingOps
<1> QED BY <1>1, <1>2, <1>3 DEF Next

LEMMA RoutingApart ==
    ASSUME Sane, [Next]_vars
    PROVE  \/ \E r \in Requests : RoutingStep(r)
           \/ StaffStep
           \/ UNCHANGED routingVars /\ Untouched(RoutingOps)
<1> USE DEF Own, Untouched
<1>1. CASE UNCHANGED vars
  BY <1>1 DEF vars, portalVars
<1>2. CASE Outside
  BY <1>2, OthersApart DEF Outside
<1>3. ASSUME NEW r \in Requests, Handle(r)
      PROVE  RoutingStep(r) \/ (UNCHANGED routingVars /\ Untouched(RoutingOps))
  BY <1>3, RequestsApart
     DEF FileOps, CentreOps, StructureOps, SettingsOps, CalendarOps, CatalogOps, RoutingOps
<1> QED BY <1>1, <1>2, <1>3 DEF Next

LEMMA AtMostOne ==
    ASSUME NEW S, \A x, y \in S : x = y
    PROVE  IsFiniteSet(S) /\ Cardinality(S) <= 1
<1>1. CASE S = {}
  BY <1>1, FS_EmptySet
<1>2. ASSUME NEW x \in S PROVE IsFiniteSet(S) /\ Cardinality(S) <= 1
  <2>1. S = {x}
    OBVIOUS
  <2>2. IsFiniteSet({x}) /\ Cardinality({x}) = 1
    BY FS_Singleton
  <2>3. IsFiniteSet(S) /\ Cardinality(S) = 1
    BY ONLY <2>1, <2>2
  <2> QED BY <2>3
<1> QED BY <1>1, <1>2

-----------------------------------------------------------------------------
(* A request that waits is of one of the four kinds, and who administers   *)
(* the organization may act on all of it.                                  *)
GrantsOk ==
    /\ grants \in [Kinds -> [Roles -> [Permissions -> Scopes]]]
    /\ \A kind \in Kinds : grants[kind]["ORG_ADMIN"]["act"] = 4
RequestOk(q) == q.kind \in Kinds /\ q.of \in Staff
RoutingInv ==
    /\ Sane
    /\ GrantsOk
    /\ request # NoRequest => RequestOk(request)
    /\ \A q \in Requests : tx[q].op = "ask" => RequestOk(tx[q].q)

LEMMA SameSight ==
    ASSUME NEW q, NEW a, accessScope(a, q.kind, "read") = accessScope(a, q.kind, "act")
    PROVE  /\ Sees(a, q, "read") = Sees(a, q, "act")
           /\ SeesByName(a, q, "read") = SeesByName(a, q, "act")
           /\ WholeOrganization(a, q, "read") = WholeOrganization(a, q, "act")
<1>1. getVisibleEmployeeIds(a, q.kind, "read") = getVisibleEmployeeIds(a, q.kind, "act")
  BY DEF getVisibleEmployeeIds
<1> QED BY <1>1 DEF Sees, SeesByName, WholeOrganization

LEMMA OpenedIsListed ==
    ASSUME NEW q, q.kind \in Kinds, NEW a
    PROVE  /\ Views(a, q) => Finds(a, q)
           /\ q.kind \in {"expense", "timesheet"} => (Finds(a, q) => Views(a, q))
BY DEF Finds, Views, Kinds, findPendingApprovalRows, findPendingManagerRows, listPendingApprovals,
       findLeaveRequestForApproverRead, findRequestForApproverRead, assertCanViewAsManager,
       getTimesheetDayForApproverRead

LEMMA DecidedIsOpened ==
    ASSUME NEW q, q.kind \in Kinds, NEW a, CanDecide(a, q), ReadsWhatHeActsOn(a, q.kind)
    PROVE  Finds(a, q) /\ Views(a, q)
<1>1. PermissionsGuard(a, q.kind, "read")
  BY DEF CanDecide, PermissionsGuard, ReadsWhatHeActsOn
<1>2. /\ Sees(a, q, "read") = Sees(a, q, "act")
      /\ SeesByName(a, q, "read") = SeesByName(a, q, "act")
      /\ WholeOrganization(a, q, "read") = WholeOrganization(a, q, "act")
  BY SameSight DEF ReadsWhatHeActsOn
<1>3. Views(a, q)
  BY <1>1, <1>2 DEF CanDecide, Views, Kinds, findPendingLeaveForApprover, findPendingForApproverAct,
         assertCanActAsManager, getApprovableDay, findLeaveRequestForApproverRead,
         findRequestForApproverRead, assertCanViewAsManager, getTimesheetDayForApproverRead
<1> QED BY <1>3, OpenedIsListed

LEMMA AdministratorsDecide ==
    ASSUME GrantsOk, NEW q, q.kind = "timesheet" \/ (q.kind = "expense" /\ ScopeV2), NEW a,
           account[a] = "ACTIVE",
           \/ Permitted(a, q.kind, "act") /\ FullRoster(a)
           \/ "ORG_ADMIN" \in rolesOf[a]
    PROVE  CanDecide(a, q)
<1>1. FullRoster(a)
  BY DEF FullRoster
<1>2. Permitted(a, q.kind, "act")
  BY DEF Permitted, GrantsOk, Kinds
<1>3. Sees(a, q, "act")
  BY <1>1 DEF Sees, getVisibleEmployeeIds
<1> QED BY <1>2, <1>3 DEF CanDecide, PermissionsGuard, assertCanActAsManager, getApprovableDay

LEMMA ManagersDecide ==
    ASSUME NEW q, q.kind \in Kinds, q.of \in Staff, NEW a \in Staff, ScopeV2, ~FullRoster(a),
           account[a] = "ACTIVE", Permitted(a, q.kind, "act"), boss[q.of] = a,
           accessScope(a, q.kind, "act") = 2
    PROVE  CanDecide(a, q)
<1>1. getVisibleEmployeeIds(a, q.kind, "act") = resolveTeamScope(a)
  BY DEF getVisibleEmployeeIds, resolveVisibleEmployeeIds
<1>2. q.of \in resolveTeamScope(a) /\ resolveTeamScope(a) # None
  BY RoutingAssumption DEF resolveTeamScope
<1>3. Sees(a, q, "act") /\ SeesByName(a, q, "act")
  BY <1>1, <1>2 DEF Sees, SeesByName, Includes
<1> QED BY <1>3 DEF CanDecide, Kinds, PermissionsGuard, findPendingLeaveForApprover,
           findPendingForApproverAct, assertCanActAsManager, getApprovableDay

LEMMA RoutingInitially == Init => RoutingInv
<1> SUFFICES ASSUME Init PROVE RoutingInv
  OBVIOUS
<1>1. \A kind \in Kinds, role \in Roles : DefaultScope(kind, role) \in Scopes
  BY DEF DefaultScope, Scopes
<1>2. \A kind \in Kinds : DefaultScope(kind, "ORG_ADMIN") = 4
  BY DEF DefaultScope
<1>3. GrantsOk
  BY <1>1, <1>2 DEF Init, RoutingInit, GrantsOk, Roles, Permissions
<1> QED BY <1>3, SaneInitially DEF Init, PortalInit, RoutingInit, RoutingInv, Idle

LEMMA GrantsKept == ASSUME GrantsOk, NEW c \in GrantChoices, updateRolePermissions(c) PROVE GrantsOk'
<1>1. PICK kind \in Kinds, role \in Roles, scopes \in [Permissions -> Scopes] :
        c = [kind |-> kind, role |-> role, scopes |-> scopes]
  BY RoutingAssumption
<1>2. role # "ORG_ADMIN" /\ grants' = [grants EXCEPT ![kind] = [grants[kind] EXCEPT ![role] = scopes]]
  BY <1>1 DEF updateRolePermissions, Customizable
<1>3. PICK one : one = [grants[kind] EXCEPT ![role] = scopes]
  OBVIOUS
<1>4. one \in [Roles -> [Permissions -> Scopes]] /\ one["ORG_ADMIN"] = grants[kind]["ORG_ADMIN"]
  BY <1>1, <1>2, <1>3 DEF GrantsOk, Roles
<1>5. grants' = [grants EXCEPT ![kind] = one]
  BY <1>2, <1>3
<1> QED BY <1>4, <1>5 DEF GrantsOk

LEMMA RoutingKept == RoutingInv /\ [Next]_vars => RoutingInv'
<1> SUFFICES ASSUME RoutingInv, [Next]_vars PROVE RoutingInv'
  OBVIOUS
<1> USE DEF RoutingInv
<1>1. Sane'
  BY SaneKept
<1>2. CASE UNCHANGED routingVars /\ Untouched(RoutingOps)
  BY <1>1, <1>2 DEF routingVars, staffVars, Untouched, RoutingOps, GrantsOk, RequestOk
<1>3. CASE StaffStep
  <2>1. tx' = tx /\ (request' = request \/ request' = NoRequest)
    BY <1>3 DEF StaffStep, decide, tomorrow, Change, reportTo, reportToNobody, becomes, movesTo,
                assignRoles, updateRolePermissions, portalVars
  <2>2. grants' = grants \/ \E c \in GrantChoices : updateRolePermissions(c)
    BY <1>3 DEF StaffStep, decide, tomorrow, reportTo, reportToNobody, becomes, movesTo, assignRoles,
                staffVars
  <2>3. GrantsOk'
    BY <2>2, GrantsKept DEF GrantsOk
  <2> QED BY <1>1, <2>1, <2>3 DEF RequestOk
<1>4. ASSUME NEW r \in Requests, NEW e \in Staff, NEW kind \in Kinds, submitForApproval(r, e, kind)
      PROVE  RoutingInv'
  <2>1. PICK to : Goes(r, [op |-> "ask", pc |-> "save", q |-> [kind |-> kind, of |-> e, to |-> to]])
    BY <1>4 DEF submitForApproval, Begin
  <2>2. request' = request /\ grants' = grants
    BY <1>4 DEF submitForApproval, routingVars, staffVars
  <2> QED BY <1>1, <2>1, <2>2 DEF Goes, Sane, GrantsOk, RequestOk
<1>5. ASSUME NEW r \in Requests, SaveRequest(r) PROVE RoutingInv'
  BY <1>1, <1>5 DEF SaveRequest, At, Ends, Goes, Idle, Sane, staffVars, GrantsOk, RequestOk
<1> QED BY <1>2, <1>3, <1>4, <1>5, RoutingApart DEF RoutingStep

(* Whatever happened to employees and roles since it was sent: who opens a *)
(* waiting request finds it, who decides it on the scope he reads opens    *)
(* it, an administrator is always there to decide a claim or a day of a    *)
(* timesheet, and so is the manager of the employee where scopes are used. *)
THEOREM WaitingRequestsAreReachable == Spec => []PendingIsReachable
<1>1. RoutingInv => PendingIsReachable
  <2> SUFFICES ASSUME RoutingInv, request # NoRequest, NEW a \in Staff
               PROVE  LET kind == request.kind
                          mayAct == account[a] = "ACTIVE" /\ Permitted(a, kind, "act") IN
                      /\ Views(a, request) => Finds(a, request)
                      /\ kind \in {"expense", "timesheet"} => (Finds(a, request) => Views(a, request))
                      /\ CanDecide(a, request) /\ ReadsWhatHeActsOn(a, kind)
                         => Finds(a, request) /\ Views(a, request)
                      /\ /\ kind = "timesheet" \/ (kind = "expense" /\ ScopeV2)
                         /\ \/ mayAct /\ FullRoster(a)
                            \/ account[a] = "ACTIVE" /\ "ORG_ADMIN" \in rolesOf[a]
                         => CanDecide(a, request)
                      /\ /\ ScopeV2 /\ mayAct /\ ~FullRoster(a)
                         /\ boss[request.of] = a /\ accessScope(a, kind, "act") = 2
                         => CanDecide(a, request)
    BY DEF PendingIsReachable
  <2>1. RequestOk(request) /\ GrantsOk
    BY DEF RoutingInv
  <2> QED BY <2>1, OpenedIsListed, DecidedIsOpened, AdministratorsDecide, ManagersDecide DEF RequestOk
<1> QED BY RoutingInitially, RoutingKept, <1>1, PTL DEF Spec

-----------------------------------------------------------------------------
(* Of each shift that was to move, one row at most came, none while the    *)
(* setting has it; and a list of shifts names a row once.                  *)
MoveShape(t) == t \in [op : {"move"}, pc : {t.pc}, items : SUBSET OldShifts]
ListShape(t) ==
    /\ t \in [op : {"shifts"}, pc : {t.pc}, list : {t.list}, seen : {t.seen}]
    /\ \A x, y \in t.list : x = y
BranchShape(t) == t \in [op : {"locations"}, pc : {t.pc}, list : {t.list}, gone : {t.gone}]
TypesShape(t) ==
    t \in [op : {"leaves"}, pc : {t.pc}, list : [LeaveTypes -> Locations \cup {None}], seen : {t.seen}]
SettingsShape(t) ==
    /\ t.op = "move" => MoveShape(t)
    /\ t.op = "shifts" => ListShape(t)
    /\ t.op = "locations" => BranchShape(t)
    /\ t.op = "leaves" => TypesShape(t)
SettingsTypes ==
    /\ legacy \subseteq OldShifts
    /\ leaveTypes = [l \in LeaveTypes |-> leaveTypes[l]]
    /\ \A q \in Requests : SettingsShape(tx[q])

MovedOnce ==
    \A x \in OldShifts \ doubled :
        /\ x \in legacy \/ x.location = None => Moved(x) = {}
        /\ \A s, u \in Moved(x) : s = u
        /\ x \in migrated => x \notin legacy
        /\ x \in migrated /\ x.location # None => Moved(x) # {}

SettingsInv == Sane /\ SettingsTypes /\ MovedOnce /\ BranchesExist

(* A handler that goes on as one that may be.                              *)
LEMMA SettingsGo ==
    ASSUME NEW r \in Requests, NEW t, SettingsInv, SettingsShape(t), Goes(r, t)
    PROVE  \A q \in Requests : SettingsShape(tx'[q])
BY DEF Goes, SettingsInv, SettingsTypes, Sane

LEMMA SettingsIdle == SettingsShape(Idle)
BY DEF SettingsShape, Idle

LEMMA SettingsSame ==
    ASSUME SettingsInv, UNCHANGED settingsVars, \A q \in Requests : SettingsShape(tx'[q])
    PROVE  SettingsTypes' /\ MovedOnce' /\ BranchesExist'
BY DEF SettingsInv, SettingsTypes, MovedOnce, BranchesExist, settingsVars, Moved, UsedBranches, Configured

LEMMA MoveKeeps ==
    ASSUME NEW r \in Requests, SettingsInv, migrateJsonShiftsToDatabase(r)
    PROVE  SettingsTypes' /\ MovedOnce' /\ BranchesExist'
<1> DEFINE items == {x \in tx[r].items : x.location # None}
<1>1. /\ At(r, "move", "save")
      /\ {x.location : x \in items} \subseteq locations
      /\ shifts' = shifts \cup Numbered(items)
      /\ legacy' = {}
      /\ migrated' = migrated \cup (tx[r].items \cap legacy)
      /\ doubled' = doubled \cup (tx[r].items \ legacy)
      /\ Ends(r)
      /\ UNCHANGED <<locations, leaveTypes, inUse>>
  BY DEF migrateJsonShiftsToDatabase, LeftInSetting
<1>2. tx[r].items \in SUBSET OldShifts
  BY <1>1 DEF At, SettingsInv, SettingsTypes, SettingsShape, MoveShape
<1>3. PICK order : Numbered(items) = {Row(lastShift + order[x], x, x) : x \in items}
  BY DEF Numbered
<1> HIDE DEF items
<1>4. \A id, x : Row(id, x, x).moved = x /\ Row(id, x, x).location = x.location
  BY DEF Row
<1>5. /\ \A s \in Numbered(items) : s.moved \in items /\ s.location = s.moved.location
      /\ \A s, u \in Numbered(items) : s.moved = u.moved => s = u
  BY <1>3, <1>4
<1>6. MovedOnce'
  <2> SUFFICES ASSUME NEW x \in OldShifts, x \notin doubled'
               PROVE  /\ \A s, u \in shifts' : s.moved = x /\ u.moved = x => s = u
                      /\ x.location = None => \A s \in shifts' : s.moved # x
                      /\ x \in migrated' /\ x.location # None => \E s \in shifts' : s.moved = x
    BY <1>1 DEF MovedOnce, Moved
  <2>1. CASE x \in tx[r].items
    <3>1. x \in legacy /\ x \notin doubled
      BY <1>1, <2>1
    <3>2. \A s \in shifts : s.moved # x
      BY <3>1 DEF SettingsInv, MovedOnce, Moved
    <3>3. x.location = None => \A s \in Numbered(items) : s.moved # x
      BY <1>5 DEF items
    <3>4. x.location # None => \E s \in Numbered(items) : s.moved = x
      <4> SUFFICES ASSUME x.location # None PROVE \E s \in Numbered(items) : s.moved = x
        OBVIOUS
      <4>1. x \in items
        BY <2>1 DEF items
      <4> QED BY <1>3, <1>4, <4>1
    <3> QED BY <1>1, <1>5, <3>2, <3>3, <3>4
  <2>2. CASE x \notin tx[r].items
    <3>1. \A s \in Numbered(items) : s.moved # x
      BY <1>5, <2>2 DEF items
    <3>2. x \notin doubled /\ (x \in migrated' => x \in migrated)
      BY <1>1, <2>2
    <3> QED BY <1>1, <3>1, <3>2 DEF SettingsInv, MovedOnce, Moved
  <2> QED BY <2>1, <2>2
<1>7. \A x \in items : x.location \in locations
  BY <1>1
<1>8. BranchesExist'
  <2>1. \A s \in shifts' : s.location \in locations
    BY <1>1, <1>5, <1>7 DEF SettingsInv, BranchesExist, UsedBranches
  <2> QED BY <1>1, <2>1 DEF SettingsInv, BranchesExist, UsedBranches, Configured
<1>9. SettingsTypes'
  <2>1. \A q \in Requests : SettingsShape(tx'[q])
    BY <1>1, SettingsGo, SettingsIdle DEF Ends
  <2> QED BY <1>1, <2>1 DEF SettingsInv, SettingsTypes
<1> QED BY <1>6, <1>8, <1>9

(* A list saves each row once, and what became of a shift stays with it.   *)
LEMMA SaveKeepsShifts ==
    ASSUME NEW r \in Requests, SettingsInv, SaveShifts(r)
    PROVE  SettingsTypes' /\ MovedOnce' /\ BranchesExist'
<1> DEFINE t == tx[r]
           kept == {Row(x.id, x, Origin(x)) : x \in Kept(t)}
           made == {Row(lastShift + 1, x, None) : x \in {y \in t.list : y.id = None}}
<1>1. /\ At(r, "shifts", "save")
      /\ {x.location : x \in t.list} \subseteq locations
      /\ legacy' = {}
      /\ Ends(r)
      /\ UNCHANGED <<locations, leaveTypes, inUse, doubled>>
  BY DEF SaveShifts
<1>2. PICK rest \in SUBSET shifts : /\ \A s \in rest, x \in t.list : x.id # s.id
                                    /\ shifts' = rest \cup kept \cup made
                                    /\ migrated' = migrated \ {s.moved : s \in shifts \ rest}
  <2> DEFINE gone == {s \in shifts : \E o \in t.seen \cup t.list : o.id = s.id}
  <2>1. /\ shifts' = (shifts \ gone) \cup kept \cup made
        /\ migrated' = migrated \ {s.moved : s \in gone}
    BY DEF SaveShifts
  <2>2. gone = shifts \ (shifts \ gone)
    OBVIOUS
  <2>3. \A s \in shifts \ gone, x \in t.list : x.id # s.id
    OBVIOUS
  <2> HIDE DEF gone, kept, made
  <2> QED BY <2>1, <2>2, <2>3
<1>3. \A x, y \in t.list : x = y
  BY <1>1 DEF At, SettingsInv, SettingsTypes, SettingsShape, ListShape
<1>4. \A s \in kept : \E x \in t.list : /\ s.location = x.location /\ s.moved = Origin(x)
                                        /\ s = Row(x.id, x, Origin(x))
  BY DEF Kept, Row
<1>5. \A s \in made : s.moved = None /\ \E x \in t.list : s.location = x.location
  BY DEF Row
<1>6. \A s, u \in kept : s = u
  BY <1>3, <1>4
<1>7. ASSUME NEW s \in kept, s.moved # None
      PROVE  \E o \in shifts : o.moved = s.moved /\ o \notin rest
  <2>1. PICK x \in t.list : s.moved = Origin(x)
    BY <1>4
  <2>2. \E o \in shifts : o.id = x.id
    BY <1>7, <2>1 DEF Origin
  <2> DEFINE o == CHOOSE o \in shifts : o.id = x.id
  <2>3. o \in shifts /\ o.id = x.id
    BY <2>2
  <2>4. s.moved = o.moved
    BY <2>1, <2>2 DEF Origin
  <2> HIDE DEF o
  <2> QED BY <1>2, <2>3, <2>4
<1> HIDE DEF kept, made
<1>8. MovedOnce'
  <2> SUFFICES ASSUME NEW x \in OldShifts, x \notin doubled
               PROVE  /\ \A s, u \in shifts' : s.moved = x /\ u.moved = x => s = u
                      /\ x.location = None => \A s \in shifts' : s.moved # x
                      /\ x \in migrated' /\ x.location # None => \E s \in shifts' : s.moved = x
    BY <1>1 DEF MovedOnce, Moved
  <2>1. x # None
    BY SettingsAssumption
  <2>2. \A s, u \in shifts : s.moved = x /\ u.moved = x => s = u
    BY DEF SettingsInv, MovedOnce, Moved
  <2>3. ASSUME NEW s \in kept, NEW u \in rest, s.moved = x, u.moved = x
        PROVE  FALSE
    BY <1>7, <2>1, <2>2, <2>3
  <2>4. x.location = None => \A s \in shifts' : s.moved # x
    <3>1. x.location = None => \A s \in shifts : s.moved # x
      BY DEF SettingsInv, MovedOnce, Moved
    <3> QED BY <1>2, <1>5, <1>7, <2>1, <3>1
  <2>5. ASSUME x \in migrated', x.location # None PROVE \E s \in shifts' : s.moved = x
    <3>1. x \in migrated /\ \A s \in shifts \ rest : s.moved # x
      BY <1>2, <2>5
    <3>2. \E s \in shifts : s.moved = x
      BY <2>5, <3>1 DEF SettingsInv, MovedOnce, Moved
    <3> QED BY <1>2, <3>1, <3>2
  <2>6. \A s, u \in shifts' : s.moved = x /\ u.moved = x => s = u
    BY <1>2, <1>5, <1>6, <2>1, <2>2, <2>3
  <2> QED BY <2>4, <2>5, <2>6
<1>9. BranchesExist'
  <2>1. \A s \in shifts' : s.location \in locations
    BY <1>1, <1>2, <1>4, <1>5 DEF SettingsInv, BranchesExist, UsedBranches
  <2> QED BY <1>1, <2>1 DEF SettingsInv, BranchesExist, UsedBranches, Configured
<1>10. SettingsTypes'
  <2>1. \A q \in Requests : SettingsShape(tx'[q])
    BY <1>1, SettingsGo, SettingsIdle DEF Ends
  <2> QED BY <1>1, <2>1 DEF SettingsInv, SettingsTypes
<1> QED BY <1>8, <1>9, <1>10

LEMMA BranchesKeep ==
    ASSUME NEW r \in Requests, SettingsInv, SaveBranches(r)
    PROVE  SettingsTypes' /\ MovedOnce' /\ BranchesExist'
<1>1. /\ tx[r].gone \cap UsedBranches = {}
      /\ locations' = (locations \ tx[r].gone) \cup tx[r].list
      /\ Ends(r)
      /\ UNCHANGED <<shifts, lastShift, legacy, leaveTypes, inUse, migrated, doubled>>
  BY DEF SaveBranches, Restricting
<1>2. \A q \in Requests : SettingsShape(tx'[q])
  BY <1>1, SettingsGo, SettingsIdle DEF Ends
<1>3. UsedBranches' = UsedBranches /\ Configured' = Configured
  BY <1>1 DEF UsedBranches, Configured
<1> QED BY <1>1, <1>2, <1>3 DEF SettingsInv, SettingsTypes, MovedOnce, BranchesExist, Moved

LEMMA TypesKeep ==
    ASSUME NEW r \in Requests, SettingsInv, SaveLeaveTypes(r)
    PROVE  SettingsTypes' /\ MovedOnce' /\ BranchesExist'
<1>1. /\ At(r, "leaves", "save")
      /\ \A l \in tx[r].seen \cap inUse : tx[r].list[l] # None
      /\ \A l \in LeaveTypes : tx[r].list[l] \in locations \cup {None}
      /\ leaveTypes' = [l \in LeaveTypes |->
            IF tx[r].list[l] = None /\ l \notin tx[r].seen THEN leaveTypes[l] ELSE tx[r].list[l]]
      /\ Ends(r)
      /\ UNCHANGED <<locations, shifts, lastShift, legacy, inUse, migrated, doubled>>
  BY DEF SaveLeaveTypes
<1>2. \A q \in Requests : SettingsShape(tx'[q])
  BY <1>1, SettingsGo, SettingsIdle DEF Ends
<1>3. BranchesExist'
  <2>1. \A l \in LeaveTypes : leaveTypes'[l] # None => leaveTypes'[l] \in locations
    BY <1>1 DEF SettingsInv, BranchesExist, UsedBranches, Configured
  <2>2. \A l \in inUse : l \in LeaveTypes /\ leaveTypes'[l] # None
    BY <1>1 DEF SettingsInv, BranchesExist, Configured
  <2> QED BY <1>1, <2>1, <2>2 DEF SettingsInv, BranchesExist, UsedBranches, Configured
<1> QED BY <1>1, <1>2, <1>3 DEF SettingsInv, SettingsTypes, MovedOnce, Moved

LEMMA SettingsInitially == Init => SettingsInv
<1> SUFFICES ASSUME Init PROVE SettingsInv
  OBVIOUS
<1>1. \A q \in Requests : SettingsShape(tx[q])
  BY SettingsIdle DEF Init, PortalInit
<1> QED BY <1>1, SaneInitially DEF Init, SettingsInit, SettingsInv, SettingsTypes, MovedOnce, BranchesExist,
           Moved, UsedBranches, Configured

LEMMA SettingsStepKeeps ==
    ASSUME NEW r \in Requests, SettingsInv, SettingsStep(r)
    PROVE  SettingsTypes' /\ MovedOnce' /\ BranchesExist'
<1>1. ASSUME NEW t, SettingsShape(t), Goes(r, t), UNCHANGED settingsVars
      PROVE  SettingsTypes' /\ MovedOnce' /\ BranchesExist'
  BY <1>1, SettingsGo, SettingsSame
<1>2. ASSUME NEW t, SettingsShape(t), Begin(r, t), UNCHANGED settingsVars
      PROVE  SettingsTypes' /\ MovedOnce' /\ BranchesExist'
  BY <1>1, <1>2 DEF Begin
<1>3. CASE getAttendanceSettings(r)
  <2> DEFINE t == [op |-> "move", pc |-> "count", items |-> legacy]
  <2>1. SettingsShape(t)
    BY DEF SettingsShape, MoveShape, SettingsInv, SettingsTypes
  <2>2. Begin(r, t) /\ UNCHANGED settingsVars
    BY <1>3 DEF getAttendanceSettings
  <2> HIDE DEF t
  <2> QED BY <1>2, <2>1, <2>2
<1>4. CASE resolveShifts(r)
  <2> DEFINE t == [tx[r] EXCEPT !.pc = "save"]
  <2>1. At(r, "move", "count") /\ (Goes(r, t) \/ Goes(r, Idle)) /\ UNCHANGED settingsVars
    BY <1>4 DEF resolveShifts, Ends
  <2>2. SettingsShape(t)
    BY <2>1 DEF At, SettingsInv, SettingsTypes, SettingsShape, MoveShape
  <2> HIDE DEF t
  <2> QED BY <1>1, <2>1, <2>2, SettingsIdle
<1>5. ASSUME NEW list \in ShiftLists, updateAttendanceSettings(r, list)
      PROVE  SettingsTypes' /\ MovedOnce' /\ BranchesExist'
  <2> DEFINE t == [op |-> "shifts", pc |-> "read", list |-> list, seen |-> {}]
  <2>1. \A x, y \in list : x = y
    BY DEF ShiftLists
  <2>2. SettingsShape(t)
    BY <2>1 DEF SettingsShape, ListShape
  <2>3. Begin(r, t) /\ UNCHANGED settingsVars
    BY <1>5 DEF updateAttendanceSettings
  <2> HIDE DEF t
  <2> QED BY <1>2, <2>2, <2>3
<1>6. CASE ReadShifts(r)
  <2> DEFINE t == [tx[r] EXCEPT !.pc = "save", !.seen = shifts]
  <2>1. At(r, "shifts", "read") /\ Goes(r, t) /\ UNCHANGED settingsVars
    BY <1>6 DEF ReadShifts
  <2>2. SettingsShape(t)
    BY <2>1 DEF At, SettingsInv, SettingsTypes, SettingsShape, ListShape
  <2> HIDE DEF t
  <2> QED BY <1>1, <2>1, <2>2
<1>7. ASSUME NEW list, updateLocationConfigurations(r, list)
      PROVE  SettingsTypes' /\ MovedOnce' /\ BranchesExist'
  <2> DEFINE t == [op |-> "locations", pc |-> "check", list |-> list, gone |-> {}]
  <2>1. SettingsShape(t)
    BY DEF SettingsShape, BranchShape
  <2>2. Begin(r, t) /\ UNCHANGED settingsVars
    BY <1>7 DEF updateLocationConfigurations
  <2> HIDE DEF t
  <2> QED BY <1>2, <2>1, <2>2
<1>8. CASE CheckBranches(r)
  <2> DEFINE t == [tx[r] EXCEPT !.pc = "save", !.gone = locations \ tx[r].list]
  <2>1. At(r, "locations", "check") /\ Goes(r, t) /\ UNCHANGED settingsVars
    BY <1>8 DEF CheckBranches
  <2>2. SettingsShape(t)
    BY <2>1 DEF At, SettingsInv, SettingsTypes, SettingsShape, BranchShape
  <2> HIDE DEF t
  <2> QED BY <1>1, <2>1, <2>2
<1>9. ASSUME NEW list \in [LeaveTypes -> Locations \cup {None}], updateLeaveConfigurations(r, list)
      PROVE  SettingsTypes' /\ MovedOnce' /\ BranchesExist'
  <2> DEFINE t == [op |-> "leaves", pc |-> "read", list |-> list, seen |-> {}]
  <2>1. SettingsShape(t)
    BY DEF SettingsShape, TypesShape
  <2>2. Begin(r, t) /\ UNCHANGED settingsVars
    BY <1>9 DEF updateLeaveConfigurations
  <2> HIDE DEF t
  <2> QED BY <1>2, <2>1, <2>2
<1>10. CASE ReadLeaveTypes(r)
  <2> DEFINE t == [tx[r] EXCEPT !.pc = "save", !.seen = Configured]
  <2>1. At(r, "leaves", "read") /\ Goes(r, t) /\ UNCHANGED settingsVars
    BY <1>10 DEF ReadLeaveTypes
  <2>2. SettingsShape(t)
    BY <2>1 DEF At, SettingsInv, SettingsTypes, SettingsShape, TypesShape
  <2> HIDE DEF t
  <2> QED BY <1>1, <2>1, <2>2
<1>11. CASE FailSettings(r)
  BY <1>1, <1>11, SettingsIdle DEF FailSettings, Ends
<1> QED
  BY <1>3, <1>4, <1>5, <1>6, <1>7, <1>8, <1>9, <1>10, <1>11, MoveKeeps, SaveKeepsShifts, BranchesKeep,
     TypesKeep DEF SettingsStep

LEMMA SettingsKeep == SettingsInv /\ [Next]_vars => SettingsInv'
<1> SUFFICES ASSUME SettingsInv, [Next]_vars PROVE SettingsInv'
  OBVIOUS
<1>1. Sane'
  BY SaneKept DEF SettingsInv
<1>2. CASE UNCHANGED settingsVars /\ Untouched(SettingsOps)
  <2>1. \A q \in Requests : SettingsShape(tx'[q])
    BY <1>2 DEF Untouched, SettingsOps, SettingsInv, SettingsTypes, SettingsShape
  <2> QED BY <1>1, <1>2, <2>1, SettingsSame DEF SettingsInv
<1>3. ASSUME NEW l \in LeaveTypes, requestLeave(l) PROVE SettingsInv'
  <2>1. \A q \in Requests : SettingsShape(tx'[q])
    BY <1>3 DEF requestLeave, portalVars, SettingsInv, SettingsTypes
  <2>2. /\ l \in Configured /\ inUse' = inUse \cup {l}
        /\ UNCHANGED <<locations, shifts, lastShift, legacy, leaveTypes, migrated, doubled>>
    BY <1>3 DEF requestLeave
  <2>3. MovedOnce'
    BY <2>2 DEF SettingsInv, MovedOnce, Moved
  <2>4. BranchesExist'
    BY <2>2 DEF SettingsInv, BranchesExist, UsedBranches, Configured
  <2> QED BY <1>1, <2>1, <2>2, <2>3, <2>4 DEF SettingsInv, SettingsTypes
<1> QED BY <1>1, <1>2, <1>3, SettingsStepKeeps, SettingsApart DEF SettingsInv

(* Every shift and every leave type belongs to a branch that exists, and   *)
(* a type in use stays, however saves of the lists overlap.                *)
THEOREM BranchesAlwaysExist == Spec => []BranchesExist
<1>1. SettingsInv => BranchesExist
  BY DEF SettingsInv
<1> QED BY SettingsInitially, SettingsKeep, <1>1, PTL DEF Spec

(* The first reader takes every old shift from the setting: one with a     *)
(* branch has exactly one row until a saved list replaces it, one without  *)
(* has none, unless it was taken twice at once.                            *)
THEOREM OldShiftsAlwaysMoveOnce == Spec => []OldShiftsMoveOnce
<1>1. SettingsInv => OldShiftsMoveOnce
  <2> SUFFICES ASSUME SettingsInv, NEW x \in OldShifts \ doubled
               PROVE  /\ Cardinality(Moved(x)) <= (IF x \in legacy THEN 0 ELSE 1)
                      /\ x \in migrated =>
                           /\ x \notin legacy
                           /\ Cardinality(Moved(x)) = (IF x.location = None THEN 0 ELSE 1)
    BY DEF OldShiftsMoveOnce
  <2>1. /\ x \in legacy \/ x.location = None => Moved(x) = {}
        /\ \A s, u \in Moved(x) : s = u
        /\ x \in migrated => x \notin legacy
        /\ x \in migrated /\ x.location # None => Moved(x) # {}
    BY DEF SettingsInv, MovedOnce
  <2>2. Moved(x) = {} => Cardinality(Moved(x)) = 0
    BY FS_EmptySet
  <2>3. Moved(x) # {} => Cardinality(Moved(x)) = 1
    <3> SUFFICES ASSUME NEW s \in Moved(x) PROVE Cardinality(Moved(x)) = 1
      OBVIOUS
    <3>1. Moved(x) = {s}
      BY <2>1
    <3>2. Cardinality({s}) = 1
      BY FS_Singleton
    <3> QED BY ONLY <3>1, <3>2
  <2> HIDE DEF Moved
  <2> QED BY <2>1, <2>2, <2>3
<1> QED BY SettingsInitially, SettingsKeep, <1>1, PTL DEF Spec

-----------------------------------------------------------------------------
(* Employees: the shape of their rows and of the handlers about them.      *)
PostShape(p) == p \in [department : Departments \cup {None}, designation : Designations \cup {None}]
RowShape(x) == x \in EmployeeRows
ChecksLeft == {<<"post", "email">>, <<"email", "post">>, <<"post">>, <<"email">>, <<>>}

HireShape(t) ==
    /\ t \in [op : {"hire"}, pc : {"check", "insert"}, e : Employees, email : Emails, post : {t.post},
              checks : ChecksLeft, sure : BOOLEAN, code : {t.code}, alone : BOOLEAN]
    /\ PostShape(t.post)
    /\ t.pc = "insert" => t.checks = <<>>
EditShape(t) ==
    /\ t \in [op : {"edit"}, pc : {"validate", "save"}, e : Employees, row : {t.row}, change : {t.change},
              sure : BOOLEAN]
    /\ RowShape(t.row)
    /\ "email" \in DOMAIN t.change => t.change.email \in Emails
    /\ "post" \in DOMAIN t.change => PostShape(t.change.post)
    /\ "status" \in DOMAIN t.change => t.change.status \in {"pending", "active", "inactive"}
StructureShape(t) ==
    /\ t.op = "hire" => HireShape(t)
    /\ t.op = "edit" => EditShape(t)

StructureTypes ==
    /\ employees = [e \in Employees |-> employees[e]]
    /\ \A e \in Hired : RowShape(employees[e])
    /\ \A q \in Requests : /\ StructureShape(tx[q])
                           /\ tx[q].op = "edit" => tx[q].e \in Hired

(* A handler that is sure of its post may still give it.                   *)
SureOf(t, pairs) ==
    /\ t.op = "hire" /\ t.sure => Fits(t.post, pairs)
    /\ t.op = "edit" /\ t.sure => "post" \in DOMAIN t.change /\ Fits(t.change.post, pairs)
Placed == EmployeesPlaced /\ \A q \in Requests : SureOf(tx[q], mapped)

(* The emails that nobody but the employee of the handler may have, once   *)
(* it has looked them up.                                                  *)
Claims(t) ==
    IF t.op = "hire" THEN (IF t.checks \in {<<"post">>, <<>>} THEN {t.email} ELSE {})
    ELSE IF t.op = "edit" THEN {t.row.email} \cup (IF t.pc = "save" THEN {EmailSaved(t)} ELSE {})
    ELSE {}
Claimed(t) == \A m \in Claims(t), e \in Hired : employees[e].email = m => m \in rivals \/ e = t.e

OneHolder == \A e, f \in Hired : employees[e].email = employees[f].email => e = f \/ employees[e].email \in rivals
RivalsKnown == \A q, o \in Requests : q # o => EmailsOf(tx[q]) \cap EmailsOf(tx[o]) \subseteq rivals
EmailsInv == OneHolder /\ RivalsKnown /\ \A q \in Requests : Claimed(tx[q])

(* Among the codes one is the last as text, and a handler that took its    *)
(* code while no other had one took the next.  With a hyphen in the prefix *)
(* there is no code but the first.                                         *)
HasLast(S) == S = {} \/ \E n \in S : \A m \in S \ {n} : Before(m, n)
Taken(q) == At(q, "hire", "insert")
CodesInv ==
    /\ codes \subseteq Nat /\ HasLast(codes)
    /\ \A q \in Requests : Taken(q) =>
          /\ tx[q].code \in Nat
          /\ tx[q].alone => /\ tx[q].code = generateEmployeeCode
                            /\ \A o \in Requests \ {q} : ~Taken(o)
    /\ HyphenInPrefix => codes \subseteq {1} /\ \A q \in Requests : Taken(q) => tx[q].code = 1

StructureInv == Sane /\ StructureTypes /\ Placed /\ EmailsInv /\ CodesInv
StructureGood == StructureTypes /\ Placed /\ EmailsInv /\ CodesInv

LEMMA EntityShape ==
    ASSUME NEW t, EditShape(t), RowShape(employees[t.e])
    PROVE  RowShape(Entity(t)) /\ Entity(t).email = EmailSaved(t) /\ Entity(t).post = PostSaved(t)
<1> DEFINE status == IF "status" \in DOMAIN t.change THEN t.change.status ELSE t.row.status
<1>1. EmailSaved(t) \in Emails
  BY DEF EmailSaved, EditShape, RowShape, EmployeeRows
<1>2. PostShape(PostSaved(t))
  BY DEF PostSaved, PostShape, EditShape, RowShape, EmployeeRows
<1>3. status \in {"pending", "active", "inactive"}
  BY DEF EditShape, RowShape, EmployeeRows
<1>4. Entity(t) = [email |-> EmailSaved(t), post |-> PostSaved(t), status |-> status]
  BY DEF Entity
<1> HIDE DEF status
<1> QED BY <1>1, <1>2, <1>3, <1>4 DEF RowShape, PostShape, EmployeeRows

LEMMA TextOrderIs ==
    ASSUME NEW n \in Nat
    PROVE  /\ TextOrder(n)[1] \in Int /\ TextOrder(n)[2] \in Int
           /\ n < Padding => TextOrder(n)[1] = n /\ TextOrder(n)[2] = 0
           /\ ~(n < Padding) => /\ TextOrder(n)[1] = n \div 10 /\ TextOrder(n)[2] = (n % 10) + 1
                                /\ n = 10 * TextOrder(n)[1] + TextOrder(n)[2] - 1
                                /\ TextOrder(n)[2] > 0
<1>1. n \div 10 \in Int /\ n % 10 \in 0 .. 9 /\ n = 10 * (n \div 10) + (n % 10)
  OBVIOUS
<1>2. TextOrder(n) = IF n < Padding THEN <<n, 0>> ELSE <<n \div 10, (n % 10) + 1>>
  BY DEF TextOrder
<1>3. CASE n < Padding
  BY <1>2, <1>3
<1>4. CASE ~(n < Padding)
  BY <1>1, <1>2, <1>4
<1> QED BY <1>3, <1>4

LEMMA TextIsTotal ==
    ASSUME NEW m \in Nat, NEW n \in Nat, m # n
    PROVE  Before(m, n) \/ Before(n, m)
<1>1. TextOrder(m)[1] # TextOrder(n)[1] \/ TextOrder(m)[2] # TextOrder(n)[2]
  BY TextOrderIs, StructureAssumption
<1>2. /\ TextOrder(m)[1] \in Int /\ TextOrder(m)[2] \in Int
      /\ TextOrder(n)[1] \in Int /\ TextOrder(n)[2] \in Int
  BY TextOrderIs
<1>3. /\ Before(m, n) <=> \/ TextOrder(m)[1] < TextOrder(n)[1]
                          \/ TextOrder(m)[1] = TextOrder(n)[1] /\ TextOrder(m)[2] < TextOrder(n)[2]
      /\ Before(n, m) <=> \/ TextOrder(n)[1] < TextOrder(m)[1]
                          \/ TextOrder(n)[1] = TextOrder(m)[1] /\ TextOrder(n)[2] < TextOrder(m)[2]
  BY DEF Before
<1> QED BY <1>1, <1>2, <1>3

LEMMA TextIsTransitive ==
    ASSUME NEW k \in Nat, NEW m \in Nat, NEW n \in Nat, Before(k, m), Before(m, n)
    PROVE  Before(k, n)
BY TextOrderIs DEF Before

LEMMA LastStays ==
    ASSUME NEW S, S \subseteq Nat, HasLast(S), NEW c \in Nat
    PROVE  HasLast(S \cup {c})
<1>1. CASE S = {} \/ c \in S
  <2>1. S \cup {c} = {c} \/ S \cup {c} = S
    BY <1>1
  <2> QED BY <2>1 DEF HasLast
<1>2. CASE S # {} /\ c \notin S
  <2>1. PICK n \in S : \A m \in S \ {n} : Before(m, n)
    BY <1>2 DEF HasLast
  <2>2. CASE Before(c, n)
    BY <2>1, <2>2 DEF HasLast
  <2>3. CASE Before(n, c)
    <3>1. \A m \in S : Before(m, c)
      BY <2>1, <2>3, TextIsTransitive
    <3> QED BY <3>1 DEF HasLast
  <2> QED BY <1>2, <2>2, <2>3, TextIsTotal
<1> QED BY <1>1, <1>2

LEMMA NextCode ==
    ASSUME CodesInv
    PROVE  /\ generateEmployeeCode \in Nat
           /\ HyphenInPrefix => generateEmployeeCode = 1
           /\ ~HyphenInPrefix /\ (\A n \in codes : n < Padding) => generateEmployeeCode \notin codes
<1>1. CASE codes = {} \/ HyphenInPrefix
  BY <1>1 DEF generateEmployeeCode
<1>2. CASE codes # {} /\ ~HyphenInPrefix
  <2>1. \E n \in codes : \A m \in codes \ {n} : Before(m, n)
    BY <1>2 DEF CodesInv, HasLast
  <2>2. LastCode \in codes /\ \A m \in codes \ {LastCode} : Before(m, LastCode)
    BY <2>1 DEF LastCode
  <2>3. LastCode \in Nat /\ generateEmployeeCode = LastCode + 1 /\ codes \subseteq Nat
    BY <1>2, <2>2 DEF CodesInv, generateEmployeeCode
  <2>4. ASSUME \A n \in codes : n < Padding, LastCode + 1 \in codes PROVE FALSE
    <3>1. Before(LastCode + 1, LastCode)
      BY <2>2, <2>3, <2>4
    <3>2. LastCode + 1 < Padding /\ LastCode < Padding
      BY <2>2, <2>4
    <3> QED BY <2>3, <3>1, <3>2, TextOrderIs DEF Before
  <2> QED BY <1>2, <2>3, <2>4
<1> QED BY <1>1, <1>2

LEMMA SameCode ==
    ASSUME UNCHANGED <<scenario, codes>>
    PROVE  generateEmployeeCode' = generateEmployeeCode /\ HyphenInPrefix' = HyphenInPrefix
BY DEF generateEmployeeCode, LastCode, HyphenInPrefix, Asked

LEMMA IdleStructure ==
    StructureShape(Idle) /\ EmailsOf(Idle) = {} /\ Claims(Idle) = {} /\ \A pairs : SureOf(Idle, pairs)
BY DEF StructureShape, Idle, EmailsOf, Claims, SureOf

LEMMA ClaimsAreEmails == ASSUME NEW t PROVE Claims(t) \subseteq EmailsOf(t)
BY DEF Claims, EmailsOf

(* One handler goes on, and only who rivals whom may become known.         *)
LEMMA HandlerGoes ==
    ASSUME NEW r \in Requests, NEW t, StructureInv, Goes(r, t),
           UNCHANGED <<mapped, employees, codes, displaced>>, rivals \subseteq rivals',
           StructureShape(t), SureOf(t, mapped),
           \A q \in Requests \ {r} : EmailsOf(t) \cap EmailsOf(tx[q]) \subseteq rivals',
           \A m \in Claims(t), e \in Hired : employees[e].email = m => m \in rivals' \/ e = t.e,
           ~(t.op = "hire" /\ t.pc = "insert"), t.op = "edit" => t.e \in Hired
    PROVE  StructureGood'
<1>1. tx'[r] = t /\ \A q \in Requests \ {r} : tx'[q] = tx[q]
  BY DEF Goes, StructureInv, Sane
<1>2. Hired' = Hired
  BY DEF Hired
<1>3. StructureTypes'
  BY <1>1, <1>2 DEF StructureInv, StructureTypes
<1>4. Placed'
  BY <1>1, <1>2 DEF StructureInv, Placed, EmployeesPlaced
<1>5. EmailsInv'
  <2>1. OneHolder'
    BY <1>2 DEF StructureInv, EmailsInv, OneHolder
  <2>2. RivalsKnown'
    <3> SUFFICES ASSUME NEW q \in Requests, NEW o \in Requests, q # o
                 PROVE  EmailsOf(tx'[q]) \cap EmailsOf(tx'[o]) \subseteq rivals'
      BY DEF RivalsKnown
    <3> QED BY <1>1 DEF StructureInv, EmailsInv, RivalsKnown
  <2>3. ASSUME NEW q \in Requests PROVE Claimed(tx[q])'
    <3> SUFFICES ASSUME NEW m \in Claims(tx'[q]), NEW e \in Hired, employees[e].email = m
                 PROVE  m \in rivals' \/ e = tx'[q].e
      BY <1>2 DEF Claimed
    <3> QED BY <1>1 DEF StructureInv, EmailsInv, Claimed
  <2> QED BY <2>1, <2>2, <2>3 DEF EmailsInv
<1>6. CodesInv'
  <2>1. generateEmployeeCode' = generateEmployeeCode /\ HyphenInPrefix' = HyphenInPrefix
    BY SameCode DEF Goes
  <2>2. \A q \in Requests : Taken(q)' => q # r /\ Taken(q)
    BY <1>1 DEF Taken, At
  <2> QED BY <1>1, <2>1, <2>2 DEF StructureInv, CodesInv
<1> QED BY <1>3, <1>4, <1>5, <1>6 DEF StructureGood

LEMMA HandlerEnds ==
    ASSUME NEW r \in Requests, StructureInv, Ends(r), UNCHANGED structureVars
    PROVE  StructureGood'
<1>1. Idle.op = "none"
  BY DEF Idle
<1> QED BY <1>1, HandlerGoes, IdleStructure DEF Ends, structureVars

(* A handler writes the row of its employee, with an email that it claims. *)
LEMMA RowWritten ==
    ASSUME NEW r \in Requests, StructureInv, Ends(r), UNCHANGED rivals,
           NEW e \in Employees, NEW x, RowShape(x), tx[r].e = e, x.email \in Claims(tx[r]),
           employees' = [employees EXCEPT ![e] = x]
    PROVE  /\ StructureTypes' /\ EmailsInv'
           /\ tx'[r] = Idle /\ \A q \in Requests \ {r} : tx'[q] = tx[q]
           /\ employees'[e] = x /\ \A f \in Employees \ {e} : employees'[f] = employees[f]
           /\ Hired' = Hired \cup {e}
<1>1. tx'[r] = Idle /\ \A q \in Requests \ {r} : tx'[q] = tx[q]
  BY DEF Ends, Goes, StructureInv, Sane
<1>2. employees'[e] = x /\ \A f \in Employees \ {e} : employees'[f] = employees[f]
  BY DEF StructureInv, StructureTypes
<1>3. Hired' = Hired \cup {e}
  BY <1>2, StructureAssumption DEF Hired, RowShape
<1>4. StructureTypes'
  <2>1. \A f \in Hired' : RowShape(employees'[f])
    BY <1>2, <1>3 DEF StructureInv, StructureTypes
  <2>2. Idle.op # "edit"
    BY DEF Idle
  <2> QED BY <1>1, <1>3, <2>1, <2>2, IdleStructure DEF StructureInv, StructureTypes
<1>5. Hired \subseteq Employees /\ Hired' \subseteq Employees
  BY DEF Hired
<1>6. \A f \in Hired : employees[f].email = x.email => f = e \/ x.email \in rivals
  BY DEF StructureInv, EmailsInv, Claimed
<1>7. OneHolder'
  BY <1>2, <1>3, <1>5, <1>6 DEF StructureInv, EmailsInv, OneHolder
<1>8. RivalsKnown'
  <2> SUFFICES ASSUME NEW q \in Requests, NEW o \in Requests, q # o
               PROVE  EmailsOf(tx'[q]) \cap EmailsOf(tx'[o]) \subseteq rivals
    BY DEF RivalsKnown
  <2> QED BY <1>1, IdleStructure DEF StructureInv, EmailsInv, RivalsKnown
<1>9. ASSUME NEW q \in Requests PROVE Claimed(tx[q])'
  <2> SUFFICES ASSUME NEW m \in Claims(tx'[q]), NEW f \in Hired', employees'[f].email = m
               PROVE  m \in rivals \/ f = tx'[q].e
    BY DEF Claimed
  <2>1. q # r /\ tx'[q] = tx[q]
    BY <1>1, IdleStructure
  <2>2. CASE f = e
    <3>1. m \in EmailsOf(tx[q]) /\ m \in EmailsOf(tx[r])
      BY <1>2, <2>1, <2>2, ClaimsAreEmails
    <3> QED BY <2>1, <3>1 DEF StructureInv, EmailsInv, RivalsKnown
  <2>3. CASE f # e
    <3>1. f \in Hired /\ employees[f].email = m
      BY <1>2, <1>3, <1>5, <2>3
    <3> QED BY <2>1, <3>1 DEF StructureInv, EmailsInv, Claimed
  <2> QED BY <2>2, <2>3
<1>10. EmailsInv'
  BY <1>7, <1>8, <1>9 DEF EmailsInv
<1> QED BY <1>1, <1>2, <1>3, <1>4, <1>10

LEMMA InsertKeepsStructure ==
    ASSUME NEW r \in Requests, StructureInv, InsertEmployee(r)
    PROVE  StructureGood'
<1> DEFINE t == tx[r]
           x == [email |-> t.email, post |-> t.post, status |-> "pending"]
<1>1. /\ Taken(r) /\ t.code \notin codes
      /\ employees' = [employees EXCEPT ![t.e] = x]
      /\ codes' = codes \cup {t.code}
      /\ displaced' = IF t.sure THEN displaced ELSE displaced \cup {t.e}
      /\ Ends(r)
      /\ UNCHANGED <<mapped, rivals>>
  BY DEF InsertEmployee, Taken
<1>2. HireShape(t)
  BY <1>1 DEF Taken, At, StructureInv, StructureTypes, StructureShape
<1>3. RowShape(x) /\ t.e \in Employees /\ x.email \in Claims(t) /\ x.post = t.post
  BY <1>2, <1>1 DEF Taken, At, HireShape, RowShape, PostShape, EmployeeRows, Claims
<1> HIDE DEF x
<1>4. /\ StructureTypes' /\ EmailsInv'
      /\ tx'[r] = Idle /\ \A q \in Requests \ {r} : tx'[q] = tx[q]
      /\ employees'[t.e] = x /\ \A f \in Employees \ {t.e} : employees'[f] = employees[f]
      /\ Hired' = Hired \cup {t.e}
  BY <1>1, <1>3, RowWritten
<1>5. Placed'
  <2>1. ASSUME NEW f \in Hired' \ displaced' PROVE Fits(employees'[f].post, mapped)
    <3>1. CASE f = t.e
      <4>1. t.sure /\ t.op = "hire"
        BY <1>1, <1>2, <2>1, <3>1 DEF HireShape
      <4> QED BY <1>3, <1>4, <3>1, <4>1 DEF StructureInv, Placed, SureOf
    <3>2. CASE f # t.e
      <4>1. f \in Hired \ displaced /\ employees'[f] = employees[f]
        BY <1>1, <1>4, <2>1, <3>2 DEF Hired
      <4> QED BY <4>1 DEF StructureInv, Placed, EmployeesPlaced
    <3> QED BY <3>1, <3>2
  <2>2. ASSUME NEW q \in Requests PROVE SureOf(tx'[q], mapped)
    BY <1>4, IdleStructure DEF StructureInv, Placed
  <2> QED BY <1>1, <2>1, <2>2 DEF Placed, EmployeesPlaced
<1>6. CodesInv'
  <2>1. \A q \in Requests : Taken(q)' => q # r /\ Taken(q) /\ tx'[q] = tx[q]
    BY <1>4 DEF Taken, At, Idle
  <2>2. \A q \in Requests : Taken(q)' => ~tx[q].alone /\ tx[q].code \in Nat
    BY <1>1, <2>1 DEF StructureInv, CodesInv
  <2>3. t.code \in Nat
    BY <1>1 DEF StructureInv, CodesInv
  <2>4. codes' \subseteq Nat /\ HasLast(codes')
    BY <1>1, <2>3, LastStays DEF StructureInv, CodesInv
  <2>5. HyphenInPrefix' = HyphenInPrefix
    BY <1>1 DEF Ends, Goes, HyphenInPrefix, Asked
  <2>6. ASSUME HyphenInPrefix
        PROVE  codes' \subseteq {1} /\ \A q \in Requests : Taken(q)' => tx'[q].code = 1
    <3>1. codes \subseteq {1} /\ \A q \in Requests : Taken(q) => tx[q].code = 1
      BY <2>6 DEF StructureInv, CodesInv
    <3>2. codes' \subseteq {1}
      BY <1>1, <3>1
    <3>3. \A q \in Requests : Taken(q)' => tx'[q].code = 1
      BY <2>1, <3>1
    <3> QED BY <3>2, <3>3
  <2> QED BY <2>1, <2>2, <2>4, <2>5, <2>6 DEF CodesInv
<1> QED BY <1>4, <1>5, <1>6 DEF StructureGood

LEMMA SaveKeepsStructure ==
    ASSUME NEW r \in Requests, StructureInv, SaveEmployee(r)
    PROVE  StructureGood'
<1> DEFINE t == tx[r]
           x == Entity(t)
<1>1. /\ At(r, "edit", "save")
      /\ employees' = [employees EXCEPT ![t.e] = x]
      /\ displaced' = IF t.sure THEN displaced \ {t.e}
                      ELSE IF x.post = employees[t.e].post THEN displaced ELSE displaced \cup {t.e}
      /\ Ends(r)
      /\ UNCHANGED <<mapped, codes, rivals>>
  BY DEF SaveEmployee
<1>2. EditShape(t)
  BY <1>1 DEF At, StructureInv, StructureTypes, StructureShape
<1>3. RowShape(x) /\ t.e \in Employees /\ x.email \in Claims(t)
  <2>1. RowShape(employees[t.e])
    BY <1>1 DEF At, StructureInv, StructureTypes
  <2>2. RowShape(x) /\ x.email = EmailSaved(t)
    BY <1>2, <2>1, EntityShape
  <2> QED BY <1>1, <1>2, <2>2 DEF At, EditShape, Claims
<1>4. "post" \in DOMAIN t.change => x.post = t.change.post
  BY DEF Entity, PostSaved
<1> HIDE DEF x
<1>5. /\ StructureTypes' /\ EmailsInv'
      /\ tx'[r] = Idle /\ \A q \in Requests \ {r} : tx'[q] = tx[q]
      /\ employees'[t.e] = x /\ \A f \in Employees \ {t.e} : employees'[f] = employees[f]
      /\ Hired' = Hired \cup {t.e}
  BY <1>1, <1>3, RowWritten
<1>6. Placed'
  <2>1. ASSUME NEW f \in Hired' \ displaced' PROVE Fits(employees'[f].post, mapped)
    <3>1. CASE f = t.e /\ t.sure
      BY <1>1, <1>4, <1>5, <3>1 DEF At, StructureInv, Placed, SureOf
    <3>2. CASE f = t.e /\ ~t.sure
      <4>1. x.post = employees[t.e].post /\ f \notin displaced
        BY <1>1, <2>1, <3>2
      <4>2. f \in Hired
        BY <1>1, <3>2 DEF At, StructureInv, StructureTypes
      <4> QED BY <1>5, <3>2, <4>1, <4>2 DEF StructureInv, Placed, EmployeesPlaced
    <3>3. CASE f # t.e
      <4>1. f \in Hired \ displaced /\ employees'[f] = employees[f]
        BY <1>1, <1>5, <2>1, <3>3 DEF Hired
      <4> QED BY <4>1 DEF StructureInv, Placed, EmployeesPlaced
    <3> QED BY <3>1, <3>2, <3>3
  <2>2. ASSUME NEW q \in Requests PROVE SureOf(tx'[q], mapped)
    BY <1>5, IdleStructure DEF StructureInv, Placed
  <2> QED BY <1>1, <2>1, <2>2 DEF Placed, EmployeesPlaced
<1>7. CodesInv'
  <2>1. \A q \in Requests : Taken(q)' => q # r /\ Taken(q) /\ tx'[q] = tx[q]
    BY <1>5 DEF Taken, At, Idle
  <2>2. generateEmployeeCode' = generateEmployeeCode /\ HyphenInPrefix' = HyphenInPrefix
    BY <1>1, SameCode DEF Ends, Goes
  <2>3. \A o \in Requests : Taken(o)' => Taken(o)
    BY <2>1
  <2> QED BY <1>1, <2>1, <2>2, <2>3 DEF StructureInv, CodesInv
<1> QED BY <1>5, <1>6, <1>7 DEF StructureGood

LEMMA TakeKeepsStructure ==
    ASSUME NEW r \in Requests, StructureInv, TakeCode(r)
    PROVE  StructureGood'
<1> DEFINE alone == \A o \in Requests \ {r} : ~At(o, "hire", "insert")
           t == [tx[r] EXCEPT !.pc = "insert", !.code = generateEmployeeCode, !.alone = alone]
           v(q) == [tx[q] EXCEPT !.alone = FALSE]
<1>1. /\ At(r, "hire", "check") /\ tx[r].checks = <<>>
      /\ tx' = [q \in Requests |-> IF q = r THEN t ELSE IF Hiring(q) THEN v(q) ELSE tx[q]]
      /\ UNCHANGED <<scenario, structureVars>>
  BY DEF TakeCode
<1>2. HireShape(tx[r])
  BY <1>1 DEF At, StructureInv, StructureTypes, StructureShape
<1>3. /\ HireShape(t) /\ t.op = "hire" /\ t.pc = "insert" /\ t.email = tx[r].email /\ t.e = tx[r].e
      /\ t.post = tx[r].post /\ t.sure = tx[r].sure /\ t.checks = tx[r].checks
      /\ t.code = generateEmployeeCode /\ t.alone = alone
  BY <1>1, <1>2 DEF HireShape
<1>4. ASSUME NEW q \in Requests, Hiring(q)
      PROVE  /\ HireShape(v(q)) /\ v(q).op = "hire" /\ v(q).email = tx[q].email /\ v(q).e = tx[q].e
             /\ v(q).post = tx[q].post /\ v(q).sure = tx[q].sure /\ v(q).checks = tx[q].checks
             /\ v(q).pc = tx[q].pc /\ v(q).code = tx[q].code /\ v(q).alone = FALSE
  <2>1. HireShape(tx[q])
    BY <1>4 DEF Hiring, StructureInv, StructureTypes, StructureShape
  <2> QED BY <2>1 DEF HireShape
<1> HIDE DEF t, v
<1>5. ASSUME NEW q \in Requests
      PROVE  /\ StructureShape(tx'[q]) /\ tx'[q].op = tx[q].op
             /\ tx'[q].op = "edit" => tx'[q] = tx[q]
             /\ SureOf(tx[q], mapped) => SureOf(tx'[q], mapped)
             /\ EmailsOf(tx'[q]) = EmailsOf(tx[q])
             /\ Claims(tx'[q]) = Claims(tx[q])
             /\ Claims(tx'[q]) # {} => tx'[q].e = tx[q].e
  <2>1. CASE q = r
    <3>1. tx'[q] = t
      BY <1>1, <2>1
    <3> QED BY <1>1, <1>3, <2>1, <3>1 DEF At, StructureShape, SureOf, EmailsOf, Claims
  <2>2. CASE q # r /\ Hiring(q)
    <3>1. tx'[q] = v(q)
      BY <1>1, <2>2
    <3> QED BY <1>4, <2>2, <3>1 DEF Hiring, StructureShape, SureOf, EmailsOf, Claims
  <2>3. CASE q # r /\ ~Hiring(q)
    BY <1>1, <2>3 DEF StructureInv, StructureTypes
  <2> QED BY <2>1, <2>2, <2>3
<1>6. Hired' = Hired
  BY <1>1 DEF Hired, structureVars
<1>7. StructureTypes' /\ Placed'
  BY <1>1, <1>5, <1>6 DEF StructureInv, StructureTypes, Placed, EmployeesPlaced, structureVars
<1>8. EmailsInv'
  <2>1. OneHolder'
    BY <1>1, <1>6 DEF StructureInv, EmailsInv, OneHolder, structureVars
  <2>2. RivalsKnown'
    BY <1>1, <1>5 DEF StructureInv, EmailsInv, RivalsKnown, structureVars
  <2>3. ASSUME NEW q \in Requests PROVE Claimed(tx[q])'
    <3> SUFFICES ASSUME NEW m \in Claims(tx'[q]), NEW e \in Hired, employees[e].email = m
                 PROVE  m \in rivals \/ e = tx'[q].e
      BY <1>1, <1>6 DEF Claimed, structureVars
    <3> QED BY <1>5 DEF StructureInv, EmailsInv, Claimed
  <2> QED BY <2>1, <2>2, <2>3 DEF EmailsInv
<1>9. CodesInv'
  <2>1. generateEmployeeCode' = generateEmployeeCode /\ HyphenInPrefix' = HyphenInPrefix
    BY <1>1, SameCode DEF structureVars
  <2>2. generateEmployeeCode \in Nat
    BY NextCode DEF StructureInv
  <2>3. ASSUME NEW q \in Requests, Taken(q)', q # r
        PROVE  Taken(q) /\ tx'[q].code = tx[q].code /\ tx'[q].alone = FALSE
    BY <1>1, <1>4, <2>3 DEF Taken, At, Hiring
  <2>4. tx'[r] = t
    BY <1>1
  <2>5. alone => \A o \in Requests \ {r} : ~Taken(o)'
    BY <2>3 DEF Taken
  <2>6. ASSUME NEW q \in Requests, Taken(q)'
        PROVE  /\ tx'[q].code \in Nat
               /\ tx'[q].alone => /\ tx'[q].code = generateEmployeeCode
                                  /\ \A o \in Requests \ {q} : ~Taken(o)'
    <3>1. CASE q = r
      BY <1>3, <2>2, <2>4, <2>5, <3>1
    <3>2. CASE q # r
      BY <2>3, <2>6, <3>2 DEF StructureInv, CodesInv
    <3> QED BY <3>1, <3>2
  <2>7. HyphenInPrefix => \A q \in Requests : Taken(q)' => tx'[q].code = 1
    BY <1>3, <2>3, <2>4, NextCode DEF StructureInv, CodesInv
  <2> QED BY <1>1, <2>1, <2>6, <2>7 DEF StructureInv, CodesInv, structureVars
<1> QED BY <1>7, <1>8, <1>9 DEF StructureGood

LEMMA EmptiedIs ==
    ASSUME StructureInv, NEW e \in Employees
    PROVE  /\ employees[e] = None => Emptied(e) = None
           /\ employees[e] # None => RowShape(Emptied(e)) /\ Emptied(e).email = employees[e].email
<1>1. CASE employees[e] = None
  BY <1>1 DEF Emptied
<1>2. CASE employees[e] # None
  <2>1. employees[e] \in EmployeeRows
    BY <1>2 DEF Hired, StructureInv, StructureTypes, RowShape
  <2> DEFINE p == employees[e].post
             department == IF p.department \in Listed(departments') THEN p.department ELSE None
             designation == IF p.designation \in Listed(designations') THEN p.designation ELSE None
             x == [employees[e] EXCEPT !.post.department = department, !.post.designation = designation]
  <2>2. department \in Departments \cup {None} /\ designation \in Designations \cup {None}
    BY <2>1 DEF EmployeeRows
  <2>3. Emptied(e) = x
    BY <1>2 DEF Emptied
  <2> HIDE DEF department, designation
  <2>4. x \in EmployeeRows /\ x.email = employees[e].email
    BY <2>1, <2>2 DEF EmployeeRows
  <2> HIDE DEF x
  <2> QED BY <1>2, <2>3, <2>4 DEF RowShape
<1> QED BY <1>1, <1>2

LEMMA ListsKeepStructure ==
    ASSUME NEW r \in Requests, StructureInv, ListsSaved(r)
    PROVE  StructureGood'
<1> DEFINE v(q) == [tx[q] EXCEPT !.sure = FALSE]
<1>1. /\ employees' = [e \in Employees |-> Emptied(e)]
      /\ displaced' = displaced \cup {e \in Hired : ~Fits(employees'[e].post, mapped')}
      /\ tx' = [q \in Requests |-> IF q = r THEN Idle
                                   ELSE IF "sure" \in DOMAIN tx[q] THEN v(q) ELSE tx[q]]
      /\ UNCHANGED <<scenario, codes, rivals>>
  BY DEF ListsSaved
<1>2. ASSUME NEW e \in Employees
      PROVE  /\ e \in Hired' <=> e \in Hired
             /\ e \in Hired => RowShape(employees'[e]) /\ employees'[e].email = employees[e].email
  <2>1. employees'[e] = Emptied(e)
    BY <1>1
  <2> QED BY <2>1, EmptiedIs, StructureAssumption DEF Hired, RowShape
<1>3. Hired' = Hired /\ Hired \subseteq Employees
  BY <1>2 DEF Hired
<1>4. ASSUME NEW q \in Requests, "sure" \in DOMAIN tx[q]
      PROVE  /\ StructureShape(v(q)) /\ v(q).op = tx[q].op /\ v(q).sure = FALSE /\ v(q).pc = tx[q].pc
             /\ v(q).op \in {"hire", "edit"} /\ v(q).e = tx[q].e
             /\ v(q).op = "hire" => /\ v(q).email = tx[q].email /\ v(q).checks = tx[q].checks
                                    /\ v(q).code = tx[q].code /\ v(q).alone = tx[q].alone
             /\ v(q).op = "edit" => v(q).row = tx[q].row /\ v(q).change = tx[q].change
  <2>1. tx[q].op \in {"hire", "edit"}
    BY <1>4 DEF StructureInv, Sane, Handler
  <2>2. CASE tx[q].op = "hire"
    <3>1. HireShape(tx[q])
      BY <2>2 DEF StructureInv, StructureTypes, StructureShape
    <3>2. /\ HireShape(v(q)) /\ v(q).op = "hire" /\ v(q).sure = FALSE /\ v(q).pc = tx[q].pc
          /\ v(q).e = tx[q].e /\ v(q).email = tx[q].email /\ v(q).checks = tx[q].checks
          /\ v(q).code = tx[q].code /\ v(q).alone = tx[q].alone
      BY <3>1 DEF HireShape
    <3> HIDE DEF v
    <3> QED BY <2>2, <3>2 DEF StructureShape
  <2>3. CASE tx[q].op = "edit"
    <3>1. EditShape(tx[q])
      BY <2>3 DEF StructureInv, StructureTypes, StructureShape
    <3>2. /\ EditShape(v(q)) /\ v(q).op = "edit" /\ v(q).sure = FALSE /\ v(q).pc = tx[q].pc
          /\ v(q).e = tx[q].e /\ v(q).row = tx[q].row /\ v(q).change = tx[q].change
      BY <3>1 DEF EditShape
    <3> HIDE DEF v
    <3> QED BY <2>3, <3>2 DEF StructureShape
  <2> QED BY <2>1, <2>2, <2>3
<1> HIDE DEF v
<1>5. ASSUME NEW q \in Requests
      PROVE  /\ StructureShape(tx'[q])
             /\ tx'[q].op = "edit" => tx[q].op = "edit" /\ tx'[q].e = tx[q].e
             /\ SureOf(tx'[q], mapped')
             /\ EmailsOf(tx'[q]) \subseteq EmailsOf(tx[q])
             /\ Claims(tx'[q]) \subseteq Claims(tx[q])
             /\ Claims(tx'[q]) # {} => tx'[q].e = tx[q].e
             /\ Taken(q)' => /\ Taken(q) /\ tx'[q].code = tx[q].code /\ tx'[q].alone = tx[q].alone
  <2>1. CASE q = r
    <3>1. tx'[q] = Idle
      BY <1>1, <2>1
    <3> QED BY <3>1, IdleStructure DEF Idle, Taken, At
  <2>2. CASE q # r /\ "sure" \in DOMAIN tx[q]
    <3>1. tx'[q] = v(q)
      BY <1>1, <2>2
    <3>2. EmailSaved(tx'[q]) = EmailSaved(tx[q]) \/ tx'[q].op # "edit"
      BY <1>4, <2>2, <3>1 DEF EmailSaved
    <3> QED BY <1>4, <2>2, <3>1, <3>2 DEF StructureShape, SureOf, EmailsOf, Claims, Taken, At
  <2>3. CASE q # r /\ "sure" \notin DOMAIN tx[q]
    <3>1. tx'[q] = tx[q]
      BY <1>1, <2>3
    <3>2. StructureShape(tx[q])
      BY DEF StructureInv, StructureTypes
    <3>3. tx[q].op \notin {"hire", "edit"}
      BY <2>3, <3>2 DEF StructureShape, HireShape, EditShape
    <3> QED BY <3>1, <3>2, <3>3 DEF SureOf, Taken, At
  <2> QED BY <2>1, <2>2, <2>3
<1>6. StructureTypes'
  BY <1>1, <1>2, <1>3, <1>5 DEF StructureInv, StructureTypes
<1>7. Placed'
  BY <1>1, <1>3, <1>5 DEF Placed, EmployeesPlaced
<1>8. EmailsInv'
  <2>1. OneHolder'
    BY <1>1, <1>2, <1>3 DEF StructureInv, EmailsInv, OneHolder
  <2>2. RivalsKnown'
    BY <1>1, <1>5 DEF StructureInv, EmailsInv, RivalsKnown
  <2>3. ASSUME NEW q \in Requests PROVE Claimed(tx[q])'
    <3> SUFFICES ASSUME NEW m \in Claims(tx'[q]), NEW e \in Hired, employees[e].email = m
                 PROVE  m \in rivals \/ e = tx'[q].e
      BY <1>1, <1>2, <1>3 DEF Claimed
    <3> QED BY <1>5 DEF StructureInv, EmailsInv, Claimed
  <2> QED BY <2>1, <2>2, <2>3 DEF EmailsInv
<1>9. CodesInv'
  <2>1. generateEmployeeCode' = generateEmployeeCode /\ HyphenInPrefix' = HyphenInPrefix
    BY <1>1, SameCode
  <2> QED BY <1>1, <1>5, <2>1 DEF StructureInv, CodesInv
<1> QED BY <1>6, <1>7, <1>8, <1>9 DEF StructureGood

(* The checks that a new employee has before him.                          *)
LEMMA ChecksDone ==
    ASSUME NEW s \in ChecksLeft, s # <<>>
    PROVE  /\ Tail(s) \in ChecksLeft
           /\ Head(s) = "email" => Tail(s) \in {<<"post">>, <<>>}
           /\ Head(s) = "post" => (Tail(s) \in {<<"post">>, <<>>} => s = <<"post">>)
<1>1. Tail(<<"post", "email">>) = <<"email">> /\ Head(<<"post", "email">>) = "post"
  OBVIOUS
<1>2. Tail(<<"email", "post">>) = <<"post">> /\ Head(<<"email", "post">>) = "email"
  OBVIOUS
<1>3. Tail(<<"post">>) = <<>> /\ Head(<<"post">>) = "post"
  OBVIOUS
<1>4. Tail(<<"email">>) = <<>> /\ Head(<<"email">>) = "email"
  OBVIOUS
<1>5. <<"email">> # <<"post">> /\ <<"email">> # <<>>
  OBVIOUS
<1> QED BY <1>1, <1>2, <1>3, <1>4, <1>5 DEF ChecksLeft

(* Who starts rivals everybody whose emails he is about.                   *)
LEMMA Contends ==
    ASSUME NEW r \in Requests, NEW t, Contend(r, t)
    PROVE  /\ rivals \subseteq rivals'
           /\ UNCHANGED <<departments, designations, mapped, employees, codes, displaced>>
           /\ \A q \in Requests \ {r} : EmailsOf(t) \cap EmailsOf(tx[q]) \subseteq rivals'
BY DEF Contend

LEMMA HireKeepsStructure ==
    ASSUME NEW r \in Requests, StructureInv, NEW e \in Employees, NEW email \in Emails,
           NEW post, PostShape(post), NEW checks \in {<<"post", "email">>, <<"email", "post">>},
           StartHire(r, e, email, post, checks)
    PROVE  StructureGood'
<1> DEFINE t == [op |-> "hire", pc |-> "check", e |-> e, email |-> email, post |-> post,
                 checks |-> checks, sure |-> FALSE, code |-> None, alone |-> FALSE]
<1>1. Goes(r, t) /\ Contend(r, t)
  <2>1. Begin(r, t) /\ Contend(r, t)
    BY DEF StartHire
  <2> QED BY <2>1 DEF Begin
<1>2. checks \in ChecksLeft /\ checks # <<"post">> /\ checks # <<>>
  BY DEF ChecksLeft
<1>3. HireShape(t) /\ t.op = "hire" /\ t.pc = "check" /\ t.checks = checks /\ ~t.sure
  BY <1>2 DEF HireShape
<1> HIDE DEF t
<1>4. StructureShape(t) /\ SureOf(t, mapped) /\ Claims(t) = {}
  BY <1>2, <1>3 DEF StructureShape, SureOf, Claims
<1> QED BY <1>1, <1>3, <1>4, Contends, HandlerGoes

LEMMA EditKeepsStructure ==
    ASSUME NEW r \in Requests, StructureInv, NEW e \in Employees, NEW change,
           "email" \in DOMAIN change => change.email \in Emails,
           "post" \in DOMAIN change => PostShape(change.post),
           "status" \in DOMAIN change => change.status \in {"pending", "active", "inactive"},
           StartEdit(r, e, change)
    PROVE  StructureGood'
<1> DEFINE t == [op |-> "edit", pc |-> "validate", e |-> e, row |-> employees[e], change |-> change,
                 sure |-> FALSE]
<1>1. Goes(r, t) /\ Contend(r, t) /\ e \in Hired
  BY DEF StartEdit, Begin
<1>2. RowShape(employees[e])
  BY <1>1 DEF StructureInv, StructureTypes
<1>3. /\ EditShape(t) /\ t.op = "edit" /\ t.pc = "validate" /\ t.row = employees[e] /\ t.e = e /\ ~t.sure
  BY <1>2 DEF EditShape
<1> HIDE DEF t
<1>4. StructureShape(t) /\ SureOf(t, mapped) /\ Claims(t) = {employees[e].email}
  BY <1>3 DEF StructureShape, SureOf, Claims
<1>5. \A m \in Claims(t), f \in Hired : employees[f].email = m => m \in rivals \/ f = t.e
  BY <1>1, <1>3, <1>4 DEF StructureInv, EmailsInv, OneHolder
<1> QED BY <1>1, <1>3, <1>4, <1>5, Contends, HandlerGoes

LEMMA ChecksKeepStructure ==
    ASSUME NEW r \in Requests, StructureInv, CheckEmail(r) \/ CheckPost(r)
    PROVE  StructureGood'
<1> DEFINE s == tx[r].checks
           a == [tx[r] EXCEPT !.checks = Tail(s)]
           b == [tx[r] EXCEPT !.checks = Tail(s), !.sure = TRUE]
<1>1. /\ At(r, "hire", "check") /\ s # <<>> /\ UNCHANGED structureVars
      /\ \/ Head(s) = "email" /\ Free(tx[r].email) /\ Goes(r, a)
         \/ Head(s) = "post" /\ Placeable(tx[r].post) /\ Goes(r, b)
  BY DEF CheckEmail, CheckPost, Checking
<1>2. HireShape(tx[r])
  BY <1>1 DEF At, StructureInv, StructureTypes, StructureShape
<1>3. s \in ChecksLeft /\ Tail(s) \in ChecksLeft
  BY <1>1, <1>2, ChecksDone DEF HireShape
<1>4. PICK t \in {a, b} :
        /\ Goes(r, t)
        /\ HireShape(t) /\ t.op = "hire" /\ t.pc = "check" /\ t.checks = Tail(s)
        /\ t.e = tx[r].e /\ t.email = tx[r].email /\ t.post = tx[r].post
        /\ t.sure => tx[r].sure \/ Placeable(t.post)
        /\ Head(s) = "email" => Free(t.email)
        /\ Head(s) \in {"email", "post"}
  <2>1. HireShape(a) /\ a.op = "hire" /\ a.pc = "check" /\ a.checks = Tail(s)
        /\ a.e = tx[r].e /\ a.email = tx[r].email /\ a.post = tx[r].post /\ a.sure = tx[r].sure
    BY <1>1, <1>2, <1>3 DEF HireShape, At
  <2>2. HireShape(b) /\ b.op = "hire" /\ b.pc = "check" /\ b.checks = Tail(s)
        /\ b.e = tx[r].e /\ b.email = tx[r].email /\ b.post = tx[r].post
    BY <1>1, <1>2, <1>3 DEF HireShape, At
  <2> HIDE DEF a, b, s
  <2> QED BY <1>1, <2>1, <2>2
<1> HIDE DEF a, b
<1>5. SureOf(t, mapped)
  <2>1. t.sure => Fits(t.post, mapped)
    BY <1>1, <1>4 DEF At, StructureInv, Placed, SureOf, Placeable, IsPost, Fits
  <2> QED BY <1>4, <2>1 DEF SureOf
<1>6. StructureShape(t) /\ EmailsOf(t) = EmailsOf(tx[r])
  BY <1>1, <1>4 DEF At, StructureShape, EmailsOf
<1>7. \A m \in Claims(t), e \in Hired : employees[e].email = m => m \in rivals \/ e = t.e
  <2> SUFFICES ASSUME NEW m \in Claims(t), NEW e \in Hired, employees[e].email = m
               PROVE  m \in rivals \/ e = t.e
    OBVIOUS
  <2>1. m = t.email /\ Tail(s) \in {<<"post">>, <<>>}
    BY <1>4 DEF Claims
  <2>2. CASE Head(s) = "email"
    BY <1>4, <2>1, <2>2 DEF Free, WithEmail
  <2>3. CASE Head(s) = "post"
    <3>1. s = <<"post">>
      BY <1>1, <1>3, <2>1, <2>3, ChecksDone
    <3>2. m \in Claims(tx[r])
      BY <1>1, <1>4, <2>1, <3>1 DEF At, Claims
    <3> QED BY <1>4, <3>2 DEF StructureInv, EmailsInv, Claimed
  <2> QED BY <1>4, <2>2, <2>3
<1>8. \A q \in Requests \ {r} : EmailsOf(t) \cap EmailsOf(tx[q]) \subseteq rivals
  BY <1>6 DEF StructureInv, EmailsInv, RivalsKnown
<1> QED BY <1>1, <1>4, <1>5, <1>6, <1>7, <1>8, HandlerGoes DEF structureVars

LEMMA ValidateKeepsStructure ==
    ASSUME NEW r \in Requests, StructureInv, ValidateEdit(r)
    PROVE  StructureGood'
<1> DEFINE c == tx[r].change
           sure == "post" \in DOMAIN c
           t == [tx[r] EXCEPT !.pc = "save", !.sure = sure]
<1>1. /\ At(r, "edit", "validate") /\ Goes(r, t) /\ UNCHANGED structureVars
      /\ "email" \in DOMAIN c => WithEmail(c.email) = {} \/ tx[r].e \in WithEmail(c.email)
      /\ "post" \in DOMAIN c => Placeable(c.post)
  BY DEF ValidateEdit
<1>2. EditShape(tx[r]) /\ tx[r].e \in Hired
  BY <1>1 DEF At, StructureInv, StructureTypes, StructureShape
<1>3. /\ EditShape(t) /\ t.op = "edit" /\ t.pc = "save" /\ t.e = tx[r].e /\ t.row = tx[r].row
      /\ t.change = c /\ t.sure = sure
  <2>1. sure \in BOOLEAN
    OBVIOUS
  <2> HIDE DEF sure
  <2> QED BY <1>1, <1>2, <2>1 DEF At, EditShape
<1> HIDE DEF t
<1>4. EmailSaved(t) = EmailSaved(tx[r])
  BY <1>3 DEF EmailSaved
<1>5. SureOf(t, mapped)
  BY <1>1, <1>3 DEF SureOf, Placeable, IsPost, Fits
<1>6. StructureShape(t) /\ EmailsOf(t) = EmailsOf(tx[r])
  BY <1>1, <1>3, <1>4 DEF At, StructureShape, EmailsOf
<1>7. \A m \in Claims(t), e \in Hired : employees[e].email = m => m \in rivals \/ e = t.e
  <2> SUFFICES ASSUME NEW m \in Claims(t), NEW e \in Hired, employees[e].email = m
               PROVE  m \in rivals \/ e = t.e
    OBVIOUS
  <2>1. CASE m = t.row.email
    <3>1. m \in Claims(tx[r])
      BY <1>1, <1>3, <2>1 DEF At, Claims
    <3> QED BY <1>3, <3>1 DEF StructureInv, EmailsInv, Claimed
  <2>2. CASE m = EmailSaved(t) /\ "email" \in DOMAIN c
    <3>1. m = c.email /\ e \in WithEmail(m)
      BY <1>3, <2>2 DEF EmailSaved, WithEmail
    <3>2. tx[r].e \in Hired /\ employees[tx[r].e].email = m
      BY <1>1, <2>2, <3>1 DEF WithEmail
    <3> QED BY <1>3, <3>2 DEF StructureInv, EmailsInv, OneHolder
  <2>3. CASE m = EmailSaved(t) /\ "email" \notin DOMAIN c
    BY <1>3, <2>1, <2>3 DEF EmailSaved
  <2> QED BY <1>3, <2>1, <2>2, <2>3 DEF Claims
<1>8. \A q \in Requests \ {r} : EmailsOf(t) \cap EmailsOf(tx[q]) \subseteq rivals
  BY <1>6 DEF StructureInv, EmailsInv, RivalsKnown
<1> QED BY <1>1, <1>2, <1>3, <1>5, <1>6, <1>7, <1>8, HandlerGoes DEF structureVars

LEMMA StructureStepKeeps ==
    ASSUME NEW r \in Requests, StructureInv, StructureStep(r)
    PROVE  StructureGood'
<1>1. EmailsSent \subseteq Emails
  BY StructureAssumption DEF EmailsSent
<1>2. \A post \in PostsSent : PostShape(post)
  BY DEF PostsSent, Posts, NoPost, PostShape
<1>3. ASSUME NEW e \in Employees, NEW email \in EmailsSent, NEW post \in PostsSent,
             create(r, e, email, post) \/ createHrOnboarding(r, e, email, post)
      PROVE  StructureGood'
  BY <1>1, <1>2, <1>3, HireKeepsStructure DEF create, createHrOnboarding
<1>4. ASSUME NEW e \in Employees, NEW email \in EmailsSent, NEW post \in PostsSent,
             updateHrOnboarding(r, e, email, post)
      PROVE  StructureGood'
  <2> DEFINE change == IF post = NoPost THEN [email |-> email, undefined |-> "post"]
                       ELSE [email |-> email, post |-> post]
  <2>1. StartEdit(r, e, change)
    BY <1>4 DEF updateHrOnboarding
  <2>2. "email" \in DOMAIN change => change.email \in Emails
    BY <1>1
  <2>3. "post" \in DOMAIN change => PostShape(change.post)
    BY <1>2
  <2>4. "status" \notin DOMAIN change
    OBVIOUS
  <2> HIDE DEF change
  <2> QED BY <2>1, <2>2, <2>3, <2>4, EditKeepsStructure
<1>5. ASSUME NEW e \in Employees, NEW change \in Changes, updateEmployee(r, e, change)
      PROVE  StructureGood'
  <2>1. \/ change \in [email : Emails]
        \/ change \in [status : {"active", "inactive"}]
    BY DEF Changes
  <2>2. "email" \in DOMAIN change => change.email \in Emails
    BY <2>1
  <2>3. "post" \in DOMAIN change => PostShape(change.post)
    BY <2>1
  <2>4. "status" \in DOMAIN change => change.status \in {"pending", "active", "inactive"}
    BY <2>1
  <2> QED BY <1>5, <2>2, <2>3, <2>4, EditKeepsStructure DEF updateEmployee
<1>11. ASSUME NEW e \in Employees, NEW given \in PostsGiven, transfer(r, e, given)
       PROVE  StructureGood'
  <2> DEFINE change == [post |-> Completed(given, employees[e].post)]
  <2>1. StartEdit(r, e, change) /\ e \in Hired
    BY <1>11 DEF transfer, updateEmployee
  <2>2. RowShape(employees[e])
    BY <2>1 DEF StructureInv, StructureTypes
  <2>3. PostShape(Completed(given, employees[e].post))
    BY <2>2 DEF RowShape, EmployeeRows, PostShape, PostsGiven, Completed
  <2>4. "post" \in DOMAIN change => PostShape(change.post)
    BY <2>3
  <2>5. "email" \notin DOMAIN change /\ "status" \notin DOMAIN change
    OBVIOUS
  <2> HIDE DEF change
  <2> QED BY <2>1, <2>4, <2>5, EditKeepsStructure
<1>6. ASSUME NEW t, t.op \in {"departments", "designations"}, Begin(r, t), UNCHANGED structureVars
      PROVE  StructureGood'
  <2>1. StructureShape(t) /\ SureOf(t, mapped) /\ EmailsOf(t) = {} /\ Claims(t) = {}
    BY <1>6 DEF StructureShape, SureOf, EmailsOf, Claims
  <2> QED BY <1>6, <2>1, HandlerGoes DEF Begin, structureVars
<1>7. ASSUME NEW list, updateDepartments(r, list) PROVE StructureGood'
  <2> DEFINE t == [op |-> "departments", pc |-> "save", list |-> list, seen |-> Listed(departments)]
  <2>1. t.op = "departments" /\ Begin(r, t) /\ UNCHANGED structureVars
    BY <1>7 DEF updateDepartments
  <2> HIDE DEF t
  <2> QED BY <1>6, <2>1
<1>8. ASSUME NEW list, NEW pairs, updateDesignations(r, list, pairs) PROVE StructureGood'
  <2> DEFINE t == [op |-> "designations", pc |-> "save", list |-> list, seen |-> Listed(designations),
                   pairs |-> pairs]
  <2>1. t.op = "designations" /\ Begin(r, t) /\ UNCHANGED structureVars
    BY <1>8 DEF updateDesignations
  <2> HIDE DEF t
  <2> QED BY <1>6, <2>1
<1>9. CASE SaveDepartments(r) \/ SaveDesignations(r)
  BY <1>9, ListsKeepStructure DEF SaveDepartments, SaveDesignations
<1>10. CASE FailStructure(r)
  BY <1>10, HandlerEnds DEF FailStructure
<1> QED
  BY <1>3, <1>4, <1>5, <1>7, <1>8, <1>9, <1>10, <1>11, ChecksKeepStructure, TakeKeepsStructure,
     InsertKeepsStructure, ValidateKeepsStructure, SaveKeepsStructure DEF StructureStep

LEMMA StructureInitially == Init => StructureInv
<1> SUFFICES ASSUME Init PROVE StructureInv
  OBVIOUS
<1>1. Sane
  BY SaneInitially
<1>2. \A q \in Requests : tx[q] = Idle
  BY DEF Init, PortalInit
<1>3. /\ employees = [e \in Employees |-> None] /\ Hired = {}
      /\ codes = IF FirstCode = 0 \/ HyphenInPrefix THEN {} ELSE {FirstCode}
  BY DEF Init, StructureInit, Hired
<1>4. StructureTypes
  BY <1>2, <1>3, IdleStructure DEF StructureTypes, Idle
<1>5. Placed
  BY <1>2, <1>3, IdleStructure DEF Placed, EmployeesPlaced
<1>6. EmailsInv
  BY <1>2, <1>3, IdleStructure DEF EmailsInv, OneHolder, RivalsKnown, Claimed
<1>7. CodesInv
  <2>1. codes \subseteq Nat /\ HasLast(codes)
    BY <1>3, StructureAssumption DEF HasLast
  <2>2. \A q \in Requests : ~Taken(q)
    BY <1>2 DEF Taken, At, Idle
  <2>3. HyphenInPrefix => codes \subseteq {1}
    BY <1>3
  <2> QED BY <2>1, <2>2, <2>3 DEF CodesInv
<1> QED BY <1>1, <1>4, <1>5, <1>6, <1>7 DEF StructureInv

LEMMA StructureKeep == StructureInv /\ [Next]_vars => StructureInv'
<1> SUFFICES ASSUME StructureInv, [Next]_vars PROVE StructureInv'
  OBVIOUS
<1>1. Sane /\ Sane'
  BY SaneKept DEF StructureInv
<1>2. CASE UNCHANGED structureVars /\ Untouched(StructureOps)
  <2>1. UNCHANGED <<mapped, employees, codes, displaced, rivals>> /\ Hired' = Hired
    BY <1>2 DEF structureVars, Hired
  <2>2. \A q \in Requests : \/ tx'[q] = tx[q]
                            \/ tx'[q].op \notin {"hire", "edit"}
    BY <1>2 DEF Untouched, StructureOps
  <2>3. \A q \in Requests : tx'[q].op \notin {"hire", "edit"} =>
           /\ StructureShape(tx'[q]) /\ SureOf(tx'[q], mapped)
           /\ EmailsOf(tx'[q]) = {} /\ Claims(tx'[q]) = {} /\ ~Taken(q)'
    BY DEF StructureShape, SureOf, EmailsOf, Claims, Taken, At
  <2>4. StructureTypes' /\ Placed'
    BY <2>1, <2>2, <2>3 DEF StructureInv, StructureTypes, Placed, EmployeesPlaced
  <2>5. EmailsInv'
    <3>1. OneHolder'
      BY <2>1 DEF StructureInv, EmailsInv, OneHolder
    <3>2. RivalsKnown'
      <4> SUFFICES ASSUME NEW q \in Requests, NEW o \in Requests, q # o
                   PROVE  EmailsOf(tx'[q]) \cap EmailsOf(tx'[o]) \subseteq rivals
        BY <2>1 DEF RivalsKnown
      <4> QED BY <2>2, <2>3 DEF StructureInv, EmailsInv, RivalsKnown
    <3>3. ASSUME NEW q \in Requests PROVE Claimed(tx[q])'
      <4> SUFFICES ASSUME NEW m \in Claims(tx'[q]), NEW e \in Hired, employees[e].email = m
                   PROVE  m \in rivals \/ e = tx'[q].e
        BY <2>1 DEF Claimed
      <4> QED BY <2>2, <2>3 DEF StructureInv, EmailsInv, Claimed
    <3> QED BY <3>1, <3>2, <3>3 DEF EmailsInv
  <2>6. CodesInv'
    <3>1. generateEmployeeCode' = generateEmployeeCode /\ HyphenInPrefix' = HyphenInPrefix
      BY <2>1, ScenarioStays, SameCode
    <3>2. \A q \in Requests : Taken(q)' => Taken(q) /\ tx'[q] = tx[q]
      BY <2>2, <2>3 DEF Taken, At
    <3> QED BY <2>1, <3>1, <3>2 DEF StructureInv, CodesInv
  <2> QED BY <1>1, <2>4, <2>5, <2>6 DEF StructureInv
<1>3. ASSUME NEW r \in Requests, StructureStep(r) PROVE StructureInv'
  BY <1>1, <1>3, StructureStepKeeps DEF StructureInv, StructureGood
<1> QED BY <1>1, <1>2, <1>3, StructureApart

(* An employee has a department and a designation that belong together, or *)
(* neither, unless a list was saved that his row or his handler missed.    *)
THEOREM EmployeesAreAlwaysPlaced == Spec => []EmployeesPlaced
<1>1. StructureInv => EmployeesPlaced
  BY DEF StructureInv, Placed
<1> QED BY StructureInitially, StructureKeep, <1>1, PTL DEF Spec

(* Nobody shares his email, unless two handlers were about it at once; and *)
(* a code taken while no other was is new, as long as the codes are padded *)
(* and no hyphen is in the prefix; with one, the year never has two codes. *)
THEOREM EmployeesAlwaysDiffer == Spec => []EmployeesDiffer
<1>1. StructureInv => EmployeesDiffer
  <2> SUFFICES ASSUME StructureInv PROVE EmployeesDiffer
    OBVIOUS
  <2>1. ASSUME NEW email \in Emails \ rivals PROVE Cardinality(WithEmail(email)) <= 1
    <3>1. \A e, f \in WithEmail(email) : e = f
      BY <2>1 DEF WithEmail, StructureInv, EmailsInv, OneHolder
    <3> QED BY <3>1, AtMostOne
  <2>2. ASSUME NEW r \in Requests, At(r, "hire", "insert"), tx[r].alone, \A n \in codes : n < Padding,
               ~HyphenInPrefix
        PROVE  tx[r].code \notin codes
    BY <2>2, NextCode DEF StructureInv, CodesInv, Taken
  <2>3. HyphenInPrefix => Cardinality(codes) <= 1
    BY AtMostOne DEF StructureInv, CodesInv
  <2> QED BY <2>1, <2>2, <2>3 DEF EmployeesDiffer
<1> QED BY StructureInitially, StructureKeep, <1>1, PTL DEF Spec

-----------------------------------------------------------------------------
(* Certificates: the handlers about them, and the forms with files, which  *)
(* are never about the library.                                            *)
Apart(t) == t.op = "file" => {"kind"} \subseteq DOMAIN t /\ t.kind \notin Library
FormShape(t) ==
    /\ t \in [op : {"form16"}, pc : {"next", "remove", "put", "save"}, left : SUBSET Employees,
              zip : {t.zip}, stored : {t.stored}, e : {t.e}, old : {t.old}, key : {t.key}]
    /\ t.pc # "next" => t.e \in t.left
    /\ t.pc = "remove" => \A f \in t.old : f.kind = "form16" /\ f.owner = t.e
Titled(f) == f.kind = "policy" => f.owner = None
CentreShape(t) ==
    /\ Apart(t)
    /\ t.op = "form16" => FormShape(t)
    /\ t.op = "document" => t.doc.kind \in Library /\ Titled(t.doc)

(* A handler that works on the certificate of e, has chosen it, or read it.*)
Worker(t, e) == \/ t.op = "form16" /\ e \in t.left
                \/ t.op = "document" /\ t.doc.owner = e
Chose(t, e) == t.op = "form16" /\ t.pc # "next" /\ t.e = e
HasRead(t, e) == t.op = "document" /\ t.doc.owner = e /\ t.doc.kind = "form16"

(* What is known of e while no two handlers work on his certificate and    *)
(* none failed half way.                                                   *)
Certified(e) == Forms(e) # {} <=> e \in certified
SettledBy(t, e) ==
    /\ Chose(t, e) => Forms(e) = (IF t.pc = "remove" THEN t.old ELSE {})
    /\ HasRead(t, e) => t.doc \in refs
Settled(e) ==
    /\ (\A q \in Requests : ~Chose(tx[q], e)) => Certified(e)
    /\ \A q \in Requests : SettledBy(tx[q], e)

OneEach == \A e \in Employees : \A f, g \in Forms(e) : f = g
Lone == \A q, o \in Requests, e \in Employees : q # o /\ Works(q, e) /\ Works(o, e) => e \in unsure
CentreInv ==
    /\ Sane /\ \A q \in Requests : CentreShape(tx[q])
    /\ \A f \in refs : Titled(f)
    /\ OneEach /\ Lone
    /\ \A e \in Employees \ unsure : Settled(e)

LEMMA WorkersAre ==
    /\ \A q \in Requests, e \in Employees : Works(q, e) <=> Worker(tx[q], e)
    /\ \A q \in Requests, e \in Employees : Works(q, e)' <=> Worker(tx'[q], e)
BY DEF Works, Worker

LEMMA ChosenWork ==
    ASSUME NEW t, NEW e, CentreShape(t), Chose(t, e) \/ HasRead(t, e)
    PROVE  Worker(t, e)
BY DEF CentreShape, FormShape, Chose, HasRead, Worker

(* The rows of the library and the handlers about them stay.               *)
LEMMA CentreStays ==
    ASSUME CentreInv, Sane', Untouched(CentreOps), UNCHANGED <<certified, unsure>>,
           \A q \in Requests : Apart(tx'[q]),
           \A f : f.kind \in Library => (f \in refs' <=> f \in refs)
    PROVE  CentreInv'
<1>1. \A q \in Requests : tx'[q] = tx[q] \/ {tx[q].op, tx'[q].op} \cap CentreOps = {}
  BY DEF Untouched
<1>2. \A e \in Employees : Forms(e)' = Forms(e)
  BY DEF Forms, Library
<1>3. \A q \in Requests : CentreShape(tx'[q])
  BY <1>1 DEF CentreInv, CentreShape, CentreOps
<1>4. \A q \in Requests, e \in Employees : Worker(tx'[q], e) => Worker(tx[q], e)
  BY <1>1 DEF Worker, CentreOps
<1>5. ASSUME NEW q \in Requests, NEW e \in Employees, SettledBy(tx[q], e) PROVE SettledBy(tx[q], e)'
  <2>1. CASE tx'[q] = tx[q]
    <3>1. HasRead(tx[q], e) => tx[q].doc \in refs'
      BY <1>5 DEF SettledBy, HasRead, Library
    <3> QED BY <1>2, <1>5, <2>1, <3>1 DEF SettledBy
  <2>2. CASE {tx[q].op, tx'[q].op} \cap CentreOps = {}
    BY <2>2 DEF SettledBy, Chose, HasRead, CentreOps
  <2> QED BY <1>1, <2>1, <2>2
<1>6. \A q \in Requests, e \in Employees : Chose(tx'[q], e) <=> Chose(tx[q], e)
  BY <1>1 DEF Chose, CentreOps
<1>7. ASSUME NEW e \in Employees \ unsure PROVE Settled(e)'
  BY <1>2, <1>5, <1>6 DEF CentreInv, Settled, Certified
<1>8. Lone'
  BY <1>4, WorkersAre DEF CentreInv, Lone
<1>9. OneEach'
  BY <1>2 DEF CentreInv, OneEach
<1>10. \A f \in refs' : Titled(f)
  BY DEF CentreInv, Titled, Library
<1> QED BY <1>3, <1>7, <1>8, <1>9, <1>10 DEF CentreInv

(* One handler goes on, and only touches certificates that it works on.    *)
LEMMA CentreGoes ==
    ASSUME NEW r \in Requests, NEW t, CentreInv, Sane', Goes(r, t), CentreShape(t),
           unsure \subseteq unsure', \A f \in refs' : Titled(f), OneEach',
           \A e \in Employees : Worker(t, e) =>
              Worker(tx[r], e) \/ e \in unsure' \/ \A q \in Requests \ {r} : ~Works(q, e),
           \A e \in Employees : ~Worker(tx[r], e) =>
              Forms(e)' = Forms(e) /\ (e \in certified' <=> e \in certified),
           \A e \in Employees \ unsure' : Worker(tx[r], e) \/ Worker(t, e) =>
              SettledBy(t, e)' /\ (~Chose(t, e) => Certified(e)')
    PROVE  CentreInv'
<1>1. tx'[r] = t /\ \A q \in Requests \ {r} : tx'[q] = tx[q]
  BY DEF Goes, CentreInv, Sane
<1>2. \A q \in Requests : CentreShape(tx'[q])
  BY <1>1 DEF CentreInv
<1>3. Lone'
  <2> SUFFICES ASSUME NEW q \in Requests, NEW o \in Requests, NEW e \in Employees,
                      q # o, Worker(tx'[q], e), Worker(tx'[o], e)
               PROVE  e \in unsure'
    BY WorkersAre DEF Lone
  <2>1. CASE q # r /\ o # r
    BY <1>1, <2>1, WorkersAre DEF CentreInv, Lone
  <2>2. ASSUME NEW p \in Requests \ {r}, Worker(t, e), Worker(tx[p], e) PROVE e \in unsure'
    BY <2>2, WorkersAre DEF CentreInv, Lone
  <2> QED BY <1>1, <2>1, <2>2
<1>4. ASSUME NEW e \in Employees \ unsure' PROVE Settled(e)'
  <2>1. CASE Worker(tx[r], e) \/ Worker(t, e)
    <3>1. \A q \in Requests \ {r} : ~Worker(tx'[q], e)
      BY <1>1, <1>4, <2>1, WorkersAre DEF CentreInv, Lone
    <3>2. \A q \in Requests \ {r} : ~Chose(tx'[q], e) /\ ~HasRead(tx'[q], e)
      BY <1>2, <3>1, ChosenWork
    <3>3. SettledBy(t, e)' /\ (~Chose(t, e) => Certified(e)')
      BY <1>4, <2>1
    <3>4. \A q \in Requests : SettledBy(tx[q], e)'
      BY <1>1, <3>2, <3>3 DEF SettledBy
    <3> QED BY <1>1, <3>3, <3>4 DEF Settled
  <2>2. CASE ~Worker(tx[r], e) /\ ~Worker(t, e)
    <3>1. ~Chose(t, e) /\ ~HasRead(t, e) /\ ~Chose(tx[r], e)
      BY <2>2, ChosenWork DEF CentreInv
    <3>2. Forms(e)' = Forms(e) /\ (e \in certified' <=> e \in certified)
      BY <2>2
    <3>3. Settled(e)
      BY <1>4 DEF CentreInv
    <3>4. \A q \in Requests : SettledBy(tx[q], e)'
      <4> SUFFICES ASSUME NEW q \in Requests PROVE SettledBy(tx[q], e)'
        OBVIOUS
      <4>1. CASE q = r
        BY <1>1, <3>1, <4>1 DEF SettledBy
      <4>2. CASE q # r
        <5>1. tx'[q] = tx[q] /\ SettledBy(tx[q], e)
          BY <1>1, <3>3, <4>2 DEF Settled
        <5>2. HasRead(tx[q], e) => tx[q].doc \in Forms(e)
          BY <5>1 DEF SettledBy, HasRead, Forms
        <5>3. HasRead(tx[q], e) => tx[q].doc \in refs'
          BY <3>2, <5>2 DEF Forms
        <5> QED BY <3>2, <5>1, <5>3 DEF SettledBy
      <4> QED BY <4>1, <4>2
    <3>5. (\A q \in Requests : ~Chose(tx'[q], e)) => Certified(e)'
      BY <1>1, <3>1, <3>2, <3>3 DEF Settled, Certified
    <3> QED BY <3>4, <3>5 DEF Settled
  <2> QED BY <2>1, <2>2
<1> QED BY <1>2, <1>3, <1>4 DEF CentreInv

(* The forms with files and the purge leave the library alone.             *)
LEMMA FilesKeepLibrary ==
    ASSUME NEW r \in Requests, Sane, \A q \in Requests : Apart(tx[q]), FilesStep(r)
    PROVE  /\ \A q \in Requests : Apart(tx'[q])
           /\ \A f : f.kind \in Library => (f \in refs' <=> f \in refs)
<1>1. ASSUME NEW q \in Requests, InForm(q)
      PROVE  LET v == [tx[q] EXCEPT !.alone = FALSE] IN Apart(v)
  <2>1. {"op", "kind"} \subseteq DOMAIN tx[q] /\ tx[q].kind \notin Library
    BY <1>1 DEF Sane, Handler, Apart, InForm
  <2> QED BY <2>1 DEF Apart
<1>2. ASSUME NEW kind, kind \notin Library, NEW line, NEW source, NEW new, NEW old, NEW todo,
             StartForm(r, kind, line, source, new, old, todo)
      PROVE  refs' = refs /\ \A q \in Requests : Apart(tx'[q])
  <2> DEFINE t == [op |-> "file", pc |-> "run", kind |-> kind, line |-> line, source |-> source,
                   new |-> new, old |-> old, todo |-> todo, cleaned |-> {}, alone |-> TRUE]
             u == [t EXCEPT !.alone = \A o \in Requests : ~Meets(o, t)]
             v(q) == [tx[q] EXCEPT !.alone = FALSE]
  <2>1. Apart(u)
    BY <1>2 DEF Apart
  <2>2. \A q \in Requests : InForm(q) => Apart(v(q))
    BY <1>1
  <2>3. tx' = [q \in Requests |->
                IF q = r THEN u ELSE IF InForm(q) /\ Meets(q, t) THEN v(q) ELSE tx[q]]
    BY <1>2 DEF StartForm
  <2>4. refs' = refs
    BY <1>2 DEF StartForm, fileVars
  <2> HIDE DEF t, u, v
  <2> QED BY <2>1, <2>2, <2>3, <2>4
<1>3. ASSUME purgeOrganizationAssets(r)
      PROVE  refs' = refs /\ \A q \in Requests : Apart(tx'[q])
  <2> DEFINE t == [op |-> "purge", pc |-> "delete", listed |-> objects]
             v(q) == [tx[q] EXCEPT !.alone = FALSE]
  <2>1. Apart(t)
    BY DEF Apart
  <2>2. \A q \in Requests : InForm(q) => Apart(v(q))
    BY <1>1
  <2>3. tx' = [q \in Requests |-> IF q = r THEN t ELSE IF InForm(q) THEN v(q) ELSE tx[q]]
    BY <1>3 DEF purgeOrganizationAssets
  <2>4. refs' = refs
    BY <1>3 DEF purgeOrganizationAssets, fileVars
  <2> HIDE DEF t, v
  <2> QED BY <2>1, <2>2, <2>3, <2>4
<1>4. ASSUME NEW t, Goes(r, t), Apart(t) PROVE \A q \in Requests : Apart(tx'[q])
  BY <1>4 DEF Goes, Sane
<1>5. Apart(Idle)
  BY DEF Apart, Idle
<1>6. ASSUME NEW t, t.op = tx[r].op, t.kind = tx[r].kind, DOMAIN t = DOMAIN tx[r] PROVE Apart(t)
  BY <1>6 DEF Apart
<1>7. CASE copyObject(r)
  <2> DEFINE t == [[tx[r] EXCEPT !.new = NewKey] EXCEPT !.todo = Tail(@)]
  <2>1. Goes(r, t) /\ InForm(r) /\ refs' = refs
    BY <1>7 DEF copyObject, Doing, Does, At, InForm
  <2>2. {"op", "kind"} \subseteq DOMAIN tx[r]
    BY <2>1 DEF Sane, Handler, Apart, InForm
  <2>3. DOMAIN t = DOMAIN tx[r] /\ t.op = tx[r].op /\ t.kind = tx[r].kind
    BY <2>2
  <2> HIDE DEF t
  <2> QED BY <1>4, <1>6, <2>1, <2>3
<1>8. ASSUME InForm(r), Does(r, tx[r]) PROVE \A q \in Requests : Apart(tx'[q])
  <2> DEFINE t == [tx[r] EXCEPT !.todo = Tail(@)]
  <2>1. {"op", "kind"} \subseteq DOMAIN tx[r]
    BY <1>8 DEF Sane, Handler, Apart, InForm
  <2>2. DOMAIN t = DOMAIN tx[r] /\ t.op = tx[r].op /\ t.kind = tx[r].kind
    BY <2>1
  <2>3. Goes(r, t)
    BY <1>8 DEF Does
  <2> HIDE DEF t
  <2> QED BY <1>4, <1>6, <2>2, <2>3
<1>9. CASE deleteObject(r)
  BY <1>8, <1>9 DEF deleteObject, Doing, At, InForm
<1>10. CASE cleanupExpenseReceipt(r)
  <2> DEFINE t == [[tx[r] EXCEPT !.cleaned = {tx[r].old}] EXCEPT !.todo = Tail(@)]
  <2>1. InForm(r) /\ (Goes(r, t) \/ Does(r, tx[r])) /\ refs' = refs
    BY <1>10 DEF cleanupExpenseReceipt, Doing, Does, At, InForm
  <2>2. {"op", "kind"} \subseteq DOMAIN tx[r]
    BY <2>1 DEF Sane, Handler, Apart, InForm
  <2>3. DOMAIN t = DOMAIN tx[r] /\ t.op = tx[r].op /\ t.kind = tx[r].kind
    BY <2>2
  <2> HIDE DEF t
  <2> QED BY <1>4, <1>6, <1>8, <2>1, <2>3
<1>11. CASE CommitForm(r)
  <2>1. refs' = (refs \ Dropped(r)) \cup Added(r) /\ Goes(r, Idle) /\ tx[r].kind \notin Library
    BY <1>11 DEF CommitForm, Ends, At, Apart
  <2>2. \A f \in Dropped(r) \cup Added(r) : f.kind \notin Library
    BY <2>1 DEF Dropped, Added, RefsTo, Ref
  <2> QED BY <1>4, <1>5, <2>1, <2>2
<1>12. CASE FailForm(r) \/ ClearReferences(r) \/ FailPurge(r)
  <2>1. Goes(r, Idle) /\ (refs' = refs \/ refs' = refs \ Cleared)
    BY <1>12 DEF FailForm, ClearReferences, FailPurge, Ends
  <2> QED BY <1>4, <1>5, <2>1 DEF Cleared
<1>13. CASE deleteAllUnderPrefix(r)
  <2> DEFINE t == [tx[r] EXCEPT !.pc = "clear"]
  <2>1. Goes(r, t) /\ tx[r].op = "purge" /\ refs' = refs
    BY <1>13 DEF deleteAllUnderPrefix, At
  <2>2. t.op = "purge"
    BY <2>1 DEF Sane, Handler
  <2> HIDE DEF t
  <2>3. Apart(t)
    BY <2>2 DEF Apart
  <2> QED BY <1>4, <2>1, <2>3
<1>14. {"receipt", "attachment", "document", "photo", "logo"} \cap Library = {}
  BY DEF Library
<1> QED
  BY <1>2, <1>3, <1>7, <1>9, <1>10, <1>11, <1>12, <1>13, <1>14
     DEF FilesStep, deleteLine, attachReceipt, reuseReceipt, createLeave, finalizeProfilePhoto,
         updateOrgProfile, updateDocuments, deleteObject, cleanupExpenseReceipt, copyObject

(* Nobody else works on a certificate of which nothing went wrong.         *)
LEMMA AloneWith ==
    ASSUME CentreInv, NEW r \in Requests, NEW e \in Employees \ unsure, Worker(tx[r], e)
    PROVE  /\ \A q \in Requests \ {r} : ~Works(q, e) /\ ~Chose(tx[q], e)
           /\ SettledBy(tx[r], e) /\ (~Chose(tx[r], e) => Certified(e))
<1>1. \A q \in Requests \ {r} : ~Works(q, e)
  BY WorkersAre DEF CentreInv, Lone
<1>2. \A q \in Requests \ {r} : ~Chose(tx[q], e)
  BY <1>1, WorkersAre, ChosenWork DEF CentreInv
<1> QED BY <1>1, <1>2 DEF CentreInv, Settled

LEMMA IdleCentre ==
    CentreShape(Idle) /\ \A e : ~Worker(Idle, e) /\ ~Chose(Idle, e) /\ ~HasRead(Idle, e)
BY DEF CentreShape, Apart, Idle, Worker, Chose, HasRead

LEMMA CentreStarts ==
    ASSUME NEW r \in Requests, NEW t, NEW S, CentreInv, Sane', StartCentre(r, t, S), CentreShape(t),
           \A e \in Employees : Worker(t, e) => e \in S,
           \A e \in Employees : ~Chose(t, e) /\ (HasRead(t, e) => t.doc \in refs)
    PROVE  CentreInv'
<1>1. /\ tx[r].pc = "idle" /\ Goes(r, t)
      /\ unsure' = unsure \cup {e \in S : \E q \in Requests : Works(q, e)}
      /\ refs' = refs /\ certified' = certified
  BY DEF StartCentre, Begin, fileVars
<1>2. \A e : ~Worker(tx[r], e)
  BY <1>1 DEF CentreInv, Sane, Handler, Worker
<1>3. \A e \in Employees : Forms(e)' = Forms(e)
  BY <1>1 DEF Forms
<1>4. OneEach'
  BY <1>3 DEF CentreInv, OneEach
<1>5. ASSUME NEW e \in Employees \ unsure', Worker(t, e)
      PROVE  SettledBy(t, e)' /\ Certified(e)'
  <2>1. \A q \in Requests : ~Works(q, e)
    BY <1>1, <1>5
  <2>2. \A q \in Requests : ~Chose(tx[q], e)
    BY <2>1, WorkersAre, ChosenWork DEF CentreInv
  <2>3. Certified(e)
    BY <1>1, <1>5, <2>2 DEF CentreInv, Settled
  <2> QED BY <1>1, <1>3, <2>3 DEF SettledBy, Certified
<1>6. ASSUME NEW e \in Employees, Worker(t, e), e \notin unsure' PROVE \A q \in Requests : ~Works(q, e)
  BY <1>1, <1>6
<1>7. \A f \in refs' : Titled(f)
  BY <1>1 DEF CentreInv
<1> QED BY <1>1, <1>2, <1>3, <1>4, <1>5, <1>6, <1>7, CentreGoes

(* A handler leaves the rows and the certified alone, and goes on with     *)
(* what it worked on.                                                      *)
LEMMA CentreSame ==
    ASSUME NEW r \in Requests, NEW t, CentreInv, Sane', Goes(r, t), CentreShape(t),
           UNCHANGED <<refs, certified>>, unsure \subseteq unsure',
           \A e \in Employees : Worker(t, e) => Worker(tx[r], e),
           \A e \in Employees \ unsure' : Worker(tx[r], e) =>
              ~HasRead(t, e) /\ (IF Chose(t, e) THEN Forms(e) = (IF t.pc = "remove" THEN t.old ELSE {})
                                 ELSE ~Chose(tx[r], e))
    PROVE  CentreInv'
<1>1. \A e \in Employees : Forms(e)' = Forms(e)
  BY DEF Forms
<1>2. OneEach'
  BY <1>1 DEF CentreInv, OneEach
<1>3. ASSUME NEW e \in Employees \ unsure', Worker(tx[r], e)
      PROVE  SettledBy(t, e)' /\ (~Chose(t, e) => Certified(e)')
  BY <1>1, <1>3, AloneWith DEF SettledBy, Certified
<1>4. \A f \in refs' : Titled(f)
  BY DEF CentreInv
<1> QED BY <1>1, <1>2, <1>3, <1>4, CentreGoes

LEMMA UploadShape ==
    ASSUME NEW left \in SUBSET Employees, NEW zip, NEW stored
    PROVE  /\ CentreShape(Upload(left, zip, stored))
           /\ \A e : /\ Worker(Upload(left, zip, stored), e) <=> e \in left
                     /\ ~Chose(Upload(left, zip, stored), e) /\ ~HasRead(Upload(left, zip, stored), e)
BY DEF Upload, CentreShape, FormShape, Apart, Worker, Chose, HasRead

LEMMA UploadKeepsCentre ==
    ASSUME NEW r \in Requests, CentreInv, Sane',
           FindForm(r) \/ RemoveForm(r) \/ PutForm(r) \/ SaveForm(r) \/ FailEntry(r) \/ EndOfForms(r)
    PROVE  CentreInv'
<1>1. FormShape(tx[r]) /\ tx[r].op = "form16"
  BY DEF CentreInv, CentreShape, FindForm, RemoveForm, PutForm, SaveForm, FailEntry, EndOfForms, At
<1>2. \A e : (Worker(tx[r], e) <=> e \in tx[r].left) /\ ~HasRead(tx[r], e)
  BY <1>1 DEF Worker, HasRead
<1>3. tx[r].left \subseteq Employees /\ (tx[r].pc # "next" => tx[r].e \in tx[r].left)
  BY <1>1 DEF FormShape
<1>4. CASE FindForm(r)
  <2>1. PICK c \in tx[r].left : Goes(r, [tx[r] EXCEPT !.pc = "remove", !.e = c, !.old = Forms(c)])
    BY <1>4 DEF FindForm
  <2>2. tx[r].pc = "next" /\ UNCHANGED <<refs, certified, unsure>>
    BY <1>4 DEF FindForm, At, fileVars, centreVars
  <2> DEFINE old == Forms(c)
             t == [tx[r] EXCEPT !.pc = "remove", !.e = c, !.old = old]
  <2>3. \A f \in old : f.kind = "form16" /\ f.owner = c
    BY DEF Forms
  <2> HIDE DEF old
  <2>4. FormShape(t) /\ t.op = "form16" /\ t.pc = "remove" /\ t.e = c /\ t.left = tx[r].left /\ t.old = old
    BY <1>1, <2>3 DEF FormShape
  <2>5. Goes(r, t)
    BY <2>1 DEF old
  <2> HIDE DEF t
  <2>6. /\ CentreShape(t)
        /\ \A e : /\ Worker(t, e) <=> e \in tx[r].left
                  /\ ~HasRead(t, e) /\ ~Chose(tx[r], e) /\ (Chose(t, e) <=> e = c)
    BY <2>2, <2>4 DEF CentreShape, Apart, Worker, HasRead, Chose
  <2> QED BY <1>2, <2>2, <2>4, <2>5, <2>6, CentreSame DEF old
<1>5. CASE RemoveForm(r)
  <2> DEFINE u == [tx[r] EXCEPT !.pc = "put"]
  <2>0. PICK t, c : t = u /\ c = tx[r].e
    OBVIOUS
  <2>1. Goes(r, t) /\ tx[r].pc = "remove" /\ UNCHANGED <<certified, unsure>> /\ refs' = refs \ tx[r].old
    BY <1>5, <2>0 DEF RemoveForm, At, centreVars
  <2>2. FormShape(t) /\ t.op = "form16" /\ t.pc = "put" /\ t.e = c /\ t.left = tx[r].left
    <3>1. FormShape(u) /\ u.op = "form16" /\ u.pc = "put" /\ u.e = tx[r].e /\ u.left = tx[r].left
      BY <1>1, <2>1 DEF FormShape
    <3> HIDE DEF u
    <3> QED BY <2>0, <3>1
  <2> HIDE DEF u
  <2>3. \A f \in tx[r].old : f.kind = "form16" /\ f.owner = c
    BY <1>1, <2>0, <2>1 DEF FormShape
  <2>4. /\ CentreShape(t)
        /\ \A e : /\ Worker(t, e) <=> e \in tx[r].left
                  /\ ~HasRead(t, e) /\ (Chose(tx[r], e) <=> e = c) /\ (Chose(t, e) <=> e = c)
    BY <1>1, <2>0, <2>1, <2>2 DEF CentreShape, Apart, Worker, HasRead, Chose
  <2>5. \A e : Forms(e)' \subseteq Forms(e) /\ (e # c => Forms(e)' = Forms(e))
    BY <2>1, <2>3 DEF Forms
  <2>6. ASSUME NEW e \in Employees \ unsure', Worker(tx[r], e)
        PROVE  SettledBy(t, e)' /\ (~Chose(t, e) => Certified(e)')
    <3>1. CASE e = c
      <4>1. Forms(e) = tx[r].old
        BY <2>1, <2>4, <2>6, <3>1, AloneWith DEF SettledBy
      <4>2. Forms(e)' = {}
        BY <2>1, <4>1 DEF Forms
      <4> QED BY <2>2, <2>4, <3>1, <4>2 DEF SettledBy
    <3>2. CASE e # c
      BY <2>1, <2>4, <2>5, <2>6, <3>2, AloneWith DEF SettledBy, Certified
    <3> QED BY <3>1, <3>2
  <2>7. OneEach'
    BY <2>5 DEF CentreInv, OneEach
  <2>8. \A f \in refs' : Titled(f)
    BY <2>1 DEF CentreInv
  <2>9. \A e \in Employees : ~Worker(tx[r], e) => Forms(e)' = Forms(e)
    BY <1>2, <1>3, <2>0, <2>1, <2>5
  <2> QED BY <1>2, <2>1, <2>4, <2>6, <2>7, <2>8, <2>9, CentreGoes
<1>6. CASE PutForm(r)
  <2> DEFINE t == [tx[r] EXCEPT !.pc = "save", !.key = NewKey]
  <2>1. Goes(r, t) /\ tx[r].pc = "put" /\ UNCHANGED <<refs, certified, unsure>>
    BY <1>6 DEF PutForm, At, centreVars
  <2>2. FormShape(t) /\ t.op = "form16" /\ t.pc = "save" /\ t.e = tx[r].e /\ t.left = tx[r].left
    BY <1>1, <2>1 DEF FormShape
  <2> HIDE DEF t
  <2>3. /\ CentreShape(t)
        /\ \A e : /\ Worker(t, e) <=> e \in tx[r].left
                  /\ ~HasRead(t, e) /\ (Chose(t, e) <=> Chose(tx[r], e))
    BY <1>1, <2>1, <2>2 DEF CentreShape, Apart, Worker, HasRead, Chose
  <2>4. \A e \in Employees \ unsure : Worker(tx[r], e) /\ Chose(tx[r], e) => Forms(e) = {}
    BY <2>1, AloneWith DEF SettledBy
  <2> QED BY <1>2, <2>1, <2>2, <2>3, <2>4, CentreSame
<1>7. CASE SaveForm(r)
  <2>0. PICK t, c, x : t = Entry(r, TRUE) /\ c = tx[r].e /\ x = Ref("form16", tx[r].e, tx[r].key)
    OBVIOUS
  <2>1. /\ Goes(r, t) /\ tx[r].pc = "save" /\ unsure' = unsure /\ Forms(c) = {}
        /\ refs' = refs \cup {x} /\ certified' = certified \cup {c}
    BY <1>7, <2>0 DEF SaveForm, At, HasForm
  <2>2. /\ CentreShape(t)
        /\ \A e : (Worker(t, e) <=> e \in tx[r].left \ {c}) /\ ~Chose(t, e) /\ ~HasRead(t, e)
    BY <1>3, <2>0, UploadShape DEF Entry
  <2>3. x.kind = "form16" /\ x.owner = c
    BY <2>0 DEF Ref
  <2>4. Forms(c)' = {x} /\ \A e : e # c => Forms(e)' = Forms(e)
    BY <2>1, <2>3 DEF Forms
  <2>5. \A e : Chose(tx[r], e) <=> e = c
    BY <1>1, <2>0, <2>1 DEF Chose
  <2>6. ASSUME NEW e \in Employees \ unsure', Worker(tx[r], e) PROVE SettledBy(t, e)' /\ Certified(e)'
    <3>1. CASE e = c
      BY <2>1, <2>2, <2>4, <3>1 DEF SettledBy, Certified
    <3>2. CASE e # c
      BY <2>1, <2>2, <2>4, <2>5, <2>6, <3>2, AloneWith DEF SettledBy, Certified
    <3> QED BY <3>1, <3>2
  <2>7. OneEach'
    BY <2>4 DEF CentreInv, OneEach
  <2>8. \A f \in refs' : Titled(f)
    BY <2>1, <2>3 DEF CentreInv, Titled
  <2>9. \A e \in Employees : ~Worker(tx[r], e) => Forms(e)' = Forms(e) /\ (e \in certified' <=> e \in certified)
    BY <1>2, <1>3, <2>0, <2>1, <2>4
  <2> QED BY <1>2, <2>1, <2>2, <2>6, <2>7, <2>8, <2>9, CentreGoes
<1>8. CASE FailEntry(r)
  <2> DEFINE t == Entry(r, FALSE)
  <2>1. Goes(r, t) /\ unsure' = unsure \cup {tx[r].e} /\ UNCHANGED <<refs, certified>>
    BY <1>8 DEF FailEntry, fileVars
  <2>2. /\ CentreShape(t)
        /\ \A e : (Worker(t, e) <=> e \in tx[r].left \ {tx[r].e}) /\ ~Chose(t, e) /\ ~HasRead(t, e)
    BY <1>3, UploadShape DEF Entry
  <2> HIDE DEF t
  <2>3. \A e \in Employees \ unsure' : ~Chose(tx[r], e)
    BY <2>1 DEF Chose
  <2> QED BY <1>2, <2>1, <2>2, <2>3, CentreSame
<1>9. CASE EndOfForms(r)
  <2>1. Goes(r, Idle) /\ tx[r].pc = "next" /\ UNCHANGED <<refs, certified, unsure>>
    BY <1>9 DEF EndOfForms, Ends, At, fileVars
  <2>2. \A e : ~Chose(tx[r], e)
    BY <2>1 DEF Chose
  <2> QED BY <2>1, <2>2, IdleCentre, CentreSame
<1> QED BY <1>4, <1>5, <1>6, <1>7, <1>8, <1>9

LEMMA DocumentsKeepCentre ==
    ASSUME NEW r \in Requests, CentreInv, Sane', softDelete(r) \/ updateDocument(r)
    PROVE  CentreInv'
<1>1. PICK doc : doc = tx[r].doc
  OBVIOUS
<1>2. tx[r].op = "document" /\ Goes(r, Idle) /\ unsure' = unsure
  BY DEF softDelete, updateDocument, Ends, At, centreVars
<1>3. doc.kind \in Library /\ Titled(doc)
  BY <1>1, <1>2 DEF CentreInv, CentreShape
<1>4. \A e : (Worker(tx[r], e) <=> e = doc.owner) /\ ~Chose(tx[r], e)
  BY <1>1, <1>2 DEF Worker, Chose
<1>5. \A e \in Employees : Worker(tx[r], e) => doc.kind = "form16" /\ HasRead(tx[r], e)
  BY <1>1, <1>2, <1>3, <1>4, PortalAssumption DEF Titled, Library, HasRead
<1>6. ASSUME NEW e \in Employees \ unsure, Worker(tx[r], e)
      PROVE  Certified(e) /\ doc \in refs /\ doc \in Forms(e) /\ \A f \in Forms(e) : f = doc
  <2>1. Certified(e) /\ doc \in refs
    BY <1>1, <1>4, <1>5, <1>6, AloneWith DEF SettledBy
  <2>2. doc \in Forms(e)
    BY <1>4, <1>5, <1>6, <2>1 DEF Forms
  <2> QED BY <2>1, <2>2 DEF CentreInv, OneEach
<1>7. CASE softDelete(r)
  <2>1. refs' = refs \ {doc} /\ certified' = certified \ {doc.owner}
    BY <1>1, <1>7 DEF softDelete
  <2>2. \A e \in Employees : Forms(e)' = Forms(e) \ {doc}
    BY <2>1 DEF Forms
  <2>3. \A e \in Employees : ~Worker(tx[r], e) => doc \notin Forms(e) /\ e # doc.owner
    BY <1>4 DEF Forms
  <2>4. OneEach' /\ \A f \in refs' : Titled(f)
    BY <2>1, <2>2 DEF CentreInv, OneEach
  <2>5. ASSUME NEW e \in Employees \ unsure', Worker(tx[r], e) PROVE Certified(e)'
    <3>1. Forms(e)' = {} /\ e \notin certified'
      BY <1>2, <1>4, <1>6, <2>1, <2>2, <2>5
    <3> QED BY <3>1 DEF Certified
  <2> QED BY <1>2, <2>1, <2>2, <2>3, <2>4, <2>5, IdleCentre, CentreGoes DEF SettledBy
<1>8. CASE updateDocument(r)
  <2>1. /\ refs' = refs \cup {doc} /\ certified' = certified
        /\ doc.kind = "form16" => Forms(doc.owner) = {} \/ doc \in refs
    BY <1>1, <1>8 DEF updateDocument, HasForm, centreVars
  <2>2. \A e \in Employees : Forms(e)' = Forms(e) \cup {f \in {doc} : doc.kind = "form16" /\ doc.owner = e}
    BY <2>1 DEF Forms
  <2>3. \A e \in Employees : ~Worker(tx[r], e) => Forms(e)' = Forms(e)
    BY <1>4, <2>2
  <2>4. \A e \in Employees : Forms(e)' = Forms(e) \/ Forms(e)' = {doc}
    BY <2>1, <2>2 DEF Forms
  <2>5. OneEach' /\ \A f \in refs' : Titled(f)
    BY <1>3, <2>1, <2>4 DEF CentreInv, OneEach
  <2>6. ASSUME NEW e \in Employees \ unsure', Worker(tx[r], e) PROVE Certified(e)'
    <3>1. Forms(e)' = Forms(e) /\ Certified(e)
      BY <1>2, <1>6, <2>2, <2>6
    <3> QED BY <2>1, <3>1 DEF Certified
  <2> QED BY <1>2, <2>1, <2>3, <2>5, <2>6, IdleCentre, CentreGoes DEF SettledBy
<1> QED BY <1>7, <1>8

LEMMA CentreStepKeeps ==
    ASSUME NEW r \in Requests, CentreInv, Sane', CentreStep(r)
    PROVE  CentreInv'
<1>0. ASSUME NEW S \in SUBSET Employees, NEW zip, StartCentre(r, Upload(S, zip, FALSE), S) PROVE CentreInv'
  <2>1. PICK t : t = Upload(S, zip, FALSE)
    OBVIOUS
  <2>2. /\ CentreShape(t) /\ StartCentre(r, t, S)
        /\ \A e : (Worker(t, e) <=> e \in S) /\ ~Chose(t, e) /\ ~HasRead(t, e)
    BY <1>0, <2>1, UploadShape
  <2> QED BY <2>2, CentreStarts
<1>1. ASSUME NEW e \in Employees, uploadForm16(r, e) PROVE CentreInv'
  <2>1. StartCentre(r, Upload({e}, FALSE, FALSE), {e}) /\ {e} \in SUBSET Employees
    BY <1>1 DEF uploadForm16
  <2> QED BY <1>0, <2>1
<1>2. ASSUME NEW S \in SUBSET Employees, uploadForm16Zip(r, S) PROVE CentreInv'
  <2>1. StartCentre(r, Upload(S, TRUE, FALSE), S)
    BY <1>2 DEF uploadForm16Zip
  <2> QED BY <1>0, <2>1
<1>3. ASSUME NEW doc \in refs, NEW change, findDocumentOrFail(r, doc, change) PROVE CentreInv'
  <2> DEFINE t == [op |-> "document", pc |-> change, doc |-> doc]
  <2>1. t.op = "document" /\ t.doc = doc
    OBVIOUS
  <2>2. StartCentre(r, t, {doc.owner} \ {None}) /\ doc.kind \in Library
    BY <1>3 DEF findDocumentOrFail
  <2> HIDE DEF t
  <2>3. CentreShape(t)
    BY <2>1, <2>2 DEF CentreInv, CentreShape, Apart
  <2>4. \A e \in Employees : Worker(t, e) => e \in {doc.owner} \ {None}
    BY <2>1, PortalAssumption DEF Worker
  <2>5. \A e \in Employees : ~Chose(t, e) /\ (HasRead(t, e) => t.doc \in refs)
    BY <2>1 DEF Chose, HasRead
  <2> QED BY <2>2, <2>3, <2>4, <2>5, CentreStarts
<1>4. ASSUME NEW t, t.op \in {"none", "policy"}, Goes(r, t), tx[r].op \notin {"form16"},
             UNCHANGED <<refs, certified, unsure>>
      PROVE  CentreInv'
  <2>1. /\ CentreShape(t)
        /\ \A e : ~Worker(t, e) /\ ~Chose(t, e) /\ ~HasRead(t, e) /\ ~Chose(tx[r], e)
    BY <1>4 DEF CentreShape, Apart, Worker, Chose, HasRead
  <2> QED BY <1>4, <2>1, CentreSame
<1>5. CASE uploadPublicDocument(r)
  <2> DEFINE t == [op |-> "policy", pc |-> "save", key |-> NewKey]
  <2>1. t.op = "policy" /\ Goes(r, t) /\ tx[r].pc = "idle" /\ UNCHANGED <<refs, certified, unsure>>
    BY <1>5 DEF uploadPublicDocument, Begin, centreVars
  <2>2. tx[r].op # "form16"
    BY <2>1 DEF CentreInv, Sane, Handler
  <2> HIDE DEF t
  <2> QED BY <1>4, <2>1, <2>2
<1>6. CASE FailCentre(r)
  <2>1. Idle.op = "none"
    BY DEF Idle
  <2> QED BY <1>4, <1>6, <2>1 DEF FailCentre, Ends, fileVars, centreVars
<1>7. CASE SavePublic(r)
  <2>1. PICK x : x = Ref("policy", None, tx[r].key)
    OBVIOUS
  <2>2. tx[r].op = "policy" /\ Goes(r, Idle) /\ refs' = refs \cup {x} /\ UNCHANGED <<certified, unsure>>
    BY <1>7, <2>1 DEF SavePublic, Ends, At, centreVars
  <2>3. x.kind = "policy" /\ x.owner = None
    BY <2>1 DEF Ref
  <2>4. \A e \in Employees : Forms(e)' = Forms(e)
    BY <2>2, <2>3 DEF Forms
  <2>5. OneEach' /\ \A f \in refs' : Titled(f)
    BY <2>2, <2>3, <2>4 DEF CentreInv, OneEach, Titled
  <2>6. \A e : ~Worker(tx[r], e)
    BY <2>2 DEF Worker
  <2> QED BY <2>2, <2>4, <2>5, <2>6, IdleCentre, CentreGoes
<1> QED
  BY <1>1, <1>2, <1>3, <1>5, <1>6, <1>7, UploadKeepsCentre, DocumentsKeepCentre DEF CentreStep

LEMMA CentreInitially == Init => CentreInv
<1> SUFFICES ASSUME Init PROVE CentreInv
  OBVIOUS
<1>1. refs = {} /\ certified = {} /\ \A q \in Requests : tx[q] = Idle
  BY DEF Init, FilesInit, CentreInit, PortalInit
<1>2. \A e \in Employees : Forms(e) = {} /\ \A q \in Requests : ~Worker(tx[q], e)
  BY <1>1, IdleCentre DEF Forms
<1>3. \A e \in Employees : Settled(e)
  BY <1>1, <1>2, IdleCentre DEF Settled, Certified, SettledBy
<1> QED BY <1>1, <1>2, <1>3, SaneInitially, IdleCentre, WorkersAre DEF CentreInv, OneEach, Lone

LEMMA CentreKeep == CentreInv /\ [Next]_vars => CentreInv'
<1> SUFFICES ASSUME CentreInv, [Next]_vars PROVE CentreInv'
  OBVIOUS
<1>1. Sane /\ Sane' /\ \A q \in Requests : Apart(tx[q])
  BY SaneKept DEF CentreInv, CentreShape
<1>2. ASSUME UNCHANGED documentVars, Untouched(FileOps), Untouched(CentreOps) PROVE CentreInv'
  <2>1. \A q \in Requests : Apart(tx'[q])
    BY <1>1, <1>2 DEF Untouched, FileOps, Apart
  <2> QED BY <1>1, <1>2, <2>1, CentreStays DEF documentVars, fileVars, centreVars
<1>3. ASSUME NEW r \in Requests, FilesStep(r), UNCHANGED centreVars, Untouched(CentreOps) PROVE CentreInv'
  BY <1>1, <1>3, FilesKeepLibrary, CentreStays DEF centreVars
<1>4. ASSUME NEW m, NEW c, uploadFile(m, c), UNCHANGED centreVars, tx' = tx PROVE CentreInv'
  <2>1. refs' = refs /\ Untouched(CentreOps)
    BY <1>4 DEF uploadFile, Untouched
  <2> QED BY <1>1, <1>4, <2>1, CentreStays DEF centreVars
<1>5. ASSUME NEW r \in Requests, CentreStep(r) PROVE CentreInv'
  BY <1>1, <1>5, CentreStepKeeps
<1> QED BY <1>1, <1>2, <1>3, <1>4, <1>5, DocumentsApart

(* An employee has one certificate of a year at most, and while no request *)
(* about it runs the one uploaded last, unless one failed or two overlapped.*)
THEOREM AlwaysOneForm16 == Spec => []OneForm16
<1>1. CentreInv => OneForm16
  <2> SUFFICES ASSUME CentreInv, NEW e \in Employees
               PROVE  /\ Cardinality(Forms(e)) <= 1
                      /\ e \notin unsure /\ (\A r \in Requests : ~Works(r, e)) =>
                            (Forms(e) # {} <=> e \in certified)
    BY DEF OneForm16
  <2>1. Cardinality(Forms(e)) <= 1
    BY AtMostOne DEF CentreInv, OneEach
  <2>2. ASSUME e \notin unsure, \A r \in Requests : ~Works(r, e) PROVE Certified(e)
    <3>1. \A r \in Requests : ~Chose(tx[r], e)
      BY <2>2, WorkersAre, ChosenWork DEF CentreInv
    <3> QED BY <2>2, <3>1 DEF CentreInv, Settled
  <2> QED BY <2>1, <2>2 DEF Certified
<1> QED BY CentreInitially, CentreKeep, <1>1, PTL DEF Spec

-----------------------------------------------------------------------------
(* Skills: what a row and a handler of the catalogue look like, whatever   *)
(* overlapped.                                                             *)
SkillRows == [level : 1 .. 4, name : Names \cup Employees, up : Nat \cup {None},
              category : Nat \cup {None}, active : BOOLEAN, live : BOOLEAN]
Rooted(x) == IF x.level = Category THEN x.up = None
             ELSE x.up \in Ids /\ rows[x.up].level = x.level - 1

CatalogShape(t) ==
    /\ t.op = "create" =>
          /\ t \in [op : {"create"}, pc : {"save"}, row : SkillRows, ids : {{t.row.up} \ {None}}, alone : BOOLEAN]
          /\ Rooted(t.row)
    /\ t.op = "update" =>
          /\ t \in [op : {"update"}, pc : {"save"}, id : Ids, read : SkillRows, row : SkillRows,
                    ids : {{t.id, t.read.up, t.row.up} \ {None}}, alone : BOOLEAN]
          /\ Rooted(t.row) /\ Rooted(t.read) /\ t.row.live /\ t.read.live
          /\ t.row.level = rows[t.id].level /\ t.read.level = rows[t.id].level
    /\ t.op = "delete" =>
          t \in [op : {"delete"}, pc : {"save"}, id : Ids, ids : {{t.id}}, alone : BOOLEAN]
    /\ t.op = "defaults" =>
          /\ t \in [op : {"defaults"}, pc : {"save"}, level : 1 .. 4, last : Nat \cup {None},
                    category : Nat \cup {None}, ids : SUBSET Ids, alone : BOOLEAN]
          /\ IF t.level = Category THEN t.last = None
             ELSE t.last \in t.ids /\ rows[t.last].level = t.level - 1
          /\ t.level = Subcategory => t.category = t.last

(* What a handler that nothing overlapped still finds.                     *)
Follows(x) == x.level = Skill => x.category = rows[x.up].up
Known(t) ==
    t.op \in CatalogOps /\ t.alone =>
        /\ t.op = "create" => (t.row.level # Category => rows[t.row.up].live) /\ Follows(t.row)
        /\ t.op = "update" =>
              /\ rows[t.id] = t.read
              /\ IF t.row.up = t.read.up THEN t.row.category = t.read.category
                 ELSE rows[t.row.up].live /\ Follows(t.row)
        /\ t.op = "delete" => \A i \in Ids : rows[i].live => rows[i].up # t.id
        /\ t.op = "defaults" => /\ t.level # Category => rows[t.last].live
                                /\ t.level = Skill => rows[t.last].up = t.category

(* A live row is below a live row, and a skill repeats its category.       *)
TreeAt(i) ==
    rows[i].live /\ rows[i].level # Category /\ {i, rows[i].up} \cap entangled = {} => rows[rows[i].up].live
CategoryKept(i) ==
    rows[i].level = Skill /\ {i, rows[i].up} \cap entangled = {} /\ rows[i].up \notin moved => Follows(rows[i])
InTree == \A i \in Ids : Rooted(rows[i]) /\ TreeAt(i) /\ CategoryKept(i)

Lonely ==
    \A q, o \in Requests :
        q # o /\ {tx[q].op, tx[o].op} \subseteq CatalogOps /\ tx[q].ids \cap tx[o].ids # {} => ~tx[q].alone
CatalogInv ==
    /\ Sane /\ rows \in Seq(SkillRows) /\ InTree
    /\ \A q \in Requests : CatalogShape(tx[q]) /\ Known(tx[q])
    /\ Lonely

LEMMA IdsAre ==
    ASSUME rows \in Seq(SkillRows)
    PROVE  Len(rows) \in Nat /\ Ids = 1 .. Len(rows) /\ Ids \subseteq Nat /\ \A i \in Ids : rows[i] \in SkillRows
BY DEF Ids

(* The rows that a handler is about exist.                                 *)
LEMMA CatalogIds ==
    ASSUME NEW t, CatalogShape(t), t.op \in CatalogOps
    PROVE  t.ids \subseteq Ids /\ t.alone \in BOOLEAN /\ {"op", "ids", "alone"} \subseteq DOMAIN t
BY DEF CatalogShape, CatalogOps, Rooted, Category

LEMMA Overlaps ==
    ASSUME CatalogInv, NEW q \in Requests, NEW ids
    PROVE  Overlap(q, ids) <=> tx[q].op \in CatalogOps /\ tx[q].ids \cap ids # {}
BY CatalogIds DEF Overlap, CatalogInv, Sane, Handler

LEMMA NotAlone ==
    ASSUME NEW t, t.op \in CatalogOps, CatalogShape(t)
    PROVE  LET v == [t EXCEPT !.alone = FALSE] IN
           CatalogShape(v) /\ v.op = t.op /\ v.ids = t.ids /\ v.alone = FALSE
<1> DEFINE v == [t EXCEPT !.alone = FALSE]
<1>1. CASE t.op = "create"
  BY <1>1 DEF CatalogShape, Rooted
<1>2. CASE t.op = "update"
  BY <1>2 DEF CatalogShape, Rooted
<1>3. CASE t.op = "delete"
  BY <1>3 DEF CatalogShape
<1>4. CASE t.op = "defaults"
  BY <1>4 DEF CatalogShape
<1> QED BY <1>1, <1>2, <1>3, <1>4 DEF CatalogOps

(* A write of rows: those with these ids, and new ones below them.         *)
Writes(ids, alone) ==
    /\ rows' \in Seq(SkillRows) /\ Ids \subseteq Ids'
    /\ \A i \in Ids : /\ rows'[i].level = rows[i].level
                      /\ i \notin ids => rows'[i] = rows[i]
                      /\ rows'[i].up # rows[i].up => i \in moved'
                      /\ alone /\ ~rows'[i].live =>
                            ~rows[i].live \/ \A j \in Ids : rows[j].live => rows[j].up # i
    /\ \A i \in Ids' :
          \/ i \in Ids /\ rows'[i] = rows[i]
          \/ /\ rows'[i].live => rows'[i].up \in ids \cup {None}
             /\ Rooted(rows[i])'
             /\ alone => TreeAt(i)' /\ CategoryKept(i)'
    /\ moved \subseteq moved'
    /\ entangled' = entangled \cup (IF alone THEN {} ELSE ids \cup (Ids' \ Ids))

LEMMA RootedStays ==
    ASSUME NEW x, NEW ids, NEW alone, Writes(ids, alone), Rooted(x)
    PROVE  Rooted(x)'
BY DEF Writes, Rooted

LEMMA ShapeStays ==
    ASSUME NEW t, NEW ids, NEW alone, Writes(ids, alone), CatalogShape(t)
    PROVE  CatalogShape(t)'
<1>1. Ids \subseteq Ids' /\ \A i \in Ids : rows'[i].level = rows[i].level
  BY DEF Writes
<1>2. CASE t.op = "create"
  BY <1>2, RootedStays DEF CatalogShape
<1>3. CASE t.op = "update"
  <2>1. Rooted(t.row)' /\ Rooted(t.read)'
    BY <1>3, RootedStays DEF CatalogShape
  <2> QED BY <1>1, <1>3, <2>1 DEF CatalogShape
<1>4. CASE t.op = "delete"
  BY <1>1, <1>4 DEF CatalogShape
<1>5. CASE t.op = "defaults"
  BY <1>1, <1>5 DEF CatalogShape
<1> QED BY <1>2, <1>3, <1>4, <1>5 DEF CatalogShape

LEMMA KnownStays ==
    ASSUME NEW t, NEW ids, NEW alone, Writes(ids, alone), rows \in Seq(SkillRows),
           CatalogShape(t), Known(t), t.op \in CatalogOps /\ t.alone => t.ids \cap ids = {}
    PROVE  Known(t)'
<1> SUFFICES ASSUME t.op \in CatalogOps, t.alone PROVE Known(t)'
  BY DEF Known
<1>1. Ids \subseteq Nat /\ None \notin Ids
  BY IdsAre, CatalogAssumption
<1>2. \A i \in t.ids \cap Ids : rows'[i] = rows[i]
  BY DEF Writes
<1>3. CASE t.op = "create"
  BY <1>1, <1>2, <1>3 DEF Known, CatalogShape, Rooted, Follows, Category, Skill
<1>4. CASE t.op = "update"
  BY <1>1, <1>2, <1>4 DEF Known, CatalogShape, Rooted, Follows, Category, Skill
<1>5. CASE t.op = "delete"
  BY <1>1, <1>2, <1>5, CatalogAssumption DEF Known, CatalogShape, Writes
<1>6. CASE t.op = "defaults"
  <2>1. t.level # Category => t.last \in t.ids /\ t.last \in Ids
    BY <1>6 DEF CatalogShape
  <2>2. t.level # Category => rows'[t.last] = rows[t.last]
    BY <1>2, <2>1
  <2>3. /\ t.level # Category => rows[t.last].live
        /\ t.level = Skill => rows[t.last].up = t.category
    BY <1>6 DEF Known
  <2>4. Skill # Category
    BY DEF Skill, Category
  <2> QED BY <1>6, <2>2, <2>3, <2>4 DEF Known
<1> QED BY <1>3, <1>4, <1>5, <1>6 DEF CatalogOps

LEMMA TreeStays ==
    ASSUME NEW ids, NEW alone \in BOOLEAN, Writes(ids, alone), InTree, rows \in Seq(SkillRows)
    PROVE  InTree'
<1> SUFFICES ASSUME NEW i \in Ids' PROVE Rooted(rows[i])' /\ TreeAt(i)' /\ CategoryKept(i)'
  BY DEF InTree
<1>1. CASE i \in Ids /\ rows'[i] = rows[i]
  <2> DEFINE u == rows[i].up
  <2>1. Rooted(rows[i]) /\ TreeAt(i) /\ CategoryKept(i)
    BY <1>1 DEF InTree
  <2>2. Rooted(rows[i])'
    BY <1>1, <2>1 DEF Writes, Rooted
  <2>3. TreeAt(i)'
    <3> SUFFICES ASSUME rows[i].live, rows[i].level # Category, {i, u} \cap entangled' = {}
                 PROVE  rows'[u].live
      BY <1>1 DEF TreeAt
    <3>1. u \in Ids /\ rows[u].live
      BY <2>1 DEF TreeAt, Rooted, Writes
    <3>2. CASE ~alone
      BY <3>1, <3>2 DEF Writes
    <3>3. CASE alone
      BY <1>1, <3>1, <3>3 DEF Writes
    <3> QED BY <3>2, <3>3
  <2>4. CategoryKept(i)'
    <3> SUFFICES ASSUME rows[i].level = Skill, {i, u} \cap entangled' = {}, u \notin moved'
                 PROVE  rows[i].category = rows'[u].up
      BY <1>1 DEF CategoryKept, Follows
    <3>1. u \in Ids /\ rows[i].category = rows[u].up
      BY <2>1 DEF CategoryKept, Follows, Rooted, Writes, Skill, Category
    <3> QED BY <3>1 DEF Writes
  <2> QED BY <2>2, <2>3, <2>4
<1>2. CASE ~(i \in Ids /\ rows'[i] = rows[i])
  <2>1. Rooted(rows[i])'
    BY <1>2 DEF Writes
  <2>2. CASE alone
    BY <1>2, <2>1, <2>2 DEF Writes
  <2>3. CASE ~alone
    <3>1. i \in entangled'
      BY <1>2, <2>3 DEF Writes
    <3> QED BY <2>1, <3>1 DEF TreeAt, CategoryKept
  <2> QED BY <2>2, <2>3
<1> QED BY <1>1, <1>2

LEMMA CatalogWritten ==
    ASSUME CatalogInv, Sane', NEW r \in Requests, NEW ids, NEW alone \in BOOLEAN, NEW t,
           tx[r].op \in CatalogOps, tx[r].ids = ids, tx[r].alone = alone,
           Writes(ids, alone), tx' = [tx EXCEPT ![r] = t],
           CatalogShape(t)', Known(t)',
           t.op \in CatalogOps => t.alone = alone /\ t.ids \subseteq ids \cup (Ids' \ Ids)
    PROVE  CatalogInv'
<1>1. rows \in Seq(SkillRows) /\ rows' \in Seq(SkillRows) /\ InTree /\ Lonely
  BY DEF CatalogInv, Writes
<1>2. tx'[r] = t /\ \A q \in Requests \ {r} : tx'[q] = tx[q]
  BY DEF CatalogInv, Sane
<1>3. InTree'
  BY <1>1, TreeStays
<1>4. ASSUME NEW q \in Requests \ {r} PROVE CatalogShape(tx[q])' /\ Known(tx[q])'
  <2>1. PICK x : x = tx[q] /\ x = tx'[q]
    BY <1>2
  <2>2. CatalogShape(x) /\ Known(x)
    BY <2>1 DEF CatalogInv
  <2>3. x.op \in CatalogOps /\ x.alone => x.ids \cap ids = {}
    BY <1>1, <2>1 DEF Lonely
  <2>4. CatalogShape(x)' /\ Known(x)'
    BY <1>1, <2>2, <2>3, ShapeStays, KnownStays
  <2> QED BY <2>1, <2>4
<1>5. ASSUME NEW q \in Requests PROVE CatalogShape(tx[q])' /\ Known(tx[q])'
  BY <1>2, <1>4
<1>6. Lonely'
  <2> SUFFICES ASSUME NEW q \in Requests, NEW o \in Requests, q # o,
                      tx'[q].op \in CatalogOps, tx'[o].op \in CatalogOps,
                      tx'[q].ids \cap tx'[o].ids # {}
               PROVE  ~tx'[q].alone
    BY DEF Lonely
  <2>1. \A p \in Requests \ {r} : tx[p].op \in CatalogOps => tx[p].ids \subseteq Ids
    BY CatalogIds DEF CatalogInv
  <2>2. CASE q # r /\ o # r
    BY <1>1, <1>2, <2>2 DEF Lonely
  <2>3. CASE q = r
    <3>1. ids \cap tx[o].ids # {} /\ t.alone = alone /\ tx[o].op \in CatalogOps
      BY <1>2, <2>1, <2>3
    <3> QED BY <1>1, <1>2, <2>3, <3>1 DEF Lonely
  <2>4. CASE o = r
    <3>1. ids \cap tx[q].ids # {} /\ tx[q].op \in CatalogOps
      BY <1>2, <2>1, <2>4
    <3> QED BY <1>1, <1>2, <2>4, <3>1 DEF Lonely
  <2> QED BY <2>2, <2>3, <2>4
<1> QED BY <1>1, <1>3, <1>5, <1>6 DEF CatalogInv

(* A handler that starts, and the ones it overlaps.                        *)
LEMMA ReadsKeep ==
    ASSUME CatalogInv, Sane', NEW r \in Requests, NEW t, Reads(r, t),
           t.op \in CatalogOps, CatalogShape(t), Known(t), t.alone
    PROVE  CatalogInv'
<1> DEFINE b == \A o \in Requests : ~Overlap(o, t.ids)
<1>1. b \in BOOLEAN
  OBVIOUS
<1>2. /\ tx[r].pc = "idle"
      /\ tx' = [q \in Requests |->
                   IF q = r THEN [t EXCEPT !.alone = b]
                   ELSE IF Overlap(q, t.ids) THEN [tx[q] EXCEPT !.alone = FALSE] ELSE tx[q]]
      /\ rows' = rows /\ moved' = moved /\ entangled' = entangled
  BY DEF Reads, catalogVars
<1>3. b <=> \A o \in Requests : ~(tx[o].op \in CatalogOps /\ tx[o].ids \cap t.ids # {})
  BY Overlaps
<1> HIDE DEF b
<1>4. [t EXCEPT !.alone = TRUE] = t
  BY DEF CatalogShape, CatalogOps
<1>5. IF b THEN tx'[r] = t ELSE tx'[r] = [t EXCEPT !.alone = FALSE]
  BY <1>1, <1>2, <1>4
<1>6. \A x : (CatalogShape(x) => CatalogShape(x)') /\ (Known(x) => Known(x)')
  BY <1>2 DEF CatalogShape, Known, Rooted, Follows, Ids
<1>7. PICK y : y = tx'[r] /\ CatalogShape(y) /\ Known(y) /\ y.op = t.op /\ y.ids = t.ids /\ y.alone = b
  <2>1. CASE b
    BY <1>1, <1>5, <2>1
  <2>2. CASE ~b
    <3> DEFINE v == [t EXCEPT !.alone = FALSE]
    <3>1. CatalogShape(v) /\ v.op = t.op /\ v.ids = t.ids /\ v.alone = FALSE
      BY NotAlone
    <3>2. Known(v)
      BY <3>1 DEF Known
    <3> QED BY <1>1, <1>5, <2>2, <3>1, <3>2
  <2> QED BY <2>1, <2>2
<1>8. ASSUME NEW q \in Requests \ {r}
      PROVE  \E x : /\ x = tx'[q] /\ CatalogShape(x) /\ Known(x) /\ x.op = tx[q].op
                    /\ x.op \in CatalogOps => /\ x.ids = tx[q].ids
                                              /\ x.alone => tx[q].alone /\ tx[q].ids \cap t.ids = {}
  <2>1. PICK o : o = tx[q] /\ CatalogShape(o) /\ Known(o)
    BY DEF CatalogInv
  <2>2. CASE Overlap(q, t.ids)
    <3>1. o.op \in CatalogOps /\ tx'[q] = [o EXCEPT !.alone = FALSE]
      BY <1>2, <2>1, <2>2, Overlaps
    <3> QED BY <2>1, <3>1, NotAlone DEF Known
  <2>3. CASE ~Overlap(q, t.ids)
    <3>1. tx'[q] = o /\ (o.op \in CatalogOps => o.ids \cap t.ids = {})
      BY <1>2, <2>1, <2>3, Overlaps
    <3> QED BY <2>1, <3>1
  <2> QED BY <2>2, <2>3
<1>9. \A q \in Requests : CatalogShape(tx[q])' /\ Known(tx[q])'
  <2>1. SUFFICES ASSUME NEW q \in Requests PROVE CatalogShape(tx[q])' /\ Known(tx[q])'
    OBVIOUS
  <2>2. PICK x : x = tx'[q] /\ CatalogShape(x) /\ Known(x)
    BY <1>7, <1>8
  <2>3. CatalogShape(x)' /\ Known(x)'
    BY <1>6, <2>2
  <2> QED BY <2>2, <2>3
<1>10. Lonely'
  <2> SUFFICES ASSUME NEW q \in Requests, NEW o \in Requests, q # o,
                      tx'[q].op \in CatalogOps, tx'[o].op \in CatalogOps,
                      tx'[q].ids \cap tx'[o].ids # {}
               PROVE  ~tx'[q].alone
    BY DEF Lonely
  <2>1. CASE q # r /\ o # r
    BY <1>8, <2>1 DEF CatalogInv, Lonely
  <2>2. CASE q = r
    BY <1>3, <1>7, <1>8, <2>2
  <2>3. CASE o = r
    BY <1>7, <1>8, <2>3
  <2> QED BY <2>1, <2>2, <2>3
<1>11. InTree' /\ rows' \in Seq(SkillRows)
  BY <1>2 DEF CatalogInv, InTree, Rooted, TreeAt, CategoryKept, Follows, Ids
<1> QED BY <1>9, <1>10, <1>11 DEF CatalogInv

LEMMA NewRow ==
    ASSUME CatalogInv, NEW level \in 1 .. 4, NEW name \in Names \cup Employees, NEW up, Requires(level, up)
    PROVE  LET x == SkillRow(level, name, up, CategoryAt(level, up)) IN
           /\ x \in SkillRows /\ x.level = level /\ x.up = up /\ x.live
           /\ Rooted(x) /\ Follows(x) /\ (level # Category => rows[up].live)
<1>1. IF level = Category THEN up = None ELSE up \in Live(level - 1)
  BY Zenon DEF Requires
<1>2. Ids \subseteq Nat /\ \A i \in Ids : rows[i] \in SkillRows
  BY IdsAre DEF CatalogInv
<1>3. CategoryAt(level, up) \in Nat \cup {None} /\ up \in Nat \cup {None}
  <2>1. CASE level = Category
    BY <1>1, <2>1 DEF CategoryAt, Skill, Category
  <2>2. CASE level # Category
    <3>1. up \in Ids
      BY <1>1, <2>2 DEF Live
    <3>2. rows[up].up \in Nat \cup {None}
      BY <1>2, <3>1 DEF SkillRows
    <3> QED BY <1>2, <3>1, <3>2 DEF CategoryAt
  <2> QED BY <2>1, <2>2
<1> DEFINE c == CategoryAt(level, up)
<1>4. level = Skill => c = rows[up].up
  BY DEF CategoryAt
<1> HIDE DEF c
<1>5. SkillRow(level, name, up, c) \in SkillRows
  BY <1>3 DEF SkillRow, SkillRows, c
<1> QED BY <1>1, <1>4, <1>5 DEF SkillRow, Rooted, Follows, Live, c

LEMMA CreateKeeps ==
    ASSUME CatalogInv, Sane', NEW r \in Requests, NEW level \in 1 .. 4, NEW name \in Names \cup Employees,
           NEW up, createRow(r, level, name, up)
    PROVE  CatalogInv'
<1>1. PICK row : row = SkillRow(level, name, up, CategoryAt(level, up))
  OBVIOUS
<1>2. Requires(level, up)
  BY DEF createRow
<1>3. /\ row \in SkillRows /\ row.level = level /\ row.up = up /\ row.live
      /\ Rooted(row) /\ Follows(row) /\ (level # Category => rows[up].live)
  BY <1>1, <1>2, NewRow
<1>4. PICK t : t = [op |-> "create", pc |-> "save", row |-> row, ids |-> {up} \ {None}, alone |-> TRUE]
  OBVIOUS
<1>5. Reads(r, t)
  BY <1>1, <1>4 DEF createRow
<1>6. CatalogShape(t)
  BY <1>3, <1>4 DEF CatalogShape
<1>7. Known(t)
  BY <1>3, <1>4 DEF Known
<1>8. t.op \in CatalogOps /\ t.alone
  BY <1>4 DEF CatalogOps
<1> QED BY <1>5, <1>6, <1>7, <1>8, ReadsKeep

LEMMA UpdateKeeps ==
    ASSUME CatalogInv, Sane', NEW r \in Requests, NEW id \in Ids, NEW change,
           "name" \in DOMAIN change => change.name \in Names,
           "active" \in DOMAIN change => change.active \in BOOLEAN,
           updateRow(r, id, change)
    PROVE  CatalogInv'
<1>1. PICK x : x = rows[id] /\ x \in SkillRows
  BY IdsAre DEF CatalogInv
<1>2. PICK up : up = IF "up" \in DOMAIN change THEN change.up ELSE x.up
  OBVIOUS
<1>3. PICK category : category = IF up = x.up THEN x.category ELSE CategoryAt(x.level, up)
  OBVIOUS
<1>4. PICK name : name = IF "name" \in DOMAIN change THEN change.name ELSE x.name
  OBVIOUS
<1>5. PICK active : active = IF "active" \in DOMAIN change THEN change.active ELSE x.active
  OBVIOUS
<1>6. PICK row : row = [x EXCEPT !.up = up, !.category = category, !.name = name, !.active = active]
  OBVIOUS
<1>7. PICK t : t = [op |-> "update", pc |-> "save", id |-> id, read |-> x, row |-> row,
                    ids |-> {id, x.up, up} \ {None}, alone |-> TRUE]
  OBVIOUS
<1>8. x.live /\ (up # x.up => Requires(x.level, up)) /\ Reads(r, t)
  BY <1>1, <1>2, <1>3, <1>4, <1>5, <1>6, <1>7, Zenon DEF updateRow
<1>9. Rooted(x)
  BY <1>1 DEF CatalogInv, InTree
<1>10. /\ up \in Nat \cup {None} /\ category \in Nat \cup {None}
       /\ IF x.level = Category THEN up = None ELSE up \in Ids /\ rows[up].level = x.level - 1
       /\ up # x.up => rows[up].live /\ (x.level = Skill => category = rows[up].up)
  <2>1. CASE up = x.up
    BY <1>1, <1>3, <1>9, <2>1 DEF Rooted, SkillRows
  <2>2. CASE up # x.up
    <3>1. x.level # Category /\ up \in Live(x.level - 1)
      BY <1>8, <1>9, <2>2 DEF Requires, Rooted
    <3>2. up \in Nat /\ rows[up] \in SkillRows
      BY <3>1, IdsAre DEF CatalogInv, Live
    <3> QED BY <1>3, <2>2, <3>1, <3>2 DEF Live, CategoryAt, SkillRows
  <2> QED BY <2>1, <2>2
<1>11. /\ row \in SkillRows /\ row.level = x.level /\ row.live = x.live
       /\ row.up = up /\ row.category = category
  <2>1. name \in Names \cup Employees /\ active \in BOOLEAN /\ x.level \in 1 .. 4 /\ x.live \in BOOLEAN
    BY <1>1, <1>4, <1>5 DEF SkillRows
  <2>2. row = [level |-> x.level, name |-> name, up |-> up, category |-> category, active |-> active,
               live |-> x.live]
    BY <1>1, <1>6 DEF SkillRows
  <2> QED BY <1>10, <2>1, <2>2 DEF SkillRows
<1>12. CatalogShape(t)
  BY <1>1, <1>7, <1>8, <1>9, <1>10, <1>11 DEF CatalogShape, Rooted
<1>13. Known(t)
  BY <1>1, <1>3, <1>7, <1>10, <1>11 DEF Known, Follows
<1>14. t.op \in CatalogOps /\ t.alone
  BY <1>7 DEF CatalogOps
<1> QED BY <1>8, <1>12, <1>13, <1>14, ReadsKeep

LEMMA DeleteKeeps ==
    ASSUME CatalogInv, Sane', NEW r \in Requests, NEW id \in Ids, deleteRow(r, id)
    PROVE  CatalogInv'
<1>1. PICK t : t = [op |-> "delete", pc |-> "save", id |-> id, ids |-> {id}, alone |-> TRUE]
  OBVIOUS
<1>2. Reads(r, t) /\ \A i \in Ids : rows[i].live => rows[i].up # id
  BY <1>1 DEF deleteRow, Removable, Below
<1>3. CatalogShape(t)
  BY <1>1 DEF CatalogShape
<1>4. Known(t)
  BY <1>1, <1>2 DEF Known
<1>5. t.op \in CatalogOps /\ t.alone
  BY <1>1 DEF CatalogOps
<1> QED BY <1>2, <1>3, <1>4, <1>5, ReadsKeep

LEMMA DefaultsKeep ==
    ASSUME CatalogInv, Sane', NEW r \in Requests, ensureDefaultCatalog(r)
    PROVE  CatalogInv'
<1>1. PICK t : t = [op |-> "defaults", pc |-> "save", level |-> Category, last |-> None, category |-> None,
                    ids |-> {}, alone |-> TRUE]
  OBVIOUS
<1>2. Reads(r, t) /\ t.op \in CatalogOps /\ t.alone
  BY <1>1 DEF ensureDefaultCatalog, CatalogOps
<1>3. CatalogShape(t)
  BY <1>1 DEF CatalogShape, Category, Subcategory
<1>4. Known(t)
  BY <1>1 DEF Known, Category, Skill
<1> QED BY <1>2, <1>3, <1>4, ReadsKeep

LEMMA FollowsStays ==
    ASSUME NEW x, Rooted(x), Follows(x), \A i \in Ids : rows'[i] = rows[i]
    PROVE  Follows(x)'
BY DEF Follows, Rooted, Category, Skill

LEMMA Appended ==
    ASSUME CatalogInv, NEW row \in SkillRows, NEW ids \in SUBSET Ids, NEW alone \in BOOLEAN,
           Rooted(row), row.up \in ids \cup {None},
           alone => (row.level # Category => rows[row.up].live) /\ Follows(row),
           rows' = Append(rows, row), moved' = moved,
           entangled' = entangled \cup (IF alone THEN {} ELSE ids \cup {Len(rows) + 1})
    PROVE  /\ Writes(ids, alone) /\ Len(rows) + 1 \in Nat \ Ids
           /\ Ids' = Ids \cup {Len(rows) + 1} /\ rows'[Len(rows) + 1] = row
           /\ \A i \in Ids : rows'[i] = rows[i]
<1>0. PICK n : n = Len(rows) + 1
  OBVIOUS
<1>1. rows \in Seq(SkillRows) /\ Len(rows) \in Nat /\ Ids = 1 .. Len(rows)
  BY IdsAre DEF CatalogInv
<1>2. rows' \in Seq(SkillRows) /\ Ids' = 1 .. n /\ rows'[n] = row /\ \A i \in Ids : rows'[i] = rows[i]
  <2>1. Len(rows') = n /\ rows' \in Seq(SkillRows)
    BY <1>1, <1>0
  <2> QED BY <1>1, <1>0, <2>1 DEF Ids
<1>3. n \in Nat \ Ids /\ Ids' = Ids \cup {n}
  BY <1>1, <1>2, <1>0
<1>4. Rooted(row)'
  BY <1>2, <1>3 DEF Rooted
<1>5. None \notin Ids
  BY <1>1, IdsAre, CatalogAssumption
<1>6. ASSUME alone PROVE TreeAt(n)' /\ CategoryKept(n)'
  <2>1. row.level # Category => row.up \in Ids /\ rows'[row.up] = rows[row.up]
    BY <1>2 DEF Rooted
  <2>2. TreeAt(n)'
    BY <1>2, <1>6, <2>1, Zenon DEF TreeAt
  <2>3. CategoryKept(n)'
    <3>1. Follows(row)
      BY <1>6, Zenon
    <3>2. Follows(row)'
      BY <1>2, <3>1, FollowsStays
    <3> QED BY <1>2, <3>2, Zenon DEF CategoryKept
  <2> QED BY <2>2, <2>3
<1>7. Rooted(rows[n])'
  BY <1>2, <1>4
<1>8. \A i \in Ids : /\ rows'[i] = rows[i] /\ (rows'[i].live <=> rows[i].live)
                     /\ rows'[i].level = rows[i].level /\ rows'[i].up = rows[i].up
  BY <1>2
<1>9. \A i \in Ids' \ Ids : i = n /\ rows'[i].up \in ids \cup {None}
  BY <1>2, <1>3
<1>10. entangled' = entangled \cup (IF alone THEN {} ELSE ids \cup (Ids' \ Ids))
  BY <1>3, <1>0
<1>11. Writes(ids, alone)
  BY <1>2, <1>3, <1>6, <1>7, <1>8, <1>9, <1>10 DEF Writes
<1> QED BY <1>0, <1>2, <1>3, <1>11

LEMMA CatalogIdle == Idle.op \notin CatalogOps /\ CatalogShape(Idle)' /\ Known(Idle)'
BY DEF Idle, CatalogOps, CatalogShape, Known

LEMMA InsertKeepsCatalog ==
    ASSUME CatalogInv, Sane', NEW r \in Requests, InsertRow(r)
    PROVE  CatalogInv'
<1>1. PICK t : t = tx[r] /\ t.op = "create" /\ CatalogShape(t) /\ Known(t)
  BY DEF InsertRow, At, CatalogInv
<1>2. PICK row, ids, alone : row = t.row /\ ids = t.ids /\ alone = t.alone
  OBVIOUS
<1>3. row \in SkillRows /\ Rooted(row) /\ alone \in BOOLEAN /\ ids = {row.up} \ {None} /\ ids \in SUBSET Ids
  BY <1>1, <1>2, CatalogIds DEF CatalogShape, CatalogOps
<1>4. alone => (row.level # Category => rows[row.up].live) /\ Follows(row)
  BY <1>1, <1>2 DEF Known, CatalogOps
<1>5. /\ rows' = Append(rows, row) /\ moved' = moved
      /\ entangled' = entangled \cup (IF alone THEN {} ELSE ids \cup {Len(rows) + 1})
      /\ tx' = [tx EXCEPT ![r] = Idle]
  BY <1>1, <1>2 DEF InsertRow, Entangles, Ends, Goes
<1>6. Writes(ids, alone)
  BY <1>3, <1>4, <1>5, Appended
<1>7. tx[r].op \in CatalogOps /\ tx[r].ids = ids /\ tx[r].alone = alone
  BY <1>1, <1>2 DEF CatalogOps
<1>8. PICK v : v = Idle
  OBVIOUS
<1>9. v.op \notin CatalogOps /\ CatalogShape(v)' /\ Known(v)' /\ tx' = [tx EXCEPT ![r] = v]
  BY <1>5, <1>8, CatalogIdle
<1> QED BY <1>3, <1>6, <1>7, <1>9, CatalogWritten

LEMMA SeedKeepsCatalog ==
    ASSUME CatalogInv, Sane', NEW r \in Requests, SeedRow(r)
    PROVE  CatalogInv'
<1>1. PICK t : t = tx[r] /\ t.op = "defaults" /\ t.level <= Skill /\ CatalogShape(t) /\ Known(t)
  BY DEF SeedRow, At, CatalogInv
<1>2. PICK ids, alone, level, last, root :
          ids = t.ids /\ alone = t.alone /\ level = t.level /\ last = t.last /\ root = t.category
  OBVIOUS
<1>3. /\ alone \in BOOLEAN /\ ids \in SUBSET Ids /\ level \in 1 .. 3
      /\ IF level = Category THEN last = None ELSE last \in ids /\ rows[last].level = level - 1
      /\ root \in Nat \cup {None} /\ (level = Subcategory => root = last)
      /\ t = [op |-> "defaults", pc |-> "save", level |-> level, last |-> last, category |-> root, ids |-> ids,
              alone |-> alone]
  BY <1>1, <1>2 DEF CatalogShape, Skill
<1>4. PICK row : row = SkillRow(level, DefaultName, last, IF level = Skill THEN root ELSE None)
  OBVIOUS
<1>5. PICK category : category = IF level = Skill THEN root ELSE None
  OBVIOUS
<1>6. /\ row = [level |-> level, name |-> DefaultName, up |-> last, category |-> category, active |-> TRUE,
                live |-> TRUE]
      /\ category \in Nat \cup {None}
  BY <1>3, <1>4, <1>5 DEF SkillRow
<1>7. last \in Nat \cup {None} /\ DefaultName \in Names
  BY <1>3, IdsAre, CatalogAssumption DEF CatalogInv
<1>8. row \in SkillRows /\ Rooted(row) /\ row.up \in ids \cup {None} /\ row.level = level
  BY <1>3, <1>6, <1>7 DEF SkillRows, Rooted
<1>9. alone => (row.level # Category => rows[row.up].live) /\ Follows(row)
  <2>1. row.level = level /\ row.up = last /\ row.category = category
    BY <1>6
  <2>2. t.alone => /\ t.level # Category => rows[t.last].live
                   /\ t.level = Skill => rows[t.last].up = t.category
    BY <1>1, Zenon DEF Known, CatalogOps
  <2>3. alone /\ level = Skill => category = rows[last].up
    BY <1>2, <1>5, <2>2
  <2> QED BY <1>2, <2>1, <2>2, <2>3 DEF Follows
<1>10. PICK n : n = Len(rows) + 1
  OBVIOUS
<1>11. PICK v, next, more, first :
           /\ next = level + 1 /\ more = ids \cup {n} /\ first = IF level = Category THEN n ELSE root
           /\ v = [op |-> "defaults", pc |-> "save", level |-> next, last |-> n, category |-> first, ids |-> more,
                   alone |-> alone]
  OBVIOUS
<1>12. v = [t EXCEPT !.level = @ + 1, !.last = n, !.ids = @ \cup {n},
                     !.category = IF t.level = Category THEN n ELSE @]
  <2>1. PICK a : a = [t EXCEPT !.level = next]
    OBVIOUS
  <2>2. a = [op |-> "defaults", pc |-> "save", level |-> next, last |-> last, category |-> root, ids |-> ids,
             alone |-> alone]
    BY <1>3, <2>1
  <2>3. PICK b : b = [a EXCEPT !.last = n]
    OBVIOUS
  <2>4. b = [op |-> "defaults", pc |-> "save", level |-> next, last |-> n, category |-> root, ids |-> ids,
             alone |-> alone]
    BY <2>2, <2>3
  <2>5. PICK c : c = [b EXCEPT !.ids = more]
    OBVIOUS
  <2>6. c = [op |-> "defaults", pc |-> "save", level |-> next, last |-> n, category |-> root, ids |-> more,
             alone |-> alone]
    BY <2>4, <2>5
  <2>7. v = [c EXCEPT !.category = first]
    BY <1>11, <2>6
  <2>8. t.level + 1 = next /\ b.ids = ids /\ ids \cup {n} = more
    BY <1>2, <1>11, <2>4
  <2>9. c.category = root /\ first = IF t.level = Category THEN n ELSE root
    BY <1>2, <1>11, <2>6
  <2>10. a = [t EXCEPT !.level = @ + 1]
    BY <2>1, <2>8
  <2>11. c = [b EXCEPT !.ids = @ \cup {n}]
    BY <2>5, <2>8
  <2>12. v = [c EXCEPT !.category = IF t.level = Category THEN n ELSE @]
    BY <2>7, <2>9
  <2> QED BY <2>3, <2>10, <2>11, <2>12, Zenon
<1>13. /\ rows' = Append(rows, row) /\ moved' = moved
       /\ entangled' = entangled \cup (IF alone THEN {} ELSE ids \cup {n})
       /\ tx' = [tx EXCEPT ![r] = v]
  BY <1>1, <1>2, <1>4, <1>10, <1>12 DEF SeedRow, Entangles, Goes
<1>14. Writes(ids, alone) /\ n \in Nat \ Ids /\ Ids' = Ids \cup {n} /\ rows'[n] = row
  BY <1>3, <1>8, <1>9, <1>10, <1>13, Appended
<1>15. CatalogShape(v)'
  <2>1. first \in Nat \cup {None} /\ (next = Subcategory => first = n)
    BY <1>3, <1>11, <1>14 DEF Category, Subcategory
  <2> QED BY <1>3, <1>8, <1>11, <1>14, <2>1 DEF CatalogShape, Category
<1>16. Known(v)'
  <2>1. rows'[n].live /\ rows'[n].up = last
    BY <1>6, <1>14
  <2>2. next = Skill => first = last
    BY <1>3, <1>11 DEF Category, Subcategory, Skill
  <2> QED BY <1>11, <2>1, <2>2 DEF Known
<1>17. tx[r].op \in CatalogOps /\ v.alone = alone /\ v.ids \subseteq ids \cup (Ids' \ Ids)
  BY <1>1, <1>11, <1>14 DEF CatalogOps
<1>18. tx[r].ids = ids /\ tx[r].alone = alone
  BY <1>1, <1>2
<1> QED BY <1>3, <1>13, <1>14, <1>15, <1>16, <1>17, <1>18, CatalogWritten

(* One row is replaced: its level stays and it is below a row of ids.      *)
LEMMA RowReplaced ==
    ASSUME CatalogInv, NEW ids \in SUBSET Ids, NEW alone \in BOOLEAN, NEW id \in ids, NEW row \in SkillRows,
           rows' = [rows EXCEPT ![id] = row], Rooted(row), row.level = rows[id].level,
           row.live => row.up \in ids \cup {None},
           alone /\ ~row.live => ~rows[id].live \/ \A j \in Ids : rows[j].live => rows[j].up # id,
           alone => (row.live /\ row.level # Category /\ {id, row.up} \cap entangled = {} => rows[row.up].live)
                    /\ ((row.up = rows[id].up /\ row.category = rows[id].category) \/ Follows(row)),
           moved \subseteq moved', row.up # rows[id].up => id \in moved',
           entangled' = entangled \cup (IF alone THEN {} ELSE ids)
    PROVE  Writes(ids, alone)
<1>1. rows \in Seq(SkillRows) /\ Ids = 1 .. Len(rows) /\ Ids \subseteq Nat /\ id \in Ids
  BY IdsAre DEF CatalogInv
<1>2. rows' \in Seq(SkillRows) /\ Ids' = Ids /\ rows'[id] = row /\ \A i \in Ids \ {id} : rows'[i] = rows[i]
  BY <1>1 DEF Ids
<1>3. Rooted(row)' /\ Rooted(rows[id])'
  BY <1>2 DEF Rooted
<1>4. row.level # Category => row.up \in Ids /\ row.up # id /\ rows'[row.up] = rows[row.up]
  <2> SUFFICES ASSUME row.level # Category PROVE row.up \in Ids /\ row.up # id
    BY <1>2
  <2>1. row.up \in Ids /\ rows[row.up].level = row.level - 1 /\ row.level \in Nat
    BY DEF Rooted, SkillRows
  <2> QED BY <2>1
<1>5. ASSUME alone PROVE TreeAt(id)' /\ CategoryKept(id)'
  <2>1. TreeAt(id)'
    <3>1. row.live /\ row.level # Category /\ {id, row.up} \cap entangled = {} => rows[row.up].live
      BY <1>5, Zenon
    <3>2. entangled' = entangled
      BY <1>5
    <3> QED BY <1>2, <1>4, <3>1, <3>2, Zenon DEF TreeAt
  <2>2. CASE Follows(row)
    <3>1. Follows(row)'
      <4>1. row.level = Skill => rows'[row.up].up = rows[row.up].up
        BY <1>4 DEF Skill, Category
      <4> QED BY <2>2, <4>1, Zenon DEF Follows
    <3> QED BY <1>2, <2>1, <3>1, Zenon DEF CategoryKept
  <2>3. CASE row.up = rows[id].up /\ row.category = rows[id].category
    <3> SUFFICES ASSUME row.level = Skill, {id, row.up} \cap entangled' = {}, row.up \notin moved'
                 PROVE  row.category = rows'[row.up].up
      BY <1>2, <2>1, Zenon DEF CategoryKept, Follows
    <3>1. rows[id].level = Skill /\ {id, rows[id].up} \cap entangled = {} /\ rows[id].up \notin moved
      BY <2>3
    <3>2. rows[id].category = rows[rows[id].up].up
      <4>1. CategoryKept(id)
        BY DEF CatalogInv, InTree
      <4> QED BY <3>1, <4>1, Zenon DEF CategoryKept, Follows
    <3>3. rows'[row.up] = rows[row.up]
      BY <1>4 DEF Skill, Category
    <3> QED BY <2>3, <3>2, <3>3, Zenon
  <2> QED BY <1>5, <2>1, <2>2, <2>3, Zenon
<1>6. \A i \in Ids : /\ rows'[i].level = rows[i].level
                     /\ i \notin ids => rows'[i] = rows[i]
                     /\ rows'[i].up # rows[i].up => i \in moved'
                     /\ alone /\ ~rows'[i].live =>
                           ~rows[i].live \/ \A j \in Ids : rows[j].live => rows[j].up # i
  <2> SUFFICES ASSUME NEW i \in Ids
               PROVE  /\ rows'[i].level = rows[i].level
                      /\ i \notin ids => rows'[i] = rows[i]
                      /\ rows'[i].up # rows[i].up => i \in moved'
                      /\ alone /\ ~rows'[i].live =>
                            ~rows[i].live \/ \A j \in Ids : rows[j].live => rows[j].up # i
    OBVIOUS
  <2>1. CASE i = id
    BY <1>2, <2>1, Zenon
  <2>2. CASE i # id
    <3>1. rows'[i] = rows[i]
      BY <1>2, <2>2
    <3> QED BY <3>1, Zenon
  <2> QED BY <2>1, <2>2
<1>7. \A i \in Ids' :
          \/ i \in Ids /\ rows'[i] = rows[i]
          \/ /\ rows'[i].live => rows'[i].up \in ids \cup {None}
             /\ Rooted(rows[i])'
             /\ alone => TreeAt(i)' /\ CategoryKept(i)'
  <2> SUFFICES ASSUME NEW i \in Ids'
               PROVE  \/ i \in Ids /\ rows'[i] = rows[i]
                      \/ /\ rows'[i].live => rows'[i].up \in ids \cup {None}
                         /\ Rooted(rows[i])'
                         /\ alone => TreeAt(i)' /\ CategoryKept(i)'
    OBVIOUS
  <2>1. CASE i # id
    BY <1>2, <2>1
  <2>2. CASE i = id
    BY <1>2, <1>3, <1>5, <2>2, Zenon
  <2> QED BY <2>1, <2>2
<1>8. entangled' = entangled \cup (IF alone THEN {} ELSE ids \cup (Ids' \ Ids))
  BY <1>2
<1> QED BY <1>2, <1>6, <1>7, <1>8, Zenon DEF Writes

LEMMA UpdateKeepsCatalog ==
    ASSUME CatalogInv, Sane', NEW r \in Requests, UpdateRow(r)
    PROVE  CatalogInv'
<1>1. PICK t : t = tx[r] /\ t.op = "update" /\ CatalogShape(t) /\ Known(t)
  BY DEF UpdateRow, At, CatalogInv
<1>2. PICK ids, alone, id, read, wanted :
          ids = t.ids /\ alone = t.alone /\ id = t.id /\ read = t.read /\ wanted = t.row
  OBVIOUS
<1>3. PICK from \in {wanted, read} : \E x :
          /\ x = [wanted EXCEPT !.up = from.up, !.category = from.category]
          /\ rows' = [rows EXCEPT ![id] = x]
          /\ moved' = IF x.up # rows[id].up THEN moved \cup {id} ELSE moved
  BY <1>1, <1>2 DEF UpdateRow
<1>4. PICK row :
          /\ row = [wanted EXCEPT !.up = from.up, !.category = from.category]
          /\ rows' = [rows EXCEPT ![id] = row]
          /\ moved' = IF row.up # rows[id].up THEN moved \cup {id} ELSE moved
  BY <1>3
<1>5. /\ alone \in BOOLEAN /\ id \in Ids /\ ids = {id, read.up, wanted.up} \ {None} /\ ids \in SUBSET Ids
      /\ read \in SkillRows /\ wanted \in SkillRows /\ Rooted(read) /\ Rooted(wanted)
      /\ wanted.level = rows[id].level /\ read.level = wanted.level
  BY <1>1, <1>2, CatalogIds DEF CatalogShape, CatalogOps
<1>6. wanted.live /\ read.live
  BY <1>1, <1>2, Zenon DEF CatalogShape
<1>7. None \notin Ids
  BY IdsAre, CatalogAssumption DEF CatalogInv
<1>8. /\ row \in SkillRows /\ row.level = wanted.level /\ row.live = wanted.live
      /\ row.up = from.up /\ row.category = from.category
  BY <1>4, <1>5 DEF SkillRows
<1>9. Rooted(row)
  BY <1>5, <1>8 DEF Rooted
<1>10. id \in ids /\ row.up \in ids \cup {None}
  BY <1>5, <1>7, <1>8
<1>11. ASSUME alone
       PROVE  /\ row.live /\ row.level # Category /\ {id, row.up} \cap entangled = {} => rows[row.up].live
              /\ (row.up = rows[id].up /\ row.category = rows[id].category) \/ Follows(row)
  <2>1. /\ rows[id] = read
        /\ IF wanted.up = read.up THEN wanted.category = read.category
           ELSE rows[wanted.up].live /\ Follows(wanted)
    BY <1>1, <1>2, <1>11, Zenon DEF Known, CatalogOps
  <2>2. CASE row.up = read.up
    <3>1. row.category = read.category
      BY <1>8, <2>1, <2>2
    <3>2. row.level # Category /\ {id, row.up} \cap entangled = {} => rows[row.up].live
      <4>1. TreeAt(id)
        BY <1>5 DEF CatalogInv, InTree
      <4> QED BY <1>5, <1>6, <1>8, <2>1, <2>2, <4>1, Zenon DEF TreeAt
    <3> QED BY <2>1, <2>2, <3>1, <3>2
  <2>3. CASE row.up # read.up
    <3>1. wanted.up # read.up /\ from = wanted
      BY <1>8, <2>3
    <3>2. rows[row.up].live
      BY <1>8, <2>1, <3>1, Zenon
    <3>3. Follows(wanted)
      BY <2>1, <3>1, Zenon
    <3>4. Follows(row)
      BY <1>8, <3>1, <3>3 DEF Follows
    <3> QED BY <3>2, <3>4
  <2> QED BY <2>2, <2>3
<1>12. moved \subseteq moved' /\ (row.up # rows[id].up => id \in moved')
  BY <1>4
<1>13. /\ entangled' = entangled \cup (IF alone THEN {} ELSE ids)
       /\ tx' = [tx EXCEPT ![r] = Idle]
  BY <1>1, <1>2 DEF UpdateRow, Entangles, Ends, Goes
<1>14. alone /\ ~row.live => ~rows[id].live \/ \A j \in Ids : rows[j].live => rows[j].up # id
  BY <1>6, <1>8, Zenon
<1>15. Writes(ids, alone)
  <2>1. row.level = rows[id].level /\ (row.live => row.up \in ids \cup {None})
    BY <1>5, <1>8, <1>10
  <2> QED BY <1>4, <1>5, <1>8, <1>9, <1>10, <1>11, <1>12, <1>13, <1>14, <2>1, RowReplaced
<1>16. tx[r].op \in CatalogOps /\ tx[r].ids = ids /\ tx[r].alone = alone
  BY <1>1, <1>2 DEF CatalogOps
<1>17. PICK v : v = Idle
  OBVIOUS
<1>18. v.op \notin CatalogOps /\ CatalogShape(v)' /\ Known(v)' /\ tx' = [tx EXCEPT ![r] = v]
  BY <1>13, <1>17, CatalogIdle
<1> QED BY <1>5, <1>15, <1>16, <1>18, CatalogWritten

LEMMA RemoveKeepsCatalog ==
    ASSUME CatalogInv, Sane', NEW r \in Requests, RemoveRow(r)
    PROVE  CatalogInv'
<1>1. PICK t : t = tx[r] /\ t.op = "delete" /\ CatalogShape(t) /\ Known(t)
  BY DEF RemoveRow, At, CatalogInv
<1>2. PICK ids, alone, id : ids = t.ids /\ alone = t.alone /\ id = t.id
  OBVIOUS
<1>3. alone \in BOOLEAN /\ id \in Ids /\ ids = {id} /\ ids \in SUBSET Ids
  BY <1>1, <1>2, CatalogIds DEF CatalogShape, CatalogOps
<1>4. PICK x : x = rows[id] /\ x \in SkillRows /\ Rooted(x) /\ CategoryKept(id)
  BY <1>3, IdsAre DEF CatalogInv, InTree
<1>5. PICK row : row = [x EXCEPT !.live = FALSE]
  OBVIOUS
<1>6. /\ rows' = [rows EXCEPT ![id].live = FALSE] /\ moved' = moved
      /\ entangled' = entangled \cup (IF alone THEN {} ELSE ids)
      /\ tx' = [tx EXCEPT ![r] = Idle]
  BY <1>1, <1>2 DEF RemoveRow, Entangles, Ends, Goes
<1>7. rows' = [rows EXCEPT ![id] = row]
  BY <1>4, <1>5, <1>6
<1>8. /\ row \in SkillRows /\ row.level = x.level /\ row.up = x.up /\ row.category = x.category
      /\ row.live = FALSE
  BY <1>4, <1>5 DEF SkillRows
<1>9. Rooted(row)
  BY <1>4, <1>8 DEF Rooted
<1>10. alone => \A j \in Ids : rows[j].live => rows[j].up # id
  BY <1>1, <1>2, Zenon DEF Known, CatalogOps
<1>11. alone /\ ~row.live => ~rows[id].live \/ \A j \in Ids : rows[j].live => rows[j].up # id
  BY <1>10, Zenon
<1>12. Writes(ids, alone)
  <2>1. /\ row.level = rows[id].level /\ row.up = rows[id].up /\ row.category = rows[id].category
        /\ ~row.live
    BY <1>4, <1>8
  <2> QED BY <1>3, <1>6, <1>7, <1>8, <1>9, <1>11, <2>1, RowReplaced
<1>13. tx[r].op \in CatalogOps /\ tx[r].ids = ids /\ tx[r].alone = alone
  BY <1>1, <1>2 DEF CatalogOps
<1>14. PICK v : v = Idle
  OBVIOUS
<1>15. v.op \notin CatalogOps /\ CatalogShape(v)' /\ Known(v)' /\ tx' = [tx EXCEPT ![r] = v]
  BY <1>6, <1>14, CatalogIdle
<1> QED BY <1>3, <1>12, <1>13, <1>15, CatalogWritten

(* No row is written, and the handlers that remain go on as they were.     *)
LEMMA CatalogStays ==
    ASSUME CatalogInv, Sane', UNCHANGED catalogVars,
           \A q \in Requests : tx'[q] = tx[q] \/ tx'[q].op \notin CatalogOps
    PROVE  CatalogInv'
<1>1. rows' = rows /\ moved' = moved /\ entangled' = entangled
  BY DEF catalogVars
<1>2. InTree' /\ rows' \in Seq(SkillRows)
  BY <1>1 DEF CatalogInv, InTree, Rooted, TreeAt, CategoryKept, Follows, Ids
<1>3. \A x : (CatalogShape(x) => CatalogShape(x)') /\ (Known(x) => Known(x)')
  BY <1>1 DEF CatalogShape, Known, Rooted, Follows, Ids
<1>4. \A x : x.op \notin CatalogOps => CatalogShape(x) /\ Known(x)
  BY DEF CatalogShape, Known, CatalogOps
<1>5. ASSUME NEW q \in Requests PROVE CatalogShape(tx[q])' /\ Known(tx[q])'
  <2>1. PICK x : x = tx'[q] /\ CatalogShape(x) /\ Known(x)
    BY <1>4 DEF CatalogInv
  <2>2. CatalogShape(x)' /\ Known(x)'
    BY <1>3, <2>1
  <2> QED BY <2>1, <2>2
<1>6. Lonely'
  BY DEF CatalogInv, Lonely
<1> QED BY <1>2, <1>5, <1>6 DEF CatalogInv

LEMMA CatalogStepKeeps ==
    ASSUME CatalogInv, Sane', NEW r \in Requests, CatalogStep(r)
    PROVE  CatalogInv'
<1>1. CASE MasterStep(r)
  <2>1. ASSUME NEW name \in Names, createCategory(r, name) PROVE CatalogInv'
    BY <2>1, CreateKeeps DEF createCategory, Category
  <2>2. ASSUME NEW name \in Names, NEW up \in Ids, createSubcategory(r, name, up) \/ createSkill(r, name, up)
        PROVE  CatalogInv'
    BY <2>2, CreateKeeps DEF createSubcategory, createSkill, Subcategory, Skill
  <2>3. ASSUME NEW id \in Ids, NEW change \in RowChanges, updateRow(r, id, change) PROVE CatalogInv'
    <3>1. /\ "name" \in DOMAIN change => change.name \in Names
          /\ "active" \in DOMAIN change => change.active \in BOOLEAN
      BY DEF RowChanges
    <3> QED BY <2>3, <3>1, UpdateKeeps
  <2>4. ASSUME NEW id \in Ids, deleteRow(r, id) PROVE CatalogInv'
    BY <2>4, DeleteKeeps
  <2> QED
    BY <1>1, <2>1, <2>2, <2>3, <2>4
       DEF MasterStep, updateCategory, updateSubcategory, updateSkill, deleteCategory, deleteSubcategory,
           deleteSkill
<1>2. CASE OwnSkillsStep(r)
  <2>1. ASSUME NEW s \in Ids, NEW e \in Employees, addSkill(r, e, s) PROVE CatalogInv'
    BY <2>1, CreateKeeps DEF addSkill, Held
  <2>2. ASSUME NEW s \in Ids, updateHeldSkill(r, s) PROVE CatalogInv'
    <3>1. updateRow(r, s, <<>>) /\ DOMAIN <<>> = {}
      BY <2>2 DEF updateHeldSkill
    <3> QED BY <3>1, UpdateKeeps
  <2>3. ASSUME NEW s \in Ids, removeSkill(r, s) PROVE CatalogInv'
    BY <2>3, DeleteKeeps DEF removeSkill
  <2> QED BY <1>2, <2>1, <2>2, <2>3 DEF OwnSkillsStep
<1>3. CASE EndOfCatalog(r)
  <2>1. UNCHANGED catalogVars /\ \A q \in Requests : tx'[q] = tx[q] \/ tx'[q].op \notin CatalogOps
    BY <1>3, CatalogIdle DEF EndOfCatalog, Ends, Goes, CatalogInv, Sane
  <2> QED BY <2>1, CatalogStays
<1> QED
  BY <1>1, <1>2, <1>3, InsertKeepsCatalog, UpdateKeepsCatalog, RemoveKeepsCatalog, DefaultsKeep,
     SeedKeepsCatalog
     DEF CatalogStep

LEMMA CatalogInitially == Init => CatalogInv
<1> SUFFICES ASSUME Init PROVE CatalogInv
  OBVIOUS
<1>1. \A q \in Requests : tx[q] = Idle
  BY DEF Init, PortalInit
<1>2. \A q \in Requests : CatalogShape(tx[q]) /\ Known(tx[q]) /\ tx[q].op \notin CatalogOps
  BY <1>1 DEF Idle, CatalogShape, Known, CatalogOps
<1>3. PICK e \in Employees : rows = <<>> \/ rows = Tree(e)
                             \/ rows = Append(Tree(e), SkillRow(Category, OtherName, None, None))
  BY DEF Init, CatalogInit
<1> DEFINE a == [level |-> 1, name |-> DefaultName, up |-> None, category |-> None, active |-> TRUE, live |-> TRUE]
           b == [level |-> 2, name |-> DefaultName, up |-> 1, category |-> None, active |-> TRUE, live |-> TRUE]
           c == [level |-> 3, name |-> DefaultName, up |-> 2, category |-> 1, active |-> TRUE, live |-> TRUE]
           d == [level |-> 4, name |-> e, up |-> 3, category |-> None, active |-> TRUE, live |-> TRUE]
           f == [level |-> 1, name |-> OtherName, up |-> None, category |-> None, active |-> TRUE, live |-> TRUE]
<1>4. {a, b, c, d, f} \subseteq SkillRows
  BY CatalogAssumption DEF SkillRows
<1>5. Tree(e) = <<a, b, c, d>> /\ SkillRow(Category, OtherName, None, None) = f
  BY DEF Tree, SkillRow, Category, Subcategory, Skill, Held
<1>6. /\ a.level = 1 /\ a.up = None /\ f.level = 1 /\ f.up = None
      /\ b.level = 2 /\ b.up = 1 /\ c.level = 3 /\ c.up = 2 /\ c.category = 1 /\ d.level = 4 /\ d.up = 3
      /\ a.live = TRUE /\ b.live = TRUE /\ c.live = TRUE
  OBVIOUS
<1> HIDE DEF a, b, c, d, f
<1>7. rows \in Seq(SkillRows) /\ InTree
  <2>1. CASE rows = <<>>
    <3>1. rows \in Seq(SkillRows) /\ Ids = {}
      BY <2>1 DEF Ids
    <3> QED BY <3>1 DEF InTree
  <2>2. CASE rows # <<>>
    <3>1. \/ rows = <<a, b, c, d>> /\ Ids = 1 .. 4
          \/ rows = <<a, b, c, d, f>> /\ Ids = 1 .. 5
      BY <1>3, <1>5, <2>2 DEF Ids
    <3>2. rows \in Seq(SkillRows)
      <4>1. a \in SkillRows /\ b \in SkillRows /\ c \in SkillRows /\ d \in SkillRows /\ f \in SkillRows
        BY <1>4
      <4>2. <<a, b, c, d>> \in Seq(SkillRows)
        BY <4>1
      <4>3. Append(<<a, b, c, d>>, f) \in Seq(SkillRows)
        BY <4>1, <4>2
      <4> QED BY <1>3, <1>5, <2>2, <4>2, <4>3
    <3>3. /\ {1, 2, 3, 4} \subseteq Ids /\ \A i \in Ids : i \in {1, 2, 3, 4, 5}
          /\ rows[1] = a /\ rows[2] = b /\ rows[3] = c /\ rows[4] = d /\ (5 \in Ids => rows[5] = f)
      BY <3>1
    <3>4. ASSUME NEW i \in Ids PROVE Rooted(rows[i]) /\ TreeAt(i) /\ CategoryKept(i)
      <4>1. Rooted(rows[i])
        BY <1>6, <3>3 DEF Rooted, Category
      <4>2. TreeAt(i)
        BY <1>6, <3>3 DEF TreeAt, Category
      <4>3. CategoryKept(i)
        BY <1>6, <3>3 DEF CategoryKept, Follows, Skill
      <4> QED BY <4>1, <4>2, <4>3
    <3> QED BY <3>2, <3>4 DEF InTree
  <2> QED BY <2>1, <2>2
<1> QED BY <1>2, <1>7, SaneInitially DEF CatalogInv, Lonely

LEMMA CatalogKeep == CatalogInv /\ [Next]_vars => CatalogInv'
<1> SUFFICES ASSUME CatalogInv, [Next]_vars PROVE CatalogInv'
  OBVIOUS
<1>1. Sane /\ Sane'
  BY SaneKept DEF CatalogInv
<1>2. ASSUME UNCHANGED catalogVars, Untouched(CatalogOps) PROVE CatalogInv'
  <2>1. \A q \in Requests : tx'[q] = tx[q] \/ tx'[q].op \notin CatalogOps
    BY <1>2 DEF Untouched
  <2> QED BY <1>1, <1>2, <2>1, CatalogStays
<1> QED BY <1>1, <1>2, CatalogStepKeeps, CatalogApart

(* No row of the catalogue hangs under a removed one: what is active is    *)
(* offered and found, unless handlers that wrote it overlapped.            *)
THEOREM AlwaysSkillTree == Spec => []SkillTree
<1>1. CatalogInv => SkillTree
  <2> SUFFICES ASSUME CatalogInv PROVE SkillTree
    OBVIOUS
  <2>1. ASSUME NEW i \in Ids, rows[i].live, rows[i].level \in 2 .. 4, {i, rows[i].up} \cap entangled = {}
        PROVE  rows[i].up \in Live(rows[i].level - 1)
    <3>1. Rooted(rows[i]) /\ TreeAt(i)
      BY DEF CatalogInv, InTree
    <3>2. rows[i].level # Category
      BY <2>1 DEF Category
    <3>3. rows[rows[i].up].live
      BY <2>1, <3>1, <3>2, Zenon DEF TreeAt
    <3> QED BY <3>1, <3>2, <3>3 DEF Rooted, Live
  <2>2. ASSUME NEW s \in Active(Skill), {s, rows[s].up, rows[rows[s].up].up} \cap entangled = {},
               rows[rows[s].up].active, rows[rows[rows[s].up].up].active
        PROVE  s \in getCatalog
    <3> DEFINE u == rows[s].up
               c == rows[u].up
    <3>1. s \in Ids /\ rows[s].live /\ rows[s].level = 3
      BY DEF Active, Live, Skill
    <3>2. u \in Live(2)
      BY <2>1, <2>2, <3>1
    <3>3. u \in Ids /\ rows[u].live /\ rows[u].level = 2
      BY <3>2 DEF Live
    <3>4. c \in Live(1)
      BY <2>1, <2>2, <3>3
    <3>5. u \in Active(Subcategory) /\ c \in Active(Category)
      BY <2>2, <3>2, <3>4 DEF Active, Subcategory, Category
    <3> QED BY <3>5 DEF getCatalog
  <2>3. ASSUME NEW h \in Live(Held),
               {h, rows[h].up, rows[rows[h].up].up, rows[rows[rows[h].up].up].up} \cap entangled = {}
        PROVE  LET s == rows[h].up u == rows[s].up c == rows[u].up IN
               /\ assignmentMatchesFilters(h, None, u)
               /\ u \notin moved => assignmentMatchesFilters(h, c, None)
    <3> DEFINE s == rows[h].up
               u == rows[s].up
               c == rows[u].up
    <3>1. h \in Ids /\ rows[h].live /\ rows[h].level = 4
      BY DEF Live, Held
    <3>2. s \in Live(3)
      BY <2>1, <2>3, <3>1
    <3>3. s \in Ids /\ rows[s].live /\ rows[s].level = Skill
      BY <3>2 DEF Live, Skill
    <3>4. ASSUME u \notin moved PROVE rows[s].category = c
      <4>1. CategoryKept(s)
        BY <3>3 DEF CatalogInv, InTree
      <4> QED BY <2>3, <3>3, <3>4, <4>1 DEF CategoryKept, Follows
    <3> QED BY <3>3, <3>4 DEF assignmentMatchesFilters
  <2> QED BY <2>2, <2>3 DEF SkillTree
<1> QED BY CatalogInitially, CatalogKeep, <1>1, PTL DEF Spec

-----------------------------------------------------------------------------
(* Holidays: the rows of a date of a branch, and what an import that has   *)
(* read them, and nothing overlapped, is about to write over.              *)
HolidayRows == [key : Keys, name : HolidayNames, live : BOOLEAN]
RowsAt(k) == {i \in HolidayIds : holidays[i].key = k}
Given(k) == imported[k] # None => \E i \in HolidayIds : RowsAt(k) = {i} /\ holidays[i].name = imported[k]

ImportShape(t) ==
    /\ t.op = "import" =>
          /\ t \in [op : {"import"}, pc : {"calendar", "make", "save", "write"}, items : SUBSET Items,
                    keys : {{x.key : x \in t.items}}, over : {t.over}, alone : BOOLEAN]
          /\ IsFiniteSet(t.items) /\ \A x, y \in t.items : x.key = y.key => x = y
    /\ t.op \in {"holiday", "change"} => t.item \in Items
    /\ t.op \in {"change", "remove"} => t.id \in DOMAIN holidays
Current(t) ==
    t.op = "import" /\ t.pc = "write" =>
        /\ t.over \in [t.items -> Nat \cup {None}]
        /\ t.alone => \A x \in t.items :
              IF RowsAt(x.key) = {} THEN t.over[x] = None ELSE t.over[x] \in RowsAt(x.key)

CalendarInv ==
    /\ Sane /\ holidays \in Seq(HolidayRows)
    /\ \A k \in Keys : Given(k)
    /\ \A q \in Requests : ImportShape(tx[q]) /\ Current(tx[q])

LEMMA HolidaysAre ==
    ASSUME holidays \in Seq(HolidayRows)
    PROVE  /\ Len(holidays) \in Nat /\ DOMAIN holidays = 1 .. Len(holidays)
           /\ \A i \in DOMAIN holidays : holidays[i] \in HolidayRows
           /\ \A k : RowsAt(k) \subseteq DOMAIN holidays
           /\ \A x : OnDate(x) = RowsAt(x.key)
BY DEF RowsAt, HolidayIds, OnDate, holidayMatchKey

(* A date that a write does not touch keeps its rows.                      *)
LEMMA Unwritten ==
    ASSUME NEW k, DOMAIN holidays \subseteq DOMAIN holidays', k \notin Written(holidays')
    PROVE  /\ RowsAt(k)' = RowsAt(k)
           /\ \A i \in RowsAt(k) : holidays'[i] = holidays[i]
<1>1. \A i \in DOMAIN holidays' :
          i \notin DOMAIN holidays \/ holidays[i] # holidays'[i] =>
              k \notin KeyAt(holidays, i) \cup KeyAt(holidays', i)
  BY DEF Written
<1>2. ASSUME NEW i \in DOMAIN holidays', holidays'[i].key = k PROVE i \in DOMAIN holidays /\ holidays'[i] = holidays[i]
  BY <1>1, <1>2 DEF KeyAt
<1>3. ASSUME NEW i \in DOMAIN holidays, holidays[i].key = k PROVE i \in DOMAIN holidays' /\ holidays'[i] = holidays[i]
  BY <1>1, <1>3 DEF KeyAt
<1>4. \A i : i \in RowsAt(k) <=> i \in DOMAIN holidays /\ holidays[i].live /\ holidays[i].key = k
  BY DEF RowsAt, HolidayIds
<1>5. \A i : i \in RowsAt(k)' <=> i \in DOMAIN holidays' /\ holidays'[i].live /\ holidays'[i].key = k
  BY DEF RowsAt, HolidayIds
<1>6. \A i : i \in RowsAt(k)' <=> i \in RowsAt(k)
  BY <1>2, <1>3, <1>4, <1>5, Zenon
<1> QED BY <1>3, <1>4, <1>6

LEMMA GivenStays ==
    ASSUME NEW k, DOMAIN holidays \subseteq DOMAIN holidays', k \notin Written(holidays'),
           imported'[k] = imported[k], Given(k)
    PROVE  Given(k)'
<1>1. RowsAt(k)' = RowsAt(k) /\ \A i \in RowsAt(k) : holidays'[i] = holidays[i]
  BY Unwritten
<1>2. RowsAt(k) \subseteq HolidayIds /\ RowsAt(k)' \subseteq HolidayIds'
  BY DEF RowsAt
<1> QED BY <1>1, <1>2 DEF Given

LEMMA ImportShapeStays ==
    ASSUME NEW t, DOMAIN holidays \subseteq DOMAIN holidays', ImportShape(t)
    PROVE  ImportShape(t)'
BY DEF ImportShape

LEMMA CurrentStays ==
    ASSUME NEW t, DOMAIN holidays \subseteq DOMAIN holidays', ImportShape(t), Current(t),
           t.op = "import" /\ t.pc = "write" /\ t.alone => t.keys \cap Written(holidays') = {}
    PROVE  Current(t)'
<1> SUFFICES ASSUME t.op = "import", t.pc = "write", t.alone, NEW x \in t.items
             PROVE  RowsAt(x.key)' = RowsAt(x.key)
  BY DEF Current
<1>1. x.key \notin Written(holidays')
  BY DEF ImportShape
<1> QED BY <1>1, Unwritten

LEMMA IdleImport == ImportShape(Idle) /\ Current(Idle) /\ ImportShape(Idle)' /\ Current(Idle)'
BY DEF Idle, ImportShape, Current

LEMMA OverlappedImport ==
    ASSUME NEW t, t.op = "import", ImportShape(t), Current(t)
    PROVE  LET v == [t EXCEPT !.alone = FALSE] IN
           ImportShape(v) /\ Current(v) /\ v.alone = FALSE
<1> DEFINE v == [t EXCEPT !.alone = FALSE]
<1>1. /\ v.op = "import" /\ v.pc = t.pc /\ v.items = t.items /\ v.keys = t.keys /\ v.over = t.over
      /\ v.alone = FALSE
      /\ v \in [op : {"import"}, pc : {"calendar", "make", "save", "write"}, items : SUBSET Items,
                keys : {{x.key : x \in t.items}}, over : {t.over}, alone : BOOLEAN]
  BY DEF ImportShape
<1> HIDE DEF v
<1>2. ImportShape(v)
  BY <1>1 DEF ImportShape
<1>3. Current(v)
  BY <1>1 DEF Current
<1> QED BY <1>1, <1>2, <1>3 DEF v

(* A write ends its handler and tells the imports of these dates.          *)
LEMMA CalendarWritten ==
    ASSUME CalendarInv, Sane', NEW r \in Requests, EndsWriting(r), holidays' \in Seq(HolidayRows),
           DOMAIN holidays \subseteq DOMAIN holidays', \A k \in Keys : Given(k)'
    PROVE  CalendarInv'
<1>1. tx' = [q \in Requests |-> IF q = r THEN Idle
                ELSE IF At(q, "import", "write") /\ tx[q].keys \cap Written(holidays') # {}
                THEN [tx[q] EXCEPT !.alone = FALSE] ELSE tx[q]]
  BY DEF EndsWriting
<1>2. ASSUME NEW q \in Requests PROVE ImportShape(tx[q])' /\ Current(tx[q])'
  <2>1. PICK t : t = tx[q] /\ ImportShape(t) /\ Current(t)
    BY DEF CalendarInv
  <2>2. CASE q = r
    BY <1>1, <2>2, IdleImport
  <2>3. CASE q # r /\ At(q, "import", "write") /\ t.keys \cap Written(holidays') # {}
    <3>1. PICK v : v = [t EXCEPT !.alone = FALSE]
      OBVIOUS
    <3>2. ImportShape(v) /\ Current(v) /\ v.alone = FALSE
      BY <2>1, <2>3, <3>1, OverlappedImport DEF At
    <3>3. ImportShape(v)' /\ Current(v)'
      BY <3>2, ImportShapeStays, CurrentStays
    <3>4. tx'[q] = v
      BY <1>1, <2>1, <2>3, <3>1
    <3> QED BY <3>3, <3>4
  <2>4. CASE q # r /\ ~(At(q, "import", "write") /\ t.keys \cap Written(holidays') # {})
    <3>1. tx'[q] = t
      BY <1>1, <2>1, <2>4
    <3>2. t.op = "import" /\ t.pc = "write" => t.keys \cap Written(holidays') = {}
      BY <2>1, <2>4 DEF At
    <3>3. ImportShape(t)' /\ Current(t)'
      BY <2>1, <3>2, ImportShapeStays, CurrentStays
    <3> QED BY <3>1, <3>3
  <2> QED BY <2>2, <2>3, <2>4, <2>1
<1> QED BY <1>2 DEF CalendarInv

LEMMA WriteKeeps ==
    ASSUME CalendarInv, Sane', NEW r \in Requests, NEW hs \in Seq(HolidayRows), WriteHolidays(r, hs),
           DOMAIN holidays \subseteq DOMAIN hs
    PROVE  CalendarInv'
<1>1. holidays' = hs /\ EndsWriting(r) /\ imported' = [k \in Keys |-> IF k \in Written(hs) THEN None ELSE imported[k]]
  BY DEF WriteHolidays
<1>2. ASSUME NEW k \in Keys PROVE Given(k)'
  <2>1. CASE k \in Written(hs)
    <3>1. imported'[k] = None
      BY <1>1, <2>1
    <3> QED BY <3>1 DEF Given
  <2>2. CASE k \notin Written(hs)
    <3>1. imported'[k] = imported[k] /\ Given(k)
      BY <1>1, <2>2 DEF CalendarInv
    <3> QED BY <1>1, <2>2, <3>1, GivenStays
  <2> QED BY <2>1, <2>2
<1> QED BY <1>1, <1>2, CalendarWritten

LEMMA HolidayMade ==
    ASSUME NEW x \in Items
    PROVE  NewHoliday(x) \in HolidayRows /\ NewHoliday(x).key = x.key /\ NewHoliday(x).name = x.name
           /\ NewHoliday(x).live = TRUE
BY DEF NewHoliday, HolidayRows, Items

LEMMA PlaceTaken ==
    ASSUME NEW S, NEW s \in Seq(S), NEW i, NEW x \in S
    PROVE  [s EXCEPT ![i] = x] \in Seq(S) /\ DOMAIN [s EXCEPT ![i] = x] = DOMAIN s
<1>1. Len(s) \in Nat /\ s \in [1 .. Len(s) -> S] /\ DOMAIN s = 1 .. Len(s)
  OBVIOUS
<1>2. [s EXCEPT ![i] = x] \in [1 .. Len(s) -> S]
  BY <1>1
<1> QED BY <1>1, <1>2

LEMMA SavesKeep ==
    ASSUME CalendarInv, Sane', NEW r \in Requests, SaveHoliday(r) \/ ChangeHoliday(r) \/ RemoveHoliday(r)
    PROVE  CalendarInv'
<1>1. /\ holidays \in Seq(HolidayRows) /\ Len(holidays) \in Nat /\ DOMAIN holidays = 1 .. Len(holidays)
      /\ \A i \in DOMAIN holidays : holidays[i] \in HolidayRows
  BY HolidaysAre DEF CalendarInv
<1>2. PICK t : t = tx[r] /\ ImportShape(t)
  BY DEF CalendarInv
<1>3. CASE SaveHoliday(r)
  <2>1. PICK h, hs : h = NewHoliday(t.item) /\ hs = Append(holidays, h) /\ WriteHolidays(r, hs)
    BY <1>2, <1>3 DEF SaveHoliday
  <2>2. h \in HolidayRows
    BY <1>2, <1>3, <2>1, HolidayMade DEF SaveHoliday, At, ImportShape
  <2>3. hs \in Seq(HolidayRows) /\ DOMAIN holidays \subseteq DOMAIN hs
    BY <1>1, <2>1, <2>2
  <2> QED BY <2>1, <2>3, WriteKeeps
<1>4. CASE ChangeHoliday(r)
  <2>1. PICK h, id, hs : h = NewHoliday(t.item) /\ id = t.id /\ hs = [holidays EXCEPT ![id] = h] /\ WriteHolidays(r, hs)
    BY <1>2, <1>4 DEF ChangeHoliday
  <2>2. h \in HolidayRows
    BY <1>2, <1>4, <2>1, HolidayMade DEF ChangeHoliday, At, ImportShape
  <2>3. hs \in Seq(HolidayRows) /\ DOMAIN holidays \subseteq DOMAIN hs
    BY <1>1, <2>1, <2>2, PlaceTaken
  <2> QED BY <2>1, <2>3, WriteKeeps
<1>5. CASE RemoveHoliday(r)
  <2>1. PICK id, hs : id = t.id /\ hs = [holidays EXCEPT ![id].live = FALSE] /\ WriteHolidays(r, hs)
    BY <1>2, <1>5 DEF RemoveHoliday
  <2>2. id \in DOMAIN holidays
    BY <1>2, <1>5, <2>1 DEF RemoveHoliday, At, ImportShape
  <2>3. PICK g, h : g = holidays[id] /\ g \in HolidayRows /\ h = [g EXCEPT !.live = FALSE] /\ h \in HolidayRows
    <3>1. PICK g : g = holidays[id] /\ g \in HolidayRows
      BY <1>1, <2>2
    <3>2. [g EXCEPT !.live = FALSE] \in HolidayRows
      BY <3>1 DEF HolidayRows
    <3> QED BY <3>1, <3>2
  <2>4. hs = [holidays EXCEPT ![id] = h]
    BY <2>1, <2>3
  <2>5. hs \in Seq(HolidayRows) /\ DOMAIN holidays \subseteq DOMAIN hs
    BY <1>1, <2>3, <2>4, PlaceTaken
  <2> QED BY <2>1, <2>5, WriteKeeps
<1> QED BY <1>3, <1>4, <1>5

(* No holiday is written.                                                  *)
LEMMA CalendarStays ==
    ASSUME CalendarInv, Sane', holidays' = holidays, imported' = imported,
           \A q \in Requests : \/ tx'[q] = tx[q] \/ tx'[q].op \notin CalendarOps
                               \/ ImportShape(tx'[q]) /\ Current(tx'[q])
    PROVE  CalendarInv'
<1>1. ASSUME NEW t, ImportShape(t), Current(t) PROVE ImportShape(t)' /\ Current(t)'
  BY <1>1 DEF ImportShape, Current, RowsAt, HolidayIds
<1>2. ASSUME NEW q \in Requests PROVE ImportShape(tx[q])' /\ Current(tx[q])'
  <2>1. PICK t : t = tx'[q] /\ ImportShape(t) /\ Current(t)
    BY DEF CalendarInv, ImportShape, Current, CalendarOps
  <2>2. ImportShape(t)' /\ Current(t)'
    BY <1>1, <2>1
  <2> QED BY <2>1, <2>2
<1>3. \A k \in Keys : Given(k)'
  BY DEF CalendarInv, Given, RowsAt, HolidayIds
<1> QED BY <1>2, <1>3 DEF CalendarInv

LEMMA CalendarGoes ==
    ASSUME CalendarInv, Sane', NEW r \in Requests, NEW t, ImportShape(t), Current(t), Goes(r, t),
           holidays' = holidays, imported' = imported
    PROVE  CalendarInv'
<1>1. tx'[r] = t /\ \A q \in Requests \ {r} : tx'[q] = tx[q]
  BY DEF Goes, CalendarInv, Sane
<1> QED BY <1>1, CalendarStays

(* Of a file the last row of a date and branch is left.                    *)
LEMMA LastRowsLeft ==
    ASSUME NEW n \in 1 .. 2, NEW file \in [1 .. n -> Items]
    PROVE  /\ Deduped(file) \subseteq Items /\ IsFiniteSet(Deduped(file))
           /\ \A x, y \in Deduped(file) : x.key = y.key => x = y
           /\ {x.key : x \in Deduped(file)} = {file[i].key : i \in DOMAIN file}
<1>1. \A x \in Deduped(file) : \E i \in 1 .. n :
          x = file[i] /\ \A k \in 1 .. n : k > i => file[k].key # x.key
  BY DEF Deduped, holidayMatchKey
<1>2. ASSUME NEW x \in Deduped(file), NEW y \in Deduped(file), x.key = y.key PROVE x = y
  <2>1. PICK i \in 1 .. n : x = file[i] /\ \A k \in 1 .. n : k > i => file[k].key # x.key
    BY <1>1
  <2>2. PICK j \in 1 .. n : y = file[j] /\ \A k \in 1 .. n : k > j => file[k].key # y.key
    BY <1>1
  <2> QED BY <1>2, <2>1, <2>2
<1>3. ASSUME NEW i \in 1 .. n, \A k \in 1 .. n : k > i => file[k].key # file[i].key
      PROVE  file[i] \in Deduped(file)
  BY <1>3 DEF Deduped, holidayMatchKey
<1>4. ASSUME NEW i \in 1 .. n PROVE \E x \in Deduped(file) : x.key = file[i].key
  <2>1. file[n] \in Deduped(file)
    BY <1>3
  <2>2. file[1].key # file[n].key => file[1] \in Deduped(file)
    BY <1>3
  <2>3. i \in {1, n}
    OBVIOUS
  <2> QED BY <2>1, <2>2, <2>3
<1>5. IsFiniteSet(Deduped(file))
  <2>1. IsFiniteSet({file[1]})
    BY FS_Singleton
  <2>2. IsFiniteSet({file[1]} \cup {file[n]})
    BY <2>1, FS_AddElement
  <2>3. Deduped(file) \subseteq {file[1]} \cup {file[n]}
    BY <1>1
  <2> QED BY <2>2, <2>3, FS_Subset
<1> QED BY <1>1, <1>2, <1>4, <1>5

LEMMA CalendarStarts ==
    ASSUME CalendarInv, Sane', NEW r \in Requests,
           \/ \E item \in Items : createHoliday(r, item)
           \/ \E file \in Files : bulkUpsertHolidays(r, file)
           \/ \E i \in HolidayIds : deleteHoliday(r, i) \/ \E item \in Items : updateHoliday(r, i, item)
           \/ publishCalendar(r)
    PROVE  CalendarInv'
<1>1. ASSUME NEW t, StartHoliday(r, t), ImportShape(t), t.pc # "write" PROVE CalendarInv'
  <2>1. Goes(r, t) /\ holidays' = holidays /\ imported' = imported
    BY <1>1 DEF StartHoliday, Begin, calendarVars
  <2>2. Current(t)
    BY <1>1 DEF Current
  <2> QED BY <1>1, <2>1, <2>2, CalendarGoes
<1>2. ASSUME NEW item \in Items, createHoliday(r, item) PROVE CalendarInv'
  <2>1. PICK t : t = [op |-> "holiday", pc |-> "calendar", item |-> item] /\ StartHoliday(r, t)
    BY <1>2 DEF createHoliday
  <2>2. ImportShape(t) /\ t.pc # "write"
    BY <2>1 DEF ImportShape
  <2> QED BY <1>1, <2>1, <2>2
<1>3. ASSUME NEW file \in Files, bulkUpsertHolidays(r, file) PROVE CalendarInv'
  <2>1. \E n \in 1 .. 2 : file \in [1 .. n -> Items]
    BY DEF Files
  <2>2. PICK items, keys : items = Deduped(file) /\ keys = {file[i].key : i \in DOMAIN file}
    OBVIOUS
  <2>3. PICK t : /\ t = [op |-> "import", pc |-> "calendar", items |-> items, keys |-> keys, over |-> <<>>,
                         alone |-> FALSE]
                 /\ StartHoliday(r, t)
    BY <1>3, <2>2 DEF bulkUpsertHolidays
  <2>4. items \subseteq Items /\ IsFiniteSet(items) /\ (\A x, y \in items : x.key = y.key => x = y) /\ keys = {x.key : x \in items}
    BY <2>1, <2>2, LastRowsLeft
  <2>5. ImportShape(t) /\ t.pc # "write"
    BY <2>3, <2>4 DEF ImportShape
  <2> QED BY <1>1, <2>3, <2>5
<1>4. ASSUME NEW i \in HolidayIds, NEW item \in Items, updateHoliday(r, i, item) PROVE CalendarInv'
  <2>1. PICK t : t = [op |-> "change", pc |-> "save", id |-> i, item |-> item] /\ StartHoliday(r, t)
    BY <1>4 DEF updateHoliday
  <2>2. ImportShape(t) /\ t.pc # "write"
    BY <2>1 DEF ImportShape, HolidayIds
  <2> QED BY <1>1, <2>1, <2>2
<1>5. ASSUME NEW i \in HolidayIds, deleteHoliday(r, i) PROVE CalendarInv'
  <2>1. PICK t : t = [op |-> "remove", pc |-> "save", id |-> i] /\ StartHoliday(r, t)
    BY <1>5 DEF deleteHoliday
  <2>2. ImportShape(t) /\ t.pc # "write"
    BY <2>1 DEF ImportShape, HolidayIds
  <2> QED BY <1>1, <2>1, <2>2
<1>6. ASSUME publishCalendar(r) PROVE CalendarInv'
  <2>1. PICK t : t = [op |-> "publish", pc |-> "calendar"] /\ StartHoliday(r, t)
    BY <1>6 DEF publishCalendar
  <2>2. ImportShape(t) /\ t.pc # "write"
    BY <2>1 DEF ImportShape
  <2> QED BY <1>1, <2>1, <2>2
<1> QED BY <1>2, <1>3, <1>4, <1>5, <1>6

(* The handler goes on to another step than the write.                     *)
LEMMA ImportMoves ==
    ASSUME NEW t, NEW pc \in {"make", "save"}, ImportShape(t), {"op", "pc"} \subseteq DOMAIN t
    PROVE  LET v == [t EXCEPT !.pc = pc] IN ImportShape(v) /\ Current(v)
<1> DEFINE v == [t EXCEPT !.pc = pc]
<1>1. v.op = t.op /\ v.pc = pc /\ v.item = t.item /\ v.id = t.id
  OBVIOUS
<1>2. t.op = "import" =>
          /\ v \in [op : {"import"}, pc : {"calendar", "make", "save", "write"}, items : SUBSET Items,
                    keys : {{x.key : x \in t.items}}, over : {t.over}, alone : BOOLEAN]
          /\ v.items = t.items /\ v.over = t.over
  BY DEF ImportShape
<1> HIDE DEF v
<1>3. ImportShape(v)
  BY <1>1, <1>2 DEF ImportShape
<1>4. Current(v)
  BY <1>1 DEF Current
<1> QED BY <1>3, <1>4 DEF v

LEMMA CalendarFound ==
    ASSUME CalendarInv, Sane', NEW r \in Requests,
           FindCalendar(r) \/ MakeCalendar(r) \/ PublishCalendar(r) \/ FailHoliday(r)
    PROVE  CalendarInv'
<1>1. PICK t : t = tx[r] /\ ImportShape(t) /\ {"op", "pc"} \subseteq DOMAIN t
  BY DEF CalendarInv, Sane, Handler
<1>2. holidays' = holidays /\ imported' = imported
  BY DEF FindCalendar, MakeCalendar, PublishCalendar, FailHoliday, calendarVars
<1>3. CASE FindCalendar(r) \/ MakeCalendar(r)
  <2>1. PICK pc : pc \in {"make", "save"} /\ Goes(r, [t EXCEPT !.pc = pc])
    BY <1>1, <1>3 DEF FindCalendar, MakeCalendar
  <2>2. PICK v : v = [t EXCEPT !.pc = pc] /\ ImportShape(v) /\ Current(v)
    BY <1>1, <2>1, ImportMoves
  <2> QED BY <1>2, <2>1, <2>2, CalendarGoes
<1>4. CASE PublishCalendar(r) \/ FailHoliday(r)
  <2>1. Goes(r, Idle)
    BY <1>4 DEF PublishCalendar, FailHoliday, Ends
  <2> QED BY <1>2, <2>1, IdleImport, CalendarGoes
<1> QED BY <1>3, <1>4

LEMMA ReadKeeps ==
    ASSUME CalendarInv, Sane', NEW r \in Requests, ReadHolidays(r)
    PROVE  CalendarInv'
<1>1. PICK t : t = tx[r] /\ t.op = "import" /\ ImportShape(t)
  BY DEF ReadHolidays, At, CalendarInv
<1>2. PICK over \in [t.items -> HolidayIds \cup {None}] :
          /\ \A x \in t.items : IF OnDate(x) = {} THEN over[x] = None ELSE over[x] \in OnDate(x)
          /\ Goes(r, [t EXCEPT !.pc = "write", !.over = over, !.alone = TRUE])
  BY <1>1 DEF ReadHolidays
<1>3. HolidayIds \subseteq Nat /\ \A x : OnDate(x) = RowsAt(x.key)
  BY HolidaysAre DEF CalendarInv, HolidayIds
<1>4. PICK v : v = [t EXCEPT !.pc = "write", !.over = over, !.alone = TRUE]
  OBVIOUS
<1>5. v.op = "import" /\ v.pc = "write" /\ v.items = t.items /\ v.keys = t.keys /\ v.over = over /\ v.alone = TRUE
  BY <1>1, <1>4 DEF ImportShape
<1>6. v = [op |-> "import", pc |-> "write", items |-> t.items, keys |-> t.keys, over |-> over, alone |-> TRUE]
  BY <1>1, <1>4, <1>5 DEF ImportShape
<1>7. ImportShape(v)
  BY <1>1, <1>6 DEF ImportShape
<1>8. over \in [t.items -> Nat \cup {None}]
  BY <1>3
<1>9. Current(v)
  BY <1>2, <1>3, <1>5, <1>8 DEF Current
<1>10. holidays' = holidays /\ imported' = imported
  BY DEF ReadHolidays, calendarVars
<1> QED BY <1>2, <1>4, <1>7, <1>9, <1>10, CalendarGoes

(* Rows that are put after rows.                                           *)
LEMMA PutAfter ==
    ASSUME NEW S, NEW m \in Nat, NEW n \in Nat, NEW a \in [1 .. m -> S], NEW b \in [1 .. n -> S]
    PROVE  /\ a \o b \in Seq(S) /\ DOMAIN (a \o b) = 1 .. (m + n)
           /\ \A i \in 1 .. m : (a \o b)[i] = a[i]
           /\ \A i \in 1 .. n : (a \o b)[m + i] = b[i]
<1>1. a \in Seq(S) /\ b \in Seq(S) /\ Len(a) = m /\ Len(b) = n
  OBVIOUS
<1>2. a \o b \in Seq(S) /\ Len(a \o b) = m + n
  BY <1>1
<1> QED BY <1>1, <1>2

(* Two elements are more than one.                                         *)
LEMMA NoTwo ==
    ASSUME NEW S, IsFiniteSet(S), Cardinality(S) <= 1, NEW x \in S, NEW y \in S
    PROVE  x = y
<1> SUFFICES ASSUME x # y PROVE FALSE
  OBVIOUS
<1>1. IsFiniteSet({x}) /\ Cardinality({x}) = 1
  BY FS_Singleton
<1>2. y \notin {x} /\ {x} \cup {y} \in SUBSET S
  OBVIOUS
<1>3. PICK two : two = {x} \cup {y} /\ two \subseteq S /\ IsFiniteSet(two) /\ Cardinality(two) = 2
  <2>1. IsFiniteSet({x} \cup {y}) /\ Cardinality({x} \cup {y}) = Cardinality({x}) + 1
    BY <1>1, <1>2, FS_AddElement
  <2> QED BY <1>1, <1>2, <2>1
<1>4. Cardinality(two) <= Cardinality(S) /\ Cardinality(S) \in Nat
  BY <1>3, FS_Subset, FS_CardinalityType
<1> QED BY <1>3, <1>4

(* What an import writes: a row of its items wherever it found one to      *)
(* write over, and new ones after the last.                                *)
Imports(t) ==
    /\ holidays' \in Seq(HolidayRows) /\ DOMAIN holidays \subseteq DOMAIN holidays'
    /\ \A i \in DOMAIN holidays :
          \/ \E x \in t.items : t.over[x] = i /\ holidays'[i] = NewHoliday(x)
          \/ (\A x \in t.items : t.over[x] # i) /\ holidays'[i] = holidays[i]
    /\ \A i \in DOMAIN holidays' \ DOMAIN holidays :
          \E x \in t.items : t.over[x] = None /\ holidays'[i] = NewHoliday(x)
    /\ \A x \in t.items : t.over[x] = None =>
          \E i \in DOMAIN holidays' \ DOMAIN holidays : holidays'[i] = NewHoliday(x)

LEMMA ImportedRows ==
    ASSUME CalendarInv, NEW r \in Requests, ImportHolidays(r), NEW t, t = tx[r]
    PROVE  Imports(t)
<1>1. ImportShape(t) /\ t.op = "import"
  BY DEF CalendarInv, ImportHolidays, At
<1>2. PICK new : new = {x \in t.items : t.over[x] = None}
  OBVIOUS
<1>3. PICK order : /\ order \in [1 .. Cardinality(new) -> new]
                   /\ \A x \in new : \E m \in DOMAIN order : order[m] = x
                   /\ holidays' = Overwritten(t) \o [m \in DOMAIN order |-> NewHoliday(order[m])]
  BY <1>1, <1>2 DEF ImportHolidays
<1>4. PICK c : c = Cardinality(new) /\ c \in Nat
  <2>1. IsFiniteSet(new)
    BY <1>1, <1>2, FS_Subset DEF ImportShape
  <2> QED BY <2>1, FS_CardinalityType
<1>5. PICK n : n = Len(holidays) /\ n \in Nat /\ DOMAIN holidays = 1 .. n
  BY HolidaysAre DEF CalendarInv
<1>6. new \subseteq Items /\ t.items \subseteq Items /\ \A i \in 1 .. n : holidays[i] \in HolidayRows
  BY <1>1, <1>2, <1>5, HolidaysAre DEF CalendarInv, ImportShape
<1>7. PICK a : a = Overwritten(t)
  OBVIOUS
<1>8. a = [i \in 1 .. n |-> IF \E x \in t.items : t.over[x] = i
                            THEN NewHoliday(CHOOSE x \in t.items : t.over[x] = i) ELSE holidays[i]]
  BY <1>5, <1>7 DEF Overwritten
<1>9. ASSUME NEW i \in 1 .. n
      PROVE  \/ \E x \in t.items : t.over[x] = i /\ a[i] = NewHoliday(x)
             \/ (\A x \in t.items : t.over[x] # i) /\ a[i] = holidays[i]
  <2>1. CASE \E x \in t.items : t.over[x] = i
    <3>1. PICK x : x = CHOOSE y \in t.items : t.over[y] = i
      OBVIOUS
    <3>2. x \in t.items /\ t.over[x] = i
      BY <2>1, <3>1
    <3>3. a[i] = NewHoliday(x)
      BY <1>8, <2>1, <3>1
    <3> QED BY <3>2, <3>3
  <2>2. CASE ~\E x \in t.items : t.over[x] = i
    BY <1>8, <2>2
  <2> QED BY <2>1, <2>2
<1>10. ASSUME NEW i \in 1 .. n PROVE a[i] \in HolidayRows
  <2>1. CASE \E x \in t.items : t.over[x] = i /\ a[i] = NewHoliday(x)
    BY <1>6, <2>1, HolidayMade
  <2>2. CASE a[i] = holidays[i]
    BY <1>6, <2>2
  <2> QED BY <1>9, <2>1, <2>2
<1>11. a \in [1 .. n -> HolidayRows]
  BY <1>8, <1>10
<1>12. DOMAIN order = 1 .. c /\ \A m \in 1 .. c : order[m] \in new
  BY <1>3, <1>4
<1>13. PICK b : b = [m \in DOMAIN order |-> NewHoliday(order[m])]
  OBVIOUS
<1>14. \A m \in 1 .. c : b[m] = NewHoliday(order[m])
  BY <1>12, <1>13
<1>15. b \in [1 .. c -> HolidayRows]
  <2>1. \A m \in 1 .. c : b[m] \in HolidayRows
    BY <1>6, <1>12, <1>14, HolidayMade
  <2> QED BY <1>12, <1>13, <2>1
<1>16. holidays' = a \o b
  BY <1>3, <1>7, <1>13
<1>17. /\ a \o b \in Seq(HolidayRows) /\ DOMAIN (a \o b) = 1 .. (n + c)
       /\ \A i \in 1 .. n : (a \o b)[i] = a[i]
       /\ \A i \in 1 .. c : (a \o b)[n + i] = b[i]
  <2>1. n \in Nat /\ c \in Nat
    BY <1>4, <1>5
  <2> QED BY ONLY <2>1, <1>11, <1>15, PutAfter, SMTT(60)
<1>18. ASSUME NEW i \in DOMAIN holidays' \ DOMAIN holidays
       PROVE  \E x \in t.items : t.over[x] = None /\ holidays'[i] = NewHoliday(x)
  <2>1. PICK m \in 1 .. c : i = n + m
    <3>1. i \in 1 .. (n + c) /\ i \notin 1 .. n
      BY <1>5, <1>16, <1>17
    <3>2. i - n \in 1 .. c /\ i = n + (i - n)
      BY <1>4, <1>5, <3>1
    <3> QED BY <3>2
  <2>2. holidays'[i] = NewHoliday(order[m]) /\ order[m] \in new
    BY <1>12, <1>14, <1>16, <1>17, <2>1
  <2> QED BY <1>2, <2>2
<1>19. ASSUME NEW x \in t.items, t.over[x] = None
       PROVE  \E i \in DOMAIN holidays' \ DOMAIN holidays : holidays'[i] = NewHoliday(x)
  <2>1. PICK m \in 1 .. c : order[m] = x
    BY <1>2, <1>3, <1>12, <1>19
  <2>2. n + m \in DOMAIN holidays' \ DOMAIN holidays
    BY <1>4, <1>5, <1>16, <1>17
  <2> QED BY <1>14, <1>16, <1>17, <2>1, <2>2
<1>20. DOMAIN holidays \subseteq DOMAIN holidays' /\ \A i \in DOMAIN holidays : holidays'[i] = a[i]
  BY <1>4, <1>5, <1>16, <1>17
<1>21. \A i \in DOMAIN holidays :
           \/ \E x \in t.items : t.over[x] = i /\ holidays'[i] = NewHoliday(x)
           \/ (\A x \in t.items : t.over[x] # i) /\ holidays'[i] = holidays[i]
  BY <1>5, <1>9, <1>20
<1>22. holidays' \in Seq(HolidayRows)
  BY <1>16, <1>17
<1> QED BY <1>18, <1>19, <1>20, <1>21, <1>22 DEF Imports

(* What an import that nothing overlapped gives a date that had one        *)
(* holiday at most.                                                        *)
LEMMA OneIsGiven ==
    ASSUME CalendarInv, NEW r \in Requests, ImportHolidays(r), NEW t, t = tx[r], t.alone,
           NEW x \in t.items, Cardinality(RowsAt(x.key)) <= 1
    PROVE  \E i \in HolidayIds' : RowsAt(x.key)' = {i} /\ holidays'[i].name = x.name
<1>1. ImportShape(t) /\ Current(t) /\ t.op = "import" /\ t.pc = "write" /\ None \notin Nat
  BY CatalogAssumption DEF CalendarInv, ImportHolidays, At
<1>2. t.items \subseteq Items /\ \A y, z \in t.items : y.key = z.key => y = z
  BY <1>1 DEF ImportShape
<1>3. \A y \in t.items : IF RowsAt(y.key) = {} THEN t.over[y] = None ELSE t.over[y] \in RowsAt(y.key)
  BY <1>1 DEF Current
<1>4. \A k : RowsAt(k) \subseteq DOMAIN holidays /\ DOMAIN holidays \subseteq Nat /\ IsFiniteSet(RowsAt(k))
  <2>1. PICK n \in Nat : DOMAIN holidays = 1 .. n
    BY HolidaysAre DEF CalendarInv
  <2>2. IsFiniteSet(1 .. n)
    BY FS_Interval
  <2>3. \A k : RowsAt(k) \subseteq 1 .. n
    BY <2>1, HolidaysAre DEF CalendarInv
  <2> QED BY <2>1, <2>2, <2>3, FS_Subset
<1>5. ASSUME NEW i \in RowsAt(x.key), NEW j \in RowsAt(x.key) PROVE i = j
  BY <1>4, NoTwo
<1>6. Imports(t)
  BY ImportedRows
<1>7. \A y \in t.items : NewHoliday(y).key = y.key /\ NewHoliday(y).name = y.name /\ NewHoliday(y).live = TRUE
  BY <1>2, HolidayMade
<1>8. \A i, k : /\ i \in RowsAt(k)' <=> i \in HolidayIds' /\ holidays'[i].key = k
                /\ i \in HolidayIds' <=> i \in DOMAIN holidays' /\ holidays'[i].live
                /\ i \in RowsAt(k) => holidays[i].key = k
                /\ i \in DOMAIN holidays /\ holidays[i].live /\ holidays[i].key = k => i \in RowsAt(k)
  BY DEF RowsAt, HolidayIds
<1>9. ASSUME NEW i \in RowsAt(x.key)' PROVE holidays'[i] = NewHoliday(x)
  <2>1. i \in DOMAIN holidays' /\ holidays'[i].key = x.key /\ holidays'[i].live
    BY <1>8
  <2>2. CASE \E y \in t.items : holidays'[i] = NewHoliday(y)
    BY <1>2, <1>7, <2>1, <2>2
  <2>3. CASE i \in DOMAIN holidays /\ (\A y \in t.items : t.over[y] # i) /\ holidays'[i] = holidays[i]
    <3>1. i \in RowsAt(x.key)
      BY <1>8, <2>1, <2>3
    <3>2. t.over[x] \in RowsAt(x.key)
      BY <1>3, <3>1
    <3> QED BY <1>5, <2>3, <3>1, <3>2
  <2> QED BY <1>6, <2>1, <2>2, <2>3 DEF Imports
<1>10. \E i \in DOMAIN holidays' : holidays'[i] = NewHoliday(x)
  <2>1. CASE t.over[x] = None
    BY <1>6, <2>1 DEF Imports
  <2>2. CASE t.over[x] # None
    <3>1. PICK i : i = t.over[x] /\ i \in RowsAt(x.key) /\ i \in DOMAIN holidays /\ i \in Nat
      BY <1>3, <1>4, <2>2
    <3>2. PICK y \in t.items : t.over[y] = i /\ holidays'[i] = NewHoliday(y)
      BY <1>6, <3>1 DEF Imports
    <3>3. i \in RowsAt(y.key)
      BY <1>1, <1>3, <3>1, <3>2
    <3>4. y = x
      BY <1>2, <1>8, <3>1, <3>3
    <3> QED BY <1>6, <3>1, <3>2, <3>4 DEF Imports
  <2> QED BY <2>1, <2>2
<1>11. PICK i \in DOMAIN holidays' : holidays'[i] = NewHoliday(x)
  BY <1>10
<1>12. i \in RowsAt(x.key)' /\ i \in HolidayIds' /\ holidays'[i].name = x.name
  BY <1>7, <1>8, <1>11
<1>13. ASSUME NEW j \in RowsAt(x.key)' PROVE j = i
  <2>1. j \in DOMAIN holidays' /\ holidays'[j] = NewHoliday(x) /\ holidays'[j].live /\ holidays'[i].live
    BY <1>7, <1>8, <1>9, <1>11
  <2>2. Distinct(holidays')
    BY DEF ImportHolidays
  <2> QED BY <1>11, <2>1, <2>2 DEF Distinct, NameOfKey
<1> QED BY <1>12, <1>13

LEMMA ImportKeeps ==
    ASSUME CalendarInv, Sane', NEW r \in Requests, ImportHolidays(r)
    PROVE  CalendarInv'
<1>1. PICK t : t = tx[r] /\ ImportShape(t) /\ t.op = "import"
  BY DEF CalendarInv, ImportHolidays, At
<1>2. /\ EndsWriting(r)
      /\ imported' = [k \in Keys |->
                        IF k \in t.keys /\ t.alone /\ Cardinality(RowsAt(k)) <= 1
                        THEN (CHOOSE x \in t.items : x.key = k).name
                        ELSE IF k \in Written(holidays') THEN None ELSE imported[k]]
  BY <1>1 DEF ImportHolidays, RowsAt
<1>3. holidays' \in Seq(HolidayRows) /\ DOMAIN holidays \subseteq DOMAIN holidays'
  BY <1>1, ImportedRows DEF Imports
<1>4. ASSUME NEW k \in Keys PROVE Given(k)'
  <2>1. CASE k \in t.keys /\ t.alone /\ Cardinality(RowsAt(k)) <= 1
    <3>1. PICK x : x = CHOOSE y \in t.items : y.key = k
      OBVIOUS
    <3>2. x \in t.items /\ x.key = k
      BY <1>1, <2>1, <3>1 DEF ImportShape
    <3>3. imported'[k] = x.name
      BY <1>2, <2>1, <3>1
    <3>4. \E i \in HolidayIds' : RowsAt(k)' = {i} /\ holidays'[i].name = x.name
      BY <1>1, <2>1, <3>2, OneIsGiven
    <3> QED BY <3>3, <3>4 DEF Given
  <2>2. CASE ~(k \in t.keys /\ t.alone /\ Cardinality(RowsAt(k)) <= 1) /\ k \in Written(holidays')
    <3>1. imported'[k] = None
      BY <1>2, <2>2
    <3> QED BY <3>1 DEF Given
  <2>3. CASE ~(k \in t.keys /\ t.alone /\ Cardinality(RowsAt(k)) <= 1) /\ k \notin Written(holidays')
    <3>1. imported'[k] = imported[k] /\ Given(k)
      BY <1>2, <2>3 DEF CalendarInv
    <3> QED BY <1>3, <2>3, <3>1, GivenStays
  <2> QED BY <2>1, <2>2, <2>3
<1> QED BY <1>2, <1>3, <1>4, CalendarWritten

LEMMA CalendarStepKeeps ==
    ASSUME CalendarInv, Sane', NEW r \in Requests, CalendarStep(r)
    PROVE  CalendarInv'
<1>1. CASE \/ \E item \in Items : createHoliday(r, item)
           \/ \E file \in Files : bulkUpsertHolidays(r, file)
           \/ \E i \in HolidayIds : deleteHoliday(r, i) \/ \E item \in Items : updateHoliday(r, i, item)
           \/ publishCalendar(r)
  BY <1>1, CalendarStarts, Zenon
<1> QED
  BY <1>1, CalendarFound, SavesKeep, ReadKeeps, ImportKeeps, Zenon DEF CalendarStep

LEMMA CalendarInitially == Init => CalendarInv
<1> SUFFICES ASSUME Init PROVE CalendarInv
  OBVIOUS
<1>1. \A q \in Requests : ImportShape(tx[q]) /\ Current(tx[q])
  BY IdleImport DEF Init, PortalInit
<1>2. holidays \in Seq(HolidayRows) /\ \A k \in Keys : Given(k)
  BY DEF Init, CalendarInit, Given
<1> QED BY <1>1, <1>2, SaneInitially DEF CalendarInv

LEMMA CalendarKeep == CalendarInv /\ [Next]_vars => CalendarInv'
<1> SUFFICES ASSUME CalendarInv, [Next]_vars PROVE CalendarInv'
  OBVIOUS
<1>1. Sane /\ Sane'
  BY SaneKept DEF CalendarInv
<1>2. ASSUME UNCHANGED calendarVars, Untouched(CalendarOps) PROVE CalendarInv'
  <2>1. \A q \in Requests : tx'[q] = tx[q] \/ tx'[q].op \notin CalendarOps
    BY <1>2 DEF Untouched
  <2> QED BY <1>1, <1>2, <2>1, CalendarStays DEF calendarVars
<1> QED BY <1>1, <1>2, CalendarStepKeeps, CalendarApart

(* The last import of a date of a branch that no handler overlapped left   *)
(* it the one holiday it gave it, and the employees of the branch see it   *)
(* once the calendar is published, until another handler changes the date. *)
THEOREM ImportsAlwaysHold == Spec => []ImportsHold
<1>1. CalendarInv => ImportsHold
  <2> SUFFICES ASSUME CalendarInv, NEW k \in Keys, imported[k] # None
               PROVE  \E i \in HolidayIds :
                         /\ {j \in HolidayIds : holidays[j].key = k} = {i}
                         /\ holidays[i].name = imported[k]
                         /\ calendar = "PUBLISHED" => i \in findPublishedHolidays(k[1], k[2])
    BY DEF ImportsHold
  <2>1. PICK i \in HolidayIds : RowsAt(k) = {i} /\ holidays[i].name = imported[k]
    BY DEF CalendarInv, Given
  <2>2. holidays[i].key = k
    BY <2>1 DEF RowsAt
  <2>3. calendar = "PUBLISHED" => i \in findPublishedHolidays(k[1], k[2])
    BY <2>2 DEF findPublishedHolidays, appliesToLocation
  <2> QED BY <2>1, <2>3 DEF RowsAt
<1> QED BY CalendarInitially, CalendarKeep, <1>1, PTL DEF Spec

-----------------------------------------------------------------------------
(* Files.  The keys of the library are never those of forms.  A form that  *)
(* is alone keeps what it is about to commit: nobody else touches its keys.*)
FormKinds == {"receipt", "attachment", "document", "photo", "logo"}
KeyIds == 1 .. lastKey
FormRefs == {f \in refs : f.kind \notin Library}

Todos == {<<>>, <<"clean up">>, <<"delete source">>, <<"delete source", "clean up">>,
          <<"copy", "delete source">>, <<"copy", "delete source", "clean up">>,
          <<"clean up", "copy", "delete source">>}
FileForm(t, keys) ==
    /\ t \in [op : {"file"}, pc : {"run"}, kind : FormKinds, line : Lines \cup {None},
              source : keys \cup {None}, new : keys \cup {None}, old : keys \cup {None},
              todo : Todos, cleaned : {{}, {t.old} \ {None}}, alone : BOOLEAN]
    /\ t.kind = "receipt" <=> t.line # None
    /\ t.todo \notin {<<>>, <<"clean up">>} => t.source # None /\ t.new # t.source
    /\ t.kind = "receipt" /\ t.source = None /\ (t.todo # <<>> \/ t.cleaned # {}) => t.old # t.new

PurgeForm(t) ==
    t.op = "purge" => t \in [op : {"purge"}, pc : {"delete", "clear"}, listed : {t.listed}]

LibraryKeysOf(t) ==
    IF t.op = "policy" \/ (t.op = "form16" /\ t.pc = "save") THEN {t.key}
    ELSE IF t.op = "document" THEN {t.doc.key} ELSE {}
FormKeysOf(t) == IF t.op = "file" THEN KeysOf(t) ELSE {}
LibraryKey(k) == (\E f \in refs : f.kind \in Library /\ f.key = k) \/ \E q \in Requests : k \in LibraryKeysOf(tx[q])
FormKey(k) == \/ k \in sent \/ (\E f \in FormRefs : f.key = k) \/ (k # None /\ \E l \in Lines : receiptOf[l] = k)
              \/ \E q \in Requests : k \in FormKeysOf(tx[q])

KeysInv ==
    /\ lastKey \in 0 .. MaxKeys /\ sent \cup staged \subseteq KeyIds /\ receiptOf \in [Lines -> KeyIds \cup {None}]
    /\ \A f \in refs : f.key \in KeyIds
    /\ \A q \in Requests : (tx[q].op = "file" => FileForm(tx[q], KeyIds)) /\ LibraryKeysOf(tx[q]) \subseteq KeyIds
    /\ \A q \in Requests : PurgeForm(tx[q])
    /\ \A k \in KeyIds : ~(LibraryKey(k) /\ FormKey(k))

(* A key that two rows share is excused.                                   *)
SharedInv ==
    /\ \A f, g \in FormRefs : f.key = g.key => f = g \/ f.key \in excused
    /\ \A f \in FormRefs, l \in Lines : receiptOf[l] = f.key => f.kind = "receipt" \/ f.key \in excused
    /\ \A l, m \in Lines : receiptOf[l] = receiptOf[m] /\ receiptOf[l] # None => l = m \/ receiptOf[l] \in excused

Ready(t) ==
    /\ t.new # None => IF t.kind = "receipt" /\ t.source = None THEN RefsTo("receipt", t.new) # {}
                       ELSE t.new \in objects \cup t.cleaned
    /\ t.cleaned # {} => RefsTo(t.kind, t.old) # {}
    /\ t.kind = "receipt" => \A l \in Lines : receiptOf[l] = t.old /\ t.old # None => l = t.line \/ t.old \in excused
    /\ t.kind = "receipt" /\ t.source # None /\ t.new # None =>
          (\A f \in refs : f.key # t.new) /\ \A l \in Lines : receiptOf[l] # t.new
AloneInv ==
    \A q \in Requests : tx[q].op = "file" /\ tx[q].alone =>
        /\ \A o \in Requests \ {q} : tx[o].op # "purge" /\ FormKeysOf(tx[o]) \cap KeysOf(tx[q]) = {}
        /\ Ready(tx[q])

Safe(k) == k \in objects \/ k \in excused \cup InHand
PresentInv ==
    /\ \A f \in refs : Safe(f.key)
    /\ \A q \in Requests, k \in KeyIds : k \in LibraryKeysOf(tx[q]) => Safe(k)
    /\ \A l \in Lines : receiptOf[l] # None => RefsTo("receipt", receiptOf[l]) # {} \/ receiptOf[l] \in excused \cup InHand

FilesInv == KeysInv /\ SharedInv /\ AloneInv /\ PresentInv

(* What a handler has deleted or is about to clear.                        *)
Hand(t) == IF t.op = "file" THEN t.cleaned
           ELSE IF t.op = "purge" /\ t.pc = "clear" THEN t.listed ELSE {}

LEMMA InHandIs ==
    /\ \A k : k \in InHand <=> \E q \in Requests : k \in Hand(tx[q])
    /\ \A k : k \in InHand' <=> \E q \in Requests : k \in Hand(tx'[q])
<1> DEFINE h(q) == IF InForm(q) THEN tx[q].cleaned
                   ELSE IF At(q, "purge", "clear") THEN tx[q].listed ELSE {}
<1>1. \A q \in Requests : h(q) = Hand(tx[q]) /\ h(q)' = Hand(tx'[q])
  BY DEF InForm, At, Hand
<1>2. InHand = UNION {h(q) : q \in Requests} /\ InHand' = UNION {h(q)' : q \in Requests}
  BY DEF InHand
<1> HIDE DEF h
<1> QED BY <1>1, <1>2

LEMMA KeysAre ==
    ASSUME KeysInv
    PROVE  /\ \A k : LibraryKey(k) \/ FormKey(k) => k \in KeyIds
           /\ \A k : ~(LibraryKey(k) /\ FormKey(k))
           /\ None \notin KeyIds /\ lastKey \in Nat /\ KeyIds \subseteq Nat
<1>1. None \notin KeyIds /\ lastKey \in Nat /\ KeyIds \subseteq Nat
  BY FilesAssumption DEF KeysInv, KeyIds
<1>2. \A q \in Requests : FormKeysOf(tx[q]) \subseteq KeyIds
  <2> SUFFICES ASSUME NEW q \in Requests, tx[q].op = "file" PROVE KeysOf(tx[q]) \subseteq KeyIds
    BY DEF FormKeysOf
  <2>1. PICK t : t = tx[q] /\ FileForm(t, KeyIds)
    BY DEF KeysInv
  <2> QED BY <2>1 DEF FileForm, KeysOf
<1>3. \A k : LibraryKey(k) => k \in KeyIds
  BY DEF KeysInv, LibraryKey
<1>4. \A k : FormKey(k) => k \in KeyIds
  <2> SUFFICES ASSUME NEW k, FormKey(k) PROVE k \in KeyIds
    OBVIOUS
  <2>1. CASE k \in sent \/ \E f \in FormRefs : f.key = k
    BY <2>1 DEF KeysInv, FormRefs
  <2>2. CASE k # None /\ \E l \in Lines : receiptOf[l] = k
    BY <2>2 DEF KeysInv
  <2>3. CASE \E q \in Requests : k \in FormKeysOf(tx[q])
    BY <1>2, <2>3
  <2> QED BY <2>1, <2>2, <2>3 DEF FormKey
<1> QED BY <1>1, <1>3, <1>4 DEF KeysInv

LEMMA FileFormStays ==
    ASSUME NEW t, NEW keys, NEW more, keys \subseteq more, FileForm(t, keys)
    PROVE  FileForm(t, more)
BY DEF FileForm

(* A form that another overlaps with.                                      *)
LEMMA FileFormMarked ==
    ASSUME NEW t, NEW keys, FileForm(t, keys), NEW u, u = [t EXCEPT !.alone = FALSE]
    PROVE  /\ FileForm(u, keys) /\ u.op = "file" /\ u.alone = FALSE /\ KeysOf(u) = KeysOf(t)
           /\ u.cleaned = t.cleaned /\ LibraryKeysOf(u) = {} /\ LibraryKeysOf(t) = {}
           /\ t.op = "file" /\ Hand(u) = Hand(t)
<1>1. /\ u.op = "file" /\ u.pc = t.pc /\ u.kind = t.kind /\ u.line = t.line /\ u.source = t.source
      /\ u.new = t.new /\ u.old = t.old /\ u.todo = t.todo /\ u.cleaned = t.cleaned /\ u.alone = FALSE
      /\ t.op = "file"
      /\ u \in [op : {"file"}, pc : {"run"}, kind : FormKinds, line : Lines \cup {None},
                source : keys \cup {None}, new : keys \cup {None}, old : keys \cup {None},
                todo : Todos, cleaned : {{}, {t.old} \ {None}}, alone : BOOLEAN]
  BY DEF FileForm
<1>2. FileForm(u, keys)
  <2>1. FileForm(t, keys)
    OBVIOUS
  <2> HIDE DEF FileForm
  <2>2. u \in [op : {"file"}, pc : {"run"}, kind : FormKinds, line : Lines \cup {None},
                source : keys \cup {None}, new : keys \cup {None}, old : keys \cup {None},
                todo : Todos, cleaned : {{}, {u.old} \ {None}}, alone : BOOLEAN]
    BY <1>1
  <2>3. /\ t.kind = "receipt" <=> t.line # None
        /\ t.todo \notin {<<>>, <<"clean up">>} => t.source # None /\ t.new # t.source
        /\ t.kind = "receipt" /\ t.source = None /\ (t.todo # <<>> \/ t.cleaned # {}) => t.old # t.new
    BY <2>1 DEF FileForm
  <2> QED BY <1>1, <2>2, <2>3, Zenon DEF FileForm
<1>3. KeysOf(u) = KeysOf(t)
  BY <1>1 DEF KeysOf
<1> QED BY <1>1, <1>2, <1>3 DEF LibraryKeysOf, Hand

(* The handlers of others go on, but may learn that they are not alone.    *)
SameForm(t, u) == u = t \/ (t.op = "file" /\ u = [t EXCEPT !.alone = FALSE])

LEMMA SameFormIs ==
    ASSUME KeysInv, NEW q \in Requests, NEW u, SameForm(tx[q], u)
    PROVE  /\ u.op = tx[q].op /\ FormKeysOf(u) = FormKeysOf(tx[q])
           /\ LibraryKeysOf(u) = LibraryKeysOf(tx[q]) /\ Hand(u) = Hand(tx[q])
           /\ u.op = "file" => FileForm(u, KeyIds) /\ (u.alone => u = tx[q])
           /\ u.op # "file" => u = tx[q]
<1>1. CASE u = tx[q]
  BY <1>1 DEF KeysInv
<1>2. CASE u # tx[q]
  <2>1. PICK t : t = tx[q] /\ t.op = "file" /\ u = [t EXCEPT !.alone = FALSE] /\ FileForm(t, KeyIds)
    BY <1>2 DEF SameForm, KeysInv
  <2>2. /\ FileForm(u, KeyIds) /\ u.op = "file" /\ u.alone = FALSE /\ KeysOf(u) = KeysOf(t)
        /\ u.cleaned = t.cleaned /\ LibraryKeysOf(u) = {} /\ LibraryKeysOf(t) = {}
        /\ t.op = "file" /\ Hand(u) = Hand(t)
    BY <2>1, FileFormMarked
  <2> QED BY <2>1, <2>2 DEF FormKeysOf
<1> QED BY <1>1, <1>2

(* New keys are for the library or for forms.                              *)
LEMMA KeysGo ==
    ASSUME KeysInv, NEW r \in Requests, NEW t, tx'[r] = t, \A q \in Requests \ {r} : SameForm(tx[q], tx'[q]),
           lastKey' \in lastKey .. MaxKeys,
           NEW lib \in SUBSET (KeyIds' \ KeyIds), NEW form \in SUBSET (KeyIds' \ KeyIds), lib \cap form = {},
           \A f \in refs' : IF f.kind \in Library THEN LibraryKey(f.key) \/ f.key \in lib
                            ELSE FormKey(f.key) \/ f.key \in form,
           \A k \in sent' \cup FormKeysOf(t) : FormKey(k) \/ k \in form,
           staged' \subseteq KeyIds', receiptOf' = [l \in Lines |-> receiptOf'[l]],
           \A l \in Lines : receiptOf'[l] # None => FormKey(receiptOf'[l]) \/ receiptOf'[l] \in form,
           \A k \in LibraryKeysOf(t) : LibraryKey(k) \/ k \in lib,
           t.op = "file" => FileForm(t, KeyIds'),
           PurgeForm(t)
    PROVE  KeysInv'
<1>1. KeyIds \subseteq KeyIds' /\ None \notin KeyIds' /\ lastKey' \in 0 .. MaxKeys
  BY KeysAre, FilesAssumption DEF KeyIds
<1>2. \A k : LibraryKey(k) \/ FormKey(k) \/ k \in lib \/ k \in form => k \in KeyIds'
  BY <1>1, KeysAre
<1>3. ASSUME NEW q \in Requests \ {r}
      PROVE  /\ tx'[q].op = "file" => FileForm(tx'[q], KeyIds')
             /\ FormKeysOf(tx'[q]) = FormKeysOf(tx[q]) /\ LibraryKeysOf(tx'[q]) = LibraryKeysOf(tx[q])
             /\ PurgeForm(tx'[q])
  <2>1. PICK u : u = tx'[q] /\ SameForm(tx[q], u)
    OBVIOUS
  <2>2. /\ u.op = tx[q].op /\ FormKeysOf(u) = FormKeysOf(tx[q]) /\ LibraryKeysOf(u) = LibraryKeysOf(tx[q])
        /\ u.op = "file" => FileForm(u, KeyIds)
        /\ u.op # "file" => u = tx[q]
    BY <2>1, SameFormIs
  <2>3. u.op = "file" => FileForm(u, KeyIds')
    BY <1>1, <2>2, FileFormStays
  <2>4. PurgeForm(u)
    BY <2>2 DEF KeysInv, PurgeForm
  <2> QED BY <2>1, <2>2, <2>3, <2>4
<1>4. \A k : LibraryKey(k)' => LibraryKey(k) \/ k \in lib
  BY <1>3 DEF LibraryKey
<1>5. \A k : FormKey(k)' => FormKey(k) \/ k \in form
  <2> SUFFICES ASSUME NEW k, FormKey(k)', ~FormKey(k) PROVE k \in form
    OBVIOUS
  <2>1. CASE k \in sent'
    BY <2>1
  <2>2. CASE \E f \in FormRefs' : f.key = k
    BY <2>2 DEF FormRefs
  <2>3. CASE k # None /\ \E l \in Lines : receiptOf'[l] = k
    BY <2>3
  <2>4. CASE \E q \in Requests : k \in FormKeysOf(tx'[q])
    <3>1. PICK q \in Requests : k \in FormKeysOf(tx'[q])
      BY <2>4
    <3>2. q = r
      BY <1>3, <3>1 DEF FormKey
    <3> QED BY <3>1, <3>2
  <2> QED BY <2>1, <2>2, <2>3, <2>4 DEF FormKey, FormKeysOf, KeysOf
<1>6. \A k : ~(LibraryKey(k)' /\ FormKey(k)')
  BY <1>4, <1>5, KeysAre
<1>7. \A f \in refs' : f.key \in KeyIds'
  BY <1>2
<1>8. sent' \cup staged' \subseteq KeyIds'
  BY <1>2
<1>9. receiptOf' \in [Lines -> KeyIds' \cup {None}]
  BY <1>2
<1>10. \A q \in Requests : /\ tx'[q].op = "file" => FileForm(tx'[q], KeyIds')
                           /\ LibraryKeysOf(tx'[q]) \subseteq KeyIds'
                           /\ PurgeForm(tx'[q])
  <2> SUFFICES ASSUME NEW q \in Requests
               PROVE  /\ tx'[q].op = "file" => FileForm(tx'[q], KeyIds')
                      /\ LibraryKeysOf(tx'[q]) \subseteq KeyIds'
                      /\ PurgeForm(tx'[q])
    OBVIOUS
  <2>1. CASE q = r
    BY <1>2, <2>1
  <2>2. CASE q # r
    <3>1. LibraryKeysOf(tx[q]) \subseteq KeyIds
      BY DEF KeysInv
    <3> QED BY <1>1, <1>3, <2>2, <3>1
  <2> QED BY <2>1, <2>2
<1>11. KeysInv' <=>
         /\ lastKey' \in 0 .. MaxKeys /\ sent' \cup staged' \subseteq KeyIds' /\ receiptOf' \in [Lines -> KeyIds' \cup {None}]
         /\ \A f \in refs' : f.key \in KeyIds'
         /\ \A q \in Requests : (tx'[q].op = "file" => FileForm(tx'[q], KeyIds')) /\ LibraryKeysOf(tx'[q]) \subseteq KeyIds'
         /\ \A q \in Requests : PurgeForm(tx'[q])
         /\ \A k \in KeyIds' : ~(LibraryKey(k)' /\ FormKey(k)')
  BY DEF KeysInv
<1> QED BY <1>1, <1>6, <1>7, <1>8, <1>9, <1>10, <1>11, Zenon

(* Rows and receipts that only go away share no more keys.                 *)
LEMMA SharedShrinks ==
    ASSUME SharedInv, excused \subseteq excused',
           \A f \in refs' : f \in refs \/ f.kind \in Library,
           \A l \in Lines : receiptOf'[l] \in {receiptOf[l], None},
           \A f \in refs' : f.kind \notin Library => f.key # None
    PROVE  SharedInv'
<1>1. \A f \in FormRefs' : f \in FormRefs /\ f.key # None
  BY DEF FormRefs
<1>2. \A f, g \in FormRefs' : f.key = g.key => f = g \/ f.key \in excused'
  BY <1>1 DEF SharedInv
<1>3. \A f \in FormRefs', l \in Lines : receiptOf'[l] = f.key => f.kind = "receipt" \/ f.key \in excused'
  BY <1>1 DEF SharedInv
<1>4. \A l, m \in Lines : receiptOf'[l] = receiptOf'[m] /\ receiptOf'[l] # None => l = m \/ receiptOf'[l] \in excused'
  BY DEF SharedInv
<1> QED BY <1>2, <1>3, <1>4 DEF SharedInv

(* Nobody touches the key.                                                 *)
Still(k) == /\ k \in objects => k \in objects'
            /\ \A f : f.key = k => (f \in refs <=> f \in refs')
            /\ \A l \in Lines : receiptOf'[l] = k => receiptOf[l] = k

LEMMA ReadyStays ==
    ASSUME NEW t, NEW keys, FileForm(t, keys), Ready(t), \A k \in KeysOf(t) : Still(k), excused \subseteq excused'
    PROVE  Ready(t)'
<1>1. \A k \in KeysOf(t) : \A kind : RefsTo(kind, k)' = RefsTo(kind, k)
  BY DEF Still, RefsTo
<1>2. /\ t.new # None => t.new \in KeysOf(t)
      /\ t.old # None => t.old \in KeysOf(t)
      /\ t.cleaned # {} => t.old # None /\ t.cleaned = {t.old}
  BY DEF KeysOf, FileForm
<1>3. t.new # None => IF t.kind = "receipt" /\ t.source = None THEN RefsTo("receipt", t.new)' # {}
                      ELSE t.new \in objects' \cup t.cleaned
  BY <1>1, <1>2 DEF Ready, Still
<1>4. t.cleaned # {} => RefsTo(t.kind, t.old)' # {}
  BY <1>1, <1>2 DEF Ready
<1>5. t.kind = "receipt" => \A l \in Lines : receiptOf'[l] = t.old /\ t.old # None => l = t.line \/ t.old \in excused'
  BY <1>2 DEF Ready, Still
<1>6. t.kind = "receipt" /\ t.source # None /\ t.new # None =>
          (\A f \in refs' : f.key # t.new) /\ \A l \in Lines : receiptOf'[l] # t.new
  BY <1>2 DEF Ready, Still
<1> QED BY <1>3, <1>4, <1>5, <1>6 DEF Ready

LEMMA AloneGo ==
    ASSUME KeysInv, AloneInv, NEW r \in Requests, NEW t, tx'[r] = t,
           \A q \in Requests \ {r} : SameForm(tx[q], tx'[q]), excused \subseteq excused',
           \A q \in Requests \ {r} : tx'[q].op = "file" /\ tx'[q].alone =>
              /\ t.op = "purge" => tx[r].op = "purge"
              /\ \A k \in FormKeysOf(t) : k \in FormKeysOf(tx[r]) \/ k \notin KeysOf(tx[q]),
           t.op = "file" /\ t.alone =>
              /\ Ready(t)'
              /\ \A o \in Requests \ {r} : tx[o].op # "purge" /\ FormKeysOf(tx[o]) \cap KeysOf(t) = {},
           tx[r].op # "purge" => \A k : FormKey(k) /\ k \notin FormKeysOf(tx[r]) => Still(k)
    PROVE  AloneInv'
<1> SUFFICES ASSUME NEW q \in Requests, tx'[q].op = "file", tx'[q].alone
             PROVE  /\ \A o \in Requests \ {q} : tx'[o].op # "purge" /\ FormKeysOf(tx'[o]) \cap KeysOf(tx'[q]) = {}
                    /\ Ready(tx[q])'
  BY DEF AloneInv, FormKeysOf, KeysOf
<1>1. ASSUME NEW o \in Requests \ {r} PROVE tx'[o].op = tx[o].op /\ FormKeysOf(tx'[o]) = FormKeysOf(tx[o])
  <2>1. PICK u : u = tx'[o] /\ SameForm(tx[o], u)
    OBVIOUS
  <2> QED BY <2>1, SameFormIs
<1>2. CASE q = r
  <2>1. \A o \in Requests \ {r} : tx'[o].op # "purge" /\ FormKeysOf(tx'[o]) \cap KeysOf(t) = {}
    BY <1>1, <1>2
  <2>2. Ready(t)'
    BY <1>2
  <2> QED BY <1>2, <2>1, <2>2
<1>3. CASE q # r
  <2>1. PICK u : u = tx'[q] /\ SameForm(tx[q], u) /\ u = tx[q] /\ FileForm(u, KeyIds)
    BY <1>3, SameFormIs
  <2>2. /\ \A o \in Requests \ {q} : tx[o].op # "purge" /\ FormKeysOf(tx[o]) \cap KeysOf(u) = {}
        /\ Ready(u)
    BY <2>1 DEF AloneInv
  <2>3. \A o \in Requests \ {q, r} : tx'[o].op # "purge" /\ FormKeysOf(tx'[o]) \cap KeysOf(u) = {}
    BY <1>1, <2>2
  <2>4. t.op # "purge" /\ FormKeysOf(t) \cap KeysOf(u) = {}
    BY <1>3, <2>1, <2>2
  <2>5. \A k \in KeysOf(u) : FormKey(k) /\ k \notin FormKeysOf(tx[r])
    BY <1>3, <2>1, <2>2 DEF FormKey, FormKeysOf
  <2>6. Ready(u)'
    BY <1>3, <2>1, <2>2, <2>5, ReadyStays
  <2> QED BY <2>1, <2>3, <2>4, <2>6
<1> QED BY <1>2, <1>3

(* What has been deleted is in hand, or excused.                           *)
HandKept(r, k) == k \in Hand(tx[r]) => k \in excused' \cup Hand(tx'[r])
KeyKept(r, k) == HandKept(r, k) /\ (k \in objects => k \in objects' \cup excused' \cup Hand(tx'[r]))

LEMMA HandStays ==
    ASSUME KeysInv, NEW r \in Requests, \A q \in Requests \ {r} : SameForm(tx[q], tx'[q]), excused \subseteq excused',
           NEW k, HandKept(r, k), k \in excused \cup InHand
    PROVE  k \in excused' \cup InHand'
<1>1. CASE k \in excused
  BY <1>1
<1>2. ASSUME NEW q \in Requests, k \in Hand(tx[q]) PROVE k \in excused' \cup InHand'
  <2>1. CASE q = r
    BY <1>2, <2>1, InHandIs DEF HandKept
  <2>2. CASE q # r
    <3>1. PICK u : u = tx'[q] /\ SameForm(tx[q], u)
      BY <2>2
    <3>2. k \in Hand(tx'[q])
      BY <1>2, <3>1, SameFormIs
    <3> QED BY <3>2, InHandIs
  <2> QED BY <2>1, <2>2
<1> QED BY <1>1, <1>2, InHandIs

LEMMA SafeStays ==
    ASSUME KeysInv, NEW r \in Requests, \A q \in Requests \ {r} : SameForm(tx[q], tx'[q]), excused \subseteq excused',
           NEW k, KeyKept(r, k), Safe(k)
    PROVE  Safe(k)'
<1>1. CASE k \in objects
  BY <1>1, InHandIs DEF KeyKept, Safe
<1>2. CASE k \in excused \cup InHand
  BY <1>2, HandStays DEF KeyKept, Safe
<1> QED BY <1>1, <1>2 DEF Safe

Served(k) == RefsTo("receipt", k) # {} \/ k \in excused \cup InHand

LEMMA PresentGo ==
    ASSUME KeysInv, PresentInv, NEW r \in Requests, NEW t, tx'[r] = t,
           \A q \in Requests \ {r} : SameForm(tx[q], tx'[q]), excused \subseteq excused',
           \A f \in refs' : (f \in refs /\ KeyKept(r, f.key)) \/ Safe(f.key)',
           \A k : LibraryKey(k) => KeyKept(r, k),
           \A k \in LibraryKeysOf(t) : LibraryKey(k) \/ Safe(k)',
           \A l \in Lines : \A k : receiptOf'[l] = k /\ k # None =>
              \/ Served(k)'
              \/ /\ receiptOf[l] = k /\ HandKept(r, k)
                 /\ RefsTo("receipt", k) # {} => RefsTo("receipt", k)' # {} \/ k \in excused'
    PROVE  PresentInv'
<1>1. ASSUME NEW f \in refs' PROVE Safe(f.key)'
  <2>1. CASE Safe(f.key)'
    BY <2>1
  <2>2. CASE f \in refs /\ KeyKept(r, f.key)
    <3>1. PICK k : k = f.key /\ Safe(k) /\ KeyKept(r, k)
      BY <2>2 DEF PresentInv
    <3>2. Safe(k)'
      BY <3>1, SafeStays
    <3> QED BY <3>1, <3>2
  <2> QED BY <2>1, <2>2
<1>2. ASSUME NEW k, LibraryKey(k) PROVE Safe(k)'
  <2>1. k \in KeyIds
    BY <1>2, KeysAre
  <2>2. Safe(k)
    BY <1>2, <2>1 DEF PresentInv, LibraryKey
  <2> QED BY <1>2, <2>2, SafeStays
<1>3. ASSUME NEW q \in Requests, NEW k, k \in LibraryKeysOf(tx'[q]) PROVE Safe(k)'
  <2>1. CASE q = r
    BY <1>2, <1>3, <2>1
  <2>2. CASE q # r
    <3>1. PICK u : u = tx'[q] /\ SameForm(tx[q], u)
      BY <2>2
    <3>2. LibraryKey(k)
      BY <1>3, <3>1, SameFormIs DEF LibraryKey
    <3> QED BY <1>2, <3>2
  <2> QED BY <2>1, <2>2
<1>4. ASSUME NEW l \in Lines, NEW k, k = receiptOf'[l], k # None PROVE Served(k)'
  <2>1. CASE Served(k)'
    BY <2>1
  <2>2. CASE /\ receiptOf[l] = k /\ HandKept(r, k)
             /\ RefsTo("receipt", k) # {} => RefsTo("receipt", k)' # {} \/ k \in excused'
    <3>1. RefsTo("receipt", k) # {} \/ k \in excused \cup InHand
      BY <1>4, <2>2 DEF PresentInv
    <3>2. CASE RefsTo("receipt", k) # {}
      BY <2>2, <3>2 DEF Served
    <3>3. CASE k \in excused \cup InHand
      BY <2>2, <3>3, HandStays DEF Served
    <3> QED BY <3>1, <3>2, <3>3
  <2> QED BY <1>4, <2>1, <2>2
<1>5. \A q \in Requests, k \in KeyIds' : k \in LibraryKeysOf(tx[q])' => Safe(k)'
  BY <1>3 DEF LibraryKeysOf
<1>6. \A l \in Lines : receiptOf'[l] # None =>
          RefsTo("receipt", receiptOf[l])' # {} \/ receiptOf'[l] \in excused' \cup InHand'
  BY <1>4 DEF Served, RefsTo
<1> QED BY <1>1, <1>5, <1>6 DEF PresentInv

LEMMA FileKeysStay ==
    ASSUME KeysInv, NEW r \in Requests, NEW t, tx'[r] = t, \A q \in Requests \ {r} : SameForm(tx[q], tx'[q]),
           lastKey' = lastKey, staged' = staged, sent' \subseteq sent, refs' \subseteq refs,
           receiptOf' = [l \in Lines |-> receiptOf'[l]], \A l \in Lines : receiptOf'[l] \in {receiptOf[l], None},
           \A k \in FormKeysOf(t) : FormKey(k), \A k \in LibraryKeysOf(t) : LibraryKey(k),
           t.op = "file" => FileForm(t, KeyIds),
           PurgeForm(t)
    PROVE  KeysInv'
<1>1. KeyIds' = KeyIds /\ lastKey' \in lastKey .. MaxKeys
  BY DEF KeysInv, KeyIds
<1>2. PICK lib, form : lib = {} /\ form = {}
  OBVIOUS
<1>3. lib \in SUBSET (KeyIds' \ KeyIds) /\ form \in SUBSET (KeyIds' \ KeyIds) /\ lib \cap form = {}
  BY <1>2
<1>4. \A f \in refs' : IF f.kind \in Library THEN LibraryKey(f.key) \/ f.key \in lib
                       ELSE FormKey(f.key) \/ f.key \in form
  <2> SUFFICES ASSUME NEW f \in refs' PROVE IF f.kind \in Library THEN LibraryKey(f.key) ELSE FormKey(f.key)
    OBVIOUS
  <2>1. f \in refs
    OBVIOUS
  <2> QED BY <2>1 DEF LibraryKey, FormKey, FormRefs
<1>5. \A k \in sent' \cup FormKeysOf(t) : FormKey(k) \/ k \in form
  BY DEF FormKey
<1>6. \A l \in Lines : receiptOf'[l] # None => FormKey(receiptOf'[l]) \/ receiptOf'[l] \in form
  BY DEF FormKey
<1>7. \A k \in LibraryKeysOf(t) : LibraryKey(k) \/ k \in lib
  OBVIOUS
<1>8. t.op = "file" => FileForm(t, KeyIds')
  BY <1>1
<1>9. staged' \subseteq KeyIds'
  BY <1>1 DEF KeysInv
<1> QED BY <1>1, <1>3, <1>4, <1>5, <1>6, <1>7, <1>8, <1>9, KeysGo, Zenon

(* One handler goes on that changes rows of the library only.              *)
LEMMA LibraryGo ==
    ASSUME FilesInv, Sane, NEW r \in Requests, NEW t, Goes(r, t), t.op \notin FileOps, tx[r].op \notin FileOps,
           lastKey' \in lastKey .. MaxKeys, objects \subseteq objects', UNCHANGED <<receiptOf, sent, staged, excused>>,
           NEW lib \in SUBSET (KeyIds' \ KeyIds), lib \subseteq objects',
           \A f \in refs : f.kind \notin Library => f \in refs',
           \A f \in refs' : f \in refs \/ (f.kind \in Library /\ f.key \in LibraryKeysOf(tx[r])),
           \A k \in LibraryKeysOf(t) : LibraryKey(k) \/ k \in lib
    PROVE  FilesInv'
<1>1. tx'[r] = t /\ \A q \in Requests \ {r} : SameForm(tx[q], tx'[q])
  BY DEF Goes, Sane, SameForm
<1>2. KeysInv /\ SharedInv /\ AloneInv /\ PresentInv
  BY DEF FilesInv
<1>3. /\ FormKeysOf(t) = {} /\ FormKeysOf(tx[r]) = {} /\ Hand(t) = {} /\ Hand(tx[r]) = {}
      /\ t.op # "file" /\ t.op # "purge" /\ tx[r].op # "purge"
  BY DEF FileOps, FormKeysOf, Hand
<1>4. KeysInv'
  <2>1. \A f \in refs' : IF f.kind \in Library THEN LibraryKey(f.key) ELSE FormKey(f.key)
    BY DEF LibraryKey, FormKey, FormRefs
  <2>2. \A k \in sent' \cup FormKeysOf(t) : FormKey(k)
    BY <1>3 DEF FormKey
  <2>3. \A l \in Lines : receiptOf'[l] # None => FormKey(receiptOf'[l])
    BY DEF FormKey
  <2>4. receiptOf' = [l \in Lines |-> receiptOf'[l]]
    BY <1>2 DEF KeysInv
  <2>5. PICK none : none = {}
    OBVIOUS
  <2>8. staged' \subseteq KeyIds'
    BY <1>2, KeysAre DEF KeysInv, KeyIds
  <2>7. PurgeForm(t)
    BY <1>3 DEF PurgeForm
  <2>6. none \in SUBSET (KeyIds' \ KeyIds) /\ lib \cap none = {}
    BY <2>5
  <2> QED BY <1>1, <1>2, <1>3, <2>1, <2>2, <2>3, <2>4, <2>6, <2>7, <2>8, KeysGo
<1>5. SharedInv'
  <2>1. \A f \in refs' : f.kind \notin Library => f.key # None
    BY <1>2, KeysAre DEF KeysInv
  <2> QED BY <1>2, <2>1, SharedShrinks
<1>6. AloneInv'
  <2>1. ASSUME NEW k, FormKey(k) PROVE Still(k)
    <3>1. ~LibraryKey(k)
      BY <1>2, <2>1, KeysAre
    <3>2. \A f : f.key = k => (f \in refs <=> f \in refs')
      BY <3>1 DEF LibraryKey
    <3> QED BY <3>2 DEF Still
  <2> QED BY <1>1, <1>2, <1>3, <2>1, AloneGo
<1>7. PresentInv'
  <2>1. \A k : KeyKept(r, k) /\ HandKept(r, k)
    BY <1>3 DEF KeyKept, HandKept
  <2>2. ASSUME NEW f \in refs' PROVE f \in refs \/ Safe(f.key)'
    <3>1. CASE f \in refs
      BY <3>1
    <3>2. CASE f.key \in LibraryKeysOf(tx[r])
      <4>1. PICK k : k = f.key /\ k \in KeyIds /\ Safe(k)
        BY <1>2, <3>2 DEF PresentInv, KeysInv
      <4>2. Safe(k)'
        BY <1>1, <1>2, <2>1, <4>1, SafeStays
      <4> QED BY <4>1, <4>2
    <3> QED BY <3>1, <3>2
  <2>3. \A k \in lib : Safe(k)'
    BY DEF Safe
  <2>4. \A k : RefsTo("receipt", k) # {} => RefsTo("receipt", k)' # {}
    BY DEF RefsTo, Library
  <2> QED BY <1>1, <1>2, <2>1, <2>2, <2>3, <2>4, PresentGo
<1> QED BY <1>4, <1>5, <1>6, <1>7 DEF FilesInv

(* Nothing but the handler itself changes.                                 *)
LEMMA LibraryIdles ==
    ASSUME FilesInv, Sane, NEW r \in Requests, NEW t, Goes(r, t), t.op \notin FileOps, tx[r].op \notin FileOps,
           UNCHANGED <<objects, receiptOf, sent, staged, excused, lastKey>>,
           \A f \in refs : f.kind \notin Library => f \in refs',
           \A f \in refs' : f \in refs \/ (f.kind \in Library /\ f.key \in LibraryKeysOf(tx[r])),
           \A k \in LibraryKeysOf(t) : LibraryKey(k)
    PROVE  FilesInv'
<1>1. lastKey' \in lastKey .. MaxKeys /\ objects \subseteq objects'
  BY DEF FilesInv, KeysInv
<1>2. PICK lib : lib = {}
  OBVIOUS
<1>3. lib \in SUBSET (KeyIds' \ KeyIds) /\ lib \subseteq objects'
  BY <1>2
<1>4. UNCHANGED <<receiptOf, sent, staged, excused>>
  OBVIOUS
<1>5. \A k \in LibraryKeysOf(t) : LibraryKey(k) \/ k \in lib
  OBVIOUS
<1> QED BY <1>1, <1>3, <1>4, <1>5, LibraryGo, Zenon

LEMMA LibraryMakes ==
    ASSUME FilesInv, Sane, NEW r \in Requests, NEW t, Goes(r, t), t.op \notin FileOps, tx[r].op \notin FileOps,
           MakeObject, UNCHANGED <<refs, receiptOf, sent, staged, excused>>, LibraryKeysOf(t) \subseteq {NewKey}
    PROVE  FilesInv'
<1>1. lastKey' = lastKey + 1 /\ lastKey < MaxKeys /\ objects' = objects \cup {lastKey + 1} /\ lastKey \in 0 .. MaxKeys
  BY DEF MakeObject, NewKey, FilesInv, KeysInv
<1>2. PICK lib : lib = {lastKey + 1}
  OBVIOUS
<1>3. lib \in SUBSET (KeyIds' \ KeyIds) /\ lib \subseteq objects' /\ objects \subseteq objects'
  BY <1>1, <1>2, FilesAssumption DEF KeyIds
<1>4. lastKey' \in lastKey .. MaxKeys
  BY <1>1, FilesAssumption
<1>5. \A k \in LibraryKeysOf(t) : LibraryKey(k) \/ k \in lib
  BY <1>2 DEF NewKey
<1>6. \A f \in refs : f.kind \notin Library => f \in refs'
  OBVIOUS
<1>7. \A f \in refs' : f \in refs \/ (f.kind \in Library /\ f.key \in LibraryKeysOf(tx[r]))
  OBVIOUS
<1>8. UNCHANGED <<receiptOf, sent, staged, excused>>
  OBVIOUS
<1> QED BY <1>3, <1>4, <1>5, <1>6, <1>7, <1>8, LibraryGo, Zenon

LEMMA CentreKeepsFiles ==
    ASSUME FilesInv, CentreInv, NEW r \in Requests, CentreStep(r)
    PROVE  FilesInv'
<1>1. Sane /\ CentreShape(tx[r])
  BY DEF CentreInv
<1>2. tx[r].pc = "idle" => tx[r].op = "none"
  BY <1>1 DEF Sane, Handler
<1>3. ASSUME NEW t, NEW S, StartCentre(r, t, S), t.op \notin FileOps, \A k \in LibraryKeysOf(t) : LibraryKey(k)
      PROVE  FilesInv'
  <2>1. Goes(r, t) /\ tx[r].op \notin FileOps
    BY <1>2, <1>3 DEF StartCentre, Begin, FileOps
  <2>2. UNCHANGED <<refs, objects, receiptOf, sent, staged, excused, lastKey>>
    BY <1>3 DEF StartCentre, fileVars
  <2> QED BY <1>1, <1>3, <2>1, <2>2, LibraryIdles
<1>4. ASSUME NEW left, NEW zip, NEW stored
      PROVE  LibraryKeysOf(Upload(left, zip, stored)) = {} /\ Upload(left, zip, stored).op \notin FileOps
  BY DEF Upload, LibraryKeysOf, FileOps
<1>5. ASSUME NEW e, uploadForm16(r, e) PROVE FilesInv'
  <2>1. PICK t, S : StartCentre(r, t, S) /\ t = Upload({e}, FALSE, FALSE)
    BY <1>5 DEF uploadForm16
  <2> QED BY <1>3, <1>4, <2>1
<1>6. ASSUME NEW S, uploadForm16Zip(r, S) PROVE FilesInv'
  <2>1. PICK t : StartCentre(r, t, S) /\ t = Upload(S, TRUE, FALSE)
    BY <1>6 DEF uploadForm16Zip
  <2> QED BY <1>3, <1>4, <2>1
<1>7. ASSUME NEW doc \in refs, NEW change, findDocumentOrFail(r, doc, change) PROVE FilesInv'
  <2>1. PICK t, S : StartCentre(r, t, S) /\ t = [op |-> "document", pc |-> change, doc |-> doc] /\ doc.kind \in Library
    BY <1>7 DEF findDocumentOrFail
  <2>2. t.op \notin FileOps /\ \A k \in LibraryKeysOf(t) : LibraryKey(k)
    BY <2>1 DEF LibraryKeysOf, LibraryKey, FileOps
  <2> QED BY <1>3, <2>1, <2>2
<1>8. ASSUME tx[r].op = "form16", NEW t, Goes(r, t), t.op = "form16", t.pc # "save",
             UNCHANGED <<objects, receiptOf, sent, staged, excused, lastKey>>,
             \A f \in refs : f.kind \notin Library => f \in refs',
             \A f \in refs' : f \in refs \/ (f.kind \in Library /\ f.key \in LibraryKeysOf(tx[r]))
      PROVE  FilesInv'
  <2>1. tx[r].op \notin FileOps /\ t.op \notin FileOps /\ \A k \in LibraryKeysOf(t) : LibraryKey(k)
    BY <1>8 DEF LibraryKeysOf, FileOps
  <2> QED BY <1>1, <1>8, <2>1, LibraryIdles
<1>9. CASE FindForm(r) \/ RemoveForm(r)
  <2>1. tx[r].op = "form16"
    BY <1>9 DEF FindForm, RemoveForm, At
  <2>2. PICK u : u = tx[r] /\ FormShape(u) /\ u.op = "form16" /\ (u.pc = "remove" => \A f \in u.old : f.kind = "form16")
    BY <1>1, <2>1 DEF CentreShape, FormShape
  <2>3. CASE FindForm(r)
    <3>1. PICK e : Goes(r, [u EXCEPT !.pc = "remove", !.e = e, !.old = Forms(e)])
      BY <2>2, <2>3 DEF FindForm
    <3>2. PICK t : t = [u EXCEPT !.pc = "remove", !.e = e, !.old = Forms(e)]
      OBVIOUS
    <3>3. t.op = "form16" /\ t.pc = "remove"
      BY <2>2, <3>2 DEF FormShape
    <3>4. UNCHANGED <<refs, objects, receiptOf, sent, staged, excused, lastKey>>
      BY <2>3 DEF FindForm, fileVars
    <3> QED BY <1>8, <2>1, <3>1, <3>2, <3>3, <3>4
  <2>4. CASE RemoveForm(r)
    <3>1. PICK t : t = [u EXCEPT !.pc = "put"] /\ Goes(r, t)
      BY <2>2, <2>4 DEF RemoveForm
    <3>2. t.op = "form16" /\ t.pc = "put"
      BY <2>2, <3>1 DEF FormShape
    <3>3. refs' = refs \ u.old /\ \A f \in u.old : f.kind = "form16"
      BY <2>2, <2>4 DEF RemoveForm, At
    <3>4. UNCHANGED <<objects, receiptOf, sent, staged, excused, lastKey>>
      BY <2>4 DEF RemoveForm
    <3>5. \A f \in refs : f.kind \notin Library => f \in refs'
      BY <3>3 DEF Library
    <3>6. \A f \in refs' : f \in refs
      BY <3>3
    <3> QED BY <1>8, <2>1, <3>1, <3>2, <3>4, <3>5, <3>6
  <2> QED BY <1>9, <2>3, <2>4
<1>10. CASE PutForm(r)
  <2>1. PICK u : u = tx[r] /\ FormShape(u) /\ u.op = "form16"
    BY <1>1, <1>10 DEF CentreShape, PutForm, At
  <2>2. PICK t : t = [u EXCEPT !.pc = "save", !.key = NewKey] /\ Goes(r, t)
    BY <1>10, <2>1 DEF PutForm
  <2>3. t.op = "form16" /\ t.pc = "save" /\ t.key = NewKey
    BY <2>1, <2>2 DEF FormShape
  <2>4. t.op \notin FileOps /\ tx[r].op \notin FileOps /\ LibraryKeysOf(t) \subseteq {NewKey}
    BY <2>1, <2>3 DEF LibraryKeysOf, FileOps
  <2>5. MakeObject /\ UNCHANGED <<refs, receiptOf, sent, staged, excused>>
    BY <1>10 DEF PutForm
  <2> QED BY <1>1, <2>2, <2>4, <2>5, LibraryMakes
<1>11. CASE SaveForm(r)
  <2>1. PICK e, key, t : /\ key = tx[r].key /\ t = Entry(r, TRUE) /\ Goes(r, t) /\ refs' = refs \cup {Ref("form16", e, key)}
    BY <1>11 DEF SaveForm
  <2>2. tx[r].op = "form16" /\ tx[r].pc = "save" /\ t.op = "form16" /\ t.pc = "next"
    BY <1>11, <2>1 DEF SaveForm, At, Entry, Upload
  <2>3. key \in LibraryKeysOf(tx[r])
    BY <2>1, <2>2 DEF LibraryKeysOf
  <2>4. \A f \in refs' : f \in refs \/ (f.kind \in Library /\ f.key \in LibraryKeysOf(tx[r]))
    BY <2>1, <2>3 DEF Ref, Library
  <2>5. UNCHANGED <<objects, receiptOf, sent, staged, excused, lastKey>>
    BY <1>11 DEF SaveForm
  <2> QED BY <1>8, <2>1, <2>2, <2>4, <2>5
<1>12. CASE FailEntry(r)
  <2>1. PICK t : t = Entry(r, FALSE) /\ Goes(r, t)
    BY <1>12 DEF FailEntry
  <2>2. tx[r].op = "form16" /\ t.op = "form16" /\ t.pc = "next"
    BY <1>12, <2>1 DEF FailEntry, Entry, Upload
  <2>3. UNCHANGED <<refs, objects, receiptOf, sent, staged, excused, lastKey>>
    BY <1>12 DEF FailEntry, fileVars
  <2> QED BY <1>8, <2>1, <2>2, <2>3
<1>13. ASSUME tx[r].op \in CentreOps, Ends(r), UNCHANGED <<objects, receiptOf, sent, staged, excused, lastKey>>,
              \A f \in refs : f.kind \notin Library => f \in refs',
              \A f \in refs' : f \in refs \/ (f.kind \in Library /\ f.key \in LibraryKeysOf(tx[r]))
       PROVE  FilesInv'
  <2>1. PICK t : t = Idle /\ Goes(r, t)
    BY <1>13 DEF Ends
  <2>2. tx[r].op \notin FileOps /\ t.op \notin FileOps /\ \A k \in LibraryKeysOf(t) : LibraryKey(k)
    BY <1>13, <2>1 DEF LibraryKeysOf, FileOps, CentreOps, Idle
  <2> QED BY <1>1, <1>13, <2>1, <2>2, LibraryIdles
<1>14. CASE EndOfForms(r) \/ FailCentre(r)
  <2>1. tx[r].op \in CentreOps /\ Ends(r) /\ UNCHANGED <<refs, objects, receiptOf, sent, staged, excused, lastKey>>
    BY <1>14 DEF EndOfForms, FailCentre, At, CentreOps, fileVars
  <2> QED BY <1>13, <2>1
<1>15. CASE uploadPublicDocument(r)
  <2>1. PICK t : t = [op |-> "policy", pc |-> "save", key |-> NewKey] /\ Begin(r, t)
    BY <1>15 DEF uploadPublicDocument
  <2>2. Goes(r, t) /\ tx[r].op \notin FileOps /\ t.op \notin FileOps /\ LibraryKeysOf(t) \subseteq {NewKey}
    BY <1>2, <2>1 DEF Begin, FileOps, LibraryKeysOf
  <2>3. MakeObject /\ UNCHANGED <<refs, receiptOf, sent, staged, excused>>
    BY <1>15 DEF uploadPublicDocument
  <2> QED BY <1>1, <2>2, <2>3, LibraryMakes
<1>16. CASE SavePublic(r)
  <2>1. tx[r].op = "policy" /\ Ends(r) /\ UNCHANGED <<objects, receiptOf, sent, staged, excused, lastKey>>
    BY <1>16 DEF SavePublic, At
  <2>2. PICK key : key = tx[r].key /\ refs' = refs \cup {Ref("policy", None, key)}
    BY <1>16 DEF SavePublic
  <2>3. \A f \in refs' : f \in refs \/ (f.kind \in Library /\ f.key \in LibraryKeysOf(tx[r]))
    BY <2>1, <2>2 DEF Ref, Library, LibraryKeysOf
  <2>4. tx[r].op \in CentreOps
    BY <2>1 DEF CentreOps
  <2> QED BY <1>13, <2>1, <2>2, <2>3, <2>4
<1>17. CASE softDelete(r) \/ updateDocument(r)
  <2>1. /\ tx[r].op = "document" /\ Ends(r) /\ UNCHANGED <<objects, receiptOf, sent, staged, excused, lastKey>>
    BY <1>17 DEF softDelete, updateDocument, At
  <2>2. PICK doc : doc = tx[r].doc /\ doc.kind \in Library /\ (refs' = refs \ {doc} \/ refs' = refs \cup {doc})
    BY <1>1, <1>17, <2>1 DEF softDelete, updateDocument, CentreShape
  <2>3. doc.key \in LibraryKeysOf(tx[r]) /\ tx[r].op \in CentreOps
    BY <2>1, <2>2 DEF LibraryKeysOf, CentreOps
  <2>4. \A f \in refs : f.kind \notin Library => f \in refs'
    BY <2>2
  <2>5. \A f \in refs' : f \in refs \/ (f.kind \in Library /\ f.key \in LibraryKeysOf(tx[r]))
    BY <2>2, <2>3
  <2> QED BY <1>13, <2>1, <2>3, <2>4, <2>5
<1> QED BY <1>5, <1>6, <1>7, <1>9, <1>10, <1>11, <1>12, <1>14, <1>15, <1>16, <1>17 DEF CentreStep

NewForm(kind, line, source, new, old, todo) ==
    [op |-> "file", pc |-> "run", kind |-> kind, line |-> line, source |-> source, new |-> new,
     old |-> old, todo |-> todo, cleaned |-> {}, alone |-> TRUE]

(* A form that starts: it is alone when nobody else has one of its keys.   *)
LEMMA FormStarts ==
    ASSUME FilesInv, Sane, NEW r \in Requests, NEW kind, NEW line, NEW source, NEW new, NEW old, NEW todo,
           StartForm(r, kind, line, source, new, old, todo),
           NEW t, t = NewForm(kind, line, source, new, old, todo),
           FileForm(t, KeyIds), \A k \in KeysOf(t) : FormKey(k), Ready(t)
    PROVE  FilesInv'
<1>0. t = [op |-> "file", pc |-> "run", kind |-> kind, line |-> line, source |-> source, new |-> new,
           old |-> old, todo |-> todo, cleaned |-> {}, alone |-> TRUE]
  BY DEF NewForm
<1>1. PICK b \in BOOLEAN : b <=> \A o \in Requests : ~Meets(o, t)
  OBVIOUS
<1>2. PICK u : u = [t EXCEPT !.alone = b]
  OBVIOUS
<1>3. tx' = [q \in Requests |-> IF q = r THEN u
                                 ELSE IF InForm(q) /\ Meets(q, t) THEN [tx[q] EXCEPT !.alone = FALSE] ELSE tx[q]]
  <2>1. b = \A o \in Requests : ~Meets(o, t)
    BY <1>1
  <2> QED BY <1>0, <1>2, <2>1 DEF StartForm
<1>4. tx'[r] = u /\ \A q \in Requests \ {r} : SameForm(tx[q], tx'[q])
  BY <1>3 DEF SameForm, InForm
<1>5. KeysInv /\ SharedInv /\ AloneInv /\ PresentInv /\ UNCHANGED fileVars /\ tx[r].op = "none"
  BY DEF FilesInv, StartForm, Sane, Handler
<1>6. /\ u.op = "file" /\ u.pc = t.pc /\ u.kind = t.kind /\ u.line = t.line /\ u.source = t.source /\ u.new = t.new
      /\ u.old = t.old /\ u.todo = t.todo /\ u.cleaned = {} /\ t.cleaned = {} /\ u.alone = b
  BY <1>0, <1>2
<1>7. FileForm(u, KeyIds)
  <2>1. CASE b
    <3>1. t.alone = TRUE /\ b = TRUE
      BY <1>0, <2>1
    <3>2. u = t
      BY <1>0, <1>2, <3>1
    <3> QED BY <3>2
  <2>2. CASE ~b
    <3>1. u = [t EXCEPT !.alone = FALSE]
      BY <1>2, <2>2
    <3> QED BY <3>1, FileFormMarked
  <2> QED BY <2>1, <2>2
<1>8. KeysOf(u) = KeysOf(t) /\ FormKeysOf(u) = KeysOf(t) /\ LibraryKeysOf(u) = {} /\ Hand(u) = {} /\ PurgeForm(u)
  BY <1>6 DEF KeysOf, FormKeysOf, LibraryKeysOf, Hand, PurgeForm
<1>9. FormKeysOf(tx[r]) = {} /\ Hand(tx[r]) = {}
  BY <1>5 DEF FormKeysOf, Hand
<1>10. KeysInv'
  <2>1. /\ lastKey' = lastKey /\ staged' = staged /\ sent' \subseteq sent /\ refs' \subseteq refs
        /\ receiptOf' = [l \in Lines |-> receiptOf'[l]] /\ \A l \in Lines : receiptOf'[l] \in {receiptOf[l], None}
    BY <1>5 DEF fileVars, KeysInv
  <2> QED BY <1>4, <1>5, <1>7, <1>8, <2>1, FileKeysStay
<1>11. SharedInv'
  BY <1>5 DEF SharedInv, FormRefs, fileVars
<1>12. AloneInv'
  <2>1. \A k : Still(k)
    BY <1>5 DEF Still, fileVars
  <2>2. ASSUME NEW q \in Requests \ {r}, tx'[q].op = "file", tx'[q].alone
        PROVE  \A k \in FormKeysOf(u) : k \notin KeysOf(tx[q])
    <3>1. PICK v : v = tx[q] /\ (v.op = "file" => FileForm(v, KeyIds))
      BY <1>5 DEF KeysInv
    <3>2. CASE v.op = "file" /\ Meets(q, t)
      <4>1. tx'[q] = [v EXCEPT !.alone = FALSE]
        BY <1>3, <2>2, <3>1, <3>2 DEF InForm
      <4>2. ~tx'[q].alone
        BY <3>1, <3>2, <4>1, FileFormMarked
      <4> QED BY <2>2, <4>2
    <3>3. CASE ~(v.op = "file" /\ Meets(q, t))
      <4>1. tx'[q] = v
        BY <1>3, <3>1, <3>3 DEF InForm
      <4> QED BY <1>8, <2>2, <3>1, <3>3, <4>1 DEF Meets, InForm
    <3> QED BY <3>2, <3>3
  <2>3. ASSUME u.alone
        PROVE  Ready(u)' /\ \A o \in Requests \ {r} : tx[o].op # "purge" /\ FormKeysOf(tx[o]) \cap KeysOf(u) = {}
    <3>1. \A o \in Requests : ~Meets(o, t)
      BY <1>1, <1>6, <2>3
    <3>2. \A o \in Requests \ {r} : tx[o].op # "purge" /\ FormKeysOf(tx[o]) \cap KeysOf(u) = {}
      BY <1>8, <3>1 DEF Meets, Purging, InForm, FormKeysOf
    <3>3. Ready(u)
      BY <1>6 DEF Ready
    <3>4. excused \subseteq excused'
      BY <1>5 DEF fileVars
    <3>5. Ready(u)'
      BY <1>7, <2>1, <3>3, <3>4, ReadyStays
    <3> QED BY <3>2, <3>5
  <2>4. excused \subseteq excused' /\ u.op # "purge"
    BY <1>5, <1>6 DEF fileVars
  <2> QED BY <1>4, <1>5, <2>1, <2>2, <2>3, <2>4, AloneGo
<1>13. PresentInv'
  <2>1. \A k : KeyKept(r, k) /\ HandKept(r, k)
    BY <1>5, <1>9 DEF KeyKept, HandKept, fileVars
  <2>2. /\ excused \subseteq excused' /\ refs' = refs /\ receiptOf' = receiptOf
        /\ \A k : RefsTo("receipt", k)' = RefsTo("receipt", k)
    BY <1>5 DEF fileVars, RefsTo
  <2> QED BY <1>4, <1>5, <1>8, <2>1, <2>2, PresentGo
<1> QED BY <1>10, <1>11, <1>12, <1>13 DEF FilesInv

LEMMA ThreeSteps ==
    ASSUME NEW a, NEW b, NEW c
    PROVE  <<a, b>> \o <<c>> = <<a, b, c>> /\ <<a>> \o <<b, c>> = <<a, b, c>>
<1>1. ASSUME NEW s \in Seq({a, b, c}), Len(s) = 3, s[1] = a, s[2] = b, s[3] = c PROVE s = <<a, b, c>>
  BY <1>1
<1>2. PICK s : s = <<a, b>> \o <<c>>
  OBVIOUS
<1>3. s \in Seq({a, b, c}) /\ Len(s) = 3 /\ s[1] = a /\ s[2] = b /\ s[3] = c
  BY <1>2
<1>4. PICK u : u = <<a>> \o <<b, c>>
  OBVIOUS
<1>5. u \in Seq({a, b, c}) /\ Len(u) = 3 /\ u[1] = a /\ u[2] = b /\ u[3] = c
  BY <1>4
<1> QED BY <1>1, <1>2, <1>3, <1>4, <1>5

LEMMA TodosAre ==
    /\ \A old, new : Replaces(old, new) \in {<<>>, <<"clean up">>} /\ (old \in {None, new} => Replaces(old, new) = <<>>)
    /\ Finalize \in Todos /\ Finalize # <<>> /\ Finalize # <<"clean up">>
    /\ \A todo \in {<<>>, <<"clean up">>} : todo \in Todos /\ Finalize \o todo \in Todos /\ todo \o Finalize \in Todos
    /\ \A todo \in {<<>>, <<"clean up">>} : todo \o <<>> = todo
<1>1. \A old, new : Replaces(old, new) \in {<<>>, <<"clean up">>} /\ (old \in {None, new} => Replaces(old, new) = <<>>)
  BY DEF Replaces
<1>2. Finalize = <<"copy", "delete source">> /\ Finalize \o <<>> = Finalize /\ <<>> \o Finalize = Finalize
  BY DEF Finalize
<1>3. Finalize \o <<"clean up">> = <<"copy", "delete source", "clean up">>
  BY ThreeSteps DEF Finalize
<1>4. <<"clean up">> \o Finalize = <<"clean up", "copy", "delete source">>
  BY ThreeSteps DEF Finalize
<1>5. <<>> \o <<>> = <<>> /\ <<"clean up">> \o <<>> = <<"clean up">>
  OBVIOUS
<1>6. Len(<<"copy", "delete source">>) = 2 /\ Len(<<"clean up">>) = 1 /\ Len(<<>>) = 0
  OBVIOUS
<1>7. Finalize # <<>> /\ Finalize # <<"clean up">>
  BY <1>2, <1>6
<1>8. \A todo \in {<<>>, <<"clean up">>} : todo \in Todos /\ Finalize \o todo \in Todos /\ todo \o Finalize \in Todos
  BY <1>2, <1>3, <1>4, Zenon DEF Todos
<1>9. Finalize \in Todos
  BY <1>2 DEF Todos
<1> QED BY <1>1, <1>5, <1>7, <1>8, <1>9

LEMMA ReceiptStarts ==
    ASSUME FilesInv, Sane, NEW r \in Requests, NEW line \in Lines,
           \/ deleteLine(r, line)
           \/ \E key \in sent : attachReceipt(r, line, key)
           \/ \E key \in 1 .. lastKey : reuseReceipt(r, line, key)
    PROVE  FilesInv'
<1>1. KeysInv /\ SharedInv /\ None \notin Lines /\ None \notin KeyIds
  BY FilesAssumption, KeysAre DEF FilesInv
<1>2. PICK old : old = receiptOf[line] /\ old \in KeyIds \cup {None} /\ (old # None => FormKey(old))
  BY <1>1 DEF KeysInv, FormKey
<1>3. ASSUME NEW source \in KeyIds \cup {None}, source # None => FormKey(source),
             NEW new \in KeyIds \cup {None}, new # None => FormKey(new) /\ source = None /\ RefsTo("receipt", new) # {},
             NEW todo \in Todos, todo \notin {<<>>, <<"clean up">>} => source # None,
             source = None /\ todo # <<>> => old # new,
             StartForm(r, "receipt", line, source, new, old, todo)
      PROVE  FilesInv'
  <2>0. PICK t : t = NewForm("receipt", line, source, new, old, todo)
    OBVIOUS
  <2>1. t = [op |-> "file", pc |-> "run", kind |-> "receipt", line |-> line, source |-> source, new |-> new,
             old |-> old, todo |-> todo, cleaned |-> {}, alone |-> TRUE]
    BY <2>0 DEF NewForm
  <2>2. FileForm(t, KeyIds)
    <3>1. t \in [op : {"file"}, pc : {"run"}, kind : FormKinds, line : Lines \cup {None},
                 source : KeyIds \cup {None}, new : KeyIds \cup {None}, old : KeyIds \cup {None},
                 todo : Todos, cleaned : {{}, {t.old} \ {None}}, alone : BOOLEAN]
      BY <1>2, <1>3, <2>1 DEF FormKinds
    <3>2. t.kind = "receipt" <=> t.line # None
      BY <1>1, <2>1
    <3>3. t.todo \notin {<<>>, <<"clean up">>} => t.source # None /\ t.new # t.source
      BY <1>1, <1>3, <2>1
    <3>4. t.kind = "receipt" /\ t.source = None /\ (t.todo # <<>> \/ t.cleaned # {}) => t.old # t.new
      BY <1>3, <2>1
    <3> QED BY <3>1, <3>2, <3>3, <3>4 DEF FileForm
  <2>3. \A k \in KeysOf(t) : FormKey(k)
    BY <1>2, <1>3, <2>1 DEF KeysOf
  <2>4. Ready(t)
    <3>1. \A l \in Lines : receiptOf[l] = old /\ old # None => l = line \/ old \in excused
      BY <1>1, <1>2 DEF SharedInv
    <3> QED BY <1>3, <2>1, <3>1 DEF Ready
  <2> QED BY <1>3, <2>0, <2>2, <2>3, <2>4, FormStarts
<1>4. CASE deleteLine(r, line)
  <2>1. old # None /\ StartForm(r, "receipt", line, None, None, old, <<"clean up">>)
    BY <1>2, <1>4 DEF deleteLine
  <2>2. <<"clean up">> \in Todos
    BY DEF Todos
  <2> QED BY <1>3, <2>1, <2>2
<1>5. ASSUME NEW key \in sent, attachReceipt(r, line, key) PROVE FilesInv'
  <2>1. PICK todo : /\ todo = Finalize \o Replaces(old, None)
                    /\ StartForm(r, "receipt", line, key, None, old, todo)
    BY <1>2, <1>5 DEF attachReceipt
  <2>2. todo \in Todos /\ key \in KeyIds /\ key # None /\ FormKey(key)
    BY <1>1, <2>1, TodosAre DEF KeysInv, FormKey
  <2> QED BY <1>3, <2>1, <2>2
<1>6. ASSUME NEW key \in 1 .. lastKey, reuseReceipt(r, line, key) PROVE FilesInv'
  <2>1. PICK todo : /\ todo = Replaces(old, key) /\ RefsTo("receipt", key) # {}
                    /\ StartForm(r, "receipt", line, None, key, old, todo)
    BY <1>2, <1>6 DEF reuseReceipt
  <2>2. todo \in Todos /\ todo \in {<<>>, <<"clean up">>}
    BY <2>1, TodosAre
  <2>4. todo # <<>> => old # key
    BY <2>1 DEF Replaces
  <2>3. FormKey(key) /\ key \in KeyIds
    BY <2>1 DEF RefsTo, FormKey, FormRefs, Library, KeyIds
  <2> QED BY <1>3, <2>1, <2>2, <2>3, <2>4
<1> QED BY <1>4, <1>5, <1>6

LEMMA OtherFormsStart ==
    ASSUME FilesInv, Sane, NEW r \in Requests,
           \/ \E key \in sent : createLeave(r, key) \/ finalizeProfilePhoto(r, key) \/ updateOrgProfile(r, key)
           \/ \E key \in sent \cup {None}, old \in 1 .. lastKey \cup {None} : updateDocuments(r, key, old)
    PROVE  FilesInv'
<1>1. KeysInv /\ SharedInv /\ None \notin Lines /\ None \notin KeyIds /\ sent \subseteq KeyIds /\ staged \subseteq KeyIds
  BY FilesAssumption, KeysAre DEF FilesInv, KeysInv
<1>2. ASSUME NEW kind \in FormKinds \ {"receipt"}, NEW source \in KeyIds \cup {None}, source # None => FormKey(source),
             NEW new \in KeyIds \cup {None}, new # None => FormKey(new) /\ new \in objects,
             NEW old \in KeyIds \cup {None}, old # None => FormKey(old),
             NEW todo \in Todos, todo \notin {<<>>, <<"clean up">>} => source # None /\ new # source,
             StartForm(r, kind, None, source, new, old, todo)
      PROVE  FilesInv'
  <2>0. PICK t : t = NewForm(kind, None, source, new, old, todo)
    OBVIOUS
  <2>1. t = [op |-> "file", pc |-> "run", kind |-> kind, line |-> None, source |-> source, new |-> new,
             old |-> old, todo |-> todo, cleaned |-> {}, alone |-> TRUE]
    BY <2>0 DEF NewForm
  <2>2. FileForm(t, KeyIds)
    <3>1. t \in [op : {"file"}, pc : {"run"}, kind : FormKinds, line : Lines \cup {None},
                 source : KeyIds \cup {None}, new : KeyIds \cup {None}, old : KeyIds \cup {None},
                 todo : Todos, cleaned : {{}, {t.old} \ {None}}, alone : BOOLEAN]
      BY <1>2, <2>1
    <3>2. t.kind # "receipt" /\ t.line = None
      BY <2>1
    <3>3. t.todo \notin {<<>>, <<"clean up">>} => t.source # None /\ t.new # t.source
      BY <1>2, <2>1
    <3> QED BY <3>1, <3>2, <3>3 DEF FileForm
  <2>3. \A k \in KeysOf(t) : FormKey(k)
    BY <1>2, <2>1 DEF KeysOf
  <2>4. Ready(t)
    BY <1>2, <2>1 DEF Ready
  <2> QED BY <1>2, <2>0, <2>2, <2>3, <2>4, FormStarts
<1>3. \A key \in sent : FormKey(key) /\ key \in KeyIds /\ key # None
  BY <1>1 DEF FormKey
<1>4. ASSUME NEW kind \in FormKinds, NEW key, RefsTo(kind, key) # {} PROVE FormKey(key) /\ key \in KeyIds
  BY <1>1, <1>4 DEF RefsTo, FormKey, FormRefs, FormKinds, Library, KeysInv
<1>5. ASSUME NEW kind \in FormKinds
      PROVE  OldOf(kind) \in KeyIds \cup {None} /\ (OldOf(kind) # None => FormKey(OldOf(kind)))
  <2>1. \E k \in Single(kind) : Single(kind) # {None} => k # None
    BY DEF Single
  <2>2. OldOf(kind) \in Single(kind)
    BY <2>1 DEF OldOf
  <2>3. \A k \in Single(kind) : k = None \/ RefsTo(kind, k) # {}
    BY DEF Single, RefsTo
  <2> QED BY <1>4, <2>2, <2>3
<1>6. ASSUME NEW key \in sent, createLeave(r, key) PROVE FilesInv'
  <2>1. StartForm(r, "attachment", None, key, None, None, Finalize)
    BY <1>6 DEF createLeave
  <2>2. "attachment" \in FormKinds \ {"receipt"} /\ Finalize \in Todos
    BY TodosAre DEF FormKinds
  <2> QED BY <1>2, <1>3, <2>1, <2>2
<1>7. ASSUME NEW key \in sent, finalizeProfilePhoto(r, key) PROVE FilesInv'
  <2>1. "photo" \in FormKinds \ {"receipt"} /\ Finalize \in Todos
    BY TodosAre DEF FormKinds
  <2>2. PICK old : /\ old \in KeyIds \cup {None} /\ (old # None => FormKey(old))
                   /\ StartForm(r, "photo", None, key, None, old, Finalize)
    BY <1>5, <1>7, <2>1 DEF finalizeProfilePhoto
  <2> QED BY <1>2, <1>3, <2>1, <2>2
<1>8. ASSUME NEW key \in sent, updateOrgProfile(r, key) PROVE FilesInv'
  <2>1. "logo" \in FormKinds \ {"receipt"}
    BY DEF FormKinds
  <2>2. PICK old : /\ old \in KeyIds \cup {None} /\ (old # None => FormKey(old)) /\ key \in objects
                   /\ StartForm(r, "logo", None, key, key, old, Replaces(old, None))
    BY <1>5, <1>8, <2>1 DEF updateOrgProfile
  <2>3. Replaces(old, None) \in Todos /\ Replaces(old, None) \in {<<>>, <<"clean up">>}
    BY TodosAre
  <2> QED BY <1>2, <1>3, <2>1, <2>2, <2>3
<1>9. ASSUME NEW key \in sent \cup {None}, NEW old \in 1 .. lastKey \cup {None}, updateDocuments(r, key, old)
      PROVE  FilesInv'
  <2>1. "document" \in FormKinds \ {"receipt"}
    BY DEF FormKinds
  <2>2. (old # None => FormKey(old)) /\ old \in KeyIds \cup {None}
    BY <1>4, <1>9, <2>1 DEF updateDocuments, KeyIds
  <2>3. PICK new, todo : /\ new = IF key \in staged THEN None ELSE key
                         /\ todo = Replaces(old, None) \o (IF key \in staged THEN Finalize ELSE <<>>)
                         /\ StartForm(r, "document", None, key, new, old, todo)
    BY <1>9 DEF updateDocuments
  <2>4. key \in KeyIds \cup {None} /\ (key # None => FormKey(key))
    BY <1>3
  <2>5. new \in KeyIds \cup {None} /\ (new # None => FormKey(new) /\ new \in objects)
    BY <1>9, <2>3, <2>4 DEF updateDocuments
  <2>6. todo \in Todos /\ (todo \notin {<<>>, <<"clean up">>} => key # None /\ new # key)
    <3>1. PICK replace \in {<<>>, <<"clean up">>} : replace = Replaces(old, None)
      BY TodosAre
    <3>2. CASE key \in staged
      <4>1. key # None /\ new # key
        BY <1>1, <2>3, <3>2
      <4> QED BY <2>3, <3>1, <3>2, <4>1, TodosAre
    <3>3. CASE key \notin staged
      BY <2>3, <3>1, <3>3, TodosAre
    <3> QED BY <3>2, <3>3
  <2> QED BY <1>2, <2>1, <2>2, <2>3, <2>4, <2>5, <2>6
<1> QED BY <1>6, <1>7, <1>8, <1>9

LEMMA TodosGo ==
    ASSUME NEW todo \in Todos, todo # <<>>
    PROVE  /\ Tail(todo) \in Todos /\ (Head(todo) = "clean up" \/ todo \notin {<<>>, <<"clean up">>})
           /\ Tail(todo) \notin {<<>>, <<"clean up">>} => todo \notin {<<>>, <<"clean up">>}
<1>1. \A x, y : Head(<<x, y>>) = x /\ Tail(<<x, y>>) = <<y>> /\ Len(<<x, y>>) = 2
  OBVIOUS
<1>2. \A x, y, z : Head(<<x, y, z>>) = x /\ Tail(<<x, y, z>>) = <<y, z>> /\ Len(<<x, y, z>>) = 3
  OBVIOUS
<1>3. \A x : Head(<<x>>) = x /\ Tail(<<x>>) = <<>> /\ Len(<<x>>) = 1 /\ Len(<<>>) = 0
  OBVIOUS
<1>4. CASE todo \in {<<"clean up">>, <<"delete source">>}
  BY <1>3, <1>4 DEF Todos
<1>5. CASE todo \in {<<"copy", "delete source">>, <<"delete source", "clean up">>}
  <2>1. Len(todo) = 2
    BY <1>1, <1>5
  <2>2. Tail(todo) \in {<<"clean up">>, <<"delete source">>}
    BY <1>1, <1>5
  <2> QED BY <1>3, <2>1, <2>2 DEF Todos
<1>6. CASE todo \in {<<"copy", "delete source", "clean up">>, <<"clean up", "copy", "delete source">>}
  <2>1. Len(todo) = 3
    BY <1>2, <1>6
  <2>2. CASE todo = <<"copy", "delete source", "clean up">>
    <3>1. Tail(todo) = <<"delete source", "clean up">>
      BY <1>2, <2>2
    <3> QED BY <1>3, <2>1, <3>1 DEF Todos
  <2>3. CASE todo = <<"clean up", "copy", "delete source">>
    <3>1. Tail(todo) = <<"copy", "delete source">>
      BY <1>2, <2>3
    <3> QED BY <1>3, <2>1, <3>1 DEF Todos
  <2> QED BY <1>6, <2>2, <2>3
<1> QED BY <1>4, <1>5, <1>6 DEF Todos

(* A form goes on, or fails: the rows stay as they are.                    *)
LEMMA FormGoesOn ==
    ASSUME FilesInv, Sane, NEW r \in Requests, NEW t, Goes(r, t), tx[r].op = "file", t.op \in {"file", "none"},
           UNCHANGED <<refs, receiptOf>>, excused \subseteq excused', KeysInv',
           t.op = "file" /\ t.alone => tx[r].alone /\ Ready(t)',
           \A k \in FormKeysOf(t) : k \in FormKeysOf(tx[r]) \/ ~FormKey(k),
           \A k : HandKept(r, k) /\ (LibraryKey(k) => KeyKept(r, k)),
           \A f \in refs : KeyKept(r, f.key),
           \A k \in objects : FormKey(k) /\ k \notin FormKeysOf(tx[r]) => k \in objects'
    PROVE  FilesInv'
<1>1. tx'[r] = t /\ \A q \in Requests \ {r} : SameForm(tx[q], tx'[q])
  BY DEF Goes, Sane, SameForm
<1>2. KeysInv /\ SharedInv /\ AloneInv /\ PresentInv
  BY DEF FilesInv
<1>3. SharedInv'
  <2>1. \A f \in refs' : f.kind \notin Library => f.key # None
    BY <1>2, KeysAre DEF KeysInv
  <2> QED BY <1>2, <2>1, SharedShrinks
<1>4. AloneInv'
  <2>1. ASSUME NEW k, FormKey(k) /\ k \notin FormKeysOf(tx[r]) PROVE Still(k)
    BY <2>1 DEF Still
  <2>2. ASSUME NEW q \in Requests \ {r}, tx'[q].op = "file"
        PROVE  \A k \in FormKeysOf(t) : k \in FormKeysOf(tx[r]) \/ k \notin KeysOf(tx[q])
    <3>1. tx'[q].op = tx[q].op
      BY <1>1, <1>2, SameFormIs
    <3> QED BY <2>2, <3>1 DEF FormKey, FormKeysOf
  <2>3. ASSUME t.op = "file", t.alone
        PROVE  \A o \in Requests \ {r} : tx[o].op # "purge" /\ FormKeysOf(tx[o]) \cap KeysOf(t) = {}
    <3>1. \A o \in Requests \ {r} : tx[o].op # "purge" /\ FormKeysOf(tx[o]) \cap FormKeysOf(tx[r]) = {}
      BY <1>2, <2>3 DEF AloneInv, FormKeysOf
    <3>2. KeysOf(t) = FormKeysOf(t)
      BY <2>3 DEF FormKeysOf
    <3> QED BY <3>1, <3>2 DEF FormKey
  <2>4. t.op # "purge"
    OBVIOUS
  <2> QED BY <1>1, <1>2, <2>1, <2>2, <2>3, <2>4, AloneGo
<1>5. PresentInv'
  <2>1. \A k \in LibraryKeysOf(t) : LibraryKey(k)
    BY DEF LibraryKeysOf
  <2>2. \A k : RefsTo("receipt", k)' = RefsTo("receipt", k)
    BY DEF RefsTo
  <2>3. \A f \in refs' : f \in refs /\ KeyKept(r, f.key)
    OBVIOUS
  <2> QED BY <1>1, <1>2, <2>1, <2>2, <2>3, PresentGo
<1> QED BY <1>3, <1>4, <1>5 DEF FilesInv

LEMMA FormRuns ==
    ASSUME FilesInv, NEW r \in Requests, tx[r].op = "file"
    PROVE  \E s : /\ s = tx[r] /\ FileForm(s, KeyIds) /\ FormKeysOf(s) = KeysOf(s) /\ Hand(s) = s.cleaned
                  /\ (s.alone => Ready(s)) /\ s.cleaned \subseteq {s.old} \ {None}
                  /\ \A k \in KeysOf(s) : FormKey(k) /\ ~LibraryKey(k) /\ k \in KeyIds
<1>1. PICK s : s = tx[r] /\ s.op = "file" /\ FileForm(s, KeyIds) /\ KeysInv /\ AloneInv
  BY DEF FilesInv, KeysInv
<1>2. s.cleaned \subseteq {s.old} \ {None}
  BY <1>1 DEF FileForm
<1>3. FormKeysOf(s) = KeysOf(s) /\ Hand(s) = s.cleaned
  BY <1>1 DEF FormKeysOf, Hand
<1>4. \A k \in KeysOf(s) : FormKey(k)
  BY <1>1, <1>3 DEF FormKey
<1>5. \A k \in KeysOf(s) : ~LibraryKey(k) /\ k \in KeyIds
  BY <1>1, <1>4, KeysAre
<1>6. s.alone => Ready(s)
  BY <1>1 DEF AloneInv
<1> QED BY <1>1, <1>2, <1>3, <1>4, <1>5, <1>6

(* What the next of the steps of a form leaves of it.                      *)
Stepped(s, t) == t = [s EXCEPT !.todo = Tail(@)]

LEMMA FormDoes ==
    ASSUME NEW s, NEW keys, FileForm(s, keys), s.todo # <<>>,
           NEW t, Stepped(s, t)
    PROVE  /\ FileForm(t, keys) /\ t.op = "file" /\ FormKeysOf(t) = KeysOf(s) /\ Hand(t) = s.cleaned
           /\ t.kind = s.kind /\ t.line = s.line /\ t.source = s.source /\ t.new = s.new /\ t.old = s.old
           /\ t.cleaned = s.cleaned /\ t.alone = s.alone /\ s.todo \in Todos /\ PurgeForm(t) /\ LibraryKeysOf(t) = {}
<1>1. s.todo \in Todos
  BY DEF FileForm
<1>2. Tail(s.todo) \in Todos /\ (Tail(s.todo) \notin {<<>>, <<"clean up">>} => s.todo \notin {<<>>, <<"clean up">>})
  BY <1>1, TodosGo
<1>3. PICK left : left = Tail(s.todo)
  OBVIOUS
<1>4. t = [s EXCEPT !.todo = left]
  BY <1>3 DEF Stepped
<1>5. s.op = "file" /\ DOMAIN s = {"op", "pc", "kind", "line", "source", "new", "old", "todo", "cleaned", "alone"}
  BY DEF FileForm
<1>6. /\ t.op = s.op /\ t.pc = s.pc /\ t.kind = s.kind /\ t.line = s.line /\ t.source = s.source /\ t.new = s.new
      /\ t.old = s.old /\ t.todo = left /\ t.cleaned = s.cleaned /\ t.alone = s.alone
  BY <1>4, <1>5
<1>7. FileForm(t, keys)
  <2>1. t \in [op : {"file"}, pc : {"run"}, kind : FormKinds, line : Lines \cup {None},
               source : keys \cup {None}, new : keys \cup {None}, old : keys \cup {None},
               todo : Todos, cleaned : {{}, {s.old} \ {None}}, alone : BOOLEAN]
    BY <1>2, <1>3, <1>4 DEF FileForm
  <2>2. /\ s.kind = "receipt" <=> s.line # None
        /\ s.todo \notin {<<>>, <<"clean up">>} => s.source # None /\ s.new # s.source
        /\ s.kind = "receipt" /\ s.source = None /\ (s.todo # <<>> \/ s.cleaned # {}) => s.old # s.new
    BY DEF FileForm
  <2>3. /\ t.kind = "receipt" <=> t.line # None
        /\ t.todo \notin {<<>>, <<"clean up">>} => t.source # None /\ t.new # t.source
        /\ t.kind = "receipt" /\ t.source = None /\ (t.todo # <<>> \/ t.cleaned # {}) => t.old # t.new
    BY <1>2, <1>3, <1>6, <2>2
  <2> QED BY <1>6, <2>1, <2>3, Zenon DEF FileForm
<1>8. KeysOf(t) = KeysOf(s)
  BY <1>6 DEF KeysOf
<1> QED BY <1>1, <1>5, <1>6, <1>7, <1>8 DEF FormKeysOf, Hand, PurgeForm, LibraryKeysOf

LEMMA FormFails ==
    ASSUME FilesInv, Sane, NEW r \in Requests, FailForm(r)
    PROVE  FilesInv'
<1>1. tx[r].op = "file" /\ KeysInv
  BY DEF FailForm, InForm, FilesInv
<1>2. PICK s : /\ s = tx[r] /\ FormKeysOf(s) = KeysOf(s) /\ Hand(s) = s.cleaned
               /\ s.cleaned \subseteq {s.old} \ {None}
  BY <1>1, FormRuns
<1>3. PICK t : t = Idle /\ Goes(r, t)
  BY DEF FailForm, Ends
<1>4. t.op = "none" /\ LibraryKeysOf(t) = {} /\ FormKeysOf(t) = {} /\ Hand(t) = {} /\ PurgeForm(t)
  BY <1>3 DEF Idle, LibraryKeysOf, FormKeysOf, Hand, PurgeForm
<1>5. UNCHANGED <<objects, refs, receiptOf, sent, staged, lastKey>> /\ excused' = excused \cup s.cleaned
  BY <1>2 DEF FailForm
<1>6. tx'[r] = t /\ \A q \in Requests \ {r} : SameForm(tx[q], tx'[q])
  BY <1>3 DEF Goes, Sane, SameForm
<1>7. KeysInv'
  <2>1. receiptOf' = [l \in Lines |-> receiptOf'[l]] /\ \A l \in Lines : receiptOf'[l] \in {receiptOf[l], None}
    BY <1>1, <1>5 DEF KeysInv
  <2> QED BY <1>1, <1>4, <1>5, <1>6, <2>1, FileKeysStay
<1>8. \A k : HandKept(r, k) /\ KeyKept(r, k)
  BY <1>2, <1>5 DEF HandKept, KeyKept
<1> QED BY <1>1, <1>3, <1>4, <1>5, <1>7, <1>8, FormGoesOn

LEMMA SourceDeleted ==
    ASSUME FilesInv, Sane, NEW r \in Requests, deleteObject(r)
    PROVE  FilesInv'
<1>1. tx[r].op = "file" /\ KeysInv /\ tx[r].todo # <<>> /\ Head(tx[r].todo) = "delete source"
  BY DEF deleteObject, Doing, At, FilesInv
<1>2. PICK s : /\ s = tx[r] /\ FileForm(s, KeyIds) /\ FormKeysOf(s) = KeysOf(s) /\ Hand(s) = s.cleaned
               /\ (s.alone => Ready(s)) /\ \A k \in KeysOf(s) : FormKey(k) /\ ~LibraryKey(k) /\ k \in KeyIds
  BY <1>1, FormRuns
<1>3. PICK t : Stepped(s, t) /\ Goes(r, t)
  BY <1>2 DEF deleteObject, Does, Stepped
<1>4. /\ FileForm(t, KeyIds) /\ t.op = "file" /\ FormKeysOf(t) = KeysOf(s) /\ Hand(t) = s.cleaned
      /\ t.kind = s.kind /\ t.line = s.line /\ t.source = s.source /\ t.new = s.new /\ t.old = s.old
      /\ t.cleaned = s.cleaned /\ t.alone = s.alone /\ s.todo \in Todos /\ PurgeForm(t) /\ LibraryKeysOf(t) = {}
  <2>1. FileForm(s, KeyIds) /\ s.todo # <<>> /\ Stepped(s, t)
    BY <1>1, <1>2, <1>3
  <2> QED BY <2>1, FormDoes
<1>5. s.source # None /\ s.new # s.source /\ s.source \in KeysOf(s)
  <2>1. s.todo \notin {<<>>, <<"clean up">>}
    BY <1>1, <1>2, <1>4, TodosGo
  <2> QED BY <1>2, <2>1 DEF FileForm, KeysOf
<1>6. /\ UNCHANGED <<refs, receiptOf, sent, staged, lastKey>> /\ objects \ {s.source} \subseteq objects'
      /\ excused \subseteq excused' /\ \A f \in refs : f.key = s.source => f.key \in excused'
  BY <1>2 DEF deleteObject
<1>7. tx'[r] = t /\ \A q \in Requests \ {r} : SameForm(tx[q], tx'[q])
  BY <1>3 DEF Goes, Sane, SameForm
<1>8. KeysInv'
  <2>1. receiptOf' = [l \in Lines |-> receiptOf'[l]] /\ \A l \in Lines : receiptOf'[l] \in {receiptOf[l], None}
    BY <1>1, <1>6 DEF KeysInv
  <2>2. \A k \in FormKeysOf(t) : FormKey(k)
    BY <1>2, <1>4
  <2> QED BY <1>1, <1>4, <1>6, <1>7, <2>1, <2>2, FileKeysStay
<1>9. \A k : HandKept(r, k) /\ (k # s.source => KeyKept(r, k))
  BY <1>2, <1>4, <1>6, <1>7 DEF HandKept, KeyKept
<1>10. \A f \in refs : KeyKept(r, f.key)
  BY <1>6, <1>9 DEF KeyKept
<1>11. ASSUME t.alone PROVE tx[r].alone /\ Ready(t)'
  <2>1. tx[r].alone /\ Ready(s)
    BY <1>2, <1>4, <1>11
  <2>2. \A kind, k : RefsTo(kind, k)' = RefsTo(kind, k)
    BY <1>6 DEF RefsTo
  <2>3. t.new # None => IF t.kind = "receipt" /\ t.source = None THEN RefsTo("receipt", t.new)' # {}
                        ELSE t.new \in objects' \cup t.cleaned
    BY <1>4, <1>5, <1>6, <2>1 DEF Ready
  <2>4. t.cleaned # {} => RefsTo(t.kind, t.old)' # {}
    BY <1>4, <2>1, <2>2 DEF Ready
  <2> QED BY <1>4, <1>6, <2>1, <2>3, <2>4 DEF Ready
<1>12. \A k : LibraryKey(k) => KeyKept(r, k)
  BY <1>2, <1>5, <1>9
<1> QED BY <1>1, <1>2, <1>3, <1>4, <1>5, <1>6, <1>8, <1>9, <1>10, <1>11, <1>12, FormGoesOn

LEMMA SourceCopied ==
    ASSUME FilesInv, Sane, NEW r \in Requests, copyObject(r)
    PROVE  FilesInv'
<1>1. tx[r].op = "file" /\ KeysInv /\ tx[r].todo # <<>> /\ Head(tx[r].todo) = "copy"
  BY DEF copyObject, Doing, At, FilesInv
<1>2. PICK s : /\ s = tx[r] /\ FileForm(s, KeyIds) /\ FormKeysOf(s) = KeysOf(s) /\ Hand(s) = s.cleaned
               /\ (s.alone => Ready(s)) /\ \A k \in KeysOf(s) : FormKey(k) /\ ~LibraryKey(k) /\ k \in KeyIds
  BY <1>1, FormRuns
<1>3. PICK new : new = NewKey
  OBVIOUS
<1>4. /\ lastKey' \in lastKey .. MaxKeys /\ objects' = objects \cup {new} /\ new \in KeyIds' \ KeyIds /\ new # None
      /\ KeyIds \subseteq KeyIds' /\ UNCHANGED <<refs, receiptOf, sent, staged, excused>>
  BY <1>1, <1>3, FilesAssumption DEF copyObject, MakeObject, NewKey, KeysInv, KeyIds
<1>5. PICK u : u = [s EXCEPT !.new = new]
  OBVIOUS
<1>6. PICK t : Stepped(u, t) /\ Goes(r, t)
  BY <1>2, <1>3, <1>5 DEF copyObject, Does, Stepped
<1>7. s.todo \in Todos /\ s.todo \notin {<<>>, <<"clean up">>}
  BY <1>1, <1>2, TodosGo DEF FileForm
<1>8. s.source # None /\ s.source \in KeyIds
  BY <1>2, <1>7 DEF FileForm
<1>9. /\ u.op = "file" /\ u.pc = s.pc /\ u.kind = s.kind /\ u.line = s.line /\ u.source = s.source /\ u.new = new
      /\ u.old = s.old /\ u.todo = s.todo /\ u.cleaned = s.cleaned /\ u.alone = s.alone
  BY <1>2, <1>5 DEF FileForm
<1>10. FileForm(u, KeyIds')
  <2>1. FileForm(s, KeyIds')
    BY <1>2, <1>4, FileFormStays
  <2>2. PICK keys : keys = KeyIds'
    OBVIOUS
  <2>3. u \in [op : {"file"}, pc : {"run"}, kind : FormKinds, line : Lines \cup {None},
               source : keys \cup {None}, new : keys \cup {None}, old : keys \cup {None},
               todo : Todos, cleaned : {{}, {s.old} \ {None}}, alone : BOOLEAN]
    BY <1>4, <1>5, <2>1, <2>2 DEF FileForm
  <2>4. s.kind = "receipt" <=> s.line # None
    BY <1>2 DEF FileForm
  <2>5. /\ u.kind = "receipt" <=> u.line # None
        /\ u.todo \notin {<<>>, <<"clean up">>} => u.source # None /\ u.new # u.source
        /\ u.kind = "receipt" /\ u.source = None /\ (u.todo # <<>> \/ u.cleaned # {}) => u.old # u.new
    BY <1>4, <1>8, <1>9, <2>4
  <2>6. FileForm(u, keys)
    BY <1>9, <2>3, <2>5, Zenon DEF FileForm
  <2> QED BY <2>2, <2>6
<1>11. /\ FileForm(t, KeyIds') /\ t.op = "file" /\ FormKeysOf(t) = KeysOf(u) /\ Hand(t) = u.cleaned
       /\ t.kind = u.kind /\ t.line = u.line /\ t.source = u.source /\ t.new = u.new /\ t.old = u.old
       /\ t.cleaned = u.cleaned /\ t.alone = u.alone /\ PurgeForm(t) /\ LibraryKeysOf(t) = {}
  <2>1. FileForm(u, KeyIds') /\ u.todo # <<>> /\ Stepped(u, t)
    BY <1>1, <1>2, <1>6, <1>9, <1>10
  <2> QED BY <2>1, FormDoes
<1>12. KeysOf(u) \subseteq KeysOf(s) \cup {new} /\ ~FormKey(new)
  BY <1>1, <1>4, <1>9, KeysAre DEF KeysOf
<1>13. tx'[r] = t /\ \A q \in Requests \ {r} : SameForm(tx[q], tx'[q])
  BY <1>6 DEF Goes, Sane, SameForm
<1>14. KeysInv'
  <2>1. PICK lib, form : lib = {} /\ form = {new}
    OBVIOUS
  <2>2. lib \in SUBSET (KeyIds' \ KeyIds) /\ form \in SUBSET (KeyIds' \ KeyIds) /\ lib \cap form = {}
    BY <1>4, <2>1
  <2>3. \A f \in refs' : IF f.kind \in Library THEN LibraryKey(f.key) \/ f.key \in lib
                         ELSE FormKey(f.key) \/ f.key \in form
    BY <1>4 DEF LibraryKey, FormKey, FormRefs
  <2>4. \A k \in sent' \cup FormKeysOf(t) : FormKey(k) \/ k \in form
    <3>1. \A k \in sent' : FormKey(k)
      BY <1>4 DEF FormKey
    <3>2. \A k \in FormKeysOf(t) : FormKey(k) \/ k \in form
      BY <1>2, <1>11, <1>12, <2>1
    <3> QED BY <3>1, <3>2
  <2>5. \A l \in Lines : receiptOf'[l] # None => FormKey(receiptOf'[l]) \/ receiptOf'[l] \in form
    BY <1>4 DEF FormKey
  <2>6. staged' \subseteq KeyIds' /\ receiptOf' = [l \in Lines |-> receiptOf'[l]]
    BY <1>1, <1>4 DEF KeysInv
  <2>7. \A k \in LibraryKeysOf(t) : LibraryKey(k) \/ k \in lib
    BY <1>11
  <2>8. t.op = "file" => FileForm(t, KeyIds')
    BY <1>11
  <2>9. PurgeForm(t) /\ lastKey' \in lastKey .. MaxKeys
    BY <1>4, <1>11
  <2> QED BY <1>1, <1>13, <2>2, <2>3, <2>4, <2>5, <2>6, <2>7, <2>8, <2>9, KeysGo, Zenon
<1>15. \A k : HandKept(r, k) /\ KeyKept(r, k)
  BY <1>2, <1>4, <1>9, <1>11, <1>13 DEF HandKept, KeyKept
<1>16. ASSUME t.alone PROVE tx[r].alone /\ Ready(t)'
  <2>1. tx[r].alone /\ Ready(s)
    BY <1>2, <1>9, <1>11, <1>16
  <2>2. \A kind, k : RefsTo(kind, k)' = RefsTo(kind, k)
    BY <1>4 DEF RefsTo
  <2>3. t.new \in objects' /\ t.source # None
    BY <1>4, <1>8, <1>9, <1>11
  <2>4. t.cleaned # {} => RefsTo(t.kind, t.old)' # {}
    BY <1>9, <1>11, <2>1, <2>2 DEF Ready
  <2>5. t.kind = "receipt" => \A l \in Lines : receiptOf'[l] = t.old /\ t.old # None => l = t.line \/ t.old \in excused'
    BY <1>4, <1>9, <1>11, <2>1 DEF Ready
  <2>6. (\A f \in refs' : f.key # t.new) /\ \A l \in Lines : receiptOf'[l] # t.new
    <3>1. t.new = new /\ refs' = refs /\ receiptOf' = receiptOf /\ new \notin KeyIds \cup {None}
      BY <1>4, <1>9, <1>11
    <3> QED BY <1>1, <3>1 DEF KeysInv
  <2> QED BY <2>1, <2>3, <2>4, <2>5, <2>6 DEF Ready
<1>17. \A k \in FormKeysOf(t) : k \in FormKeysOf(tx[r]) \/ ~FormKey(k)
  BY <1>2, <1>11, <1>12
<1> QED BY <1>1, <1>2, <1>4, <1>6, <1>11, <1>14, <1>15, <1>16, <1>17, FormGoesOn

LEMMA ReceiptCleaned ==
    ASSUME FilesInv, Sane, NEW r \in Requests, cleanupExpenseReceipt(r)
    PROVE  FilesInv'
<1>1. tx[r].op = "file" /\ KeysInv /\ tx[r].todo # <<>>
  BY DEF cleanupExpenseReceipt, Doing, At, FilesInv
<1>2. PICK s : /\ s = tx[r] /\ FileForm(s, KeyIds) /\ FormKeysOf(s) = KeysOf(s) /\ Hand(s) = s.cleaned
               /\ (s.alone => Ready(s)) /\ s.cleaned \subseteq {s.old} \ {None}
               /\ \A k \in KeysOf(s) : FormKey(k) /\ ~LibraryKey(k) /\ k \in KeyIds
  BY <1>1, FormRuns
<1>3. UNCHANGED <<refs, receiptOf, sent, staged, lastKey, excused>>
  BY DEF cleanupExpenseReceipt
<1>4. /\ s.op = "file" /\ (s.kind = "receipt" <=> s.line # None)
      /\ s.todo \notin {<<>>, <<"clean up">>} => s.source # None /\ s.new # s.source
      /\ s.kind = "receipt" /\ s.source = None => s.old # s.new
  BY <1>1, <1>2 DEF FileForm
<1>5. PICK u, t : /\ FileForm(u, KeyIds) /\ u.todo = s.todo /\ Stepped(u, t) /\ Goes(r, t) /\ KeysOf(u) = KeysOf(s)
                  /\ u.kind = s.kind /\ u.line = s.line /\ u.source = s.source /\ u.new = s.new /\ u.old = s.old
                  /\ u.alone = s.alone /\ objects \ u.cleaned \subseteq objects' /\ s.cleaned \subseteq u.cleaned
                  /\ (u.cleaned # s.cleaned => RefsTo(u.kind, u.old) # {})
  <2>1. CASE RefsTo(s.kind, s.old) = {}
    <3>1. PICK t : Stepped(s, t) /\ Goes(r, t) /\ objects' = objects
      BY <1>2, <2>1 DEF cleanupExpenseReceipt, Does, Stepped
    <3> QED BY <1>2, <3>1
  <2>2. CASE RefsTo(s.kind, s.old) # {}
    <3>1. s.old \in KeyIds /\ s.old # None
      BY <1>1, <2>2, KeysAre DEF RefsTo, KeysInv
    <3>2. PICK u : u = [s EXCEPT !.cleaned = {s.old}]
      OBVIOUS
    <3>3. PICK t : Stepped(u, t) /\ Goes(r, t) /\ objects \ {s.old} \subseteq objects'
      BY <1>2, <2>2, <3>2 DEF cleanupExpenseReceipt, Does, Stepped
    <3>4. /\ u.op = "file" /\ u.pc = s.pc /\ u.kind = s.kind /\ u.line = s.line /\ u.source = s.source
          /\ u.new = s.new /\ u.old = s.old /\ u.todo = s.todo /\ u.cleaned = {s.old} /\ u.alone = s.alone
      BY <1>2, <3>2 DEF FileForm
    <3>5. u \in [op : {"file"}, pc : {"run"}, kind : FormKinds, line : Lines \cup {None},
                 source : KeyIds \cup {None}, new : KeyIds \cup {None}, old : KeyIds \cup {None},
                 todo : Todos, cleaned : {{}, {s.old} \ {None}}, alone : BOOLEAN]
      <4>1. {s.old} \in {{}, {s.old} \ {None}}
        BY <3>1
      <4> QED BY <1>2, <3>2, <4>1 DEF FileForm
    <3>6. /\ u.kind = "receipt" <=> u.line # None
          /\ u.todo \notin {<<>>, <<"clean up">>} => u.source # None /\ u.new # u.source
          /\ u.kind = "receipt" /\ u.source = None /\ (u.todo # <<>> \/ u.cleaned # {}) => u.old # u.new
      BY <1>4, <3>4
    <3>7. FileForm(u, KeyIds)
      BY <3>4, <3>5, <3>6, Zenon DEF FileForm
    <3>8. KeysOf(u) = KeysOf(s) /\ s.cleaned \subseteq u.cleaned /\ objects \ u.cleaned \subseteq objects'
      BY <1>2, <3>3, <3>4 DEF KeysOf
    <3> QED BY <2>2, <3>3, <3>4, <3>7, <3>8
  <2> QED BY <2>1, <2>2
<1>6. /\ FileForm(t, KeyIds) /\ t.op = "file" /\ FormKeysOf(t) = KeysOf(u) /\ Hand(t) = u.cleaned
      /\ t.kind = u.kind /\ t.line = u.line /\ t.source = u.source /\ t.new = u.new /\ t.old = u.old
      /\ t.cleaned = u.cleaned /\ t.alone = u.alone /\ PurgeForm(t) /\ LibraryKeysOf(t) = {}
  <2>1. FileForm(u, KeyIds) /\ u.todo # <<>> /\ Stepped(u, t)
    BY <1>1, <1>2, <1>5
  <2> QED BY <2>1, FormDoes
<1>7. tx'[r] = t /\ \A q \in Requests \ {r} : SameForm(tx[q], tx'[q])
  BY <1>5 DEF Goes, Sane, SameForm
<1>8. KeysInv'
  <2>1. receiptOf' = [l \in Lines |-> receiptOf'[l]] /\ \A l \in Lines : receiptOf'[l] \in {receiptOf[l], None}
    BY <1>1, <1>3 DEF KeysInv
  <2>2. \A k \in FormKeysOf(t) : FormKey(k)
    BY <1>2, <1>5, <1>6
  <2> QED BY <1>1, <1>3, <1>6, <1>7, <2>1, <2>2, FileKeysStay
<1>9. \A k : HandKept(r, k) /\ KeyKept(r, k)
  BY <1>2, <1>5, <1>6, <1>7 DEF HandKept, KeyKept
<1>10. ASSUME t.alone PROVE tx[r].alone /\ Ready(t)'
  <2>1. tx[r].alone /\ Ready(s)
    BY <1>2, <1>5, <1>6, <1>10
  <2>2. \A kind, k : RefsTo(kind, k)' = RefsTo(kind, k)
    BY <1>3 DEF RefsTo
  <2>3. t.new # None => IF t.kind = "receipt" /\ t.source = None THEN RefsTo("receipt", t.new)' # {}
                        ELSE t.new \in objects' \cup t.cleaned
    <3>1. s.new # None => IF s.kind = "receipt" /\ s.source = None THEN RefsTo("receipt", s.new) # {}
                          ELSE s.new \in objects \cup s.cleaned
      BY <2>1 DEF Ready
    <3> QED BY <1>5, <1>6, <2>2, <3>1
  <2>4. t.cleaned # {} => RefsTo(t.kind, t.old)' # {}
    BY <1>5, <1>6, <2>1, <2>2 DEF Ready
  <2>5. t.kind = "receipt" => \A l \in Lines : receiptOf'[l] = t.old /\ t.old # None => l = t.line \/ t.old \in excused'
    BY <1>3, <1>5, <1>6, <2>1 DEF Ready
  <2>6. t.kind = "receipt" /\ t.source # None /\ t.new # None =>
            (\A f \in refs' : f.key # t.new) /\ \A l \in Lines : receiptOf'[l] # t.new
    BY <1>3, <1>5, <1>6, <2>1 DEF Ready
  <2> QED BY <2>1, <2>3, <2>4, <2>5, <2>6 DEF Ready
<1>11. \A k \in objects : FormKey(k) /\ k \notin FormKeysOf(tx[r]) => k \in objects'
  <2>1. u.cleaned \subseteq KeysOf(s)
    BY <1>5 DEF FileForm, KeysOf
  <2> QED BY <1>2, <1>5, <2>1
<1>12. \A k \in FormKeysOf(t) : k \in FormKeysOf(tx[r])
  BY <1>2, <1>5, <1>6
<1> QED BY <1>1, <1>3, <1>5, <1>6, <1>8, <1>9, <1>10, <1>11, <1>12, FormGoesOn

(* A form commits: its new key and its old one are excused, or it was      *)
(* alone with them.                                                        *)
Calm(s) ==
    /\ Ready(s)
    /\ s.new # None => /\ s.kind = "receipt" \/ \A f \in refs : f.key # s.new
                       /\ \A l \in Lines \ {s.line} : receiptOf[l] # s.new
Commits(s, gone, added) ==
    /\ refs' = (refs \ gone) \cup added
    /\ gone = RefsTo(s.kind, s.old) \/ (gone = {} /\ s.cleaned = {})
    /\ s.kind = "receipt" /\ s.cleaned = {} => gone = {}
    /\ \A f \in added : f.kind = s.kind /\ f.key = s.new /\ s.new # None /\ (s.kind # "receipt" \/ s.source # None)
    /\ \A f, g \in added : f = g
    /\ s.kind = "receipt" /\ s.source # None /\ s.new # None => \E f \in added : f.key = s.new /\ f.kind = "receipt"
    /\ receiptOf' = [l \in Lines |-> IF l = s.line THEN s.new ELSE receiptOf[l]]
    /\ excused \subseteq excused' /\ sent' \subseteq sent /\ UNCHANGED <<objects, staged, lastKey>>
    /\ Calm(s) \/ {s.new, s.old} \ {None} \subseteq excused'

LEMMA FormCommits ==
    ASSUME FilesInv, NEW r \in Requests, CommitForm(r), NEW s, s = tx[r], s.alone => Ready(s), FileForm(s, KeyIds)
    PROVE  \E gone, added : Commits(s, gone, added)
<1>1. PICK gone, added : gone = Dropped(r) /\ added = Added(r)
  OBVIOUS
<1>2. refs' = (refs \ gone) \cup added
  BY <1>1 DEF CommitForm
<1>3. /\ gone = RefsTo(s.kind, s.old) \/ (gone = {} /\ s.cleaned = {})
      /\ s.kind = "receipt" /\ s.cleaned = {} => gone = {}
  BY <1>1 DEF Dropped
<1>4. /\ \A f \in added : f.kind = s.kind /\ f.key = s.new /\ s.new # None /\ (s.kind # "receipt" \/ s.source # None)
      /\ \A f, g \in added : f = g
      /\ s.kind = "receipt" /\ s.source # None /\ s.new # None => \E f \in added : f.key = s.new /\ f.kind = "receipt"
  <2>1. CASE s.new = None \/ (s.kind = "receipt" /\ s.source = None)
    BY <1>1, <2>1 DEF Added
  <2>2. CASE ~(s.new = None \/ (s.kind = "receipt" /\ s.source = None))
    <3>1. PICK f : f = Ref(s.kind, None, s.new) /\ added = {f}
      BY <1>1, <2>2 DEF Added
    <3>2. f.kind = s.kind /\ f.key = s.new
      BY <3>1 DEF Ref
    <3> QED BY <2>2, <3>1, <3>2
  <2> QED BY <2>1, <2>2
<1>5. receiptOf' = [l \in Lines |-> IF l = s.line THEN s.new ELSE receiptOf[l]]
  <2>1. s.line \in Lines \cup {None} /\ None \notin Lines /\ receiptOf = [l \in Lines |-> receiptOf[l]]
    BY FilesAssumption DEF FileForm, FilesInv, KeysInv
  <2>2. receiptOf' = IF s.line = None THEN receiptOf ELSE [receiptOf EXCEPT ![s.line] = s.new]
    BY DEF CommitForm
  <2> QED BY <2>1, <2>2
<1>6. excused \subseteq excused' /\ sent' \subseteq sent /\ UNCHANGED <<objects, staged, lastKey>>
  BY DEF CommitForm
<1>7. Calm(s) \/ {s.new, s.old} \ {None} \subseteq excused'
  <2>1. CASE ~s.alone \/ Shared(r)
    BY <2>1 DEF CommitForm
  <2>2. CASE s.alone /\ ~Shared(r)
    BY <2>2 DEF Shared, Calm
  <2> QED BY <2>1, <2>2
<1> QED BY <1>2, <1>3, <1>4, <1>5, <1>6, <1>7 DEF Commits

LEMMA CommitShares ==
    ASSUME KeysInv, SharedInv, NEW s, FileForm(s, KeyIds), NEW gone, NEW added, Commits(s, gone, added)
    PROVE  SharedInv'
<1>1. /\ \A f \in refs' : f \in refs \/ (f \in added /\ f.kind = s.kind /\ f.key = s.new /\ s.new # None
                                          /\ (s.kind # "receipt" \/ s.source # None))
      /\ \A f, g \in added : f = g
      /\ \A l \in Lines : receiptOf'[l] = receiptOf[l] \/ (l = s.line /\ receiptOf'[l] = s.new)
      /\ excused \subseteq excused' /\ (Calm(s) \/ {s.new, s.old} \ {None} \subseteq excused')
  BY DEF Commits
<1>2. None \notin KeyIds /\ None \notin Lines /\ (s.kind = "receipt" <=> s.line # None)
  BY KeysAre, FilesAssumption DEF FileForm
<1>3. \A f \in refs : f.key # None
  BY <1>2 DEF KeysInv
<1>4. ASSUME s.new # None, s.new \notin excused'
      PROVE  /\ s.kind = "receipt" \/ \A f \in refs : f.key # s.new
             /\ \A l \in Lines \ {s.line} : receiptOf[l] # s.new
             /\ s.kind = "receipt" /\ s.source # None => \A f \in refs : f.key # s.new
             /\ s.kind = "receipt" /\ s.source = None => \E g \in refs : g.kind = "receipt" /\ g.key = s.new
  BY <1>1, <1>4 DEF Calm, Ready, RefsTo
<1>5. ASSUME NEW f \in refs' \ refs, NEW g \in refs', f.key = g.key, f # g PROVE f.key \in excused'
  <2>1. f \in added /\ f.key = s.new /\ s.new # None /\ (s.kind # "receipt" \/ s.source # None) /\ g \notin added
    BY <1>1, <1>5
  <2> QED BY <1>1, <1>4, <1>5, <2>1
<1>6. \A f, g \in FormRefs' : f.key = g.key => f = g \/ f.key \in excused'
  <2>1. ASSUME NEW f \in FormRefs', NEW g \in FormRefs', f.key = g.key, f # g PROVE f.key \in excused'
    <3>1. f \in refs' /\ g \in refs' /\ f.kind \notin Library /\ g.kind \notin Library
      BY <2>1 DEF FormRefs
    <3>2. CASE f \in refs /\ g \in refs
      BY <1>1, <2>1, <3>1, <3>2 DEF SharedInv, FormRefs
    <3>3. CASE f \notin refs \/ g \notin refs
      BY <1>5, <2>1, <3>1, <3>3
    <3> QED BY <3>2, <3>3
  <2> QED BY <2>1
<1>7. ASSUME NEW f \in FormRefs', NEW l \in Lines, receiptOf'[l] = f.key, f.kind # "receipt", f.key \notin excused'
      PROVE  FALSE
  <2>1. f \in refs' /\ f.kind \notin Library
    BY <1>7 DEF FormRefs
  <2>2. CASE f \in refs /\ receiptOf'[l] = receiptOf[l]
    BY <1>1, <1>7, <2>1, <2>2 DEF SharedInv, FormRefs
  <2>3. CASE f \in refs /\ l = s.line /\ receiptOf'[l] = s.new
    <3>1. f.key = s.new /\ s.new # None /\ s.new \notin excused' /\ s.kind = "receipt"
      BY <1>2, <1>3, <1>7, <2>3
    <3>2. PICK g \in refs : g.kind = "receipt" /\ g.key = s.new
      BY <1>4, <2>3, <3>1
    <3> QED BY <1>1, <1>7, <2>1, <2>3, <3>1, <3>2 DEF SharedInv, FormRefs, Library
  <2>4. CASE f \notin refs
    <3>1. f.kind = s.kind /\ f.key = s.new /\ s.new # None /\ s.kind # "receipt"
      BY <1>1, <1>7, <2>1, <2>4
    <3> QED BY <1>1, <1>2, <1>4, <1>7, <3>1
  <2> QED BY <1>1, <2>1, <2>2, <2>3, <2>4
<1>8. ASSUME NEW l \in Lines, NEW m \in Lines, receiptOf'[l] = receiptOf'[m], receiptOf'[l] # None,
             l # m, receiptOf'[l] \notin excused'
      PROVE  FALSE
  <2>1. CASE receiptOf'[l] = receiptOf[l] /\ receiptOf'[m] = receiptOf[m]
    BY <1>1, <1>8, <2>1 DEF SharedInv
  <2>2. CASE l = s.line /\ receiptOf'[l] = s.new
    BY <1>1, <1>4, <1>8, <2>2
  <2>3. CASE m = s.line /\ receiptOf'[m] = s.new
    BY <1>1, <1>4, <1>8, <2>3
  <2> QED BY <1>1, <2>1, <2>2, <2>3
<1> QED BY <1>6, <1>7, <1>8 DEF SharedInv

LEMMA FormCommitted ==
    ASSUME FilesInv, Sane, NEW r \in Requests, CommitForm(r)
    PROVE  FilesInv'
<1>1. tx[r].op = "file" /\ KeysInv /\ SharedInv /\ AloneInv /\ PresentInv
  BY DEF CommitForm, At, FilesInv
<1>2. PICK s : /\ s = tx[r] /\ FileForm(s, KeyIds) /\ FormKeysOf(s) = KeysOf(s) /\ Hand(s) = s.cleaned
               /\ (s.alone => Ready(s)) /\ s.cleaned \subseteq {s.old} \ {None}
               /\ \A k \in KeysOf(s) : FormKey(k) /\ ~LibraryKey(k) /\ k \in KeyIds
  BY <1>1, FormRuns
<1>3. PICK gone, added : Commits(s, gone, added)
  BY <1>2, FormCommits
<1>4. PICK t : t = Idle /\ Goes(r, t)
  BY DEF CommitForm, Ends
<1>5. t.op = "none" /\ LibraryKeysOf(t) = {} /\ FormKeysOf(t) = {} /\ Hand(t) = {} /\ PurgeForm(t)
  BY <1>4 DEF Idle, LibraryKeysOf, FormKeysOf, Hand, PurgeForm
<1>6. tx'[r] = t /\ \A q \in Requests \ {r} : SameForm(tx[q], tx'[q])
  BY <1>4 DEF Goes, Sane, SameForm
<1>7. /\ \A f \in refs' : f \in refs \/ (f \in added /\ f.key = s.new /\ f.kind = s.kind /\ f.key # None)
      /\ \A l \in Lines : receiptOf'[l] = receiptOf[l] \/ (l = s.line /\ receiptOf'[l] = s.new)
      /\ receiptOf' = [l \in Lines |-> receiptOf'[l]]
      /\ excused \subseteq excused' /\ sent' \subseteq sent /\ UNCHANGED <<objects, staged, lastKey>>
  BY <1>3 DEF Commits
<1>8. s.kind \notin Library /\ (s.new # None => s.new \in KeysOf(s)) /\ s.op = "file" /\ None \notin KeyIds
      /\ (s.old # None => s.old \in KeysOf(s)) /\ (s.kind = "receipt" <=> s.line # None)
  BY <1>1, <1>2, KeysAre DEF FileForm, KeysOf, FormKinds, Library
<1>9. KeysInv'
  <2>1. KeyIds' = KeyIds /\ lastKey' \in lastKey .. MaxKeys
    BY <1>1, <1>7 DEF KeysInv, KeyIds
  <2>2. PICK lib, form : lib = {} /\ form = {}
    OBVIOUS
  <2>3. lib \in SUBSET (KeyIds' \ KeyIds) /\ form \in SUBSET (KeyIds' \ KeyIds) /\ lib \cap form = {}
    BY <2>2
  <2>4. ASSUME NEW f \in refs'
        PROVE  IF f.kind \in Library THEN LibraryKey(f.key) \/ f.key \in lib ELSE FormKey(f.key) \/ f.key \in form
    <3>1. CASE f \in refs
      BY <3>1 DEF LibraryKey, FormKey, FormRefs
    <3>2. CASE f \notin refs
      BY <1>2, <1>7, <1>8, <3>2
    <3> QED BY <3>1, <3>2
  <2>5. \A k \in sent' \cup FormKeysOf(t) : FormKey(k) \/ k \in form
    BY <1>5, <1>7 DEF FormKey
  <2>6. ASSUME NEW l \in Lines, receiptOf'[l] # None PROVE FormKey(receiptOf'[l]) \/ receiptOf'[l] \in form
    <3>1. CASE receiptOf'[l] = receiptOf[l]
      BY <2>6, <3>1 DEF FormKey
    <3>2. CASE receiptOf'[l] = s.new
      BY <1>2, <1>8, <2>6, <3>2
    <3> QED BY <1>7, <3>1, <3>2
  <2>7. \A k \in LibraryKeysOf(t) : LibraryKey(k) \/ k \in lib
    BY <1>5
  <2>8. t.op = "file" => FileForm(t, KeyIds')
    BY <1>5
  <2>9. staged' \subseteq KeyIds'
    BY <1>1, <1>7, <2>1 DEF KeysInv
  <2>10. receiptOf' = [l \in Lines |-> receiptOf'[l]] /\ PurgeForm(t)
    BY <1>5, <1>7
  <2> QED BY <1>1, <1>6, <2>1, <2>3, <2>4, <2>5, <2>6, <2>7, <2>8, <2>9, <2>10, KeysGo, Zenon
<1>10. SharedInv'
  BY <1>1, <1>2, <1>3, CommitShares
<1>11. AloneInv'
  <2>1. ASSUME NEW k, FormKey(k), k \notin FormKeysOf(tx[r]) PROVE Still(k)
    <3>1. k # s.new /\ k # s.old /\ k \in KeyIds
      BY <1>1, <1>2, <1>8, <2>1, KeysAre
    <3>2. \A f : f.key = k => (f \in refs <=> f \in refs')
      BY <1>3, <1>7, <3>1 DEF Commits, RefsTo
    <3> QED BY <1>7, <3>1, <3>2 DEF Still
  <2> QED BY <1>1, <1>5, <1>6, <1>7, <2>1, AloneGo
<1>12. Calm(s) \/ {s.new, s.old} \ {None} \subseteq excused'
  BY <1>3 DEF Commits
<1>13. gone = RefsTo(s.kind, s.old) \/ (gone = {} /\ s.cleaned = {})
  BY <1>3 DEF Commits
<1>14. refs' = (refs \ gone) \cup added
  BY <1>3 DEF Commits
<1>15. ASSUME NEW k \in s.cleaned, k \notin excused' PROVE k = s.old /\ Calm(s) /\ Ready(s) /\ gone = RefsTo(s.kind, k) /\ gone # {}
  BY <1>2, <1>12, <1>13, <1>15 DEF Calm, Ready
<1>16. ASSUME NEW f \in refs, f \notin gone PROVE KeyKept(r, f.key)
  <2>1. ASSUME f.key \in s.cleaned, f.key \notin excused' PROVE FALSE
    <3>1. f.key = s.old /\ gone = RefsTo(s.kind, f.key) /\ gone # {}
      BY <1>15, <2>1
    <3>2. PICK g \in refs : g.kind = s.kind /\ g.key = f.key /\ g # f
      BY <1>16, <3>1 DEF RefsTo
    <3>3. f.kind \notin Library
      BY <1>2, <1>8, <2>1, <3>1 DEF LibraryKey
    <3> QED BY <1>1, <1>7, <1>8, <2>1, <3>2, <3>3 DEF SharedInv, FormRefs
  <2> QED BY <1>2, <1>7, <2>1 DEF KeyKept, HandKept
<1>17. ASSUME NEW f \in added PROVE Safe(f.key)'
  <2>1. f.kind = s.kind /\ f.key = s.new /\ s.new # None /\ (s.kind # "receipt" \/ s.source # None)
    BY <1>3 DEF Commits
  <2>2. CASE s.new \in excused'
    BY <2>1, <2>2 DEF Safe
  <2>3. CASE s.new \notin excused'
    <3>1. Calm(s) /\ s.new \in objects \cup s.cleaned
      BY <1>12, <2>1, <2>3 DEF Calm, Ready
    <3>2. \A g \in refs : g.key # s.new
      BY <2>1, <3>1 DEF Calm, Ready
    <3>3. s.new \notin s.cleaned
      BY <1>15, <2>3, <3>2 DEF RefsTo
    <3> QED BY <1>7, <2>1, <3>1, <3>3 DEF Safe
  <2> QED BY <2>2, <2>3
<1>18. ASSUME NEW l \in Lines, NEW k, receiptOf'[l] = k, k # None
       PROVE  \/ Served(k)'
              \/ /\ receiptOf[l] = k /\ HandKept(r, k)
                 /\ RefsTo("receipt", k) # {} => RefsTo("receipt", k)' # {} \/ k \in excused'
  <2>1. CASE k \in excused'
    BY <2>1 DEF Served
  <2>2. CASE k \notin excused' /\ l = s.line
    <3>1. k = s.new /\ s.kind = "receipt"
      BY <1>3, <1>8, <1>18, <2>2, FilesAssumption DEF Commits
    <3>2. Calm(s) /\ Ready(s)
      BY <1>12, <1>18, <2>2, <3>1 DEF Calm
    <3>3. CASE s.source # None
      <4>1. PICK f \in added : f.key = k /\ f.kind = "receipt"
        BY <1>3, <1>18, <3>1, <3>3 DEF Commits
      <4>2. f \in RefsTo("receipt", k)'
        BY <1>14, <4>1 DEF RefsTo
      <4> QED BY <4>2 DEF Served
    <3>4. CASE s.source = None
      <4>1. PICK f \in refs : f.key = k /\ f.kind = "receipt"
        BY <1>18, <3>1, <3>2, <3>4 DEF Ready, RefsTo
      <4>2. s.cleaned # {} => s.old # s.new
        BY <1>2, <3>1, <3>4 DEF FileForm
      <4>3. f \notin gone
        <5>1. CASE s.cleaned # {}
          BY <1>13, <3>1, <4>1, <4>2, <5>1 DEF RefsTo
        <5>2. CASE s.cleaned = {}
          BY <1>3, <3>1, <5>2 DEF Commits
        <5> QED BY <5>1, <5>2
      <4>4. f \in RefsTo("receipt", k)'
        BY <1>14, <4>1, <4>3 DEF RefsTo
      <4> QED BY <4>4 DEF Served
    <3> QED BY <3>3, <3>4
  <2>3. CASE k \notin excused' /\ l # s.line
    <3>1. receiptOf[l] = k /\ k \notin excused
      BY <1>7, <1>18, <2>3
    <3>2. k \notin s.cleaned
      <4> SUFFICES ASSUME k \in s.cleaned PROVE FALSE
        OBVIOUS
      <4>1. k = s.old /\ Ready(s) /\ gone = RefsTo(s.kind, k) /\ gone # {}
        BY <1>15, <2>3
      <4>2. CASE s.kind = "receipt"
        BY <1>18, <2>3, <3>1, <4>1, <4>2 DEF Ready
      <4>3. CASE s.kind # "receipt"
        <5>1. PICK g \in refs : g.kind = s.kind /\ g.key = k
          BY <4>1 DEF RefsTo
        <5> QED BY <1>1, <1>8, <3>1, <4>3, <5>1 DEF SharedInv, FormRefs
      <4> QED BY <4>2, <4>3
    <3>3. HandKept(r, k)
      BY <1>2, <3>2 DEF HandKept
    <3>4. ASSUME NEW f \in RefsTo("receipt", k) PROVE f \in RefsTo("receipt", k)'
      <4>1. f \in refs /\ f.kind = "receipt" /\ f.key = k
        BY <3>4 DEF RefsTo
      <4>2. f \notin gone
        <5> SUFFICES ASSUME f \in gone PROVE FALSE
          OBVIOUS
        <5>1. s.kind = "receipt" /\ k = s.old
          BY <1>13, <4>1 DEF RefsTo
        <5>2. Ready(s)
          BY <1>12, <1>18, <2>3, <5>1 DEF Calm
        <5> QED BY <1>18, <2>3, <3>1, <5>1, <5>2 DEF Ready
      <4> QED BY <1>14, <4>1, <4>2 DEF RefsTo
    <3> QED BY <3>1, <3>3, <3>4
  <2> QED BY <2>1, <2>2, <2>3
<1>19. PresentInv'
  <2>1. ASSUME NEW f \in refs' PROVE (f \in refs /\ KeyKept(r, f.key)) \/ Safe(f.key)'
    BY <1>14, <1>16, <1>17
  <2>2. ASSUME NEW k, LibraryKey(k) PROVE KeyKept(r, k)
    <3>1. k \notin s.cleaned
      BY <1>2, <1>8, <2>2
    <3> QED BY <1>2, <1>7, <3>1 DEF KeyKept, HandKept
  <2>3. \A k \in LibraryKeysOf(t) : LibraryKey(k) \/ Safe(k)'
    BY <1>5
  <2> QED BY <1>1, <1>6, <1>7, <1>18, <2>1, <2>2, <2>3, PresentGo
<1> QED BY <1>9, <1>10, <1>11, <1>19 DEF FilesInv

(* While a purge runs no form is alone.                                    *)
LEMMA PurgeGoesOn ==
    ASSUME FilesInv, Sane, NEW r \in Requests, NEW t, Goes(r, t), tx[r].op = "purge", t.op \in {"purge", "none"}, PurgeForm(t),
           UNCHANGED <<receiptOf, sent, staged, lastKey>>, refs' \subseteq refs, excused \subseteq excused',
           \A k : LibraryKey(k) => KeyKept(r, k),
           \A f \in refs' : KeyKept(r, f.key),
           \A l \in Lines : receiptOf[l] # None =>
              /\ HandKept(r, receiptOf[l])
              /\ RefsTo("receipt", receiptOf[l]) # {} => RefsTo("receipt", receiptOf[l])' # {} \/ receiptOf[l] \in excused'
    PROVE  FilesInv'
<1>1. tx'[r] = t /\ \A q \in Requests \ {r} : SameForm(tx[q], tx'[q])
  BY DEF Goes, Sane, SameForm
<1>2. KeysInv /\ SharedInv /\ AloneInv /\ PresentInv
  BY DEF FilesInv
<1>3. t.op # "file" /\ FormKeysOf(t) = {} /\ LibraryKeysOf(t) = {}
  BY DEF FormKeysOf, LibraryKeysOf
<1>4. /\ receiptOf' = [l \in Lines |-> receiptOf'[l]] /\ \A l \in Lines : receiptOf'[l] \in {receiptOf[l], None}
      /\ sent' \subseteq sent
  BY <1>2 DEF KeysInv
<1>5. KeysInv'
  BY <1>1, <1>2, <1>3, <1>4, FileKeysStay
<1>6. SharedInv'
  <2>1. \A f \in refs' : f.kind \notin Library => f.key # None
    BY <1>2, KeysAre DEF KeysInv
  <2> QED BY <1>2, <1>4, <2>1, SharedShrinks
<1>7. AloneInv'
  BY <1>1, <1>2, <1>3, AloneGo
<1>8. PresentInv'
  <2>1. \A f \in refs' : f \in refs /\ KeyKept(r, f.key)
    OBVIOUS
  <2>2. ASSUME NEW l \in Lines, NEW k, receiptOf'[l] = k, k # None
        PROVE  /\ receiptOf[l] = k /\ HandKept(r, k)
               /\ RefsTo("receipt", k) # {} => RefsTo("receipt", k)' # {} \/ k \in excused'
    <3>1. receiptOf[l] = k
      BY <2>2
    <3>2. RefsTo("receipt", receiptOf[l])' = RefsTo("receipt", k)'
      BY <2>2 DEF RefsTo
    <3> QED BY <2>2, <3>1, <3>2
  <2> QED BY <1>1, <1>2, <1>3, <2>1, <2>2, PresentGo
<1> QED BY <1>5, <1>6, <1>7, <1>8 DEF FilesInv

LEMMA PurgeStarts ==
    ASSUME FilesInv, Sane, NEW r \in Requests, purgeOrganizationAssets(r)
    PROVE  FilesInv'
<1>1. PICK t : /\ t = [op |-> "purge", pc |-> "delete", listed |-> objects]
               /\ tx' = [q \in Requests |-> IF q = r THEN t
                                            ELSE IF InForm(q) THEN [tx[q] EXCEPT !.alone = FALSE] ELSE tx[q]]
  BY DEF purgeOrganizationAssets
<1>2. KeysInv /\ SharedInv /\ AloneInv /\ PresentInv /\ UNCHANGED fileVars /\ tx[r].op = "none"
  BY DEF FilesInv, purgeOrganizationAssets, Sane, Handler
<1>3. tx'[r] = t /\ \A q \in Requests \ {r} : SameForm(tx[q], tx'[q])
  BY <1>1 DEF SameForm, InForm
<1>4. t.op = "purge" /\ t.pc = "delete" /\ PurgeForm(t) /\ FormKeysOf(t) = {} /\ LibraryKeysOf(t) = {} /\ Hand(t) = {}
  BY <1>1 DEF PurgeForm, FormKeysOf, LibraryKeysOf, Hand
<1>5. /\ lastKey' = lastKey /\ staged' = staged /\ sent' \subseteq sent /\ refs' = refs
      /\ receiptOf' = [l \in Lines |-> receiptOf'[l]] /\ receiptOf' = receiptOf
      /\ excused' = excused /\ objects' = objects
  BY <1>2 DEF fileVars, KeysInv
<1>6. KeysInv'
  BY <1>2, <1>3, <1>4, <1>5, FileKeysStay
<1>7. SharedInv'
  BY <1>2, <1>5 DEF SharedInv, FormRefs
<1>8. AloneInv'
  <2>1. ASSUME NEW q \in Requests \ {r}, tx'[q].op = "file" PROVE ~tx'[q].alone
    <3>1. PICK v : v = tx[q] /\ (v.op = "file" => FileForm(v, KeyIds))
      BY <1>2 DEF KeysInv
    <3>2. v.op = "file"
      BY <1>2, <1>3, <2>1, <3>1, SameFormIs
    <3>3. tx'[q] = [v EXCEPT !.alone = FALSE]
      BY <1>1, <2>1, <3>1, <3>2 DEF InForm
    <3> QED BY <3>1, <3>2, <3>3, FileFormMarked
  <2>2. ~(tx'[r].op = "file")
    BY <1>3, <1>4
  <2> QED BY <2>1, <2>2 DEF AloneInv
<1>9. PresentInv'
  <2>1. \A k : KeyKept(r, k) /\ HandKept(r, k)
    BY <1>2, <1>5 DEF KeyKept, HandKept, Hand
  <2>2. \A k : RefsTo("receipt", k)' = RefsTo("receipt", k)
    BY <1>5 DEF RefsTo
  <2> QED BY <1>2, <1>3, <1>4, <1>5, <2>1, <2>2, PresentGo
<1> QED BY <1>6, <1>7, <1>8, <1>9 DEF FilesInv

LEMMA PurgeSteps ==
    ASSUME FilesInv, Sane, NEW r \in Requests, deleteAllUnderPrefix(r) \/ ClearReferences(r) \/ FailPurge(r)
    PROVE  FilesInv'
<1>1. tx[r].op = "purge" /\ KeysInv /\ SharedInv
  BY DEF deleteAllUnderPrefix, ClearReferences, FailPurge, At, Purging, FilesInv
<1>2. PICK s : s = tx[r] /\ s \in [op : {"purge"}, pc : {"delete", "clear"}, listed : {s.listed}]
  BY <1>1 DEF KeysInv, PurgeForm
<1>3. Hand(s) = IF s.pc = "clear" THEN s.listed ELSE {}
  BY <1>2 DEF Hand
<1>4. CASE deleteAllUnderPrefix(r)
  <2>1. PICK t : t = [s EXCEPT !.pc = "clear"] /\ Goes(r, t)
    BY <1>2, <1>4 DEF deleteAllUnderPrefix
  <2>2. t.op = "purge" /\ t.pc = "clear" /\ t.listed = s.listed /\ PurgeForm(t)
    BY <1>2, <2>1 DEF PurgeForm
  <2>3. Hand(t) = s.listed /\ tx'[r] = t
    BY <2>1, <2>2 DEF Hand, Goes, Sane
  <2>4. objects \ s.listed \subseteq objects' /\ UNCHANGED <<refs, receiptOf, sent, staged, lastKey, excused>>
    BY <1>2, <1>4 DEF deleteAllUnderPrefix
  <2>5. \A k : HandKept(r, k) /\ KeyKept(r, k)
    BY <1>2, <1>3, <2>3, <2>4 DEF HandKept, KeyKept
  <2>6. \A k : RefsTo("receipt", k)' = RefsTo("receipt", k)
    BY <2>4 DEF RefsTo
  <2>7. \A l \in Lines : RefsTo("receipt", receiptOf[l])' = RefsTo("receipt", receiptOf[l])
    BY <2>4 DEF RefsTo
  <2> QED BY <1>1, <2>1, <2>2, <2>4, <2>5, <2>7, PurgeGoesOn
<1>5. CASE ClearReferences(r) \/ FailPurge(r)
  <2>1. PICK t : t = Idle /\ Goes(r, t)
    BY <1>5 DEF ClearReferences, FailPurge, Ends
  <2>2. t.op = "none" /\ PurgeForm(t) /\ s.pc \in {"delete", "clear"}
    BY <1>2, <2>1 DEF PurgeForm, Idle
  <2>3. Hand(s) \subseteq s.listed /\ UNCHANGED <<objects, receiptOf, sent, staged, lastKey>> /\ excused \subseteq excused'
    BY <1>3, <1>5 DEF ClearReferences, FailPurge
  <2>4. CASE FailPurge(r)
    <3>1. refs' = refs /\ \A k \in s.listed : k \in excused'
      BY <1>2, <2>4 DEF FailPurge
    <3>2. \A k : HandKept(r, k) /\ KeyKept(r, k)
      BY <1>2, <2>3, <3>1 DEF HandKept, KeyKept
    <3>3. \A l \in Lines : RefsTo("receipt", receiptOf[l])' = RefsTo("receipt", receiptOf[l])
      BY <2>3, <3>1 DEF RefsTo
    <3> QED BY <1>1, <2>1, <2>2, <2>3, <3>1, <3>2, <3>3, PurgeGoesOn
  <2>5. CASE ClearReferences(r)
    <3>1. /\ refs' = {f \in refs : f.kind \in Library}
          /\ \A k : k \in s.listed \/ (\E f \in refs : f.key = k) =>
                 k \in excused' \/ \E g \in refs : g.kind \notin Library /\ g.kind # "receipt" /\ g.key = k
      BY <1>2, <2>5 DEF ClearReferences, Cleared
    <3>2. ASSUME NEW k, LibraryKey(k) PROVE KeyKept(r, k) /\ HandKept(r, k)
      <4>1. \A g \in refs : g.kind \notin Library => g.key # k
        BY <1>1, <3>2, KeysAre DEF FormKey, FormRefs
      <4> QED BY <1>2, <2>3, <3>1, <4>1 DEF KeyKept, HandKept
    <3>3. \A f \in refs' : LibraryKey(f.key) /\ KeyKept(r, f.key)
      BY <3>1, <3>2 DEF LibraryKey
    <3>4. ASSUME NEW l \in Lines, receiptOf[l] \in s.listed \/ \E f \in refs : f.key = receiptOf[l]
          PROVE  receiptOf[l] \in excused'
      <4> SUFFICES ASSUME NEW g \in refs, g.kind \notin Library, g.kind # "receipt", g.key = receiptOf[l]
                   PROVE  receiptOf[l] \in excused
        BY <2>3, <3>1, <3>4
      <4> QED BY <1>1 DEF SharedInv, FormRefs
    <3>5. \A l \in Lines : HandKept(r, receiptOf[l])
      BY <1>2, <2>3, <3>4 DEF HandKept
    <3>6. \A l \in Lines : RefsTo("receipt", receiptOf[l]) # {} => receiptOf[l] \in excused'
      BY <3>4 DEF RefsTo
    <3> QED BY <1>1, <2>1, <2>2, <2>3, <3>1, <3>2, <3>3, <3>5, <3>6, PurgeGoesOn
  <2> QED BY <1>5, <2>4, <2>5
<1> QED BY <1>4, <1>5

LEMMA FilesStepKeeps ==
    ASSUME FilesInv, Sane, NEW r \in Requests, FilesStep(r)
    PROVE  FilesInv'
<1>1. CASE \E line \in Lines : \/ deleteLine(r, line)
                               \/ \E key \in sent : attachReceipt(r, line, key)
                               \/ \E key \in 1 .. lastKey : reuseReceipt(r, line, key)
  BY <1>1, ReceiptStarts
<1>2. CASE \/ \E key \in sent : createLeave(r, key) \/ finalizeProfilePhoto(r, key) \/ updateOrgProfile(r, key)
           \/ \E key \in sent \cup {None}, old \in 1 .. lastKey \cup {None} : updateDocuments(r, key, old)
  BY <1>2, OtherFormsStart
<1>3. CASE copyObject(r) \/ deleteObject(r) \/ cleanupExpenseReceipt(r) \/ CommitForm(r) \/ FailForm(r)
  BY <1>3, SourceCopied, SourceDeleted, ReceiptCleaned, FormCommitted, FormFails
<1>4. CASE purgeOrganizationAssets(r) \/ deleteAllUnderPrefix(r) \/ ClearReferences(r) \/ FailPurge(r)
  BY <1>4, PurgeStarts, PurgeSteps
<1> QED BY <1>1, <1>2, <1>3, <1>4 DEF FilesStep

(* Files are uploaded, or nothing happens to them.                         *)
LEMMA FilesStay ==
    ASSUME FilesInv, \A q \in Requests : tx'[q] = tx[q] \/ {tx[q].op, tx'[q].op} \cap (FileOps \cup CentreOps) = {},
           lastKey' \in lastKey .. MaxKeys, NEW new \in SUBSET (KeyIds' \ KeyIds), objects \subseteq objects',
           sent' = sent \cup new, staged' \subseteq staged \cup new, UNCHANGED <<refs, receiptOf, excused>>
    PROVE  FilesInv'
<1>1. KeysInv /\ SharedInv /\ AloneInv /\ PresentInv
  BY DEF FilesInv
<1>2. KeyIds \subseteq KeyIds' /\ lastKey' \in 0 .. MaxKeys /\ None \notin KeyIds
  BY <1>1, KeysAre DEF KeyIds
<1>3. ASSUME NEW q \in Requests
      PROVE  /\ FormKeysOf(tx'[q]) = FormKeysOf(tx[q]) /\ LibraryKeysOf(tx'[q]) = LibraryKeysOf(tx[q])
             /\ Hand(tx'[q]) = Hand(tx[q]) /\ (tx[q].op = "purge" \/ tx'[q].op \in {"purge", "file"} => tx'[q] = tx[q])
  BY DEF FileOps, CentreOps, FormKeysOf, LibraryKeysOf, Hand
<1>4. \A k : LibraryKey(k)' <=> LibraryKey(k)
  <2>1. \A k : LibraryKey(k)' <=> \/ \E f \in refs : f.kind \in Library /\ f.key = k
                                  \/ \E q \in Requests : k \in LibraryKeysOf(tx'[q])
    BY DEF LibraryKey, LibraryKeysOf
  <2> QED BY <1>3, <2>1 DEF LibraryKey
<1>5. ASSUME NEW k, FormKey(k)' PROVE FormKey(k) \/ k \in new
  <2>1. \/ k \in sent \cup new \/ (\E f \in FormRefs : f.key = k) \/ (k # None /\ \E l \in Lines : receiptOf[l] = k)
        \/ \E q \in Requests : k \in FormKeysOf(tx'[q])
    BY <1>5 DEF FormKey, FormRefs, FormKeysOf, KeysOf
  <2> QED BY <1>3, <2>1 DEF FormKey
<1>6. KeysInv'
  <2>1. sent' \cup staged' \subseteq KeyIds' /\ receiptOf' \in [Lines -> KeyIds' \cup {None}] /\ \A f \in refs' : f.key \in KeyIds'
    BY <1>1, <1>2 DEF KeysInv
  <2>2. ASSUME NEW q \in Requests
        PROVE  /\ tx'[q].op = "file" => FileForm(tx'[q], KeyIds')
               /\ LibraryKeysOf(tx'[q]) \subseteq KeyIds' /\ PurgeForm(tx'[q])
    <3>1. LibraryKeysOf(tx'[q]) \subseteq KeyIds'
      BY <1>1, <1>2, <1>3 DEF KeysInv
    <3>2. ASSUME tx'[q].op = "file" PROVE FileForm(tx'[q], KeyIds')
      <4>1. PICK t : t = tx'[q] /\ FileForm(t, KeyIds)
        BY <1>1, <1>3, <3>2 DEF KeysInv
      <4>2. FileForm(t, KeyIds')
        BY <1>2, <4>1, FileFormStays
      <4> QED BY <4>1, <4>2
    <3>3. PurgeForm(tx'[q])
      BY <1>1, <1>3 DEF KeysInv, PurgeForm
    <3> QED BY <3>1, <3>2, <3>3
  <2>3. \A k : ~(LibraryKey(k)' /\ FormKey(k)')
    BY <1>1, <1>4, <1>5, KeysAre
  <2>4. KeysInv' <=>
         /\ lastKey' \in 0 .. MaxKeys /\ sent' \cup staged' \subseteq KeyIds' /\ receiptOf' \in [Lines -> KeyIds' \cup {None}]
         /\ \A f \in refs' : f.key \in KeyIds'
         /\ \A q \in Requests : (tx'[q].op = "file" => FileForm(tx'[q], KeyIds')) /\ LibraryKeysOf(tx'[q]) \subseteq KeyIds'
         /\ \A q \in Requests : PurgeForm(tx'[q])
         /\ \A k \in KeyIds' : ~(LibraryKey(k)' /\ FormKey(k)')
    BY DEF KeysInv
  <2> QED BY <1>2, <2>1, <2>2, <2>3, <2>4, Zenon
<1>7. SharedInv'
  BY <1>1 DEF SharedInv, FormRefs
<1>8. AloneInv'
  <2> SUFFICES ASSUME NEW q \in Requests, tx'[q].op = "file", tx'[q].alone
               PROVE  /\ \A o \in Requests \ {q} : tx'[o].op # "purge" /\ FormKeysOf(tx'[o]) \cap KeysOf(tx'[q]) = {}
                      /\ Ready(tx[q])'
    BY DEF AloneInv, FormKeysOf, KeysOf
  <2>1. PICK u : u = tx[q] /\ u = tx'[q] /\ FileForm(u, KeyIds)
    BY <1>1, <1>3 DEF KeysInv
  <2>2. (\A o \in Requests \ {q} : tx[o].op # "purge" /\ FormKeysOf(tx[o]) \cap KeysOf(u) = {}) /\ Ready(u)
    BY <1>1, <2>1 DEF AloneInv
  <2>3. \A o \in Requests \ {q} : tx'[o].op # "purge" /\ FormKeysOf(tx'[o]) \cap KeysOf(u) = {}
    BY <1>3, <2>2
  <2>4. \A k \in KeysOf(u) : Still(k)
    BY DEF Still
  <2>5. Ready(u)'
    BY <2>1, <2>2, <2>4, ReadyStays
  <2> QED BY <2>1, <2>3, <2>5
<1>9. PresentInv'
  <2>1. \A k : k \in InHand => k \in InHand'
    BY <1>3, InHandIs
  <2>2. \A k : Safe(k) => Safe(k)'
    BY <2>1 DEF Safe
  <2>3. \A k : RefsTo("receipt", k)' = RefsTo("receipt", k)
    BY DEF RefsTo
  <2>4. \A f \in refs' : Safe(f.key)'
    BY <1>1, <2>2 DEF PresentInv
  <2>5. ASSUME NEW q \in Requests, NEW k, k \in LibraryKeysOf(tx'[q]) PROVE Safe(k)'
    <3>1. k \in LibraryKeysOf(tx[q]) /\ k \in KeyIds
      BY <1>1, <1>3, <2>5 DEF KeysInv
    <3> QED BY <1>1, <2>2, <3>1 DEF PresentInv
  <2>6. \A q \in Requests, k \in KeyIds' : k \in LibraryKeysOf(tx[q])' => Safe(k)'
    BY <2>5 DEF LibraryKeysOf
  <2>7. \A l \in Lines : receiptOf'[l] # None =>
            RefsTo("receipt", receiptOf[l])' # {} \/ receiptOf'[l] \in excused' \cup InHand'
    BY <1>1, <2>1 DEF PresentInv, RefsTo
  <2> QED BY <2>4, <2>6, <2>7 DEF PresentInv
<1> QED BY <1>6, <1>7, <1>8, <1>9 DEF FilesInv

LEMMA FilesInitially == Init => FilesInv
<1> SUFFICES ASSUME Init PROVE FilesInv
  OBVIOUS
<1>1. /\ objects = {} /\ refs = {} /\ sent = {} /\ staged = {} /\ lastKey = 0 /\ \A l \in Lines : receiptOf[l] = None
      /\ receiptOf = [l \in Lines |-> None] /\ \A q \in Requests : tx[q] = Idle
  BY DEF Init, FilesInit, PortalInit
<1>2. Idle.op = "none" /\ LibraryKeysOf(Idle) = {} /\ FormKeysOf(Idle) = {} /\ PurgeForm(Idle)
  BY DEF Idle, LibraryKeysOf, FormKeysOf, PurgeForm
<1>3. KeysInv
  <2>1. KeyIds = {} /\ MaxKeys \in Nat
    BY <1>1, FilesAssumption DEF KeyIds
  <2> QED BY <1>1, <1>2, <2>1 DEF KeysInv
<1>4. SharedInv /\ AloneInv
  BY <1>1, <1>2 DEF SharedInv, AloneInv, FormRefs
<1>5. PresentInv
  BY <1>1, <1>2 DEF PresentInv
<1> QED BY <1>3, <1>4, <1>5 DEF FilesInv

LEMMA FilesKeep == FilesInv /\ CentreInv /\ [Next]_vars => FilesInv'
<1> SUFFICES ASSUME FilesInv, CentreInv, [Next]_vars PROVE FilesInv'
  OBVIOUS
<1>1. Sane /\ KeysInv
  BY DEF CentreInv, FilesInv
<1>2. ASSUME UNCHANGED documentVars, Untouched(FileOps), Untouched(CentreOps) PROVE FilesInv'
  <2>1. UNCHANGED fileVars
    BY <1>2 DEF documentVars
  <2>2. PICK new : new = {}
    OBVIOUS
  <2>3. lastKey' \in lastKey .. MaxKeys /\ new \in SUBSET (KeyIds' \ KeyIds) /\ objects \subseteq objects' /\ sent' = sent \cup new
        /\ staged' \subseteq staged \cup new /\ UNCHANGED <<refs, receiptOf, excused>>
    BY <1>1, <2>1, <2>2 DEF fileVars, KeysInv
  <2>4. \A q \in Requests : tx'[q] = tx[q] \/ {tx[q].op, tx'[q].op} \cap (FileOps \cup CentreOps) = {}
    BY <1>2 DEF Untouched
  <2> QED BY <2>3, <2>4, FilesStay
<1>3. ASSUME NEW m, NEW c, uploadFile(m, c), tx' = tx PROVE FilesInv'
  <2>1. lastKey' = lastKey + 1 /\ lastKey < MaxKeys /\ objects' = objects \cup {lastKey + 1} /\ lastKey \in 0 .. MaxKeys
    BY <1>1, <1>3 DEF uploadFile, MakeObject, NewKey, KeysInv
  <2>2. PICK new : new = {lastKey + 1}
    OBVIOUS
  <2>3. lastKey' \in lastKey .. MaxKeys /\ new \in SUBSET (KeyIds' \ KeyIds)
    BY <2>1, <2>2, FilesAssumption DEF KeyIds
  <2>4. objects \subseteq objects' /\ sent' = sent \cup new /\ staged' \subseteq staged \cup new /\ UNCHANGED <<refs, receiptOf, excused>>
    BY <1>3, <2>1, <2>2 DEF uploadFile, NewKey
  <2> QED BY <1>3, <2>3, <2>4, FilesStay
<1> QED BY <1>1, <1>2, <1>3, DocumentsApart, FilesStepKeeps, CentreKeepsFiles

(* The file of every row is in the bucket and the receipt of every line is *)
(* there, unless a handler failed half way, two overlapped or two rows     *)
(* share it: no form, clean-up or purge takes the file of another.         *)
THEOREM FilesAlwaysThere == Spec => []FilesAreThere
<1>1. FilesInv => FilesAreThere
  BY DEF FilesInv, PresentInv, Safe, FilesAreThere, Opens
<1> QED BY CentreInitially, CentreKeep, FilesInitially, FilesKeep, <1>1, PTL DEF Spec

=============================================================================
