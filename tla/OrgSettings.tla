---------------------------- MODULE OrgSettings -----------------------------
(***************************************************************************)
(* Branches, and the shifts and leave types that belong to one each, saved *)
(* as whole lists in one transaction apiece; and the shifts of before,     *)
(* which were one JSON setting and move to their table when they are read  *)
(* first.                                                                  *)
(***************************************************************************)
EXTENDS PortalHandlers

CONSTANTS
    Locations, LeaveTypes,
    Shapes,         \* what else there is to a shift: its name and its times
    OldShifts,      \* the shifts in the setting, at first: None for a branch that is not named
    MaxShifts       \* bound: shift rows that are ever made

ASSUME SettingsAssumption ==
    /\ MaxShifts \in Nat /\ None \notin Locations \cup OldShifts
    /\ OldShifts \subseteq [shape : Shapes, location : Locations \cup {None}]

VARIABLES
    locations,      \* locations_configurations
    shifts,         \* work_shift_configurations
    lastShift,      \* ids are new
    legacy,         \* the setting attendance.shifts
    leaveTypes,     \* leave type -> branch, None if there is no such type
    inUse,          \* the leave types that balances or requests refer to
    migrated,       \* history: shifts of before that were moved, and that no list has replaced since
    doubled         \* history: shifts of before that two readers moved

settingsVars == <<locations, shifts, lastShift, legacy, leaveTypes, inUse, migrated, doubled>>

Row(id, item, from) == [id |-> id, shape |-> item.shape, location |-> item.location, moved |-> from]
Moved(item) == {s \in shifts : s.moved = item}
Configured == {l \in LeaveTypes : leaveTypes[l] # None}

(* Ids for new rows, in some order.                                        *)
Numbered(items) ==
    LET order == CHOOSE f \in [items -> 1 .. Cardinality(items)] :
                    \A x, y \in items : f[x] = f[y] => x = y
    IN  {Row(lastShift + order[x], x, x) : x \in items}

-----------------------------------------------------------------------------
(* getAttendanceSettings: resolveShifts looks at the setting, counts the   *)
(* rows, counts them again in migrateJsonShiftsToDatabase, then moves.     *)
getAttendanceSettings(r) ==
    /\ Asked("shifts") /\ legacy # {}
    /\ Begin(r, [op |-> "move", pc |-> "count", items |-> legacy])
    /\ UNCHANGED settingsVars

Migrates == shifts = {}

resolveShifts(r) ==
    /\ At(r, "move", "count")
    /\ IF Migrates THEN Goes(r, [tx[r] EXCEPT !.pc = "save"]) ELSE Ends(r)
    /\ UNCHANGED settingsVars

(* A shift that names no branch is left out; the setting is emptied.       *)
StillThere(items) == legacy                         \* mutant: the setting is not saved
LeftInSetting(items) == {}

migrateJsonShiftsToDatabase(r) ==
    LET items == {x \in tx[r].items : x.location # None} IN
    /\ At(r, "move", "save")
    /\ lastShift + Cardinality(items) <= MaxShifts
    /\ {x.location : x \in items} \subseteq locations
    /\ shifts' = shifts \cup Numbered(items)
    /\ lastShift' = lastShift + Cardinality(items)
    /\ legacy' = LeftInSetting(items)
    /\ migrated' = migrated \cup (tx[r].items \cap legacy)
    /\ doubled' = doubled \cup (tx[r].items \ legacy)
    /\ Ends(r)
    /\ UNCHANGED <<locations, leaveTypes, inUse>>

-----------------------------------------------------------------------------
(* updateAttendanceSettings: the branches are checked before the           *)
(* transaction; each shift of the list has the id of a row or none.        *)
updateAttendanceSettings(r, list) ==
    /\ Asked("shifts")
    /\ {x.location : x \in list} \subseteq locations
    /\ Begin(r, [op |-> "shifts", pc |-> "read", list |-> list, seen |-> {}])
    /\ UNCHANGED settingsVars

ReadShifts(r) ==
    /\ At(r, "shifts", "read")
    /\ Goes(r, [tx[r] EXCEPT !.pc = "save", !.seen = shifts])
    /\ UNCHANGED settingsVars

Kept(t) == {x \in t.list : x.id # None}
Origin(x) == IF \E s \in shifts : s.id = x.id THEN (CHOOSE s \in shifts : s.id = x.id).moved ELSE None
SaveShifts(r) ==
    LET t == tx[r]
        new == {x \in t.list : x.id = None}
        gone == {s \in shifts : \E o \in t.seen \cup t.list : o.id = s.id} IN
    /\ At(r, "shifts", "save")
    /\ lastShift + Cardinality(new) <= MaxShifts
    /\ {x.location : x \in t.list} \subseteq locations
    /\ shifts' = (shifts \ gone)
                    \cup {Row(x.id, x, Origin(x)) : x \in Kept(t)}
                    \cup {Row(lastShift + 1, x, None) : x \in new}
    /\ lastShift' = lastShift + Cardinality(new)
    /\ legacy' = {}
    /\ migrated' = migrated \ {s.moved : s \in gone}
    /\ Ends(r)
    /\ UNCHANGED <<locations, leaveTypes, inUse, doubled>>

-----------------------------------------------------------------------------
(* updateLocationConfigurations: a branch in use is refused by the check,  *)
(* and one that came into use since by the foreign keys.                   *)
UsedBranches == {s.location : s \in shifts} \cup {leaveTypes[l] : l \in Configured}
NoForeignKeys == {}                                 \* mutant: ON DELETE CASCADE on neither
Restricting == UsedBranches

updateLocationConfigurations(r, list) ==
    /\ Asked("branches")
    /\ Begin(r, [op |-> "locations", pc |-> "check", list |-> list, gone |-> {}])
    /\ UNCHANGED settingsVars

CheckBranches(r) ==
    /\ At(r, "locations", "check")
    /\ (locations \ tx[r].list) \cap UsedBranches = {}
    /\ Goes(r, [tx[r] EXCEPT !.pc = "save", !.gone = locations \ tx[r].list])
    /\ UNCHANGED settingsVars

SaveBranches(r) ==
    /\ At(r, "locations", "save")
    /\ tx[r].gone \cap Restricting = {}
    /\ locations' = (locations \ tx[r].gone) \cup tx[r].list
    /\ Ends(r)
    /\ UNCHANGED <<shifts, lastShift, legacy, leaveTypes, inUse, migrated, doubled>>

(* updateLeaveConfigurations                                               *)
updateLeaveConfigurations(r, list) ==
    /\ Asked("leave types")
    /\ {list[l] : l \in LeaveTypes} \subseteq locations \cup {None}
    /\ Begin(r, [op |-> "leaves", pc |-> "read", list |-> list, seen |-> {}])
    /\ UNCHANGED settingsVars

ReadLeaveTypes(r) ==
    /\ At(r, "leaves", "read")
    /\ Goes(r, [tx[r] EXCEPT !.pc = "save", !.seen = Configured])
    /\ UNCHANGED settingsVars

SaveLeaveTypes(r) ==
    LET t == tx[r] IN
    /\ At(r, "leaves", "save")
    /\ \A l \in t.seen \cap inUse : t.list[l] # None
    /\ \A l \in LeaveTypes : t.list[l] \in locations \cup {None}
    /\ leaveTypes' = [l \in LeaveTypes |->
                        IF t.list[l] = None /\ l \notin t.seen THEN leaveTypes[l] ELSE t.list[l]]
    /\ Ends(r)
    /\ UNCHANGED <<locations, shifts, lastShift, legacy, inUse, migrated, doubled>>

requestLeave(l) ==
    /\ Asked("leave types") /\ l \in Configured \ inUse
    /\ inUse' = inUse \cup {l}
    /\ UNCHANGED <<portalVars, locations, shifts, lastShift, legacy, leaveTypes, migrated, doubled>>

FailSettings(r) ==
    /\ tx[r].op \in {"move", "shifts", "locations", "leaves"}
    /\ Ends(r)
    /\ UNCHANGED settingsVars

-----------------------------------------------------------------------------
SettingsInit ==
    /\ locations = Locations /\ shifts = {} /\ lastShift = 0 /\ legacy = OldShifts
    /\ leaveTypes = [l \in LeaveTypes |-> None] /\ inUse = {} /\ migrated = {} /\ doubled = {}

ShiftLists ==
    {{}} \cup {{x} : x \in [id : {None} \cup {s.id : s \in shifts}, shape : Shapes, location : Locations]}

SettingsStep(r) ==
    \/ getAttendanceSettings(r) \/ resolveShifts(r) \/ migrateJsonShiftsToDatabase(r)
    \/ \E list \in ShiftLists : updateAttendanceSettings(r, list)
    \/ ReadShifts(r) \/ SaveShifts(r)
    \/ \E list \in SUBSET Locations : updateLocationConfigurations(r, list)
    \/ CheckBranches(r) \/ SaveBranches(r)
    \/ \E list \in [LeaveTypes -> Locations \cup {None}] : updateLeaveConfigurations(r, list)
    \/ ReadLeaveTypes(r) \/ SaveLeaveTypes(r) \/ FailSettings(r)

-----------------------------------------------------------------------------
(* "One-time migration": the first reader of the settings takes every      *)
(* shift from the setting.  One that names a branch has exactly one row    *)
(* then, until a list is saved that replaces the row.  One that names none *)
(* is lost: it has no row, and no longer is in the setting.  No shift has  *)
(* a row as long as it is in the setting, or ever has two.  All that       *)
(* unless two readers, or a reader and a saved list, took it at once.      *)
OldShiftsMoveOnce ==
    \A x \in OldShifts \ doubled :
        /\ Cardinality(Moved(x)) <= (IF x \in legacy THEN 0 ELSE 1)
        /\ x \in migrated => x \notin legacy /\ Cardinality(Moved(x)) = (IF x.location = None THEN 0 ELSE 1)

(* Every shift and every leave type belongs to a branch that exists,       *)
(* however saves of the lists overlap; a type that is in use stays.        *)
BranchesExist ==
    /\ UsedBranches \subseteq locations
    /\ inUse \subseteq Configured

=============================================================================
