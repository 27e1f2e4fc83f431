------------------------ MODULE OrganizationCalendars ------------------------
(***************************************************************************)
(* The holidays of one year: its calendar, made when it is first asked     *)
(* for, and rows of a date, a branch or none, and a name.  An import       *)
(* overwrites the holiday of the same date and branch; a single holiday is *)
(* added beside it.  Branches are those of OrgSettings.                    *)
(***************************************************************************)
EXTENDS OrgSettings, Sequences

CONSTANTS
    Dates,          \* the dates of the year
    HolidayNames,
    MaxHolidays     \* bound: holiday rows that are ever made

ASSUME CalendarAssumption == MaxHolidays \in Nat

VARIABLES
    calendar,       \* the status of the calendar, None before it is made
    holidays,       \* the rows; the id of a row is its place
    imported        \* history: what the last import gave a date of a branch, None if another
                    \* handler changed it since or overlapped

calendarVars == <<calendar, holidays, imported>>

Keys == Dates \X (Locations \cup {None})
Items == [key : Keys, name : HolidayNames]

HolidayIds == {i \in DOMAIN holidays : holidays[i].live}
NameOfKey(h) == <<h.key, h.name>>    \* what the unique index compares; mutant of the match key
holidayMatchKey(h) == h.key
OnDate(h) == {i \in HolidayIds : holidayMatchKey(holidays[i]) = holidayMatchKey(h)}

(* UQ_calendar_holidays_cal_loc_date_name                                  *)
Distinct(hs) ==
    \A i, j \in DOMAIN hs : i # j /\ hs[i].live /\ hs[j].live => NameOfKey(hs[i]) # NameOfKey(hs[j])

assertLocationExists(key) == key[2] # None => key[2] \in locations

-----------------------------------------------------------------------------
StartHoliday(r, t) ==
    /\ Asked("calendar")
    /\ Begin(r, t)
    /\ UNCHANGED <<settingsVars, calendarVars>>

createHoliday(r, item) ==
    /\ assertLocationExists(item.key)
    /\ StartHoliday(r, [op |-> "holiday", pc |-> "calendar", item |-> item])

(* The last row of a file wins for its date and branch.                    *)
Deduped(file) ==
    {file[i] : i \in {j \in DOMAIN file :
                        \A k \in DOMAIN file : k > j => holidayMatchKey(file[k]) # holidayMatchKey(file[j])}}

bulkUpsertHolidays(r, file) ==
    /\ \A i \in DOMAIN file : assertLocationExists(file[i].key)
    /\ StartHoliday(r, [op |-> "import", pc |-> "calendar", items |-> Deduped(file),
                        keys |-> {file[i].key : i \in DOMAIN file}, over |-> <<>>, alone |-> FALSE])

publishCalendar(r) == Asked("publish") /\ StartHoliday(r, [op |-> "publish", pc |-> "calendar"])

updateHoliday(r, i, item) ==
    /\ Asked("changes")
    /\ i \in HolidayIds
    /\ item.key[2] # holidays[i].key[2] => assertLocationExists(item.key)
    /\ StartHoliday(r, [op |-> "change", pc |-> "save", id |-> i, item |-> item])
deleteHoliday(r, i) ==
    /\ Asked("changes")
    /\ i \in HolidayIds
    /\ StartHoliday(r, [op |-> "remove", pc |-> "save", id |-> i])

(* getOrCreateCalendar: of two that find none, one is refused by           *)
(* UQ_organization_calendars_org_year.                                     *)
FindCalendar(r) ==
    /\ tx[r].op \in {"holiday", "import", "publish"} /\ tx[r].pc = "calendar"
    /\ Goes(r, [tx[r] EXCEPT !.pc = IF calendar = None THEN "make" ELSE "save"])
    /\ UNCHANGED <<settingsVars, calendarVars>>
MakeCalendar(r) ==
    /\ tx[r].pc = "make" /\ calendar = None
    /\ calendar' = "DRAFT"
    /\ Goes(r, [tx[r] EXCEPT !.pc = "save"])
    /\ UNCHANGED <<settingsVars, holidays, imported>>

PublishCalendar(r) ==
    /\ At(r, "publish", "save")
    /\ calendar' = "PUBLISHED"
    /\ Ends(r)
    /\ UNCHANGED <<settingsVars, holidays, imported>>

-----------------------------------------------------------------------------
NewHoliday(item) == [key |-> item.key, name |-> item.name, live |-> TRUE]

(* The dates that a write takes a holiday from or gives one.  An import    *)
(* that has read them already overlaps with it.                            *)
KeyAt(hs, i) == IF i \in DOMAIN hs THEN {hs[i].key} ELSE {}
Written(hs) ==
    UNION {KeyAt(holidays, i) \cup KeyAt(hs, i) :
             i \in {j \in DOMAIN hs : j \notin DOMAIN holidays \/ holidays[j] # hs[j]}}
EndsWriting(r) ==
    /\ tx' = [q \in Requests |->
                IF q = r THEN Idle
                ELSE IF At(q, "import", "write") /\ tx[q].keys \cap Written(holidays') # {}
                THEN [tx[q] EXCEPT !.alone = FALSE] ELSE tx[q]]
    /\ UNCHANGED <<scenario, today, settingsVars, calendar>>

WriteHolidays(r, hs) ==
    /\ Len(hs) <= MaxHolidays /\ Distinct(hs)
    /\ holidays' = hs
    /\ imported' = [k \in Keys |-> IF k \in Written(hs) THEN None ELSE imported[k]]
    /\ EndsWriting(r)

SaveHoliday(r) == At(r, "holiday", "save") /\ WriteHolidays(r, Append(holidays, NewHoliday(tx[r].item)))
(* The save of a row that was removed meanwhile restores it.               *)
ChangeHoliday(r) ==
    At(r, "change", "save") /\ WriteHolidays(r, [holidays EXCEPT ![tx[r].id] = NewHoliday(tx[r].item)])
RemoveHoliday(r) ==
    At(r, "remove", "save") /\ WriteHolidays(r, [holidays EXCEPT ![tx[r].id].live = FALSE])

(* The transaction of an import reads the rows, then saves each item over  *)
(* a row of its date and branch or as a new one.                           *)
ReadHolidays(r) ==
    /\ At(r, "import", "save")
    /\ \E over \in [tx[r].items -> HolidayIds \cup {None}] :
          /\ \A item \in tx[r].items : IF OnDate(item) = {} THEN over[item] = None ELSE over[item] \in OnDate(item)
          /\ Goes(r, [tx[r] EXCEPT !.pc = "write", !.over = over, !.alone = TRUE])
    /\ UNCHANGED <<settingsVars, calendarVars>>

Overwritten(t) ==
    [i \in DOMAIN holidays |->
        IF \E item \in t.items : t.over[item] = i
        THEN NewHoliday(CHOOSE item \in t.items : t.over[item] = i) ELSE holidays[i]]

ImportHolidays(r) ==
    LET t == tx[r]
        new == {item \in t.items : t.over[item] = None} IN
    /\ At(r, "import", "write")
    /\ \E order \in {f \in [1 .. Cardinality(new) -> new] : \A x \in new : \E n \in DOMAIN f : f[n] = x} :
          holidays' = Overwritten(t) \o [n \in DOMAIN order |-> NewHoliday(order[n])]
    /\ Len(holidays') <= MaxHolidays /\ Distinct(holidays')
    /\ imported' = [k \in Keys |->
                      IF k \in t.keys /\ t.alone /\ Cardinality({i \in HolidayIds : holidays[i].key = k}) <= 1
                      THEN (CHOOSE item \in t.items : item.key = k).name
                      ELSE IF k \in Written(holidays') THEN None ELSE imported[k]]
    /\ EndsWriting(r)

FailHoliday(r) ==
    /\ tx[r].op \in {"holiday", "import", "publish", "change", "remove"}
    /\ Ends(r)
    /\ UNCHANGED <<settingsVars, calendarVars>>

-----------------------------------------------------------------------------
CalendarInit ==
    /\ calendar = IF Asked("changes") THEN "PUBLISHED" ELSE None
    /\ holidays = <<>> /\ imported = [k \in Keys |-> None]

(* Files of one row, and of two where nothing but files is looked at.      *)
Files == {<<x>> : x \in Items} \cup (IF Asked("changes") THEN {} ELSE Items \X Items)

CalendarStep(r) ==
    \/ \E item \in Items : createHoliday(r, item)
    \/ \E file \in Files : bulkUpsertHolidays(r, file)
    \/ \E i \in HolidayIds : deleteHoliday(r, i) \/ \E item \in Items : updateHoliday(r, i, item)
    \/ publishCalendar(r) \/ FindCalendar(r) \/ MakeCalendar(r) \/ PublishCalendar(r)
    \/ SaveHoliday(r) \/ ChangeHoliday(r) \/ RemoveHoliday(r)
    \/ ReadHolidays(r) \/ ImportHolidays(r) \/ FailHoliday(r)

-----------------------------------------------------------------------------
(* findPublishedHolidaysInRange, for the employees of a branch.            *)
appliesToLocation(h, l) == h.key[2] = None \/ l = None \/ h.key[2] = l
findPublishedHolidays(date, l) ==
    IF calendar # "PUBLISHED" THEN {}
    ELSE {i \in HolidayIds : holidays[i].key[1] = date /\ appliesToLocation(holidays[i], l)}

(* "Last row wins for same date+location": a date of a branch that had one *)
(* holiday at most has, after an import that no other handler overlapped,  *)
(* the one holiday that import gave it, and its employees see that once    *)
(* the calendar is published, until another handler changes the date.      *)
ImportsHold ==
    \A k \in Keys : imported[k] # None =>
        \E i \in HolidayIds :
            /\ {j \in HolidayIds : holidays[j].key = k} = {i}
            /\ holidays[i].name = imported[k]
            /\ calendar = "PUBLISHED" => i \in findPublishedHolidays(k[1], k[2])

=============================================================================
