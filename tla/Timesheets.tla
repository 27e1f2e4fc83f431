----------------------------- MODULE Timesheets -----------------------------
(***************************************************************************)
(* The timesheet of one employee: for each day a row with a status and a   *)
(* total, and the entries the total is made of.  The employee saves,       *)
(* submits and reopens a day; reviewers approve it, alone or with others,  *)
(* or reject it.  A save runs in a transaction; the others keep the row    *)
(* they read, while they look up what they may see, and save it then.      *)
(***************************************************************************)
EXTENDS Naturals, FiniteSets, Persistence

CONSTANTS
    Days,       \* the days that can be filled in
    Requests,   \* handlers that may be running at the same time
    Saves,      \* bound: saves whose entries are in the database or in memory
    Form,       \* what each save sends
    MaxHours,   \* settings.maxHoursPerDay
    None        \* no day, no save

(* The hours of the entries, and whether the day is to be submitted.  No   *)
(* entry is without hours.                                                 *)
FormType == [hours : Nat, submit : BOOLEAN]

ASSUME TimesheetAssumption ==
    /\ Form \in [Saves -> FormType]
    /\ MaxHours \in Nat
    /\ None \notin Days \cup Saves

VARIABLES
    day,        \* timesheet_days: the committed rows
    entries,    \* timesheet_entries: the saves whose entries each day has
    tx,         \* the handlers that are running
    stale       \* history: the days saved on something outdated

vars == <<day, entries, tx, stale>>

Row(status, total, submitted) == [status |-> status, total |-> total, submitted |-> submitted]
NoDay == Row("NONE", 0, FALSE)
NoTx  == [op |-> "none", pc |-> "idle", todo |-> {}, day |-> None, save |-> None,
          row |-> NoDay, memory |-> {}, loaded |-> NoDay, rows |-> {}, outdated |-> FALSE]

EDITABLE_STATUSES == {"DRAFT", "REJECTED"}
EntriesOf(s) == IF Form[s].hours = 0 THEN {} ELSE {s}

-----------------------------------------------------------------------------
(* What a handler reads first, and what it changes in memory.              *)

Begin(r, t) ==
    /\ tx[r].pc = "idle"
    /\ tx' = [tx EXCEPT ![r] = t]
    /\ UNCHANGED <<day, entries, stale>>

Continue(r, t) ==
    /\ tx' = [tx EXCEPT ![r] = t]
    /\ UNCHANGED <<day, entries, stale>>

(* A handler that has read day d with its entries, or without.             *)
Handler(op, todo, d, s, row, memory) ==
    [op |-> op, pc |-> "load", todo |-> todo, day |-> d, save |-> s, row |-> row,
     memory |-> memory, loaded |-> NoDay, rows |-> {}, outdated |-> FALSE]

Fresh(s) ==
    /\ \A d \in Days : s \notin entries[d]
    /\ \A q \in Requests : tx[q].save # s /\ s \notin tx[q].memory \cup tx[q].rows

Submittable(s) == Form[s].submit => Form[s].hours > 0 /\ Form[s].hours <= MaxHours

SavedRow(s) ==
    Row(IF Form[s].submit THEN "SUBMITTED" ELSE "DRAFT", Form[s].hours, Form[s].submit)

upsertDay(r, d, s) ==
    /\ Submittable(s) /\ Fresh(s)
    /\ day[d].status \in EDITABLE_STATUSES \/ day[d] = NoDay
    /\ Begin(r, Handler(IF day[d] = NoDay THEN "insert" ELSE "save",
                        {}, d, s, SavedRow(s), entries[d]))

reopenDay(r, d) ==
    /\ day[d].status = "SUBMITTED"
    /\ Begin(r, Handler("reopen", {}, d, None,
                        Row("DRAFT", day[d].total, FALSE), entries[d]))

rejectTimesheetDay(r, d) ==
    /\ day[d].status = "SUBMITTED"
    /\ Begin(r, Handler("reject", {}, d, None,
                        Row("REJECTED", day[d].total, day[d].submitted), {}))

(* One day is approved like many.  A day that is not submitted is skipped, *)
(* and the handler goes on with the next.                                  *)
Approval(todo) ==
    [op |-> "approve", pc |-> "next", todo |-> todo, day |-> None, save |-> None,
     row |-> NoDay, memory |-> {}, loaded |-> NoDay, rows |-> {}, outdated |-> FALSE]
Rest(todo) == IF todo = {} THEN NoTx ELSE Approval(todo)

approveTimesheetDaysBulk(r, dayIds) == dayIds # {} /\ Begin(r, Approval(dayIds))

getApprovableDay(r, d) ==
    LET t == tx[r]  rest == t.todo \ {d} IN
    /\ t.pc = "next" /\ d \in t.todo
    /\ Continue(r, IF day[d].status = "SUBMITTED"
                   THEN Handler("approve", rest, d, None,
                                Row("APPROVED", day[d].total, day[d].submitted), {})
                   ELSE Rest(rest))

-----------------------------------------------------------------------------
(* save(day).  The row is loaded again, and with the entries in memory the *)
(* entries it has.  One of those that memory lacks would lose its day,     *)
(* which the column forbids; one that only memory has is inserted again.   *)

EntriesIgnored(t) == TRUE       \* mutant: no cascade to the entries
NoneOrphaned(t) == t.op \in {"save", "reopen"} => entries[t.day] \subseteq t.memory

LoadDay(r) ==
    LET t == tx[r] IN
    /\ t.pc = "load"
    /\ NoneOrphaned(t)
    /\ Continue(r, [t EXCEPT !.pc = "update", !.loaded = day[t.day],
                             !.rows = t.memory \ entries[t.day]])

(* Approval, rejection and submission note the time, so that they always   *)
(* write the row; a draft with the same total as before does not.          *)
Writes(t) ==
    \/ t.op \in {"insert", "approve", "reject"}
    \/ t.op = "save" /\ Form[t.save].submit
    \/ t.row # t.loaded

(* The row lock, or the unique key of an uncommitted row.                  *)
Holds(q, d) == tx[q].pc \in {"replace", "commit"} /\ tx[q].day = d /\ Writes(tx[q])
Unlocked(r, d) == \A q \in Requests \ {r} : ~Holds(q, d)

UpdateDay(r) ==
    LET t == tx[r] IN
    /\ t.pc = "update" /\ t.op \in {"save", "insert"}
    /\ Writes(t) => Unlocked(r, t.day)
    /\ t.op = "insert" => day[t.day] = NoDay
    /\ t.rows \cap entries[t.day] = {}
    /\ Continue(r, [t EXCEPT !.pc = "replace"])

(* The entries that are committed by now are deleted, then the new ones    *)
(* are inserted one by one.                                                *)
DeleteEntries(r) ==
    /\ tx[r].pc = "replace"
    /\ Continue(r, [tx[r] EXCEPT !.pc = "commit", !.rows = entries[tx[r].day]])

-----------------------------------------------------------------------------
(* COMMIT, after which the other handlers of the day are outdated, except  *)
(* those that save: they are from the time they load the row again.        *)

Outdated(q, d) ==
    tx[q].day = d /\ ~(tx[q].op \in {"save", "insert"} /\ tx[q].pc = "load")

Commit(r) ==
    LET t == tx[r] IN
    /\ tx' = [q \in Requests |->
                IF q = r THEN Rest(t.todo)
                ELSE IF Outdated(q, t.day) THEN [tx[q] EXCEPT !.outdated = TRUE]
                ELSE tx[q]]
    /\ stale' = [stale EXCEPT ![t.day] = @ \/ t.outdated]
    /\ day'   = [day EXCEPT ![t.day] = IF t.op = "insert" THEN t.row
                                       ELSE SaveOver(@, t.row, t.loaded)]

EntriesKept(t) == entries[t.day] \cup EntriesOf(t.save)  \* mutant: none is deleted
Replaced(t)    == (entries[t.day] \ t.rows) \cup EntriesOf(t.save)

CommitSave(r) ==
    /\ tx[r].pc = "commit"
    /\ entries' = [entries EXCEPT ![tx[r].day] = Replaced(tx[r])]
    /\ Commit(r)

(* The other handlers save in one statement of their own.                  *)
SaveStatus(r) ==
    LET t == tx[r] IN
    /\ t.pc = "update" /\ t.op \notin {"save", "insert"}
    /\ Writes(t) => Unlocked(r, t.day)
    /\ t.rows \cap entries[t.day] = {}
    /\ entries' = [entries EXCEPT ![t.day] = @ \cup t.rows]
    /\ Commit(r)

(* An exception ends the request, or the work on one day of many.          *)
Fail(r) ==
    /\ tx[r].pc # "idle"
    /\ Continue(r, IF tx[r].pc = "next" THEN NoTx ELSE Rest(tx[r].todo))

-----------------------------------------------------------------------------
Init ==
    /\ day     = [d \in Days |-> NoDay]
    /\ entries = [d \in Days |-> {}]
    /\ tx      = [r \in Requests |-> NoTx]
    /\ stale   = [d \in Days |-> FALSE]

Next ==
    \E r \in Requests :
        \/ \E d \in Days :
            \/ \E s \in Saves : upsertDay(r, d, s)
            \/ reopenDay(r, d) \/ rejectTimesheetDay(r, d) \/ getApprovableDay(r, d)
        \/ \E dayIds \in SUBSET Days : approveTimesheetDaysBulk(r, dayIds)
        \/ LoadDay(r) \/ UpdateDay(r) \/ DeleteEntries(r)
        \/ CommitSave(r) \/ SaveStatus(r)
        \/ Fail(r)

Spec == Init /\ [][Next]_vars

-----------------------------------------------------------------------------
(* Properties.                                                             *)

Statuses == {"NONE", "DRAFT", "SUBMITTED", "APPROVED", "REJECTED"}
RowType  == [status : Statuses, total : Nat, submitted : BOOLEAN]
TxType   == [op : {"none", "save", "insert", "reopen", "reject", "approve"},
             pc : {"idle", "next", "load", "update", "replace", "commit"},
             todo : SUBSET Days, day : Days \cup {None}, save : Saves \cup {None},
             row : RowType, memory : SUBSET Saves, loaded : RowType,
             rows : SUBSET Saves, outdated : BOOLEAN]

(* Rows and handlers hold values of their columns' types.                  *)
TypeOK ==
    /\ day     \in [Days -> RowType]
    /\ entries \in [Days -> SUBSET Saves]
    /\ tx      \in [Requests -> TxType]
    /\ stale   \in [Days -> BOOLEAN]

(* Unless a handler that is outdated saves the day, what it shows is what  *)
(* one save sent: its entries and no others, their total, and a day that   *)
(* waits for review, was approved or rejected was submitted by that save,  *)
(* with entries and within the daily limit.                                *)
ShowsSave(d, s) ==
    /\ entries[d] = EntriesOf(s)
    /\ day[d].total = Form[s].hours
    /\ day[d].status # "DRAFT" => Form[s].submit /\ Form[s].hours \in 1..MaxHours
    /\ day[d].submitted <=> day[d].status # "DRAFT"

DayIsOneSave ==
    \A d \in Days : ~stale[d] =>
        IF day[d] = NoDay THEN entries[d] = {} ELSE \E s \in Saves : ShowsSave(d, s)

(* ... and once approved it stays so, with its entries: the saves that     *)
(* check the status long before they write it find other entries then.     *)
ApprovedIsFinal ==
    [][\A d \in Days : day[d].status = "APPROVED" /\ ~stale'[d] =>
            day'[d] = day[d] /\ entries'[d] = entries[d]]_vars

(* API_INVENTORY.md on reopening: approved days are rejected by the        *)
(* service.  An approved day stays approved.                               *)
ApprovedStaysApproved ==
    [][\A d \in Days : day[d].status = "APPROVED" => day'[d].status = "APPROVED"]_vars

(* API_INVENTORY.md on saving: creates or replaces the day's entries.  A   *)
(* day never shows the entries of two saves.                               *)
EntriesOfOneSave == \A d \in Days : Cardinality(entries[d]) <= 1

=============================================================================
