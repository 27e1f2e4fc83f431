-------------------------- MODULE Timesheets_proofs --------------------------
(***************************************************************************)
(* What holds of Timesheets for every value of its constants: unless an    *)
(* outdated handler saves a day, it shows what one save sent, and once     *)
(* approved it does not change.                                            *)
(***************************************************************************)
EXTENDS Timesheets, TLAPS

USE TimesheetAssumption DEF FormType

-----------------------------------------------------------------------------
(* The inductive invariant.                                                *)

Saving(t)   == t.op \in {"save", "insert"}
Deciding(t) == t.op \in {"reopen", "reject", "approve"}
AtWork(t)   == t.pc \in {"load", "update", "replace", "commit"}
Editable(d) == day[d].status \in EDITABLE_STATUSES

(* A handler that is idle, or between two days, is none of those below.    *)
Shape(r) == LET t == tx[r] IN
    /\ t.pc \notin {"idle", "next"} <=> t.day # None
    /\ AtWork(t) => (Saving(t) \/ Deciding(t)) /\ t.row.status # "NONE"
    /\ t.pc \in {"replace", "commit"} => Saving(t)
    /\ Saving(t) /\ t.pc = "load" => ~t.outdated
    /\ ~AtWork(t) => t.save = None /\ t.memory = {} /\ t.rows = {} /\ ~Saving(t)

(* A save has a form that may be sent, and is to write that.               *)
Sends(r) == LET t == tx[r] IN
    Saving(t) =>
        /\ t.save # None /\ Submittable(t.save)
        /\ t.row.status = IF Form[t.save].submit THEN "SUBMITTED" ELSE "DRAFT"
        /\ t.row.total = Form[t.save].hours
        /\ t.row.submitted = Form[t.save].submit

(* Its entries are not in the database yet, nor in memory as some that are.*)
Uncommitted(r) ==
    tx[r].save # None =>
        /\ \A d \in Days : tx[r].save \notin entries[d]
        /\ \A q \in Requests : tx[r].save \notin tx[q].memory \cup tx[q].rows
        /\ \A q \in Requests \ {r} : tx[q].save # tx[r].save

(* All but the first save of a day work on a row that is there; the first  *)
(* is alone once it has inserted it.                                       *)
Rows(r) == LET t == tx[r] IN
    /\ AtWork(t) /\ t.op # "insert" => day[t.day].status # "NONE"
    /\ t.op = "insert" /\ t.pc \in {"replace", "commit"} =>
            /\ day[t.day].status = "NONE"
            /\ \A q \in Requests \ {r} :
                    ~(tx[q].op = "insert" /\ tx[q].pc \in {"replace", "commit"}
                        /\ tx[q].day = t.day)

(* What is in memory of a day that is not outdated is what is committed.   *)
Loaded(t) ==
    /\ t.loaded.status = day[t.day].status
    /\ t.loaded.total = day[t.day].total
    /\ t.loaded.submitted = day[t.day].submitted

Verdict(op, status) ==
    /\ op = "reopen"  => status = "DRAFT"
    /\ op = "reject"  => status = "REJECTED"
    /\ op = "approve" => status = "APPROVED"

Current(r) == LET t == tx[r]  d == tx[r].day IN
    AtWork(t) /\ ~t.outdated /\ ~stale[d] =>
        /\ t.op = "save" /\ t.pc = "load" => Editable(d) \/ ~(entries[d] \subseteq t.memory)
        /\ t.op = "save" /\ t.pc # "load" => Editable(d) /\ Loaded(t)
        /\ t.op = "save" /\ t.pc = "commit" => t.rows = entries[d]
        /\ Deciding(t) =>
                /\ day[d].status = "SUBMITTED"
                /\ Verdict(t.op, t.row.status)
                /\ t.row.total = day[d].total
                /\ t.row.submitted <=> (t.op # "reopen" /\ day[d].submitted)
                /\ t.memory \subseteq entries[d]
                /\ t.rows = {}
                /\ t.pc = "update" => Loaded(t)

EmptyDays == \A d \in Days : day[d].status = "NONE" => day[d] = NoDay /\ entries[d] = {}

IInv ==
    /\ TypeOK
    /\ EmptyDays
    /\ \A r \in Requests : Shape(r) /\ Sends(r) /\ Uncommitted(r) /\ Rows(r) /\ Current(r)
    /\ DayIsOneSave

-----------------------------------------------------------------------------
(* Steps that change only what one handler holds in memory.                *)

Mine(r) == Shape(r) /\ Sends(r) /\ Uncommitted(r) /\ Rows(r) /\ Current(r)

Inserted(t, d) == t.op = "insert" /\ t.pc \in {"replace", "commit"} /\ t.day = d

LEMMA ContinuePreserves ==
    ASSUME IInv, NEW r \in Requests, NEW t \in TxType, Continue(r, t),
           Mine(r)',
           \A q \in Requests \ {r} :
               /\ tx[q].save # None => tx[q].save \notin t.memory \cup t.rows \cup {t.save}
               /\ \A d \in Days : ~(Inserted(tx[q], d) /\ Inserted(t, d))
    PROVE  IInv'
<1>1. /\ tx' = [tx EXCEPT ![r] = t]
      /\ day' = day /\ entries' = entries /\ stale' = stale
    BY DEF Continue
<1>2. tx'[r] = t /\ \A q \in Requests \ {r} : tx'[q] = tx[q]
    BY <1>1 DEF IInv, TypeOK
<1>3. TypeOK'
    BY <1>1 DEF IInv, TypeOK
<1>4. EmptyDays' /\ DayIsOneSave'
    BY <1>1 DEF IInv, EmptyDays, DayIsOneSave, ShowsSave
<1>5. ASSUME NEW q \in Requests \ {r} PROVE Mine(q)'
    <2>1. tx'[q] = tx[q] /\ tx[q] \in TxType
        BY <1>2 DEF IInv, TypeOK
    <2>2. Shape(q)' /\ Sends(q)'
        BY <2>1 DEF IInv, Shape, Sends, AtWork, Saving, Deciding
    <2>3. Uncommitted(q)'
        BY <2>1, <1>1, <1>2 DEF IInv, Uncommitted
    <2>4. Rows(q)'
        <3>1. AtWork(tx[q]) => tx[q].day \in Days
            BY <2>1 DEF IInv, Shape, AtWork, TxType
        <3>2. Rows(q)
            BY DEF IInv
        <3> QED BY <3>1, <3>2, <2>1, <1>1, <1>2 DEF Rows, AtWork, Inserted
    <2>5. Current(q)'
        BY <2>1, <1>1 DEF IInv, Current, AtWork, Deciding, Editable, Loaded
    <2> QED BY <2>2, <2>3, <2>4, <2>5 DEF Mine
<1> QED BY <1>3, <1>4, <1>5 DEF IInv, Mine

LEMMA UpsertPreserves ==
    ASSUME IInv, NEW r \in Requests, NEW d \in Days, NEW s \in Saves, upsertDay(r, d, s)
    PROVE  IInv'
<1> DEFINE w == SavedRow(s)
           new == IF day[d] = NoDay THEN "insert" ELSE "save"
           t == [op |-> new, pc |-> "load", todo |-> {}, day |-> d, save |-> s,
                 row |-> w, memory |-> entries[d], loaded |-> NoDay, rows |-> {},
                 outdated |-> FALSE]
<1>1. Submittable(s) /\ Fresh(s) /\ (Editable(d) \/ day[d] = NoDay)
    BY DEF upsertDay, Editable
<1>2. Begin(r, t)
    BY DEF upsertDay, Handler
<1>3. Continue(r, t) /\ tx[r].pc = "idle"
    BY <1>2 DEF Begin, Continue
<1>4. /\ w \in RowType /\ NoDay \in RowType
      /\ w.status = IF Form[s].submit THEN "SUBMITTED" ELSE "DRAFT"
      /\ w.total = Form[s].hours /\ w.submitted = Form[s].submit
    BY DEF SavedRow, Row, NoDay, RowType, Statuses
<1> HIDE DEF w
<1>5. entries[d] \in SUBSET Saves
    BY DEF IInv, TypeOK
<1>6. /\ t \in TxType /\ t.op = new /\ t.pc = "load" /\ t.day = d /\ t.save = s
      /\ t.row = w /\ t.memory = entries[d] /\ t.rows = {} /\ t.outdated = FALSE
    BY <1>4, <1>5 DEF TxType
<1>7. new \in {"insert", "save"} /\ (day[d].status = "NONE" => new = "insert")
    BY DEF IInv, EmptyDays
<1> HIDE DEF t, new
<1>8. /\ tx'[r] = t /\ \A q \in Requests \ {r} : tx'[q] = tx[q]
      /\ day' = day /\ entries' = entries /\ stale' = stale
    BY <1>3 DEF Continue, IInv, TypeOK
<1>9. Mine(r)'
    <2>1. Shape(r)' /\ Sends(r)'
        BY <1>1, <1>4, <1>6, <1>7, <1>8 DEF Shape, Sends, AtWork, Saving, Deciding, Submittable
    <2>2. Uncommitted(r)'
        BY <1>1, <1>6, <1>8 DEF Uncommitted, Fresh
    <2>3. Rows(r)'
        BY <1>6, <1>7, <1>8 DEF Rows, AtWork
    <2>4. Current(r)'
        BY <1>1, <1>6, <1>7, <1>8 DEF Current, AtWork, Deciding, Editable, NoDay, Row, IInv, EmptyDays
    <2> QED BY <2>1, <2>2, <2>3, <2>4 DEF Mine
<1>10. \A q \in Requests \ {r} :
           /\ tx[q].save # None => tx[q].save \notin t.memory \cup t.rows \cup {t.save}
           /\ \A e \in Days : ~(Inserted(tx[q], e) /\ Inserted(t, e))
    BY <1>1, <1>6 DEF IInv, Uncommitted, Fresh, Inserted
<1> QED BY <1>3, <1>6, <1>9, <1>10, ContinuePreserves

(* A handler that reads a submitted day to decide on it.                   *)
LEMMA ReadPreserves ==
    ASSUME IInv, NEW r \in Requests, NEW d \in Days, NEW todo \in SUBSET Days,
           NEW op \in {"reopen", "reject", "approve"}, NEW w \in RowType,
           NEW memory, memory \subseteq entries[d],
           day[d].status = "SUBMITTED",
           Verdict(op, w.status),
           w.total = day[d].total,
           w.submitted <=> (op # "reopen" /\ day[d].submitted),
           Continue(r, Handler(op, todo, d, None, w, memory))
    PROVE  IInv'
<1> DEFINE t == Handler(op, todo, d, None, w, memory)
<1>1. memory \in SUBSET Saves /\ NoDay \in RowType
    BY DEF IInv, TypeOK, NoDay, Row, RowType, Statuses
<1>2. /\ t \in TxType /\ t.op = op /\ t.pc = "load" /\ t.day = d /\ t.save = None
      /\ t.row = w /\ t.memory = memory /\ t.rows = {}
    BY <1>1 DEF TxType, Handler
<1> HIDE DEF t
<1>3. /\ tx'[r] = t /\ \A q \in Requests \ {r} : tx'[q] = tx[q]
      /\ day' = day /\ entries' = entries /\ stale' = stale
    BY DEF Continue, IInv, TypeOK, t
<1>4. Mine(r)'
    <2>1. Shape(r)' /\ Sends(r)'
        BY <1>2, <1>3 DEF Shape, Sends, AtWork, Saving, Deciding, Verdict
    <2>2. Uncommitted(r)'
        BY <1>2, <1>3 DEF Uncommitted
    <2>3. Rows(r)'
        BY <1>2, <1>3 DEF Rows, AtWork
    <2>4. Current(r)'
        BY <1>2, <1>3 DEF Current, AtWork, Deciding
    <2> QED BY <2>1, <2>2, <2>3, <2>4 DEF Mine
<1>5. ASSUME NEW q \in Requests \ {r}
      PROVE  /\ tx[q].save # None => tx[q].save \notin t.memory \cup t.rows \cup {t.save}
             /\ \A e \in Days : ~(Inserted(tx[q], e) /\ Inserted(t, e))
    BY <1>2 DEF IInv, Uncommitted, Inserted
<1> QED BY <1>2, <1>4, <1>5, ContinuePreserves DEF t

LEMMA ReopenPreserves ==
    ASSUME IInv, NEW r \in Requests, NEW d \in Days, reopenDay(r, d)
    PROVE  IInv'
<1> DEFINE w == Row("DRAFT", day[d].total, FALSE)
<1>1. Continue(r, Handler("reopen", {}, d, None, w, entries[d])) /\ day[d].status = "SUBMITTED"
    BY DEF reopenDay, Begin, Continue
<1>2. w \in RowType /\ w.status = "DRAFT" /\ w.total = day[d].total /\ w.submitted = FALSE
    BY DEF IInv, TypeOK, Row, RowType, Statuses
<1>3. {} \subseteq entries[d] /\ {} \in SUBSET Days
    OBVIOUS
<1>4. Verdict("reopen", w.status)
    BY <1>2 DEF Verdict
<1>5. w.submitted <=> ("reopen" # "reopen" /\ day[d].submitted)
    BY <1>2
<1> HIDE DEF w
<1> QED BY <1>1, <1>2, <1>3, <1>4, <1>5, ReadPreserves

LEMMA RejectPreserves ==
    ASSUME IInv, NEW r \in Requests, NEW d \in Days, rejectTimesheetDay(r, d)
    PROVE  IInv'
<1> DEFINE w == Row("REJECTED", day[d].total, day[d].submitted)
           none == {}
<1>1. Continue(r, Handler("reject", {}, d, None, w, none)) /\ day[d].status = "SUBMITTED"
    BY DEF rejectTimesheetDay, Begin, Continue
<1>2. /\ w \in RowType /\ w.status = "REJECTED" /\ w.total = day[d].total
      /\ w.submitted = day[d].submitted
    BY DEF IInv, TypeOK, Row, RowType, Statuses
<1>3. none \subseteq entries[d] /\ {} \in SUBSET Days
    OBVIOUS
<1>4. Verdict("reject", w.status)
    BY <1>2 DEF Verdict
<1>5. w.submitted <=> ("reject" # "reopen" /\ day[d].submitted)
    BY <1>2
<1> HIDE DEF w, none
<1> QED BY <1>1, <1>2, <1>3, <1>4, <1>5, ReadPreserves

(* A handler that ends, or is about to look at another day.                *)
LEMMA RestPreserves ==
    ASSUME IInv, NEW r \in Requests, NEW t, Continue(r, t),
           t = NoTx \/ \E todo \in SUBSET Days : t = Approval(todo)
    PROVE  IInv'
<1> DEFINE Resting == /\ t \in TxType /\ t.op \in {"none", "approve"}
                      /\ t.pc \in {"idle", "next"} /\ t.day = None /\ t.save = None
                      /\ t.memory = {} /\ t.rows = {}
<1>0. NoDay \in RowType
    BY DEF NoDay, Row, RowType, Statuses
<1>1. Resting
    <2>1. ASSUME t = NoTx PROVE Resting
        BY <1>0, <2>1 DEF NoTx, TxType
    <2>2. ASSUME NEW todo \in SUBSET Days, t = Approval(todo) PROVE Resting
        BY <1>0, <2>2 DEF Approval, TxType
    <2> QED BY <2>1, <2>2
<1>2. /\ tx'[r] = t /\ \A q \in Requests \ {r} : tx'[q] = tx[q]
      /\ day' = day /\ entries' = entries /\ stale' = stale
    BY DEF Continue, IInv, TypeOK
<1>3. Mine(r)'
    BY <1>1, <1>2 DEF Mine, Shape, Sends, Uncommitted, Rows, Current, AtWork, Saving, Deciding
<1>4. ASSUME NEW q \in Requests \ {r}
      PROVE  /\ tx[q].save # None => tx[q].save \notin t.memory \cup t.rows \cup {t.save}
             /\ \A e \in Days : ~(Inserted(tx[q], e) /\ Inserted(t, e))
    BY <1>1 DEF Inserted
<1> QED BY <1>1, <1>3, <1>4, ContinuePreserves

LEMMA ApprovePreserves ==
    ASSUME IInv, NEW r \in Requests, NEW dayIds \in SUBSET Days,
           approveTimesheetDaysBulk(r, dayIds)
    PROVE  IInv'
<1>1. Continue(r, Approval(dayIds))
    BY DEF approveTimesheetDaysBulk, Begin, Continue
<1> QED BY <1>1, RestPreserves

LEMMA FailPreserves ==
    ASSUME IInv, NEW r \in Requests, Fail(r)
    PROVE  IInv'
<1>1. tx[r].todo \in SUBSET Days
    BY DEF IInv, TypeOK, TxType
<1> QED BY <1>1, RestPreserves DEF Fail, Rest

LEMMA GetApprovableDayPreserves ==
    ASSUME IInv, NEW r \in Requests, NEW d \in Days, getApprovableDay(r, d)
    PROVE  IInv'
<1> DEFINE w == Row("APPROVED", day[d].total, day[d].submitted)
           rest == tx[r].todo \ {d}
           none == {}
<1>1. rest \in SUBSET Days
    BY DEF IInv, TypeOK, TxType
<1>2. CASE day[d].status = "SUBMITTED"
    <2>1. Continue(r, Handler("approve", rest, d, None, w, none))
        BY <1>2 DEF getApprovableDay
    <2>2. /\ w \in RowType /\ w.status = "APPROVED" /\ w.total = day[d].total
          /\ w.submitted = day[d].submitted
        BY DEF IInv, TypeOK, Row, RowType, Statuses
    <2>3. none \subseteq entries[d] /\ Verdict("approve", w.status)
        BY <2>2 DEF Verdict
    <2>4. w.submitted <=> ("approve" # "reopen" /\ day[d].submitted)
        BY <2>2
    <2> HIDE DEF w, rest, none
    <2> QED BY <2>1, <2>2, <2>3, <2>4, <1>1, <1>2, ReadPreserves
<1>3. CASE day[d].status # "SUBMITTED"
    <2>1. Continue(r, Rest(rest))
        BY <1>3 DEF getApprovableDay
    <2> QED BY <2>1, <1>1, RestPreserves DEF Rest
<1> QED BY <1>2, <1>3

-----------------------------------------------------------------------------
(* save(day), up to its commit.                                            *)

(* The fields of a handler that a step leaves alone.                       *)
SameWork(t, u) ==
    /\ t \in TxType /\ t.op = u.op /\ t.todo = u.todo /\ t.day = u.day /\ t.save = u.save
    /\ t.row = u.row /\ t.memory = u.memory
SameHandler(t, u) == SameWork(t, u) /\ t.outdated = u.outdated

LEMMA NobodyElse ==
    ASSUME IInv, NEW r \in Requests, NEW t, SameHandler(t, tx[r]),
           t.rows \subseteq tx[r].memory \/ t.rows \subseteq tx[r].rows
               \/ \E d \in Days : t.rows \subseteq entries[d],
           NEW q \in Requests \ {r}, tx[q].save # None
    PROVE  tx[q].save \notin t.memory \cup t.rows \cup {t.save}
BY DEF IInv, SameHandler, SameWork, Uncommitted

(* What a save sent stays its own while it goes on.                        *)
LEMMA StillUncommitted ==
    ASSUME IInv, NEW r \in Requests, NEW t, SameHandler(t, tx[r]),
           t.rows \subseteq tx[r].memory \/ t.rows \subseteq tx[r].rows
               \/ \E d \in Days : t.rows \subseteq entries[d],
           Continue(r, t)
    PROVE  Uncommitted(r)'
<1>1. /\ tx'[r] = t /\ \A q \in Requests \ {r} : tx'[q] = tx[q]
      /\ entries' = entries
    BY DEF Continue, IInv, TypeOK
<1>2. Uncommitted(r) /\ t.save = tx[r].save /\ t.memory = tx[r].memory
    BY DEF IInv, SameHandler, SameWork
<1>3. ASSUME t.save # None
      PROVE  /\ t.save \notin t.memory \cup t.rows
             /\ \A q \in Requests \ {r} : /\ t.save \notin tx[q].memory \cup tx[q].rows
                                           /\ tx[q].save # t.save
    BY <1>2, <1>3 DEF Uncommitted
<1> QED BY <1>1, <1>2, <1>3 DEF Uncommitted

LEMMA LoadDayPreserves ==
    ASSUME IInv, NEW r \in Requests, LoadDay(r)
    PROVE  IInv'
<1> DEFINE u == tx[r]
           d == u.day
           t == [u EXCEPT !.pc = "update", !.loaded = day[d], !.rows = u.memory \ entries[d]]
<1>1. /\ u.pc = "load" /\ NoneOrphaned(u) /\ Continue(r, t)
      /\ u \in TxType /\ Mine(r)
    BY DEF LoadDay, IInv, TypeOK, Mine
<1>2. AtWork(u) /\ d \in Days
    BY <1>1 DEF Mine, Shape, AtWork, TxType
<1>3. /\ SameHandler(t, u) /\ t.pc = "update" /\ t.loaded = day[d]
      /\ t.rows = u.memory \ entries[d]
    BY <1>1, <1>2 DEF TxType, IInv, TypeOK, SameHandler, SameWork
<1> HIDE DEF t
<1>4. /\ tx'[r] = t /\ \A q \in Requests \ {r} : tx'[q] = tx[q]
      /\ day' = day /\ entries' = entries /\ stale' = stale
    BY <1>1 DEF Continue, IInv, TypeOK
<1>5. Mine(r)'
    <2>1. Shape(r)' /\ Sends(r)'
        BY <1>1, <1>3, <1>4 DEF Mine, Shape, Sends, AtWork, Saving, Deciding, SameHandler, SameWork, Submittable
    <2>2. Uncommitted(r)'
        BY <1>1, <1>3, StillUncommitted
    <2>3. Rows(r)'
        BY <1>1, <1>2, <1>3, <1>4 DEF Mine, Rows, AtWork, SameHandler, SameWork
    <2>4. Current(r)'
        BY <1>1, <1>2, <1>3, <1>4 DEF Mine, Current, AtWork, Deciding, Loaded, Editable,
           SameHandler, SameWork, NoneOrphaned
    <2> QED BY <2>1, <2>2, <2>3, <2>4 DEF Mine
<1>6. ASSUME NEW q \in Requests \ {r}
      PROVE  /\ tx[q].save # None => tx[q].save \notin t.memory \cup t.rows \cup {t.save}
             /\ \A e \in Days : ~(Inserted(tx[q], e) /\ Inserted(t, e))
    <2>1. t.rows \subseteq u.memory
        BY <1>3
    <2> QED BY <2>1, <1>3, NobodyElse DEF Inserted
<1>7. t \in TxType
    BY <1>3 DEF SameHandler, SameWork
<1> QED BY <1>1, <1>5, <1>6, <1>7, ContinuePreserves

LEMMA UpdateDayPreserves ==
    ASSUME IInv, NEW r \in Requests, UpdateDay(r)
    PROVE  IInv'
<1> DEFINE u == tx[r]
           d == u.day
           t == [u EXCEPT !.pc = "replace"]
<1>1. /\ u.pc = "update" /\ Saving(u) /\ Continue(r, t)
      /\ u.op = "insert" => Unlocked(r, d) /\ day[d] = NoDay
      /\ u \in TxType /\ Mine(r)
    BY DEF UpdateDay, IInv, TypeOK, Mine, Saving, Writes
<1>2. AtWork(u) /\ d \in Days
    BY <1>1 DEF Mine, Shape, AtWork, TxType
<1>3. SameHandler(t, u) /\ t.pc = "replace" /\ t.loaded = u.loaded /\ t.rows = u.rows
    BY <1>1, <1>2 DEF TxType, SameHandler, SameWork
<1> HIDE DEF t
<1>4. /\ tx'[r] = t /\ \A q \in Requests \ {r} : tx'[q] = tx[q]
      /\ day' = day /\ entries' = entries /\ stale' = stale
    BY <1>1 DEF Continue, IInv, TypeOK
<1>5. u.op = "insert" => \A q \in Requests \ {r} : ~Inserted(tx[q], d)
    BY <1>1 DEF Unlocked, Holds, Inserted, Writes
<1>6. Mine(r)'
    <2>1. Shape(r)' /\ Sends(r)'
        BY <1>1, <1>3, <1>4 DEF Mine, Shape, Sends, AtWork, Saving, Deciding, SameHandler, SameWork, Submittable
    <2>2. Uncommitted(r)'
        BY <1>1, <1>3, StillUncommitted
    <2>3. Rows(r)'
        BY <1>1, <1>2, <1>3, <1>4, <1>5 DEF Mine, Rows, AtWork, SameHandler, SameWork, Inserted, NoDay, Row
    <2>4. Current(r)'
        BY <1>1, <1>2, <1>3, <1>4 DEF Mine, Current, AtWork, Deciding, Saving, Loaded, Editable,
           SameHandler, SameWork
    <2> QED BY <2>1, <2>2, <2>3, <2>4 DEF Mine
<1>7. ASSUME NEW q \in Requests \ {r}
      PROVE  /\ tx[q].save # None => tx[q].save \notin t.memory \cup t.rows \cup {t.save}
             /\ \A e \in Days : ~(Inserted(tx[q], e) /\ Inserted(t, e))
    <2>1. t.rows \subseteq u.rows
        BY <1>3
    <2>2. \A e \in Days : ~(Inserted(tx[q], e) /\ Inserted(t, e))
        BY <1>3, <1>5 DEF Inserted, SameHandler, SameWork
    <2> QED BY <2>1, <2>2, <1>3, NobodyElse
<1>8. t \in TxType
    BY <1>3 DEF SameHandler, SameWork
<1> QED BY <1>1, <1>6, <1>7, <1>8, ContinuePreserves

LEMMA DeleteEntriesPreserves ==
    ASSUME IInv, NEW r \in Requests, DeleteEntries(r)
    PROVE  IInv'
<1> DEFINE u == tx[r]
           d == u.day
           t == [u EXCEPT !.pc = "commit", !.rows = entries[d]]
<1>1. u.pc = "replace" /\ Continue(r, t) /\ u \in TxType /\ Mine(r)
    BY DEF DeleteEntries, IInv, TypeOK, Mine
<1>2. AtWork(u) /\ d \in Days /\ Saving(u)
    BY <1>1 DEF Mine, Shape, AtWork, TxType
<1>3. SameHandler(t, u) /\ t.pc = "commit" /\ t.loaded = u.loaded /\ t.rows = entries[d]
    BY <1>1, <1>2 DEF TxType, IInv, TypeOK, SameHandler, SameWork
<1> HIDE DEF t
<1>4. /\ tx'[r] = t /\ \A q \in Requests \ {r} : tx'[q] = tx[q]
      /\ day' = day /\ entries' = entries /\ stale' = stale
    BY <1>1 DEF Continue, IInv, TypeOK
<1>5. Mine(r)'
    <2>1. Shape(r)' /\ Sends(r)'
        BY <1>1, <1>3, <1>4 DEF Mine, Shape, Sends, AtWork, Saving, Deciding, SameHandler, SameWork, Submittable
    <2>2. Uncommitted(r)'
        BY <1>1, <1>2, <1>3, StillUncommitted
    <2>3. Rows(r)'
        BY <1>1, <1>2, <1>3, <1>4 DEF Mine, Rows, AtWork, SameHandler, SameWork
    <2>4. Current(r)'
        BY <1>1, <1>2, <1>3, <1>4 DEF Mine, Current, AtWork, Deciding, Saving, Loaded, Editable,
           SameHandler, SameWork
    <2> QED BY <2>1, <2>2, <2>3, <2>4 DEF Mine
<1>6. ASSUME NEW q \in Requests \ {r}
      PROVE  /\ tx[q].save # None => tx[q].save \notin t.memory \cup t.rows \cup {t.save}
             /\ \A e \in Days : ~(Inserted(tx[q], e) /\ Inserted(t, e))
    <2>1. \E e \in Days : t.rows \subseteq entries[e]
        BY <1>2, <1>3
    <2>2. \A e \in Days : ~(Inserted(tx[q], e) /\ Inserted(t, e))
        BY <1>1, <1>3 DEF Mine, Rows, Inserted, SameHandler, SameWork
    <2> QED BY <2>1, <2>2, <1>3, NobodyElse
<1>7. t \in TxType
    BY <1>3 DEF SameHandler, SameWork
<1> QED BY <1>1, <1>5, <1>6, <1>7, ContinuePreserves

-----------------------------------------------------------------------------
(* Commits.                                                                *)

LEMMA SaveOverFields ==
    ASSUME NEW a \in RowType, NEW b \in RowType, NEW c \in RowType
    PROVE  LET x == SaveOver(a, b, c) IN
           /\ x \in RowType
           /\ x.status    = IF b.status # c.status THEN b.status ELSE a.status
           /\ x.total     = IF b.total # c.total THEN b.total ELSE a.total
           /\ x.submitted = IF b.submitted # c.submitted THEN b.submitted ELSE a.submitted
<1>1. DOMAIN a = {"status", "total", "submitted"}
    BY DEF RowType
<1> QED BY <1>1 DEF SaveOver, RowType

(* What a commit does to the handlers.                                     *)
LEMMA CommitEffect ==
    ASSUME IInv, NEW r \in Requests, Commit(r), AtWork(tx[r])
    PROVE  /\ tx[r].day \in Days
           /\ tx' \in [Requests -> TxType]
           /\ LET t == tx'[r] IN /\ ~AtWork(t) /\ t.day = None /\ t.save = None /\ t.memory = {}
                                /\ t.rows = {} /\ ~Saving(t) /\ t.pc \in {"idle", "next"}
           /\ \A q \in Requests \ {r} :
                /\ SameWork(tx'[q], tx[q])
                /\ tx'[q].pc = tx[q].pc /\ tx'[q].rows = tx[q].rows /\ tx'[q].loaded = tx[q].loaded
                /\ tx'[q].outdated <=> tx[q].outdated \/ Outdated(q, tx[r].day)
<1>1. tx[r] \in TxType /\ tx[r].day # None
    BY DEF IInv, TypeOK, Shape, AtWork
<1>2. tx[r].day \in Days /\ tx[r].todo \in SUBSET Days
    BY <1>1 DEF TxType
<1>3. NoDay \in RowType
    BY DEF NoDay, Row, RowType, Statuses
<1>4. tx'[r] = Rest(tx[r].todo)
    BY DEF Commit
<1>5. /\ tx'[r] \in TxType /\ tx'[r].day = None /\ tx'[r].save = None /\ tx'[r].memory = {}
      /\ tx'[r].rows = {} /\ tx'[r].op \in {"none", "approve"} /\ tx'[r].pc \in {"idle", "next"}
    <2>1. CASE tx'[r] = NoTx
        BY <2>1, <1>3 DEF NoTx, TxType
    <2>2. CASE tx'[r] = Approval(tx[r].todo)
        BY <2>2, <1>2, <1>3 DEF Approval, TxType
    <2> QED BY <1>4, <2>1, <2>2 DEF Rest
<1>6. ASSUME NEW q \in Requests \ {r}
      PROVE  /\ SameWork(tx'[q], tx[q])
             /\ tx'[q].pc = tx[q].pc /\ tx'[q].rows = tx[q].rows /\ tx'[q].loaded = tx[q].loaded
             /\ tx'[q].outdated <=> tx[q].outdated \/ Outdated(q, tx[r].day)
    <2>1. tx[q] \in TxType
        BY DEF IInv, TypeOK
    <2>2. tx'[q] = IF Outdated(q, tx[r].day) THEN [tx[q] EXCEPT !.outdated = TRUE] ELSE tx[q]
        BY DEF Commit
    <2> QED BY <2>1, <2>2 DEF SameWork, TxType
<1>7. tx' = [q \in Requests |-> tx'[q]]
    BY DEF Commit
<1>8. tx' \in [Requests -> TxType]
    BY <1>5, <1>6, <1>7 DEF SameWork
<1> QED BY <1>2, <1>5, <1>6, <1>8 DEF AtWork, Saving

(* A commit keeps the invariant, if the day it wrote shows one save, unless*)
(* it was outdated, and a save that has yet to load the day will either    *)
(* find it editable or entries it does not know.                           *)
LEMMA CommitPreserves ==
    ASSUME IInv, NEW r \in Requests, Commit(r), AtWork(tx[r]), NEW d, d = tx[r].day,
           tx[r].op = "insert" => tx[r].pc = "commit", NEW e \in SUBSET Saves, entries' = [entries EXCEPT ![d] = e],
           day'[d] \in RowType, day'[d].status # "NONE",
           \A q \in Requests \ {r} : tx[q].save # None => tx[q].save \notin e,
           ~stale'[d] =>
               /\ \E s \in Saves : ShowsSave(d, s)'
               /\ \A q \in Requests \ {r} :
                   tx[q].op = "save" /\ tx[q].pc = "load" /\ tx[q].day = d =>
                       Editable(d)' \/ ~(e \subseteq tx[q].memory)
    PROVE  IInv'
<1>1. /\ d \in Days /\ tx' \in [Requests -> TxType]
      /\ LET t == tx'[r] IN /\ ~AtWork(t) /\ t.day = None /\ t.save = None /\ t.memory = {}
                           /\ t.rows = {} /\ ~Saving(t) /\ t.pc \in {"idle", "next"}
      /\ \A q \in Requests \ {r} :
           /\ SameWork(tx'[q], tx[q])
           /\ tx'[q].pc = tx[q].pc /\ tx'[q].rows = tx[q].rows /\ tx'[q].loaded = tx[q].loaded
           /\ tx'[q].outdated <=> tx[q].outdated \/ Outdated(q, d)
    BY CommitEffect
<1>2. /\ \A c \in Days \ {d} : day'[c] = day[c] /\ entries'[c] = entries[c] /\ stale'[c] = stale[c]
      /\ entries'[d] = e /\ day' \in [Days -> RowType] /\ entries' \in [Days -> SUBSET Saves]
      /\ stale' \in [Days -> BOOLEAN] /\ (stale[d] => stale'[d])
    <2>1. entries' \in [Days -> SUBSET Saves] /\ entries'[d] = e
          /\ \A c \in Days \ {d} : entries'[c] = entries[c]
        BY <1>1 DEF IInv, TypeOK
    <2>2. day' \in [Days -> RowType] /\ \A c \in Days \ {d} : day'[c] = day[c]
        BY <1>1 DEF IInv, TypeOK, Commit
    <2>3. tx[r].outdated \in BOOLEAN
        BY DEF IInv, TypeOK, TxType
    <2>4. stale' \in [Days -> BOOLEAN] /\ (stale[d] => stale'[d])
          /\ \A c \in Days \ {d} : stale'[c] = stale[c]
        BY <1>1, <2>3 DEF IInv, TypeOK, Commit
    <2> QED BY <2>1, <2>2, <2>4
<1>3. TypeOK'
    BY <1>1, <1>2 DEF TypeOK
<1>4. EmptyDays'
    BY <1>2 DEF IInv, EmptyDays
<1>5. DayIsOneSave'
    BY <1>1, <1>2 DEF IInv, DayIsOneSave, ShowsSave, NoDay, Row
<1>6. Mine(r)'
    BY <1>1 DEF Mine, Shape, Sends, Uncommitted, Rows, Current, AtWork, Saving, Deciding
<1>7. ASSUME NEW q \in Requests \ {r} PROVE Mine(q)'
    <2>1. Mine(q) /\ tx[q] \in TxType
        BY DEF IInv, Mine, TypeOK
    <2>2. AtWork(tx[q]) => tx[q].day \in Days
        BY <2>1 DEF Mine, Shape, AtWork, TxType
    <2>3. Shape(q)' /\ Sends(q)'
        BY <1>1, <2>1 DEF Mine, Shape, Sends, AtWork, Saving, Deciding, SameWork, Submittable,
               Outdated
    <2>4. Uncommitted(q)'
        <3>1. \A c \in Days : tx'[q].save # None => tx'[q].save \notin entries'[c]
            BY <1>1, <1>2, <2>1 DEF Mine, Uncommitted, SameWork
        <3>2. \A p \in Requests : tx'[q].save # None => tx'[q].save \notin tx'[p].memory \cup tx'[p].rows
            BY <1>1, <2>1 DEF Mine, Uncommitted, SameWork
        <3>3. \A p \in Requests \ {q} : tx'[q].save # None => tx'[p].save # tx'[q].save
            BY <1>1, <2>1 DEF Mine, Uncommitted, SameWork
        <3> QED BY <3>1, <3>2, <3>3 DEF Uncommitted
    <2>5. Rows(q)'
        <3>1. AtWork(tx[q]) /\ tx[q].op # "insert" => day'[tx[q].day].status # "NONE"
            BY <1>2, <2>1, <2>2 DEF Mine, Rows
        <3>2. Rows(r)
            BY DEF IInv
        <3>3. ASSUME tx[q].op = "insert", tx[q].pc \in {"replace", "commit"}
              PROVE  tx[q].day # d
            BY <2>1, <3>2, <3>3 DEF Mine, Rows
        <3> QED BY <1>1, <1>2, <2>1, <2>2, <3>1, <3>3 DEF Mine, Rows, AtWork, SameWork
    <2>6. Current(q)'
        <3>1. CASE tx[q].day = d
            BY <3>1, <1>1, <1>2, <2>1 DEF Mine, Current, AtWork, Saving, Deciding, Outdated,
               SameWork, Editable, Shape
        <3>2. CASE tx[q].day # d
            BY <3>2, <1>1, <1>2, <2>1, <2>2 DEF Mine, Current, AtWork, Deciding, Editable,
               Loaded, SameWork
        <3> QED BY <3>1, <3>2
    <2> QED BY <2>3, <2>4, <2>5, <2>6 DEF Mine
<1> QED BY <1>3, <1>4, <1>5, <1>6, <1>7 DEF IInv, Mine

LEMMA CommitSavePreserves ==
    ASSUME IInv, NEW r \in Requests, CommitSave(r)
    PROVE  IInv'
<1> DEFINE t == tx[r]
<1>0. PICK d, s, e : d = t.day /\ s = t.save /\ e = Replaced(t)
    OBVIOUS
<1>1. t.pc = "commit" /\ Commit(r) /\ t \in TxType /\ Mine(r)
    BY DEF CommitSave, IInv, TypeOK, Mine
<1>2. AtWork(t) /\ Saving(t) /\ d \in Days /\ s \in Saves /\ Submittable(s)
    BY <1>0, <1>1 DEF Mine, Shape, Sends, AtWork, TxType
<1>3. /\ entries' = [entries EXCEPT ![d] = e]
      /\ day'[d] = IF t.op = "insert" THEN t.row ELSE SaveOver(day[d], t.row, t.loaded)
      /\ stale'[d] <=> stale[d] \/ t.outdated
    BY <1>0, <1>1, <1>2 DEF CommitSave, Commit, IInv, TypeOK, TxType
<1>4. e \in SUBSET Saves /\ day[d] \in RowType /\ t.row \in RowType /\ t.loaded \in RowType
    BY <1>0, <1>1, <1>2 DEF Replaced, EntriesOf, IInv, TypeOK, TxType
<1>5. day'[d] \in RowType /\ day'[d].status # "NONE"
    BY <1>0, <1>1, <1>2, <1>3, <1>4, SaveOverFields DEF Mine, Shape, Rows
<1>6. \A q \in Requests \ {r} : tx[q].save # None => tx[q].save \notin e
    BY <1>0, <1>2 DEF IInv, Uncommitted, Replaced, EntriesOf
<1>7. ASSUME ~stale'[d]
      PROVE  /\ e = EntriesOf(s)
             /\ day'[d].status = IF Form[s].submit THEN "SUBMITTED" ELSE "DRAFT"
             /\ day'[d].total = Form[s].hours
             /\ day'[d].submitted = Form[s].submit
    <2>1. CASE t.op = "insert"
        <3>1. entries[d] = {}
            BY <1>0, <1>1, <1>2, <2>1 DEF Mine, Rows, IInv, EmptyDays
        <3> QED BY <3>1, <1>0, <1>1, <1>2, <1>3, <2>1 DEF Mine, Sends, Replaced
    <2>2. CASE t.op = "save"
        <3>1. Loaded(t) /\ t.rows = entries[d]
            BY <1>0, <1>1, <1>2, <1>3, <1>7, <2>2 DEF Mine, Current
        <3> QED BY <3>1, <1>0, <1>1, <1>2, <1>3, <1>4, <2>2, SaveOverFields
                DEF Loaded, Mine, Sends, Replaced
    <2> QED BY <1>0, <1>2, <2>1, <2>2 DEF Saving
<1>8. ASSUME ~stale'[d] PROVE ShowsSave(d, s)'
    <2>1. Form[s].hours \in Nat /\ Form[s].submit \in BOOLEAN
        BY <1>2
    <2>2. entries'[d] = EntriesOf(s)
        BY <1>2, <1>3, <1>7, <1>8 DEF IInv, TypeOK
    <2>3. Form[s].submit => Form[s].hours \in 1..MaxHours
        BY <1>2, <2>1 DEF Submittable
    <2> QED BY <1>7, <1>8, <2>1, <2>2, <2>3 DEF ShowsSave
<1>9. ASSUME ~stale'[d], NEW q \in Requests \ {r},
             tx[q].op = "save", tx[q].pc = "load", tx[q].day = d
      PROVE  Editable(d)' \/ ~(e \subseteq tx[q].memory)
    <2>1. CASE ~Form[s].submit
        BY <2>1, <1>7, <1>9 DEF Editable, EDITABLE_STATUSES
    <2>2. CASE Form[s].submit
        <3>0. Form[s].hours \in Nat
            BY <1>2
        <3>1. Form[s].hours # 0
            BY <3>0, <1>2, <2>2 DEF Submittable
        <3>4. e = EntriesOf(s)
            BY <1>7, <1>9
        <3>5. s \in e
            BY <3>1, <3>4 DEF EntriesOf
        <3>2. s \notin tx[q].memory
            BY <1>0, <1>1, <1>2, <1>9 DEF Mine, Uncommitted
        <3> QED BY <3>5, <3>2
    <2> QED BY <2>1, <2>2
<1> QED BY <1>0, <1>1, <1>2, <1>3, <1>4, <1>5, <1>6, <1>8, <1>9, CommitPreserves

LEMMA SaveStatusPreserves ==
    ASSUME IInv, NEW r \in Requests, SaveStatus(r)
    PROVE  IInv'
<1> DEFINE t == tx[r]
<1>0. PICK d, e : d = t.day /\ e = entries[d] \cup t.rows
    OBVIOUS
<1>1. /\ t.pc = "update" /\ ~Saving(t) /\ Commit(r) /\ t \in TxType /\ Mine(r)
      /\ t.rows \cap entries[d] = {}
    BY <1>0 DEF SaveStatus, IInv, TypeOK, Mine, Saving
<1>2. AtWork(t) /\ Deciding(t) /\ d \in Days /\ t.row.status # "NONE"
    BY <1>0, <1>1 DEF Mine, Shape, AtWork, TxType
<1>3. /\ entries' = [entries EXCEPT ![d] = e]
      /\ day'[d] = SaveOver(day[d], t.row, t.loaded)
      /\ stale'[d] <=> stale[d] \/ t.outdated
    BY <1>0, <1>1, <1>2 DEF SaveStatus, Commit, IInv, TypeOK, TxType, Saving
<1>4. /\ e \in SUBSET Saves /\ day[d] \in RowType /\ t.row \in RowType /\ t.loaded \in RowType
      /\ entries[d] \in SUBSET Saves
    BY <1>0, <1>1, <1>2 DEF IInv, TypeOK, TxType
<1>5. day'[d] \in RowType /\ day'[d].status # "NONE"
    <2>1. day[d].status # "NONE"
        BY <1>0, <1>1, <1>2 DEF Mine, Rows, Saving
    <2> QED BY <1>2, <1>3, <1>4, <2>1, SaveOverFields
<1>6. \A q \in Requests \ {r} : tx[q].save # None => tx[q].save \notin e
    BY <1>0, <1>2 DEF IInv, Uncommitted
<1>7. ASSUME ~stale'[d]
      PROVE  /\ e = entries[d] /\ ~stale[d] /\ day[d].status = "SUBMITTED"
             /\ Verdict(t.op, day'[d].status)
             /\ day'[d].total = day[d].total
             /\ day'[d].submitted <=> (t.op # "reopen" /\ day[d].submitted)
    <2>1. /\ ~stale[d] /\ day[d].status = "SUBMITTED" /\ Verdict(t.op, t.row.status)
          /\ t.row.total = day[d].total
          /\ t.row.submitted <=> (t.op # "reopen" /\ day[d].submitted)
          /\ t.rows = {} /\ Loaded(t)
        BY <1>0, <1>1, <1>2, <1>3, <1>7 DEF Mine, Current
    <2>2. /\ day'[d].status = t.row.status /\ day'[d].total = t.row.total
          /\ day'[d].submitted = t.row.submitted
        BY <1>0, <1>3, <1>4, <2>1, SaveOverFields DEF Loaded
    <2> QED BY <1>0, <1>4, <2>1, <2>2
<1>8. ASSUME ~stale'[d] PROVE \E s \in Saves : ShowsSave(d, s)'
    <2>1. PICK s \in Saves : ShowsSave(d, s)
        BY <1>2, <1>7, <1>8 DEF IInv, DayIsOneSave, NoDay, Row
    <2>2. entries'[d] = entries[d]
        BY <1>2, <1>3, <1>7, <1>8 DEF IInv, TypeOK
    <2>3. Form[s].submit /\ Form[s].hours \in 1..MaxHours /\ day[d].submitted
        BY <1>7, <1>8, <2>1 DEF ShowsSave
    <2>4. day'[d].submitted <=> day'[d].status # "DRAFT"
        BY <1>2, <1>7, <1>8, <2>3 DEF Verdict, Deciding
    <2> QED BY <1>7, <1>8, <2>1, <2>2, <2>3, <2>4 DEF ShowsSave
<1>9. ASSUME ~stale'[d], NEW q \in Requests \ {r},
             tx[q].op = "save", tx[q].pc = "load", tx[q].day = d
      PROVE  Editable(d)' \/ ~(e \subseteq tx[q].memory)
    BY <1>2, <1>7, <1>9 DEF IInv, Shape, Current, AtWork, Saving, Editable, EDITABLE_STATUSES
<1>10. /\ Commit(r) /\ AtWork(tx[r]) /\ d = tx[r].day /\ e \in SUBSET Saves
       /\ tx[r].op = "insert" => tx[r].pc = "commit"
    BY <1>0, <1>1, <1>2, <1>4 DEF Saving
<1> HIDE DEF t
<1> QED BY <1>3, <1>5, <1>6, <1>8, <1>9, <1>10, CommitPreserves

-----------------------------------------------------------------------------
(* Initial states, steps, and what follows.                                *)

LEMMA InitEstablishes == Init => IInv
<1> SUFFICES ASSUME Init PROVE IInv
    OBVIOUS
<1>1. NoDay \in RowType /\ NoDay.status = "NONE"
    BY DEF NoDay, Row, RowType, Statuses
<1>2. /\ NoTx \in TxType /\ NoTx.op = "none" /\ NoTx.pc = "idle" /\ NoTx.day = None
      /\ NoTx.save = None /\ NoTx.memory = {} /\ NoTx.rows = {}
    BY <1>1 DEF NoTx, TxType
<1>3. TypeOK /\ EmptyDays /\ DayIsOneSave
    BY <1>1, <1>2 DEF Init, TypeOK, EmptyDays, DayIsOneSave
<1>4. ASSUME NEW r \in Requests
      PROVE  Shape(r) /\ Sends(r) /\ Uncommitted(r) /\ Rows(r) /\ Current(r)
    <2>1. tx[r] = NoTx
        BY DEF Init
    <2> QED BY <2>1, <1>2 DEF Shape, Sends, Uncommitted, Rows, Current, AtWork, Saving, Deciding
<1> QED BY <1>3, <1>4 DEF IInv

LEMMA NextPreserves ==
    ASSUME IInv, [Next]_vars
    PROVE  IInv'
<1>1. CASE UNCHANGED vars
    <2>1. day' = day /\ entries' = entries /\ tx' = tx /\ stale' = stale
        BY <1>1 DEF vars
    <2>2. TypeOK' /\ EmptyDays' /\ DayIsOneSave'
        BY <2>1 DEF IInv, TypeOK, EmptyDays, DayIsOneSave, ShowsSave
    <2>3. ASSUME NEW r \in Requests
          PROVE  Shape(r)' /\ Sends(r)' /\ Uncommitted(r)' /\ Rows(r)' /\ Current(r)'
        BY <2>1 DEF IInv, Shape, Sends, Uncommitted, Rows, Current, Loaded, Editable
    <2> QED BY <2>2, <2>3 DEF IInv
<1>2. CASE Next
    <2>1. PICK r \in Requests :
            \/ \E d \in Days :
                \/ \E s \in Saves : upsertDay(r, d, s)
                \/ reopenDay(r, d) \/ rejectTimesheetDay(r, d) \/ getApprovableDay(r, d)
            \/ \E dayIds \in SUBSET Days : approveTimesheetDaysBulk(r, dayIds)
            \/ LoadDay(r) \/ UpdateDay(r) \/ DeleteEntries(r)
            \/ CommitSave(r) \/ SaveStatus(r)
            \/ Fail(r)
        BY <1>2 DEF Next
    <2>2. ASSUME NEW d \in Days, NEW s \in Saves, upsertDay(r, d, s) PROVE IInv'
        BY <2>2, UpsertPreserves
    <2>3. ASSUME NEW d \in Days,
                 reopenDay(r, d) \/ rejectTimesheetDay(r, d) \/ getApprovableDay(r, d)
          PROVE  IInv'
        BY <2>3, ReopenPreserves, RejectPreserves, GetApprovableDayPreserves
    <2>4. ASSUME NEW dayIds \in SUBSET Days, approveTimesheetDaysBulk(r, dayIds) PROVE IInv'
        BY <2>4, ApprovePreserves
    <2>5. CASE LoadDay(r) \/ UpdateDay(r) \/ DeleteEntries(r)
        BY <2>5, LoadDayPreserves, UpdateDayPreserves, DeleteEntriesPreserves
    <2>6. CASE CommitSave(r) \/ SaveStatus(r) \/ Fail(r)
        BY <2>6, CommitSavePreserves, SaveStatusPreserves, FailPreserves
    <2> QED BY <2>1, <2>2, <2>3, <2>4, <2>5, <2>6
<1> QED BY <1>1, <1>2

(* Unless an outdated handler saves a day, it shows what one save sent:    *)
(* the entries and the total of that save, and a status other than draft   *)
(* only if it was sent to be submitted, with entries and within the limit. *)
THEOREM SheetsShowOneSave == Spec => [](TypeOK /\ DayIsOneSave)
<1>1. Spec => []IInv
    BY InitEstablishes, NextPreserves, PTL DEF Spec
<1> QED BY <1>1, PTL DEF IInv

LEMMA ApprovedDayKept ==
    ASSUME IInv, [Next]_vars, NEW d \in Days, day[d].status = "APPROVED", ~stale'[d]
    PROVE  day'[d] = day[d] /\ entries'[d] = entries[d]
<1>1. CASE UNCHANGED <<day, entries>>
    BY <1>1
<1>2. ASSUME NEW r \in Requests, Commit(r), AtWork(tx[r]),
             tx[r].pc = IF Saving(tx[r]) THEN "commit" ELSE "update",
             entries' = [entries EXCEPT ![tx[r].day] = entries'[tx[r].day]]
      PROVE  day'[d] = day[d] /\ entries'[d] = entries[d]
    <2>1. CASE tx[r].day # d
        BY <2>1, <1>2 DEF Commit, IInv, TypeOK
    <2>2. CASE tx[r].day = d
        <3>1. ~stale[d] /\ ~tx[r].outdated
            BY <2>2, <1>2 DEF Commit, IInv, TypeOK, TxType
        <3>2. Saving(tx[r]) \/ Deciding(tx[r])
            BY <1>2 DEF IInv, Shape
        <3>3. ~(tx[r].op = "insert")
            BY <2>2, <1>2 DEF IInv, Rows, Saving
        <3>4. ~(tx[r].op = "save")
            BY <3>1, <2>2, <1>2 DEF IInv, Current, Saving, Editable, EDITABLE_STATUSES
        <3>5. ~Deciding(tx[r])
            BY <3>1, <2>2, <1>2 DEF IInv, Current
        <3> QED BY <3>2, <3>3, <3>4, <3>5 DEF Saving
    <2> QED BY <2>1, <2>2
<1>3. ASSUME NEW r \in Requests, CommitSave(r) \/ SaveStatus(r)
      PROVE  day'[d] = day[d] /\ entries'[d] = entries[d]
    <2>1. /\ AtWork(tx[r]) /\ Commit(r)
          /\ tx[r].pc = IF Saving(tx[r]) THEN "commit" ELSE "update"
        BY <1>3 DEF AtWork, CommitSave, SaveStatus, IInv, Shape, Saving
    <2>2. tx[r].day \in Days
        BY <2>1, CommitEffect
    <2>3. entries' = [entries EXCEPT ![tx[r].day] = entries'[tx[r].day]]
        BY <1>3, <2>2 DEF CommitSave, SaveStatus, IInv, TypeOK
    <2> QED BY <1>2, <2>1, <2>3
<1>4. CASE Next
    <2>1. \/ UNCHANGED <<day, entries>>
          \/ \E r \in Requests : CommitSave(r) \/ SaveStatus(r)
        BY <1>4 DEF Next, upsertDay, reopenDay, rejectTimesheetDay, getApprovableDay,
           approveTimesheetDaysBulk, LoadDay, UpdateDay, DeleteEntries, Fail, Begin, Continue
    <2> QED BY <2>1, <1>1, <1>3
<1> QED BY <1>1, <1>4 DEF vars

(* An approved day is changed by no handler but an outdated one, whatever  *)
(* the saves under way when it was approved had read.                      *)
THEOREM ApprovedDaysFinal == Spec => ApprovedIsFinal
<1>1. Spec => []IInv
    BY InitEstablishes, NextPreserves, PTL DEF Spec
<1>2. ASSUME IInv, [Next]_vars
      PROVE  [\A d \in Days : day[d].status = "APPROVED" /\ ~stale'[d] =>
                day'[d] = day[d] /\ entries'[d] = entries[d]]_vars
    BY <1>2, ApprovedDayKept
<1> QED BY <1>1, <1>2, PTL DEF Spec, ApprovedIsFinal

=============================================================================
