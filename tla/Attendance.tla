----------------------------- MODULE Attendance -----------------------------
(***************************************************************************)
(* The punches of one employee and the daily summaries made of them.       *)
(* Signing in and out, looking at a day, an approved regularization and a  *)
(* swipe on a device all end alike: a transaction adds its punches, reads  *)
(* the punches of the work date, and saves the summary it computed.  The   *)
(* module has the web requests and that common part; Regularizations and   *)
(* BiometricIngest add the rest.                                           *)
(***************************************************************************)
EXTENDS AttendanceDays, Persistence

CONSTANTS
    LastDay,        \* bound: the last day of the calendar
    Requests,       \* handlers that may be running at the same time
    Scenarios,      \* the shift and the settings, and what clients do
    None            \* no handler, no request

Days == 0 .. LastDay
End  == (LastDay + 1) * DayLength

(* overnight: the shift spans midnight; strict: devices tell IN from OUT;  *)
(* window: the dedupe window; bound: the employee has a number on the      *)
(* device.  Bounds: first and last, where the clock starts and stops;      *)
(* scans, the swipes; faults, the answers that are lost and the crashes;   *)
(* kinds, the requests that come.                                          *)
ASSUME AttendanceAssumption ==
    /\ LastDay \in Nat
    /\ Scenarios \subseteq [overnight : BOOLEAN, strict : BOOLEAN, window : Nat,
                            bound : BOOLEAN, first : 0 .. End, last : 0 .. End,
                            scans : Nat, faults : Nat, kinds : SUBSET STRING]
    /\ None \notin Requests

VARIABLES
    scenario,   \* the scenario, which never changes
    now,        \* the clock
    punches,    \* attendance_punches: the committed rows
    summary,    \* attendance_daily_summaries: the committed row of each day
    tx,         \* the handlers that are running
    behind,     \* history: the days whose summary missed something
    tangled     \* history: the days with a punch nobody decided on in order

attVars == <<scenario, now, punches, summary, tx, behind, tangled>>

overnight == scenario.overnight
Asked(kind) == kind \in scenario.kinds
Today == DayOf(now)

(* by tells apart rows that two handlers inserted with the same content.   *)
Punch(at, type, source, by) == [at |-> at, type |-> type, source |-> source, by |-> by]

NoTx == [op |-> "none", pc |-> "idle", job |-> None, day |-> NoDay, own |-> {},
         sum |-> NoSummary, base |-> NoSummary, missed |-> {}]

Handler(op, pc, job, d) ==
    [NoTx EXCEPT !.op = op, !.pc = pc, !.job = job, !.day = d]

-----------------------------------------------------------------------------

Continue(r, t) ==
    /\ tx' = [tx EXCEPT ![r] = t]
    /\ UNCHANGED <<scenario, now, punches, summary, behind, tangled>>
Abort(r) == Continue(r, NoTx)
Begin(r, t) == tx[r].pc = "idle" /\ Continue(r, t)

signIn(r) ==
    /\ Asked("signIn")
    /\ findOpenSessionContext(punches, Today, overnight) = NoDay
    /\ Begin(r, Handler("signIn", "punch", None, Today))

signOut(r) ==
    LET open == findOpenSessionContext(punches, Today, overnight) IN
    /\ Asked("signOut")
    /\ open # NoDay
    /\ Begin(r, Handler("signOut", "punch", None, open))

(* getDayDetail brings the summary of a day with punches up to date.       *)
getDayDetail(r, d) ==
    /\ Asked("view")
    /\ pairPunches(getPunchesForDay(punches, d, overnight), d) # {}
    /\ Begin(r, Handler("view", "snapshot", None, d))

(* A web punch happens now.  Bound: when the clock has stopped it fails.   *)
WebPunch(r) ==
    LET type == IF tx[r].op = "signIn" THEN "IN" ELSE "OUT" IN
    /\ tx[r].pc = "punch" /\ tx[r].op \in {"signIn", "signOut"}
    /\ \/ now = scenario.last /\ Abort(r)
       \/ /\ now < scenario.last
          /\ now' = now + 1
          /\ tx' = [tx EXCEPT ![r] = [tx[r] EXCEPT !.pc = "snapshot",
                                                   !.own = {Punch(now, type, "WEB", None)}]]
          /\ UNCHANGED <<scenario, punches, summary, behind, tangled>>

-----------------------------------------------------------------------------
(* recomputeDailySummary: read the punches of the day, the transaction's   *)
(* own among them; load the row; save what was computed.                   *)

ReadBeforeOwnPunch(r) ==    \* mutant: the summary is computed before the punch is saved
    /\ tx[r].pc = "snapshot"
    /\ Continue(r, [tx[r] EXCEPT
           !.pc = "load",
           !.sum = SummaryOf(pairPunches(getPunchesForDay(punches, tx[r].day, overnight),
                                         tx[r].day))])
Snapshot(r) ==
    LET seen == getPunchesForDay(punches \cup tx[r].own, tx[r].day, overnight) IN
    /\ tx[r].pc = "snapshot"
    /\ Continue(r, [tx[r] EXCEPT !.pc = "load", !.sum = SummaryOf(pairPunches(seen, tx[r].day))])

LoadSummary(r) ==
    /\ tx[r].pc = "load"
    /\ Continue(r, [tx[r] EXCEPT !.pc = "save", !.base = summary[tx[r].day]])

(* UQ_attendance_daily_org_emp_date: of two handlers that found no row the *)
(* second fails, and its punch with it.                                    *)
Conflicts(t) == ~t.base.exists /\ summary[t.day].exists

(* What the commit of t means to handler q: one that checked before is     *)
(* late, and so is one that read the punches or the row of its day before. *)
Late(q, t) ==
    {m \in {"check", "snapshot"} :
        \/ m = "check" /\ tx[q].pc # "idle" /\ t.own # {}
        \/ /\ m = "snapshot" /\ tx[q].pc \in {"load", "save"}
           /\ tx[q].day = t.day \/ getPunchesForDay(t.own, tx[q].day, overnight) # {}}
Overtaken(r, t) ==
    [q \in Requests |-> IF q = r THEN t ELSE [tx[q] EXCEPT !.missed = @ \cup Late(q, tx[r])]]

(* Whether a punch follows the ones that were there, and continues them.   *)
OutOfOrder(t) ==
    \/ t.op = "approve" \/ "check" \in t.missed
    \/ t.op \in {"push", "resolve"} /\ scenario.strict
    \/ \E p \in t.own, q \in punches : DayOf(p.at) = DayOf(q.at) /\ q.at >= p.at

SavedSummary(t) ==
    IF t.base.exists THEN SaveOver(summary[t.day], t.sum, t.base) ELSE t.sum

(* A web punch that was decided on earlier, or before midnight, may begin  *)
(* or end a session of another day than the one that is recomputed.  So    *)
(* may a correction, whose IN replaces one that the day before left open,  *)
(* and a web punch before the end of a correction that is yet to come.     *)
Elsewhere(t, d) ==
    LET pairs(P) == pairPunches(getPunchesForDay(P, d, overnight), d) IN
    /\ \/ t.op = "approve"
       \/ /\ t.op \in {"signIn", "signOut"}
          /\ \/ "check" \in t.missed
             \/ \E p \in t.own : p.type = "IN" /\ DayOf(p.at) # t.day
             \/ \E p \in t.own, q \in punches : p.at <= q.at
    /\ pairs(punches \cup t.own) # pairs(punches)

(* The transaction commits, and the handler goes on as next.               *)
CommitPunches(r, next) ==
    LET t == tx[r] IN
    /\ t.pc = "save"
    /\ ~Conflicts(t)
    /\ punches' = punches \cup t.own
    /\ summary' = [summary EXCEPT ![t.day] = SavedSummary(t)]
    /\ tx' = Overtaken(r, next)
    /\ behind' = [d \in Days |-> IF d = t.day THEN "snapshot" \in t.missed
                                 ELSE behind[d] \/ Elsewhere(t, d)]
    /\ tangled' = [d \in Days |-> tangled[d] \/ (OutOfOrder(t) /\ \E p \in t.own : DayOf(p.at) = d)]
    /\ UNCHANGED <<scenario, now>>

SaveSummary(r) ==
    /\ tx[r].op \in {"signIn", "signOut", "view"}
    /\ \/ CommitPunches(r, NoTx)
       \/ /\ tx[r].pc = "save" /\ Conflicts(tx[r])
          /\ Abort(r)

(* Nothing happens for the rest of the day.                                *)
NextDay ==
    /\ Asked("midnight")
    /\ (Today + 1) * DayLength < scenario.last
    /\ now' = (Today + 1) * DayLength
    /\ UNCHANGED <<scenario, punches, summary, tx, behind, tangled>>

AttendanceInit ==
    /\ scenario \in Scenarios
    /\ now = scenario.first
    /\ punches = {}
    /\ summary = [d \in Days |-> NoSummary]
    /\ tx = [r \in Requests |-> NoTx]
    /\ behind = [d \in Days |-> FALSE]
    /\ tangled = [d \in Days |-> FALSE]

WebStep(r) ==
    \/ signIn(r) \/ signOut(r) \/ WebPunch(r) \/ SaveSummary(r)
    \/ \E d \in Days : getDayDetail(r, d)
    \/ Snapshot(r) \/ LoadSummary(r)

=============================================================================
