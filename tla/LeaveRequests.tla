---------------------------- MODULE LeaveRequests ----------------------------
(***************************************************************************)
(* The leave requests of one employee in one year, and the balance of each *)
(* leave type they are charged to.  A request for leave adds to what is    *)
(* pending; a decision moves it to used or gives it back.  Handlers run in *)
(* transactions of their own and keep the balance they read in memory      *)
(* until they save it; the module interleaves their statements.            *)
(***************************************************************************)
EXTENDS LeaveDays

CONSTANTS
    Leaves,     \* leave_requests rows the employee may come to have
    Requests,   \* handlers that may be running at the same time
    Policies,   \* leave types that apply to the employee
    Rule,       \* the leave configuration of each type
    Spans,      \* bound: the ranges of days clients ask for
    Ops,        \* bound: the kinds of request clients send
    None        \* no leave, no leave type, no range

RuleType == [granted : Nat, negativeBalanceAllowed : BOOLEAN, maxDays : Nat,
             allowHalfDay : BOOLEAN, weekendsCountAsLeave : BOOLEAN,
             holidaysCountAsLeave : BOOLEAN]

ASSUME LeaveAssumption ==
    /\ IsFiniteSet(Leaves)
    /\ Rule \in [Policies -> RuleType]
    /\ Spans \subseteq [from : Nat, to : Nat, s1 : Sessions, s2 : Sessions]
    /\ \A s \in Spans : s.from <= s.to
    /\ None \notin Leaves \cup Policies \cup Spans

VARIABLES
    leave,      \* leave_requests: the committed rows
    balance,    \* employee_leave_balances: the committed row of each type
    tx,         \* the handlers that are running
    stale       \* history: a handler committed on something outdated

vars == <<leave, balance, tx, stale>>

NoLeave   == [status |-> "NONE", policy |-> None, span |-> None, days |-> 0]
NoBalance == [exists |-> FALSE, granted |-> 0, used |-> 0, pending |-> 0]
NoTx      == [op |-> "none", leave |-> None, pc |-> "idle", row |-> NoLeave,
              bal |-> NoBalance, inserts |-> FALSE, outdated |-> FALSE]

ACTIVE_LEAVE_STATUSES == {"PENDING", "APPROVED"}
Outcome   == [withdraw |-> "WITHDRAWN", approve |-> "APPROVED", reject |-> "REJECTED"]
DecideOps == DOMAIN Outcome

Active(i) == leave[i].status \in ACTIVE_LEAVE_STATUSES

-----------------------------------------------------------------------------
(* Balances.                                                               *)

NewBalance(p) == [exists |-> TRUE, granted |-> Rule[p].granted, used |-> 0, pending |-> 0]

(* UQ_emp_leave_balances_emp_config_year: an insert waits for another      *)
(* uncommitted row of the same leave type, and fails on a committed one.   *)
BalanceKeyFree(p) ==
    /\ ~balance[p].exists
    /\ \A q \in Requests : ~(tx[q].inserts /\ tx[q].row.policy = p)

(* Looking at the balances, or previewing a request, creates what is not   *)
(* there yet.                                                              *)
ensureBalance(p) ==
    /\ BalanceKeyFree(p)
    /\ balance' = [balance EXCEPT ![p] = NewBalance(p)]
    /\ UNCHANGED <<leave, tx, stale>>

-----------------------------------------------------------------------------
(* createRequest.                                                          *)

Continue(r, t) ==
    /\ tx' = [tx EXCEPT ![r] = t]
    /\ UNCHANGED <<leave, balance, stale>>

(* A handler that has read the row it works on, or made the one to insert. *)
Handler(op, i, row) ==
    [op |-> op, leave |-> i, pc |-> "getBalance", row |-> row,
     bal |-> NoBalance, inserts |-> FALSE, outdated |-> FALSE]

CreateByWholeDays(r, i, p, s) ==     \* mutant: half days are charged whole
    LET days == calculate([Rule[p] EXCEPT !.allowHalfDay = FALSE], s) IN
    /\ tx[r].pc = "idle"
    /\ "create" \in Ops
    /\ leave[i].status = "NONE" /\ \A q \in Requests : tx[q].leave # i
    /\ Continue(r, Handler("create", i, [status |-> "PENDING", policy |-> p,
                                         span |-> s, days |-> days]))
(* The duration is computed before the transaction begins.                 *)
createRequest(r, i, p, s) ==
    LET days == calculate(Rule[p], s) IN
    /\ tx[r].pc = "idle"
    /\ "create" \in Ops
    /\ leave[i].status = "NONE" /\ \A q \in Requests : tx[q].leave # i
    /\ days > 0
    /\ Continue(r, Handler("create", i, [status |-> "PENDING", policy |-> p,
                                         span |-> s, days |-> days]))

AvailableIgnoringPending(bal) == bal.granted - bal.used   \* mutant: pending days are free
Available(bal) == bal.granted - bal.used - bal.pending

(* The supporting document and the approver's existence do not depend on   *)
(* anything modelled here; a request they stop fails.                      *)
assertCanSubmit(row, bal) ==
    LET rule == Rule[row.policy] IN
    /\ ~rule.negativeBalanceAllowed => row.days <= Available(bal)
    /\ row.days <= rule.maxDays
    /\ ~rule.allowHalfDay => ~impliesPartialDay(row.span)

getOrCreateBalance(r) ==
    LET t == tx[r]  p == t.row.policy IN
    /\ t.pc = "getBalance" /\ t.op = "create"
    /\ \/ /\ balance[p].exists
          /\ assertCanSubmit(t.row, balance[p])
          /\ Continue(r, [t EXCEPT !.pc = "overlap", !.bal = balance[p]])
       \/ /\ BalanceKeyFree(p)
          /\ assertCanSubmit(t.row, NewBalance(p))
          /\ Continue(r, [t EXCEPT !.pc = "overlap", !.bal = NewBalance(p),
                                   !.inserts = TRUE])

(* The query runs outside the transaction, on the committed rows.          *)
NoOverlapWithApproved(span) ==  \* mutant: a pending leave does not block
    \A i \in Leaves : leave[i].status = "APPROVED" => ~leaveRangesConflict(span, leave[i].span)
assertNoOverlappingLeave(span) ==
    \A i \in Leaves : Active(i) => ~leaveRangesConflict(span, leave[i].span)

CheckOverlap(r) ==
    /\ tx[r].pc = "overlap"
    /\ assertNoOverlappingLeave(tx[r].row.span)
    /\ Continue(r, [tx[r] EXCEPT !.pc = "insert"])

-----------------------------------------------------------------------------
(* Commits.  The UPDATE of the balance takes its row lock, which every     *)
(* other handler of the same leave type needs before it can commit: from   *)
(* the UPDATE to COMMIT nothing the handler touches can change.            *)

(* What a commit of r makes outdated: the row of the same leave, a balance *)
(* of the same type that was read, and, when r adds a leave, the answer of *)
(* an overlap query.                                                       *)
Outdated(q, r) ==
    \/ tx[q].outdated
    \/ tx[q].leave = tx[r].leave
    \/ tx[q].row.policy = tx[r].row.policy /\ tx[q].pc # "getBalance"
    \/ tx[r].op = "create" /\ tx[q].pc = "insert"

Commit(r) ==
    /\ tx' = [q \in Requests |->
                IF q = r THEN NoTx
                ELSE IF tx[q].pc = "idle" THEN tx[q]
                ELSE [tx[q] EXCEPT !.outdated = Outdated(q, r)]]
    /\ stale' = (stale \/ tx[r].outdated)

incrementPending(bal, days) == bal.pending + days
decrementPending(bal, days) == IF bal.pending > days THEN bal.pending - days ELSE 0

(* Save writes a column that it was given, whatever its value: the text in *)
(* memory never has the two decimals of the column.  It reads the row once *)
(* more and writes the others too where they differ from what is in        *)
(* memory; what commits after that second read stays.                      *)
UsedKept(t) == IF t.inserts THEN {t.bal.used} ELSE {t.bal.used, balance[t.row.policy].used}

InsertRequest(r) ==
    LET t   == tx[r]
        p   == t.row.policy
        old == IF t.inserts THEN t.bal ELSE balance[p]
    IN  /\ t.pc = "insert"
        /\ leave'   = [leave EXCEPT ![t.leave] = t.row]
        /\ \E used \in UsedKept(t) :
              balance' = [balance EXCEPT ![p] =
                            [old EXCEPT !.pending = incrementPending(t.bal, t.row.days), !.used = used]]
        /\ Commit(r)

-----------------------------------------------------------------------------
(* withdrawRequest, approveLeaveRequest, rejectLeaveRequest.               *)

FindPending(r, op, i) ==
    /\ tx[r].pc = "idle"
    /\ op \in Ops
    /\ leave[i].status = "PENDING"
    /\ Continue(r, Handler(op, i, leave[i]))

withdrawRequest(r, i)     == FindPending(r, "withdraw", i)
approveLeaveRequest(r, i) == FindPending(r, "approve", i)
rejectLeaveRequest(r, i)  == FindPending(r, "reject", i)

ReadBalance(r) ==
    /\ tx[r].pc = "getBalance" /\ tx[r].op \in DecideOps
    /\ Continue(r, [tx[r] EXCEPT !.pc = "decide", !.bal = balance[tx[r].row.policy]])

UsedAsBefore(t) == UsedKept(t)      \* mutant: approval deducts nothing
UsedAfter(t) == IF t.op = "approve" THEN {t.bal.used + t.row.days} ELSE UsedKept(t)

(* The status is written whatever it has become since it was read.         *)
Decide(r) ==
    LET t == tx[r] IN
    /\ t.pc = "decide"
    /\ leave'   = [leave EXCEPT ![t.leave].status = Outcome[t.op]]
    /\ \E used \in UsedAfter(t) :
          balance' = [balance EXCEPT
                        ![t.row.policy].pending = decrementPending(t.bal, t.row.days),
                        ![t.row.policy].used    = used]
    /\ Commit(r)

(* Any exception rolls the transaction back.                               *)
Fail(r) ==
    /\ tx[r].pc # "idle"
    /\ Continue(r, NoTx)

-----------------------------------------------------------------------------
Init ==
    /\ leave   = [i \in Leaves |-> NoLeave]
    /\ balance = [p \in Policies |-> NoBalance]
    /\ tx      = [r \in Requests |-> NoTx]
    /\ stale   = FALSE

Next ==
    \/ \E p \in Policies : ensureBalance(p)
    \/ \E r \in Requests :
        \/ \E i \in Leaves, p \in Policies, s \in Spans : createRequest(r, i, p, s)
        \/ \E i \in Leaves :
            withdrawRequest(r, i) \/ approveLeaveRequest(r, i) \/ rejectLeaveRequest(r, i)
        \/ getOrCreateBalance(r) \/ CheckOverlap(r) \/ InsertRequest(r)
        \/ ReadBalance(r) \/ Decide(r)
        \/ Fail(r)

Spec == Init /\ [][Next]_vars

-----------------------------------------------------------------------------
(* Properties.                                                             *)

LeaveType   == [status : {"PENDING", "APPROVED", "REJECTED", "WITHDRAWN"},
                policy : Policies, span : Spans, days : Nat]
BalanceType == [exists : BOOLEAN, granted : Nat, used : Nat, pending : Nat]
Phases      == {"idle", "getBalance", "overlap", "insert", "decide"}
TxType      == [op : {"none", "create"} \cup DecideOps, leave : Leaves \cup {None},
                pc : Phases, row : LeaveType \cup {NoLeave}, bal : BalanceType,
                inserts : BOOLEAN, outdated : BOOLEAN]

(* Rows and handlers hold values of their columns' types: no balance ever  *)
(* shows a negative number of pending days.                                *)
TypeOK ==
    /\ leave   \in [Leaves -> LeaveType \cup {NoLeave}]
    /\ balance \in [Policies -> BalanceType]
    /\ tx      \in [Requests -> TxType]
    /\ stale   \in BOOLEAN

DaysIn(p, status) ==
    SumFunction([i \in {j \in Leaves : leave[j].policy = p /\ leave[j].status = status}
                    |-> leave[i].days])

(* As long as no handler commits on something outdated, what a balance     *)
(* shows as pending and as used is the sum of the leaves that are.         *)
BalancesMatchLeaves ==
    ~stale => \A p \in Policies :
        /\ balance[p].pending = DaysIn(p, "PENDING")
        /\ balance[p].used = DaysIn(p, "APPROVED")

(* ... no more days are requested and taken than were granted.             *)
NoOverdraft ==
    ~stale => \A p \in Policies :
        Rule[p].negativeBalanceAllowed
            \/ DaysIn(p, "PENDING") + DaysIn(p, "APPROVED") <= Rule[p].granted

SessionsTaken(i) == SessionsIn(leave[i].span)

NoSharedSession ==
    \A i, j \in Leaves :
        i # j /\ Active(i) /\ Active(j) => SessionsTaken(i) \cap SessionsTaken(j) = {}

(* ... the employee is never away twice in the same half of a day,         *)
(* whatever the leave types, pending or approved.                          *)
BookedOnce == ~stale => NoSharedSession

(* Comment on sessionsCoveredOnDay: it aligns with the half-day weighting  *)
(* of the day calculator.  A leave is charged one half day for each half   *)
(* it takes of the days that count.                                        *)
ChargedForSessionsTaken ==
    \A i \in Leaves : leave[i].status # "NONE" =>
        leave[i].days = Cardinality({x \in SessionsTaken(i) :
                                        countsAsLeaveDay(Rule[leave[i].policy], x[1])})

(* BACKEND.md: approve is idempotent on expected pending status only, a    *)
(* concurrent second actor gets a conflict.  A decision is never replaced. *)
DecidedOnce ==
    [][\A i \in Leaves : leave[i].status \notin {"NONE", "PENDING"} =>
            leave'[i].status = leave[i].status]_vars

(* Comment on assertNoOverlappingLeave: block pending or approved leave    *)
(* that shares any half-day session with the new request.                  *)
NeverBookedTwice == NoSharedSession

=============================================================================
