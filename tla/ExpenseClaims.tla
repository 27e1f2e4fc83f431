---------------------------- MODULE ExpenseClaims ----------------------------
(***************************************************************************)
(* The expense claims of one employee: header, lines, total and audit      *)
(* trail, edited by the employee and moved on by the manager and by        *)
(* finance.  Every request runs in a transaction of its own; the module    *)
(* interleaves their statements.  A request is a record tx[r] that holds   *)
(* what the handler holds in local variables between two awaits.           *)
(***************************************************************************)
EXTENDS Integers, FiniteSets, Functions, Persistence

CONSTANTS
    Claims,          \* claims of the employee
    Requests,        \* requests that may be in flight at the same time
    MaxRows,         \* bound: rows ever inserted into expense_claim_lines
    Items,           \* what a line can say: merchant, date and amount together
    AmountOf,        \* the amount of an item
    MaxLines,        \* policy.maxLinesPerClaim
    MaxClaimAmount,  \* policy.maxClaimAmount
    MaxSubmits,      \* bound: submissions of one claim after which none starts
    Ops,             \* bound: the kinds of request clients send
    None             \* no claim, no item

ASSUME ConstantsAssumption ==
    /\ AmountOf \in [Items -> Nat \ {0}]
    /\ MaxRows \in Nat /\ MaxLines \in Nat /\ MaxClaimAmount \in Nat
    /\ None \notin Claims
    /\ None \notin Items

VARIABLES
    claim,   \* expense_claims: the committed header rows
    line,    \* expense_claim_lines: the committed line rows
    audit,   \* expense_claim_audit_logs: counts per action and the last entry
    tx,      \* the requests in flight
    lost     \* history: a request of the employee committed on a stale read

vars == <<claim, line, audit, tx, lost>>

LineIds == 1..MaxRows

Statuses == {"NONE", "DRAFT", "PENDING_MANAGER", "PENDING_FINANCE", "SENT_BACK",
             "APPROVED", "PAID", "REJECTED", "WITHDRAWN"}
EDITABLE_STATUSES == {"DRAFT", "SENT_BACK"}
NonTerminalWithoutDrafts ==     \* mutant: a draft does not block a duplicate
    {"PENDING_MANAGER", "PENDING_FINANCE", "SENT_BACK", "APPROVED"}
NON_TERMINAL_STATUSES ==
    {"DRAFT", "PENDING_MANAGER", "PENDING_FINANCE", "SENT_BACK", "APPROVED"}
WithdrawableAfterApproval ==    \* mutant: an approved claim can be withdrawn
    {"DRAFT", "SENT_BACK", "PENDING_MANAGER", "PENDING_FINANCE", "APPROVED"}
WithdrawableStatuses ==
    {"DRAFT", "SENT_BACK", "PENDING_MANAGER", "PENDING_FINANCE"}

LineOps     == {"addLine", "updateLine", "deleteLine"}
EmployeeOps == LineOps \cup {"updateDraft", "submit", "withdraw"}

(* The reviewers' requests: the status each expects and the one it sets.   *)
ExpectedStatus ==
    [managerApprove  |-> "PENDING_MANAGER", managerReject   |-> "PENDING_MANAGER",
     managerSendBack |-> "PENDING_MANAGER", financeApprove  |-> "PENDING_FINANCE",
     financeReject   |-> "PENDING_FINANCE", financeSendBack |-> "PENDING_FINANCE",
     markPaid        |-> "APPROVED"]
TargetStatus ==
    [managerApprove  |-> "PENDING_FINANCE", managerReject   |-> "REJECTED",
     managerSendBack |-> "SENT_BACK",       financeApprove  |-> "APPROVED",
     financeReject   |-> "REJECTED",        financeSendBack |-> "SENT_BACK",
     markPaid        |-> "PAID"]
ReviewOps == DOMAIN ExpectedStatus

NoRow   == [claim |-> None, no |-> 0, item |-> None, live |-> FALSE]
NoClaim == [status |-> "NONE", total |-> 0, paid |-> FALSE]
NoTx    == [op |-> "none", claim |-> None, pc |-> "idle",
            ent |-> NoClaim, base |-> NoClaim,
            id |-> 0, row |-> NoRow, old |-> NoRow, fresh |-> TRUE]

-----------------------------------------------------------------------------
(* What a transaction sees.                                                *)

(* A line write is held, invisible and locked, until the request commits.  *)
HoldsLine(r) ==
    tx[r].op \in LineOps /\ tx[r].pc \in {"total", "load", "save"} /\ tx[r].id # 0

ViewLine(r, l) == IF HoldsLine(r) /\ tx[r].id = l THEN tx[r].row ELSE line[l]

LinesWithDeleted(r, c) == {l \in LineIds : ViewLine(r, l).claim = c}   \* mutant
LiveLines(r, c) ==
    {l \in LineIds : ViewLine(r, l).claim = c /\ ViewLine(r, l).live}

SumOf(r, c) ==
    SumFunction([l \in LiveLines(r, c) |-> AmountOf[ViewLine(r, l).item]])

(* The row lock on a line: another request's uncommitted write blocks.     *)
LineUnlocked(r, l) == \A q \in Requests \ {r} : ~(HoldsLine(q) /\ tx[q].id = l)

(* UQ_expense_claim_lines_claim_lineno, partial on deletedAt IS NULL: an   *)
(* insert waits for an uncommitted row with its key, and fails on a        *)
(* committed one.                                                          *)
LineNoFree(r, row, l) ==
    LET sameKey(o) == o.live /\ o.claim = row.claim /\ o.no = row.no IN
    /\ \A k \in LineIds \ {l} : ~sameKey(line[k])
    /\ \A q \in Requests \ {r} : ~(HoldsLine(q) /\ tx[q].id # l /\ sameKey(tx[q].row))

-----------------------------------------------------------------------------
(* Requests of the employee.                                               *)

(* The unique index on claim numbers makes one of two racing creations     *)
(* fail, so a claim comes into being in one step.                          *)
createDraft(c) ==
    /\ claim[c].status = "NONE"
    /\ claim' = [claim EXCEPT ![c].status = "DRAFT"]
    /\ audit' = [audit EXCEPT ![c].to = "DRAFT"]
    /\ UNCHANGED <<line, tx, lost>>

(* The transaction's first statement reads the claim into memory.          *)
Begin(r, op, c, next, ent, id, row) ==
    /\ tx[r].pc = "idle"
    /\ op \in Ops
    /\ tx' = [tx EXCEPT ![r] =
                [op |-> op, claim |-> c, pc |-> next, ent |-> ent, base |-> NoClaim,
                 id |-> id, row |-> row, old |-> NoRow, fresh |-> TRUE]]
    /\ UNCHANGED <<claim, line, audit, lost>>

findEditableClaim(c) == claim[c].status \in EDITABLE_STATUSES

updateDraft(r, c) ==
    /\ findEditableClaim(c)
    /\ Begin(r, "updateDraft", c, "load", claim[c], 0, NoRow)

addLine(r, c, item) ==
    /\ findEditableClaim(c)
    /\ Begin(r, "addLine", c, "count", claim[c], 0,
             [claim |-> c, no |-> 0, item |-> item, live |-> TRUE])

updateLine(r, c, l, item) ==
    /\ findEditableClaim(c)
    /\ Begin(r, "updateLine", c, "find", claim[c], l, [NoRow EXCEPT !.item = item])

deleteLine(r, c, l) ==
    /\ findEditableClaim(c)
    /\ Begin(r, "deleteLine", c, "find", claim[c], l, NoRow)

submit(r, c) ==
    /\ findEditableClaim(c)
    /\ audit[c].submitted < MaxSubmits
    /\ Begin(r, "submit", c, "validate", claim[c], 0, NoRow)

withdraw(r, c) ==
    /\ claim[c].status \in WithdrawableStatuses
    /\ Begin(r, "withdraw", c, "load", [claim[c] EXCEPT !.status = "WITHDRAWN"], 0, NoRow)

-----------------------------------------------------------------------------
(* The statements between the first read and the save of the claim.        *)

Continue(r, new) ==
    /\ tx' = [tx EXCEPT ![r] = new]
    /\ UNCHANGED <<claim, line, audit, lost>>

ZeroBasedCountLines(r) ==       \* mutant: the line number starts at zero
    LET lines == LiveLines(r, tx[r].claim) IN
    /\ tx[r].pc = "count"
    /\ Cardinality(lines) < MaxLines
    /\ Continue(r, [tx[r] EXCEPT !.pc = "insert", !.row.no = Cardinality(lines)])

(* addLine: the limit is checked and the number taken from the lines that  *)
(* are committed now; the receipt is stored before the line is inserted.   *)
CountLines(r) ==
    LET lines == LiveLines(r, tx[r].claim) IN
    /\ tx[r].pc = "count"
    /\ Cardinality(lines) < MaxLines
    /\ \E last \in {0} \cup {line[l].no : l \in lines} :
        /\ \A l \in lines : line[l].no <= last
        /\ Continue(r, [tx[r] EXCEPT !.pc = "insert", !.row.no = last + 1])

FreshId(l) ==
    /\ line[l].claim = None
    /\ \A q \in Requests : tx[q].id # l

InsertLine(r) ==
    /\ tx[r].pc = "insert"
    /\ \E l \in LineIds :
        /\ FreshId(l)
        /\ \A k \in LineIds : k < l => ~FreshId(k)
        /\ LineNoFree(r, tx[r].row, l)
        /\ Continue(r, [tx[r] EXCEPT !.pc = "total", !.id = l])

FindLine(r) ==
    LET found == line[tx[r].id] IN
    /\ tx[r].pc = "find"
    /\ found.live /\ found.claim = tx[r].claim
    /\ IF tx[r].op = "updateLine"
       THEN Continue(r, [tx[r] EXCEPT !.pc = "lineLoad",
                                      !.row = [found EXCEPT !.item = tx[r].row.item]])
       ELSE Continue(r, [tx[r] EXCEPT !.pc = "remove"])

LoadLine(r) ==
    /\ tx[r].pc = "lineLoad"
    /\ Continue(r, [tx[r] EXCEPT !.pc = "lineSave", !.old = line[tx[r].id]])

(* A line whose columns all agree with the loaded row is not written.      *)
SaveLine(r) ==
    LET l   == tx[r].id
        new == SaveOver(line[l], tx[r].row, tx[r].old)
    IN  /\ tx[r].pc = "lineSave"
        /\ LineUnlocked(r, l)
        /\ new.live => LineNoFree(r, new, l)
        /\ Continue(r, [tx[r] EXCEPT !.pc = "total", !.row = new, !.old = NoRow,
                                     !.id = IF tx[r].row = tx[r].old THEN 0 ELSE l])

RemoveLine(r) ==
    /\ tx[r].pc = "remove"
    /\ LineUnlocked(r, tx[r].id)
    /\ Continue(r, [tx[r] EXCEPT !.pc = "total",
                                 !.row = [line[tx[r].id] EXCEPT !.live = FALSE]])

(* A live line in another place that repeats the item while its claim is   *)
(* on its way: the exact-duplicate block of submit.                        *)
HasDuplicate(r, l) ==
    \E k \in LineIds \ {l} :
        /\ line[k].live
        /\ line[k].item = line[l].item
        /\ claim[line[k].claim].status \in NON_TERMINAL_STATUSES

ValidateAcceptingEmpty(r) ==    \* mutant: no line is required
    LET lines == LiveLines(r, tx[r].claim) IN
    /\ tx[r].pc = "validate"
    /\ \A l \in lines : ~HasDuplicate(r, l)
    /\ Continue(r, [tx[r] EXCEPT !.pc = "total"])
validateForSubmit(r) ==
    LET lines == LiveLines(r, tx[r].claim) IN
    /\ tx[r].pc = "validate"
    /\ lines # {}
    /\ Cardinality(lines) <= MaxLines
    /\ \A l \in lines : ~HasDuplicate(r, l)
    /\ SumOf(r, tx[r].claim) <= MaxClaimAmount
    /\ Continue(r, [tx[r] EXCEPT !.pc = "total"])

recomputeTotal(r) ==
    /\ tx[r].pc = "total"
    /\ Continue(r, [tx[r] EXCEPT !.pc = "load", !.ent.total = SumOf(r, tx[r].claim)])

LoadClaim(r) ==
    /\ tx[r].pc = "load"
    /\ Continue(r, [tx[r] EXCEPT !.pc = "save", !.base = claim[tx[r].claim]])

-----------------------------------------------------------------------------
(* The UPDATE of the claim, the audit entry and COMMIT.  From the UPDATE   *)
(* on, the request holds the row lock and reads nothing others can change, *)
(* so the three are one step.                                              *)

Logged(entry, op, to) ==
    [entry EXCEPT !.to = to,
                  !.submitted       = IF op = "submit"         THEN @ + 1 ELSE @,
                  !.managerApproved = IF op = "managerApprove" THEN @ + 1 ELSE @,
                  !.financeApproved = IF op = "financeApprove" THEN @ + 1 ELSE @,
                  !.markedPaid      = IF op = "markPaid"       THEN @ + 1 ELSE @]

(* The others in flight on this claim now hold something outdated.         *)
Ended(r) ==
    [q \in Requests |->
        IF q = r THEN NoTx
        ELSE IF tx[q].claim = tx[r].claim THEN [tx[q] EXCEPT !.fresh = FALSE]
        ELSE tx[q]]

CommitLoggingOldStatus(r, new, to) ==   \* mutant: the entry repeats the old status
    LET c == tx[r].claim IN
    /\ claim' = [claim EXCEPT ![c] = new]
    /\ line'  = IF HoldsLine(r) THEN [line EXCEPT ![tx[r].id] = tx[r].row] ELSE line
    /\ audit' = [audit EXCEPT ![c] = Logged(@, tx[r].op, claim[c].status)]
    /\ tx'    = Ended(r)
Commit(r, new, to) ==
    LET c == tx[r].claim IN
    /\ claim' = [claim EXCEPT ![c] = new]
    /\ line'  = IF HoldsLine(r) THEN [line EXCEPT ![tx[r].id] = tx[r].row] ELSE line
    /\ audit' = [audit EXCEPT ![c] = Logged(@, tx[r].op, to)]
    /\ tx'    = Ended(r)

(* updateDraft, withdraw and the line operations save the claim once.      *)
SaveClaim(r) ==
    LET t == tx[r] IN
    /\ t.pc = "save" /\ t.op # "submit"
    /\ Commit(r, SaveOver(claim[t.claim], t.ent, t.base), t.ent.status)
    /\ lost' = [lost EXCEPT ![t.claim] = @ \/ ~t.fresh]

(* submit saves it twice: once in recomputeTotal, and once for the status. *)
(* If the first save writes nothing the row is not locked yet and is       *)
(* loaded afresh; if it writes, the second save finds its own row and      *)
(* writes the rest.                                                        *)
SaveTotalOnSubmit(r) ==
    LET t   == tx[r]
        sub == [t.ent EXCEPT !.status = "PENDING_MANAGER"]
    IN  /\ t.pc = "save" /\ t.op = "submit" /\ t.ent.status # "PENDING_MANAGER"
        /\ IF t.ent = t.base
           THEN Continue(r, [t EXCEPT !.pc = "load", !.ent = sub])
           ELSE /\ Commit(r, sub, "PENDING_MANAGER")
                /\ lost' = [lost EXCEPT ![t.claim] = @ \/ ~t.fresh]

SaveStatusOnSubmit(r) ==
    LET t == tx[r] IN
    /\ t.pc = "save" /\ t.op = "submit" /\ t.ent.status = "PENDING_MANAGER"
    /\ Commit(r, SaveOver(claim[t.claim], t.ent, t.base), "PENDING_MANAGER")
    /\ lost' = [lost EXCEPT ![t.claim] = @ \/ ~t.fresh]

-----------------------------------------------------------------------------
(* Requests of the manager and of finance.                                 *)

FindForReview(r, op, c) ==
    /\ claim[c].status = ExpectedStatus[op]
    /\ Begin(r, op, c, "decide", NoClaim, 0, NoRow)

Unconditional(r) == claim[tx[r].claim].status # "NONE"   \* mutant: UPDATE ... WHERE id

(* UPDATE ... WHERE id AND status: nothing is written, and the request     *)
(* ends in a conflict, unless the status is still the expected one.        *)
DecideGuard(r) == claim[tx[r].claim].status = ExpectedStatus[tx[r].op]

Decide(r) ==
    LET t == tx[r] IN
    /\ t.pc = "decide"
    /\ DecideGuard(r)
    /\ Commit(r, [claim[t.claim] EXCEPT !.status = TargetStatus[t.op],
                                        !.paid = @ \/ t.op = "markPaid"],
              TargetStatus[t.op])
    /\ UNCHANGED lost

(* Any exception rolls the transaction back: a failed check, a conflict, a *)
(* violated index, an error of the storage service or of the connection.   *)
Fail(r) ==
    /\ tx[r].pc # "idle"
    /\ tx' = [tx EXCEPT ![r] = NoTx]
    /\ UNCHANGED <<claim, line, audit, lost>>

-----------------------------------------------------------------------------
NoAudit == [to |-> "NONE", submitted |-> 0, managerApproved |-> 0,
            financeApproved |-> 0, markedPaid |-> 0]

Init ==
    /\ claim = [c \in Claims |-> NoClaim]
    /\ line  = [l \in LineIds |-> NoRow]
    /\ audit = [c \in Claims |-> NoAudit]
    /\ tx    = [r \in Requests |-> NoTx]
    /\ lost  = [c \in Claims |-> FALSE]

RowsOf(c) == {l \in LineIds : line[l].claim = c}

Start(r) ==
    \E c \in Claims :
        \/ updateDraft(r, c)
        \/ \E i \in Items : addLine(r, c, i)
        \/ \E l \in RowsOf(c), i \in Items : updateLine(r, c, l, i)
        \/ \E l \in RowsOf(c) : deleteLine(r, c, l)
        \/ submit(r, c)
        \/ withdraw(r, c)
        \/ \E op \in ReviewOps : FindForReview(r, op, c)

Step(r) ==
    \/ CountLines(r) \/ InsertLine(r)
    \/ FindLine(r) \/ LoadLine(r) \/ SaveLine(r) \/ RemoveLine(r)
    \/ validateForSubmit(r) \/ recomputeTotal(r) \/ LoadClaim(r)
    \/ SaveClaim(r) \/ SaveTotalOnSubmit(r) \/ SaveStatusOnSubmit(r)
    \/ Decide(r)

Next ==
    \/ \E c \in Claims : createDraft(c)
    \/ \E r \in Requests : Start(r) \/ Step(r) \/ Fail(r)

Spec == Init /\ [][Next]_vars

-----------------------------------------------------------------------------
(* Properties.                                                             *)

(* A header, whose total is left to TotalsMatchLines, and a line.          *)
IsClaim(x) ==
    /\ x = [status |-> x.status, total |-> x.total, paid |-> x.paid]
    /\ x.status \in Statuses /\ x.paid \in BOOLEAN
LineType  == [claim : Claims, no : Nat \ {0}, item : Items, live : BOOLEAN]
AuditType == [to : Statuses, submitted : Nat, managerApproved : Nat,
              financeApproved : Nat, markedPaid : Nat]
Phases    == {"idle", "count", "insert", "find", "lineLoad", "lineSave", "remove",
              "validate", "total", "load", "save", "decide"}
IsTx(t) ==
    /\ t = [op |-> t.op, claim |-> t.claim, pc |-> t.pc, ent |-> t.ent, base |-> t.base,
            id |-> t.id, row |-> t.row, old |-> t.old, fresh |-> t.fresh]
    /\ t.pc \in Phases /\ t.fresh \in BOOLEAN /\ t.id \in LineIds \cup {0}
    /\ IF t.pc = "idle" THEN t = NoTx
                        ELSE t.op \in EmployeeOps \cup ReviewOps /\ t.claim \in Claims
    /\ IsClaim(t.ent) /\ IsClaim(t.base)

(* Every row and every request holds values of its columns' types: in      *)
(* particular lines are numbered from one, and a line that is inserted or  *)
(* saved over a stale copy is a whole line.                                *)
TypeOK ==
    /\ DOMAIN claim = Claims /\ \A c \in Claims : IsClaim(claim[c])
    /\ line  \in [LineIds -> LineType \cup {NoRow}]
    /\ audit \in [Claims -> AuditType]
    /\ DOMAIN tx = Requests /\ \A r \in Requests : IsTx(tx[r])
    /\ lost  \in [Claims -> BOOLEAN]

CommittedLines(c) == {l \in LineIds : line[l].claim = c /\ line[l].live}
CommittedSum(c)   == SumFunction([l \in CommittedLines(c) |-> AmountOf[line[l].item]])
UnderReview(c)    ==
    claim[c].status \in {"PENDING_MANAGER", "PENDING_FINANCE", "APPROVED", "PAID"}

TakesStagesInOrder ==
    \A c \in Claims : LET from == claim[c].status  to == claim'[c].status IN
        from # to =>
            /\ to = "PENDING_FINANCE" => from = "PENDING_MANAGER"
            /\ to = "APPROVED" => from = "PENDING_FINANCE"
            /\ to = "PAID" => from = "APPROVED"
            /\ to = "REJECTED" => from \in {"PENDING_MANAGER", "PENDING_FINANCE"}

(* However requests interleave, a claim reaches finance only from the      *)
(* manager's queue, is approved only from finance's queue, paid only once  *)
(* approved, and rejected only while under review: the conditional updates *)
(* of managerApprove, financeApprove, markPaid and rejectClaim, against    *)
(* saves of the employee that write a status read long before.             *)
StageOrder == [][TakesStagesInOrder]_vars

(* Every payment is backed by an approval of finance of its own, every     *)
(* such approval by one of the manager, and that by a submission: the      *)
(* audit trail never shows more of a stage than of the one before, even    *)
(* for a claim that a stale save put back to an earlier stage.             *)
PaymentsBacked ==
    \A c \in Claims :
        /\ audit[c].markedPaid <= audit[c].financeApproved
        /\ audit[c].financeApproved <= audit[c].managerApproved
        /\ audit[c].managerApproved <= audit[c].submitted

(* As long as no request of the employee commits on a stale read, the      *)
(* total of a claim is the sum of its lines, in every status.              *)
TotalsMatchLines == \A c \in Claims : ~lost[c] => claim[c].total = CommittedSum(c)

(* ... a claim under review or paid has the lines submit demands.          *)
ReviewedClaimsAreValid ==
    \A c \in Claims : ~lost[c] /\ UnderReview(c) =>
        /\ CommittedLines(c) # {}
        /\ Cardinality(CommittedLines(c)) <= MaxLines
        /\ CommittedSum(c) <= MaxClaimAmount

(* ... the same expense is not on its way twice, on one claim or on two,   *)
(* although each submission checks the other claims without locking them.  *)
NoDuplicateUnderReview ==
    \A k, l \in LineIds :
        LET c == line[k].claim  d == line[l].claim IN
        k # l /\ line[k].live /\ line[l].live /\ line[k].item = line[l].item =>
            ~( /\ ~lost[c] /\ UnderReview(c) /\ claim[c].status # "PAID"
               /\ ~lost[d] /\ UnderReview(d) /\ claim[d].status # "PAID")

(* ... the last audit entry names the status the claim is in, and the      *)
(* payment columns are set exactly in status PAID.                         *)
AuditMatchesStatus ==
    \A c \in Claims : ~lost[c] =>
        /\ audit[c].to = claim[c].status
        /\ claim[c].paid <=> claim[c].status = "PAID"
        /\ audit[c].markedPaid = IF claim[c].status = "PAID" THEN 1 ELSE 0

(* The claim as ClaimLifecycle sees it: a claim that a stale save reached  *)
(* is overwritten, any other has the stage of its status and the amount of *)
(* its lines.                                                              *)
Lifecycle == INSTANCE ClaimLifecycle WITH
    Amounts <- Nat,
    stage   <- [c \in Claims |-> IF lost[c] THEN "OVERWRITTEN" ELSE claim[c].status],
    amount  <- [c \in Claims |-> IF lost[c] THEN 0 ELSE claim[c].total]

(* Requests that interleave statement by statement look, claim by claim,   *)
(* like the atomic requests of ClaimLifecycle: the amount a reviewer       *)
(* decides on and finance pays is the amount that was submitted.           *)
ImplementsLifecycle == Lifecycle!Spec

(* API_INVENTORY.md: submitted and approved claims are locked by the       *)
(* service.  Lines and total of a claim under review stay as submitted.    *)
LockedOnceSubmitted ==
    [][\A c \in Claims : UnderReview(c) =>
        /\ claim'[c].total = claim[c].total
        /\ CommittedSum(c)' = CommittedSum(c)]_vars

(* The message of withdraw: only draft, sent-back, or pending claims can   *)
(* be withdrawn, so an approved or paid claim is never withdrawn.          *)
WithdrawnOnlyWhilePending ==
    [][\A c \in Claims :
        claim'[c].status = "WITHDRAWN" /\ claim[c].status # "WITHDRAWN" =>
            claim[c].status \in WithdrawableStatuses]_vars

=============================================================================
