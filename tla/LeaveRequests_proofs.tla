------------------------- MODULE LeaveRequests_proofs -------------------------
(***************************************************************************)
(* What holds of LeaveDays and LeaveRequests for every value of their      *)
(* constants: the two services that count half days agree, leaves are      *)
(* charged for the half days they take, and unless a handler commits on    *)
(* something outdated an employee is never booked twice, balances are the  *)
(* sums of the leaves, and none is overdrawn.                              *)
(***************************************************************************)
EXTENDS LeaveRequests, Sums

-----------------------------------------------------------------------------
(* The arithmetic of leave.                                                *)

SpanType == [from : Nat, to : Nat, s1 : Sessions, s2 : Sessions]

(* The half days the calculator charges for a day of a leave are the       *)
(* halves of that day the overlap check holds to be taken.                 *)
THEOREM WeightIsSessionsCovered ==
    ASSUME NEW s \in SpanType, s.from <= s.to, NEW d \in s.from..s.to
    PROVE  WeightOfPartialDay(s, d) = Cardinality(sessionsCoveredOnDay(s, d))
<1>1. /\ s.from \in Nat /\ s.to \in Nat /\ s.s1 \in {1, 2} /\ s.s2 \in {1, 2}
      /\ d \in Nat /\ s.from <= d /\ d <= s.to
    BY DEF SpanType, Sessions
<1>2. /\ Cardinality({1}) = 1 /\ Cardinality({2}) = 1
      /\ Cardinality({1, 2}) = 2
    <2>1. Cardinality({1}) = 1 /\ Cardinality({2}) = 1
        BY FS_Singleton
    <2>2. IsFiniteSet({1})
        BY FS_Singleton
    <2>3. Cardinality({1} \cup {2}) = Cardinality({1}) + 1
        <3>1. 2 \notin {1}
            OBVIOUS
        <3> QED BY <3>1, <2>2, FS_AddElement
    <2>4. {1} \cup {2} = {1, 2}
        OBVIOUS
    <2> QED BY <2>1, <2>3, <2>4
<1>3. CASE SameDay(s)
    <2>1. sessionsCoveredOnDay(s, d) = {s.s1, s.s2}
        BY <1>1, <1>3 DEF sessionsCoveredOnDay, SameDay
    <2>2. WeightOfPartialDay(s, d) = IF s.s1 = s.s2 THEN 1 ELSE 2
        BY <1>3 DEF WeightOfPartialDay
    <2>3. CASE s.s1 = s.s2
        <3>1. {s.s1, s.s2} = {1} \/ {s.s1, s.s2} = {2}
            BY <1>1, <2>3
        <3> QED BY <3>1, <2>1, <2>2, <2>3, <1>2
    <2>4. CASE s.s1 # s.s2
        <3>1. {s.s1, s.s2} = {1, 2}
            BY <1>1, <2>4
        <3> QED BY <3>1, <2>1, <2>2, <2>4, <1>2
    <2> QED BY <2>3, <2>4
<1>4. CASE ~SameDay(s) /\ d = s.from
    <2>1. sessionsCoveredOnDay(s, d) = {s.s1}
        BY <1>1, <1>4 DEF sessionsCoveredOnDay, SameDay
    <2>2. WeightOfPartialDay(s, d) = 1
        BY <1>1, <1>4 DEF WeightOfPartialDay, SameDay
    <2>3. {s.s1} = {1} \/ {s.s1} = {2}
        BY <1>1
    <2> QED BY <2>1, <2>2, <2>3, <1>2
<1>5. CASE ~SameDay(s) /\ d # s.from /\ d = s.to
    <2>1. sessionsCoveredOnDay(s, d) = {1, s.s2}
        BY <1>1, <1>5 DEF sessionsCoveredOnDay, SameDay
    <2>2. WeightOfPartialDay(s, d) = IF s.s2 = 1 THEN 1 ELSE 2
        BY <1>5 DEF WeightOfPartialDay, SameDay
    <2>3. {1, s.s2} = IF s.s2 = 1 THEN {1} ELSE {1, 2}
        BY <1>1
    <2> QED BY <2>1, <2>2, <2>3, <1>2
<1>6. CASE ~SameDay(s) /\ d # s.from /\ d # s.to
    <2>1. sessionsCoveredOnDay(s, d) = {1, 2}
        BY <1>1, <1>6 DEF sessionsCoveredOnDay, SameDay, Sessions
    <2>2. WeightOfPartialDay(s, d) = 2
        BY <1>6 DEF WeightOfPartialDay
    <2> QED BY <2>1, <2>2, <1>2
<1> QED BY <1>3, <1>4, <1>5, <1>6

LEMMA ConflictIsSymmetric ==
    ASSUME NEW a, NEW b
    PROVE  leaveRangesConflict(a, b) <=> leaveRangesConflict(b, a)
BY DEF leaveRangesConflict

(* Leaves whose ranges do not conflict share no half day.                  *)
LEMMA NoConflictNoSharedSession ==
    ASSUME NEW i \in Leaves, NEW j \in Leaves,
           ~leaveRangesConflict(leave[i].span, leave[j].span)
    PROVE  SessionsTaken(i) \cap SessionsTaken(j) = {}
<1> SUFFICES ASSUME NEW x \in SessionsTaken(i), x \in SessionsTaken(j)
             PROVE  FALSE
    OBVIOUS
<1> DEFINE a == leave[i].span
           b == leave[j].span
<1>1. /\ x[1] \in a.from..a.to /\ x[1] \in b.from..b.to
      /\ x[2] \in sessionsCoveredOnDay(a, x[1])
      /\ x[2] \in sessionsCoveredOnDay(b, x[1])
    BY DEF SessionsTaken, SessionsIn
<1>2. x[1] \in (a.from..a.to) \cap (b.from..b.to)
    BY <1>1
<1>3. sessionsCoveredOnDay(a, x[1]) \cap sessionsCoveredOnDay(b, x[1]) # {}
    BY <1>1
<1>4. leaveRangesConflict(a, b)
    BY <1>2, <1>3 DEF leaveRangesConflict
<1> QED BY <1>4

-----------------------------------------------------------------------------
(* The inductive invariant.                                                *)

IsRow(x) == x = [status |-> x.status, policy |-> x.policy, span |-> x.span, days |-> x.days]
IsTx(t)  == t = [op |-> t.op, leave |-> t.leave, pc |-> t.pc, row |-> t.row,
                 bal |-> t.bal, inserts |-> t.inserts, outdated |-> t.outdated]

Rows ==
    /\ leave = [i \in Leaves |-> leave[i]] /\ \A i \in Leaves : IsRow(leave[i])
    /\ tx = [r \in Requests |-> tx[r]]
    /\ stale \in BOOLEAN

(* A handler that is creating a leave does so under a new id; one that     *)
(* decides, and is not outdated, decides on a pending leave; one about to  *)
(* insert, and not outdated, still overlaps nothing.                       *)
OverlapsNone(span, rows) ==
    \A i \in Leaves :
        rows[i].status \in ACTIVE_LEAVE_STATUSES => ~leaveRangesConflict(span, rows[i].span)

Good(t, rows, old) ==
    /\ IsTx(t) /\ IsRow(t.row) /\ t.outdated \in BOOLEAN
    /\ t.pc = "idle" => t = NoTx
    /\ t.pc \in {"overlap", "insert"} => t.op = "create"
    /\ t.pc = "decide" => t.op \in DecideOps
    /\ t.op = "create" => t.leave \in Leaves /\ rows[t.leave].status = "NONE"
    /\ t.op \in DecideOps =>
            /\ t.leave \in Leaves /\ rows[t.leave].status # "NONE"
            /\ ~t.outdated => rows[t.leave].status = "PENDING"
    /\ t.pc = "insert" /\ ~t.outdated /\ ~old => OverlapsNone(t.row.span, rows)

Alone(r) ==
    tx[r].op = "create" => \A q \in Requests \ {r} : tx[q].leave # tx[r].leave

NoConflicts ==
    \A i, j \in Leaves :
        i # j /\ Active(i) /\ Active(j) => ~leaveRangesConflict(leave[i].span, leave[j].span)

IInv ==
    /\ Rows
    /\ \A r \in Requests : Good(tx[r], leave, stale) /\ Alone(r)
    /\ ~stale => NoConflicts

(* A step that changes only what one handler holds in memory.              *)
LEMMA ContinuePreserves ==
    ASSUME IInv, NEW r \in Requests, NEW t, Continue(r, t), Good(t, leave, stale),
           t.op = "create" => \A q \in Requests \ {r} : tx[q].leave # t.leave,
           \A q \in Requests \ {r} : tx[q].op = "create" => t.leave # tx[q].leave
    PROVE  IInv'
<1>1. /\ tx' = [tx EXCEPT ![r] = t] /\ leave' = leave /\ stale' = stale
    BY DEF Continue
<1>2. /\ tx'[r] = t /\ \A q \in Requests \ {r} : tx'[q] = tx[q]
      /\ tx' = [q \in Requests |-> tx'[q]]
    BY <1>1 DEF IInv, Rows
<1>3. Rows'
    BY <1>1, <1>2 DEF IInv, Rows
<1>4. \A q \in Requests : Good(tx'[q], leave', stale')
    BY <1>1, <1>2 DEF IInv
<1>5. \A q \in Requests : Alone(q)'
    BY <1>2 DEF IInv, Alone
<1>6. (~stale => NoConflicts)'
    BY <1>1 DEF IInv, NoConflicts, Active
<1> QED BY <1>3, <1>4, <1>5, <1>6 DEF IInv

-----------------------------------------------------------------------------
(* The handlers.                                                           *)

LEMMA CreatePreserves ==
    ASSUME IInv, NEW r \in Requests, NEW i \in Leaves, NEW p \in Policies,
           NEW s \in Spans, createRequest(r, i, p, s)
    PROVE  IInv'
<1> DEFINE w == [status |-> "PENDING", policy |-> p, span |-> s,
                 days |-> calculate(Rule[p], s)]
           t == Handler("create", i, w)
<1>1. Continue(r, t)
    BY DEF createRequest
<1>3. IsRow(w)
    BY DEF IsRow
<1>4. leave[i].status = "NONE" /\ \A q \in Requests : tx[q].leave # i
    BY DEF createRequest
<1> HIDE DEF w
<1>5. t.leave = i /\ t.op = "create"
    BY DEF Handler
<1>6. Good(t, leave, stale)
    BY <1>3, <1>4 DEF Good, IsTx, DecideOps, Outcome, Handler
<1> HIDE DEF t
<1> QED BY <1>1, <1>4, <1>5, <1>6, ContinuePreserves

LEMMA FindPendingPreserves ==
    ASSUME IInv, NEW r \in Requests, NEW i \in Leaves, NEW op \in DecideOps,
           FindPending(r, op, i)
    PROVE  IInv'
<1> DEFINE t == Handler(op, i, leave[i])
<1>1. Continue(r, t)
    BY DEF FindPending
<1>2. IsRow(leave[i]) /\ leave[i].status = "PENDING"
    BY DEF IInv, Rows, FindPending
<1>3. t.leave = i /\ t.op # "create"
    BY DEF DecideOps, Outcome, Handler
<1>4. Good(t, leave, stale)
    BY <1>2 DEF Good, IsTx, DecideOps, Outcome, Handler
<1>5. \A q \in Requests : tx[q].op = "create" => tx[q].leave # i
    BY <1>2 DEF IInv, Good
<1> HIDE DEF t
<1> QED BY <1>1, <1>3, <1>4, <1>5, ContinuePreserves

(* A handler moves on, with or without another balance in memory.          *)
Held(o, i, p, w, b, n, d) ==
    [op |-> o, leave |-> i, pc |-> p, row |-> w, bal |-> b, inserts |-> n, outdated |-> d]

LEMMA MovesOn ==
    ASSUME NEW u, IsTx(u), NEW p
    PROVE  [u EXCEPT !.pc = p]
           = Held(u.op, u.leave, p, u.row, u.bal, u.inserts, u.outdated)
<1> SUFFICES ASSUME NEW s, s = [u EXCEPT !.pc = p]
             PROVE  s = Held(u.op, u.leave, p, u.row, u.bal, u.inserts, u.outdated)
    OBVIOUS
<1>1. u = Held(u.op, u.leave, u.pc, u.row, u.bal, u.inserts, u.outdated)
    BY DEF IsTx, Held
<1>2. s = Held(s.op, s.leave, s.pc, s.row, s.bal, s.inserts, s.outdated)
    BY <1>1 DEF Held
<1>3. /\ s.op = u.op /\ s.leave = u.leave /\ s.pc = p /\ s.row = u.row
      /\ s.bal = u.bal /\ s.inserts = u.inserts /\ s.outdated = u.outdated
    BY <1>1 DEF Held
<1> QED BY <1>2, <1>3

LEMMA MovesOnWith ==
    ASSUME NEW u, IsTx(u), NEW p, NEW b
    PROVE  [u EXCEPT !.pc = p, !.bal = b]
           = Held(u.op, u.leave, p, u.row, b, u.inserts, u.outdated)
<1> SUFFICES ASSUME NEW s, s = [u EXCEPT !.pc = p, !.bal = b]
             PROVE  s = Held(u.op, u.leave, p, u.row, b, u.inserts, u.outdated)
    OBVIOUS
<1>1. u = Held(u.op, u.leave, u.pc, u.row, u.bal, u.inserts, u.outdated)
    BY DEF IsTx, Held
<1>2. s = Held(s.op, s.leave, s.pc, s.row, s.bal, s.inserts, s.outdated)
    BY <1>1 DEF Held
<1>3. /\ s.op = u.op /\ s.leave = u.leave /\ s.pc = p /\ s.row = u.row
      /\ s.bal = b /\ s.inserts = u.inserts /\ s.outdated = u.outdated
    BY <1>1 DEF Held
<1> QED BY <1>2, <1>3

LEMMA MovesOnInserting ==
    ASSUME NEW u, IsTx(u), NEW p, NEW b
    PROVE  [u EXCEPT !.pc = p, !.bal = b, !.inserts = TRUE]
           = Held(u.op, u.leave, p, u.row, b, TRUE, u.outdated)
<1> SUFFICES ASSUME NEW s, s = [u EXCEPT !.pc = p, !.bal = b, !.inserts = TRUE]
             PROVE  s = Held(u.op, u.leave, p, u.row, b, TRUE, u.outdated)
    OBVIOUS
<1>1. u = Held(u.op, u.leave, u.pc, u.row, u.bal, u.inserts, u.outdated)
    BY DEF IsTx, Held
<1>2. s = Held(s.op, s.leave, s.pc, s.row, s.bal, s.inserts, s.outdated)
    BY <1>1 DEF Held
<1>3. /\ s.op = u.op /\ s.leave = u.leave /\ s.pc = p /\ s.row = u.row
      /\ s.bal = b /\ s.inserts = TRUE /\ s.outdated = u.outdated
    BY <1>1 DEF Held
<1> QED BY <1>2, <1>3

LEMMA GetBalancePreserves ==
    ASSUME IInv, NEW r \in Requests, getOrCreateBalance(r)
    PROVE  IInv'
<1> DEFINE u == tx[r]
<1>1. u.pc = "getBalance" /\ u.op = "create"
    BY DEF getOrCreateBalance
<1>2. Good(u, leave, stale) /\ IsTx(u) /\ \A q \in Requests : Alone(q)
    BY DEF IInv, Good
<1>3. ASSUME NEW b, NEW n, Continue(r, Held(u.op, u.leave, "overlap", u.row, b, n, u.outdated))
      PROVE  IInv'
    <2> DEFINE t == Held(u.op, u.leave, "overlap", u.row, b, n, u.outdated)
    <2>1. Good(t, leave, stale)
        BY <1>1, <1>2 DEF Good, DecideOps, Outcome, IsTx, Held
    <2>2. t.op = u.op /\ t.leave = u.leave
        BY DEF Held
    <2>3. Continue(r, t)
        BY <1>3
    <2> HIDE DEF t
    <2> QED BY <1>2, <2>1, <2>2, <2>3, ContinuePreserves DEF Alone
<1>4. CASE Continue(r, [u EXCEPT !.pc = "overlap", !.bal = balance[u.row.policy]])
    <2>1. [u EXCEPT !.pc = "overlap", !.bal = balance[u.row.policy]]
          = Held(u.op, u.leave, "overlap", u.row, balance[u.row.policy], u.inserts, u.outdated)
        BY <1>2, MovesOnWith
    <2> QED BY <1>3, <1>4, <2>1
<1>5. CASE Continue(r, [u EXCEPT !.pc = "overlap", !.bal = NewBalance(u.row.policy),
                                 !.inserts = TRUE])
    <2>1. [u EXCEPT !.pc = "overlap", !.bal = NewBalance(u.row.policy), !.inserts = TRUE]
          = Held(u.op, u.leave, "overlap", u.row, NewBalance(u.row.policy), TRUE, u.outdated)
        BY <1>2, MovesOnInserting
    <2> QED BY <1>3, <1>5, <2>1
<1> QED BY <1>4, <1>5 DEF getOrCreateBalance

LEMMA CheckOverlapPreserves ==
    ASSUME IInv, NEW r \in Requests, CheckOverlap(r)
    PROVE  IInv'
<1> DEFINE u == tx[r]
           t == Held(u.op, u.leave, "insert", u.row, u.bal, u.inserts, u.outdated)
<1>1. Good(u, leave, stale) /\ IsTx(u) /\ \A q \in Requests : Alone(q)
    BY DEF IInv, Good
<1>2. [u EXCEPT !.pc = "insert"] = t
    BY <1>1, MovesOn
<1>3. Continue(r, t) /\ u.pc = "overlap" /\ assertNoOverlappingLeave(u.row.span)
    BY <1>2 DEF CheckOverlap
<1>4. Good(t, leave, stale)
    BY <1>1, <1>3 DEF Good, DecideOps, Outcome, OverlapsNone,
       assertNoOverlappingLeave, Active, IsTx, Held
<1>5. t.op = u.op /\ t.leave = u.leave
    BY DEF Held
<1> HIDE DEF t
<1> QED BY <1>1, <1>3, <1>4, <1>5, ContinuePreserves DEF Alone

LEMMA ReadBalancePreserves ==
    ASSUME IInv, NEW r \in Requests, ReadBalance(r)
    PROVE  IInv'
<1> DEFINE u == tx[r]
           b == balance[u.row.policy]
           t == Held(u.op, u.leave, "decide", u.row, b, u.inserts, u.outdated)
<1>1. Good(u, leave, stale) /\ IsTx(u) /\ \A q \in Requests : Alone(q)
    BY DEF IInv, Good
<1>2. [u EXCEPT !.pc = "decide", !.bal = b] = t
    BY <1>1, MovesOnWith
<1>3. Continue(r, t) /\ u.op \in DecideOps
    BY <1>2 DEF ReadBalance
<1>4. Good(t, leave, stale)
    BY <1>1, <1>3 DEF Good, IsTx, Held
<1>5. t.op = u.op /\ t.leave = u.leave
    BY DEF Held
<1> HIDE DEF t
<1> QED BY <1>1, <1>3, <1>4, <1>5, ContinuePreserves DEF Alone

LEMMA FailPreserves ==
    ASSUME IInv, NEW r \in Requests, Fail(r)
    PROVE  IInv'
<1>1. Continue(r, NoTx)
    BY DEF Fail
<1>2. Good(NoTx, leave, stale) /\ NoTx.op = "none" /\ NoTx.leave = None
    BY DEF Good, NoTx, IsTx, IsRow, NoLeave, DecideOps, Outcome
<1>3. \A q \in Requests : tx[q].op = "create" => tx[q].leave # None
    BY LeaveAssumption DEF IInv, Good
<1> QED BY <1>1, <1>2, <1>3, ContinuePreserves

-----------------------------------------------------------------------------
(* The commits.                                                            *)

(* After a commit of r every other handler is where it was, or idle; the   *)
(* ones r disturbed are outdated.                                          *)
LEMMA CommitEffect ==
    ASSUME IInv, NEW r \in Requests, Commit(r)
    PROVE  /\ tx' = [q \in Requests |-> tx'[q]] /\ tx'[r] = NoTx
           /\ stale' \in BOOLEAN /\ (~stale' => ~stale /\ ~tx[r].outdated)
           /\ \A q \in Requests \ {r} :
                /\ IsTx(tx'[q]) /\ tx'[q].outdated \in BOOLEAN
                /\ tx'[q].op = tx[q].op /\ tx'[q].leave = tx[q].leave
                /\ tx'[q].pc = tx[q].pc /\ tx'[q].row = tx[q].row
                /\ tx'[q].bal = tx[q].bal /\ tx'[q].inserts = tx[q].inserts
                /\ tx[q].pc = "idle" => tx'[q] = tx[q]
                /\ tx[q].outdated => tx'[q].outdated
                /\ tx[q].pc # "idle" /\ ~tx'[q].outdated => ~Outdated(q, r)
<1>1. /\ stale' = (stale \/ tx[r].outdated) /\ stale \in BOOLEAN
      /\ \A q \in Requests : Good(tx[q], leave, stale)
    BY DEF IInv, Rows, Commit
<1>2. tx[r].outdated \in BOOLEAN
    BY <1>1 DEF Good
<1>3. /\ tx' = [q \in Requests |-> tx'[q]] /\ tx'[r] = NoTx
      /\ \A q \in Requests \ {r} :
            tx'[q] = IF tx[q].pc = "idle" THEN tx[q]
                     ELSE [tx[q] EXCEPT !.outdated = Outdated(q, r)]
    BY DEF Commit
<1>4. ASSUME NEW q \in Requests \ {r}, tx[q].pc = "idle"
      PROVE  /\ tx'[q] = tx[q] /\ IsTx(tx[q]) /\ tx[q].outdated \in BOOLEAN
    BY <1>1, <1>3, <1>4 DEF Good
<1>5. ASSUME NEW q \in Requests \ {r}, tx[q].pc # "idle"
      PROVE  /\ IsTx(tx'[q]) /\ tx'[q].outdated \in BOOLEAN
             /\ tx'[q].op = tx[q].op /\ tx'[q].leave = tx[q].leave
             /\ tx'[q].pc = tx[q].pc /\ tx'[q].row = tx[q].row
             /\ tx'[q].bal = tx[q].bal /\ tx'[q].inserts = tx[q].inserts
             /\ tx[q].outdated => tx'[q].outdated
             /\ ~tx'[q].outdated => ~Outdated(q, r)
    <2> DEFINE o == Outdated(q, r)
    <2>1. o \in BOOLEAN /\ (tx[q].outdated => o)
        BY <1>1 DEF Outdated, Good
    <2>2. IsTx(tx[q])
        BY <1>1 DEF Good
    <2>3. tx'[q] = [tx[q] EXCEPT !.outdated = o]
        BY <1>3, <1>5
    <2> HIDE DEF o
    <2>4. tx'[q].outdated = o
        BY <2>2, <2>3 DEF IsTx
    <2>5. /\ tx'[q].op = tx[q].op /\ tx'[q].leave = tx[q].leave
          /\ tx'[q].pc = tx[q].pc /\ tx'[q].row = tx[q].row /\ IsTx(tx'[q])
          /\ tx'[q].bal = tx[q].bal /\ tx'[q].inserts = tx[q].inserts
        BY <2>2, <2>3 DEF IsTx
    <2> QED BY <2>1, <2>4, <2>5 DEF o
<1> QED BY <1>1, <1>2, <1>3, <1>4, <1>5

LEMMA InsertPreserves ==
    ASSUME IInv, NEW r \in Requests, InsertRequest(r)
    PROVE  IInv'
<1> DEFINE u == tx[r]
           i == u.leave
<1>1. /\ u.pc = "insert" /\ leave' = [leave EXCEPT ![i] = u.row] /\ Commit(r)
    BY DEF InsertRequest
<1>2. /\ u.op = "create" /\ i \in Leaves /\ leave[i].status = "NONE" /\ IsRow(u.row)
      /\ ~u.outdated /\ ~stale => OverlapsNone(u.row.span, leave)
      /\ \A q \in Requests \ {r} : tx[q].leave # i
      /\ \A q \in Requests : Good(tx[q], leave, stale) /\ Alone(q)
    BY <1>1 DEF IInv, Good, Alone
<1>3. /\ leave'[i] = u.row /\ \A j \in Leaves \ {i} : leave'[j] = leave[j]
      /\ leave' = [j \in Leaves |-> leave'[j]]
    BY <1>1, <1>2 DEF IInv, Rows
<1>4. /\ tx' = [q \in Requests |-> tx'[q]] /\ tx'[r] = NoTx
      /\ stale' \in BOOLEAN /\ (~stale' => ~stale /\ ~tx[r].outdated)
      /\ \A q \in Requests \ {r} :
                /\ IsTx(tx'[q]) /\ tx'[q].outdated \in BOOLEAN
                /\ tx'[q].op = tx[q].op /\ tx'[q].leave = tx[q].leave
                /\ tx'[q].pc = tx[q].pc /\ tx'[q].row = tx[q].row
                /\ tx[q].pc = "idle" => tx'[q] = tx[q]
                /\ tx[q].outdated => tx'[q].outdated
                /\ tx[q].pc # "idle" /\ ~tx'[q].outdated => ~Outdated(q, r)
    BY <1>1, CommitEffect
<1>5. Rows'
    BY <1>2, <1>3, <1>4 DEF IInv, Rows
<1>6. \A q \in Requests : Good(tx'[q], leave', stale')
    <2>1. Good(NoTx, leave', stale')
        BY DEF Good, NoTx, IsTx, IsRow, NoLeave, DecideOps, Outcome
    <2>2. ASSUME NEW q \in Requests \ {r}
          PROVE  Good(tx'[q], leave', stale')
        <3>1. tx[q].pc = "insert" => tx'[q].outdated
            BY <1>2, <1>4 DEF Outdated
        <3>2. tx[q].leave \in Leaves => leave'[tx[q].leave] = leave[tx[q].leave]
            BY <1>2, <1>3
        <3> QED BY <1>2, <1>4, <3>1, <3>2 DEF Good
    <2> QED BY <1>4, <2>1, <2>2
<1>7. \A q \in Requests : Alone(q)'
    <2> SUFFICES ASSUME NEW q \in Requests, tx'[q].op = "create",
                        NEW k \in Requests \ {q}
                 PROVE  tx'[k].leave # tx'[q].leave
        BY DEF Alone
    <2>1. q # r /\ tx'[q].op = tx[q].op /\ tx'[q].leave = tx[q].leave
        BY <1>4 DEF NoTx
    <2>2. tx[q].leave \in Leaves /\ tx[k].leave # tx[q].leave
        BY <1>2, <2>1 DEF Good, Alone
    <2>3. tx'[k].leave = IF k = r THEN None ELSE tx[k].leave
        BY <1>4 DEF NoTx
    <2> QED BY <2>1, <2>2, <2>3, LeaveAssumption
<1>8. (~stale => NoConflicts)'
    <2> SUFFICES ASSUME ~stale', NEW j \in Leaves, NEW k \in Leaves, j # k,
                        Active(j)', Active(k)'
                 PROVE  ~leaveRangesConflict(leave'[j].span, leave'[k].span)
        BY DEF NoConflicts
    <2>1. NoConflicts /\ OverlapsNone(u.row.span, leave)
        BY <1>2, <1>4 DEF IInv
    <2>2. CASE j = i
        <3>1. leave'[k] = leave[k] /\ leave[k].status \in ACTIVE_LEAVE_STATUSES
            BY <1>3, <2>2 DEF Active
        <3>2. ~leaveRangesConflict(u.row.span, leave[k].span)
            BY <3>1, <2>1 DEF OverlapsNone
        <3> QED BY <3>1, <3>2, <2>2, <1>3
    <2>3. CASE k = i
        <3>1. leave'[j] = leave[j] /\ leave[j].status \in ACTIVE_LEAVE_STATUSES
            BY <1>3, <2>3 DEF Active
        <3>2. ~leaveRangesConflict(u.row.span, leave[j].span)
            BY <3>1, <2>1 DEF OverlapsNone
        <3>3. ~leaveRangesConflict(leave[j].span, u.row.span)
            BY <3>2, ConflictIsSymmetric
        <3> QED BY <3>1, <3>3, <2>3, <1>3
    <2>4. CASE j # i /\ k # i
        <3>1. leave'[j] = leave[j] /\ leave'[k] = leave[k]
            BY <1>3, <2>4
        <3> QED BY <3>1, <2>1 DEF NoConflicts, Active
    <2> QED BY <2>2, <2>3, <2>4
<1> QED BY <1>5, <1>6, <1>7, <1>8 DEF IInv

LEMMA DecidePreserves ==
    ASSUME IInv, NEW r \in Requests, Decide(r)
    PROVE  IInv'
<1> DEFINE u == tx[r]
           i == u.leave
           o == Outcome[u.op]
<1>1. u.pc = "decide" /\ leave' = [leave EXCEPT ![i].status = o] /\ Commit(r)
    BY DEF Decide
<1>2. /\ u.op \in DecideOps /\ i \in Leaves /\ leave[i].status # "NONE"
      /\ ~u.outdated => leave[i].status = "PENDING"
      /\ \A q \in Requests : Good(tx[q], leave, stale) /\ Alone(q)
    BY <1>1 DEF IInv, Good
<1>3. /\ leave' = [j \in Leaves |-> leave'[j]]
      /\ \A j \in Leaves \ {i} : leave'[j] = leave[j]
      /\ leave'[i] = [leave[i] EXCEPT !.status = o]
    BY <1>1, <1>2 DEF IInv, Rows
<1>4. IsRow(leave'[i]) /\ leave'[i].status = o /\ leave'[i].span = leave[i].span
    <2>1. IsRow(leave[i])
        BY <1>2 DEF IInv, Rows
    <2> HIDE DEF o, i
    <2> SUFFICES ASSUME NEW w, w = leave'[i]
                 PROVE  IsRow(w) /\ w.status = o /\ w.span = leave[i].span
        OBVIOUS
    <2>2. w = [leave[i] EXCEPT !.status = o]
        BY <1>3
    <2>3. w = [status |-> w.status, policy |-> w.policy, span |-> w.span, days |-> w.days]
        BY <2>1, <2>2 DEF IsRow
    <2>4. w.status = o /\ w.span = leave[i].span
        BY <2>1, <2>2 DEF IsRow
    <2> QED BY <2>3, <2>4 DEF IsRow
<1>5. o \in {"WITHDRAWN", "APPROVED", "REJECTED"}
    BY <1>2 DEF DecideOps, Outcome
<1>6. /\ tx' = [q \in Requests |-> tx'[q]] /\ tx'[r] = NoTx
      /\ stale' \in BOOLEAN /\ (~stale' => ~stale /\ ~tx[r].outdated)
      /\ \A q \in Requests \ {r} :
                /\ IsTx(tx'[q]) /\ tx'[q].outdated \in BOOLEAN
                /\ tx'[q].op = tx[q].op /\ tx'[q].leave = tx[q].leave
                /\ tx'[q].pc = tx[q].pc /\ tx'[q].row = tx[q].row
                /\ tx[q].pc = "idle" => tx'[q] = tx[q]
                /\ tx[q].outdated => tx'[q].outdated
                /\ tx[q].pc # "idle" /\ ~tx'[q].outdated => ~Outdated(q, r)
    BY <1>1, CommitEffect
<1> HIDE DEF o
<1>7. Rows'
    <2>1. \A j \in Leaves : IsRow(leave'[j])
        BY <1>3, <1>4 DEF IInv, Rows
    <2> QED BY <1>3, <1>6, <2>1 DEF Rows
<1>8. ~stale' => \A j \in Leaves :
            /\ leave'[j].status \in ACTIVE_LEAVE_STATUSES
                    => leave[j].status \in ACTIVE_LEAVE_STATUSES
            /\ leave'[j].span = leave[j].span
    BY <1>2, <1>3, <1>4, <1>6 DEF ACTIVE_LEAVE_STATUSES
<1>9. \A q \in Requests : Good(tx'[q], leave', stale')
    <2>1. Good(NoTx, leave', stale')
        BY DEF Good, NoTx, IsTx, IsRow, NoLeave, DecideOps, Outcome
    <2>2. ASSUME NEW q \in Requests \ {r}
          PROVE  Good(tx'[q], leave', stale')
        <3>1. tx[q].op = "create" => tx[q].leave \in Leaves \ {i}
            BY <1>2 DEF Good
        <3>2. tx[q].op \in DecideOps =>
                /\ leave'[tx[q].leave].status # "NONE"
                /\ tx[q].leave = i => tx[q].pc # "idle" /\ tx'[q].outdated
                /\ tx[q].leave # i => leave'[tx[q].leave] = leave[tx[q].leave]
            <4>1. tx[q].op \in DecideOps => tx[q].pc # "idle" /\ tx[q].leave \in Leaves
                                            /\ leave[tx[q].leave].status # "NONE"
                BY <1>2 DEF Good, NoTx, DecideOps, Outcome
            <4>2. tx[q].leave = i => Outdated(q, r)
                BY DEF Outdated
            <4> QED BY <4>1, <4>2, <1>3, <1>4, <1>5, <1>6
        <3>3. tx'[q].pc = "insert" /\ ~tx'[q].outdated /\ ~stale'
                => OverlapsNone(tx'[q].row.span, leave')
            BY <1>2, <1>6, <1>8 DEF Good, OverlapsNone
        <3> QED BY <1>2, <1>3, <1>6, <3>1, <3>2, <3>3 DEF Good
    <2> QED BY <1>6, <2>1, <2>2
<1>10. \A q \in Requests : Alone(q)'
    <2> SUFFICES ASSUME NEW q \in Requests, tx'[q].op = "create",
                        NEW k \in Requests \ {q}
                 PROVE  tx'[k].leave # tx'[q].leave
        BY DEF Alone
    <2>1. q # r /\ tx'[q].op = tx[q].op /\ tx'[q].leave = tx[q].leave
        BY <1>6 DEF NoTx
    <2>2. tx[q].leave \in Leaves /\ tx[k].leave # tx[q].leave
        BY <1>2, <2>1 DEF Good, Alone
    <2>3. tx'[k].leave = IF k = r THEN None ELSE tx[k].leave
        BY <1>6 DEF NoTx
    <2> QED BY <2>1, <2>2, <2>3, LeaveAssumption
<1>11. (~stale => NoConflicts)'
    BY <1>6, <1>8 DEF IInv, NoConflicts, Active
<1> QED BY <1>7, <1>9, <1>10, <1>11 DEF IInv

-----------------------------------------------------------------------------
LEMMA InitIInv == Init => IInv
<1> SUFFICES ASSUME Init PROVE IInv
    OBVIOUS
<1>1. Rows
    BY DEF Init, Rows, IsRow, NoLeave
<1>2. \A r \in Requests : Good(tx[r], leave, stale) /\ Alone(r)
    BY DEF Init, Good, Alone, NoTx, IsTx, IsRow, NoLeave, DecideOps, Outcome
<1>3. NoConflicts
    BY DEF Init, NoConflicts, Active, NoLeave, ACTIVE_LEAVE_STATUSES
<1> QED BY <1>1, <1>2, <1>3 DEF IInv

LEMMA NextIInv == IInv /\ [Next]_vars => IInv'
<1> SUFFICES ASSUME IInv, [Next]_vars PROVE IInv'
    OBVIOUS
<1>1. CASE UNCHANGED vars
    BY <1>1 DEF vars, IInv, Rows, Good, Alone, NoConflicts, Active
<1>2. ASSUME NEW p \in Policies, ensureBalance(p) PROVE IInv'
    BY <1>2 DEF ensureBalance, IInv, Rows, Good, Alone, NoConflicts, Active
<1>3. ASSUME NEW r \in Requests, NEW i \in Leaves, NEW p \in Policies, NEW s \in Spans,
             createRequest(r, i, p, s)
      PROVE  IInv'
    BY <1>3, CreatePreserves
<1>4. ASSUME NEW r \in Requests, NEW i \in Leaves,
             \/ withdrawRequest(r, i) \/ approveLeaveRequest(r, i)
             \/ rejectLeaveRequest(r, i)
      PROVE  IInv'
    <2>1. PICK op \in DecideOps : FindPending(r, op, i)
        BY <1>4 DEF withdrawRequest, approveLeaveRequest, rejectLeaveRequest,
           DecideOps, Outcome
    <2> QED BY <2>1, FindPendingPreserves
<1>5. ASSUME NEW r \in Requests,
             \/ getOrCreateBalance(r) \/ CheckOverlap(r) \/ InsertRequest(r)
             \/ ReadBalance(r) \/ Decide(r) \/ Fail(r)
      PROVE  IInv'
    BY <1>5, GetBalancePreserves, CheckOverlapPreserves, InsertPreserves,
       ReadBalancePreserves, DecidePreserves, FailPreserves
<1> QED BY <1>1, <1>2, <1>3, <1>4, <1>5 DEF Next

(* However handlers interleave, as long as none of them commits on rows    *)
(* or an overlap query that another commit has outdated, no two pending or *)
(* approved leaves of the employee share a half day: createRequest's query *)
(* and insert, against every other commit.                                 *)
THEOREM NeverBookedTwiceUnlessStale == Spec => []BookedOnce
<1>1. IInv => BookedOnce
    <2> SUFFICES ASSUME IInv, ~stale, NEW i \in Leaves, NEW j \in Leaves,
                        i # j, Active(i), Active(j)
                 PROVE  SessionsTaken(i) \cap SessionsTaken(j) = {}
        BY DEF BookedOnce, NoSharedSession
    <2>1. ~leaveRangesConflict(leave[i].span, leave[j].span)
        BY DEF IInv, NoConflicts
    <2> QED BY <2>1, NoConflictNoSharedSession
<1> QED BY <1>1, InitIInv, NextIInv, PTL DEF Spec

-----------------------------------------------------------------------------
(* What a leave is charged.                                                *)

LEMMA DaysOfSpan ==
    ASSUME NEW s \in SpanType, NEW rule
    PROVE  /\ IsFiniteSet(CountingDays(rule, s)) /\ CountingDays(rule, s) \subseteq s.from..s.to
           /\ calculate(rule, s) \in Nat
<1>1. s.from \in Int /\ s.to \in Int
    BY DEF SpanType
<1>2. IsFiniteSet(s.from..s.to)
    BY <1>1, FS_Interval
<1>3. CountingDays(rule, s) \in SUBSET (s.from..s.to)
    BY DEF CountingDays
<1>4. IsFiniteSet(CountingDays(rule, s))
    BY <1>2, <1>3, FS_Subset
<1> DEFINE f == [d \in CountingDays(rule, s) |-> weightForDay(rule, s, d)]
<1>5. \A d \in CountingDays(rule, s) : f[d] \in Nat
    BY DEF weightForDay, WeightOfPartialDay
<1>6. calculate(rule, s) = SumFunctionOnSet(f, CountingDays(rule, s))
    BY DEF calculate, SumFunction
<1> HIDE DEF f
<1> QED BY <1>3, <1>4, <1>5, <1>6, SumOfNaturals

LEMMA ChargedIsSessions ==
    ASSUME NEW s \in SpanType, s.from <= s.to, NEW rule,
           rule.allowHalfDay \/ ~impliesPartialDay(s)
    PROVE  calculate(rule, s)
           = Cardinality({x \in SessionsIn(s) : countsAsLeaveDay(rule, x[1])})
<1> DEFINE D == CountingDays(rule, s)
           f == [d \in D |-> weightForDay(rule, s, d)]
           F == [d \in D |-> sessionsCoveredOnDay(s, d)]
<1>1. IsFiniteSet(D) /\ D \subseteq s.from..s.to
    BY DaysOfSpan
<1>2. \A d \in D : F[d] \subseteq Sessions /\ f[d] = Cardinality(F[d])
    <2> SUFFICES ASSUME NEW d \in D
                 PROVE  /\ sessionsCoveredOnDay(s, d) \subseteq Sessions
                        /\ weightForDay(rule, s, d) = Cardinality(sessionsCoveredOnDay(s, d))
        BY DEF F, f
    <2>1. d \in s.from..s.to
        BY <1>1
    <2>2. WeightOfPartialDay(s, d) = Cardinality(sessionsCoveredOnDay(s, d))
        BY <2>1, WeightIsSessionsCovered
    <2>3. weightForDay(rule, s, d) = WeightOfPartialDay(s, d)
        <3>1. CASE rule.allowHalfDay
            BY <3>1 DEF weightForDay
        <3>2. CASE ~rule.allowHalfDay
            <4>1. SameDay(s) /\ s.s1 # s.s2
                BY <3>2 DEF impliesPartialDay
            <4> QED BY <3>2, <4>1 DEF weightForDay, WeightOfPartialDay
        <3> QED BY <3>1, <3>2
    <2>4. s.s1 \in Sessions /\ s.s2 \in Sessions
        BY DEF SpanType
    <2>5. sessionsCoveredOnDay(s, d) \subseteq Sessions
        BY <2>1, <2>4 DEF sessionsCoveredOnDay, Sessions
    <2> QED BY <2>2, <2>3, <2>5
<1>3. calculate(rule, s) = SumFunctionOnSet(f, D)
    BY DEF calculate, SumFunction
<1>4. {x \in SessionsIn(s) : countsAsLeaveDay(rule, x[1])} = Parts(F, Sessions, D)
    <2>1. \A d : d \in D <=> d \in s.from..s.to /\ countsAsLeaveDay(rule, d)
        BY DEF CountingDays
    <2>2. \A d \in D : F[d] = sessionsCoveredOnDay(s, d)
        BY DEF F
    <2> HIDE DEF D, F
    <2>3. {x \in SessionsIn(s) : countsAsLeaveDay(rule, x[1])} \subseteq Parts(F, Sessions, D)
        BY <2>1, <2>2 DEF SessionsIn, Parts
    <2>4. Parts(F, Sessions, D) \subseteq {x \in SessionsIn(s) : countsAsLeaveDay(rule, x[1])}
        BY <2>1, <2>2 DEF SessionsIn, Parts
    <2> QED BY <2>3, <2>4
<1>5. IsFiniteSet(Sessions)
    <2>1. IsFiniteSet({1}) /\ {1, 2} = {1} \cup {2}
        BY FS_Singleton
    <2> QED BY <2>1, FS_AddElement DEF Sessions
<1> HIDE DEF D, f, F
<1>6. ASSUME NEW S, IsFiniteSet(S), NEW G, NEW g,
             \A x \in S : G[x] \subseteq Sessions /\ g[x] = Cardinality(G[x])
      PROVE  Cardinality(Parts(G, Sessions, S)) = SumFunctionOnSet(g, S)
    BY <1>5, <1>6, SumOfParts
<1>7. Cardinality(Parts(F, Sessions, D)) = SumFunctionOnSet(f, D)
    BY <1>1, <1>2, <1>6
<1> QED BY <1>3, <1>4, <1>7

(* The overlap check finds a conflict exactly when the ranges share a half *)
(* of a day: leaveRangesConflict against sessionsCoveredOnDay.             *)
THEOREM RangesConflictWhenSessionsMeet ==
    ASSUME NEW a \in SpanType, NEW b \in SpanType
    PROVE  leaveRangesConflict(a, b) <=> SessionsIn(a) \cap SessionsIn(b) # {}
<1>1. ASSUME NEW x \in SessionsIn(a), x \in SessionsIn(b) PROVE leaveRangesConflict(a, b)
    <2>1. x \in SessionsIn(a) /\ x \in SessionsIn(b)
        BY <1>1
    <2>2. /\ x[1] \in (a.from..a.to) \cap (b.from..b.to)
          /\ x[2] \in sessionsCoveredOnDay(a, x[1])
          /\ x[2] \in sessionsCoveredOnDay(b, x[1])
        BY <2>1 DEF SessionsIn
    <2>3. sessionsCoveredOnDay(a, x[1]) \cap sessionsCoveredOnDay(b, x[1]) # {}
        BY <2>2
    <2> QED BY <2>2, <2>3 DEF leaveRangesConflict
<1>2. ASSUME leaveRangesConflict(a, b) PROVE SessionsIn(a) \cap SessionsIn(b) # {}
    <2>1. PICK d \in (a.from..a.to) \cap (b.from..b.to) :
            sessionsCoveredOnDay(a, d) \cap sessionsCoveredOnDay(b, d) # {}
        BY <1>2 DEF leaveRangesConflict
    <2>2. PICK h : h \in sessionsCoveredOnDay(a, d) /\ h \in sessionsCoveredOnDay(b, d)
        BY <2>1
    <2>3. h \in Sessions
        BY <2>2 DEF sessionsCoveredOnDay, SpanType, Sessions
    <2>4. <<d, h>> \in SessionsIn(a) /\ <<d, h>> \in SessionsIn(b)
        BY <2>1, <2>2, <2>3 DEF SessionsIn
    <2> QED BY <2>4
<1> QED BY <1>1, <1>2

-----------------------------------------------------------------------------
(* The days of the leaves of a type that have a status.                    *)

RowsWith(rows, p, status) ==
    {j \in Leaves : rows[j].policy = p /\ rows[j].status = status}
Days(rows) == [j \in Leaves |-> rows[j].days]

Others(rows, i, p, status) ==
    SumFunctionOnSet(Days(rows), RowsWith(rows, p, status) \ {i})

DaysOf(rows, p, status) == SumFunctionOnSet(Days(rows), RowsWith(rows, p, status))

LEMMA DaysInIsDaysOf ==
    ASSUME NEW p, NEW status, NEW rows,
           \A j \in Leaves : rows[j].days \in Nat
    PROVE  /\ SumFunction([j \in RowsWith(rows, p, status) |-> rows[j].days])
                = DaysOf(rows, p, status)
           /\ IsFiniteSet(RowsWith(rows, p, status))
<1> DEFINE S == RowsWith(rows, p, status)
           f == [j \in S |-> rows[j].days]
<1>1. IsFiniteSet(S)
    <2>1. S \in SUBSET Leaves
        BY DEF RowsWith
    <2> QED BY <2>1, FS_Subset, LeaveAssumption
<1>2. \A j \in S : f[j] = Days(rows)[j]
    BY DEF Days, RowsWith
<1>3. SumFunction(f) = SumFunctionOnSet(f, S)
    BY DEF SumFunction
<1> HIDE DEF S, f
<1>4. SumFunctionOnSet(f, S) = SumFunctionOnSet(Days(rows), S)
    BY <1>1, <1>2, SumOfSame
<1> QED BY <1>1, <1>3, <1>4 DEF S, f, DaysOf

(* One leave apart from the others.                                        *)
LEMMA DaysSplit ==
    ASSUME NEW rows, \A j \in Leaves : rows[j].days \in Nat,
           NEW i \in Leaves, NEW p, NEW status
    PROVE  /\ Others(rows, i, p, status) \in Nat
           /\ DaysOf(rows, p, status)
                = Others(rows, i, p, status)
                  + (IF rows[i].policy = p /\ rows[i].status = status THEN rows[i].days ELSE 0)
<1> DEFINE S == RowsWith(rows, p, status)
           f == Days(rows)
<1>1. IsFiniteSet(S) /\ IsFiniteSet(S \ {i})
    <2>1. IsFiniteSet(S)
        BY DaysInIsDaysOf
    <2>2. S \ {i} \in SUBSET S
        OBVIOUS
    <2> QED BY <2>1, <2>2, FS_Subset
<1>2. \A j \in S : f[j] \in Nat /\ f[j] \in Int /\ f[j] = rows[j].days
    BY DEF Days, RowsWith
<1>3. SumFunctionOnSet(f, S \ {i}) \in Nat
    BY <1>1, <1>2, SumOfNaturals
<1>4. i \in S => SumFunctionOnSet(f, S) = f[i] + SumFunctionOnSet(f, S \ {i})
    BY <1>1, <1>2, SumRemove
<1>5. i \notin S => S \ {i} = S
    OBVIOUS
<1>6. i \in S <=> rows[i].policy = p /\ rows[i].status = status
    BY DEF RowsWith
<1>7. Others(rows, i, p, status) = SumFunctionOnSet(f, S \ {i})
    BY DEF Others
<1>8. DaysOf(rows, p, status) = SumFunctionOnSet(f, S)
    BY DEF DaysOf
<1> HIDE DEF S, f
<1>9. CASE i \in S
    BY <1>2, <1>3, <1>4, <1>6, <1>7, <1>8, <1>9
<1>10. CASE i \notin S
    <2>1. SumFunctionOnSet(f, S) = SumFunctionOnSet(f, S \ {i})
        BY <1>5, <1>10
    <2> QED BY <1>3, <1>6, <1>7, <1>8, <1>10, <2>1
<1> QED BY <1>9, <1>10

LEMMA OthersSame ==
    ASSUME NEW a, NEW b, \A j \in Leaves : a[j].days \in Nat /\ b[j].days \in Nat,
           NEW i \in Leaves, \A j \in Leaves \ {i} : b[j] = a[j], NEW p, NEW status
    PROVE  Others(b, i, p, status) = Others(a, i, p, status)
<1> DEFINE S == RowsWith(a, p, status) \ {i}
<1>1. RowsWith(b, p, status) \ {i} = S
    BY DEF RowsWith
<1>2. IsFiniteSet(S)
    <2>1. IsFiniteSet(RowsWith(a, p, status)) /\ S \in SUBSET RowsWith(a, p, status)
        BY DaysInIsDaysOf
    <2> QED BY <2>1, FS_Subset
<1>3. \A j \in S : Days(b)[j] = Days(a)[j]
    BY DEF Days, RowsWith
<1> HIDE DEF S
<1>4. SumFunctionOnSet(Days(b), S) = SumFunctionOnSet(Days(a), S)
    BY <1>2, <1>3, SumOfSame
<1> QED BY <1>1, <1>4 DEF Others, S

-----------------------------------------------------------------------------
(* The invariant of the balances: as long as no handler commits on         *)
(* something outdated they match the leaves, because every handler that is *)
(* not outdated holds the balance, and the leave, that is committed.       *)

RowOk(w) ==
    /\ w.policy \in Policies /\ w.span \in Spans
    /\ w.days \in Nat /\ w.days = calculate(Rule[w.policy], w.span)

HalvesOk(w) == Rule[w.policy].allowHalfDay \/ ~impliesPartialDay(w.span)

RowsOk ==
    \A i \in Leaves :
        /\ leave[i].status \in {"NONE", "PENDING", "APPROVED", "REJECTED", "WITHDRAWN"}
        /\ leave[i].status = "NONE" => leave[i] = NoLeave
        /\ leave[i].status # "NONE" =>
            /\ RowOk(leave[i]) /\ HalvesOk(leave[i])
            /\ balance[leave[i].policy].exists

BalancesOk ==
    /\ balance \in [Policies -> BalanceType]
    /\ \A p \in Policies :
        IF balance[p].exists THEN balance[p].granted = Rule[p].granted
        ELSE balance[p] = NoBalance

(* A handler that is not outdated holds what is committed.                 *)
CreateOk(t, bals) ==
    /\ t.row.status = "PENDING"
    /\ t.inserts => t.pc # "getBalance" /\ ~bals[t.row.policy].exists
    /\ t.pc # "getBalance" =>
        /\ HalvesOk(t.row)
        /\ t.bal \in BalanceType
        /\ Rule[t.row.policy].negativeBalanceAllowed \/ t.row.days <= Available(t.bal)
        /\ t.inserts => t.bal = NewBalance(t.row.policy)
        /\ ~t.inserts =>
            /\ bals[t.row.policy].exists
            /\ ~t.outdated => t.bal = bals[t.row.policy]

DecideOk(t, rows, bals) ==
    /\ ~t.inserts
    /\ t.row.policy = rows[t.leave].policy /\ t.row.days = rows[t.leave].days
    /\ t.pc # "getBalance" =>
        /\ t.bal \in BalanceType
        /\ ~t.outdated => t.bal = bals[t.row.policy]

Holds(t, rows, bals) ==
    t.pc # "idle" =>
        /\ RowOk(t.row)
        /\ t.op \in {"create"} \cup DecideOps
        /\ t.op = "create" => CreateOk(t, bals)
        /\ t.op \in DecideOps => DecideOk(t, rows, bals)

OneInserts ==
    \A q, r \in Requests :
        q # r /\ tx[q].inserts /\ tx[r].inserts => tx[q].row.policy # tx[r].row.policy

Match ==
    ~stale => \A p \in Policies :
        /\ balance[p].pending = DaysIn(p, "PENDING")
        /\ balance[p].used = DaysIn(p, "APPROVED")
        /\ Rule[p].negativeBalanceAllowed \/ balance[p].pending + balance[p].used <= Rule[p].granted

SInv ==
    /\ RowsOk /\ BalancesOk /\ OneInserts /\ Match
    /\ \A r \in Requests : Holds(tx[r], leave, balance)

LEMMA RowTypes ==
    ASSUME IInv, SInv
    PROVE  /\ \A i \in Leaves : leave[i].days \in Nat
           /\ \A p \in Policies : balance[p] \in BalanceType /\ Rule[p] \in RuleType
           /\ \A r \in Requests : Good(tx[r], leave, stale) /\ Holds(tx[r], leave, balance)
           /\ \A r \in Requests : tx[r].pc = "idle" => tx[r] = NoTx
<1>1. \A i \in Leaves : leave[i].days \in Nat
    BY DEF SInv, RowsOk, RowOk, NoLeave
<1>2. \A p \in Policies : balance[p] \in BalanceType /\ Rule[p] \in RuleType
    BY LeaveAssumption DEF SInv, BalancesOk
<1> QED BY <1>1, <1>2 DEF IInv, SInv, Good

LEMMA BalancesAtFirst == Init => SInv
<1> SUFFICES ASSUME Init PROVE SInv
    OBVIOUS
<1>1. RowsOk
    BY DEF Init, RowsOk, NoLeave
<1>2. BalancesOk
    BY DEF Init, BalancesOk, BalanceType, NoBalance
<1>3. OneInserts /\ \A r \in Requests : Holds(tx[r], leave, balance)
    BY DEF Init, OneInserts, Holds, NoTx
<1>4. Match
    <2> SUFFICES ASSUME NEW p \in Policies
                 PROVE  /\ balance[p].pending = DaysIn(p, "PENDING")
                        /\ balance[p].used = DaysIn(p, "APPROVED")
                        /\ balance[p].pending + balance[p].used <= Rule[p].granted
        BY DEF Match
    <2>1. \A j \in Leaves : leave[j].status = "NONE" /\ leave[j].days \in Nat
        BY DEF Init, NoLeave
    <2>2. RowsWith(leave, p, "PENDING") = {} /\ RowsWith(leave, p, "APPROVED") = {}
        BY <2>1 DEF RowsWith
    <2>3. DaysOf(leave, p, "PENDING") = 0 /\ DaysOf(leave, p, "APPROVED") = 0
        BY <2>2, SumEmpty DEF DaysOf
    <2>4. DaysIn(p, "PENDING") = 0 /\ DaysIn(p, "APPROVED") = 0
        BY <2>1, <2>3, DaysInIsDaysOf DEF DaysIn, RowsWith
    <2>5. balance[p].pending = 0 /\ balance[p].used = 0
        BY DEF Init, NoBalance
    <2>6. Rule[p].granted \in Nat
        BY LeaveAssumption DEF RuleType
    <2> QED BY <2>4, <2>5, <2>6
<1> QED BY <1>1, <1>2, <1>3, <1>4 DEF SInv

(* A step that changes only what one handler holds in memory.              *)
LEMMA BalancesContinue ==
    ASSUME IInv, SInv, NEW r \in Requests, NEW t, Continue(r, t), Holds(t, leave, balance),
           t.inserts => \A q \in Requests \ {r} :
                            tx[q].inserts => tx[q].row.policy # t.row.policy
    PROVE  SInv'
<1>1. /\ tx' = [tx EXCEPT ![r] = t] /\ leave' = leave /\ balance' = balance
      /\ stale' = stale
    BY DEF Continue
<1>2. tx'[r] = t /\ \A q \in Requests \ {r} : tx'[q] = tx[q]
    BY <1>1 DEF IInv, Rows
<1>3. RowsOk' /\ BalancesOk' /\ Match'
    BY <1>1 DEF SInv, RowsOk, BalancesOk, Match, DaysIn
<1>4. \A q \in Requests : Holds(tx'[q], leave', balance')
    BY <1>1, <1>2 DEF SInv
<1>5. OneInserts'
    BY <1>2 DEF SInv, OneInserts
<1> QED BY <1>3, <1>4, <1>5 DEF SInv

LEMMA BalancesEnsure ==
    ASSUME IInv, SInv, NEW p \in Policies, ensureBalance(p)
    PROVE  SInv'
<1>1. /\ leave' = leave /\ tx' = tx /\ stale' = stale /\ ~balance[p].exists
      /\ \A q \in Requests : tx[q].inserts => tx[q].row.policy # p
      /\ balance' = [balance EXCEPT ![p] = NewBalance(p)]
    BY DEF ensureBalance, BalanceKeyFree
<1>2. /\ balance'[p] = NewBalance(p)
      /\ \A c \in Policies \ {p} : balance'[c] = balance[c]
      /\ balance' = [c \in Policies |-> balance'[c]]
    BY <1>1 DEF SInv, BalancesOk
<1>3. NewBalance(p) \in BalanceType /\ balance[p] = NoBalance /\ Rule[p].granted \in Nat
    BY <1>1, LeaveAssumption DEF SInv, BalancesOk, NewBalance, BalanceType, RuleType
<1>4. BalancesOk'
    <2>1. \A c \in Policies : balance'[c] \in BalanceType
        BY <1>2, <1>3 DEF SInv, BalancesOk
    <2>2. \A c \in Policies : IF balance'[c].exists THEN balance'[c].granted = Rule[c].granted
                              ELSE balance'[c] = NoBalance
        BY <1>2 DEF SInv, BalancesOk, NewBalance
    <2> QED BY <1>2, <2>1, <2>2 DEF BalancesOk
<1>5. RowsOk'
    <2>1. \A c \in Policies : balance[c].exists => balance'[c].exists
        BY <1>2 DEF NewBalance
    <2> QED BY <1>1, <2>1 DEF SInv, RowsOk, RowOk
<1>6. Match'
    <2>1. \A c \in Policies : balance'[c].pending = balance[c].pending
                              /\ balance'[c].used = balance[c].used
        BY <1>2, <1>3 DEF NewBalance, NoBalance
    <2> QED BY <1>1, <2>1 DEF SInv, Match, DaysIn
<1>7. \A q \in Requests : Holds(tx'[q], leave', balance')
    <2> SUFFICES ASSUME NEW q \in Requests, tx[q].pc # "idle"
                 PROVE  Holds(tx[q], leave, balance')
        BY <1>1 DEF Holds
    <2>1. Holds(tx[q], leave, balance) /\ Good(tx[q], leave, stale)
        BY RowTypes
    <2>2. tx[q].row.policy \in Policies
        BY <2>1 DEF Holds, RowOk
    <2>3. CASE tx[q].op = "create"
        <3>1. tx[q].inserts => balance'[tx[q].row.policy] = balance[tx[q].row.policy]
            BY <1>1, <1>2, <2>2
        <3>2. balance[tx[q].row.policy].exists
                => balance'[tx[q].row.policy] = balance[tx[q].row.policy]
            BY <1>1, <1>2, <2>2
        <3>3. CreateOk(tx[q], balance)
            BY <2>1, <2>3 DEF Holds
        <3>4. CreateOk(tx[q], balance')
            BY <3>1, <3>2, <3>3 DEF CreateOk
        <3>5. tx[q].op \notin DecideOps
            BY <2>3 DEF DecideOps, Outcome
        <3> QED BY <2>1, <3>4, <3>5 DEF Holds
    <2>4. CASE tx[q].op \in DecideOps
        <3>1. tx[q].leave \in Leaves /\ leave[tx[q].leave].status # "NONE"
            BY <2>1, <2>4 DEF Good
        <3>2. balance[leave[tx[q].leave].policy].exists
            BY <3>1 DEF SInv, RowsOk
        <3>3. DecideOk(tx[q], leave, balance)
            BY <2>1, <2>4 DEF Holds
        <3>4. balance'[tx[q].row.policy] = balance[tx[q].row.policy]
            BY <1>1, <1>2, <2>2, <3>2, <3>3 DEF DecideOk
        <3>5. DecideOk(tx[q], leave, balance')
            BY <3>3, <3>4 DEF DecideOk
        <3>6. tx[q].op # "create"
            BY <2>4 DEF DecideOps, Outcome
        <3> QED BY <2>1, <3>5, <3>6 DEF Holds
    <2> QED BY <2>1, <2>3, <2>4 DEF Holds
<1>8. OneInserts'
    BY <1>1 DEF SInv, OneInserts
<1> QED BY <1>4, <1>5, <1>6, <1>7, <1>8 DEF SInv

(* The handlers, up to their commits.                                      *)
LEMMA BalancesCreate ==
    ASSUME IInv, SInv, NEW r \in Requests, NEW i \in Leaves, NEW p \in Policies,
           NEW s \in Spans, createRequest(r, i, p, s)
    PROVE  SInv'
<1> DEFINE w == [status |-> "PENDING", policy |-> p, span |-> s,
                 days |-> calculate(Rule[p], s)]
           t == Handler("create", i, w)
<1>1. Continue(r, t)
    BY DEF createRequest
<1>2. calculate(Rule[p], s) \in Nat
    BY DaysOfSpan, LeaveAssumption DEF SpanType
<1>3. RowOk(w) /\ w.status = "PENDING"
    BY <1>2 DEF RowOk
<1> HIDE DEF w
<1>4. Holds(t, leave, balance) /\ ~t.inserts
    BY <1>3 DEF Holds, CreateOk, Handler, DecideOps, Outcome
<1> HIDE DEF t
<1> QED BY <1>1, <1>4, BalancesContinue

LEMMA BalancesFind ==
    ASSUME IInv, SInv, NEW r \in Requests, NEW i \in Leaves, NEW op \in DecideOps,
           FindPending(r, op, i)
    PROVE  SInv'
<1> DEFINE t == Handler(op, i, leave[i])
<1>1. Continue(r, t)
    BY DEF FindPending
<1>2. RowOk(leave[i])
    BY DEF FindPending, SInv, RowsOk
<1>3. Holds(t, leave, balance) /\ ~t.inserts
    BY <1>2 DEF Holds, DecideOk, Handler, DecideOps, Outcome
<1> HIDE DEF t
<1> QED BY <1>1, <1>3, BalancesContinue

LEMMA BalancesGet ==
    ASSUME IInv, SInv, NEW r \in Requests, getOrCreateBalance(r)
    PROVE  SInv'
<1> DEFINE u == tx[r]
           p == u.row.policy
<1>1. u.pc = "getBalance" /\ u.op = "create"
    BY DEF getOrCreateBalance
<1>2. IsTx(u) /\ RowOk(u.row) /\ u.row.status = "PENDING" /\ ~u.inserts /\ p \in Policies
      /\ CreateOk(u, balance)
    BY <1>1, RowTypes DEF Good, Holds, CreateOk, RowOk
<1>3. ASSUME NEW b \in BalanceType, NEW n, assertCanSubmit(u.row, b),
             Continue(r, Held(u.op, u.leave, "overlap", u.row, b, n, u.outdated)),
             n => /\ BalanceKeyFree(p) /\ b = NewBalance(p),
             ~n => balance[p].exists /\ b = balance[p]
      PROVE  SInv'
    <2> DEFINE t == Held(u.op, u.leave, "overlap", u.row, b, n, u.outdated)
    <2>1. t.op = "create" /\ t.pc = "overlap" /\ t.row = u.row /\ t.bal = b /\ t.inserts = n
        BY <1>1 DEF Held
    <2>2. Continue(r, t)
        BY <1>3
    <2> HIDE DEF t
    <2>3. HalvesOk(u.row)
        BY <1>3 DEF assertCanSubmit, HalvesOk
    <2>4. Rule[p].negativeBalanceAllowed \/ u.row.days <= Available(b)
        BY <1>3 DEF assertCanSubmit
    <2>5. n => ~balance[p].exists
        BY <1>3 DEF BalanceKeyFree
    <2>6. CreateOk(t, balance)
        BY <1>2, <1>3, <2>1, <2>3, <2>4, <2>5 DEF CreateOk
    <2>7. Holds(t, leave, balance)
        BY <1>2, <2>1, <2>6 DEF Holds, DecideOps, Outcome
    <2>8. t.inserts => \A q \in Requests \ {r} :
                            tx[q].inserts => tx[q].row.policy # t.row.policy
        BY <1>3, <2>1 DEF BalanceKeyFree
    <2> QED BY <2>2, <2>7, <2>8, BalancesContinue
<1>4. /\ \A pc, b : [u EXCEPT !.pc = pc, !.bal = b]
                   = Held(u.op, u.leave, pc, u.row, b, u.inserts, u.outdated)
      /\ \A pc, b : [u EXCEPT !.pc = pc, !.bal = b, !.inserts = TRUE]
                   = Held(u.op, u.leave, pc, u.row, b, TRUE, u.outdated)
    BY <1>2, MovesOnWith, MovesOnInserting
<1>5. CASE /\ balance[p].exists /\ assertCanSubmit(u.row, balance[p])
           /\ Continue(r, [u EXCEPT !.pc = "overlap", !.bal = balance[p]])
    <2>1. [u EXCEPT !.pc = "overlap", !.bal = balance[p]]
          = Held(u.op, u.leave, "overlap", u.row, balance[p], u.inserts, u.outdated)
        BY <1>4
    <2>2. balance[p] \in BalanceType
        BY <1>2, RowTypes
    <2> QED BY <1>2, <1>3, <1>5, <2>1, <2>2
<1>6. CASE /\ BalanceKeyFree(p) /\ assertCanSubmit(u.row, NewBalance(p))
           /\ Continue(r, [u EXCEPT !.pc = "overlap", !.bal = NewBalance(p),
                                    !.inserts = TRUE])
    <2>1. [u EXCEPT !.pc = "overlap", !.bal = NewBalance(p), !.inserts = TRUE]
          = Held(u.op, u.leave, "overlap", u.row, NewBalance(p), TRUE, u.outdated)
        BY <1>4
    <2>2. NewBalance(p) \in BalanceType
        BY <1>2, RowTypes DEF NewBalance, BalanceType, RuleType
    <2> QED BY <1>3, <1>6, <2>1, <2>2
<1> QED BY <1>5, <1>6 DEF getOrCreateBalance

LEMMA BalancesOverlap ==
    ASSUME IInv, SInv, NEW r \in Requests, CheckOverlap(r)
    PROVE  SInv'
<1> DEFINE u == tx[r]
           t == Held(u.op, u.leave, "insert", u.row, u.bal, u.inserts, u.outdated)
<1>1. IsTx(u) /\ u.pc = "overlap" /\ u.op = "create" /\ Holds(u, leave, balance)
    BY RowTypes DEF CheckOverlap, Good
<1>2. Continue(r, t)
    BY <1>1, MovesOn DEF CheckOverlap
<1>3. /\ t.op = u.op /\ t.pc = "insert" /\ t.row = u.row /\ t.bal = u.bal
      /\ t.inserts = u.inserts /\ t.outdated = u.outdated
    BY DEF Held
<1> HIDE DEF t
<1>4. Holds(t, leave, balance)
    BY <1>1, <1>3 DEF Holds, CreateOk, DecideOps, Outcome
<1>5. t.inserts => \A q \in Requests \ {r} :
                            tx[q].inserts => tx[q].row.policy # t.row.policy
    BY <1>3 DEF SInv, OneInserts
<1> QED BY <1>2, <1>4, <1>5, BalancesContinue

LEMMA BalancesRead ==
    ASSUME IInv, SInv, NEW r \in Requests, ReadBalance(r)
    PROVE  SInv'
<1> DEFINE u == tx[r]
           b == balance[u.row.policy]
           t == Held(u.op, u.leave, "decide", u.row, b, u.inserts, u.outdated)
<1>1. IsTx(u) /\ u.pc = "getBalance" /\ u.op \in DecideOps /\ Holds(u, leave, balance)
    BY RowTypes DEF ReadBalance, Good
<1>0. \A pc, c : [u EXCEPT !.pc = pc, !.bal = c]
            = Held(u.op, u.leave, pc, u.row, c, u.inserts, u.outdated)
    BY <1>1, MovesOnWith
<1>2. Continue(r, t)
    <2>1. [u EXCEPT !.pc = "decide", !.bal = b] = t
        BY <1>0
    <2> QED BY <2>1 DEF ReadBalance
<1>3. b \in BalanceType
    BY <1>1, RowTypes DEF Holds, RowOk
<1>4. /\ t.op = u.op /\ t.leave = u.leave /\ t.pc = "decide" /\ t.row = u.row /\ t.bal = b
      /\ t.inserts = u.inserts
    BY DEF Held
<1> HIDE DEF t
<1>5. ~t.inserts
    BY <1>1, <1>4 DEF Holds, DecideOk
<1>6. Holds(t, leave, balance)
    BY <1>1, <1>3, <1>4 DEF Holds, DecideOk, DecideOps, Outcome
<1> QED BY <1>2, <1>5, <1>6, BalancesContinue

LEMMA BalancesFail ==
    ASSUME IInv, SInv, NEW r \in Requests, Fail(r)
    PROVE  SInv'
<1>1. Continue(r, NoTx) /\ Holds(NoTx, leave, balance) /\ ~NoTx.inserts
    BY DEF Fail, Holds, NoTx
<1> QED BY <1>1, BalancesContinue

(* Whatever a commit of r does to the balance of its leave type, which     *)
(* exists from then on, the others still hold what they should.            *)
LEMMA BalancesCommit ==
    ASSUME IInv, SInv, NEW r \in Requests, tx[r].pc # "idle", Commit(r),
           \A c \in Policies \ {tx[r].row.policy} : balance'[c] = balance[c],
           balance'[tx[r].row.policy].exists,
           \A q \in Requests \ {r} : tx[q].inserts => tx[q].row.policy # tx[r].row.policy,
           \A j \in Leaves : leave[j].status # "NONE" =>
                /\ leave'[j].policy = leave[j].policy /\ leave'[j].days = leave[j].days
    PROVE  OneInserts' /\ \A q \in Requests : Holds(tx'[q], leave', balance')
<1> DEFINE p == tx[r].row.policy
<1>1. /\ tx'[r] = NoTx
      /\ \A q \in Requests \ {r} :
            /\ tx'[q].op = tx[q].op /\ tx'[q].leave = tx[q].leave
            /\ tx'[q].pc = tx[q].pc /\ tx'[q].row = tx[q].row
            /\ tx'[q].bal = tx[q].bal /\ tx'[q].inserts = tx[q].inserts
            /\ tx[q].outdated => tx'[q].outdated
            /\ tx[q].pc # "idle" /\ ~tx'[q].outdated => ~Outdated(q, r)
    BY CommitEffect
<1>2. OneInserts'
    BY <1>1 DEF SInv, OneInserts, NoTx
<1>3. ASSUME NEW q \in Requests \ {r}, tx[q].pc # "idle" PROVE Holds(tx'[q], leave', balance')
    <2> DEFINE u == tx[q]
               c == u.row.policy
    <2>1. Holds(u, leave, balance) /\ Good(u, leave, stale) /\ c \in Policies
        BY <1>3, RowTypes DEF Holds, RowOk
    <2>2. PICK v : v = tx'[q]
        OBVIOUS
    <2>3. /\ v.op = u.op /\ v.leave = u.leave /\ v.pc = u.pc /\ v.row = u.row
          /\ v.bal = u.bal /\ v.inserts = u.inserts /\ (u.outdated => v.outdated)
          /\ ~v.outdated /\ u.pc # "getBalance" => c # p
        BY <1>1, <1>3, <2>2 DEF Outdated
    <2>4. c # p => balance'[c] = balance[c]
        BY <2>1
    <2>5. balance[c].exists => balance'[c].exists
        BY <2>4
    <2>6. CASE u.op = "create"
        <3>1. CreateOk(u, balance)
            BY <1>3, <2>1, <2>6 DEF Holds
        <3>2. u.inserts => c # p
            OBVIOUS
        <3>3. CreateOk(v, balance')
            BY <2>3, <2>4, <2>5, <3>1, <3>2 DEF CreateOk
        <3>4. v.op \notin DecideOps
            BY <2>3, <2>6 DEF DecideOps, Outcome
        <3> QED BY <1>3, <2>1, <2>2, <2>3, <3>3, <3>4 DEF Holds
    <2>7. CASE u.op \in DecideOps
        <3>1. DecideOk(u, leave, balance)
            BY <1>3, <2>1, <2>7 DEF Holds
        <3>2. /\ leave'[u.leave].policy = leave[u.leave].policy
              /\ leave'[u.leave].days = leave[u.leave].days
            BY <2>1, <2>7 DEF Good
        <3>3. DecideOk(v, leave', balance')
            BY <2>3, <2>4, <3>1, <3>2 DEF DecideOk
        <3>4. v.op # "create"
            BY <2>3, <2>7 DEF DecideOps, Outcome
        <3> QED BY <1>3, <2>1, <2>2, <2>3, <3>3, <3>4 DEF Holds
    <2> QED BY <1>3, <2>1, <2>6, <2>7 DEF Holds
<1>4. ASSUME NEW q \in Requests PROVE Holds(tx'[q], leave', balance')
    <2>1. CASE q = r
        BY <1>1, <2>1 DEF Holds, NoTx
    <2>2. CASE q # r /\ tx[q].pc = "idle"
        <3>1. tx'[q].pc = "idle"
            BY <1>1, <2>2
        <3> QED BY <3>1 DEF Holds
    <2>3. CASE q # r /\ tx[q].pc # "idle"
        BY <1>3, <2>3
    <2> QED BY <2>1, <2>2, <2>3
<1> QED BY <1>2, <1>4

(* What the leaves of a type add up to, before and after row i changes.    *)
LEMMA DaysChange ==
    ASSUME NEW a, NEW b, \A j \in Leaves : a[j].days \in Nat /\ b[j].days \in Nat,
           NEW i \in Leaves, \A j \in Leaves \ {i} : b[j] = a[j], NEW p, NEW status
    PROVE  \E n \in Nat :
             /\ DaysOf(a, p, status)
                = n + (IF a[i].policy = p /\ a[i].status = status THEN a[i].days ELSE 0)
             /\ DaysOf(b, p, status)
                = n + (IF b[i].policy = p /\ b[i].status = status THEN b[i].days ELSE 0)
<1>1. Others(a, i, p, status) \in Nat /\ Others(b, i, p, status) = Others(a, i, p, status)
    BY DaysSplit, OthersSame
<1>2. DaysOf(a, p, status)
      = Others(a, i, p, status)
        + (IF a[i].policy = p /\ a[i].status = status THEN a[i].days ELSE 0)
    BY DaysSplit
<1>3. DaysOf(b, p, status)
      = Others(b, i, p, status)
        + (IF b[i].policy = p /\ b[i].status = status THEN b[i].days ELSE 0)
    BY DaysSplit
<1> QED BY <1>1, <1>2, <1>3

LEMMA BalancesInsert ==
    ASSUME IInv, SInv, NEW r \in Requests, InsertRequest(r)
    PROVE  SInv'
<1>0. PICK u : u = tx[r]
    OBVIOUS
<1> DEFINE i == u.leave
           p == u.row.policy
<1>01. /\ u.pc = "insert" /\ leave' = [leave EXCEPT ![i] = u.row] /\ Commit(r)
       /\ \E used \in UsedKept(u) :
             balance' = [balance EXCEPT ![p] =
                [IF u.inserts THEN u.bal ELSE balance[p]
                    EXCEPT !.pending = u.bal.pending + u.row.days, !.used = used]]
    BY <1>0 DEF InsertRequest, incrementPending
<1>02. PICK used \in UsedKept(u) :
          balance' = [balance EXCEPT ![p] =
             [IF u.inserts THEN u.bal ELSE balance[p]
                 EXCEPT !.pending = u.bal.pending + u.row.days, !.used = used]]
    BY <1>01
<1>1. u.pc = "insert" /\ leave' = [leave EXCEPT ![i] = u.row] /\ Commit(r)
    BY <1>01
<1>2. Good(u, leave, stale) /\ Holds(u, leave, balance)
    BY <1>0, RowTypes
<1>3. u.op = "create" /\ i \in Leaves /\ leave[i].status = "NONE"
    BY <1>1, <1>2 DEF Good
<1>4. leave[i] = NoLeave /\ leave[i].policy = None /\ leave[i].days = 0
    BY <1>3 DEF SInv, RowsOk, NoLeave
<1>5. RowOk(u.row) /\ CreateOk(u, balance) /\ p \in Policies /\ u.row.days \in Nat
    BY <1>1, <1>2, <1>3 DEF Holds, RowOk
<1>6. /\ HalvesOk(u.row) /\ u.row.status = "PENDING" /\ u.bal \in BalanceType
      /\ Rule[p].negativeBalanceAllowed \/ u.row.days <= Available(u.bal)
    BY <1>1, <1>5 DEF CreateOk
<1>7. Rule[p] \in RuleType /\ balance[p] \in BalanceType /\ Rule[p].granted \in Nat
    BY <1>5, RowTypes DEF RuleType
<1>8. PICK old : old = IF u.inserts THEN u.bal ELSE balance[p]
    OBVIOUS
<1>9. /\ old \in BalanceType /\ old.exists /\ old.granted = Rule[p].granted
      /\ used \in Nat
      /\ ~u.outdated => used = balance[p].used
      /\ ~u.outdated => u.bal.pending = balance[p].pending /\ u.bal.used = balance[p].used
                        /\ u.bal.granted = Rule[p].granted
    <2>1. CASE u.inserts
        <3>1. u.bal = NewBalance(p) /\ old = u.bal /\ ~balance[p].exists
            BY <1>1, <1>5, <1>8, <2>1 DEF CreateOk
        <3>2. balance[p] = NoBalance
            BY <1>5, <3>1 DEF SInv, BalancesOk
        <3>3. used = u.bal.used
            BY <1>02, <2>1 DEF UsedKept
        <3> QED BY <1>6, <3>1, <3>2, <3>3 DEF NewBalance, NoBalance
    <2>2. CASE ~u.inserts
        <3>1. balance[p].exists /\ old = balance[p] /\ (~u.outdated => u.bal = balance[p])
            BY <1>1, <1>5, <1>8, <2>2 DEF CreateOk
        <3>2. balance[p].granted = Rule[p].granted
            BY <1>5, <3>1 DEF SInv, BalancesOk
        <3>3. used = u.bal.used \/ used = balance[p].used
            BY <1>02, <2>2 DEF UsedKept
        <3>4. used \in Nat
            BY <1>6, <1>7, <3>3 DEF BalanceType
        <3> QED BY <1>7, <3>1, <3>2, <3>3, <3>4
    <2> QED BY <2>1, <2>2
<1>10. /\ leave'[i] = u.row /\ \A j \in Leaves \ {i} : leave'[j] = leave[j]
    BY <1>1, <1>3 DEF IInv, Rows
<1>11. /\ balance'[p] = [old EXCEPT !.pending = u.bal.pending + u.row.days, !.used = used]
       /\ \A c \in Policies \ {p} : balance'[c] = balance[c]
       /\ balance' = [c \in Policies |-> balance'[c]]
    <2>1. PICK y : y = [old EXCEPT !.pending = u.bal.pending + u.row.days, !.used = used]
        OBVIOUS
    <2>2. balance' = [balance EXCEPT ![p] = y]
        BY <1>02, <1>8, <2>1
    <2>3. balance = [c \in Policies |-> balance[c]]
        BY DEF SInv, BalancesOk
    <2>4. balance'[p] = y /\ \A c \in Policies \ {p} : balance'[c] = balance[c]
        BY <1>5, <2>2, <2>3
    <2>5. balance' = [c \in Policies |-> balance'[c]]
        BY <2>2, <2>3
    <2> QED BY <2>1, <2>4, <2>5
<1>12. PICK nb : nb = balance'[p]
    OBVIOUS
<1>13. /\ nb \in BalanceType /\ nb.exists /\ nb.granted = Rule[p].granted
       /\ nb.used = used /\ nb.pending = u.bal.pending + u.row.days
    <2>1. u.bal.pending + u.row.days \in Nat
        BY <1>5, <1>6 DEF BalanceType
    <2>2. nb = [old EXCEPT !.pending = u.bal.pending + u.row.days, !.used = used]
        BY <1>11, <1>12
    <2> QED BY <1>9, <2>1, <2>2 DEF BalanceType
<1>14. OneInserts' /\ \A q \in Requests : Holds(tx'[q], leave', balance')
    <2>1. \A q \in Requests \ {r} : tx[q].inserts => tx[q].row.policy # p
        <3> SUFFICES ASSUME NEW q \in Requests \ {r}, tx[q].inserts, tx[q].row.policy = p
                     PROVE  FALSE
            OBVIOUS
        <3>1. ~u.inserts
            BY <1>0 DEF SInv, OneInserts
        <3>2. balance[p].exists
            BY <3>1, <1>1, <1>5 DEF CreateOk
        <3>3. tx[q].pc # "idle"
            BY RowTypes DEF NoTx
        <3>4. Holds(tx[q], leave, balance)
            BY RowTypes
        <3>5. tx[q].op = "create" /\ CreateOk(tx[q], balance)
            BY <3>3, <3>4 DEF Holds, DecideOk
        <3> QED BY <3>2, <3>5 DEF CreateOk
    <2>2. \A j \in Leaves : leave[j].status # "NONE" =>
                /\ leave'[j].policy = leave[j].policy /\ leave'[j].days = leave[j].days
        BY <1>3, <1>10
    <2>3. balance'[p].exists
        BY <1>12, <1>13
    <2> QED BY <1>0, <1>1, <1>11, <2>1, <2>2, <2>3, BalancesCommit
<1>15. BalancesOk'
    <2>1. ASSUME NEW c \in Policies
          PROVE  /\ balance'[c] \in BalanceType
                 /\ IF balance'[c].exists THEN balance'[c].granted = Rule[c].granted
                    ELSE balance'[c] = NoBalance
        <3>1. CASE c = p
            BY <1>12, <1>13, <3>1
        <3>2. CASE c # p
            <4>1. balance'[c] = balance[c]
                BY <1>11, <3>2
            <4>2. /\ balance[c] \in BalanceType
                  /\ IF balance[c].exists THEN balance[c].granted = Rule[c].granted
                     ELSE balance[c] = NoBalance
                BY DEF SInv, BalancesOk
            <4> QED BY <4>1, <4>2
        <3> QED BY <3>1, <3>2
    <2> QED BY <1>11, <2>1 DEF BalancesOk
<1>16. RowsOk'
    <2>1. \A c \in Policies : balance[c].exists => balance'[c].exists
        BY <1>11, <1>12, <1>13
    <2>2. \A j \in Leaves \ {i} :
            /\ leave'[j].status \in {"NONE", "PENDING", "APPROVED", "REJECTED", "WITHDRAWN"}
            /\ leave'[j].status = "NONE" => leave'[j] = NoLeave
            /\ leave'[j].status # "NONE" => RowOk(leave'[j]) /\ HalvesOk(leave'[j])
                                            /\ balance'[leave'[j].policy].exists
        BY <1>10, <2>1 DEF SInv, RowsOk, RowOk
    <2>3. /\ leave'[i].status \in {"NONE", "PENDING", "APPROVED", "REJECTED", "WITHDRAWN"}
          /\ leave'[i].status # "NONE" /\ RowOk(leave'[i]) /\ HalvesOk(leave'[i])
          /\ balance'[leave'[i].policy].exists
        BY <1>5, <1>6, <1>10, <1>12, <1>13
    <2> QED BY <2>2, <2>3 DEF RowsOk
<1>17. Match'
    <2> SUFFICES ASSUME ~stale', NEW c \in Policies
                 PROVE  /\ balance'[c].pending = DaysIn(c, "PENDING")'
                        /\ balance'[c].used = DaysIn(c, "APPROVED")'
                        /\ Rule[c].negativeBalanceAllowed
                             \/ balance'[c].pending + balance'[c].used <= Rule[c].granted
        BY DEF Match
    <2>1. ~stale /\ ~u.outdated
        BY <1>0, <1>1, CommitEffect
    <2>2. /\ balance[c].pending = DaysIn(c, "PENDING") /\ balance[c].used = DaysIn(c, "APPROVED")
          /\ Rule[c].negativeBalanceAllowed
                \/ balance[c].pending + balance[c].used <= Rule[c].granted
        BY <2>1 DEF SInv, Match
    <2>3. PICK new : new = leave'
        OBVIOUS
    <2>4. \A j \in Leaves : leave[j].days \in Nat /\ new[j].days \in Nat
        BY <1>5, <1>10, <2>3, RowTypes
    <2>5. \A st : DaysIn(c, st) = DaysOf(leave, c, st) /\ DaysIn(c, st)' = DaysOf(new, c, st)
        BY <2>3, <2>4, DaysInIsDaysOf DEF DaysIn, RowsWith
    <2>6. ASSUME NEW st
          PROVE  \E n \in Nat :
             /\ DaysOf(leave, c, st)
                = n + (IF leave[i].policy = c /\ leave[i].status = st THEN leave[i].days ELSE 0)
             /\ DaysOf(new, c, st)
                = n + (IF new[i].policy = c /\ new[i].status = st THEN new[i].days ELSE 0)
        <3>1. \A j \in Leaves \ {i} : new[j] = leave[j]
            BY <1>10, <2>3
        <3> HIDE DEF i
        <3>2. PICK k : k = i
            OBVIOUS
        <3>3. k \in Leaves /\ \A j \in Leaves \ {k} : new[j] = leave[j]
            BY <1>3, <3>1, <3>2
        <3> QED BY <2>4, <3>2, <3>3, DaysChange
    <2>7. new[i] = u.row /\ leave[i].policy # c
        BY <1>4, <1>10, <2>3, LeaveAssumption
    <2>8. DaysOf(new, c, "APPROVED") = DaysOf(leave, c, "APPROVED")
        <3>1. PICK n \in Nat :
             /\ DaysOf(leave, c, "APPROVED") = n + 0 /\ DaysOf(new, c, "APPROVED") = n + 0
            BY <1>6, <2>6, <2>7
        <3> QED BY <3>1
    <2>9. DaysOf(new, c, "PENDING")
          = DaysOf(leave, c, "PENDING") + (IF c = p THEN u.row.days ELSE 0)
        <3>1. PICK n \in Nat :
             /\ DaysOf(leave, c, "PENDING") = n + 0
             /\ DaysOf(new, c, "PENDING") = n + (IF c = p THEN u.row.days ELSE 0)
            BY <1>6, <2>6, <2>7
        <3> QED BY <1>5, <3>1
    <2>10. CASE c = p
        <3>1. /\ balance'[c].pending = balance[c].pending + u.row.days
              /\ balance'[c].used = balance[c].used
            <4>1. used = balance[p].used /\ u.bal.pending = balance[p].pending
                BY <1>9, <2>1
            <4> QED BY <1>12, <1>13, <2>10, <4>1
        <3>2. Rule[c].negativeBalanceAllowed
                \/ u.row.days <= Rule[c].granted - balance[c].used - balance[c].pending
            BY <1>6, <1>9, <2>1, <2>10 DEF Available
        <3>3. /\ balance[c].pending \in Nat /\ balance[c].used \in Nat
              /\ Rule[c].granted \in Nat /\ u.row.days \in Nat
            BY <1>5, <1>7, <2>10 DEF BalanceType
        <3>4. Rule[c].negativeBalanceAllowed
                \/ (balance[c].pending + u.row.days) + balance[c].used <= Rule[c].granted
            BY <3>2, <3>3
        <3>5. /\ DaysIn(c, "PENDING")' = DaysIn(c, "PENDING") + u.row.days
              /\ DaysIn(c, "APPROVED")' = DaysIn(c, "APPROVED")
            BY <2>5, <2>8, <2>9, <2>10
        <3> QED BY <2>2, <3>1, <3>4, <3>5
    <2>11. CASE c # p
        <3>1. balance'[c] = balance[c]
            BY <1>11, <2>11
        <3>2. balance[c].pending \in Nat
            BY RowTypes DEF BalanceType
        <3>3. DaysIn(c, "PENDING")' = DaysIn(c, "PENDING") /\ DaysIn(c, "APPROVED")' = DaysIn(c, "APPROVED")
            BY SMTT(30), <2>2, <2>5, <2>8, <2>9, <2>11, <3>2
        <3> QED BY <2>2, <3>1, <3>3
    <2> QED BY <2>10, <2>11
<1> QED BY <1>14, <1>15, <1>16, <1>17 DEF SInv

LEMMA BalancesDecide ==
    ASSUME IInv, SInv, NEW r \in Requests, Decide(r)
    PROVE  SInv'
<1>0. PICK u : u = tx[r]
    OBVIOUS
<1> DEFINE i == u.leave
           p == u.row.policy
           o == Outcome[u.op]
           left == decrementPending(u.bal, u.row.days)
<1>01. /\ u.pc = "decide" /\ leave' = [leave EXCEPT ![i].status = o] /\ Commit(r)
       /\ \E w \in UsedAfter(u) : balance' = [balance EXCEPT ![p].pending = left, ![p].used = w]
    BY <1>0 DEF Decide
<1>02. PICK used \in UsedAfter(u) : balance' = [balance EXCEPT ![p].pending = left, ![p].used = used]
    BY <1>01
<1>1. /\ u.pc = "decide" /\ leave' = [leave EXCEPT ![i].status = o] /\ Commit(r)
      /\ balance' = [balance EXCEPT ![p].pending = left, ![p].used = used]
    BY <1>01, <1>02
<1>2. Good(u, leave, stale) /\ Holds(u, leave, balance)
    BY <1>0, RowTypes
<1>3. /\ u.op \in DecideOps /\ i \in Leaves /\ leave[i].status # "NONE"
      /\ ~u.outdated => leave[i].status = "PENDING"
    BY <1>1, <1>2 DEF Good
<1>4. /\ RowOk(leave[i]) /\ HalvesOk(leave[i]) /\ balance[leave[i].policy].exists
      /\ IsRow(leave[i])
    BY <1>3 DEF SInv, RowsOk, IInv, Rows
<1>5. /\ DecideOk(u, leave, balance) /\ p = leave[i].policy /\ u.row.days = leave[i].days
      /\ p \in Policies /\ u.row.days \in Nat /\ u.bal \in BalanceType
      /\ ~u.outdated => u.bal = balance[p]
    <2>1. DecideOk(u, leave, balance)
        BY <1>1, <1>2, <1>3 DEF Holds
    <2> QED BY <1>1, <1>4, <2>1 DEF DecideOk, RowOk
<1>6. Rule[p] \in RuleType /\ balance[p] \in BalanceType
    BY <1>5, RowTypes
<1>7. left \in Nat /\ used \in Nat
    <2>1. left \in Nat
        BY <1>5, <1>6 DEF decrementPending, BalanceType
    <2>2. used \in Nat
        BY <1>02, <1>5, <1>6 DEF UsedAfter, UsedKept, BalanceType
    <2> QED BY <2>1, <2>2
<1>8. /\ o \in {"WITHDRAWN", "APPROVED", "REJECTED"} /\ (o = "APPROVED" <=> u.op = "approve")
    <2>1. PICK op : op = u.op
        OBVIOUS
    <2>2. op \in DecideOps /\ o = Outcome[op]
        BY <1>3, <2>1
    <2> HIDE DEF o
    <2>3. /\ o \in {"WITHDRAWN", "APPROVED", "REJECTED"} /\ (o = "APPROVED" <=> op = "approve")
        BY ONLY <2>2 DEF DecideOps, Outcome
    <2> QED BY <2>1, <2>3
<1> HIDE DEF left, o
<1>9. PICK nb : nb = balance'[p]
    OBVIOUS
<1>10. /\ \A c \in Policies \ {p} : balance'[c] = balance[c]
       /\ balance' = [c \in Policies |-> balance'[c]]
       /\ nb = [balance[p] EXCEPT !.pending = left, !.used = used]
    BY <1>1, <1>5, <1>9 DEF SInv, BalancesOk
<1>11. /\ nb \in BalanceType /\ nb.exists = balance[p].exists
       /\ nb.granted = balance[p].granted /\ nb.pending = left /\ nb.used = used
    BY <1>6, <1>7, <1>10 DEF BalanceType
<1>12. /\ \A j \in Leaves \ {i} : leave'[j] = leave[j]
       /\ leave'[i] = [leave[i] EXCEPT !.status = o]
    BY <1>1, <1>3 DEF IInv, Rows
<1>13. /\ leave'[i].status = o /\ leave'[i].policy = p /\ leave'[i].days = u.row.days
       /\ leave'[i].span = leave[i].span
    <2> HIDE DEF i, p
    <2> SUFFICES ASSUME NEW w, w = leave'[i]
                 PROVE  /\ w.status = o /\ w.policy = p /\ w.days = u.row.days
                        /\ w.span = leave[i].span
        OBVIOUS
    <2>1. w = [leave[i] EXCEPT !.status = o]
        BY <1>12
    <2> QED BY <1>4, <1>5, <2>1 DEF IsRow
<1>14. balance[p].exists /\ nb.exists
    <2>1. balance[p].exists
        BY ONLY <1>4, <1>5
    <2> QED BY <2>1, <1>11
<1>15. OneInserts' /\ \A q \in Requests : Holds(tx'[q], leave', balance')
    <2>1. ASSUME NEW q \in Requests \ {r}, tx[q].inserts PROVE tx[q].row.policy # p
        <3>1. tx[q].pc # "idle" /\ Holds(tx[q], leave, balance)
            BY <2>1, RowTypes DEF NoTx
        <3>2. CreateOk(tx[q], balance)
            BY <2>1, <3>1 DEF Holds, DecideOk
        <3> QED BY <1>14, <2>1, <3>2 DEF CreateOk
    <2>2. \A j \in Leaves : leave[j].status # "NONE" =>
                /\ leave'[j].policy = leave[j].policy /\ leave'[j].days = leave[j].days
        BY <1>5, <1>12, <1>13
    <2>3. tx[r].pc # "idle" /\ p = tx[r].row.policy
        BY <1>0, <1>1
    <2>4. balance'[p].exists
        BY <1>9, <1>14
    <2> QED BY ZenonT(60), <1>1, <1>10, <2>1, <2>2, <2>3, <2>4, BalancesCommit
<1>16. BalancesOk'
    <2>1. \A c \in Policies : balance'[c] \in BalanceType
        BY <1>9, <1>10, <1>11, RowTypes
    <2>2. balance[p].granted = Rule[p].granted
        BY <1>5, <1>14 DEF SInv, BalancesOk
    <2>3. \A c \in Policies \ {p} :
            IF balance'[c].exists THEN balance'[c].granted = Rule[c].granted
            ELSE balance'[c] = NoBalance
        BY <1>10 DEF SInv, BalancesOk
    <2>4. balance'[p].exists /\ balance'[p].granted = Rule[p].granted
        BY <1>9, <1>11, <1>14, <2>2
    <2> QED BY <1>10, <2>1, <2>3, <2>4 DEF BalancesOk
<1>17. RowsOk'
    <2>1. \A c \in Policies : balance[c].exists => balance'[c].exists
        BY <1>9, <1>10, <1>14
    <2>2. \A j \in Leaves \ {i} :
            /\ leave'[j].status \in {"NONE", "PENDING", "APPROVED", "REJECTED", "WITHDRAWN"}
            /\ leave'[j].status = "NONE" => leave'[j] = NoLeave
            /\ leave'[j].status # "NONE" => RowOk(leave'[j]) /\ HalvesOk(leave'[j])
                                            /\ balance'[leave'[j].policy].exists
        BY <1>12, <2>1 DEF SInv, RowsOk, RowOk
    <2>3. /\ leave'[i].status \in {"NONE", "PENDING", "APPROVED", "REJECTED", "WITHDRAWN"}
          /\ leave'[i].status # "NONE" /\ RowOk(leave'[i]) /\ HalvesOk(leave'[i])
          /\ balance'[leave'[i].policy].exists
        <3> HIDE DEF i, p
        <3>1. PICK w : w = leave'[i]
            OBVIOUS
        <3>2. /\ w.status = o /\ w.policy = leave[i].policy /\ w.days = leave[i].days
              /\ w.span = leave[i].span /\ w.policy = p
            BY <1>5, <1>13, <3>1
        <3>3. RowOk(w) /\ HalvesOk(w)
            BY <1>4, <3>2 DEF RowOk, HalvesOk
        <3> QED BY <1>8, <1>9, <1>14, <3>1, <3>2, <3>3
    <2> QED BY <2>2, <2>3 DEF RowsOk
<1>18. Match'
    <2> SUFFICES ASSUME ~stale', NEW c \in Policies
                 PROVE  /\ balance'[c].pending = DaysIn(c, "PENDING")'
                        /\ balance'[c].used = DaysIn(c, "APPROVED")'
                        /\ Rule[c].negativeBalanceAllowed
                             \/ balance'[c].pending + balance'[c].used <= Rule[c].granted
        BY DEF Match
    <2>1. ~stale /\ ~u.outdated /\ leave[i].status = "PENDING" /\ u.bal = balance[p]
        BY <1>0, <1>1, <1>3, <1>5, CommitEffect
    <2>2. /\ balance[c].pending = DaysIn(c, "PENDING") /\ balance[c].used = DaysIn(c, "APPROVED")
          /\ Rule[c].negativeBalanceAllowed
                \/ balance[c].pending + balance[c].used <= Rule[c].granted
        BY <2>1 DEF SInv, Match
    <2>3. PICK new : new = leave'
        OBVIOUS
    <2>4. \A j \in Leaves : leave[j].days \in Nat /\ new[j].days \in Nat
        BY <1>5, <1>12, <1>13, <2>3, RowTypes
    <2>5. \A st : DaysIn(c, st) = DaysOf(leave, c, st) /\ DaysIn(c, st)' = DaysOf(new, c, st)
        BY <2>3, <2>4, DaysInIsDaysOf DEF DaysIn, RowsWith
    <2>6. ASSUME NEW st
          PROVE  \E n \in Nat :
             /\ DaysOf(leave, c, st)
                = n + (IF leave[i].policy = c /\ leave[i].status = st THEN leave[i].days ELSE 0)
             /\ DaysOf(new, c, st)
                = n + (IF new[i].policy = c /\ new[i].status = st THEN new[i].days ELSE 0)
        <3>1. \A j \in Leaves \ {i} : new[j] = leave[j]
            BY <1>12, <2>3
        <3> HIDE DEF i
        <3>2. PICK k : k = i
            OBVIOUS
        <3>3. k \in Leaves /\ \A j \in Leaves \ {k} : new[j] = leave[j]
            BY <1>3, <3>1, <3>2
        <3> QED BY <2>4, <3>2, <3>3, DaysChange
    <2>7. /\ new[i].status = o /\ new[i].policy = p /\ new[i].days = u.row.days
          /\ leave[i].policy = p /\ leave[i].days = u.row.days /\ leave[i].status = "PENDING"
        BY <1>5, <1>13, <2>1, <2>3
    <2> HIDE DEF i, p
    <2>8. CASE c = p
        <3>1. PICK n \in Nat :
             /\ DaysOf(leave, c, "PENDING") = n + u.row.days
             /\ DaysOf(new, c, "PENDING") = n + 0
            BY <1>8, <2>6, <2>7, <2>8
        <3>2. PICK m \in Nat :
             /\ DaysOf(leave, c, "APPROVED") = m + 0
             /\ DaysOf(new, c, "APPROVED") = m + (IF o = "APPROVED" THEN u.row.days ELSE 0)
            BY <2>6, <2>7, <2>8
        <3>3. balance[c].pending = n + u.row.days /\ balance[c].used = m
            BY <2>2, <2>5, <3>1, <3>2
        <3>4. left = n
            BY <1>5, <2>1, <2>8, <3>3 DEF left, decrementPending
        <3>5. used = m + (IF o = "APPROVED" THEN u.row.days ELSE 0)
            BY <1>02, <1>5, <1>8, <2>1, <2>8, <3>3 DEF UsedAfter, UsedKept, p
        <3>6. balance'[c].pending = left /\ balance'[c].used = used
            BY <1>9, <1>11, <2>8
        <3>7. DaysIn(c, "PENDING")' = n
              /\ DaysIn(c, "APPROVED")' = m + (IF o = "APPROVED" THEN u.row.days ELSE 0)
            BY <2>5, <3>1, <3>2
        <3>8. Rule[c].granted \in Nat
            BY RowTypes DEF RuleType
        <3>9. Rule[c].negativeBalanceAllowed \/ left + used <= Rule[c].granted
            BY <1>5, <2>2, <3>3, <3>4, <3>5, <3>8
        <3> QED BY <3>4, <3>5, <3>6, <3>7, <3>9
    <2>9. CASE c # p
        <3>1. balance'[c] = balance[c]
            BY <1>10, <2>9
        <3>2. \A st : DaysIn(c, st)' = DaysIn(c, st)
            <4> SUFFICES ASSUME NEW st PROVE DaysIn(c, st)' = DaysIn(c, st)
                OBVIOUS
            <4>1. PICK n \in Nat : DaysOf(leave, c, st) = n + 0 /\ DaysOf(new, c, st) = n + 0
                BY <2>6, <2>7, <2>9
            <4> QED BY <2>5, <4>1
        <3> QED BY <2>2, <3>1, <3>2
    <2> QED BY <2>8, <2>9
<1> QED BY <1>15, <1>16, <1>17, <1>18 DEF SInv

-----------------------------------------------------------------------------
LEMMA NextSInv == IInv /\ SInv /\ [Next]_vars => SInv'
<1> SUFFICES ASSUME IInv, SInv, [Next]_vars PROVE SInv'
    OBVIOUS
<1>1. CASE UNCHANGED vars
    BY <1>1 DEF vars, SInv, RowsOk, BalancesOk, OneInserts, Match, DaysIn, Holds,
       CreateOk, DecideOk
<1>2. ASSUME NEW p \in Policies, ensureBalance(p) PROVE SInv'
    BY <1>2, BalancesEnsure
<1>3. ASSUME NEW r \in Requests, NEW i \in Leaves, NEW p \in Policies, NEW s \in Spans,
             createRequest(r, i, p, s)
      PROVE  SInv'
    BY <1>3, BalancesCreate
<1>4. ASSUME NEW r \in Requests, NEW i \in Leaves,
             \/ withdrawRequest(r, i) \/ approveLeaveRequest(r, i)
             \/ rejectLeaveRequest(r, i)
      PROVE  SInv'
    <2>1. PICK op \in DecideOps : FindPending(r, op, i)
        BY <1>4 DEF withdrawRequest, approveLeaveRequest, rejectLeaveRequest,
           DecideOps, Outcome
    <2> QED BY <2>1, BalancesFind
<1>5. ASSUME NEW r \in Requests,
             \/ getOrCreateBalance(r) \/ CheckOverlap(r) \/ InsertRequest(r)
             \/ ReadBalance(r) \/ Decide(r) \/ Fail(r)
      PROVE  SInv'
    BY <1>5, BalancesGet, BalancesOverlap, BalancesInsert, BalancesRead,
       BalancesDecide, BalancesFail
<1> QED BY <1>1, <1>2, <1>3, <1>4, <1>5 DEF Next

(* As long as no handler commits on a balance or a leave that another      *)
(* commit has outdated, the pending and used days the balance rows show    *)
(* are the days of the pending and approved leaves: incrementPending,      *)
(* decrementPending and usedDays, each computed in memory and saved.       *)
THEOREM BalancesAlwaysMatch == Spec => []BalancesMatchLeaves
<1>1. SInv => BalancesMatchLeaves
    BY DEF SInv, Match, BalancesMatchLeaves
<1> QED BY <1>1, InitIInv, NextIInv, BalancesAtFirst, NextSInv, PTL DEF Spec

(* ... and leave types that may not go negative are never overdrawn,       *)
(* however many requests are checked at the same time: assertCanSubmit.    *)
THEOREM NeverOverdrawn == Spec => []NoOverdraft
<1>1. SInv => NoOverdraft
    <2> SUFFICES ASSUME SInv, ~stale, NEW p \in Policies,
                        ~Rule[p].negativeBalanceAllowed
                 PROVE  DaysIn(p, "PENDING") + DaysIn(p, "APPROVED") <= Rule[p].granted
        BY DEF NoOverdraft
    <2>1. /\ balance[p].pending = DaysIn(p, "PENDING")
          /\ balance[p].used = DaysIn(p, "APPROVED")
          /\ balance[p].pending + balance[p].used <= Rule[p].granted
        BY DEF SInv, Match
    <2> QED BY <2>1
<1> QED BY <1>1, InitIInv, NextIInv, BalancesAtFirst, NextSInv, PTL DEF Spec

(* Every leave is charged one half day for each half it takes of the days  *)
(* that count, whatever its range and the rules of its type: calculate and *)
(* assertCanSubmit against sessionsCoveredOnDay.                           *)
THEOREM AlwaysChargedForSessions == Spec => []ChargedForSessionsTaken
<1>1. SInv => ChargedForSessionsTaken
    <2> SUFFICES ASSUME SInv, NEW i \in Leaves, leave[i].status # "NONE"
                 PROVE  leave[i].days
                        = Cardinality({x \in SessionsTaken(i) :
                                countsAsLeaveDay(Rule[leave[i].policy], x[1])})
        BY DEF ChargedForSessionsTaken
    <2>1. RowOk(leave[i]) /\ HalvesOk(leave[i])
        BY DEF SInv, RowsOk
    <2>2. leave[i].span \in SpanType /\ leave[i].span.from <= leave[i].span.to
        BY <2>1, LeaveAssumption DEF RowOk, SpanType
    <2> QED BY <2>1, <2>2, ChargedIsSessions DEF RowOk, HalvesOk, SessionsTaken
<1> QED BY <1>1, InitIInv, NextIInv, BalancesAtFirst, NextSInv, PTL DEF Spec

=============================================================================
