--------------------------- MODULE Regularizations ---------------------------
(***************************************************************************)
(* Requests to correct a day.  The employee asks for a time in and a time  *)
(* out; the manager approves or rejects, the employee may withdraw.  An    *)
(* approval adds both punches and recomputes the day in the transaction    *)
(* that also saves the request.                                            *)
(***************************************************************************)
EXTENDS Attendance

CONSTANTS
    Regs,           \* bound: the requests the employee may come to make, numbered
    Times           \* bound: the times in and out that are asked for

(* Times of day, counted from the start of the work date.                  *)
ASSUME RegularizationAssumption ==
    /\ Times \subseteq [in : 0 .. DayLength - 1, out : 0 .. DayLength - 1]
    /\ Regs \subseteq Nat

VARIABLE request    \* attendance_regularization_requests: the committed rows

NoRequest == [status |-> "NONE", day |-> NoDay, in |-> Never, out |-> Never]
Row(d, in, out) == [status |-> "PENDING", day |-> d, in |-> in, out |-> out]

Complete(d) == hasCompleteInOutPair(punches, d, overnight)
Pending(d)  == \E g \in Regs : request[g].status = "PENDING" /\ request[g].day = d

(* resolveRegularizationOutDate: a time out that is not after the time in  *)
(* is on the next day, if the shift spans midnight.                        *)
OutDays(time, d) ==
    IF time.out > time.in THEN {d} ELSE IF overnight THEN {d + 1} ELSE {}

(* The check for a pending request and the insert are one step, for        *)
(* UQ_att_reg_pending_emp_date fails whoever comes second.                 *)
create(r, g, d, time) ==
    /\ Asked("regularize")
    /\ tx[r].pc = "idle" /\ request[g].status = "NONE"
    /\ g = Min({h \in Regs : request[h].status = "NONE"})
    /\ d <= Today
    /\ ~Complete(d) /\ ~Pending(d)
    /\ \E outDay \in OutDays(time, d) \cap Days :
           request' = [request EXCEPT ![g] = Row(d, d * DayLength + time.in,
                                                 outDay * DayLength + time.out)]
    /\ UNCHANGED attVars

(* A decision reads a request that is pending and saves it later, whatever *)
(* it has become.                                                          *)
Outcome == [withdraw |-> "WITHDRAWN", reject |-> "REJECTED"]
decide(r, g, op) ==
    /\ Asked(op)
    /\ request[g].status = "PENDING"
    /\ Begin(r, Handler(op, "decide", g, request[g].day))

SaveDecision(r) ==
    LET t == tx[r] IN
    /\ t.pc = "decide"
    /\ request' = [request EXCEPT ![t.job].status = Outcome[t.op]]
    /\ tx' = [tx EXCEPT ![r] = NoTx]
    /\ UNCHANGED <<scenario, now, punches, summary, behind, tangled>>

approve(r, g) ==
    /\ Asked("approve")
    /\ request[g].status = "PENDING"
    /\ Begin(r, Handler("approve", "apply", g, request[g].day))

(* applyRegularizationPunches.                                             *)
RequestedPunches(r, g) ==
    {Punch(request[g].in, "IN", "REGULARIZATION", r), Punch(request[g].out, "OUT", "REGULARIZATION", r)}

applyRegularizationPunches(r) ==
    LET t == tx[r] IN
    /\ t.pc = "apply"
    /\ IF Complete(t.day)
       THEN Abort(r)
       ELSE Continue(r, [t EXCEPT !.pc = "snapshot", !.own = RequestedPunches(r, t.job)])

ApproveUnsaved(r) ==        \* mutant: the request is saved though the transaction fails
    /\ tx[r].op = "approve" /\ tx[r].pc = "save"
    /\ \/ CommitPunches(r, NoTx)
       \/ Conflicts(tx[r]) /\ Abort(r)
    /\ request' = [request EXCEPT ![tx[r].job].status = "APPROVED"]
SaveApproval(r) ==
    /\ tx[r].op = "approve"
    /\ \/ /\ CommitPunches(r, NoTx)
          /\ request' = [request EXCEPT ![tx[r].job].status = "APPROVED"]
       \/ /\ tx[r].pc = "save" /\ Conflicts(tx[r])
          /\ Abort(r)
          /\ UNCHANGED request

RegInit == request = [g \in Regs |-> NoRequest]

RegStep(r) ==
    \/ \E g \in Regs :
           \/ approve(r, g) /\ UNCHANGED request
           \/ \E op \in DOMAIN Outcome : decide(r, g, op) /\ UNCHANGED request
           \/ \E d \in Days, time \in Times : create(r, g, d, time)
    \/ applyRegularizationPunches(r) /\ UNCHANGED request
    \/ SaveDecision(r) \/ SaveApproval(r)

-----------------------------------------------------------------------------
(* An IN of the next day at or before the time out of a correction that    *)
(* spans midnight: it begins the session that the time out closes.         *)
BegunBefore(g) ==
    \E t \in Ins(punches) : DayOf(t) # request[g].day /\ request[g].in < t /\ t <= request[g].out

(* Whoever decides it and whatever is punched, swiped or decided meanwhile:*)
(* once a request is approved its day has a complete pair of IN and OUT,   *)
(* and unless the summary of the day missed something it shows one; but    *)
(* not if the next day began before the time out that was asked for.       *)
ApprovedDayIsComplete ==
    \A g \in Regs : request[g].status = "APPROVED" /\ ~BegunBefore(g) =>
        /\ Complete(request[g].day)
        /\ ~behind[request[g].day] => summary[request[g].day].lastOut # Never

=============================================================================
