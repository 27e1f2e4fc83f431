------------------------- MODULE ExpenseClaims_proofs -------------------------
(***************************************************************************)
(* Every safety property of ExpenseClaims and its refinement of            *)
(* ClaimLifecycle, for any number of claims, requests and lines.  Two      *)
(* invariants carry the argument.  IInv: a stale save of the employee can  *)
(* put an old status back, but never one that only a reviewer sets, and    *)
(* every status of a reviewer is written by an UPDATE that demands the     *)
(* status before it.  SInv: a request on whose claim nothing committed     *)
(* since it began holds what is committed, so what it writes is what an    *)
(* atomic request would have written.                                      *)
(***************************************************************************)
EXTENDS ExpenseClaims, Sums

(* Which request is at which statement.                                    *)
OpAt(t) ==
    /\ t.pc \in {"count", "insert"} => t.op = "addLine"
    /\ t.pc = "find" => t.op \in {"updateLine", "deleteLine"}
    /\ t.pc \in {"lineLoad", "lineSave"} => t.op = "updateLine"
    /\ t.pc = "remove" => t.op = "deleteLine"
    /\ t.pc = "validate" => t.op = "submit"
    /\ t.pc = "total" => t.op \in LineOps \cup {"submit"}
    /\ t.pc \in {"load", "save"} => t.op \in EmployeeOps
    /\ t.pc = "decide" => t.op \in ReviewOps

(* The line a request works on, and what it holds of it.                   *)
LineInHand(t) ==
    /\ t.pc = "count" => t.row = [claim |-> t.claim, no |-> 0, item |-> t.row.item,
                                  live |-> TRUE] /\ t.row.item \in Items
    /\ t.pc = "insert" => t.row \in LineType
    /\ t.pc \in {"find", "lineLoad", "lineSave", "remove"} =>
            t.id \in LineIds /\ line[t.id] \in LineType
    /\ t.pc = "find" /\ t.op = "updateLine" => t.row.item \in Items
    /\ t.pc \in {"lineLoad", "lineSave"} => t.row \in LineType
    /\ t.pc \in {"total", "load", "save"} /\ t.op \in LineOps /\ t.id # 0 =>
            t.row \in LineType

(* The status a request of the employee is about to write.                 *)
StatusInHand(t) ==
    t.pc \notin {"idle", "decide"} =>
        /\ t.op \in LineOps \cup {"updateDraft"} => t.ent.status \in EDITABLE_STATUSES
        /\ t.op = "submit" => t.ent.status \in EDITABLE_STATUSES \cup {"PENDING_MANAGER"}
        /\ t.op = "withdraw" => t.ent.status = "WITHDRAWN"

(* A request in flight, field by field.                                    *)
Holding(op, c, pc, ent, base, id, row, old, fresh) ==
    [op |-> op, claim |-> c, pc |-> pc, ent |-> ent, base |-> base,
     id |-> id, row |-> row, old |-> old, fresh |-> fresh]

InHand(t) == OpAt(t) /\ LineInHand(t) /\ StatusInHand(t)

TxInv == \A r \in Requests : InHand(tx[r])

(* A claim waiting at a stage accounts for one more entry of the stage     *)
(* before than of the next.                                                *)
Accounted ==
    \A c \in Claims :
        /\ audit[c].managerApproved <= audit[c].submitted
        /\ audit[c].financeApproved <= audit[c].managerApproved
        /\ audit[c].markedPaid <= audit[c].financeApproved
        /\ claim[c].status = "PENDING_MANAGER" => audit[c].managerApproved < audit[c].submitted
        /\ claim[c].status = "PENDING_FINANCE" => audit[c].financeApproved < audit[c].managerApproved
        /\ claim[c].status = "APPROVED" => audit[c].markedPaid < audit[c].financeApproved

IInv == TypeOK /\ TxInv /\ Accounted

(* What a commit may do to the status: keep it, put back one that only the *)
(* employee sets, or take the step of a reviewer from the status before.   *)
LegalCommit(r, new) ==
    LET from == claim[tx[r].claim].status  op == tx[r].op IN
    /\ new.status # from =>
        \/ new.status \in EDITABLE_STATUSES \cup {"WITHDRAWN"} /\ op \in EmployeeOps
        \/ new.status = "PENDING_MANAGER" /\ op = "submit"
        \/ op \in ReviewOps
    /\ op \in ReviewOps => from = ExpectedStatus[op] /\ new.status = TargetStatus[op]

-----------------------------------------------------------------------------

LEMMA InitInv == Init => IInv
<1> SUFFICES ASSUME Init PROVE IInv
  OBVIOUS
<1>1. TypeOK
  BY DEF Init, TypeOK, IsClaim, IsTx, NoTx, NoClaim, NoAudit, AuditType, Statuses, Phases
<1>2. TxInv
  BY DEF Init, TxInv, InHand, OpAt, LineInHand, StatusInHand, NoTx
<1>3. Accounted
  BY DEF Init, Accounted, NoAudit, NoClaim
<1> QED
  BY <1>1, <1>2, <1>3 DEF IInv

(* A step that only replaces what one request holds.                       *)
LEMMA ReplaceInv ==
  ASSUME IInv, NEW r \in Requests, NEW new,
         IsTx(new), InHand(new),
         tx' = [tx EXCEPT ![r] = new], UNCHANGED <<claim, line, audit, lost>>
  PROVE  IInv'
<1>1. \A q \in Requests : tx'[q] = IF q = r THEN new ELSE tx[q]
  BY DEF IInv, TypeOK
<1>2. TypeOK'
  BY <1>1 DEF IInv, TypeOK, IsTx, IsClaim
<1>3. TxInv'
  <2> SUFFICES ASSUME NEW q \in Requests
               PROVE  InHand(tx[q])'
    BY DEF TxInv
  <2>1. InHand(tx'[q])
    BY <1>1 DEF IInv, TxInv
  <2> QED
    BY <2>1 DEF InHand, OpAt, LineInHand, StatusInHand
<1>4. Accounted'
  BY DEF IInv, Accounted
<1> QED
  BY <1>2, <1>3, <1>4 DEF IInv

(* The first statement of every request.                                   *)
LEMMA StartInv ==
  ASSUME IInv, NEW r \in Requests, Start(r)
  PROVE  IInv'
<1> PICK c \in Claims :
        \/ updateDraft(r, c)
        \/ \E i \in Items : addLine(r, c, i)
        \/ \E l \in RowsOf(c), i \in Items : updateLine(r, c, l, i)
        \/ \E l \in RowsOf(c) : deleteLine(r, c, l)
        \/ submit(r, c)
        \/ withdraw(r, c)
        \/ \E op \in ReviewOps : FindForReview(r, op, c)
  BY DEF Start
<1>0. IsClaim(claim[c]) /\ IsClaim(NoClaim) /\ c \in Claims
  BY DEF IInv, TypeOK, IsClaim, NoClaim, Statuses
<1>1. CASE updateDraft(r, c)
  <2> DEFINE new == Holding("updateDraft", c, "load", claim[c], NoClaim, 0,
                           NoRow, NoRow, TRUE)
  <2>1. IsTx(new)
    BY <1>0, <1>1 DEF Holding, IsTx, Phases, EmployeeOps, LineOps
  <2>2. InHand(new)
    BY <1>0, <1>1 DEF Holding, InHand, OpAt, LineInHand, StatusInHand,
       EmployeeOps, LineOps, updateDraft, findEditableClaim
  <2>3. tx' = [tx EXCEPT ![r] = new] /\ UNCHANGED <<claim, line, audit, lost>>
    BY <1>1 DEF updateDraft, Begin, Holding
  <2> HIDE DEF new
  <2> QED
    BY <2>1, <2>2, <2>3, ReplaceInv
<1>2. ASSUME NEW i \in Items, addLine(r, c, i) PROVE IInv'
  <2> DEFINE new == Holding("addLine", c, "count", claim[c], NoClaim, 0,
                           [claim |-> c, no |-> 0, item |-> i, live |-> TRUE], NoRow, TRUE)
  <2>1. IsTx(new)
    BY <1>0, <1>2 DEF Holding, IsTx, Phases, EmployeeOps, LineOps
  <2>2. InHand(new)
    BY <1>0, <1>2 DEF Holding, InHand, OpAt, LineInHand, StatusInHand,
       EmployeeOps, LineOps, addLine, findEditableClaim
  <2>3. tx' = [tx EXCEPT ![r] = new] /\ UNCHANGED <<claim, line, audit, lost>>
    BY <1>2 DEF addLine, Begin, Holding
  <2> HIDE DEF new
  <2> QED
    BY <2>1, <2>2, <2>3, ReplaceInv
<1>3. ASSUME NEW l \in RowsOf(c), NEW i \in Items, updateLine(r, c, l, i) PROVE IInv'
  <2> DEFINE new == Holding("updateLine", c, "find", claim[c], NoClaim, l,
                           [NoRow EXCEPT !.item = i], NoRow, TRUE)
  <2>1. l \in LineIds /\ line[l] \in LineType
    BY <1>3, ConstantsAssumption DEF RowsOf, IInv, TypeOK, NoRow
  <2>2. IsTx(new)
    BY <1>0, <1>3, <2>1 DEF Holding, IsTx, Phases, EmployeeOps, LineOps
  <2>3. InHand(new)
    BY <1>0, <1>3, <2>1 DEF Holding, InHand, OpAt, LineInHand, StatusInHand,
       EmployeeOps, LineOps, NoRow, updateLine,
       findEditableClaim
  <2>4. tx' = [tx EXCEPT ![r] = new] /\ UNCHANGED <<claim, line, audit, lost>>
    BY <1>3 DEF updateLine, Begin, Holding
  <2> HIDE DEF new
  <2> QED
    BY <2>2, <2>3, <2>4, ReplaceInv
<1>4. ASSUME NEW l \in RowsOf(c), deleteLine(r, c, l) PROVE IInv'
  <2> DEFINE new == Holding("deleteLine", c, "find", claim[c], NoClaim, l,
                           NoRow, NoRow, TRUE)
  <2>1. l \in LineIds /\ line[l] \in LineType
    BY <1>4, ConstantsAssumption DEF RowsOf, IInv, TypeOK, NoRow
  <2>2. IsTx(new)
    BY <1>0, <1>4, <2>1 DEF Holding, IsTx, Phases, EmployeeOps, LineOps
  <2>3. InHand(new)
    BY <1>0, <1>4, <2>1 DEF Holding, InHand, OpAt, LineInHand, StatusInHand,
       EmployeeOps, LineOps, deleteLine, findEditableClaim
  <2>4. tx' = [tx EXCEPT ![r] = new] /\ UNCHANGED <<claim, line, audit, lost>>
    BY <1>4 DEF deleteLine, Begin, Holding
  <2> HIDE DEF new
  <2> QED
    BY <2>2, <2>3, <2>4, ReplaceInv
<1>5. CASE submit(r, c)
  <2> DEFINE new == Holding("submit", c, "validate", claim[c], NoClaim, 0,
                           NoRow, NoRow, TRUE)
  <2>1. IsTx(new)
    BY <1>0, <1>5 DEF Holding, IsTx, Phases, EmployeeOps, LineOps
  <2>2. InHand(new)
    BY <1>0, <1>5 DEF Holding, InHand, OpAt, LineInHand, StatusInHand,
       EmployeeOps, LineOps, submit, findEditableClaim
  <2>3. tx' = [tx EXCEPT ![r] = new] /\ UNCHANGED <<claim, line, audit, lost>>
    BY <1>5 DEF submit, Begin, Holding
  <2> HIDE DEF new
  <2> QED
    BY <2>1, <2>2, <2>3, ReplaceInv
<1>6. CASE withdraw(r, c)
  <2> DEFINE new == Holding("withdraw", c, "load", [claim[c] EXCEPT !.status = "WITHDRAWN"], NoClaim, 0,
                           NoRow, NoRow, TRUE)
  <2>1. /\ IsClaim([claim[c] EXCEPT !.status = "WITHDRAWN"])
       /\ [claim[c] EXCEPT !.status = "WITHDRAWN"].status = "WITHDRAWN"
    BY <1>0 DEF IsClaim, Statuses
  <2>2. IsTx(new)
    BY <1>0, <1>6, <2>1 DEF Holding, IsTx, Phases, EmployeeOps, LineOps
  <2>3. InHand(new)
    BY <1>0, <1>6, <2>1 DEF Holding, InHand, OpAt, LineInHand, StatusInHand,
       EmployeeOps, LineOps
  <2>4. tx' = [tx EXCEPT ![r] = new] /\ UNCHANGED <<claim, line, audit, lost>>
    BY <1>6 DEF withdraw, Begin, Holding
  <2> HIDE DEF new
  <2> QED
    BY <2>2, <2>3, <2>4, ReplaceInv
<1>7. ASSUME NEW op \in ReviewOps, FindForReview(r, op, c) PROVE IInv'
  <2> DEFINE new == Holding(op, c, "decide", NoClaim, NoClaim, 0,
                           NoRow, NoRow, TRUE)
  <2>1. IsTx(new)
    BY <1>0, <1>7 DEF Holding, IsTx, Phases, EmployeeOps, LineOps
  <2>2. InHand(new)
    BY <1>0, <1>7 DEF Holding, InHand, OpAt, LineInHand, StatusInHand,
       EmployeeOps, LineOps
  <2>3. tx' = [tx EXCEPT ![r] = new] /\ UNCHANGED <<claim, line, audit, lost>>
    BY <1>7 DEF FindForReview, Begin, Holding
  <2> HIDE DEF new
  <2> QED
    BY <2>1, <2>2, <2>3, ReplaceInv
<1> QED
  BY <1>1, <1>2, <1>3, <1>4, <1>5, <1>6, <1>7

(* The updates of a request in flight, as records.                         *)
LEMMA UpdatePc ==
  ASSUME NEW t, IsTx(t), NEW pc
  PROVE  [t EXCEPT !.pc = pc]
            = Holding(t.op, t.claim, pc, t.ent, t.base, t.id, t.row, t.old, t.fresh)
<1> SUFFICES ASSUME NEW s, s = [t EXCEPT !.pc = pc]
             PROVE  s = Holding(t.op, t.claim, pc, t.ent, t.base, t.id, t.row, t.old, t.fresh)
  OBVIOUS
<1>0. t = Holding(t.op, t.claim, t.pc, t.ent, t.base, t.id, t.row, t.old, t.fresh)
  BY DEF IsTx, Holding
<1>1. s = Holding(s.op, s.claim, s.pc, s.ent, s.base, s.id, s.row, s.old, s.fresh)
  BY <1>0 DEF Holding
<1>2. /\ s.op = t.op /\ s.claim = t.claim /\ s.pc = pc /\ s.fresh = t.fresh
      /\ s.ent = t.ent /\ s.base = t.base
      /\ s.id = t.id /\ s.row = t.row /\ s.old = t.old
  BY <1>0 DEF Holding
<1> QED
  BY <1>1, <1>2

LEMMA UpdateId ==
  ASSUME NEW t, IsTx(t), NEW pc, NEW id
  PROVE  [t EXCEPT !.pc = pc, !.id = id]
            = Holding(t.op, t.claim, pc, t.ent, t.base, id, t.row, t.old, t.fresh)
<1> SUFFICES ASSUME NEW s, s = [t EXCEPT !.pc = pc, !.id = id]
             PROVE  s = Holding(t.op, t.claim, pc, t.ent, t.base, id, t.row, t.old, t.fresh)
  OBVIOUS
<1>0. t = Holding(t.op, t.claim, t.pc, t.ent, t.base, t.id, t.row, t.old, t.fresh)
  BY DEF IsTx, Holding
<1>1. s = Holding(s.op, s.claim, s.pc, s.ent, s.base, s.id, s.row, s.old, s.fresh)
  BY <1>0 DEF Holding
<1>2. /\ s.op = t.op /\ s.claim = t.claim /\ s.pc = pc /\ s.fresh = t.fresh
      /\ s.ent = t.ent /\ s.base = t.base
      /\ s.id = id /\ s.row = t.row /\ s.old = t.old
  BY <1>0 DEF Holding
<1> QED
  BY <1>1, <1>2

LEMMA UpdateRow ==
  ASSUME NEW t, IsTx(t), NEW pc, NEW row
  PROVE  [t EXCEPT !.pc = pc, !.row = row]
            = Holding(t.op, t.claim, pc, t.ent, t.base, t.id, row, t.old, t.fresh)
<1> SUFFICES ASSUME NEW s, s = [t EXCEPT !.pc = pc, !.row = row]
             PROVE  s = Holding(t.op, t.claim, pc, t.ent, t.base, t.id, row, t.old, t.fresh)
  OBVIOUS
<1>0. t = Holding(t.op, t.claim, t.pc, t.ent, t.base, t.id, t.row, t.old, t.fresh)
  BY DEF IsTx, Holding
<1>1. s = Holding(s.op, s.claim, s.pc, s.ent, s.base, s.id, s.row, s.old, s.fresh)
  BY <1>0 DEF Holding
<1>2. /\ s.op = t.op /\ s.claim = t.claim /\ s.pc = pc /\ s.fresh = t.fresh
      /\ s.ent = t.ent /\ s.base = t.base
      /\ s.id = t.id /\ s.row = row /\ s.old = t.old
  BY <1>0 DEF Holding
<1> QED
  BY <1>1, <1>2

LEMMA UpdateNo ==
  ASSUME NEW t, IsTx(t), NEW pc, NEW no
  PROVE  [t EXCEPT !.pc = pc, !.row.no = no]
            = Holding(t.op, t.claim, pc, t.ent, t.base, t.id, [t.row EXCEPT !.no = no], t.old, t.fresh)
<1> SUFFICES ASSUME NEW s, s = [t EXCEPT !.pc = pc, !.row.no = no]
             PROVE  s = Holding(t.op, t.claim, pc, t.ent, t.base, t.id, [t.row EXCEPT !.no = no], t.old, t.fresh)
  OBVIOUS
<1>0. t = Holding(t.op, t.claim, t.pc, t.ent, t.base, t.id, t.row, t.old, t.fresh)
  BY DEF IsTx, Holding
<1>1. s = Holding(s.op, s.claim, s.pc, s.ent, s.base, s.id, s.row, s.old, s.fresh)
  BY <1>0 DEF Holding
<1>2. /\ s.op = t.op /\ s.claim = t.claim /\ s.pc = pc /\ s.fresh = t.fresh
      /\ s.ent = t.ent /\ s.base = t.base
      /\ s.id = t.id /\ s.row = [t.row EXCEPT !.no = no] /\ s.old = t.old
  BY <1>0 DEF Holding
<1> QED
  BY <1>1, <1>2

LEMMA UpdateOld ==
  ASSUME NEW t, IsTx(t), NEW pc, NEW old
  PROVE  [t EXCEPT !.pc = pc, !.old = old]
            = Holding(t.op, t.claim, pc, t.ent, t.base, t.id, t.row, old, t.fresh)
<1> SUFFICES ASSUME NEW s, s = [t EXCEPT !.pc = pc, !.old = old]
             PROVE  s = Holding(t.op, t.claim, pc, t.ent, t.base, t.id, t.row, old, t.fresh)
  OBVIOUS
<1>0. t = Holding(t.op, t.claim, t.pc, t.ent, t.base, t.id, t.row, t.old, t.fresh)
  BY DEF IsTx, Holding
<1>1. s = Holding(s.op, s.claim, s.pc, s.ent, s.base, s.id, s.row, s.old, s.fresh)
  BY <1>0 DEF Holding
<1>2. /\ s.op = t.op /\ s.claim = t.claim /\ s.pc = pc /\ s.fresh = t.fresh
      /\ s.ent = t.ent /\ s.base = t.base
      /\ s.id = t.id /\ s.row = t.row /\ s.old = old
  BY <1>0 DEF Holding
<1> QED
  BY <1>1, <1>2

LEMMA UpdateAll ==
  ASSUME NEW t, IsTx(t), NEW pc, NEW row, NEW old, NEW id
  PROVE  [t EXCEPT !.pc = pc, !.row = row, !.old = old, !.id = id]
            = Holding(t.op, t.claim, pc, t.ent, t.base, id, row, old, t.fresh)
<1> SUFFICES ASSUME NEW s, s = [t EXCEPT !.pc = pc, !.row = row, !.old = old, !.id = id]
             PROVE  s = Holding(t.op, t.claim, pc, t.ent, t.base, id, row, old, t.fresh)
  OBVIOUS
<1>0. t = Holding(t.op, t.claim, t.pc, t.ent, t.base, t.id, t.row, t.old, t.fresh)
  BY DEF IsTx, Holding
<1>1. s = Holding(s.op, s.claim, s.pc, s.ent, s.base, s.id, s.row, s.old, s.fresh)
  BY <1>0 DEF Holding
<1>2. /\ s.op = t.op /\ s.claim = t.claim /\ s.pc = pc /\ s.fresh = t.fresh
      /\ s.ent = t.ent /\ s.base = t.base
      /\ s.id = id /\ s.row = row /\ s.old = old
  BY <1>0 DEF Holding
<1> QED
  BY <1>1, <1>2

LEMMA UpdateBase ==
  ASSUME NEW t, IsTx(t), NEW pc, NEW base
  PROVE  [t EXCEPT !.pc = pc, !.base = base]
            = Holding(t.op, t.claim, pc, t.ent, base, t.id, t.row, t.old, t.fresh)
<1> SUFFICES ASSUME NEW s, s = [t EXCEPT !.pc = pc, !.base = base]
             PROVE  s = Holding(t.op, t.claim, pc, t.ent, base, t.id, t.row, t.old, t.fresh)
  OBVIOUS
<1>0. t = Holding(t.op, t.claim, t.pc, t.ent, t.base, t.id, t.row, t.old, t.fresh)
  BY DEF IsTx, Holding
<1>1. s = Holding(s.op, s.claim, s.pc, s.ent, s.base, s.id, s.row, s.old, s.fresh)
  BY <1>0 DEF Holding
<1>2. /\ s.op = t.op /\ s.claim = t.claim /\ s.pc = pc /\ s.fresh = t.fresh
      /\ s.ent = t.ent /\ s.base = base
      /\ s.id = t.id /\ s.row = t.row /\ s.old = t.old
  BY <1>0 DEF Holding
<1> QED
  BY <1>1, <1>2

LEMMA UpdateTotal ==
  ASSUME NEW t, IsTx(t), NEW pc, NEW total
  PROVE  [t EXCEPT !.pc = pc, !.ent.total = total]
            = Holding(t.op, t.claim, pc, [t.ent EXCEPT !.total = total], t.base, t.id, t.row, t.old, t.fresh)
<1> SUFFICES ASSUME NEW s, s = [t EXCEPT !.pc = pc, !.ent.total = total]
             PROVE  s = Holding(t.op, t.claim, pc, [t.ent EXCEPT !.total = total], t.base, t.id, t.row, t.old, t.fresh)
  OBVIOUS
<1>0. t = Holding(t.op, t.claim, t.pc, t.ent, t.base, t.id, t.row, t.old, t.fresh)
  BY DEF IsTx, Holding
<1>1. s = Holding(s.op, s.claim, s.pc, s.ent, s.base, s.id, s.row, s.old, s.fresh)
  BY <1>0 DEF Holding
<1>2. /\ s.op = t.op /\ s.claim = t.claim /\ s.pc = pc /\ s.fresh = t.fresh
      /\ s.ent = [t.ent EXCEPT !.total = total] /\ s.base = t.base
      /\ s.id = t.id /\ s.row = t.row /\ s.old = t.old
  BY <1>0 DEF Holding
<1> QED
  BY <1>1, <1>2

LEMMA UpdateEnt ==
  ASSUME NEW t, IsTx(t), NEW pc, NEW ent
  PROVE  [t EXCEPT !.pc = pc, !.ent = ent]
            = Holding(t.op, t.claim, pc, ent, t.base, t.id, t.row, t.old, t.fresh)
<1> SUFFICES ASSUME NEW s, s = [t EXCEPT !.pc = pc, !.ent = ent]
             PROVE  s = Holding(t.op, t.claim, pc, ent, t.base, t.id, t.row, t.old, t.fresh)
  OBVIOUS
<1>0. t = Holding(t.op, t.claim, t.pc, t.ent, t.base, t.id, t.row, t.old, t.fresh)
  BY DEF IsTx, Holding
<1>1. s = Holding(s.op, s.claim, s.pc, s.ent, s.base, s.id, s.row, s.old, s.fresh)
  BY <1>0 DEF Holding
<1>2. /\ s.op = t.op /\ s.claim = t.claim /\ s.pc = pc /\ s.fresh = t.fresh
      /\ s.ent = ent /\ s.base = t.base
      /\ s.id = t.id /\ s.row = t.row /\ s.old = t.old
  BY <1>0 DEF Holding
<1> QED
  BY <1>1, <1>2

(* The statements between the first one and the save.                      *)
LEMMA ContinueInv ==
  ASSUME IInv, NEW r \in Requests,
         \/ CountLines(r) \/ InsertLine(r) \/ FindLine(r) \/ LoadLine(r) \/ SaveLine(r)
         \/ RemoveLine(r) \/ validateForSubmit(r) \/ recomputeTotal(r) \/ LoadClaim(r)
  PROVE  IInv'
<1> DEFINE t == tx[r]
<1>0. /\ IsTx(t) /\ OpAt(t) /\ LineInHand(t) /\ StatusInHand(t)
      /\ t.pc # "idle" => t.claim \in Claims /\ t.op \in EmployeeOps \cup ReviewOps
      /\ line \in [LineIds -> LineType \cup {NoRow}]
  BY DEF IInv, TypeOK, TxInv, InHand, IsTx
<1>1. CASE CountLines(r)
  <2> PICK last \in {0} \cup {line[l].no : l \in LiveLines(r, t.claim)} :
        Continue(r, [t EXCEPT !.pc = "insert", !.row.no = last + 1])
    BY <1>1 DEF CountLines
  <2> DEFINE new == Holding(t.op, t.claim, "insert", t.ent, t.base, t.id,
                           [t.row EXCEPT !.no = last + 1], t.old, t.fresh)
  <2>1. t.pc = "count" /\ t.op = "addLine"
    BY <1>0, <1>1 DEF CountLines, OpAt
  <2>2. last \in Nat
    BY <1>0 DEF LiveLines, LineType, NoRow
  <2>3. [t.row EXCEPT !.no = last + 1] \in LineType
    <3>1. t.row = [claim |-> t.claim, no |-> 0, item |-> t.row.item, live |-> TRUE]
      BY <1>0, <2>1 DEF LineInHand
    <3>2. t.claim \in Claims /\ t.row.item \in Items /\ last + 1 \in Nat \ {0}
      BY <1>0, <2>1, <2>2 DEF LineInHand
    <3> SUFFICES ASSUME NEW w, w = [t.row EXCEPT !.no = last + 1]
                 PROVE  w \in LineType
      OBVIOUS
    <3>3. /\ w = [claim |-> w.claim, no |-> w.no, item |-> w.item, live |-> w.live]
          /\ w.claim = t.claim /\ w.no = last + 1 /\ w.item = t.row.item /\ w.live = TRUE
      BY <3>1
    <3> QED
      BY <3>2, <3>3 DEF LineType
  <2>4. IsTx(new)
    BY <1>0, <2>1, <2>2, <2>3 DEF Holding, IsTx, Phases, EmployeeOps, LineOps
  <2>5. InHand(new)
    BY <1>0, <2>1, <2>2, <2>3 DEF Holding, InHand, OpAt, LineInHand, StatusInHand,
       EmployeeOps, LineOps
  <2>6. [t EXCEPT !.pc = "insert", !.row.no = last + 1] = new
    BY <1>0, UpdateNo
  <2>7. tx' = [tx EXCEPT ![r] = new] /\ UNCHANGED <<claim, line, audit, lost>>
    BY <2>1, <2>6 DEF CountLines, Continue
  <2> HIDE DEF new
  <2> QED
    BY <2>4, <2>5, <2>7, ReplaceInv
<1>2. CASE InsertLine(r)
  <2> PICK l \in LineIds : Continue(r, [t EXCEPT !.pc = "total", !.id = l])
    BY <1>2 DEF InsertLine
  <2> DEFINE new == Holding(t.op, t.claim, "total", t.ent, t.base, l,
                           t.row, t.old, t.fresh)
  <2>1. t.pc = "insert" /\ t.op = "addLine"
    BY <1>0, <1>2 DEF InsertLine, OpAt
  <2>2. IsTx(new)
    BY <1>0, <2>1 DEF Holding, IsTx, Phases, EmployeeOps, LineOps
  <2>3. InHand(new)
    BY <1>0, <2>1 DEF Holding, InHand, OpAt, LineInHand, StatusInHand,
       EmployeeOps, LineOps
  <2>4. [t EXCEPT !.pc = "total", !.id = l] = new
    BY <1>0, UpdateId
  <2>5. tx' = [tx EXCEPT ![r] = new] /\ UNCHANGED <<claim, line, audit, lost>>
    BY <2>1, <2>4 DEF InsertLine, Continue
  <2> HIDE DEF new
  <2> QED
    BY <2>2, <2>3, <2>5, ReplaceInv
<1>3. CASE FindLine(r) /\ t.op = "updateLine"
  <2> DEFINE new == Holding(t.op, t.claim, "lineLoad", t.ent, t.base, t.id,
                           [line[t.id] EXCEPT !.item = t.row.item], t.old, t.fresh)
  <2>1. t.pc = "find" /\ t.op = "updateLine"
    BY <1>0, <1>3 DEF FindLine, OpAt
  <2>2. [line[t.id] EXCEPT !.item = t.row.item] \in LineType
    BY <1>0, <2>1 DEF LineInHand, LineType
  <2>3. IsTx(new)
    BY <1>0, <2>1, <2>2 DEF Holding, IsTx, Phases, EmployeeOps, LineOps
  <2>4. InHand(new)
    BY <1>0, <2>1, <2>2 DEF Holding, InHand, OpAt, LineInHand, StatusInHand,
       EmployeeOps, LineOps
  <2>5. [t EXCEPT !.pc = "lineLoad",
                      !.row = [line[t.id] EXCEPT !.item = t.row.item]] = new
    BY <1>0, UpdateRow
  <2>6. tx' = [tx EXCEPT ![r] = new] /\ UNCHANGED <<claim, line, audit, lost>>
    BY <1>3, <2>1, <2>5 DEF FindLine, Continue
  <2> HIDE DEF new
  <2> QED
    BY <2>3, <2>4, <2>6, ReplaceInv
<1>4. CASE FindLine(r) /\ t.op # "updateLine"
  <2> DEFINE new == Holding(t.op, t.claim, "remove", t.ent, t.base, t.id,
                           t.row, t.old, t.fresh)
  <2>1. t.pc = "find" /\ t.op = "deleteLine"
    BY <1>0, <1>4 DEF FindLine, OpAt
  <2>2. IsTx(new)
    BY <1>0, <2>1 DEF Holding, IsTx, Phases, EmployeeOps, LineOps
  <2>3. InHand(new)
    BY <1>0, <2>1 DEF Holding, InHand, OpAt, LineInHand, StatusInHand,
       EmployeeOps, LineOps
  <2>4. [t EXCEPT !.pc = "remove"] = new
    BY <1>0, UpdatePc
  <2>5. tx' = [tx EXCEPT ![r] = new] /\ UNCHANGED <<claim, line, audit, lost>>
    BY <1>4, <2>1, <2>4 DEF FindLine, Continue
  <2> HIDE DEF new
  <2> QED
    BY <2>2, <2>3, <2>5, ReplaceInv
<1>5. CASE LoadLine(r)
  <2> DEFINE new == Holding(t.op, t.claim, "lineSave", t.ent, t.base, t.id,
                           t.row, line[t.id], t.fresh)
  <2>1. t.pc = "lineLoad" /\ t.op = "updateLine"
    BY <1>0, <1>5 DEF LoadLine, OpAt
  <2>2. IsTx(new)
    BY <1>0, <2>1 DEF Holding, IsTx, Phases, EmployeeOps, LineOps
  <2>3. InHand(new)
    BY <1>0, <2>1 DEF Holding, InHand, OpAt, LineInHand, StatusInHand,
       EmployeeOps, LineOps
  <2>4. [t EXCEPT !.pc = "lineSave", !.old = line[t.id]] = new
    BY <1>0, UpdateOld
  <2>5. tx' = [tx EXCEPT ![r] = new] /\ UNCHANGED <<claim, line, audit, lost>>
    BY <1>5, <2>1, <2>4 DEF LoadLine, Continue
  <2> HIDE DEF new
  <2> QED
    BY <2>2, <2>3, <2>5, ReplaceInv
<1>6. CASE SaveLine(r)
  <2> DEFINE new == Holding(t.op, t.claim, "total", t.ent, t.base, (IF t.row = t.old THEN 0 ELSE t.id),
                           SaveOver(line[t.id], t.row, t.old), NoRow, t.fresh)
  <2>1. t.pc = "lineSave" /\ t.op = "updateLine"
    BY <1>0, <1>6 DEF SaveLine, OpAt
  <2>2. line[t.id] \in LineType /\ t.row \in LineType
    BY <1>0, <2>1 DEF LineInHand
  <2>3. SaveOver(line[t.id], t.row, t.old) \in LineType
    BY <2>2 DEF SaveOver, LineType
  <2>4. IsTx(new)
    BY <1>0, <2>1, <2>2, <2>3 DEF Holding, IsTx, Phases, EmployeeOps, LineOps
  <2>5. InHand(new)
    BY <1>0, <2>1, <2>2, <2>3 DEF Holding, InHand, OpAt, LineInHand, StatusInHand,
       EmployeeOps, LineOps
  <2>6. [t EXCEPT !.pc = "total", !.row = SaveOver(line[t.id], t.row, t.old),
                      !.old = NoRow, !.id = IF t.row = t.old THEN 0 ELSE t.id] = new
    <3>1. \A row, id :
            [t EXCEPT !.pc = "total", !.row = row, !.old = NoRow, !.id = id]
              = Holding(t.op, t.claim, "total", t.ent, t.base, id, row, NoRow, t.fresh)
      BY <1>0, UpdateAll
    <3> QED
      BY <3>1
  <2>7. tx' = [tx EXCEPT ![r] = new] /\ UNCHANGED <<claim, line, audit, lost>>
    BY <1>6, <2>1, <2>6 DEF SaveLine, Continue
  <2> HIDE DEF new
  <2> QED
    BY <2>4, <2>5, <2>7, ReplaceInv
<1>7. CASE RemoveLine(r)
  <2> DEFINE new == Holding(t.op, t.claim, "total", t.ent, t.base, t.id,
                           [line[t.id] EXCEPT !.live = FALSE], t.old, t.fresh)
  <2>1. t.pc = "remove" /\ t.op = "deleteLine"
    BY <1>0, <1>7 DEF RemoveLine, OpAt
  <2>2. [line[t.id] EXCEPT !.live = FALSE] \in LineType
    BY <1>0, <2>1 DEF LineInHand, LineType
  <2>3. IsTx(new)
    BY <1>0, <2>1, <2>2 DEF Holding, IsTx, Phases, EmployeeOps, LineOps
  <2>4. InHand(new)
    BY <1>0, <2>1, <2>2 DEF Holding, InHand, OpAt, LineInHand, StatusInHand,
       EmployeeOps, LineOps
  <2>5. [t EXCEPT !.pc = "total", !.row = [line[t.id] EXCEPT !.live = FALSE]] = new
    BY <1>0, UpdateRow
  <2>6. tx' = [tx EXCEPT ![r] = new] /\ UNCHANGED <<claim, line, audit, lost>>
    BY <1>7, <2>1, <2>5 DEF RemoveLine, Continue
  <2> HIDE DEF new
  <2> QED
    BY <2>3, <2>4, <2>6, ReplaceInv
<1>8. CASE validateForSubmit(r)
  <2> DEFINE new == Holding(t.op, t.claim, "total", t.ent, t.base, t.id,
                           t.row, t.old, t.fresh)
  <2>1. t.pc = "validate" /\ t.op = "submit"
    BY <1>0, <1>8 DEF validateForSubmit, OpAt
  <2>2. IsTx(new)
    BY <1>0, <2>1 DEF Holding, IsTx, Phases, EmployeeOps, LineOps
  <2>3. InHand(new)
    BY <1>0, <2>1 DEF Holding, InHand, OpAt, LineInHand, StatusInHand,
       EmployeeOps, LineOps
  <2>4. [t EXCEPT !.pc = "total"] = new
    BY <1>0, UpdatePc
  <2>5. tx' = [tx EXCEPT ![r] = new] /\ UNCHANGED <<claim, line, audit, lost>>
    BY <1>8, <2>1, <2>4 DEF validateForSubmit, Continue
  <2> HIDE DEF new
  <2> QED
    BY <2>2, <2>3, <2>5, ReplaceInv
<1>9. CASE recomputeTotal(r)
  <2> DEFINE new == Holding(t.op, t.claim, "load", [t.ent EXCEPT !.total = SumOf(r, t.claim)], t.base, t.id,
                           t.row, t.old, t.fresh)
  <2>1. t.pc = "total" /\ t.op \in LineOps \cup {"submit"}
    BY <1>0, <1>9 DEF recomputeTotal, OpAt
  <2>2. /\ IsClaim([t.ent EXCEPT !.total = SumOf(r, t.claim)])
       /\ [t.ent EXCEPT !.total = SumOf(r, t.claim)].status = t.ent.status
    BY <1>0 DEF IsTx, IsClaim
  <2>3. IsTx(new)
    BY <1>0, <2>1, <2>2 DEF Holding, IsTx, Phases, EmployeeOps, LineOps
  <2>4. InHand(new)
    BY <1>0, <2>1, <2>2 DEF Holding, InHand, OpAt, LineInHand, StatusInHand,
       EmployeeOps, LineOps
  <2>5. [t EXCEPT !.pc = "load", !.ent.total = SumOf(r, t.claim)] = new
    BY <1>0, UpdateTotal
  <2>6. tx' = [tx EXCEPT ![r] = new] /\ UNCHANGED <<claim, line, audit, lost>>
    BY <1>9, <2>1, <2>5 DEF recomputeTotal, Continue
  <2> HIDE DEF new
  <2> QED
    BY <2>3, <2>4, <2>6, ReplaceInv
<1>10. CASE LoadClaim(r)
  <2> DEFINE new == Holding(t.op, t.claim, "save", t.ent, claim[t.claim], t.id,
                           t.row, t.old, t.fresh)
  <2>1. t.pc = "load" /\ t.op \in EmployeeOps
    BY <1>0, <1>10 DEF LoadClaim, OpAt
  <2>2. IsClaim(claim[t.claim])
    BY <1>0, <2>1 DEF IInv, TypeOK
  <2>3. IsTx(new)
    BY <1>0, <2>1, <2>2 DEF Holding, IsTx, Phases, EmployeeOps, LineOps
  <2>4. InHand(new)
    BY <1>0, <2>1, <2>2 DEF Holding, InHand, OpAt, LineInHand, StatusInHand,
       EmployeeOps, LineOps
  <2>5. [t EXCEPT !.pc = "save", !.base = claim[t.claim]] = new
    BY <1>0, UpdateBase
  <2>6. tx' = [tx EXCEPT ![r] = new] /\ UNCHANGED <<claim, line, audit, lost>>
    BY <1>10, <2>1, <2>5 DEF LoadClaim, Continue
  <2> HIDE DEF new
  <2> QED
    BY <2>3, <2>4, <2>6, ReplaceInv
<1> QED
  BY <1>1, <1>2, <1>3, <1>4, <1>5, <1>6, <1>7, <1>8, <1>9, <1>10

(* The last statement, whatever the request.                               *)
LEMMA CommitInv ==
  ASSUME IInv, NEW r \in Requests, NEW new, NEW to,
         tx[r].pc \in {"save", "decide"}, Commit(r, new, to), LegalCommit(r, new),
         IsClaim(new), to \in Statuses, lost' \in [Claims -> BOOLEAN]
  PROVE  IInv'
<1> DEFINE c == tx[r].claim
           op == tx[r].op
<1>0. /\ IsTx(tx[r]) /\ InHand(tx[r])
      /\ c \in Claims /\ op \in EmployeeOps \cup ReviewOps
      /\ op \in LineOps => op \in EmployeeOps
  BY DEF IInv, TypeOK, TxInv, IsTx, EmployeeOps
<1>1. \A d \in Claims : claim'[d] = IF d = c THEN new ELSE claim[d]
  BY <1>0 DEF Commit, IInv, TypeOK
<1>2. line' \in [LineIds -> LineType \cup {NoRow}]
      /\ \A l \in LineIds : line[l] \in LineType => line'[l] \in LineType
  <2>1. CASE HoldsLine(r)
    <3>1. tx[r].row \in LineType
      BY <1>0, <2>1 DEF HoldsLine, InHand, LineInHand
    <3> QED
      BY <2>1, <3>1 DEF Commit, IInv, TypeOK
  <2>2. CASE ~HoldsLine(r)
    BY <2>2 DEF Commit, IInv, TypeOK
  <2> QED
    BY <2>1, <2>2
<1>3. /\ audit' \in [Claims -> AuditType]
      /\ \A d \in Claims \ {c} : audit'[d] = audit[d]
      /\ audit'[c].submitted = audit[c].submitted + IF op = "submit" THEN 1 ELSE 0
      /\ audit'[c].managerApproved
           = audit[c].managerApproved + IF op = "managerApprove" THEN 1 ELSE 0
      /\ audit'[c].financeApproved
           = audit[c].financeApproved + IF op = "financeApprove" THEN 1 ELSE 0
      /\ audit'[c].markedPaid = audit[c].markedPaid + IF op = "markPaid" THEN 1 ELSE 0
  <2>1. audit[c] \in AuditType
    BY <1>0 DEF IInv, TypeOK
  <2>2. /\ Logged(audit[c], op, to) \in AuditType
        /\ Logged(audit[c], op, to).submitted
             = audit[c].submitted + IF op = "submit" THEN 1 ELSE 0
        /\ Logged(audit[c], op, to).managerApproved
             = audit[c].managerApproved + IF op = "managerApprove" THEN 1 ELSE 0
        /\ Logged(audit[c], op, to).financeApproved
             = audit[c].financeApproved + IF op = "financeApprove" THEN 1 ELSE 0
        /\ Logged(audit[c], op, to).markedPaid
             = audit[c].markedPaid + IF op = "markPaid" THEN 1 ELSE 0
    <3>0. /\ audit[c] = [to |-> audit[c].to, submitted |-> audit[c].submitted,
                         managerApproved |-> audit[c].managerApproved,
                         financeApproved |-> audit[c].financeApproved,
                         markedPaid |-> audit[c].markedPaid]
          /\ audit[c].submitted \in Nat /\ audit[c].managerApproved \in Nat
          /\ audit[c].financeApproved \in Nat /\ audit[c].markedPaid \in Nat
      BY <2>1 DEF AuditType
    <3> SUFFICES ASSUME NEW s, s = Logged(audit[c], op, to)
                 PROVE  /\ s \in AuditType
                        /\ s.submitted = audit[c].submitted + IF op = "submit" THEN 1 ELSE 0
                        /\ s.managerApproved
                             = audit[c].managerApproved + IF op = "managerApprove" THEN 1 ELSE 0
                        /\ s.financeApproved
                             = audit[c].financeApproved + IF op = "financeApprove" THEN 1 ELSE 0
                        /\ s.markedPaid
                             = audit[c].markedPaid + IF op = "markPaid" THEN 1 ELSE 0
      OBVIOUS
    <3> HIDE DEF c, op
    <3>1. s = [to |-> s.to, submitted |-> s.submitted, managerApproved |-> s.managerApproved,
               financeApproved |-> s.financeApproved, markedPaid |-> s.markedPaid]
      BY <3>0 DEF Logged
    <3>2. /\ s.to = to
          /\ s.submitted = IF op = "submit" THEN audit[c].submitted + 1 ELSE audit[c].submitted
          /\ s.managerApproved = IF op = "managerApprove"
                                 THEN audit[c].managerApproved + 1 ELSE audit[c].managerApproved
          /\ s.financeApproved = IF op = "financeApprove"
                                 THEN audit[c].financeApproved + 1 ELSE audit[c].financeApproved
          /\ s.markedPaid = IF op = "markPaid"
                            THEN audit[c].markedPaid + 1 ELSE audit[c].markedPaid
      BY <3>0 DEF Logged
    <3> QED
      BY <3>0, <3>1, <3>2 DEF AuditType
  <2>3. audit' = [audit EXCEPT ![c] = Logged(audit[c], op, to)]
    BY DEF Commit
  <2> HIDE DEF c, op
  <2> QED
    BY <1>0, <2>2, <2>3 DEF IInv, TypeOK
<1>4. /\ DOMAIN tx' = Requests
      /\ \A q \in Requests : IsTx(tx'[q])
      /\ \A q \in Requests : tx'[q] = NoTx \/
           /\ tx'[q].op = tx[q].op /\ tx'[q].claim = tx[q].claim /\ tx'[q].pc = tx[q].pc
           /\ tx'[q].ent = tx[q].ent /\ tx'[q].id = tx[q].id /\ tx'[q].row = tx[q].row
  <2>1. tx' = Ended(r)
    BY DEF Commit
  <2> SUFFICES ASSUME NEW q \in Requests, NEW s, s = Ended(r)[q]
               PROVE  /\ IsTx(s)
                      /\ \/ s = NoTx
                         \/ /\ s.op = tx[q].op /\ s.claim = tx[q].claim /\ s.pc = tx[q].pc
                            /\ s.ent = tx[q].ent /\ s.id = tx[q].id /\ s.row = tx[q].row
    BY <2>1 DEF Ended
  <2>2. CASE q = r
    <3>1. s = NoTx
      BY <2>2 DEF Ended
    <3>2. IsTx(NoTx)
      BY DEF IsTx, NoTx, NoClaim, IsClaim, Statuses, Phases
    <3> QED
      BY <3>1, <3>2
  <2>3. CASE q # r /\ tx[q].claim # c
    <3>1. s = tx[q]
      BY <2>3 DEF Ended
    <3> QED
      BY <3>1 DEF IInv, TypeOK
  <2>4. CASE q # r /\ tx[q].claim = c
    <3>1. s = [tx[q] EXCEPT !.fresh = FALSE]
      BY <2>4 DEF Ended
    <3>2. IsTx(tx[q]) /\ tx[q].pc # "idle"
      BY <1>0, <2>4, ConstantsAssumption DEF IInv, TypeOK, IsTx, NoTx
    <3>3. tx[q] = Holding(tx[q].op, tx[q].claim, tx[q].pc, tx[q].ent, tx[q].base,
                          tx[q].id, tx[q].row, tx[q].old, tx[q].fresh)
      BY <3>2 DEF IsTx, Holding
    <3>4. s = Holding(s.op, s.claim, s.pc, s.ent, s.base, s.id, s.row, s.old, s.fresh)
      BY <3>1, <3>3 DEF Holding
    <3>5. /\ s.op = tx[q].op /\ s.claim = tx[q].claim /\ s.pc = tx[q].pc
          /\ s.ent = tx[q].ent /\ s.base = tx[q].base /\ s.id = tx[q].id
          /\ s.row = tx[q].row /\ s.fresh = FALSE
      BY <3>1, <3>3 DEF Holding
    <3>6. IsTx(s)
      BY <3>2, <3>4, <3>5 DEF Holding, IsTx
    <3> QED
      BY <3>5, <3>6
  <2> QED
    BY <2>2, <2>3, <2>4
<1>5. TypeOK'
  <2>1. DOMAIN claim' = Claims /\ \A d \in Claims : IsClaim(claim'[d])
    BY <1>1 DEF Commit, IInv, TypeOK
  <2>2. \A d \in Claims : IsClaim(claim[d])'
    BY <2>1 DEF IsClaim
  <2>3. \A q \in Requests : IsTx(tx[q])'
    BY <1>4 DEF IsTx, IsClaim
  <2> QED
    BY <1>2, <1>3, <1>4, <2>1, <2>2, <2>3 DEF TypeOK
<1>6. TxInv'
  <2> SUFFICES ASSUME NEW q \in Requests PROVE InHand(tx[q])'
    BY DEF TxInv
  <2>1. InHand(tx[q])
    BY DEF IInv, TxInv
  <2>2. CASE tx'[q] = NoTx
    BY <2>2 DEF NoTx, InHand, OpAt, LineInHand, StatusInHand
  <2>3. CASE tx'[q] # NoTx
    <3>1. /\ tx'[q].op = tx[q].op /\ tx'[q].claim = tx[q].claim /\ tx'[q].pc = tx[q].pc
          /\ tx'[q].ent = tx[q].ent /\ tx'[q].id = tx[q].id /\ tx'[q].row = tx[q].row
      BY <1>4, <2>3
    <3>2. OpAt(tx[q])' /\ StatusInHand(tx[q])'
      BY <2>1, <3>1 DEF InHand, OpAt, StatusInHand
    <3>3. LineInHand(tx[q])'
      BY <1>2, <2>1, <3>1 DEF InHand, LineInHand
    <3> QED
      BY <3>2, <3>3 DEF InHand
  <2> QED
    BY <2>2, <2>3
<1>7. Accounted'
  <2> SUFFICES ASSUME NEW d \in Claims
               PROVE  /\ audit'[d].managerApproved <= audit'[d].submitted
                      /\ audit'[d].financeApproved <= audit'[d].managerApproved
                      /\ audit'[d].markedPaid <= audit'[d].financeApproved
                      /\ claim'[d].status = "PENDING_MANAGER" =>
                           audit'[d].managerApproved < audit'[d].submitted
                      /\ claim'[d].status = "PENDING_FINANCE" =>
                           audit'[d].financeApproved < audit'[d].managerApproved
                      /\ claim'[d].status = "APPROVED" =>
                           audit'[d].markedPaid < audit'[d].financeApproved
    BY DEF Accounted
  <2>1. CASE d # c
    BY <1>1, <1>3, <2>1 DEF IInv, Accounted
  <2>2. CASE d = c
    <3>1. /\ audit[c].submitted \in Nat /\ audit[c].managerApproved \in Nat
          /\ audit[c].financeApproved \in Nat /\ audit[c].markedPaid \in Nat
      BY <1>0 DEF IInv, TypeOK, AuditType
    <3>2. CASE op \in EmployeeOps
      BY <1>0, <1>1, <1>3, <2>2, <3>1, <3>2
         DEF IInv, Accounted, LegalCommit, EmployeeOps, LineOps, EDITABLE_STATUSES, ReviewOps,
             ExpectedStatus, TargetStatus
    <3>3. CASE op \in ReviewOps
      BY <1>0, <1>1, <1>3, <2>2, <3>1, <3>3
         DEF IInv, Accounted, LegalCommit, ReviewOps, ExpectedStatus, TargetStatus
    <3> QED
      BY <1>0, <3>2, <3>3
  <2> QED
    BY <2>1, <2>2
<1> QED
  BY <1>5, <1>6, <1>7 DEF IInv

(* What the saves of the employee and the decisions of the reviewers do.   *)
LEMMA SaveLegal ==
  ASSUME IInv, NEW r \in Requests,
         SaveClaim(r) \/ SaveTotalOnSubmit(r) \/ SaveStatusOnSubmit(r) \/ Decide(r)
  PROVE  \/ IInv' /\ UNCHANGED <<claim, audit>>
         \/ /\ IInv' /\ tx[r].claim \in Claims /\ tx[r].op \in EmployeeOps \cup ReviewOps
            /\ \E new : LegalCommit(r, new) /\ claim' = [claim EXCEPT ![tx[r].claim] = new]
<1> DEFINE t == tx[r]
           c == t.claim
<1>0. /\ IsTx(t) /\ InHand(t) /\ OpAt(t) /\ StatusInHand(t)
      /\ t.pc # "idle" => c \in Claims /\ IsClaim(claim[c])
                          /\ t.op \in EmployeeOps \cup ReviewOps
      /\ IsClaim(t.ent) /\ IsClaim(t.base)
      /\ lost \in [Claims -> BOOLEAN]
  BY DEF IInv, TypeOK, TxInv, InHand, IsTx
<1>a. ASSUME NEW row, NEW old, IsClaim(row), IsClaim(t.ent), IsClaim(old)
      PROVE  /\ IsClaim(SaveOver(row, t.ent, old))
             /\ SaveOver(row, t.ent, old).status \in {row.status, t.ent.status}
  <2> SUFFICES ASSUME NEW s, s = SaveOver(row, t.ent, old)
               PROVE  IsClaim(s) /\ s.status \in {row.status, t.ent.status}
    OBVIOUS
  <2>1. DOMAIN row = {"status", "total", "paid"}
    BY <1>a DEF IsClaim
  <2>2. /\ s = [status |-> s.status, total |-> s.total, paid |-> s.paid]
        /\ s.status \in {row.status, t.ent.status}
        /\ s.paid \in {row.paid, t.ent.paid}
    BY <2>1 DEF SaveOver
  <2> QED
    BY <1>a, <2>2 DEF IsClaim
<1>1. CASE SaveClaim(r)
  <2> DEFINE new == SaveOver(claim[c], t.ent, t.base)
  <2>1. /\ t.pc = "save" /\ t.op # "submit" /\ t.op \in EmployeeOps
        /\ t.ent.status \in EDITABLE_STATUSES \cup {"WITHDRAWN"}
    BY <1>0, <1>1 DEF SaveClaim, OpAt, StatusInHand, EmployeeOps
  <2>2. IsClaim(new) /\ new.status \in {claim[c].status, t.ent.status}
    BY <1>0, <1>a, <2>1
  <2>3. Commit(r, new, t.ent.status) /\ lost' \in [Claims -> BOOLEAN]
    BY <1>0, <1>1, <2>1 DEF SaveClaim, IsTx
  <2>4. t.op \notin ReviewOps /\ t.ent.status \in Statuses
    BY <2>1 DEF EmployeeOps, LineOps, ReviewOps, ExpectedStatus, EDITABLE_STATUSES, Statuses
  <2> HIDE DEF new
  <2>5. LegalCommit(r, new)
    BY <2>1, <2>2, <2>4 DEF LegalCommit
  <2>6. IInv'
    BY <1>0, <2>1, <2>2, <2>3, <2>4, <2>5, CommitInv
  <2>7. claim' = [claim EXCEPT ![c] = new]
    BY <2>3 DEF Commit
  <2> QED
    BY <1>0, <2>1, <2>5, <2>6, <2>7
<1>2. CASE SaveTotalOnSubmit(r) /\ t.ent = t.base
  <2> DEFINE sub == [t.ent EXCEPT !.status = "PENDING_MANAGER"]
             new == Holding(t.op, c, "load", sub, t.base, t.id, t.row, t.old, t.fresh)
  <2>1. t.pc = "save" /\ t.op = "submit"
    BY <1>2 DEF SaveTotalOnSubmit
  <2>2. IsClaim(sub) /\ sub.status = "PENDING_MANAGER"
    BY <1>0 DEF IsClaim, Statuses
  <2>3. [t EXCEPT !.pc = "load", !.ent = sub] = new
    <3> HIDE DEF sub
    <3> QED
      BY <1>0, UpdateEnt
  <2>4. tx' = [tx EXCEPT ![r] = new] /\ UNCHANGED <<claim, line, audit, lost>>
    BY <1>2, <2>3 DEF SaveTotalOnSubmit, Continue
  <2> HIDE DEF sub
  <2>5. IsTx(new)
    BY <1>0, <2>1, <2>2 DEF Holding, IsTx, Phases
  <2>6. InHand(new)
    BY <1>0, <2>1, <2>2 DEF Holding, InHand, OpAt, LineInHand, StatusInHand, EmployeeOps,
       LineOps
  <2> HIDE DEF new
  <2> QED
    BY <2>4, <2>5, <2>6, ReplaceInv
<1>3. CASE SaveTotalOnSubmit(r) /\ t.ent # t.base
  <2> DEFINE sub == [t.ent EXCEPT !.status = "PENDING_MANAGER"]
  <2>1. t.pc = "save" /\ t.op = "submit"
    BY <1>3 DEF SaveTotalOnSubmit
  <2>2. IsClaim(sub) /\ sub.status = "PENDING_MANAGER"
    BY <1>0 DEF IsClaim, Statuses
  <2>3. Commit(r, sub, "PENDING_MANAGER") /\ lost' \in [Claims -> BOOLEAN]
    BY <1>0, <1>3, <2>1 DEF SaveTotalOnSubmit, IsTx
  <2>4. t.op \notin ReviewOps /\ "PENDING_MANAGER" \in Statuses
    BY <2>1 DEF ReviewOps, ExpectedStatus, Statuses
  <2> HIDE DEF sub
  <2>5. LegalCommit(r, sub)
    BY <2>1, <2>2, <2>4 DEF LegalCommit
  <2>6. IInv'
    BY <1>0, <2>1, <2>2, <2>3, <2>4, <2>5, CommitInv
  <2>7. claim' = [claim EXCEPT ![c] = sub]
    BY <2>3 DEF Commit
  <2> QED
    BY <1>0, <2>1, <2>5, <2>6, <2>7
<1>4. CASE SaveStatusOnSubmit(r)
  <2> DEFINE new == SaveOver(claim[c], t.ent, t.base)
  <2>1. t.pc = "save" /\ t.op = "submit" /\ t.ent.status = "PENDING_MANAGER"
    BY <1>4 DEF SaveStatusOnSubmit
  <2>2. IsClaim(new) /\ new.status \in {claim[c].status, t.ent.status}
    BY <1>0, <1>a, <2>1
  <2>3. Commit(r, new, "PENDING_MANAGER") /\ lost' \in [Claims -> BOOLEAN]
    BY <1>0, <1>4, <2>1 DEF SaveStatusOnSubmit, IsTx
  <2>4. t.op \notin ReviewOps /\ "PENDING_MANAGER" \in Statuses
    BY <2>1 DEF ReviewOps, ExpectedStatus, Statuses
  <2> HIDE DEF new
  <2>5. LegalCommit(r, new)
    BY <2>1, <2>2, <2>4 DEF LegalCommit
  <2>6. IInv'
    BY <1>0, <2>1, <2>2, <2>3, <2>4, <2>5, CommitInv
  <2>7. claim' = [claim EXCEPT ![c] = new]
    BY <2>3 DEF Commit
  <2> QED
    BY <1>0, <2>1, <2>5, <2>6, <2>7
<1>5. CASE Decide(r)
  <2> DEFINE new == [claim[c] EXCEPT !.status = TargetStatus[t.op],
                                     !.paid = @ \/ t.op = "markPaid"]
  <2>1. t.pc = "decide" /\ t.op \in ReviewOps /\ claim[c].status = ExpectedStatus[t.op]
    BY <1>0, <1>5 DEF Decide, DecideGuard, OpAt
  <2>2. TargetStatus[t.op] \in Statuses
    BY <2>1 DEF ReviewOps, ExpectedStatus, TargetStatus, Statuses
  <2>3. IsClaim(new) /\ new.status = TargetStatus[t.op]
    <3> SUFFICES ASSUME NEW s, s = new PROVE IsClaim(s) /\ s.status = TargetStatus[t.op]
      OBVIOUS
    <3>1. IsClaim(claim[c])
      BY <1>0, <2>1
    <3>2. /\ s = [status |-> s.status, total |-> s.total, paid |-> s.paid]
          /\ s.status = TargetStatus[t.op]
          /\ s.paid = (claim[c].paid \/ t.op = "markPaid")
      BY <3>1 DEF IsClaim
    <3> QED
      BY <2>2, <3>1, <3>2 DEF IsClaim
  <2>4. Commit(r, new, TargetStatus[t.op]) /\ lost' \in [Claims -> BOOLEAN]
    BY <1>0, <1>5 DEF Decide
  <2> HIDE DEF new
  <2>5. LegalCommit(r, new)
    BY <2>1, <2>3 DEF LegalCommit
  <2>6. IInv'
    BY <1>0, <2>1, <2>2, <2>3, <2>4, <2>5, CommitInv
  <2>7. claim' = [claim EXCEPT ![c] = new]
    BY <2>4 DEF Commit
  <2> QED
    BY <1>0, <2>1, <2>5, <2>6, <2>7
<1> QED
  BY <1>1, <1>2, <1>3, <1>4, <1>5

-----------------------------------------------------------------------------

LEMMA CreateInv ==
  ASSUME IInv, NEW c \in Claims, createDraft(c)
  PROVE  IInv'
<1>1. /\ claim[c].status = "NONE" /\ IsClaim(claim[c]) /\ audit[c] \in AuditType
      /\ claim' = [claim EXCEPT ![c].status = "DRAFT"]
      /\ audit' = [audit EXCEPT ![c].to = "DRAFT"]
      /\ UNCHANGED <<line, tx, lost>>
  BY DEF createDraft, IInv, TypeOK
<1>2. /\ DOMAIN claim' = Claims
      /\ \A d \in Claims : /\ IsClaim(claim'[d])
                           /\ claim'[d].status = IF d = c THEN "DRAFT" ELSE claim[d].status
  <2>1. \A d \in Claims : claim'[d] = IF d = c THEN [claim[c] EXCEPT !.status = "DRAFT"]
                                              ELSE claim[d]
    BY <1>1 DEF IInv, TypeOK
  <2>2. ASSUME NEW s, s = [claim[c] EXCEPT !.status = "DRAFT"]
        PROVE  IsClaim(s) /\ s.status = "DRAFT"
    <3>1. /\ s = [status |-> s.status, total |-> s.total, paid |-> s.paid]
          /\ s.status = "DRAFT" /\ s.paid = claim[c].paid
      BY <1>1, <2>2 DEF IsClaim
    <3> QED
      BY <1>1, <3>1 DEF IsClaim, Statuses
  <2>3. DOMAIN claim' = Claims /\ \A d \in Claims : IsClaim(claim[d])
    BY <1>1 DEF IInv, TypeOK
  <2> QED
    BY <2>1, <2>2, <2>3
<1>3. /\ audit' \in [Claims -> AuditType]
      /\ \A d \in Claims :
            /\ audit'[d].submitted = audit[d].submitted
            /\ audit'[d].managerApproved = audit[d].managerApproved
            /\ audit'[d].financeApproved = audit[d].financeApproved
            /\ audit'[d].markedPaid = audit[d].markedPaid
  BY <1>1 DEF IInv, TypeOK, AuditType, Statuses
<1>4. TypeOK'
  <2>1. \A d \in Claims : IsClaim(claim[d])'
    BY <1>2 DEF IsClaim
  <2>2. \A q \in Requests : IsTx(tx[q])'
    BY <1>1 DEF IInv, TypeOK, IsTx, IsClaim
  <2> QED
    BY <1>1, <1>2, <1>3, <2>1, <2>2 DEF IInv, TypeOK
<1>5. TxInv'
  BY <1>1 DEF IInv, TxInv, InHand, OpAt, LineInHand, StatusInHand
<1>6. Accounted'
  BY <1>2, <1>3 DEF IInv, Accounted
<1> QED
  BY <1>4, <1>5, <1>6 DEF IInv

LEMMA FailInv ==
  ASSUME IInv, NEW r \in Requests, Fail(r)
  PROVE  IInv'
<1>1. IsTx(NoTx) /\ InHand(NoTx)
  BY DEF IsTx, NoTx, NoClaim, IsClaim, Statuses, Phases, InHand, OpAt, LineInHand, StatusInHand
<1> QED
  BY <1>1, ReplaceInv DEF Fail

LEMMA NextInv == IInv /\ [Next]_vars => IInv'
<1> SUFFICES ASSUME IInv, [Next]_vars PROVE IInv'
  OBVIOUS
<1>1. ASSUME NEW c \in Claims, createDraft(c) PROVE IInv'
  BY <1>1, CreateInv
<1>2. ASSUME NEW r \in Requests, Start(r) PROVE IInv'
  BY <1>2, StartInv
<1>3. ASSUME NEW r \in Requests, Step(r) PROVE IInv'
  BY <1>3, ContinueInv, SaveLegal DEF Step
<1>4. ASSUME NEW r \in Requests, Fail(r) PROVE IInv'
  BY <1>4, FailInv
<1>5. CASE UNCHANGED vars
  BY <1>5 DEF vars, IInv, TypeOK, IsClaim, IsTx, TxInv, InHand, OpAt, LineInHand,
     StatusInHand, Accounted
<1> QED
  BY <1>1, <1>2, <1>3, <1>4, <1>5 DEF Next

THEOREM Invariance == Spec => []IInv
<1> QED
  BY InitInv, NextInv, PTL DEF Spec

(* Every row and every request in flight keeps its type: a line saved over *)
(* a stale copy, or inserted with the next number, is a whole line.        *)
THEOREM TypeCorrect == Spec => []TypeOK
<1>1. IInv => TypeOK
  BY DEF IInv
<1> QED
  BY <1>1, Invariance, PTL

(* However stale saves and decisions interleave, and however many of them, *)
(* there is never a payment without its approvals and its submission.      *)
THEOREM PaymentsAlwaysBacked == Spec => []PaymentsBacked
<1>1. IInv => PaymentsBacked
  BY DEF IInv, Accounted, PaymentsBacked
<1> QED
  BY <1>1, Invariance, PTL

(* Whatever an employee's stale save puts back, no claim skips a stage.    *)
THEOREM StagesTakenInOrder == Spec => StageOrder
<1>1. IInv /\ [Next]_vars => [TakesStagesInOrder]_vars
  <2> SUFFICES ASSUME IInv, [Next]_vars PROVE TakesStagesInOrder
    OBVIOUS
  <2> SUFFICES ASSUME NEW c \in Claims, claim[c].status # claim'[c].status
               PROVE  /\ claim'[c].status = "PENDING_FINANCE" => claim[c].status = "PENDING_MANAGER"
                      /\ claim'[c].status = "APPROVED" => claim[c].status = "PENDING_FINANCE"
                      /\ claim'[c].status = "PAID" => claim[c].status = "APPROVED"
                      /\ claim'[c].status = "REJECTED" =>
                            claim[c].status \in {"PENDING_MANAGER", "PENDING_FINANCE"}
    BY DEF TakesStagesInOrder
  <2>1. CASE \E d \in Claims : createDraft(d)
    <3>1. PICK d \in Claims : createDraft(d)
      BY <2>1
    <3>2. claim'[c].status \in {claim[c].status, "DRAFT"}
      BY <3>1 DEF createDraft, IInv, TypeOK, IsClaim
    <3> QED
      BY <3>2
  <2>2. CASE \E r \in Requests : SaveClaim(r) \/ SaveTotalOnSubmit(r) \/ SaveStatusOnSubmit(r)
                                  \/ Decide(r)
    <3>1. PICK r \in Requests : SaveClaim(r) \/ SaveTotalOnSubmit(r) \/ SaveStatusOnSubmit(r)
                                  \/ Decide(r)
      BY <2>2
    <3>2. CASE UNCHANGED <<claim, audit>>
      BY <3>2
    <3>3. CASE \E new : /\ LegalCommit(r, new)
                        /\ claim' = [claim EXCEPT ![tx[r].claim] = new]
      <4>1. PICK new : LegalCommit(r, new) /\ claim' = [claim EXCEPT ![tx[r].claim] = new]
        BY <3>3
      <4>2. tx[r].claim = c /\ claim'[c] = new
        BY <4>1 DEF IInv, TypeOK
      <4> QED
        BY <4>1, <4>2 DEF LegalCommit, EDITABLE_STATUSES, ReviewOps, ExpectedStatus, TargetStatus
    <3> QED
      BY <3>1, <3>2, <3>3, SaveLegal
  <2>3. CASE UNCHANGED claim
    BY <2>3
  <2>4. ASSUME NEW r \in Requests, Start(r) PROVE UNCHANGED claim
    BY <2>4 DEF Start, Begin, updateDraft, addLine, updateLine, deleteLine, submit, withdraw,
       FindForReview
  <2>5. ASSUME NEW r \in Requests,
               \/ CountLines(r) \/ InsertLine(r) \/ FindLine(r) \/ LoadLine(r) \/ SaveLine(r)
               \/ RemoveLine(r) \/ validateForSubmit(r) \/ recomputeTotal(r) \/ LoadClaim(r)
        PROVE  UNCHANGED claim
    BY <2>5 DEF Continue, CountLines, InsertLine, FindLine, LoadLine, SaveLine, RemoveLine,
       validateForSubmit, recomputeTotal, LoadClaim
  <2>6. ASSUME NEW r \in Requests, Fail(r) PROVE UNCHANGED claim
    BY <2>6 DEF Fail
  <2>7. CASE UNCHANGED vars
    BY <2>3, <2>7 DEF vars
  <2> QED
    BY <2>1, <2>2, <2>3, <2>4, <2>5, <2>6, <2>7 DEF Next, Step
<1> QED
  BY <1>1, Invariance, PTL DEF Spec, StageOrder

(* What a request sees of the lines of its claim: its own uncommitted      *)
(* line, and the committed ones.                                           *)
Holds(t)   == t.op \in LineOps /\ t.pc \in {"total", "load", "save"} /\ t.id # 0
View(t, l) == IF Holds(t) /\ t.id = l THEN t.row ELSE line[l]
Seen(t)    == {l \in LineIds : View(t, l).claim = t.claim /\ View(t, l).live}
SumSeen(t) == SumFunction([l \in Seen(t) |-> AmountOf[View(t, l).item]])

(* The line a request works on belongs to its claim or, when it is being   *)
(* added, to no claim yet and to no other request.                         *)
OwnLine(t) ==
    /\ t.op = "addLine" => t.row.claim = t.claim
    /\ t.op \in {"updateLine", "deleteLine"} /\ t.pc \in {"lineLoad", "lineSave", "total", "load", "save"}
        => t.row.claim = t.claim
    /\ t.op \in {"updateLine", "deleteLine"} /\ t.id # 0 => line[t.id].claim = t.claim
    /\ t.op = "addLine" /\ t.id # 0 => line[t.id].claim = None
Apart(q, r) == tx[q].op = "addLine" /\ tx[q].id # 0 => tx[q].id # tx[r].id

Submittable(c) ==
    /\ CommittedLines(c) # {}
    /\ Cardinality(CommittedLines(c)) <= MaxLines
    /\ CommittedSum(c) <= MaxClaimAmount

(* As long as no request has committed on its claim since it began, a      *)
(* request of the employee holds what the claim is now, and its total is   *)
(* the sum of the lines it sees.                                           *)
UpToDate(t) ==
    t.fresh /\ t.pc \notin {"idle", "decide"} =>
        LET now == claim[t.claim] IN
        /\ t.pc = "save" => t.base = now
        /\ t.ent.paid = now.paid
        /\ t.op \in {"updateDraft", "withdraw"} => t.ent.total = now.total
        /\ t.op = "withdraw" => now.status \in WithdrawableStatuses
        /\ t.op # "withdraw" => now.status \in EDITABLE_STATUSES
        /\ t.op \in LineOps \cup {"updateDraft"} => t.ent.status = now.status
        /\ t.op = "submit" => t.ent.status \in {now.status, "PENDING_MANAGER"}
        /\ t.op \in LineOps \cup {"submit"} /\ t.pc \in {"load", "save"} =>
              t.ent.total = SumSeen(t)
        /\ t.op = "submit" /\ t.pc # "validate" => Submittable(t.claim)
Started(t) == t.pc # "idle" => claim[t.claim].status # "NONE"

(* A claim no stale request reached.                                       *)
Sound(c) ==
    ~lost[c] =>
        /\ claim[c].total = CommittedSum(c)
        /\ UnderReview(c) => Submittable(c)
        /\ audit[c].to = claim[c].status
        /\ claim[c].paid = (claim[c].status = "PAID")
        /\ audit[c].markedPaid = IF claim[c].status = "PAID" THEN 1 ELSE 0

(* A claim whose lines passed the duplicate block and have not changed     *)
(* since: on its way, or about to be.                                      *)
Passed(c) ==
    /\ ~lost[c]
    /\ \/ claim[c].status \in {"PENDING_MANAGER", "PENDING_FINANCE", "APPROVED"}
       \/ \E q \in Requests :
            /\ tx[q].op = "submit" /\ tx[q].pc \in {"total", "load", "save"}
            /\ tx[q].fresh /\ tx[q].claim = c
Repeated(k, l) ==
    /\ k # l /\ line[k].live /\ line[l].live /\ line[k].item = line[l].item
NoRepeat ==
    \A k, l \in LineIds : Repeated(k, l) => ~Passed(line[k].claim) \/ ~Passed(line[l].claim)

Lines  == \A r \in Requests : OwnLine(tx[r]) /\ \A q \in Requests \ {r} : Apart(q, r)
Fresh  == \A r \in Requests : UpToDate(tx[r]) /\ Started(tx[r])
Sounds == \A c \in Claims : Sound(c)
SInv   == Lines /\ Fresh /\ Sounds /\ NoRepeat

-----------------------------------------------------------------------------
(* What is seen depends on the lines and on what the request holds.        *)

LEMMA SeenSame ==
  ASSUME NEW s, NEW t, s.id = t.id, s.row = t.row, s.claim = t.claim, Holds(s) <=> Holds(t)
  PROVE  Seen(s) = Seen(t) /\ SumSeen(s) = SumSeen(t)
<1>1. \A l : View(s, l) = View(t, l)
  BY DEF View
<1>2. Seen(s) = Seen(t)
  BY <1>1 DEF Seen
<1>3. [l \in Seen(s) |-> AmountOf[View(s, l).item]] = [l \in Seen(t) |-> AmountOf[View(t, l).item]]
  BY <1>1, <1>2
<1> QED
  BY <1>2, <1>3 DEF SumSeen

LEMMA SeenIsLive ==
  ASSUME NEW r \in Requests
  PROVE  /\ LiveLines(r, tx[r].claim) = Seen(tx[r])
         /\ SumOf(r, tx[r].claim) = SumSeen(tx[r])
<1>1. \A l : ViewLine(r, l) = View(tx[r], l)
  BY DEF ViewLine, View, HoldsLine, Holds
<1>2. LiveLines(r, tx[r].claim) = Seen(tx[r])
  BY <1>1 DEF LiveLines, Seen
<1>3. [l \in LiveLines(r, tx[r].claim) |-> AmountOf[ViewLine(r, l).item]]
        = [l \in Seen(tx[r]) |-> AmountOf[View(tx[r], l).item]]
  BY <1>1, <1>2
<1> QED
  BY <1>2, <1>3 DEF SumSeen, SumOf

LEMMA SeenIsCommitted ==
  ASSUME NEW t, ~Holds(t)
  PROVE  Seen(t) = CommittedLines(t.claim) /\ SumSeen(t) = CommittedSum(t.claim)
<1>1. \A l : View(t, l) = line[l]
  BY DEF View
<1>2. Seen(t) = CommittedLines(t.claim)
  BY <1>1 DEF Seen, CommittedLines
<1>3. [l \in Seen(t) |-> AmountOf[View(t, l).item]]
        = [l \in CommittedLines(t.claim) |-> AmountOf[line[l].item]]
  BY <1>1, <1>2
<1> QED
  BY <1>2, <1>3 DEF SumSeen, CommittedSum

LEMMA CommittedSame ==
  ASSUME NEW c, CommittedLines(c)' = CommittedLines(c),
         \A l \in CommittedLines(c) : line'[l] = line[l]
  PROVE  CommittedSum(c)' = CommittedSum(c) /\ (Submittable(c)' <=> Submittable(c))
<1>1. [l \in CommittedLines(c)' |-> AmountOf[line'[l].item]]
        = [l \in CommittedLines(c) |-> AmountOf[line[l].item]]
  OBVIOUS
<1>2. CommittedSum(c)' = CommittedSum(c)
  BY <1>1 DEF CommittedSum
<1> QED
  BY <1>2 DEF Submittable

LEMMA SeenAgain ==
  ASSUME NEW t, Seen(t)' = Seen(t), \A l \in Seen(t) : View(t, l)' = View(t, l)
  PROVE  SumSeen(t)' = SumSeen(t)
<1>1. [l \in Seen(t)' |-> AmountOf[View(t, l)'.item]]
        = [l \in Seen(t) |-> AmountOf[View(t, l).item]]
  OBVIOUS
<1> QED
  BY <1>1 DEF SumSeen

LEMMA LinesSame ==
  ASSUME line' = line
  PROVE  /\ \A c : /\ CommittedLines(c)' = CommittedLines(c)
                   /\ CommittedSum(c)' = CommittedSum(c)
                   /\ Submittable(c)' <=> Submittable(c)
         /\ \A t : SumSeen(t)' = SumSeen(t)
<1>1. ASSUME NEW c PROVE /\ CommittedLines(c)' = CommittedLines(c)
                         /\ CommittedSum(c)' = CommittedSum(c)
                         /\ Submittable(c)' <=> Submittable(c)
  <2>1. CommittedLines(c)' = CommittedLines(c)
    BY DEF CommittedLines
  <2> QED
    BY <2>1, CommittedSame
<1>2. ASSUME NEW t PROVE SumSeen(t)' = SumSeen(t)
  <2>1. \A l : View(t, l)' = View(t, l)
    BY DEF View, Holds
  <2>2. Seen(t)' = Seen(t)
    BY <2>1 DEF Seen
  <2> QED
    BY <2>1, <2>2, SeenAgain
<1> QED
  BY <1>1, <1>2

(* A request that is past the duplicate block of submit.                   *)
PastBlock(t) == t.op = "submit" /\ t.pc \in {"total", "load", "save"} /\ t.fresh

LEMMA ReplaceSafe ==
  ASSUME IInv, SInv, NEW r \in Requests, NEW new,
         tx' = [tx EXCEPT ![r] = new], UNCHANGED <<claim, line, audit, lost>>,
         OwnLine(new), UpToDate(new), Started(new),
         \A q \in Requests \ {r} :
            /\ new.op = "addLine" /\ new.id # 0 => new.id # tx[q].id
            /\ tx[q].op = "addLine" /\ tx[q].id # 0 => tx[q].id # new.id,
         PastBlock(new) => \/ PastBlock(tx[r]) /\ tx[r].claim = new.claim
                           \/ \A l \in CommittedLines(new.claim) : ~HasDuplicate(r, l)
  PROVE  SInv'
<1>1. \A q \in Requests : tx'[q] = IF q = r THEN new ELSE tx[q]
  BY DEF IInv, TypeOK
<1>2. Lines'
  <2> SUFFICES ASSUME NEW q \in Requests
               PROVE  OwnLine(tx[q])' /\ \A p \in Requests \ {q} : Apart(p, q)'
    BY DEF Lines
  <2>1. OwnLine(tx'[q]) /\ \A p \in Requests \ {q} :
            tx'[p].op = "addLine" /\ tx'[p].id # 0 => tx'[p].id # tx'[q].id
    BY <1>1 DEF SInv, Lines, Apart
  <2> QED
    BY <2>1 DEF OwnLine, Apart
<1>3. Fresh'
  <2> SUFFICES ASSUME NEW q \in Requests PROVE UpToDate(tx[q])' /\ Started(tx[q])'
    BY DEF Fresh
  <2>1. UpToDate(tx'[q]) /\ Started(tx'[q])
    BY <1>1 DEF SInv, Fresh
  <2>2. PICK t : t = tx'[q]
    OBVIOUS
  <2>3. SumSeen(t)' = SumSeen(t) /\ (Submittable(t.claim)' <=> Submittable(t.claim))
    BY LinesSame
  <2>4. UpToDate(t)' /\ Started(t)'
    BY <2>1, <2>2, <2>3 DEF UpToDate, Started
  <2> QED
    BY <2>2, <2>4 DEF UpToDate, Started, SumSeen, Seen, View, Holds
<1>4. Sounds'
  <2> SUFFICES ASSUME NEW c \in Claims PROVE Sound(c)'
    BY DEF Sounds
  <2>1. /\ CommittedSum(c)' = CommittedSum(c)
        /\ Submittable(c)' <=> Submittable(c)
    BY LinesSame
  <2> QED
    BY <2>1 DEF SInv, Sounds, Sound, UnderReview
<1>5. NoRepeat'
  <2> SUFFICES ASSUME NEW k \in LineIds, NEW l \in LineIds, Repeated(k, l),
                      Passed(line[k].claim)', Passed(line[l].claim)'
               PROVE  FALSE
    BY DEF NoRepeat, Repeated
  <2>1. line[k].claim \in Claims /\ line[l].claim \in Claims
    BY DEF Repeated, IInv, TypeOK, LineType, NoRow
  <2>2. ASSUME NEW c \in Claims, Passed(c)', ~Passed(c)
        PROVE  PastBlock(new) /\ new.claim = c /\ ~(PastBlock(tx[r]) /\ tx[r].claim = c)
    BY <1>1, <2>2 DEF Passed, PastBlock
  <2>3. ASSUME NEW c \in Claims, Passed(c)' PROVE claim[c].status \in NON_TERMINAL_STATUSES
    <3>1. CASE claim[c].status \in {"PENDING_MANAGER", "PENDING_FINANCE", "APPROVED"}
      BY <3>1 DEF NON_TERMINAL_STATUSES
    <3>2. CASE \E q \in Requests : PastBlock(tx'[q]) /\ tx'[q].claim = c
      <4>1. PICK q \in Requests : PastBlock(tx'[q]) /\ tx'[q].claim = c
        BY <3>2
      <4>2. UpToDate(tx'[q])
        BY <1>1 DEF SInv, Fresh
      <4> QED
        BY <4>1, <4>2 DEF UpToDate, PastBlock, NON_TERMINAL_STATUSES, EDITABLE_STATUSES
    <3> QED
      BY <2>3, <3>1, <3>2 DEF Passed, PastBlock
  <2>4. CASE Passed(line[k].claim) /\ Passed(line[l].claim)
    BY <2>4 DEF SInv, NoRepeat
  <2>5. CASE ~Passed(line[k].claim)
    <3>1. \A x \in CommittedLines(line[k].claim) : ~HasDuplicate(r, x)
      BY <2>1, <2>2, <2>5
    <3>2. k \in CommittedLines(line[k].claim)
      BY DEF CommittedLines, Repeated
    <3>3. claim[line[l].claim].status \in NON_TERMINAL_STATUSES
      BY <2>1, <2>3
    <3> QED
      BY <3>1, <3>2, <3>3 DEF HasDuplicate, Repeated
  <2>6. CASE ~Passed(line[l].claim)
    <3>1. \A x \in CommittedLines(line[l].claim) : ~HasDuplicate(r, x)
      BY <2>1, <2>2, <2>6
    <3>2. l \in CommittedLines(line[l].claim)
      BY DEF CommittedLines, Repeated
    <3>3. claim[line[k].claim].status \in NON_TERMINAL_STATUSES
      BY <2>1, <2>3
    <3> QED
      BY <3>1, <3>2, <3>3 DEF HasDuplicate, Repeated
  <2> QED
    BY <2>4, <2>5, <2>6
<1> QED
  BY <1>2, <1>3, <1>4, <1>5 DEF SInv

(* Every request begins with what is committed.                            *)
LEMMA StartSafe ==
  ASSUME IInv, SInv, NEW r \in Requests, Start(r)
  PROVE  SInv'
<1> PICK c \in Claims :
        \/ updateDraft(r, c)
        \/ \E i \in Items : addLine(r, c, i)
        \/ \E l \in RowsOf(c), i \in Items : updateLine(r, c, l, i)
        \/ \E l \in RowsOf(c) : deleteLine(r, c, l)
        \/ submit(r, c)
        \/ withdraw(r, c)
        \/ \E op \in ReviewOps : FindForReview(r, op, c)
  BY DEF Start
<1>0. /\ claim[c] = [status |-> claim[c].status, total |-> claim[c].total, paid |-> claim[c].paid]
      /\ \A q \in Requests : OwnLine(tx[q])
  BY DEF IInv, TypeOK, IsClaim, SInv, Lines
<1>1. CASE updateDraft(r, c)
  <2> DEFINE new == Holding("updateDraft", c, "load", claim[c], NoClaim, 0,
                           NoRow, NoRow, TRUE)
  <2>1. tx' = [tx EXCEPT ![r] = new] /\ UNCHANGED <<claim, line, audit, lost>>
    BY <1>1 DEF updateDraft, Begin, Holding
  <2>2. claim[c].status # "NONE" /\ claim[c].status \in EDITABLE_STATUSES
    BY <1>1 DEF updateDraft, findEditableClaim, EDITABLE_STATUSES
  <2>3. OwnLine(new)
    BY DEF OwnLine, Holding
  <2>4. UpToDate(new) /\ Started(new) /\ ~PastBlock(new)
    BY <1>0, <2>2 DEF UpToDate, Started, PastBlock, Holding, LineOps
  <2>5. new.id = 0 /\ (new.id # 0 => new.op # "addLine")
    BY DEF Holding
  <2> HIDE DEF new
  <2> QED
    BY <2>1, <2>3, <2>4, <2>5, ReplaceSafe
<1>2. ASSUME NEW i \in Items, addLine(r, c, i) PROVE SInv'
  <2> DEFINE new == Holding("addLine", c, "count", claim[c], NoClaim, 0,
                           [claim |-> c, no |-> 0, item |-> i, live |-> TRUE], NoRow, TRUE)
  <2>1. tx' = [tx EXCEPT ![r] = new] /\ UNCHANGED <<claim, line, audit, lost>>
    BY <1>2 DEF addLine, Begin, Holding
  <2>2. claim[c].status # "NONE" /\ claim[c].status \in EDITABLE_STATUSES
    BY <1>2 DEF addLine, findEditableClaim, EDITABLE_STATUSES
  <2>3. OwnLine(new)
    BY DEF OwnLine, Holding
  <2>4. UpToDate(new) /\ Started(new) /\ ~PastBlock(new)
    BY <1>0, <2>2 DEF UpToDate, Started, PastBlock, Holding, LineOps
  <2>5. new.id = 0 /\ (new.id # 0 => new.op # "addLine")
    BY DEF Holding
  <2> HIDE DEF new
  <2> QED
    BY <2>1, <2>3, <2>4, <2>5, ReplaceSafe
<1>3. ASSUME NEW l \in RowsOf(c), NEW i \in Items, updateLine(r, c, l, i) PROVE SInv'
  <2> DEFINE new == Holding("updateLine", c, "find", claim[c], NoClaim, l,
                           [NoRow EXCEPT !.item = i], NoRow, TRUE)
  <2>1. tx' = [tx EXCEPT ![r] = new] /\ UNCHANGED <<claim, line, audit, lost>>
    BY <1>3 DEF updateLine, Begin, Holding
  <2>2. claim[c].status # "NONE" /\ claim[c].status \in EDITABLE_STATUSES
    BY <1>3 DEF updateLine, findEditableClaim, EDITABLE_STATUSES
  <2>3. OwnLine(new) /\ \A q \in Requests \ {r} : tx[q].op = "addLine" /\ tx[q].id # 0 => tx[q].id # l
    <3>1. l \in LineIds /\ line[l].claim = c
      BY DEF RowsOf
    <3>2. OwnLine(new)
      BY <3>1 DEF OwnLine, Holding
    <3> QED
      BY <1>0, <3>1, <3>2, ConstantsAssumption DEF OwnLine
  <2>4. UpToDate(new) /\ Started(new) /\ ~PastBlock(new)
    BY <1>0, <2>2 DEF UpToDate, Started, PastBlock, Holding, LineOps
  <2>5. new.id = l /\ (new.id # 0 => new.op # "addLine")
    BY DEF Holding
  <2> HIDE DEF new
  <2> QED
    BY <2>1, <2>3, <2>4, <2>5, ReplaceSafe
<1>4. ASSUME NEW l \in RowsOf(c), deleteLine(r, c, l) PROVE SInv'
  <2> DEFINE new == Holding("deleteLine", c, "find", claim[c], NoClaim, l,
                           NoRow, NoRow, TRUE)
  <2>1. tx' = [tx EXCEPT ![r] = new] /\ UNCHANGED <<claim, line, audit, lost>>
    BY <1>4 DEF deleteLine, Begin, Holding
  <2>2. claim[c].status # "NONE" /\ claim[c].status \in EDITABLE_STATUSES
    BY <1>4 DEF deleteLine, findEditableClaim, EDITABLE_STATUSES
  <2>3. OwnLine(new) /\ \A q \in Requests \ {r} : tx[q].op = "addLine" /\ tx[q].id # 0 => tx[q].id # l
    <3>1. l \in LineIds /\ line[l].claim = c
      BY DEF RowsOf
    <3>2. OwnLine(new)
      BY <3>1 DEF OwnLine, Holding
    <3> QED
      BY <1>0, <3>1, <3>2, ConstantsAssumption DEF OwnLine
  <2>4. UpToDate(new) /\ Started(new) /\ ~PastBlock(new)
    BY <1>0, <2>2 DEF UpToDate, Started, PastBlock, Holding, LineOps
  <2>5. new.id = l /\ (new.id # 0 => new.op # "addLine")
    BY DEF Holding
  <2> HIDE DEF new
  <2> QED
    BY <2>1, <2>3, <2>4, <2>5, ReplaceSafe
<1>5. CASE submit(r, c)
  <2> DEFINE new == Holding("submit", c, "validate", claim[c], NoClaim, 0,
                           NoRow, NoRow, TRUE)
  <2>1. tx' = [tx EXCEPT ![r] = new] /\ UNCHANGED <<claim, line, audit, lost>>
    BY <1>5 DEF submit, Begin, Holding
  <2>2. claim[c].status # "NONE" /\ claim[c].status \in EDITABLE_STATUSES
    BY <1>5 DEF submit, findEditableClaim, EDITABLE_STATUSES
  <2>3. OwnLine(new)
    BY DEF OwnLine, Holding
  <2>4. UpToDate(new) /\ Started(new) /\ ~PastBlock(new)
    BY <1>0, <2>2 DEF UpToDate, Started, PastBlock, Holding, LineOps
  <2>5. new.id = 0 /\ (new.id # 0 => new.op # "addLine")
    BY DEF Holding
  <2> HIDE DEF new
  <2> QED
    BY <2>1, <2>3, <2>4, <2>5, ReplaceSafe
<1>6. CASE withdraw(r, c)
  <2> DEFINE new == Holding("withdraw", c, "load", [claim[c] EXCEPT !.status = "WITHDRAWN"], NoClaim, 0,
                           NoRow, NoRow, TRUE)
  <2>1. tx' = [tx EXCEPT ![r] = new] /\ UNCHANGED <<claim, line, audit, lost>>
    BY <1>6 DEF withdraw, Begin, Holding
  <2>2. claim[c].status # "NONE" /\ claim[c].status \in WithdrawableStatuses
    BY <1>6 DEF withdraw, WithdrawableStatuses
  <2>3. OwnLine(new)
    BY DEF OwnLine, Holding
  <2>4. UpToDate(new) /\ Started(new) /\ ~PastBlock(new)
    BY <1>0, <2>2 DEF UpToDate, Started, PastBlock, Holding, LineOps
  <2>5. new.id = 0 /\ (new.id # 0 => new.op # "addLine")
    BY DEF Holding
  <2> HIDE DEF new
  <2> QED
    BY <2>1, <2>3, <2>4, <2>5, ReplaceSafe
<1>7. ASSUME NEW op \in ReviewOps, FindForReview(r, op, c) PROVE SInv'
  <2> DEFINE new == Holding(op, c, "decide", NoClaim, NoClaim, 0,
                           NoRow, NoRow, TRUE)
  <2>1. tx' = [tx EXCEPT ![r] = new] /\ UNCHANGED <<claim, line, audit, lost>>
    BY <1>7 DEF FindForReview, Begin, Holding
  <2>2. claim[c].status # "NONE" /\ op \notin EmployeeOps
    BY <1>7 DEF FindForReview, ExpectedStatus, ReviewOps, EmployeeOps, LineOps
  <2>3. OwnLine(new)
    BY <2>2 DEF OwnLine, Holding, EmployeeOps, LineOps
  <2>4. UpToDate(new) /\ Started(new) /\ ~PastBlock(new)
    BY <1>0, <2>2 DEF UpToDate, Started, PastBlock, Holding, LineOps
  <2>5. new.id = 0 /\ (new.id # 0 => new.op # "addLine")
    BY DEF Holding
  <2> HIDE DEF new
  <2> QED
    BY <2>1, <2>3, <2>4, <2>5, ReplaceSafe
<1> QED
  BY <1>1, <1>2, <1>3, <1>4, <1>5, <1>6, <1>7

(* Every statement before the last one keeps what is held up to date.      *)
LEMMA ContinueSafe ==
  ASSUME IInv, SInv, NEW r \in Requests,
         \/ CountLines(r) \/ InsertLine(r) \/ FindLine(r) \/ LoadLine(r) \/ SaveLine(r)
         \/ RemoveLine(r) \/ validateForSubmit(r) \/ recomputeTotal(r) \/ LoadClaim(r)
         \/ SaveTotalOnSubmit(r) /\ tx[r].ent = tx[r].base
  PROVE  SInv'
<1> DEFINE t == tx[r]
<1>0. /\ IsTx(t) /\ OpAt(t) /\ LineInHand(t) /\ StatusInHand(t)
      /\ OwnLine(t) /\ UpToDate(t) /\ Started(t)
      /\ IsClaim(t.ent)
  BY DEF IInv, TypeOK, TxInv, InHand, IsTx, SInv, Lines, Fresh
<1>a. \A q \in Requests \ {r} :
            /\ t.op = "addLine" /\ t.id # 0 => t.id # tx[q].id
            /\ tx[q].op = "addLine" /\ tx[q].id # 0 => tx[q].id # t.id
  BY DEF SInv, Lines, Apart
<1>b. t.ent = [status |-> t.ent.status, total |-> t.ent.total, paid |-> t.ent.paid]
  BY <1>0 DEF IsClaim
<1>1. CASE CountLines(r)
  <2> PICK last \in {0} \cup {line[l].no : l \in LiveLines(r, t.claim)} :
        Continue(r, [t EXCEPT !.pc = "insert", !.row.no = last + 1])
    BY <1>1 DEF CountLines
  <2> DEFINE new == Holding(t.op, t.claim, "insert", t.ent, t.base, t.id,
                           [t.row EXCEPT !.no = last + 1], t.old, t.fresh)
  <2>1. t.pc = "count" /\ t.op = "addLine"
    BY <1>0, <1>1 DEF CountLines, OpAt, LineInHand
  <2>2. [t EXCEPT !.pc = "insert", !.row.no = last + 1] = new
    BY <1>0, UpdateNo
  <2>3. tx' = [tx EXCEPT ![r] = new] /\ UNCHANGED <<claim, line, audit, lost>>
    BY <1>1, <2>1, <2>2 DEF CountLines, Continue
  <2>8. [t.row EXCEPT !.no = last + 1].claim = t.claim
    BY <1>0, <2>1 DEF LineInHand
  <2>4. OwnLine(new)
    BY <1>0, <2>1, <2>8 DEF OwnLine, Holding
  <2>5. UpToDate(new) /\ Started(new)
    BY <1>0, <2>1 DEF UpToDate, Started, Holding, LineOps
  <2>6. ~PastBlock(new)
    BY <2>1 DEF PastBlock, Holding
  <2>7. \A q \in Requests \ {r} :
            /\ new.op = "addLine" /\ new.id # 0 => new.id # tx[q].id
            /\ tx[q].op = "addLine" /\ tx[q].id # 0 => tx[q].id # new.id
    BY <1>a DEF Holding
  <2> HIDE DEF new
  <2> QED
    BY <2>3, <2>4, <2>5, <2>6, <2>7, ReplaceSafe
<1>2. CASE InsertLine(r)
  <2> PICK l \in LineIds : FreshId(l) /\ Continue(r, [t EXCEPT !.pc = "total", !.id = l])
    BY <1>2 DEF InsertLine
  <2> DEFINE new == Holding(t.op, t.claim, "total", t.ent, t.base, l,
                           t.row, t.old, t.fresh)
  <2>1. t.pc = "insert" /\ t.op = "addLine"
    BY <1>0, <1>2 DEF InsertLine, OpAt, LineInHand
  <2>2. [t EXCEPT !.pc = "total", !.id = l] = new
    BY <1>0, UpdateId
  <2>3. tx' = [tx EXCEPT ![r] = new] /\ UNCHANGED <<claim, line, audit, lost>>
    BY <1>2, <2>1, <2>2 DEF InsertLine, Continue
  <2>8. line[l].claim = None /\ \A q \in Requests : tx[q].id # l
    BY DEF FreshId
  <2>4. OwnLine(new)
    BY <1>0, <2>1, <2>8 DEF OwnLine, Holding, FreshId
  <2>5. UpToDate(new) /\ Started(new)
    BY <1>0, <2>1 DEF UpToDate, Started, Holding, LineOps
  <2>6. ~PastBlock(new)
    BY <2>1 DEF PastBlock, Holding
  <2>7. \A q \in Requests \ {r} :
            /\ new.op = "addLine" /\ new.id # 0 => new.id # tx[q].id
            /\ tx[q].op = "addLine" /\ tx[q].id # 0 => tx[q].id # new.id
    BY <2>8 DEF Holding
  <2> HIDE DEF new
  <2> QED
    BY <2>3, <2>4, <2>5, <2>6, <2>7, ReplaceSafe
<1>3. CASE FindLine(r) /\ t.op = "updateLine"
  <2> DEFINE new == Holding(t.op, t.claim, "lineLoad", t.ent, t.base, t.id,
                           [line[t.id] EXCEPT !.item = t.row.item], t.old, t.fresh)
  <2>1. t.pc = "find" /\ t.op = "updateLine" /\ t.id \in LineIds /\ line[t.id] \in LineType
    BY <1>0, <1>3 DEF FindLine, OpAt, LineInHand
  <2>2. [t EXCEPT !.pc = "lineLoad", !.row = [line[t.id] EXCEPT !.item = t.row.item]] = new
    BY <1>0, UpdateRow
  <2>3. tx' = [tx EXCEPT ![r] = new] /\ UNCHANGED <<claim, line, audit, lost>>
    BY <1>3, <2>1, <2>2 DEF FindLine, Continue
  <2>8. t.id # 0 /\ [line[t.id] EXCEPT !.item = t.row.item].claim = t.claim
    BY <1>3, <2>1 DEF FindLine, LineType, LineIds
  <2>4. OwnLine(new)
    BY <1>0, <2>1, <2>8 DEF OwnLine, Holding
  <2>5. UpToDate(new) /\ Started(new)
    BY <1>0, <2>1 DEF UpToDate, Started, Holding, LineOps
  <2>6. ~PastBlock(new)
    BY <2>1 DEF PastBlock, Holding
  <2>7. \A q \in Requests \ {r} :
            /\ new.op = "addLine" /\ new.id # 0 => new.id # tx[q].id
            /\ tx[q].op = "addLine" /\ tx[q].id # 0 => tx[q].id # new.id
    BY <1>a DEF Holding
  <2> HIDE DEF new
  <2> QED
    BY <2>3, <2>4, <2>5, <2>6, <2>7, ReplaceSafe
<1>4. CASE FindLine(r) /\ t.op # "updateLine"
  <2> DEFINE new == Holding(t.op, t.claim, "remove", t.ent, t.base, t.id,
                           t.row, t.old, t.fresh)
  <2>1. t.pc = "find" /\ t.op = "deleteLine"
    BY <1>0, <1>4 DEF FindLine, OpAt, LineInHand
  <2>2. [t EXCEPT !.pc = "remove"] = new
    BY <1>0, UpdatePc
  <2>3. tx' = [tx EXCEPT ![r] = new] /\ UNCHANGED <<claim, line, audit, lost>>
    BY <1>4, <2>1, <2>2 DEF FindLine, Continue
  <2>4. OwnLine(new)
    BY <1>0, <2>1 DEF OwnLine, Holding
  <2>5. UpToDate(new) /\ Started(new)
    BY <1>0, <2>1 DEF UpToDate, Started, Holding, LineOps
  <2>6. ~PastBlock(new)
    BY <2>1 DEF PastBlock, Holding
  <2>7. \A q \in Requests \ {r} :
            /\ new.op = "addLine" /\ new.id # 0 => new.id # tx[q].id
            /\ tx[q].op = "addLine" /\ tx[q].id # 0 => tx[q].id # new.id
    BY <1>a DEF Holding
  <2> HIDE DEF new
  <2> QED
    BY <2>3, <2>4, <2>5, <2>6, <2>7, ReplaceSafe
<1>5. CASE LoadLine(r)
  <2> DEFINE new == Holding(t.op, t.claim, "lineSave", t.ent, t.base, t.id,
                           t.row, line[t.id], t.fresh)
  <2>1. t.pc = "lineLoad" /\ t.op = "updateLine"
    BY <1>0, <1>5 DEF LoadLine, OpAt, LineInHand
  <2>2. [t EXCEPT !.pc = "lineSave", !.old = line[t.id]] = new
    BY <1>0, UpdateOld
  <2>3. tx' = [tx EXCEPT ![r] = new] /\ UNCHANGED <<claim, line, audit, lost>>
    BY <1>5, <2>1, <2>2 DEF LoadLine, Continue
  <2>4. OwnLine(new)
    BY <1>0, <2>1 DEF OwnLine, Holding
  <2>5. UpToDate(new) /\ Started(new)
    BY <1>0, <2>1 DEF UpToDate, Started, Holding, LineOps
  <2>6. ~PastBlock(new)
    BY <2>1 DEF PastBlock, Holding
  <2>7. \A q \in Requests \ {r} :
            /\ new.op = "addLine" /\ new.id # 0 => new.id # tx[q].id
            /\ tx[q].op = "addLine" /\ tx[q].id # 0 => tx[q].id # new.id
    BY <1>a DEF Holding
  <2> HIDE DEF new
  <2> QED
    BY <2>3, <2>4, <2>5, <2>6, <2>7, ReplaceSafe
<1>6. CASE SaveLine(r)
  <2> DEFINE new == Holding(t.op, t.claim, "total", t.ent, t.base, (IF t.row = t.old THEN 0 ELSE t.id),
                           SaveOver(line[t.id], t.row, t.old), NoRow, t.fresh)
  <2>1. t.pc = "lineSave" /\ t.op = "updateLine" /\ line[t.id] \in LineType /\ t.row \in LineType /\ t.id \in LineIds
    BY <1>0, <1>6 DEF SaveLine, OpAt, LineInHand
  <2>2. [t EXCEPT !.pc = "total", !.row = SaveOver(line[t.id], t.row, t.old),
                      !.old = NoRow, !.id = IF t.row = t.old THEN 0 ELSE t.id] = new
    <3>1. \A row, id :
            [t EXCEPT !.pc = "total", !.row = row, !.old = NoRow, !.id = id]
              = Holding(t.op, t.claim, "total", t.ent, t.base, id, row, NoRow, t.fresh)
      <4>1. IsTx(t)
        BY <1>0
      <4>2. \A pc, row, old, id :
              [t EXCEPT !.pc = pc, !.row = row, !.old = old, !.id = id]
                = Holding(t.op, t.claim, pc, t.ent, t.base, id, row, old, t.fresh)
        BY <4>1, UpdateAll
      <4> QED
        BY <4>2
    <3> QED
      BY <3>1
  <2>3. tx' = [tx EXCEPT ![r] = new] /\ UNCHANGED <<claim, line, audit, lost>>
    BY <1>6, <2>1, <2>2 DEF SaveLine, Continue
  <2>8. SaveOver(line[t.id], t.row, t.old).claim = t.claim
    BY <1>0, <2>1 DEF SaveOver, LineType, OwnLine, LineIds
  <2>4. OwnLine(new)
    BY <1>0, <2>1, <2>8 DEF OwnLine, Holding
  <2>5. UpToDate(new) /\ Started(new)
    BY <1>0, <2>1 DEF UpToDate, Started, Holding, LineOps
  <2>6. ~PastBlock(new)
    BY <2>1 DEF PastBlock, Holding
  <2>7. \A q \in Requests \ {r} :
            /\ new.op = "addLine" /\ new.id # 0 => new.id # tx[q].id
            /\ tx[q].op = "addLine" /\ tx[q].id # 0 => tx[q].id # new.id
    BY <1>a, <2>1 DEF Holding
  <2> HIDE DEF new
  <2> QED
    BY <2>3, <2>4, <2>5, <2>6, <2>7, ReplaceSafe
<1>7. CASE RemoveLine(r)
  <2> DEFINE new == Holding(t.op, t.claim, "total", t.ent, t.base, t.id,
                           [line[t.id] EXCEPT !.live = FALSE], t.old, t.fresh)
  <2>1. t.pc = "remove" /\ t.op = "deleteLine" /\ t.id \in LineIds /\ line[t.id] \in LineType
    BY <1>0, <1>7 DEF RemoveLine, OpAt, LineInHand
  <2>2. [t EXCEPT !.pc = "total", !.row = [line[t.id] EXCEPT !.live = FALSE]] = new
    BY <1>0, UpdateRow
  <2>3. tx' = [tx EXCEPT ![r] = new] /\ UNCHANGED <<claim, line, audit, lost>>
    BY <1>7, <2>1, <2>2 DEF RemoveLine, Continue
  <2>8. [line[t.id] EXCEPT !.live = FALSE].claim = t.claim
    BY <1>0, <2>1 DEF LineType, LineIds, OwnLine
  <2>4. OwnLine(new)
    BY <1>0, <2>1, <2>8 DEF OwnLine, Holding
  <2>5. UpToDate(new) /\ Started(new)
    BY <1>0, <2>1 DEF UpToDate, Started, Holding, LineOps
  <2>6. ~PastBlock(new)
    BY <2>1 DEF PastBlock, Holding
  <2>7. \A q \in Requests \ {r} :
            /\ new.op = "addLine" /\ new.id # 0 => new.id # tx[q].id
            /\ tx[q].op = "addLine" /\ tx[q].id # 0 => tx[q].id # new.id
    BY <1>a DEF Holding
  <2> HIDE DEF new
  <2> QED
    BY <2>3, <2>4, <2>5, <2>6, <2>7, ReplaceSafe
<1>8. CASE validateForSubmit(r)
  <2> DEFINE new == Holding(t.op, t.claim, "total", t.ent, t.base, t.id,
                           t.row, t.old, t.fresh)
  <2>1. t.pc = "validate" /\ t.op = "submit"
    BY <1>0, <1>8 DEF validateForSubmit, OpAt, LineInHand
  <2>2. [t EXCEPT !.pc = "total"] = new
    BY <1>0, UpdatePc
  <2>3. tx' = [tx EXCEPT ![r] = new] /\ UNCHANGED <<claim, line, audit, lost>>
    BY <1>8, <2>1, <2>2 DEF validateForSubmit, Continue
  <2>8. /\ Submittable(t.claim)
        /\ \A l \in CommittedLines(t.claim) : ~HasDuplicate(r, l)
    <3>1. ~Holds(t)
      BY <2>1 DEF Holds
    <3>2. /\ LiveLines(r, t.claim) = CommittedLines(t.claim)
          /\ SumOf(r, t.claim) = CommittedSum(t.claim)
      BY <3>1, SeenIsLive, SeenIsCommitted
    <3> QED
      BY <1>8, <3>2 DEF validateForSubmit, Submittable
  <2>4. OwnLine(new)
    BY <1>0, <2>1 DEF OwnLine, Holding
  <2>5. UpToDate(new) /\ Started(new)
    BY <1>0, <2>1, <2>8 DEF UpToDate, Started, Holding, LineOps
  <2>6. \A l \in CommittedLines(new.claim) : ~HasDuplicate(r, l)
    BY <2>8 DEF Holding
  <2>7. \A q \in Requests \ {r} :
            /\ new.op = "addLine" /\ new.id # 0 => new.id # tx[q].id
            /\ tx[q].op = "addLine" /\ tx[q].id # 0 => tx[q].id # new.id
    BY <1>a DEF Holding
  <2> HIDE DEF new
  <2> QED
    BY <2>3, <2>4, <2>5, <2>6, <2>7, ReplaceSafe
<1>9. CASE recomputeTotal(r)
  <2> DEFINE new == Holding(t.op, t.claim, "load", [t.ent EXCEPT !.total = SumOf(r, t.claim)], t.base, t.id,
                           t.row, t.old, t.fresh)
  <2>1. t.pc = "total" /\ t.op \in LineOps \cup {"submit"}
    BY <1>0, <1>9 DEF recomputeTotal, OpAt, LineInHand
  <2>2. [t EXCEPT !.pc = "load", !.ent.total = SumOf(r, t.claim)] = new
    BY <1>0, UpdateTotal
  <2>3. tx' = [tx EXCEPT ![r] = new] /\ UNCHANGED <<claim, line, audit, lost>>
    BY <1>9, <2>1, <2>2 DEF recomputeTotal, Continue
  <2>8. SumSeen(new) = SumSeen(t)
    <3>1. Holds(new) <=> Holds(t)
      BY <2>1 DEF Holds, Holding
    <3>2. new.id = t.id /\ new.row = t.row /\ new.claim = t.claim
      BY DEF Holding
    <3> HIDE DEF new
    <3> QED
      BY <3>1, <3>2, SeenSame
  <2>9. SumOf(r, t.claim) = SumSeen(t)
    BY SeenIsLive
  <2>10. /\ [t.ent EXCEPT !.total = SumOf(r, t.claim)].total = SumOf(r, t.claim)
         /\ [t.ent EXCEPT !.total = SumOf(r, t.claim)].status = t.ent.status
         /\ [t.ent EXCEPT !.total = SumOf(r, t.claim)].paid = t.ent.paid
    BY <1>b
  <2>4. OwnLine(new)
    BY <1>0, <2>1 DEF OwnLine, Holding
  <2>5. UpToDate(new) /\ Started(new)
    BY <1>0, <2>1, <2>8, <2>9, <2>10 DEF UpToDate, Started, Holding, LineOps
  <2>6. PastBlock(new) => PastBlock(t) /\ t.claim = new.claim
    BY <2>1 DEF PastBlock, Holding
  <2>7. \A q \in Requests \ {r} :
            /\ new.op = "addLine" /\ new.id # 0 => new.id # tx[q].id
            /\ tx[q].op = "addLine" /\ tx[q].id # 0 => tx[q].id # new.id
    BY <1>a DEF Holding
  <2> HIDE DEF new
  <2> QED
    BY <2>3, <2>4, <2>5, <2>6, <2>7, ReplaceSafe
<1>10. CASE LoadClaim(r)
  <2> DEFINE new == Holding(t.op, t.claim, "save", t.ent, claim[t.claim], t.id,
                           t.row, t.old, t.fresh)
  <2>1. t.pc = "load" /\ t.op \in EmployeeOps
    BY <1>0, <1>10 DEF LoadClaim, OpAt, LineInHand
  <2>2. [t EXCEPT !.pc = "save", !.base = claim[t.claim]] = new
    BY <1>0, UpdateBase
  <2>3. tx' = [tx EXCEPT ![r] = new] /\ UNCHANGED <<claim, line, audit, lost>>
    BY <1>10, <2>1, <2>2 DEF LoadClaim, Continue
  <2>8. SumSeen(new) = SumSeen(t)
    <3>1. Holds(new) <=> Holds(t)
      BY <2>1 DEF Holds, Holding
    <3>2. new.id = t.id /\ new.row = t.row /\ new.claim = t.claim
      BY DEF Holding
    <3> HIDE DEF new
    <3> QED
      BY <3>1, <3>2, SeenSame
  <2>4. OwnLine(new)
    BY <1>0, <2>1 DEF OwnLine, Holding
  <2>5. UpToDate(new) /\ Started(new)
    BY <1>0, <2>1, <2>8 DEF UpToDate, Started, Holding, LineOps
  <2>6. PastBlock(new) => PastBlock(t) /\ t.claim = new.claim
    BY <2>1 DEF PastBlock, Holding
  <2>7. \A q \in Requests \ {r} :
            /\ new.op = "addLine" /\ new.id # 0 => new.id # tx[q].id
            /\ tx[q].op = "addLine" /\ tx[q].id # 0 => tx[q].id # new.id
    BY <1>a DEF Holding
  <2> HIDE DEF new
  <2> QED
    BY <2>3, <2>4, <2>5, <2>6, <2>7, ReplaceSafe
<1>11. CASE SaveTotalOnSubmit(r) /\ t.ent = t.base
  <2> DEFINE sub == [t.ent EXCEPT !.status = "PENDING_MANAGER"]
             new == Holding(t.op, t.claim, "load", sub, t.base, t.id, t.row, t.old, t.fresh)
  <2>1. t.pc = "save" /\ t.op = "submit"
    BY <1>11 DEF SaveTotalOnSubmit
  <2>2. [t EXCEPT !.pc = "load", !.ent = sub] = new
    <3> HIDE DEF sub
    <3> QED
      BY <1>0, UpdateEnt
  <2>3. tx' = [tx EXCEPT ![r] = new] /\ UNCHANGED <<claim, line, audit, lost>>
    BY <1>11, <2>2 DEF SaveTotalOnSubmit, Continue
  <2>8. sub.total = t.ent.total /\ sub.status = "PENDING_MANAGER" /\ sub.paid = t.ent.paid
    BY <1>b
  <2> HIDE DEF sub
  <2>9. SumSeen(new) = SumSeen(t)
    <3>1. Holds(new) <=> Holds(t)
      BY <2>1 DEF Holds, Holding
    <3>2. new.id = t.id /\ new.row = t.row /\ new.claim = t.claim
      BY DEF Holding
    <3> HIDE DEF new
    <3> QED
      BY <3>1, <3>2, SeenSame
  <2>4. OwnLine(new)
    BY <1>0, <2>1 DEF OwnLine, Holding
  <2>5. UpToDate(new) /\ Started(new)
    BY <1>0, <2>1, <2>8, <2>9 DEF UpToDate, Started, Holding, LineOps
  <2>6. PastBlock(new) => PastBlock(t) /\ t.claim = new.claim
    BY <2>1 DEF PastBlock, Holding
  <2>7. \A q \in Requests \ {r} :
            /\ new.op = "addLine" /\ new.id # 0 => new.id # tx[q].id
            /\ tx[q].op = "addLine" /\ tx[q].id # 0 => tx[q].id # new.id
    BY <1>a DEF Holding
  <2> HIDE DEF new
  <2> QED
    BY <2>3, <2>4, <2>5, <2>6, <2>7, ReplaceSafe
<1> QED
  BY <1>1, <1>2, <1>3, <1>4, <1>5, <1>6, <1>7, <1>8, <1>9, <1>10, <1>11

LEMMA FailSafe ==
  ASSUME IInv, SInv, NEW r \in Requests, Fail(r)
  PROVE  SInv'
<1>1. OwnLine(NoTx) /\ UpToDate(NoTx) /\ Started(NoTx) /\ ~PastBlock(NoTx)
      /\ NoTx.id = 0 /\ NoTx.op # "addLine"
  BY DEF NoTx, OwnLine, UpToDate, Started, PastBlock
<1> QED
  BY <1>1, ReplaceSafe DEF Fail

(* What a claim must be after a commit, unless a stale request reached it. *)
SoundAfter(r, c, new, to) ==
    /\ ~lost[c]
    /\ new.total = CommittedSum(c)'
    /\ new.status \in {"PENDING_MANAGER", "PENDING_FINANCE", "APPROVED", "PAID"} => Submittable(c)'
    /\ new.status \in {"PENDING_MANAGER", "PENDING_FINANCE", "APPROVED"} => Passed(c) /\ line' = line
    /\ to = new.status
    /\ new.paid = (new.status = "PAID")
    /\ IF new.status = "PAID"
       THEN tx[r].op = "markPaid" /\ audit[c].markedPaid = 0
       ELSE tx[r].op # "markPaid" /\ audit[c].markedPaid = 0

LEMMA CommitSafe ==
  ASSUME IInv, SInv, NEW r \in Requests, NEW c, c = tx[r].claim, NEW new, NEW to,
         tx[r].pc \in {"save", "decide"}, Commit(r, new, to), new.status # "NONE",
         lost' \in [Claims -> BOOLEAN],
         \A d \in Claims \ {c} : lost'[d] = lost[d],
         ~lost'[c] => SoundAfter(r, c, new, to)
  PROVE  SInv'
<1>0. /\ c \in Claims /\ IsTx(tx[r]) /\ InHand(tx[r]) /\ OwnLine(tx[r])
      /\ \A q \in Requests : OwnLine(tx[q]) /\ \A p \in Requests \ {q} : Apart(p, q)
      /\ \A q \in Requests : /\ UpToDate(tx[q]) /\ Started(tx[q]) /\ IsTx(tx[q])
                             /\ tx[q].pc # "idle" => tx[q].claim \in Claims
      /\ line \in [LineIds -> LineType \cup {NoRow}]
      /\ HoldsLine(r) => tx[r].id \in LineIds
  BY DEF IInv, TypeOK, TxInv, IsTx, SInv, Lines, Fresh, HoldsLine
<1>1. /\ \A d \in Claims : claim'[d] = IF d = c THEN new ELSE claim[d]
      /\ \A d \in Claims \ {c} : audit'[d] = audit[d]
      /\ \A l \in LineIds : line'[l] = IF HoldsLine(r) /\ l = tx[r].id THEN tx[r].row ELSE line[l]
      /\ HoldsLine(r) => /\ tx[r].row.claim = c
                         /\ tx[r].op = "addLine" => line[tx[r].id].claim = None
                         /\ tx[r].op # "addLine" => line[tx[r].id].claim = c
  BY <1>0 DEF Commit, IInv, TypeOK, HoldsLine, OwnLine, LineOps
<1>2. \A q \in Requests :
        \/ tx'[q] = NoTx
        \/ /\ q # r /\ tx[q].claim = c /\ ~tx'[q].fresh
           /\ tx'[q].op = tx[q].op /\ tx'[q].claim = tx[q].claim /\ tx'[q].pc = tx[q].pc
           /\ tx'[q].id = tx[q].id /\ tx'[q].row = tx[q].row
        \/ q # r /\ tx[q].claim # c /\ tx'[q] = tx[q]
  <2> SUFFICES ASSUME NEW q \in Requests, NEW s, s = Ended(r)[q]
               PROVE  \/ s = NoTx
                      \/ /\ q # r /\ tx[q].claim = c /\ ~s.fresh
                         /\ s.op = tx[q].op /\ s.claim = tx[q].claim /\ s.pc = tx[q].pc
                         /\ s.id = tx[q].id /\ s.row = tx[q].row
                      \/ q # r /\ tx[q].claim # c /\ s = tx[q]
    BY DEF Commit
  <2>1. CASE q = r
    BY <2>1 DEF Ended
  <2>2. CASE q # r /\ tx[q].claim # c
    BY <2>2 DEF Ended
  <2>3. CASE q # r /\ tx[q].claim = c
    <3>1. s = [tx[q] EXCEPT !.fresh = FALSE]
      BY <2>3 DEF Ended
    <3>2. tx[q] = Holding(tx[q].op, tx[q].claim, tx[q].pc, tx[q].ent, tx[q].base,
                          tx[q].id, tx[q].row, tx[q].old, tx[q].fresh)
      BY <1>0 DEF IsTx, Holding
    <3>3. /\ s.op = tx[q].op /\ s.claim = tx[q].claim /\ s.pc = tx[q].pc /\ s.id = tx[q].id
          /\ s.row = tx[q].row /\ s.fresh = FALSE
      BY <3>1, <3>2 DEF Holding
    <3> QED
      BY <2>3, <3>3
  <2> QED
    BY <2>1, <2>2, <2>3
<1>3. \A d \in Claims \ {c} :
        /\ CommittedLines(d)' = CommittedLines(d)
        /\ \A l \in CommittedLines(d) : line'[l] = line[l]
        /\ CommittedSum(d)' = CommittedSum(d)
        /\ Submittable(d)' <=> Submittable(d)
  <2> SUFFICES ASSUME NEW d \in Claims \ {c}
               PROVE  /\ CommittedLines(d)' = CommittedLines(d)
                      /\ \A l \in CommittedLines(d) : line'[l] = line[l]
    BY CommittedSame
  <2>1. \A l \in LineIds : line[l].claim = d \/ line'[l].claim = d => line'[l] = line[l]
    BY <1>1, ConstantsAssumption
  <2> QED
    BY <2>1 DEF CommittedLines
<1>4. Lines'
  <2> SUFFICES ASSUME NEW q \in Requests
               PROVE  OwnLine(tx[q])' /\ \A p \in Requests \ {q} : Apart(p, q)'
    BY DEF Lines
  <2>1. \A p \in Requests : tx'[p] = NoTx \/
            (/\ tx'[p].op = tx[p].op /\ tx'[p].claim = tx[p].claim /\ tx'[p].pc = tx[p].pc
             /\ tx'[p].id = tx[p].id /\ tx'[p].row = tx[p].row /\ p # r)
    BY <1>2
  <2>2. OwnLine(tx[q])'
    <3>1. CASE tx'[q] = NoTx
      BY <3>1 DEF OwnLine, NoTx
    <3>2. CASE tx'[q] # NoTx
      <4>1. /\ OwnLine(tx[q]) /\ q # r /\ Apart(q, r) /\ Apart(r, q)
            /\ tx'[q].op = tx[q].op /\ tx'[q].claim = tx[q].claim /\ tx'[q].pc = tx[q].pc
            /\ tx'[q].id = tx[q].id /\ tx'[q].row = tx[q].row
            /\ tx[q].id \in LineIds \cup {0}
        BY <1>0, <2>1, <3>2 DEF IsTx
      <4>2. tx[q].op \in {"updateLine", "deleteLine"} /\ tx[q].id # 0 =>
                line'[tx[q].id].claim = tx[q].claim
        BY <1>0, <1>1, <4>1 DEF OwnLine, Apart, HoldsLine
      <4>3. tx[q].op = "addLine" /\ tx[q].id # 0 => line'[tx[q].id].claim = None
        BY <1>0, <1>1, <4>1 DEF OwnLine, Apart, HoldsLine
      <4> QED
        BY <4>1, <4>2, <4>3 DEF OwnLine
    <3> QED
      BY <3>1, <3>2
  <2>3. \A p \in Requests \ {q} : Apart(p, q)'
    BY <1>0, <2>1 DEF Apart, NoTx
  <2> QED
    BY <2>2, <2>3
<1>5. Fresh'
  <2> SUFFICES ASSUME NEW q \in Requests PROVE UpToDate(tx[q])' /\ Started(tx[q])'
    BY DEF Fresh
  <2>1. CASE tx'[q] = NoTx
    BY <2>1 DEF NoTx, UpToDate, Started
  <2>2. CASE tx'[q] # NoTx /\ tx[q].claim = c
    BY <1>0, <1>1, <1>2, <2>2 DEF UpToDate, Started
  <2>3. CASE tx'[q] # NoTx /\ tx[q].claim # c
    <3>1. PICK t : t = tx[q] /\ t = tx'[q]
      BY <1>2, <2>3
    <3>2. CASE t.pc = "idle"
      BY <3>1, <3>2 DEF UpToDate, Started
    <3>3. CASE t.pc # "idle"
      <4>1. t.claim \in Claims \ {c} /\ UpToDate(t) /\ Started(t)
        BY <1>0, <2>3, <3>1, <3>3
      <4>2. claim'[t.claim] = claim[t.claim] /\ (Submittable(t.claim)' <=> Submittable(t.claim))
        BY <1>1, <1>3, <4>1
      <4>3. SumSeen(t)' = SumSeen(t)
        <5>1. \A l \in LineIds : line[l].claim = t.claim \/ line'[l].claim = t.claim
                                    => line'[l] = line[l]
          BY <1>1, <4>1, ConstantsAssumption
        <5>2. \A l \in LineIds : View(t, l)'.claim = t.claim \/ View(t, l).claim = t.claim
                                    => View(t, l)' = View(t, l)
          BY <5>1 DEF View, Holds
        <5>3. Seen(t)' = Seen(t) /\ \A l \in Seen(t) : View(t, l)' = View(t, l)
          BY <5>2 DEF Seen
        <5> QED
          BY <5>3, SeenAgain
      <4>4. UpToDate(t)' /\ Started(t)'
        BY <4>1, <4>2, <4>3 DEF UpToDate, Started
      <4> QED
        BY <3>1, <4>4 DEF UpToDate, Started, SumSeen, Seen, View, Holds
    <3> QED
      BY <3>2, <3>3
  <2> QED
    BY <2>1, <2>2, <2>3
<1>6. Sounds'
  <2> SUFFICES ASSUME NEW d \in Claims, ~lost'[d]
               PROVE  /\ claim'[d].total = CommittedSum(d)'
                      /\ UnderReview(d)' => Submittable(d)'
                      /\ audit'[d].to = claim'[d].status
                      /\ claim'[d].paid = (claim'[d].status = "PAID")
                      /\ audit'[d].markedPaid = IF claim'[d].status = "PAID" THEN 1 ELSE 0
    BY DEF Sounds, Sound
  <2>1. CASE d # c
    <3>1. Sound(d) /\ ~lost[d]
      BY <2>1 DEF SInv, Sounds
    <3> QED
      BY <1>1, <1>3, <2>1, <3>1 DEF Sound, UnderReview
  <2>2. CASE d = c
    <3>1. SoundAfter(r, c, new, to) /\ claim'[c] = new
      BY <1>0, <1>1, <2>2
    <3>2. /\ audit'[c].to = to
          /\ audit'[c].markedPaid
               = audit[c].markedPaid + IF tx[r].op = "markPaid" THEN 1 ELSE 0
      <4>1. /\ audit[c] = [to |-> audit[c].to, submitted |-> audit[c].submitted,
                           managerApproved |-> audit[c].managerApproved,
                           financeApproved |-> audit[c].financeApproved,
                           markedPaid |-> audit[c].markedPaid]
            /\ audit[c].markedPaid \in Nat
        BY <1>0 DEF IInv, TypeOK, AuditType
      <4>2. ASSUME NEW s, s = Logged(audit[c], tx[r].op, to)
            PROVE  /\ s.to = to
                   /\ s.markedPaid = IF tx[r].op = "markPaid" THEN audit[c].markedPaid + 1
                                                             ELSE audit[c].markedPaid
        BY <4>1, <4>2 DEF Logged
      <4>3. audit'[c] = Logged(audit[c], tx[r].op, to)
        BY <1>0 DEF Commit, IInv, TypeOK
      <4> QED
        BY <4>1, <4>2, <4>3
    <3> QED
      BY <2>2, <3>1, <3>2 DEF SoundAfter, UnderReview
  <2> QED
    BY <2>1, <2>2
<1>7. NoRepeat'
  <2> SUFFICES ASSUME NEW k \in LineIds, NEW l \in LineIds, Repeated(k, l)',
                      Passed(line[k].claim)', Passed(line[l].claim)'
               PROVE  FALSE
    BY DEF NoRepeat
  <2>1. \A x \in LineIds : line'[x] \in LineType \cup {NoRow}
    <3>1. HoldsLine(r) => tx[r].row \in LineType
      BY <1>0 DEF HoldsLine, InHand, LineInHand
    <3> QED
      BY <1>0, <1>1, <3>1
  <2>2. ASSUME NEW x \in LineIds, line'[x].live, Passed(line[x].claim)'
        PROVE  line'[x] = line[x] /\ Passed(line[x].claim)
    <3>1. line'[x].claim \in Claims
      BY <2>1, <2>2 DEF LineType, NoRow
    <3>2. PICK d : d = line'[x].claim
      OBVIOUS
    <3>3. Passed(d)'
      BY <2>2, <3>2 DEF Passed
    <3>4. CASE d = c
      <4>1. ~lost'[c] /\ new.status \in {"PENDING_MANAGER", "PENDING_FINANCE", "APPROVED"}
        BY <1>0, <1>1, <1>2, <3>3, <3>4 DEF Passed, NoTx
      <4> QED
        BY <3>2, <3>4, <4>1 DEF SoundAfter
    <3>5. CASE d # c
      <4>1. d \in Claims \ {c} /\ claim'[d] = claim[d] /\ lost'[d] = lost[d]
        BY <1>1, <3>1, <3>2, <3>5
      <4>2. line'[x] = line[x]
        BY <1>1, <3>2, <4>1
      <4>3. \A q \in Requests : tx'[q].op = "submit" /\ tx'[q].fresh /\ tx'[q].claim = d
                                    => tx'[q] = tx[q]
        BY <1>2, <4>1 DEF NoTx
      <4>4. Passed(d)
        <5>1. CASE claim'[d].status \in {"PENDING_MANAGER", "PENDING_FINANCE", "APPROVED"}
          BY <3>3, <4>1, <5>1 DEF Passed
        <5>2. CASE \E q \in Requests :
                     /\ tx'[q].op = "submit" /\ tx'[q].pc \in {"total", "load", "save"}
                     /\ tx'[q].fresh /\ tx'[q].claim = d
          BY <3>3, <4>1, <4>3, <5>2 DEF Passed
        <5> QED
          BY <3>3, <5>1, <5>2 DEF Passed
      <4> QED
        BY <3>2, <4>2, <4>4
    <3> QED
      BY <3>4, <3>5
  <2>3. /\ line'[k] = line[k] /\ Passed(line[k].claim)
        /\ line'[l] = line[l] /\ Passed(line[l].claim)
    BY <2>2 DEF Repeated
  <2>4. Repeated(k, l)
    BY <2>3 DEF Repeated
  <2> QED
    BY <2>3, <2>4 DEF SInv, NoRepeat
<1> QED
  BY <1>4, <1>5, <1>6, <1>7 DEF SInv

(* Amounts add up to naturals, and to no less than any of them.            *)
LEMMA SumOfRows ==
  ASSUME NEW rows \in [LineIds -> LineType \cup {NoRow}], NEW c \in Claims,
         NEW live, live = {l \in LineIds : rows[l].claim = c /\ rows[l].live},
         NEW sum, sum = SumFunction([l \in live |-> AmountOf[rows[l].item]])
  PROVE  /\ sum \in Nat
         /\ live # {} => sum >= 1
<1> DEFINE amounts == [l \in live |-> AmountOf[rows[l].item]]
<1>1. IsFiniteSet(live)
  <2>1. IsFiniteSet(LineIds) /\ live \subseteq LineIds
    BY FS_Interval, ConstantsAssumption DEF LineIds
  <2> QED
    BY <2>1, FS_Subset
<1>2. \A l \in live : amounts[l] \in Nat /\ amounts[l] >= 1
  <2> SUFFICES ASSUME NEW l \in live
               PROVE  AmountOf[rows[l].item] \in Nat /\ AmountOf[rows[l].item] >= 1
    OBVIOUS
  <2>1. rows[l].item \in Items
    BY ConstantsAssumption DEF LineType, NoRow
  <2> QED
    BY <2>1, ConstantsAssumption
<1>3. sum = SumFunctionOnSet(amounts, live)
  BY DEF SumFunction
<1> HIDE DEF amounts
<1>4. /\ SumFunctionOnSet(amounts, live) \in Nat
      /\ \A l \in live : amounts[l] <= SumFunctionOnSet(amounts, live)
  BY <1>1, <1>2, SumOfNaturals
<1> QED
  BY <1>2, <1>3, <1>4

LEMMA SumOfLines ==
  ASSUME NEW c \in Claims
  PROVE  /\ TypeOK => CommittedSum(c) \in Nat /\ (CommittedLines(c) # {} => CommittedSum(c) >= 1)
         /\ TypeOK' => CommittedSum(c)' \in Nat
<1>1. ASSUME TypeOK
      PROVE  CommittedSum(c) \in Nat /\ (CommittedLines(c) # {} => CommittedSum(c) >= 1)
  BY <1>1, SumOfRows DEF TypeOK, CommittedSum, CommittedLines
<1>2. ASSUME TypeOK' PROVE CommittedSum(c)' \in Nat
  BY <1>2, SumOfRows DEF TypeOK, CommittedSum, CommittedLines
<1> QED
  BY <1>1, <1>2

(* A line write that commits is what the request saw.                      *)
LEMMA CommitSeen ==
  ASSUME IInv, NEW r \in Requests, NEW c, c = tx[r].claim, NEW new, NEW to, Commit(r, new, to)
  PROVE  /\ CommittedLines(c)' = Seen(tx[r]) /\ CommittedSum(c)' = SumSeen(tx[r])
         /\ ~Holds(tx[r]) => line' = line
<1>1. \A l \in LineIds : line'[l] = View(tx[r], l)
  BY DEF Commit, View, HoldsLine, Holds, IInv, TypeOK
<1>2. CommittedLines(c)' = Seen(tx[r])
  BY <1>1 DEF CommittedLines, Seen
<1>3. [l \in CommittedLines(c)' |-> AmountOf[line'[l].item]]
        = [l \in Seen(tx[r]) |-> AmountOf[View(tx[r], l).item]]
  BY <1>1, <1>2 DEF Seen
<1>4. CommittedSum(c)' = SumSeen(tx[r])
  BY <1>3 DEF CommittedSum, SumSeen
<1>5. ~Holds(tx[r]) => line' = line
  BY DEF Commit, HoldsLine, Holds
<1> QED
  BY <1>2, <1>4, <1>5

(* Saving over the row that was loaded writes the entity as it is.         *)
LEMMA SaveIsEntity ==
  ASSUME NEW row, NEW ent, IsClaim(row), IsClaim(ent)
  PROVE  SaveOver(row, ent, row) = ent
<1>1. /\ row = [status |-> row.status, total |-> row.total, paid |-> row.paid]
      /\ ent = [status |-> ent.status, total |-> ent.total, paid |-> ent.paid]
  BY DEF IsClaim
<1>2. DOMAIN row = {"status", "total", "paid"}
  BY <1>1
<1>3. SaveOver(row, ent, row) = [col \in {"status", "total", "paid"} |-> ent[col]]
  BY <1>2 DEF SaveOver
<1> QED
  BY <1>1, <1>3

(* What a commit does to the claim: a stale request overwrites it; any     *)
(* other edits it, withdraws it, submits it or decides on it.              *)
Edits(c, new)     == /\ claim[c].status \in EDITABLE_STATUSES
                     /\ new.status = claim[c].status /\ new.total \in Nat
Withdraws(c, new) == /\ claim[c].status \in WithdrawableStatuses
                     /\ new.status = "WITHDRAWN" /\ new.total = claim[c].total
Submits(c, new)   == /\ claim[c].status \in EDITABLE_STATUSES
                     /\ new.status = "PENDING_MANAGER" /\ new.total = claim[c].total
                     /\ claim[c].total \in 1..MaxClaimAmount
Decides(c, new)   == \E op \in ReviewOps :
                        /\ claim[c].status = ExpectedStatus[op]
                        /\ new.status = TargetStatus[op] /\ new.total = claim[c].total
Effect(c, new) ==
    /\ claim[c].status # "NONE"
    /\ claim' = [claim EXCEPT ![c] = new]
    /\ \/ lost' = [lost EXCEPT ![c] = TRUE]
       \/ /\ ~lost[c] /\ lost' = lost
          /\ Edits(c, new) \/ Withdraws(c, new) \/ Submits(c, new) \/ Decides(c, new)

(* A decision.                                                             *)
LEMMA DecideSafe ==
  ASSUME IInv, SInv, NEW r \in Requests, Decide(r)
  PROVE  SInv' /\ \E c \in Claims : \E new : Effect(c, new)
<1> PICK c : c = tx[r].claim
  OBVIOUS
<1> PICK op : op = tx[r].op
  OBVIOUS
<1>1. /\ tx[r].pc = "decide" /\ op \in ReviewOps /\ c \in Claims
      /\ claim[c].status = ExpectedStatus[op] /\ lost' = lost
      /\ lost \in [Claims -> BOOLEAN] /\ IsClaim(claim[c])
  BY DEF Decide, DecideGuard, IInv, TypeOK, TxInv, InHand, OpAt, IsTx
<1>2. PICK new : /\ Commit(r, new, TargetStatus[op])
                 /\ new.status = TargetStatus[op] /\ new.total = claim[c].total
                 /\ new.paid = (claim[c].paid \/ op = "markPaid")
  <2>1. PICK new : new = [claim[c] EXCEPT !.status = TargetStatus[op],
                                          !.paid = @ \/ op = "markPaid"]
    OBVIOUS
  <2>2. Commit(r, new, TargetStatus[op])
    BY <1>1, <2>1 DEF Decide
  <2>3. /\ new.status = TargetStatus[op] /\ new.total = claim[c].total
        /\ new.paid = (claim[c].paid \/ op = "markPaid")
    BY <1>1, <2>1 DEF IsClaim
  <2> QED
    BY <2>2, <2>3
<1>3. ~Holds(tx[r])
  BY <1>1 DEF Holds
<1>4. line' = line
  BY <1>1, <1>2, <1>3, CommitSeen
<1>5. ~lost'[c] => SoundAfter(r, c, new, TargetStatus[op])
  <2> SUFFICES ASSUME ~lost[c] PROVE SoundAfter(r, c, new, TargetStatus[op])
    BY <1>1
  <2>1. Sound(c)
    BY <1>1 DEF SInv, Sounds
  <2>2. CommittedSum(c)' = CommittedSum(c) /\ (Submittable(c)' <=> Submittable(c))
    BY <1>4, LinesSame
  <2>3. op \in {"managerApprove", "financeApprove", "markPaid"} => Submittable(c)
    BY <1>1, <2>1 DEF Sound, UnderReview, ExpectedStatus
  <2>4. op \in {"managerApprove", "financeApprove"} => Passed(c)
    BY <1>1 DEF Passed, ExpectedStatus
  <2>5. \/ claim[c].status # "PAID" /\ new.status # "PAID"
        \/ op = "markPaid" /\ claim[c].status # "PAID"
    BY <1>1, <1>2 DEF ReviewOps, ExpectedStatus, TargetStatus
  <2>6. /\ audit[c].markedPaid = 0 /\ new.total = CommittedSum(c)'
        /\ new.paid = (op = "markPaid") /\ (new.status = "PAID") = (op = "markPaid")
    BY <1>1, <1>2, <2>1, <2>2, <2>5 DEF Sound, ReviewOps, ExpectedStatus, TargetStatus
  <2>7. /\ new.status \in {"PENDING_MANAGER", "PENDING_FINANCE", "APPROVED", "PAID"} => Submittable(c)'
        /\ new.status \in {"PENDING_MANAGER", "PENDING_FINANCE", "APPROVED"} => Passed(c)
    BY <1>1, <1>2, <2>2, <2>3, <2>4 DEF ReviewOps, ExpectedStatus, TargetStatus
  <2> QED
    BY <1>2, <1>4, <2>6, <2>7 DEF SoundAfter
<1>6. new.status # "NONE" /\ claim[c].status # "NONE"
  BY <1>1, <1>2 DEF ReviewOps, ExpectedStatus, TargetStatus
<1>7. SInv'
  <2>1. PICK to : to = TargetStatus[op]
    OBVIOUS
  <2>2. /\ tx[r].pc \in {"save", "decide"} /\ Commit(r, new, to) /\ new.status # "NONE"
        /\ lost' \in [Claims -> BOOLEAN] /\ \A d \in Claims \ {c} : lost'[d] = lost[d]
        /\ ~lost'[c] => SoundAfter(r, c, new, to)
    BY <1>1, <1>2, <1>5, <1>6, <2>1
  <2> QED
    BY <2>2, CommitSafe
<1>8. Effect(c, new)
  <2>1. claim' = [claim EXCEPT ![c] = new]
    BY <1>2 DEF Commit
  <2>2. CASE lost[c]
    BY <1>1, <1>6, <2>1, <2>2 DEF Effect
  <2>3. CASE ~lost[c]
    <3>1. Decides(c, new)
      BY <1>1, <1>2 DEF Decides
    <3> QED
      BY <1>1, <1>6, <2>1, <2>3, <3>1 DEF Effect
  <2> QED
    BY <2>2, <2>3
<1> QED
  BY <1>1, <1>7, <1>8

(* A save of the employee that is the last statement of its request.       *)
LastSave(r) ==
    \/ SaveClaim(r) \/ SaveStatusOnSubmit(r)
    \/ SaveTotalOnSubmit(r) /\ tx[r].ent # tx[r].base

LEMMA SaveSafe ==
  ASSUME IInv, SInv, NEW r \in Requests, LastSave(r)
  PROVE  SInv' /\ \E c \in Claims : \E new : Effect(c, new)
<1> PICK c : c = tx[r].claim
  OBVIOUS
<1> PICK t : t = tx[r]
  OBVIOUS
<1>1. /\ t.pc = "save" /\ t.op \in EmployeeOps /\ c \in Claims /\ c = t.claim
      /\ IsClaim(t.ent) /\ IsClaim(claim[c]) /\ lost \in [Claims -> BOOLEAN]
      /\ UpToDate(t) /\ Started(t) /\ StatusInHand(t)
  BY DEF LastSave, SaveClaim, SaveStatusOnSubmit, SaveTotalOnSubmit, IInv, TypeOK, TxInv, InHand,
     OpAt, IsTx, SInv, Fresh
<1>2. /\ t.ent.status # "NONE" /\ claim[c].status # "NONE"
      /\ t.op \in LineOps \cup {"updateDraft"} => t.ent.status \in EDITABLE_STATUSES
      /\ t.op = "withdraw" => t.ent.status = "WITHDRAWN"
  BY <1>1 DEF Started, StatusInHand, EDITABLE_STATUSES, EmployeeOps, LineOps
<1>3. PICK new, to :
        /\ Commit(r, new, to) /\ lost' = [lost EXCEPT ![c] = @ \/ ~t.fresh]
        /\ new.status # "NONE"
        /\ t.fresh /\ ~lost[c] => new = t.ent /\ to = t.ent.status
        /\ t.op = "submit" /\ t.fresh /\ ~lost[c] => new.status = "PENDING_MANAGER"
  <2>0. ASSUME NEW new, new = SaveOver(claim[c], t.ent, t.base)
        PROVE  /\ new.status \in {claim[c].status, t.ent.status}
               /\ t.fresh => new = t.ent
    <3>1. DOMAIN claim[c] = {"status", "total", "paid"}
      BY <1>1 DEF IsClaim
    <3>2. new.status \in {claim[c].status, t.ent.status}
      BY <2>0, <3>1 DEF SaveOver
    <3>3. t.fresh => t.base = claim[c]
      BY <1>1 DEF UpToDate
    <3> QED
      BY <1>1, <2>0, <3>2, <3>3, SaveIsEntity
  <2>1. CASE SaveClaim(r)
    <3>1. PICK new : new = SaveOver(claim[c], t.ent, t.base)
      OBVIOUS
    <3>2. /\ Commit(r, new, t.ent.status) /\ lost' = [lost EXCEPT ![c] = @ \/ ~t.fresh]
          /\ t.op # "submit"
      BY <1>1, <2>1, <3>1 DEF SaveClaim
    <3> QED
      BY <1>2, <2>0, <3>1, <3>2
  <2>2. CASE SaveStatusOnSubmit(r)
    <3>1. PICK new : new = SaveOver(claim[c], t.ent, t.base)
      OBVIOUS
    <3>2. /\ Commit(r, new, "PENDING_MANAGER") /\ lost' = [lost EXCEPT ![c] = @ \/ ~t.fresh]
          /\ t.ent.status = "PENDING_MANAGER"
      BY <1>1, <2>2, <3>1 DEF SaveStatusOnSubmit
    <3> QED
      BY <1>2, <2>0, <3>1, <3>2
  <2>3. CASE SaveTotalOnSubmit(r) /\ t.ent # t.base
    <3>1. PICK new : new = [t.ent EXCEPT !.status = "PENDING_MANAGER"]
      OBVIOUS
    <3>2. /\ Commit(r, new, "PENDING_MANAGER") /\ lost' = [lost EXCEPT ![c] = @ \/ ~t.fresh]
          /\ t.op = "submit" /\ t.ent.status # "PENDING_MANAGER"
      BY <1>1, <2>3, <3>1 DEF SaveTotalOnSubmit
    <3>3. new.status = "PENDING_MANAGER"
      BY <1>1, <3>1 DEF IsClaim
    <3>4. ~(t.fresh /\ ~lost[c])
      <4> SUFFICES ASSUME t.fresh, ~lost[c] PROVE FALSE
        OBVIOUS
      <4>1. /\ t.base = claim[c] /\ t.ent.paid = claim[c].paid
            /\ t.ent.status = claim[c].status /\ t.ent.total = SumSeen(t)
        BY <1>1, <3>2 DEF UpToDate
      <4>2. SumSeen(t) = CommittedSum(c)
        BY <1>1, <3>2, SeenIsCommitted DEF Holds, LineOps
      <4>3. claim[c].total = CommittedSum(c)
        BY <1>1 DEF SInv, Sounds, Sound
      <4> QED
        BY <1>1, <2>3, <4>1, <4>2, <4>3 DEF IsClaim
    <3> QED
      BY <3>2, <3>3, <3>4
  <2> QED
    BY <2>1, <2>2, <2>3 DEF LastSave
<1>4. /\ lost' \in [Claims -> BOOLEAN] /\ \A d \in Claims \ {c} : lost'[d] = lost[d]
      /\ lost'[c] = (lost[c] \/ ~t.fresh)
  BY <1>1, <1>3
<1>5. ASSUME ~lost'[c]
      PROVE  /\ SoundAfter(r, c, new, to) /\ ~lost[c] /\ lost' = lost
             /\ Edits(c, new) \/ Withdraws(c, new) \/ Submits(c, new)
  <2>0. t.fresh /\ ~lost[c] /\ lost' = lost
    BY <1>1, <1>3, <1>4, <1>5
  <2>1. /\ Sound(c) /\ new = t.ent /\ to = t.ent.status
        /\ t.op = "submit" => new.status = "PENDING_MANAGER"
    BY <1>1, <1>3, <2>0 DEF SInv, Sounds
  <2>2. /\ new.paid = claim[c].paid
        /\ t.op \in {"updateDraft", "withdraw"} => new.total = claim[c].total
        /\ t.op = "withdraw" => claim[c].status \in WithdrawableStatuses
        /\ t.op # "withdraw" => claim[c].status \in EDITABLE_STATUSES
        /\ t.op \in LineOps \cup {"updateDraft"} => new.status = claim[c].status
        /\ t.op \in LineOps \cup {"submit"} => new.total = SumSeen(t)
        /\ t.op = "submit" => Submittable(c)
    BY <1>1, <2>0, <2>1 DEF UpToDate
  <2>3. claim[c].status # "PAID" /\ new.status # "PAID" /\ t.op # "markPaid"
    BY <1>1, <1>2, <2>1, <2>2 DEF WithdrawableStatuses, EDITABLE_STATUSES, EmployeeOps, LineOps
  <2>4. CommittedSum(c)' = SumSeen(t) /\ (~Holds(t) => line' = line)
    BY <1>3, CommitSeen
  <2>5. t.op \notin LineOps => line' = line /\ SumSeen(t) = CommittedSum(c)
    BY <1>1, <2>4, SeenIsCommitted DEF Holds
  <2>6. new.total = CommittedSum(c)'
    BY <1>1, <2>0, <2>1, <2>2, <2>4, <2>5 DEF Sound, EmployeeOps, LineOps
  <2>7. new.status \in {"PENDING_MANAGER", "PENDING_FINANCE", "APPROVED", "PAID"} => t.op = "submit"
    BY <1>1, <1>2, <2>1 DEF EmployeeOps, EDITABLE_STATUSES
  <2>8. t.op = "submit" => /\ Passed(c) /\ line' = line /\ Submittable(c)'
                           /\ new.total = claim[c].total
    <3> SUFFICES ASSUME t.op = "submit" PROVE /\ Passed(c) /\ line' = line /\ Submittable(c)'
                                              /\ new.total = claim[c].total
      OBVIOUS
    <3>1. line' = line
      BY <2>5 DEF LineOps
    <3>2. Passed(c)
      BY <1>1, <2>0 DEF Passed
    <3>3. Submittable(c)'
      BY <2>2, <3>1, LinesSame
    <3>4. new.total = claim[c].total
      BY <2>0, <2>1, <2>2, <2>5 DEF Sound, LineOps
    <3> QED
      BY <3>1, <3>2, <3>3, <3>4
  <2>9. SoundAfter(r, c, new, to)
    BY <2>0, <2>1, <2>2, <2>3, <2>6, <2>7, <2>8 DEF SoundAfter, Sound
  <2>10. Edits(c, new) \/ Withdraws(c, new) \/ Submits(c, new)
    <3>1. CASE t.op \in LineOps \cup {"updateDraft"}
      <4>1. new.total \in Nat
        <5>1. TypeOK'
          BY SaveLegal DEF LastSave, IInv
        <5>2. CommittedSum(c)' \in Nat
          BY <1>1, <5>1, SumOfLines
        <5> QED
          BY <2>6, <5>2
      <4> QED
        BY <2>2, <3>1, <4>1 DEF Edits, LineOps
    <3>2. CASE t.op = "withdraw"
      BY <1>2, <2>1, <2>2, <3>2 DEF Withdraws
    <3>3. CASE t.op = "submit"
      <4>1. claim[c].total \in Nat /\ claim[c].total >= 1 /\ claim[c].total <= MaxClaimAmount
        BY <1>1, <2>0, <2>1, <2>2, <3>3, SumOfLines DEF Sound, Submittable, IInv
      <4>2. claim[c].total \in 1..MaxClaimAmount
        BY <4>1, ConstantsAssumption
      <4> QED
        BY <2>1, <2>2, <2>8, <3>3, <4>2 DEF Submits
    <3> QED
      BY <1>1, <3>1, <3>2, <3>3 DEF EmployeeOps
  <2> QED
    BY <2>0, <2>9, <2>10
<1>6. SInv'
  BY <1>1, <1>3, <1>4, <1>5, CommitSafe
<1>7. Effect(c, new)
  <2>1. claim' = [claim EXCEPT ![c] = new]
    BY <1>3 DEF Commit
  <2>2. CASE lost'[c]
    <3>1. lost' = [lost EXCEPT ![c] = TRUE]
      BY <1>1, <1>3, <1>4, <2>2
    <3> QED
      BY <1>2, <2>1, <3>1 DEF Effect
  <2>3. CASE ~lost'[c]
    BY <1>2, <1>5, <2>1, <2>3 DEF Effect
  <2> QED
    BY <2>2, <2>3
<1> QED
  BY <1>1, <1>6, <1>7

LEMMA CreateSafe ==
  ASSUME IInv, SInv, NEW c \in Claims, createDraft(c)
  PROVE  SInv'
<1>1. /\ claim[c].status = "NONE" /\ IsClaim(claim[c]) /\ audit[c] \in AuditType
      /\ claim' = [claim EXCEPT ![c].status = "DRAFT"]
      /\ audit' = [audit EXCEPT ![c].to = "DRAFT"]
      /\ line' = line /\ tx' = tx /\ lost' = lost
  BY DEF createDraft, IInv, TypeOK
<1>2. PICK new : /\ new.status = "DRAFT" /\ new.total = claim[c].total /\ new.paid = claim[c].paid
                 /\ \A d \in Claims : claim'[d] = IF d = c THEN new ELSE claim[d]
  <2>1. PICK new : new = [claim[c] EXCEPT !.status = "DRAFT"]
    OBVIOUS
  <2>2. new.status = "DRAFT" /\ new.total = claim[c].total /\ new.paid = claim[c].paid
    BY <1>1, <2>1 DEF IsClaim
  <2>3. \A d \in Claims : claim'[d] = IF d = c THEN new ELSE claim[d]
    BY <1>1, <2>1 DEF IInv, TypeOK
  <2> QED
    BY <2>2, <2>3
<1>3. \A d \in Claims : /\ audit'[d].to = IF d = c THEN "DRAFT" ELSE audit[d].to
                        /\ audit'[d].markedPaid = audit[d].markedPaid
  BY <1>1 DEF IInv, TypeOK, AuditType
<1>4. \A q \in Requests : tx[q].pc # "idle" => tx[q].claim \in Claims \ {c}
  BY <1>1 DEF IInv, TypeOK, IsTx, SInv, Fresh, Started
<1>5. Lines'
  BY <1>1 DEF SInv, Lines, OwnLine, Apart
<1>6. Fresh'
  <2> SUFFICES ASSUME NEW q \in Requests PROVE UpToDate(tx[q])' /\ Started(tx[q])'
    BY DEF Fresh
  <2>1. PICK t : t = tx[q] /\ t = tx'[q]
    BY <1>1
  <2>2. CASE t.pc = "idle"
    BY <2>1, <2>2 DEF UpToDate, Started
  <2>3. CASE t.pc # "idle"
    <3>1. UpToDate(t) /\ Started(t) /\ claim'[t.claim] = claim[t.claim]
      BY <1>2, <1>4, <2>1, <2>3 DEF SInv, Fresh
    <3>2. SumSeen(t)' = SumSeen(t) /\ (Submittable(t.claim)' <=> Submittable(t.claim))
      BY <1>1, LinesSame
    <3>3. UpToDate(t)' /\ Started(t)'
      BY <3>1, <3>2 DEF UpToDate, Started
    <3> QED
      BY <2>1, <3>3 DEF UpToDate, Started, SumSeen, Seen, View, Holds
  <2> QED
    BY <2>2, <2>3
<1>7. Sounds'
  <2> SUFFICES ASSUME NEW d \in Claims PROVE Sound(d)'
    BY DEF Sounds
  <2>1. CommittedSum(d)' = CommittedSum(d) /\ (Submittable(d)' <=> Submittable(d))
    BY <1>1, LinesSame
  <2> QED
    BY <1>1, <1>2, <1>3, <2>1 DEF SInv, Sounds, Sound, UnderReview
<1>8. NoRepeat'
  <2>1. \A k, l : Repeated(k, l)' = Repeated(k, l)
    BY <1>1 DEF Repeated
  <2>2. ASSUME NEW d \in Claims, Passed(d)' PROVE Passed(d)
    BY <1>1, <1>2, <2>2 DEF Passed
  <2>3. \A k \in LineIds : line[k].live => line[k].claim \in Claims
    BY DEF IInv, TypeOK, LineType, NoRow
  <2> QED
    BY <1>1, <2>1, <2>2, <2>3 DEF SInv, NoRepeat, Repeated, Passed
<1> QED
  BY <1>5, <1>6, <1>7, <1>8 DEF SInv

LEMMA InitSafe == Init => SInv
<1> SUFFICES ASSUME Init PROVE SInv
  OBVIOUS
<1>1. Lines /\ Fresh /\ NoRepeat
  BY DEF Init, Lines, OwnLine, Apart, Fresh, UpToDate, Started, NoRepeat, Repeated, NoTx, NoRow
<1>2. Sounds
  <2> SUFFICES ASSUME NEW c \in Claims PROVE Sound(c)
    BY DEF Sounds
  <2>1. CommittedLines(c) = {}
    BY DEF Init, CommittedLines, NoRow
  <2>2. CommittedSum(c) = 0
    <3>1. DOMAIN [l \in CommittedLines(c) |-> AmountOf[line[l].item]] = {}
      BY <2>1
    <3> QED
      BY <3>1, SumEmpty DEF CommittedSum, SumFunction
  <2> QED
    BY <2>2 DEF Init, Sound, UnderReview, NoClaim, NoAudit
<1> QED
  BY <1>1, <1>2 DEF SInv

(* Every step either leaves the claims alone, or creates one, or has one   *)
(* of the effects above.                                                   *)
LEMMA NextSafe ==
  ASSUME IInv, SInv, [Next]_vars
  PROVE  /\ SInv'
         /\ \/ UNCHANGED <<claim, lost>>
            \/ \E c \in Claims : createDraft(c)
            \/ \E c \in Claims : \E new : Effect(c, new)
<1>1. ASSUME NEW c \in Claims, createDraft(c) PROVE SInv'
  BY <1>1, CreateSafe
<1>2. ASSUME NEW r \in Requests, Start(r) PROVE SInv' /\ UNCHANGED <<claim, lost>>
  <2>1. UNCHANGED <<claim, lost>>
    BY <1>2 DEF Start, Begin, updateDraft, addLine, updateLine, deleteLine, submit, withdraw,
       FindForReview
  <2> QED
    BY <1>2, <2>1, StartSafe
<1>3. ASSUME NEW r \in Requests,
             \/ CountLines(r) \/ InsertLine(r) \/ FindLine(r) \/ LoadLine(r) \/ SaveLine(r)
             \/ RemoveLine(r) \/ validateForSubmit(r) \/ recomputeTotal(r) \/ LoadClaim(r)
             \/ SaveTotalOnSubmit(r) /\ tx[r].ent = tx[r].base
      PROVE  SInv' /\ UNCHANGED <<claim, lost>>
  <2>1. UNCHANGED <<claim, lost>>
    BY <1>3 DEF Continue, CountLines, InsertLine, FindLine, LoadLine, SaveLine, RemoveLine,
       validateForSubmit, recomputeTotal, LoadClaim, SaveTotalOnSubmit
  <2> QED
    BY <1>3, <2>1, ContinueSafe
<1>4. ASSUME NEW r \in Requests, LastSave(r)
      PROVE  SInv' /\ \E c \in Claims : \E new : Effect(c, new)
  BY <1>4, SaveSafe
<1>5. ASSUME NEW r \in Requests, Decide(r)
      PROVE  SInv' /\ \E c \in Claims : \E new : Effect(c, new)
  BY <1>5, DecideSafe
<1>6. ASSUME NEW r \in Requests, Fail(r) PROVE SInv' /\ UNCHANGED <<claim, lost>>
  BY <1>6, FailSafe DEF Fail
<1>7. CASE UNCHANGED vars
  <2>1. UNCHANGED claim /\ UNCHANGED line /\ UNCHANGED audit /\ UNCHANGED tx /\ UNCHANGED lost
    BY <1>7 DEF vars
  <2>2. Lines' /\ NoRepeat'
    BY <2>1 DEF SInv, Lines, OwnLine, Apart, NoRepeat, Repeated, Passed
  <2>3. Fresh'
    <3> SUFFICES ASSUME NEW q \in Requests PROVE UpToDate(tx[q])' /\ Started(tx[q])'
      BY DEF Fresh
    <3>1. PICK t : t = tx[q] /\ t = tx'[q]
      BY <2>1
    <3>2. UpToDate(t) /\ Started(t)
      BY <3>1 DEF SInv, Fresh
    <3>3. SumSeen(t)' = SumSeen(t) /\ (Submittable(t.claim)' <=> Submittable(t.claim))
      BY <2>1, LinesSame
    <3>4. UpToDate(t)' /\ Started(t)'
      BY <2>1, <3>2, <3>3 DEF UpToDate, Started
    <3> QED
      BY <3>1, <3>4 DEF UpToDate, Started, SumSeen, Seen, View, Holds
  <2>4. Sounds'
    <3> SUFFICES ASSUME NEW d \in Claims PROVE Sound(d)'
      BY DEF Sounds
    <3>1. CommittedSum(d)' = CommittedSum(d) /\ (Submittable(d)' <=> Submittable(d))
      BY <2>1, LinesSame
    <3> QED
      BY <2>1, <3>1 DEF SInv, Sounds, Sound, UnderReview
  <2> QED
    BY <2>1, <2>2, <2>3, <2>4 DEF SInv
<1> QED
  BY <1>1, <1>2, <1>3, <1>4, <1>5, <1>6, <1>7 DEF Next, Step, LastSave

THEOREM Soundness == Spec => [](IInv /\ SInv)
<1>1. Init => IInv /\ SInv
  BY InitInv, InitSafe
<1>2. IInv /\ SInv /\ [Next]_vars => (IInv /\ SInv)'
  BY NextInv, NextSafe
<1> QED
  BY <1>1, <1>2, PTL DEF Spec

(* As long as no request of the employee commits on a stale read, the      *)
(* total of a claim is the sum of its lines, however requests interleave.  *)
THEOREM TotalsAlwaysMatch == Spec => []TotalsMatchLines
<1>1. SInv => TotalsMatchLines
  BY DEF SInv, Sounds, Sound, TotalsMatchLines
<1> QED
  BY <1>1, Soundness, PTL

(* ... a claim under review or paid has the lines submit demanded of it.   *)
THEOREM ReviewedClaimsStayValid == Spec => []ReviewedClaimsAreValid
<1>1. SInv => ReviewedClaimsAreValid
  BY DEF SInv, Sounds, Sound, Submittable, ReviewedClaimsAreValid
<1> QED
  BY <1>1, Soundness, PTL

(* ... the audit trail and the payment columns agree with the status.      *)
THEOREM AuditAlwaysMatches == Spec => []AuditMatchesStatus
<1>1. SInv => AuditMatchesStatus
  BY DEF SInv, Sounds, Sound, AuditMatchesStatus
<1> QED
  BY <1>1, Soundness, PTL

(* ... and no expense is on its way twice, although a submission checks    *)
(* the other claims without locking them: of two submissions that race,    *)
(* the one that validates later sees the lines of the other.               *)
THEOREM NeverDuplicated == Spec => []NoDuplicateUnderReview
<1>1. SInv => NoDuplicateUnderReview
  BY DEF SInv, NoRepeat, Repeated, Passed, UnderReview, NoDuplicateUnderReview
<1> QED
  BY <1>1, Soundness, PTL

-----------------------------------------------------------------------------
(* The refinement: the claim as ClaimLifecycle sees it.                    *)

Stage  == [c \in Claims |-> IF lost[c] THEN "OVERWRITTEN" ELSE claim[c].status]
Amount == [c \in Claims |-> IF lost[c] THEN 0 ELSE claim[c].total]

LEMMA AbstractMove ==
  ASSUME NEW c \in Claims, NEW from, NEW to, Stage[c] \in from,
         Stage' = [Stage EXCEPT ![c] = to], Amount' = Amount
  PROVE  Lifecycle!Move(c, from, to)
BY DEF Lifecycle!Move, Stage, Amount

LEMMA EffectAbstract ==
  ASSUME IInv, NEW c \in Claims, NEW new, Effect(c, new)
  PROVE  [Lifecycle!Next]_(Lifecycle!lifecycle)
<1>0. /\ \A d \in Claims : claim'[d] = IF d = c THEN new ELSE claim[d]
      /\ DOMAIN claim = Claims /\ lost \in [Claims -> BOOLEAN] /\ claim[c].status # "NONE"
  BY DEF Effect, IInv, TypeOK
<1>a. Lifecycle!lifecycle = <<Stage, Amount>>
  BY DEF Lifecycle!lifecycle, Stage, Amount
<1>b. (Lifecycle!lifecycle)' = <<Stage', Amount'>>
  BY DEF Lifecycle!lifecycle, Stage, Amount
<1>1. CASE lost' = [lost EXCEPT ![c] = TRUE] /\ lost[c]
  <2>1. Stage' = Stage /\ Amount' = Amount
    BY <1>0, <1>1 DEF Stage, Amount
  <2> QED
    BY <1>a, <1>b, <2>1
<1>2. CASE lost' = [lost EXCEPT ![c] = TRUE] /\ ~lost[c]
  <2>1. /\ Stage[c] # "NONE"
        /\ Stage' = [Stage EXCEPT ![c] = "OVERWRITTEN"]
        /\ Amount' = [Amount EXCEPT ![c] = 0]
    BY <1>0, <1>2 DEF Stage, Amount
  <2>2. Lifecycle!Overwrite(c)
    BY <2>1 DEF Lifecycle!Overwrite, Stage, Amount
  <2> QED
    BY <2>2 DEF Lifecycle!Next
<1>3. CASE /\ ~lost[c] /\ lost' = lost
           /\ Edits(c, new) \/ Withdraws(c, new) \/ Submits(c, new) \/ Decides(c, new)
  <2>0. /\ Stage[c] = claim[c].status /\ Amount[c] = claim[c].total
        /\ Stage' = [Stage EXCEPT ![c] = new.status]
        /\ Amount' = [Amount EXCEPT ![c] = new.total]
    BY <1>0, <1>3 DEF Stage, Amount
  <2>a. new.total = claim[c].total => Amount' = Amount
    BY <2>0 DEF Amount
  <2>1. CASE Edits(c, new)
    <3>1. /\ Stage[c] \in {"DRAFT", "SENT_BACK"} /\ Stage' = Stage
          /\ Amount'[c] \in Nat /\ Amount' = [Amount EXCEPT ![c] = Amount'[c]]
      BY <2>0, <2>1 DEF Edits, EDITABLE_STATUSES, Stage, Amount
    <3>2. Lifecycle!Edit(c)
      BY <3>1 DEF Lifecycle!Edit, Stage, Amount
    <3> QED
      BY <3>2 DEF Lifecycle!Next
  <2>2. CASE Withdraws(c, new)
    <3>1. Lifecycle!Move(c, WithdrawableStatuses, "WITHDRAWN")
      BY <2>0, <2>a, <2>2, AbstractMove DEF Withdraws
    <3>2. Lifecycle!Withdraw(c)
      BY <3>1 DEF Lifecycle!Withdraw, WithdrawableStatuses
    <3> QED
      BY <3>2 DEF Lifecycle!Next
  <2>3. CASE Submits(c, new)
    <3>1. Lifecycle!Move(c, EDITABLE_STATUSES, "PENDING_MANAGER")
      BY <2>0, <2>a, <2>3, AbstractMove DEF Submits
    <3>2. Amount[c] \in 1..MaxClaimAmount
      BY <2>0, <2>3 DEF Submits
    <3>3. Lifecycle!Submit(c)
      BY <3>1, <3>2 DEF Lifecycle!Submit, EDITABLE_STATUSES, Amount
    <3> QED
      BY <3>3 DEF Lifecycle!Next
  <2>4. CASE Decides(c, new)
    <3>1. PICK op \in ReviewOps : /\ claim[c].status = ExpectedStatus[op]
                                  /\ new.status = TargetStatus[op] /\ new.total = claim[c].total
      BY <2>4 DEF Decides
    <3>2. \A from : ExpectedStatus[op] \in from => Lifecycle!Move(c, from, TargetStatus[op])
      BY <2>0, <2>a, <3>1, AbstractMove
    <3>3. \/ op = "managerApprove" \/ op = "managerReject" \/ op = "managerSendBack"
          \/ op = "financeApprove" \/ op = "financeReject" \/ op = "financeSendBack"
          \/ op = "markPaid"
      BY <3>1 DEF ReviewOps, ExpectedStatus
    <3>4. CASE op = "managerApprove"
      BY <3>2, <3>4 DEF Lifecycle!ManagerApprove, Lifecycle!Next, ExpectedStatus, TargetStatus
    <3>5. CASE op = "financeApprove"
      BY <3>2, <3>5 DEF Lifecycle!FinanceApprove, Lifecycle!Next, ExpectedStatus, TargetStatus
    <3>6. CASE op = "markPaid"
      BY <3>2, <3>6 DEF Lifecycle!MarkPaid, Lifecycle!Next, ExpectedStatus, TargetStatus
    <3>7. CASE op \in {"managerReject", "financeReject"}
      BY <3>2, <3>7 DEF Lifecycle!Reject, Lifecycle!Next, ExpectedStatus, TargetStatus
    <3>8. CASE op \in {"managerSendBack", "financeSendBack"}
      BY <3>2, <3>8 DEF Lifecycle!SendBack, Lifecycle!Next, ExpectedStatus, TargetStatus
    <3> QED
      BY <3>3, <3>4, <3>5, <3>6, <3>7, <3>8
  <2> QED
    BY <1>3, <2>1, <2>2, <2>3, <2>4
<1> QED
  BY <1>0, <1>1, <1>2, <1>3 DEF Effect

LEMMA CreateAbstract ==
  ASSUME IInv, NEW c \in Claims, createDraft(c)
  PROVE  [Lifecycle!Next]_(Lifecycle!lifecycle)
<1>0. /\ \A d \in Claims : /\ claim'[d].status = IF d = c THEN "DRAFT" ELSE claim[d].status
                           /\ claim'[d].total = claim[d].total
      /\ claim[c].status = "NONE" /\ lost' = lost
  <2>1. /\ \A d \in Claims : claim'[d] = IF d = c THEN [claim[c] EXCEPT !.status = "DRAFT"]
                                                 ELSE claim[d]
        /\ claim[c].status = "NONE" /\ lost' = lost /\ IsClaim(claim[c])
    BY DEF createDraft, IInv, TypeOK
  <2>2. ASSUME NEW s, s = [claim[c] EXCEPT !.status = "DRAFT"]
        PROVE  s.status = "DRAFT" /\ s.total = claim[c].total
    BY <2>1, <2>2 DEF IsClaim
  <2> QED
    BY <2>1, <2>2
<1>1. Amount' = Amount
  BY <1>0 DEF Amount
<1>2. CASE lost[c]
  <2>1. Stage' = Stage
    BY <1>0, <1>2 DEF Stage
  <2> QED
    BY <1>1, <2>1 DEF Lifecycle!lifecycle, Stage, Amount
<1>3. CASE ~lost[c]
  <2>1. Stage[c] = "NONE" /\ Stage' = [Stage EXCEPT ![c] = "DRAFT"]
    BY <1>0, <1>3 DEF Stage
  <2>2. \A from : "NONE" \in from => Lifecycle!Move(c, from, "DRAFT")
    BY <1>1, <2>1, AbstractMove
  <2>3. Lifecycle!Create(c)
    BY <2>2 DEF Lifecycle!Create
  <2> QED
    BY <2>3 DEF Lifecycle!Next
<1> QED
  BY <1>2, <1>3

(* Requests that interleave statement by statement look, claim by claim,   *)
(* like the atomic requests of ClaimLifecycle, for any number of claims,   *)
(* lines and requests: every commit is one of its actions, a commit on a   *)
(* stale read an overwrite, and every other statement a stutter.           *)
THEOREM LifecycleImplemented == Spec => ImplementsLifecycle
<1>1. Init => Lifecycle!Init
  BY DEF Init, Lifecycle!Init, NoClaim
<1>2. IInv /\ SInv /\ [Next]_vars => [Lifecycle!Next]_(Lifecycle!lifecycle)
  <2> SUFFICES ASSUME IInv, SInv, [Next]_vars
               PROVE  [Lifecycle!Next]_(Lifecycle!lifecycle)
    OBVIOUS
  <2>1. CASE UNCHANGED <<claim, lost>>
    BY <2>1 DEF Lifecycle!lifecycle
  <2> QED
    BY <2>1, NextSafe, CreateAbstract, EffectAbstract
<1> QED
  BY <1>1, <1>2, Soundness, PTL DEF Spec, ImplementsLifecycle, Lifecycle!Spec

=============================================================================
