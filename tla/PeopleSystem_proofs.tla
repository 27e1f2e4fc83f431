------------------------ MODULE PeopleSystem_proofs ------------------------
(***************************************************************************)
(* Reporting lines hold no circle, an assessment keeps its stages and its  *)
(* score, an edit that runs alone leaves the roles it was asked for, and   *)
(* an organization keeps one plan: for any number of employees, handlers,  *)
(* questions, roles and plans.                                             *)
(***************************************************************************)
EXTENDS PeopleSystem, Sums

USE PortalAssumption, AssessmentAssumption

(* The fields of a handler, by what it does.                               *)
Assigns(t) == t.op = "assign"
Answers(t) == t.op \in DOMAIN Accepts

AssignShape(t) ==
    t \in [op : {t.op}, pc : {t.pc}, employee : {t.employee}, manager : {t.manager},
         current : {t.current}, visited : {t.visited}, active : {t.active},
         crossed : {t.crossed}]
AnswerShape(t) ==
    t \in [op : {t.op}, pc : {t.pc}, q : {t.q}, v : {t.v}, read : {t.read},
         new : {t.new}, score : {t.score}, missed : {t.missed}]
EditShape(t) ==
    t \in [op : {t.op}, pc : {t.pc}, owner : {t.owner}, choice : {t.choice},
         left : {t.left}, alone : {t.alone}]
PlanShape(t) == t \in [op : {t.op}, pc : {t.pc}, old : {t.old}, expires : {t.expires}]

Shape(t) ==
    /\ Assigns(t) => AssignShape(t)
    /\ Answers(t) => AnswerShape(t)
    /\ t.op = "edit" => EditShape(t)
    /\ t.op = "renew" => PlanShape(t)
Shapes ==
    /\ tx = [r \in Requests |-> tx[r]]
    /\ \A r \in Requests : Shape(tx[r])

(* No step of a component touches the handlers of another one.             *)
AssignsKept == \A r \in Requests : Assigns(tx'[r]) => tx'[r] = tx[r]
AnswersKept == \A r \in Requests : Answers(tx'[r]) => tx'[r] = tx[r]

LEMMA AnswerOps ==
    DOMAIN Accepts = {"saveDraft", "submit", "managerDraft", "managerReview",
                      "hrDraft", "hrReview", "roleReview"}
  BY DEF Accepts

LEMMA GoesTo ==
    ASSUME NEW r \in Requests, NEW t, Shapes, Shape(t), Goes(r, t)
    PROVE  /\ Shapes'
           /\ tx'[r] = t
           /\ \A q \in Requests \ {r} : tx'[q] = tx[q]
  BY DEF Goes, Shapes

LEMMA IdleShape == Shape(Idle) /\ ~Assigns(Idle) /\ ~Answers(Idle)
  BY AnswerOps DEF Shape, Idle, Assigns, Answers

LEMMA LinesFrame ==
    ASSUME NEW r \in Requests, Shapes, LinesStep(r)
    PROVE  Shapes' /\ AnswersKept
<1> USE AnswerOps, IdleShape
<1>1. ASSUME NEW e \in Employees, remove(r, e) PROVE Shapes' /\ AnswersKept
  <2> DEFINE t == [op |-> "remove", pc |-> "save", employee |-> e, active |-> line[e]]
  <2>1. Shape(t) /\ ~Answers(t)
    BY DEF Shape, Assigns, Answers
  <2>2. Goes(r, t)
    BY <1>1 DEF remove, Begin
  <2> HIDE DEF t
  <2> QED BY <2>1, <2>2, GoesTo DEF AnswersKept
<1>2. ASSUME NEW e \in Employees, NEW m \in Employees, assignOrChange(r, e, m)
      PROVE  Shapes' /\ AnswersKept
  <2> DEFINE t == [op |-> "assign", pc |-> "walk", employee |-> e, manager |-> m,
                   current |-> m, visited |-> {}, active |-> NoLine, crossed |-> FALSE]
  <2>1. Shape(t) /\ ~Answers(t)
    BY DEF Shape, Assigns, Answers, AssignShape
  <2>2. Goes(r, t)
    BY <1>2 DEF assignOrChange, Begin
  <2> HIDE DEF t
  <2> QED BY <2>1, <2>2, GoesTo DEF AnswersKept
<1>3. ASSUME Goes(r, Idle) PROVE Shapes' /\ AnswersKept
  BY <1>3, GoesTo DEF AnswersKept
<1>4. ASSUME NEW t, t.op = "assign", AssignShape(t), Goes(r, t)
      PROVE  Shapes' /\ AnswersKept
  <2>1. Shape(t) /\ ~Answers(t)
    BY <1>4 DEF Shape, Assigns, Answers
  <2> QED BY <2>1, <1>4, GoesTo DEF AnswersKept
<1>5. ASSUME assertNoCycle(r) PROVE Shapes' /\ AnswersKept
  <2> DEFINE t == tx[r]
             up == line[t.current]
             loads == [t EXCEPT !.pc = "load"]
             ends  == [t EXCEPT !.pc = "load", !.visited = @ \cup {t.current}]
             climbs == [t EXCEPT !.current = up.manager, !.visited = @ \cup {t.current}]
  <2>1. t.op = "assign" /\ AssignShape(t)
    BY <1>5 DEF assertNoCycle, At, Shapes, Shape, Assigns
  <2>2. \/ Goes(r, Idle)
        \/ Goes(r, loads)
        \/ Goes(r, IF up = NoLine THEN ends ELSE climbs)
    BY <1>5 DEF assertNoCycle, Ends
  <2>3. \A x \in {loads, ends, climbs} : x.op = "assign" /\ AssignShape(x)
    BY <2>1 DEF AssignShape
  <2> HIDE DEF loads, ends, climbs
  <2> QED BY <2>2, <2>3, <1>3, <1>4
<1>6. ASSUME findActivePrimary(r) PROVE Shapes' /\ AnswersKept
  <2> DEFINE t == tx[r]
             saves == [t EXCEPT !.pc = "save", !.active = line[t.employee]]
  <2>1. t.op = "assign" /\ AssignShape(t)
    BY <1>6 DEF findActivePrimary, At, Shapes, Shape, Assigns
  <2>2. Goes(r, Idle) \/ Goes(r, saves)
    BY <1>6 DEF findActivePrimary, Ends
  <2>3. saves.op = "assign" /\ AssignShape(saves)
    BY <2>1 DEF AssignShape
  <2> HIDE DEF saves
  <2> QED BY <2>2, <2>3, <1>3, <1>4
<1>7. ASSUME SaveAssignment(r) PROVE Shapes' /\ AnswersKept
  <2>1. tx' = Crossing(r)
    BY <1>7 DEF SaveAssignment
  <2>2. ASSUME NEW q \in Requests
        PROVE  Shape(tx'[q]) /\ (Answers(tx'[q]) => tx'[q] = tx[q])
    <3> DEFINE c == [tx[q] EXCEPT !.crossed = TRUE]
    <3>1. tx'[q] = IF q = r THEN Idle ELSE IF Assigns(tx[q]) THEN c ELSE tx[q]
      BY <2>1 DEF Crossing, Assigns
    <3>2. ASSUME Assigns(tx[q]) PROVE Shape(c) /\ ~Answers(c)
      <4>1. c.op = "assign" /\ AssignShape(c)
        BY <3>2 DEF Shapes, Shape, Assigns, AssignShape
      <4> HIDE DEF c
      <4> QED BY <4>1 DEF Shape, Assigns, Answers
    <3> HIDE DEF c
    <3> QED BY <3>1, <3>2 DEF Shapes
  <2>3. tx' = [q \in Requests |-> tx'[q]]
    BY <2>1 DEF Crossing
  <2> QED BY <2>2, <2>3 DEF Shapes, AnswersKept
<1>8. ASSUME RejectAssignment(r) \/ SaveRemoval(r) PROVE Shapes' /\ AnswersKept
  BY <1>8, <1>3 DEF RejectAssignment, SaveRemoval, Ends
<1> QED BY <1>1, <1>2, <1>5, <1>6, <1>7, <1>8 DEF LinesStep

LEMMA NotMine ==
    ASSUME NEW r \in Requests, NEW t, Shapes, Shape(t), ~Assigns(t), Goes(r, t)
    PROVE  Shapes' /\ AssignsKept /\ (~Answers(t) => AnswersKept)
  BY GoesTo DEF AssignsKept, AnswersKept

LEMMA AnswersFrame ==
    ASSUME NEW r \in Requests, Shapes, AssessmentStep(r)
    PROVE  Shapes' /\ AssignsKept
<1> USE AnswerOps, IdleShape
<1>1. ASSUME NEW t, Answers(t), AnswerShape(t), Goes(r, t)
      PROVE  Shapes' /\ AssignsKept
  <2>1. Shape(t) /\ ~Assigns(t)
    BY <1>1 DEF Shape, Assigns, Answers
  <2> QED BY <2>1, <1>1, NotMine
<1>2. ASSUME Goes(r, Idle) PROVE Shapes' /\ AssignsKept
  BY <1>2, NotMine
<1>3. ASSUME createAssessment(r) PROVE Shapes' /\ AssignsKept
  <2> DEFINE t == [op |-> "create", pc |-> "insert"]
  <2>1. Shape(t) /\ ~Assigns(t)
    BY DEF Shape, Assigns, Answers
  <2>2. Goes(r, t)
    BY <1>3 DEF createAssessment, Begin
  <2> HIDE DEF t
  <2> QED BY <2>1, <2>2, NotMine
<1>4. ASSUME InsertAssessment(r) PROVE Shapes' /\ AssignsKept
  BY <1>4, <1>2 DEF InsertAssessment, Ends
<1>5. ASSUME NEW op \in DOMAIN Accepts, NEW q, NEW v, answer(r, op, q, v)
      PROVE  Shapes' /\ AssignsKept
  <2> DEFINE t == [op |-> op, pc |-> IF q = None THEN AfterAnswers(op) ELSE "find",
                   q |-> q, v |-> v, read |-> assessment.status,
                   new |-> FALSE, score |-> Unscored, missed |-> FALSE]
  <2>1. Answers(t) /\ AnswerShape(t)
    BY DEF Answers, AnswerShape
  <2>2. Goes(r, t)
    BY <1>5 DEF answer, Begin
  <2> HIDE DEF t
  <2> QED BY <2>1, <2>2, <1>1
<1>6. ASSUME FindAnswers(r) PROVE Shapes' /\ AssignsKept
  <2> DEFINE t == [tx[r] EXCEPT !.pc = "save", !.new = answers[tx[r].q] = None]
  <2>1. Answers(tx[r]) /\ AnswerShape(tx[r])
    BY <1>6 DEF FindAnswers, Shapes, Shape, Answers
  <2>2. Answers(t) /\ AnswerShape(t)
    BY <2>1 DEF AnswerShape, Answers
  <2>3. Goes(r, t)
    BY <1>6 DEF FindAnswers
  <2> HIDE DEF t
  <2> QED BY <2>2, <2>3, <1>1
<1>7. ASSUME SaveAnswer(r) PROVE Shapes' /\ AssignsKept
  <2> DEFINE t == [tx[r] EXCEPT !.pc = AfterAnswers(tx[r].op)]
  <2>1. Answers(tx[r]) /\ AnswerShape(tx[r])
    BY <1>7 DEF SaveAnswer, Shapes, Shape, Answers
  <2>2. Answers(t) /\ AnswerShape(t)
    BY <2>1 DEF AnswerShape, Answers
  <2>3. Goes(r, t) \/ Goes(r, Idle)
    BY <1>7 DEF SaveAnswer, Ends
  <2> HIDE DEF t
  <2> QED BY <2>2, <2>3, <1>1, <1>2
<1>8. ASSUME recomputeScore(r) PROVE Shapes' /\ AssignsKept
  <2> DEFINE s == computeAssessmentScore(Saved(tx[r]))
             t == [tx[r] EXCEPT !.pc = "commit", !.score = s]
  <2>1. Answers(tx[r]) /\ AnswerShape(tx[r])
    BY <1>8 DEF recomputeScore, Shapes, Shape, Answers, Own
  <2>2. Goes(r, t)
    BY <1>8 DEF recomputeScore
  <2> HIDE DEF s
  <2>3. Answers(t) /\ AnswerShape(t)
    BY <2>1 DEF AnswerShape, Answers
  <2> HIDE DEF t
  <2> QED BY <2>2, <2>3, <1>1
<1>9. ASSUME CommitAnswer(r) PROVE Shapes' /\ AssignsKept
  <2>1. tx' = Unseen(r)
    BY <1>9 DEF CommitAnswer
  <2>2. ASSUME NEW q \in Requests
        PROVE  Shape(tx'[q]) /\ (Assigns(tx'[q]) => tx'[q] = tx[q])
    <3> DEFINE c == [tx[q] EXCEPT !.missed = TRUE]
    <3>1. tx'[q] = Idle \/ tx'[q] = tx[q] \/ (tx'[q] = c /\ Answers(tx[q]))
      BY <2>1 DEF Unseen, Own, Answers
    <3>2. ASSUME Answers(tx[q]) PROVE Shape(c) /\ ~Assigns(c)
      <4>1. Answers(c) /\ AnswerShape(c)
        BY <3>2 DEF Shapes, Shape, Answers, AnswerShape
      <4> HIDE DEF c
      <4> QED BY <4>1 DEF Shape, Assigns, Answers
    <3> HIDE DEF c
    <3> QED BY <3>1, <3>2 DEF Shapes
  <2>3. tx' = [q \in Requests |-> tx'[q]]
    BY <2>1 DEF Unseen
  <2> QED BY <2>2, <2>3 DEF Shapes, AssignsKept
<1> QED BY <1>3, <1>4, <1>5, <1>6, <1>7, <1>8, <1>9 DEF AssessmentStep

LEMMA RolesFrame ==
    ASSUME NEW r \in Requests, Shapes, RolesStep(r)
    PROVE  Shapes' /\ AssignsKept /\ AnswersKept
<1> USE AnswerOps, IdleShape
<1> DEFINE Goal == Shapes' /\ AssignsKept /\ AnswersKept
<1>1. ASSUME NEW owner, NEW choice, StartEdit(r, owner, choice) PROVE Goal
  <2> DEFINE n == [op |-> "edit", pc |-> "delete", owner |-> owner, choice |-> choice,
                   left |-> choice.items,
                   alone |-> \A o \in Requests : ~Editing(o, owner)]
  <2>1. tx' = [q \in Requests |->
                 IF q = r THEN n
                 ELSE IF Editing(q, owner) THEN [tx[q] EXCEPT !.alone = FALSE] ELSE tx[q]]
    BY <1>1 DEF StartEdit
  <2>2. Shape(n) /\ ~Assigns(n) /\ ~Answers(n)
    BY DEF Shape, EditShape, Assigns, Answers
  <2>3. ASSUME NEW q \in Requests, Editing(q, owner)
        PROVE  LET c == [tx[q] EXCEPT !.alone = FALSE] IN
               Shape(c) /\ ~Assigns(c) /\ ~Answers(c)
    <3> DEFINE c == [tx[q] EXCEPT !.alone = FALSE]
    <3>1. c.op = "edit" /\ EditShape(c)
      BY <2>3 DEF Shapes, Shape, Editing, EditShape
    <3> HIDE DEF c
    <3>2. Shape(c) /\ ~Assigns(c) /\ ~Answers(c)
      BY <3>1 DEF Shape, Assigns, Answers
    <3> QED BY <3>2 DEF c
  <2> HIDE DEF n
  <2>4. ASSUME NEW q \in Requests
        PROVE  /\ Shape(tx'[q])
               /\ Assigns(tx'[q]) => tx'[q] = tx[q]
               /\ Answers(tx'[q]) => tx'[q] = tx[q]
    <3>1. CASE q = r
      BY <2>1, <2>2, <3>1
    <3>2. CASE q # r /\ Editing(q, owner)
      BY <2>1, <2>3, <3>2
    <3>3. CASE q # r /\ ~Editing(q, owner)
      BY <2>1, <3>3 DEF Shapes
    <3> QED BY <3>1, <3>2, <3>3
  <2>5. tx' = [q \in Requests |-> tx'[q]]
    BY <2>1
  <2> QED BY <2>4, <2>5 DEF Shapes, AssignsKept, AnswersKept
<1>2. ASSUME NEW t, t.op = "edit", EditShape(t), Goes(r, t) PROVE Goal
  <2>1. Shape(t) /\ ~Assigns(t) /\ ~Answers(t)
    BY <1>2 DEF Shape, Assigns, Answers
  <2> QED BY <2>1, <1>2, NotMine
<1>3. ASSUME Goes(r, Idle) PROVE Goal
  BY <1>3, NotMine
<1>4. ASSUME DeleteLinks(r) PROVE Goal
  <2> DEFINE t == [tx[r] EXCEPT !.pc = "insert"]
  <2>1. Goes(r, t)
    BY <1>4 DEF DeleteLinks
  <2>2. t.op = "edit" /\ EditShape(t)
    BY <1>4 DEF DeleteLinks, At, Shapes, Shape, EditShape
  <2> HIDE DEF t
  <2> QED BY <2>1, <2>2, <1>2
<1>5. ASSUME InsertLink(r) PROVE Goal
  <2>1. PICK item : Goes(r, [tx[r] EXCEPT !.left = @ \ {item}])
    BY <1>5 DEF InsertLink
  <2> DEFINE t == [tx[r] EXCEPT !.left = @ \ {item}]
  <2>2. t.op = "edit" /\ EditShape(t)
    BY <1>5 DEF InsertLink, At, Shapes, Shape, EditShape
  <2>3. Goes(r, t)
    BY <2>1
  <2> HIDE DEF t
  <2> QED BY <2>2, <2>3, <1>2
<1>6. ASSUME EndOfPermissions(r) \/ syncLegacyEmployeeRole(r) \/ FailEdit(r) PROVE Goal
  BY <1>6, <1>3 DEF EndOfPermissions, syncLegacyEmployeeRole, FailEdit, Done, Ends
<1> QED BY <1>1, <1>4, <1>5, <1>6 DEF RolesStep, assignEmployeeRoles, updateRolePermissions

LEMMA PlansFrame ==
    ASSUME NEW r \in Requests, Shapes, PlansStep(r)
    PROVE  Shapes' /\ AssignsKept /\ AnswersKept
<1> USE AnswerOps, IdleShape
<1> DEFINE Goal == Shapes' /\ AssignsKept /\ AnswersKept
<1>1. ASSUME NEW t, t.op \in {"subscribe", "renew"}, PlanShape(t), Goes(r, t) PROVE Goal
  <2>1. Shape(t) /\ ~Assigns(t) /\ ~Answers(t)
    BY <1>1 DEF Shape, Assigns, Answers
  <2> QED BY <2>1, <1>1, NotMine
<1>2. ASSUME NEW period, create(r, period) PROVE Goal
  <2> DEFINE t == [op |-> "subscribe", pc |-> "insert", old |-> 0, expires |-> today + period]
  <2>1. t.op \in {"subscribe", "renew"} /\ PlanShape(t)
    BY DEF PlanShape
  <2>2. Goes(r, t)
    BY <1>2 DEF create, Begin
  <2> HIDE DEF t
  <2> QED BY <2>1, <2>2, <1>1
<1>3. ASSUME NEW period, renew(r, period) PROVE Goal
  <2> DEFINE t == [op |-> "renew", pc |-> IF Active = {} THEN "insert" ELSE "supersede",
                   old |-> IF Active = {} THEN 0 ELSE Min(Active),
                   expires |-> today + period]
  <2>1. t.op \in {"subscribe", "renew"} /\ PlanShape(t)
    BY DEF PlanShape
  <2>2. Goes(r, t)
    BY <1>3 DEF renew, Begin
  <2> HIDE DEF t
  <2> QED BY <2>1, <2>2, <1>1
<1>4. ASSUME Supersede(r) PROVE Goal
  <2> DEFINE t == [tx[r] EXCEPT !.pc = "insert"]
  <2>1. Goes(r, t)
    BY <1>4 DEF Supersede
  <2>2. t.op \in {"subscribe", "renew"} /\ PlanShape(t)
    BY <1>4 DEF Supersede, At, Shapes, Shape, PlanShape
  <2> HIDE DEF t
  <2> QED BY <2>1, <2>2, <1>1
<1>5. ASSUME InsertPlan(r) \/ FailPlan(r) PROVE Goal
  BY <1>5, NotMine DEF InsertPlan, FailPlan, Ends
<1> QED BY <1>2, <1>3, <1>4, <1>5 DEF PlansStep

-----------------------------------------------------------------------------
(* An assignment that no other one crossed knows a set of employees that   *)
(* its own is not in: their managers, the new one among them, are in it,   *)
(* but for the one who is looked at next.                                  *)
Lines == {NoLine} \cup [row : Nat \ {0}, manager : Employees]

Assignment(t) ==
    /\ t.pc \in {"walk", "load", "save"}
    /\ t.employee \in Employees /\ t.manager \in Employees
    /\ t.current \in Employees
    /\ t.visited \subseteq Employees
    /\ t.crossed \in BOOLEAN

Walked(t) ==
    /\ t.employee \notin t.visited
    /\ t.manager \in t.visited \cup {t.current}
    /\ \A v \in t.visited : line[v].manager \in t.visited \cup {t.current, None}
Circled(t) ==
    /\ t.manager \in t.visited
    /\ \A v \in t.visited : line[v].manager \in t.visited \cup {None}

LineTypes ==
    /\ line \in [Employees -> Lines]
    /\ crossed \in [Employees -> BOOLEAN]
    /\ rows \in Nat
Assigning == \A r \in Requests : Assigns(tx[r]) => Assignment(tx[r])
Known ==
    \A r \in Requests :
        Assigns(tx[r]) /\ ~tx[r].crossed =>
            Walked(tx[r]) /\ (tx[r].pc # "walk" => Circled(tx[r]))

LinesInv == Shapes /\ LineTypes /\ Assigning /\ Known /\ NoCircularChain

USE ReportingAssumption

(* What is known of the assignments survives a step that assigns nobody:   *)
(* it can only take lines away.                                            *)
LEMMA FewerLines ==
    ASSUME LinesInv, Shapes', AssignsKept, UNCHANGED <<rows, crossed>>,
           line' \in [Employees -> Lines],
           \A e \in Employees : line'[e] \in {line[e], NoLine}
    PROVE  LinesInv'
<1>1. LineTypes'
  BY DEF LinesInv, LineTypes
<1>2. Assigning'
  BY DEF LinesInv, Assigning, AssignsKept, Assignment, Assigns
<1>3. Known'
  <2> SUFFICES ASSUME NEW r \in Requests, Assigns(tx'[r]), ~tx'[r].crossed
               PROVE  Walked(tx[r])' /\ (tx'[r].pc # "walk" => Circled(tx[r])')
    BY DEF Known, Assigns
  <2>1. tx'[r] = tx[r]
    BY DEF AssignsKept
  <2>2. Assignment(tx[r]) /\ Walked(tx[r]) /\ (tx[r].pc # "walk" => Circled(tx[r]))
    BY <2>1 DEF LinesInv, Known, Assigning, Assigns
  <2>3. \A v \in tx[r].visited : line'[v].manager \in {line[v].manager, None}
    BY <2>2 DEF Assignment, NoLine
  <2> QED BY <2>1, <2>2, <2>3 DEF Walked, Circled
<1>4. NoCircularChain'
  <2> SUFFICES ASSUME NEW S \in (SUBSET Employees) \ {{}}
               PROVE  \E e \in S : line'[e].manager \notin S \/ crossed'[e]
    BY DEF NoCircularChain
  <2>1. PICK e \in S : line[e].manager \notin S \/ crossed[e]
    BY DEF LinesInv, NoCircularChain
  <2>2. line'[e].manager \in {line[e].manager, None}
    BY DEF NoLine
  <2> QED BY <2>1, <2>2
<1> QED BY <1>1, <1>2, <1>3, <1>4 DEF LinesInv

(* Nor does it by a step of an assignment that changes no line.            *)
LEMMA SameLines ==
    ASSUME LinesInv, NEW r \in Requests, NEW t, Shape(t), Goes(r, t), UNCHANGED lineVars,
           Assigns(t) => Assignment(t) /\ (~t.crossed => Walked(t) /\ (t.pc # "walk" => Circled(t)))
    PROVE  LinesInv'
<1>1. Shapes' /\ tx'[r] = t /\ \A q \in Requests \ {r} : tx'[q] = tx[q]
  BY GoesTo DEF LinesInv
<1>2. LineTypes'
  BY DEF LinesInv, LineTypes, lineVars
<1>3. Assigning'
  BY <1>1 DEF LinesInv, Assigning, Assignment, Assigns
<1>4. Known'
  <2> SUFFICES ASSUME NEW q \in Requests, Assigns(tx'[q]), ~tx'[q].crossed
               PROVE  Walked(tx[q])' /\ (tx'[q].pc # "walk" => Circled(tx[q])')
    BY DEF Known, Assigns
  <2>1. line' = line
    BY DEF lineVars
  <2>2. CASE q = r
    BY <2>1, <2>2, <1>1 DEF Walked, Circled
  <2>3. CASE q # r
    BY <2>1, <2>3, <1>1 DEF LinesInv, Known, Walked, Circled
  <2> QED BY <2>2, <2>3
<1>5. NoCircularChain'
  BY DEF LinesInv, NoCircularChain, lineVars
<1> QED BY <1>1, <1>2, <1>3, <1>4, <1>5 DEF LinesInv

LEMMA AssignKeeps ==
    ASSUME LinesInv, NEW r \in Requests, NEW e \in Employees, NEW m \in Employees,
           assignOrChange(r, e, m)
    PROVE  LinesInv'
<1> DEFINE t == [op |-> "assign", pc |-> "walk", employee |-> e, manager |-> m,
                 current |-> m, visited |-> {}, active |-> NoLine, crossed |-> FALSE]
<1>1. Shape(t)
  BY AnswerOps DEF Shape, Assigns, Answers, AssignShape
<1>2. Assignment(t) /\ Walked(t) /\ t.pc = "walk"
  BY DEF Assignment, Walked
<1>3. Goes(r, t) /\ UNCHANGED lineVars
  BY DEF assignOrChange, Begin
<1> HIDE DEF t
<1> QED BY <1>1, <1>2, <1>3, SameLines

LEMMA WalkKeeps ==
    ASSUME LinesInv, NEW r \in Requests, assertNoCycle(r)
    PROVE  LinesInv'
<1> DEFINE t == tx[r]
           up == line[t.current]
           loads == [t EXCEPT !.pc = "load"]
           ends  == [t EXCEPT !.pc = "load", !.visited = @ \cup {t.current}]
           climbs == [t EXCEPT !.current = up.manager, !.visited = @ \cup {t.current}]
<1>1. /\ t.op = "assign" /\ t.pc = "walk" /\ AssignShape(t) /\ Assignment(t)
      /\ ~t.crossed => Walked(t)
  BY DEF assertNoCycle, At, LinesInv, Shapes, Shape, Assigns, Assigning, Known
<1>2. UNCHANGED lineVars
  BY DEF assertNoCycle
<1>3. ASSUME NEW x, AssignShape(x), x.op = "assign", Goes(r, x), Assignment(x),
             ~x.crossed => Walked(x) /\ (x.pc # "walk" => Circled(x))
      PROVE  LinesInv'
  <2>1. Shape(x)
    BY <1>3, AnswerOps DEF Shape, Assigns, Answers
  <2> QED BY <2>1, <1>2, <1>3, SameLines
<1>4. CASE t.current = t.employee
  BY <1>2, <1>4, SameLines, IdleShape DEF assertNoCycle, Ends
<1>5. CASE t.current # t.employee /\ t.current \in t.visited
  <2>1. Goes(r, loads)
    BY <1>5 DEF assertNoCycle
  <2>2. /\ AssignShape(loads) /\ loads.op = "assign" /\ loads.pc = "load"
        /\ loads.employee = t.employee /\ loads.manager = t.manager
        /\ loads.current = t.current /\ loads.visited = t.visited
        /\ loads.crossed = t.crossed
    BY <1>1 DEF AssignShape
  <2> HIDE DEF loads
  <2>3. Assignment(loads)
    BY <1>1, <2>2 DEF Assignment
  <2>4. ~loads.crossed => Walked(loads) /\ Circled(loads)
    BY <1>1, <1>5, <2>2 DEF Walked, Circled
  <2> QED BY <2>1, <2>2, <2>3, <2>4, <1>3
<1>6. CASE t.current # t.employee /\ t.current \notin t.visited /\ up = NoLine
  <2>1. Goes(r, ends)
    BY <1>6 DEF assertNoCycle
  <2>2. /\ AssignShape(ends) /\ ends.op = "assign" /\ ends.pc = "load"
        /\ ends.employee = t.employee /\ ends.manager = t.manager
        /\ ends.current = t.current /\ ends.visited = t.visited \cup {t.current}
        /\ ends.crossed = t.crossed
    BY <1>1 DEF AssignShape
  <2> HIDE DEF ends
  <2>3. Assignment(ends)
    BY <1>1, <2>2 DEF Assignment
  <2>4. line[t.current].manager = None
    BY <1>6 DEF NoLine
  <2> HIDE DEF up
  <2>5. ~ends.crossed => Walked(ends) /\ Circled(ends)
    BY <1>1, <1>6, <2>2, <2>4 DEF Walked, Circled
  <2> QED BY <2>1, <2>2, <2>3, <2>5, <1>3
<1>7. CASE t.current # t.employee /\ t.current \notin t.visited /\ up # NoLine
  <2>1. Goes(r, climbs)
    BY <1>7 DEF assertNoCycle
  <2>2. /\ AssignShape(climbs) /\ climbs.op = "assign" /\ climbs.pc = "walk"
        /\ climbs.employee = t.employee /\ climbs.manager = t.manager
        /\ climbs.current = up.manager /\ climbs.visited = t.visited \cup {t.current}
        /\ climbs.crossed = t.crossed
    BY <1>1 DEF AssignShape
  <2> HIDE DEF climbs
  <2>3. up.manager \in Employees
    BY <1>1, <1>7 DEF LinesInv, LineTypes, Lines, Assignment
  <2>4. Assignment(climbs)
    BY <1>1, <2>2, <2>3 DEF Assignment
  <2>5. ~climbs.crossed => Walked(climbs)
    BY <1>1, <1>7, <2>2 DEF Walked
  <2> QED BY <2>1, <2>2, <2>4, <2>5, <1>3
<1> QED BY <1>4, <1>5, <1>6, <1>7

LEMMA LoadKeeps ==
    ASSUME LinesInv, NEW r \in Requests, findActivePrimary(r)
    PROVE  LinesInv'
<1> DEFINE t == tx[r]
           saves == [t EXCEPT !.pc = "save", !.active = line[t.employee]]
<1>1. /\ t.op = "assign" /\ t.pc = "load" /\ AssignShape(t) /\ Assignment(t)
      /\ ~t.crossed => Walked(t) /\ Circled(t)
  BY DEF findActivePrimary, At, LinesInv, Shapes, Shape, Assigns, Assigning, Known
<1>2. UNCHANGED lineVars /\ (Goes(r, Idle) \/ Goes(r, saves))
  BY DEF findActivePrimary, Ends
<1>3. /\ AssignShape(saves) /\ saves.op = "assign" /\ saves.pc = "save"
      /\ saves.employee = t.employee /\ saves.manager = t.manager
      /\ saves.current = t.current /\ saves.visited = t.visited
      /\ saves.crossed = t.crossed
  BY <1>1 DEF AssignShape
<1> HIDE DEF saves
<1>4. Shape(saves)
  BY <1>3, AnswerOps DEF Shape, Assigns, Answers
<1>5. Assignment(saves) /\ (~saves.crossed => Walked(saves) /\ Circled(saves))
  BY <1>1, <1>3 DEF Assignment, Walked, Circled
<1>6. ASSUME Goes(r, saves) PROVE LinesInv'
  BY <1>2, <1>4, <1>5, <1>6, SameLines
<1>7. ASSUME Goes(r, Idle) PROVE LinesInv'
  BY <1>2, <1>7, SameLines, IdleShape
<1> QED BY <1>2, <1>6, <1>7

(* The new line closes no circle: a circle through it would go on within   *)
(* the set that the assignment knows, and that had one before, then.       *)
LEMMA SaveKeeps ==
    ASSUME LinesInv, NEW r \in Requests, SaveAssignment(r)
    PROVE  LinesInv'
<1> DEFINE t == tx[r]
           e == t.employee
           m == t.manager
           new == [row |-> NewRow, manager |-> m]
<1>1. /\ Assigns(t) /\ AssignShape(t) /\ Assignment(t)
      /\ ~t.crossed => Walked(t) /\ Circled(t)
  BY DEF SaveAssignment, At, LinesInv, Shapes, Shape, Assigns, Assigning, Known
<1>2. /\ line' = [line EXCEPT ![e] = new] /\ rows' = NewRow
      /\ crossed' = [crossed EXCEPT ![e] = t.crossed] /\ tx' = Crossing(r)
  BY DEF SaveAssignment
<1>3. e \in Employees /\ m \in Employees /\ new.manager = m
  BY <1>1 DEF Assignment
<1>4. new \in Lines /\ NewRow \in Nat
  BY <1>3 DEF Lines, NewRow, LinesInv, LineTypes
<1>5. LineTypes'
  BY <1>1, <1>2, <1>4, <1>3 DEF LinesInv, LineTypes, Assignment
<1> HIDE DEF new
<1>6. Shapes'
  BY LinesFrame DEF LinesStep, LinesInv
<1>7. ASSUME NEW q \in Requests, Assigns(tx'[q])
      PROVE  tx'[q].crossed /\ Assignment(tx'[q])
  <2> DEFINE c == [tx[q] EXCEPT !.crossed = TRUE]
  <2>1. q # r
    BY <1>2, <1>7, IdleShape DEF Crossing
  <2>2. Assigns(tx[q]) /\ tx'[q] = c
    BY <1>2, <1>7, <2>1 DEF Crossing, Assigns
  <2>3. AssignShape(tx[q]) /\ Assignment(tx[q])
    BY <2>2 DEF LinesInv, Shapes, Shape, Assigning
  <2>4. /\ c.crossed /\ c.pc = tx[q].pc /\ c.employee = tx[q].employee
        /\ c.manager = tx[q].manager /\ c.current = tx[q].current
        /\ c.visited = tx[q].visited /\ c.crossed \in BOOLEAN
    BY <2>3 DEF AssignShape
  <2> HIDE DEF c
  <2> QED BY <2>2, <2>3, <2>4 DEF Assignment
<1>8. Assigning' /\ Known'
  BY <1>7 DEF Assigning, Known, Assigns, Assignment
<1>9. NoCircularChain'
  <2> SUFFICES ASSUME NEW S \in (SUBSET Employees) \ {{}}
               PROVE  \E x \in S : line'[x].manager \notin S \/ crossed'[x]
    BY DEF NoCircularChain
  <2>1. /\ \A x \in Employees \ {e} : line'[x] = line[x] /\ crossed'[x] = crossed[x]
        /\ line'[e].manager = m /\ crossed'[e] = t.crossed
    BY <1>2, <1>3 DEF LinesInv, LineTypes
  <2>2. CASE e \notin S
    BY <2>1, <2>2 DEF LinesInv, NoCircularChain
  <2>3. CASE e \in S /\ (t.crossed \/ m \notin S)
    BY <2>1, <2>3
  <2>4. CASE e \in S /\ ~t.crossed /\ m \in S
    <3> DEFINE T == S \cap t.visited
    <3>1. /\ e \notin t.visited /\ m \in t.visited
          /\ \A v \in t.visited : line[v].manager \in t.visited \cup {None}
      BY <1>1, <2>4 DEF Walked, Circled
    <3>2. T \in (SUBSET Employees) \ {{}}
      BY <3>1, <2>4
    <3>3. PICK x \in T : line[x].manager \notin T \/ crossed[x]
      BY <3>2 DEF LinesInv, NoCircularChain
    <3>4. x \in S /\ x \in Employees \ {e}
      BY <3>1, <3>3
    <3>5. line[x].manager \notin T => line[x].manager \notin S
      BY <3>1, <3>3
    <3> QED BY <2>1, <3>3, <3>4, <3>5
  <2> QED BY <2>2, <2>3, <2>4
<1> QED BY <1>5, <1>6, <1>8, <1>9 DEF LinesInv

LEMMA RemoveKeeps ==
    ASSUME LinesInv, NEW r \in Requests
    PROVE  /\ \A e \in Employees : remove(r, e) => LinesInv'
           /\ RejectAssignment(r) => LinesInv'
           /\ SaveRemoval(r) => LinesInv'
<1>1. ASSUME NEW e \in Employees, remove(r, e) PROVE LinesInv'
  <2> DEFINE t == [op |-> "remove", pc |-> "save", employee |-> e, active |-> line[e]]
  <2>1. Shape(t) /\ ~Assigns(t)
    BY AnswerOps DEF Shape, Assigns, Answers
  <2>2. Goes(r, t) /\ UNCHANGED lineVars
    BY <1>1 DEF remove, Begin
  <2> HIDE DEF t
  <2> QED BY <2>1, <2>2, SameLines
<1>2. ASSUME RejectAssignment(r) PROVE LinesInv'
  BY <1>2, SameLines, IdleShape DEF RejectAssignment, Ends
<1>3. ASSUME SaveRemoval(r) PROVE LinesInv'
  <2>1. Goes(r, Idle)
    BY <1>3 DEF SaveRemoval, Ends
  <2>2. Shapes' /\ AssignsKept
    BY <2>1, NotMine, IdleShape DEF LinesInv
  <2>3. UNCHANGED <<rows, crossed>>
    BY <1>3 DEF SaveRemoval
  <2>4. /\ line' \in [Employees -> Lines]
        /\ \A e \in Employees : line'[e] \in {line[e], NoLine}
    BY <1>3 DEF SaveRemoval, LinesInv, LineTypes, Lines
  <2> QED BY <2>2, <2>3, <2>4, FewerLines
<1> QED BY <1>1, <1>2, <1>3

LEMMA LinesInitially == Init => LinesInv
<1> SUFFICES ASSUME Init PROVE LinesInv
  OBVIOUS
<1>1. Shapes /\ \A r \in Requests : ~Assigns(tx[r])
  BY IdleShape DEF Init, PortalInit, Shapes
<1>2. LineTypes
  BY DEF Init, LinesInit, LineTypes, Lines
<1>3. NoCircularChain
  BY DEF Init, LinesInit, NoCircularChain, NoLine
<1> QED BY <1>1, <1>2, <1>3 DEF LinesInv, Assigning, Known

LEMMA LinesKept == LinesInv /\ [Next]_vars => LinesInv'
<1> SUFFICES ASSUME LinesInv, [Next]_vars PROVE LinesInv'
  OBVIOUS
<1>1. ASSUME Shapes', AssignsKept, UNCHANGED lineVars PROVE LinesInv'
  BY <1>1, FewerLines DEF LinesInv, LineTypes, lineVars
<1>2. CASE UNCHANGED vars
  <2>1. UNCHANGED <<tx, line, rows, crossed>>
    BY <1>2 DEF vars, portalVars, lineVars
  <2> QED BY <2>1, <1>1 DEF LinesInv, Shapes, AssignsKept, lineVars
<1>3. CASE NextDay /\ UNCHANGED <<lineVars, assessmentVars, roleVars, planVars>>
  BY <1>1, <1>3 DEF NextDay, LinesInv, Shapes, AssignsKept
<1>4. ASSUME NEW r \in Requests, LinesStep(r) PROVE LinesInv'
  BY <1>4, AssignKeeps, WalkKeeps, LoadKeeps, SaveKeeps, RemoveKeeps DEF LinesStep
<1>5. ASSUME NEW r \in Requests, AssessmentStep(r), UNCHANGED lineVars PROVE LinesInv'
  BY <1>1, <1>5, AnswersFrame DEF LinesInv
<1>6. ASSUME NEW r \in Requests, RolesStep(r), UNCHANGED lineVars PROVE LinesInv'
  BY <1>1, <1>6, RolesFrame DEF LinesInv
<1>7. ASSUME NEW r \in Requests, PlansStep(r), UNCHANGED lineVars PROVE LinesInv'
  BY <1>1, <1>7, PlansFrame DEF LinesInv
<1>8. CASE markExpiredSubscriptions /\ UNCHANGED lineVars
  BY <1>1, <1>8 DEF markExpiredSubscriptions, portalVars, LinesInv, Shapes, AssignsKept
<1>9. \/ UNCHANGED vars
      \/ NextDay /\ UNCHANGED <<lineVars, assessmentVars, roleVars, planVars>>
      \/ \E r \in Requests : LinesStep(r)
      \/ (\E r \in Requests : AssessmentStep(r)) /\ UNCHANGED lineVars
      \/ (\E r \in Requests : RolesStep(r)) /\ UNCHANGED lineVars
      \/ (markExpiredSubscriptions \/ \E r \in Requests : PlansStep(r)) /\ UNCHANGED lineVars
  BY DEF Next
<1> QED BY <1>2, <1>3, <1>4, <1>5, <1>6, <1>7, <1>8, <1>9

(* However many assignments and removals overlap: nobody becomes his own   *)
(* superior by assignments that no other one crossed.                      *)
THEOREM NoOneIsHisOwnSuperior == Spec => []NoCircularChain
<1>1. LinesInv => NoCircularChain
  BY DEF LinesInv
<1> QED BY <1>1, LinesInitially, LinesKept, PTL DEF Spec

-----------------------------------------------------------------------------
(* What a handler read of an assessment was signed, and stays signed; and  *)
(* the score it will save is that of the answers as they will be, unless   *)
(* it missed one.                                                          *)
Signed(status, row) ==
    /\ status \in Statuses
    /\ status \in {"SUBMITTED", "MANAGER_REVIEWED", "COMPLETED"} => row.submitted
    /\ status \in {"MANAGER_REVIEWED", "COMPLETED"} => row.managerReviewed
    /\ status = "COMPLETED" => row.hrReviewed

RowType ==
    assessment \in [status : Statuses, score : {assessment.score}, submitted : BOOLEAN,
                    managerReviewed : BOOLEAN, hrReviewed : BOOLEAN]
Reads ==
    \A r \in Requests : Answers(tx[r]) =>
        tx[r].read \in Accepts[tx[r].op] /\ Signed(tx[r].read, assessment)
UpToDate(t) == t.score = computeAssessmentScore(Saved(t))
Scores ==
    \A r \in Requests :
        Answers(tx[r]) /\ tx[r].op \in Own /\ tx[r].pc = "commit" /\ ~tx[r].missed =>
            UpToDate(tx[r])

AssessInv ==
    /\ Shapes /\ RowType /\ Reads /\ Scores
    /\ Signed(assessment.status, assessment)
    /\ ScoreMatchesAnswers

LEMMA RankIs ==
    /\ Rank["NONE"] = 0 /\ Rank["DRAFT"] = 1 /\ Rank["SUBMITTED"] = 2
    /\ Rank["MANAGER_REVIEWED"] = 3 /\ Rank["COMPLETED"] = 4
  BY DEF Rank

LEMMA AcceptsIs ==
    /\ Accepts["saveDraft"] = {"DRAFT", "SUBMITTED"}
    /\ Accepts["submit"] = {"DRAFT", "SUBMITTED"}
    /\ Accepts["managerDraft"] = {"SUBMITTED"}
    /\ Accepts["managerReview"] = {"SUBMITTED"}
    /\ Accepts["hrDraft"] = {"MANAGER_REVIEWED"}
    /\ Accepts["hrReview"] = {"MANAGER_REVIEWED"}
    /\ Accepts["roleReview"] = {"DRAFT", "SUBMITTED", "MANAGER_REVIEWED"}
  BY DEF Accepts

LEMMA StagesAreSigned == AssessInv => StagesSigned
  BY RankIs DEF AssessInv, Signed, StagesSigned, Statuses

(* Answers that agree on the scored questions have the same score.         *)
LEMMA ScoreOfScored ==
    ASSUME NEW A, NEW B, \A q \in Scored : A[q] = B[q]
    PROVE  computeAssessmentScore(A) = computeAssessmentScore(B)
<1>1. [q \in Scored |-> A[q]] = [q \in Scored |-> B[q]]
  OBVIOUS
<1> QED BY <1>1 DEF computeAssessmentScore

(* A step that leaves the assessment and its answers alone.                *)
LEMMA SameAssessment ==
    ASSUME AssessInv, NEW r \in Requests, NEW t, Shape(t), Goes(r, t), UNCHANGED assessmentVars,
           Answers(t) =>
               /\ t.read \in Accepts[t.op] /\ Signed(t.read, assessment)
               /\ t.op \in Own /\ t.pc = "commit" /\ ~t.missed => UpToDate(t)
    PROVE  AssessInv'
<1>1. Shapes' /\ tx'[r] = t /\ \A q \in Requests \ {r} : tx'[q] = tx[q]
  BY GoesTo DEF AssessInv
<1>2. assessment' = assessment /\ answers' = answers /\ scoreBehind' = scoreBehind
  BY DEF assessmentVars
<1>3. RowType' /\ Signed(assessment.status, assessment)' /\ ScoreMatchesAnswers'
  BY <1>2 DEF AssessInv, RowType, Signed, ScoreMatchesAnswers, computeAssessmentScore
<1>4. Reads'
  BY <1>1, <1>2 DEF AssessInv, Reads, Signed, Answers
<1>5. Scores'
  <2> SUFFICES ASSUME NEW q \in Requests, Answers(tx'[q]), tx'[q].op \in Own,
                      tx'[q].pc = "commit", ~tx'[q].missed
               PROVE  UpToDate(tx[q])'
    BY DEF Scores, Answers
  <2>1. UpToDate(tx'[q])
    BY <1>1 DEF AssessInv, Scores
  <2> QED BY <2>1, <1>2 DEF UpToDate, Saved, computeAssessmentScore
<1> QED BY <1>1, <1>3, <1>4, <1>5 DEF AssessInv

LEMMA AnswersKeep ==
    ASSUME AssessInv, Shapes', AnswersKept, UNCHANGED assessmentVars
    PROVE  AssessInv'
<1>1. assessment' = assessment /\ answers' = answers /\ scoreBehind' = scoreBehind
  BY DEF assessmentVars
<1>2. RowType' /\ Signed(assessment.status, assessment)' /\ ScoreMatchesAnswers'
  BY <1>1 DEF AssessInv, RowType, Signed, ScoreMatchesAnswers, computeAssessmentScore
<1>3. Reads'
  BY <1>1 DEF AssessInv, Reads, Signed, Answers, AnswersKept
<1>4. Scores'
  <2> SUFFICES ASSUME NEW q \in Requests, Answers(tx'[q]), tx'[q].op \in Own,
                      tx'[q].pc = "commit", ~tx'[q].missed
               PROVE  UpToDate(tx[q])'
    BY DEF Scores, Answers
  <2>1. UpToDate(tx'[q])
    BY DEF AssessInv, Scores, AnswersKept
  <2> QED BY <2>1, <1>1 DEF UpToDate, Saved, computeAssessmentScore
<1> QED BY <1>2, <1>3, <1>4 DEF AssessInv

LEMMA CreateKeeps ==
    ASSUME AssessInv, NEW r \in Requests, createAssessment(r) \/ InsertAssessment(r)
    PROVE  AssessInv'
<1>1. CASE createAssessment(r)
  <2> DEFINE t == [op |-> "create", pc |-> "insert"]
  <2>1. Shape(t) /\ ~Answers(t)
    BY AnswerOps DEF Shape, Assigns, Answers
  <2>2. Goes(r, t) /\ UNCHANGED assessmentVars
    BY <1>1 DEF createAssessment, Begin
  <2> HIDE DEF t
  <2> QED BY <2>1, <2>2, SameAssessment
<1>2. CASE InsertAssessment(r)
  <2>1. Goes(r, Idle) /\ answers' = answers /\ scoreBehind' = scoreBehind
    BY <1>2 DEF InsertAssessment, Ends
  <2>2. Shapes' /\ tx'[r] = Idle /\ \A q \in Requests \ {r} : tx'[q] = tx[q]
    BY <2>1, GoesTo, IdleShape DEF AssessInv
  <2>3. /\ assessment'.score = assessment.score
        /\ assessment'.submitted = assessment.submitted
        /\ assessment'.managerReviewed = assessment.managerReviewed
        /\ assessment'.hrReviewed = assessment.hrReviewed
        /\ assessment'.status \in {assessment.status, "DRAFT"}
        /\ RowType'
    BY <1>2 DEF InsertAssessment, NewAssessment, NoAssessment, AssessInv, RowType, Statuses
  <2>4. Signed(assessment.status, assessment)' /\ Reads'
    BY <2>2, <2>3, IdleShape DEF AssessInv, Reads, Signed, Answers, Statuses
  <2>5. ScoreMatchesAnswers'
    BY <2>1, <2>3 DEF AssessInv, ScoreMatchesAnswers, computeAssessmentScore
  <2>6. Scores'
    <3> SUFFICES ASSUME NEW q \in Requests, Answers(tx'[q]), tx'[q].op \in Own,
                        tx'[q].pc = "commit", ~tx'[q].missed
                 PROVE  UpToDate(tx[q])'
      BY DEF Scores, Answers
    <3>1. UpToDate(tx'[q])
      BY <2>2, IdleShape DEF AssessInv, Scores
    <3> QED BY <3>1, <2>1 DEF UpToDate, Saved, computeAssessmentScore
  <2> QED BY <2>2, <2>3, <2>4, <2>5, <2>6 DEF AssessInv
<1> QED BY <1>1, <1>2

LEMMA AnswerKeeps ==
    ASSUME AssessInv, NEW r \in Requests, NEW op \in DOMAIN Accepts, NEW q, NEW v,
           answer(r, op, q, v)
    PROVE  AssessInv'
<1> DEFINE t == [op |-> op, pc |-> IF q = None THEN AfterAnswers(op) ELSE "find",
                 q |-> q, v |-> v, read |-> assessment.status,
                 new |-> FALSE, score |-> Unscored, missed |-> FALSE]
<1>1. Shape(t)
  BY AnswerOps DEF Shape, Assigns, Answers, AnswerShape
<1>2. Goes(r, t) /\ UNCHANGED assessmentVars /\ assessment.status \in Accepts[op]
  BY DEF answer, Begin, Stage
<1>3. t.op = op /\ t.read = assessment.status /\ (op \in Own => t.pc # "commit")
  BY DEF AfterAnswers
<1> HIDE DEF t
<1> QED BY <1>1, <1>2, <1>3, SameAssessment DEF AssessInv

LEMMA WriteKeeps ==
    ASSUME AssessInv, NEW r \in Requests,
           FindAnswers(r) \/ SaveAnswer(r) \/ recomputeScore(r)
    PROVE  AssessInv'
<1>1. /\ Answers(tx[r]) /\ AnswerShape(tx[r])
      /\ tx[r].read \in Accepts[tx[r].op] /\ Signed(tx[r].read, assessment)
  <2>1. Answers(tx[r])
    BY AnswerOps DEF FindAnswers, SaveAnswer, recomputeScore, Own, Answers
  <2> QED BY <2>1 DEF AssessInv, Shapes, Shape, Reads
<1>2. UNCHANGED assessmentVars
  BY DEF FindAnswers, SaveAnswer, recomputeScore
<1>3. ASSUME Goes(r, Idle) PROVE AssessInv'
  BY <1>2, <1>3, SameAssessment, IdleShape
<1>4. ASSUME NEW t, AnswerShape(t), t.op = tx[r].op, t.read = tx[r].read, Goes(r, t),
             t.op \in Own /\ t.pc = "commit" => UpToDate(t)
      PROVE  AssessInv'
  <2>1. Shape(t) /\ Answers(t)
    BY <1>1, <1>4, AnswerOps DEF Shape, Assigns, Answers
  <2> QED BY <2>1, <1>1, <1>2, <1>4, SameAssessment
<1>5. CASE FindAnswers(r)
  <2> DEFINE b == answers[tx[r].q] = None
             t == [tx[r] EXCEPT !.pc = "save", !.new = b]
  <2>1. Goes(r, t)
    BY <1>5 DEF FindAnswers
  <2> HIDE DEF b
  <2>2. AnswerShape(t) /\ t.op = tx[r].op /\ t.read = tx[r].read /\ t.pc = "save"
    BY <1>1 DEF AnswerShape
  <2> HIDE DEF t
  <2> QED BY <2>1, <2>2, <1>4
<1>6. CASE SaveAnswer(r)
  <2> DEFINE t == [tx[r] EXCEPT !.pc = AfterAnswers(tx[r].op)]
  <2>1. Goes(r, t) \/ Goes(r, Idle)
    BY <1>6 DEF SaveAnswer, Ends
  <2>2. AnswerShape(t) /\ t.op = tx[r].op /\ t.read = tx[r].read
        /\ t.pc = AfterAnswers(tx[r].op)
    BY <1>1 DEF AnswerShape
  <2> HIDE DEF t
  <2> QED BY <2>1, <2>2, <1>3, <1>4 DEF AfterAnswers
<1>7. CASE recomputeScore(r)
  <2> DEFINE s == computeAssessmentScore(Saved(tx[r]))
             t == [tx[r] EXCEPT !.pc = "commit", !.score = s]
  <2>1. Goes(r, t)
    BY <1>7 DEF recomputeScore
  <2> HIDE DEF s
  <2>2. AnswerShape(t) /\ t.op = tx[r].op /\ t.read = tx[r].read
        /\ t.score = s /\ t.q = tx[r].q /\ t.v = tx[r].v
    BY <1>1 DEF AnswerShape
  <2> HIDE DEF t
  <2>3. UpToDate(t)
    BY <2>2 DEF UpToDate, Saved, s
  <2> QED BY <2>1, <2>2, <2>3, <1>4
<1> QED BY <1>5, <1>6, <1>7

LEMMA PatchIs ==
    ASSUME RowType, NEW op \in DOMAIN Accepts
    PROVE  LET row == Patched(op, assessment) IN
           /\ row \in [status : Statuses, score : {assessment.score}, submitted : BOOLEAN,
                       managerReviewed : BOOLEAN, hrReviewed : BOOLEAN]
           /\ assessment.submitted \/ op = "submit" => row.submitted
           /\ assessment.managerReviewed \/ op = "managerReview" => row.managerReviewed
           /\ assessment.hrReviewed \/ op = "hrReview" => row.hrReviewed
           /\ op = "submit" => row.status = "SUBMITTED"
           /\ op = "managerReview" => row.status = "MANAGER_REVIEWED"
           /\ op = "hrReview" => row.status = "COMPLETED"
           /\ op \notin {"submit", "managerReview", "hrReview"} =>
                  row.status = assessment.status
<1> DEFINE row == Patched(op, assessment)
<1>1. CASE op = "submit"
  <2>1. row = [assessment EXCEPT !.status = "SUBMITTED", !.submitted = TRUE]
    BY <1>1 DEF Patched
  <2> QED BY <1>1, <2>1 DEF RowType, Statuses
<1>2. CASE op = "managerDraft"
  <2>1. row = [assessment EXCEPT !.managerReviewed = TRUE]
    BY <1>2 DEF Patched
  <2> QED BY <1>2, <2>1 DEF RowType, Statuses
<1>3. CASE op = "managerReview"
  <2>1. row = [assessment EXCEPT !.status = "MANAGER_REVIEWED", !.managerReviewed = TRUE]
    BY <1>3 DEF Patched
  <2> QED BY <1>3, <2>1 DEF RowType, Statuses
<1>4. CASE op = "hrDraft"
  <2>1. row = [assessment EXCEPT !.hrReviewed = TRUE]
    BY <1>4 DEF Patched
  <2> QED BY <1>4, <2>1 DEF RowType, Statuses
<1>5. CASE op = "hrReview"
  <2>1. row = [assessment EXCEPT !.status = "COMPLETED", !.hrReviewed = TRUE]
    BY <1>5 DEF Patched
  <2> QED BY <1>5, <2>1 DEF RowType, Statuses
<1>6. CASE op \in {"saveDraft", "roleReview"}
  <2>1. row = assessment
    BY <1>6 DEF Patched
  <2> QED BY <1>6, <2>1 DEF RowType, Statuses
<1> QED BY <1>1, <1>2, <1>3, <1>4, <1>5, <1>6, AnswerOps

(* The row after a commit has the signatures it had and the one of the     *)
(* handler, whose stage follows from what it read.                         *)
LEMMA CommitRow ==
    ASSUME AssessInv, NEW r \in Requests, CommitAnswer(r)
    PROVE  /\ RowType'
           /\ \A s : Signed(s, assessment) => Signed(s, assessment')
           /\ Signed(assessment'.status, assessment')
           /\ tx[r].op \notin Own => assessment'.score = assessment.score
           /\ tx[r].op \in Own => assessment'.score = tx[r].score
           /\ tx[r].read = assessment.status =>
                  Rank[assessment'.status] >= Rank[assessment.status]
           /\ tx[r].read # "COMPLETED"
<1> DEFINE t == tx[r]
           op == t.op
           row == Patched(op, assessment)
<1>1. op \in DOMAIN Accepts /\ t.read \in Accepts[op] /\ Signed(t.read, assessment)
  BY DEF CommitAnswer, AssessInv, Reads, Answers
<1>2. assessment' = IF op \in Own THEN [row EXCEPT !.score = t.score] ELSE row
  BY DEF CommitAnswer
<1>3. /\ row \in [status : Statuses, score : {assessment.score}, submitted : BOOLEAN,
                   managerReviewed : BOOLEAN, hrReviewed : BOOLEAN]
      /\ assessment.submitted \/ op = "submit" => row.submitted
      /\ assessment.managerReviewed \/ op = "managerReview" => row.managerReviewed
      /\ assessment.hrReviewed \/ op = "hrReview" => row.hrReviewed
      /\ op = "submit" => row.status = "SUBMITTED"
      /\ op = "managerReview" => row.status = "MANAGER_REVIEWED"
      /\ op = "hrReview" => row.status = "COMPLETED"
      /\ op \notin {"submit", "managerReview", "hrReview"} =>
                  row.status = assessment.status
  BY <1>1, PatchIs DEF AssessInv
<1> HIDE DEF row
<1>4. /\ RowType'
      /\ assessment'.submitted = row.submitted
      /\ assessment'.managerReviewed = row.managerReviewed
      /\ assessment'.hrReviewed = row.hrReviewed
      /\ assessment'.status = row.status
      /\ assessment'.score = IF op \in Own THEN t.score ELSE row.score
  BY <1>2, <1>3 DEF RowType
<1>5. \A s : Signed(s, assessment) => Signed(s, assessment')
  BY <1>3, <1>4 DEF Signed
<1>6. Signed(row.status, assessment')
  <2>1. CASE op = "submit"
    BY <2>1, <1>3, <1>4 DEF Signed, Statuses
  <2>2. CASE op = "managerReview"
    <3>1. t.read = "SUBMITTED"
      BY <1>1, <2>2, AcceptsIs
    <3> QED BY <2>2, <3>1, <1>1, <1>3, <1>4 DEF Signed, Statuses
  <2>3. CASE op = "hrReview"
    <3>1. t.read = "MANAGER_REVIEWED"
      BY <1>1, <2>3, AcceptsIs
    <3> QED BY <2>3, <3>1, <1>1, <1>3, <1>4 DEF Signed, Statuses
  <2>4. CASE op \notin {"submit", "managerReview", "hrReview"}
    BY <2>4, <1>3, <1>5 DEF AssessInv
  <2> QED BY <2>1, <2>2, <2>3, <2>4
<1>7. t.read # "COMPLETED"
  BY <1>1, AcceptsIs, AnswerOps
<1>8. ASSUME t.read = assessment.status
      PROVE  Rank[row.status] >= Rank[assessment.status]
  <2>1. CASE op = "submit"
    <3>1. t.read \in {"DRAFT", "SUBMITTED"}
      BY <1>1, <2>1, AcceptsIs
    <3> QED BY <1>8, <2>1, <3>1, <1>3, RankIs
  <2>2. CASE op = "managerReview"
    <3>1. t.read = "SUBMITTED"
      BY <1>1, <2>2, AcceptsIs
    <3> QED BY <1>8, <2>2, <3>1, <1>3, RankIs
  <2>3. CASE op = "hrReview"
    <3>1. t.read = "MANAGER_REVIEWED"
      BY <1>1, <2>3, AcceptsIs
    <3> QED BY <1>8, <2>3, <3>1, <1>3, RankIs
  <2>4. CASE op \notin {"submit", "managerReview", "hrReview"}
    <3>1. row.status = assessment.status
      BY <2>4, <1>3
    <3>2. assessment.status \in Statuses
      BY DEF AssessInv, Signed
    <3> QED BY <3>1, <3>2, RankIs DEF Statuses
  <2> QED BY <2>1, <2>2, <2>3, <2>4
<1> QED BY <1>3, <1>4, <1>5, <1>6, <1>7, <1>8

LEMMA CommitKeeps ==
    ASSUME AssessInv, NEW r \in Requests, CommitAnswer(r)
    PROVE  AssessInv'
<1>1. Shapes'
  BY AnswersFrame DEF AssessmentStep, AssessInv
<1>2. /\ answers' = Saved(tx[r]) /\ tx' = Unseen(r) /\ Answers(tx[r]) /\ tx[r].pc = "commit"
      /\ scoreBehind' = IF tx[r].op \in Own THEN tx[r].missed
                        ELSE scoreBehind \/ tx[r].q \in Scored
  BY DEF CommitAnswer, Answers
<1>3. ASSUME NEW o \in Requests, Answers(tx'[o])
      PROVE  /\ o # r /\ Answers(tx[o]) /\ tx'[o].op = tx[o].op /\ tx'[o].read = tx[o].read
             /\ ~tx'[o].missed => tx'[o] = tx[o]
             /\ ~tx'[o].missed /\ tx[o].op \in Own /\ tx[o].pc = "commit" => tx[r].q \notin Scored
  <2> DEFINE c == [tx[o] EXCEPT !.missed = TRUE]
  <2>1. o # r
    BY <1>2, <1>3, IdleShape DEF Unseen
  <2>2. /\ tx'[o] \in {tx[o], c}
        /\ tx[o].op \in Own /\ tx[o].pc = "commit" /\ tx[r].q \in Scored => tx'[o] = c
        /\ tx'[o] # tx[o] => tx[o].op \in Own
    BY <1>2, <2>1 DEF Unseen
  <2>3. Answers(tx[o])
    BY <1>3, <2>2, AnswerOps DEF Own, Answers
  <2>4. c.missed /\ c.op = tx[o].op /\ c.read = tx[o].read
    BY <2>3 DEF AssessInv, Shapes, Shape, AnswerShape
  <2> HIDE DEF c
  <2> QED BY <2>1, <2>2, <2>3, <2>4
<1>4. RowType' /\ Signed(assessment.status, assessment)'
  BY CommitRow DEF Signed, RowType
<1>5. Reads'
  <2> SUFFICES ASSUME NEW o \in Requests, Answers(tx'[o])
               PROVE  tx'[o].read \in Accepts[tx'[o].op] /\ Signed(tx'[o].read, assessment')
    BY DEF Reads, Answers, Signed
  <2> QED BY <1>3, CommitRow DEF AssessInv, Reads
<1>6. Scores'
  <2> SUFFICES ASSUME NEW o \in Requests, Answers(tx'[o]), tx'[o].op \in Own,
                      tx'[o].pc = "commit", ~tx'[o].missed
               PROVE  UpToDate(tx[o])'
    BY DEF Scores, Answers
  <2>1. tx'[o] = tx[o] /\ tx[r].q \notin Scored /\ UpToDate(tx[o])
    BY <1>3 DEF AssessInv, Scores
  <2> DEFINE A == Saved(tx[o])
             B == [q \in Questions |-> IF q = tx[o].q THEN tx[o].v ELSE answers'[q]]
  <2>2. \A q \in Scored : A[q] = B[q]
    BY <1>2, <2>1 DEF Saved
  <2>3. Saved(tx[o])' = B
    BY <2>1 DEF Saved
  <2> HIDE DEF A, B
  <2>4. computeAssessmentScore(A) = computeAssessmentScore(B)
    BY <2>2, ScoreOfScored
  <2>5. tx'[o].score = computeAssessmentScore(B)
    BY <2>1, <2>4 DEF UpToDate, A
  <2> QED BY <2>3, <2>5 DEF UpToDate, computeAssessmentScore
<1>7. ScoreMatchesAnswers'
  <2> SUFFICES ASSUME ~scoreBehind' PROVE assessment'.score = computeAssessmentScore(answers')
    BY DEF ScoreMatchesAnswers, computeAssessmentScore
  <2>1. CASE tx[r].op \in Own
    BY <1>2, <2>1, CommitRow DEF AssessInv, Scores, UpToDate
  <2>2. CASE tx[r].op \notin Own
    <3>1. tx[r].q \notin Scored /\ ~scoreBehind
      BY <1>2, <2>2
    <3>2. \A q \in Scored : answers'[q] = answers[q]
      BY <1>2, <3>1 DEF Saved
    <3>3. computeAssessmentScore(answers') = computeAssessmentScore(answers)
      BY <3>2, ScoreOfScored
    <3> QED BY <2>2, <3>1, <3>3, CommitRow DEF AssessInv, ScoreMatchesAnswers
  <2> QED BY <2>1, <2>2
<1> QED BY <1>1, <1>4, <1>5, <1>6, <1>7 DEF AssessInv

LEMMA AssessInitially == Init => AssessInv
<1> SUFFICES ASSUME Init PROVE AssessInv
  OBVIOUS
<1>1. Shapes /\ \A r \in Requests : ~Answers(tx[r])
  BY IdleShape DEF Init, PortalInit, Shapes
<1>2. RowType /\ Signed(assessment.status, assessment)
  BY DEF Init, AssessmentInit, RowType, Signed, NoAssessment, Statuses
<1>3. ScoreMatchesAnswers
  <2>1. assessment.score = Unscored /\ \A q \in Scored : answers[q] = None
    BY DEF Init, AssessmentInit, NoAssessment
  <2> DEFINE A == [q \in Scored |-> answers[q]]
  <2>2. {q \in DOMAIN A : A[q] \notin {None, 0}} = {}
    BY <2>1
  <2> HIDE DEF A
  <2>3. Average(A) = Unscored
    BY <2>2 DEF Average
  <2> QED BY <2>1, <2>3 DEF ScoreMatchesAnswers, computeAssessmentScore, A
<1> QED BY <1>1, <1>2, <1>3 DEF AssessInv, Reads, Scores

LEMMA AssessKept == AssessInv /\ [Next]_vars => AssessInv'
<1> SUFFICES ASSUME AssessInv, [Next]_vars PROVE AssessInv'
  OBVIOUS
<1>1. CASE UNCHANGED vars
  <2>1. UNCHANGED tx /\ UNCHANGED assessmentVars
    BY <1>1 DEF vars, portalVars
  <2> QED BY <2>1, AnswersKeep DEF AssessInv, Shapes, AnswersKept
<1>2. CASE NextDay /\ UNCHANGED assessmentVars
  BY <1>2, AnswersKeep DEF NextDay, AssessInv, Shapes, AnswersKept
<1>3. ASSUME NEW r \in Requests, LinesStep(r), UNCHANGED assessmentVars PROVE AssessInv'
  BY <1>3, LinesFrame, AnswersKeep DEF AssessInv
<1>4. ASSUME NEW r \in Requests, AssessmentStep(r) PROVE AssessInv'
  BY <1>4, CreateKeeps, AnswerKeeps, WriteKeeps, CommitKeeps DEF AssessmentStep
<1>5. ASSUME NEW r \in Requests, RolesStep(r), UNCHANGED assessmentVars PROVE AssessInv'
  BY <1>5, RolesFrame, AnswersKeep DEF AssessInv
<1>6. ASSUME NEW r \in Requests, PlansStep(r), UNCHANGED assessmentVars PROVE AssessInv'
  BY <1>6, PlansFrame, AnswersKeep DEF AssessInv
<1>7. CASE markExpiredSubscriptions /\ UNCHANGED assessmentVars
  BY <1>7, AnswersKeep DEF markExpiredSubscriptions, portalVars, AssessInv, Shapes, AnswersKept
<1>8. \/ UNCHANGED vars
      \/ NextDay /\ UNCHANGED assessmentVars
      \/ (\E r \in Requests : LinesStep(r)) /\ UNCHANGED assessmentVars
      \/ \E r \in Requests : AssessmentStep(r)
      \/ (\E r \in Requests : RolesStep(r)) /\ UNCHANGED assessmentVars
      \/ (markExpiredSubscriptions \/ \E r \in Requests : PlansStep(r)) /\ UNCHANGED assessmentVars
  BY DEF Next
<1> QED BY <1>1, <1>2, <1>3, <1>4, <1>5, <1>6, <1>7, <1>8

LEMMA UndoesNothing ==
    ASSUME AssessInv, [Next]_vars, ~UNCHANGED assessmentVars,
           \/ Rank[assessment'.status] < Rank[assessment.status]
           \/ assessment.status = "COMPLETED" /\ answers' # answers
    PROVE  \E r \in Requests : tx[r].pc = "commit" /\ tx'[r] = Idle
                               /\ tx[r].read # assessment.status
<1>1. PICK r \in Requests : AssessmentStep(r)
  BY DEF Next, vars
<1>2. ~InsertAssessment(r)
  <2> SUFFICES ASSUME InsertAssessment(r) PROVE FALSE
    OBVIOUS
  <2>1. answers' = answers
    BY DEF InsertAssessment
  <2>2. Rank[assessment'.status] < Rank[assessment.status]
    BY <2>1
  <2>3. CASE assessment = NoAssessment
    <3>1. assessment.status = "NONE" /\ assessment'.status = "DRAFT"
      BY <2>3 DEF InsertAssessment, NoAssessment, NewAssessment
    <3> QED BY <2>2, <3>1, RankIs
  <2>4. CASE assessment' = assessment
    BY <2>2, <2>4, RankIs DEF AssessInv, Signed, Statuses
  <2> QED BY <2>3, <2>4 DEF InsertAssessment
<1>3. CommitAnswer(r)
  BY <1>1, <1>2 DEF AssessmentStep, createAssessment, answer, FindAnswers, SaveAnswer, recomputeScore
<1>4. tx[r].pc = "commit" /\ tx'[r] = Idle
  BY <1>3 DEF CommitAnswer, Unseen
<1>5. tx[r].read # assessment.status
  <2>1. /\ tx[r].read = assessment.status =>
                Rank[assessment'.status] >= Rank[assessment.status]
        /\ tx[r].read # "COMPLETED"
    BY <1>3, CommitRow
  <2>2. Rank[assessment.status] \in Int /\ Rank[assessment'.status] \in Int
    <3>1. assessment.status \in Statuses /\ assessment'.status \in Statuses
      BY <1>3, CommitRow DEF AssessInv, Signed
    <3> QED BY <3>1, RankIs DEF Statuses
  <2> QED BY <2>1, <2>2
<1> QED BY <1>4, <1>5

(* No assessment is with HR that no manager reviewed, or completed that HR *)
(* did not review, however submissions and reviews overlap.                *)
THEOREM StagesAreAlwaysSigned == Spec => []StagesSigned
  BY StagesAreSigned, AssessInitially, AssessKept, PTL DEF Spec

(* The score is that of the answers unless a commit that counts came in    *)
(* between.                                                                *)
THEOREM ScoreIsOfTheAnswers == Spec => []ScoreMatchesAnswers
<1>1. AssessInv => ScoreMatchesAnswers
  BY DEF AssessInv
<1> QED BY <1>1, AssessInitially, AssessKept, PTL DEF Spec

(* Only a handler that had seen another status takes an assessment back or *)
(* changes the answers of a completed one.                                 *)
THEOREM OnlyOutdatedStepsUndo == Spec => NothingUndone
<1>1. AssessInv /\ [Next]_vars =>
        [ (\/ Rank[assessment'.status] < Rank[assessment.status]
           \/ assessment.status = "COMPLETED" /\ answers' # answers)
          => \E r \in Requests : tx[r].pc = "commit" /\ tx'[r] = Idle
                                 /\ tx[r].read # assessment.status ]_assessmentVars
  BY UndoesNothing
<1> QED BY <1>1, AssessInitially, AssessKept, PTL DEF Spec, NothingUndone

-----------------------------------------------------------------------------
(* Edits of roles and renewals of plans: no step of another component      *)
(* touches the handler of one.                                             *)

Busy ==
    \A r \in Requests :
        /\ tx[r].op = "edit" => tx[r].pc \in {"delete", "insert"}
        /\ tx[r].op = "renew" => tx[r].pc \in {"supersede", "insert"}

Untouched(K) ==
    \A q \in Requests : tx[q].op \in K \/ tx'[q].op \in K => tx'[q] = tx[q]

LEMMA GoesLeaves ==
    ASSUME Shapes, NEW r \in Requests, NEW t, Goes(r, t), NEW K,
           tx[r].op \notin K, t.op \notin K
    PROVE  Untouched(K)
  BY DEF Goes, Shapes, Untouched

LEMMA BeginLeaves ==
    ASSUME Shapes, Busy, NEW r \in Requests, NEW t, Begin(r, t),
           NEW K \in SUBSET {"edit", "renew"}, t.op \notin K
    PROVE  Untouched(K)
<1>1. tx[r].op \notin K
  BY DEF Begin, Busy
<1> QED BY <1>1, GoesLeaves DEF Begin

LEMMA LinesLeave ==
    ASSUME Shapes, Busy, NEW r \in Requests, LinesStep(r),
           NEW K \in SUBSET {"edit", "renew"}
    PROVE  Untouched(K)
<1>0. Idle.op = "none"
  BY DEF Idle
<1>1. ASSUME NEW e \in Employees, remove(r, e) PROVE Untouched(K)
  <2> DEFINE t == [op |-> "remove", pc |-> "save", employee |-> e, active |-> line[e]]
  <2>1. Begin(r, t) /\ t.op \notin K
    BY <1>1 DEF remove
  <2> HIDE DEF t
  <2> QED BY <2>1, BeginLeaves
<1>2. ASSUME NEW e \in Employees, NEW m \in Employees, assignOrChange(r, e, m)
      PROVE  Untouched(K)
  <2> DEFINE t == [op |-> "assign", pc |-> "walk", employee |-> e, manager |-> m,
                   current |-> m, visited |-> {}, active |-> NoLine, crossed |-> FALSE]
  <2>1. Begin(r, t) /\ t.op \notin K
    BY <1>2 DEF assignOrChange
  <2> HIDE DEF t
  <2> QED BY <2>1, BeginLeaves
<1>3. ASSUME NEW t, t.op \in {"assign", "none"}, Goes(r, t), tx[r].op \in {"assign", "remove"}
      PROVE  Untouched(K)
  <2>1. t.op \notin K /\ tx[r].op \notin K
    BY <1>3
  <2> QED BY <2>1, <1>3, GoesLeaves
<1>4. ASSUME assertNoCycle(r) PROVE Untouched(K)
  <2> DEFINE t == tx[r]
             up == line[t.current]
             loads == [t EXCEPT !.pc = "load"]
             ends  == [t EXCEPT !.pc = "load", !.visited = @ \cup {t.current}]
             climbs == [t EXCEPT !.current = up.manager, !.visited = @ \cup {t.current}]
  <2>1. t.op = "assign" /\ AssignShape(t)
    BY <1>4 DEF assertNoCycle, At, Shapes, Shape, Assigns
  <2>2. \/ Goes(r, Idle)
        \/ Goes(r, loads)
        \/ Goes(r, IF up = NoLine THEN ends ELSE climbs)
    BY <1>4 DEF assertNoCycle, Ends
  <2>3. \A x \in {loads, ends, climbs} : x.op = "assign"
    BY <2>1 DEF AssignShape
  <2> HIDE DEF loads, ends, climbs
  <2> QED BY <2>1, <2>2, <2>3, <1>0, <1>3
<1>5. ASSUME findActivePrimary(r) PROVE Untouched(K)
  <2> DEFINE t == tx[r]
             saves == [t EXCEPT !.pc = "save", !.active = line[t.employee]]
  <2>1. t.op = "assign" /\ AssignShape(t)
    BY <1>5 DEF findActivePrimary, At, Shapes, Shape, Assigns
  <2>2. Goes(r, Idle) \/ Goes(r, saves)
    BY <1>5 DEF findActivePrimary, Ends
  <2>3. saves.op = "assign"
    BY <2>1 DEF AssignShape
  <2> HIDE DEF saves
  <2> QED BY <2>1, <2>2, <2>3, <1>0, <1>3
<1>6. ASSUME SaveAssignment(r) PROVE Untouched(K)
  <2> SUFFICES ASSUME NEW q \in Requests, tx[q].op \in K \/ tx'[q].op \in K
               PROVE  tx'[q] = tx[q]
    BY DEF Untouched
  <2> DEFINE c == [tx[q] EXCEPT !.crossed = TRUE]
  <2>1. tx'[q] = IF q = r THEN Idle ELSE IF Assigns(tx[q]) THEN c ELSE tx[q]
    BY <1>6 DEF SaveAssignment, Crossing, Assigns
  <2>2. tx[r].op = "assign"
    BY <1>6 DEF SaveAssignment, At
  <2>3. Assigns(tx[q]) => c.op = "assign"
    BY DEF Shapes, Shape, Assigns, AssignShape
  <2> HIDE DEF c
  <2> QED BY <2>1, <2>2, <2>3, <1>0 DEF Assigns
<1>7. ASSUME RejectAssignment(r) \/ SaveRemoval(r) PROVE Untouched(K)
  <2>1. Goes(r, Idle) /\ tx[r].op \in {"assign", "remove"}
    BY <1>7 DEF RejectAssignment, SaveRemoval, Ends, At
  <2> QED BY <2>1, <1>0, <1>3
<1> QED BY <1>1, <1>2, <1>4, <1>5, <1>6, <1>7 DEF LinesStep

LEMMA AssessmentLeaves ==
    ASSUME Shapes, Busy, NEW r \in Requests, AssessmentStep(r),
           NEW K \in SUBSET {"edit", "renew"}
    PROVE  Untouched(K)
<1> USE AnswerOps
<1>0. Idle.op = "none"
  BY DEF Idle
<1>1. ASSUME createAssessment(r) PROVE Untouched(K)
  <2> DEFINE t == [op |-> "create", pc |-> "insert"]
  <2>1. Begin(r, t) /\ t.op \notin K
    BY <1>1 DEF createAssessment
  <2> HIDE DEF t
  <2> QED BY <2>1, BeginLeaves
<1>2. ASSUME NEW t, Answers(t) \/ t = Idle, Goes(r, t), tx[r].op = "create" \/ Answers(tx[r])
      PROVE  Untouched(K)
  <2>1. t.op \notin K /\ tx[r].op \notin K
    BY <1>0, <1>2 DEF Answers
  <2> QED BY <2>1, <1>2, GoesLeaves
<1>3. ASSUME InsertAssessment(r) PROVE Untouched(K)
  <2>1. Goes(r, Idle) /\ tx[r].op = "create"
    BY <1>3 DEF InsertAssessment, Ends, At
  <2> QED BY <2>1, <1>2
<1>4. ASSUME NEW op \in DOMAIN Accepts, NEW q, NEW v, answer(r, op, q, v)
      PROVE  Untouched(K)
  <2> DEFINE t == [op |-> op, pc |-> IF q = None THEN AfterAnswers(op) ELSE "find",
                   q |-> q, v |-> v, read |-> assessment.status,
                   new |-> FALSE, score |-> Unscored, missed |-> FALSE]
  <2>1. Begin(r, t) /\ t.op \notin K
    BY <1>4 DEF answer
  <2> HIDE DEF t
  <2> QED BY <2>1, BeginLeaves
<1>5. ASSUME FindAnswers(r) PROVE Untouched(K)
  <2> DEFINE t == [tx[r] EXCEPT !.pc = "save", !.new = answers[tx[r].q] = None]
  <2>1. Answers(tx[r]) /\ AnswerShape(tx[r])
    BY <1>5 DEF FindAnswers, Shapes, Shape, Answers
  <2>2. Answers(t)
    BY <2>1 DEF AnswerShape, Answers
  <2>3. Goes(r, t)
    BY <1>5 DEF FindAnswers
  <2> HIDE DEF t
  <2> QED BY <2>1, <2>2, <2>3, <1>2
<1>6. ASSUME SaveAnswer(r) PROVE Untouched(K)
  <2> DEFINE t == [tx[r] EXCEPT !.pc = AfterAnswers(tx[r].op)]
  <2>1. Answers(tx[r]) /\ AnswerShape(tx[r])
    BY <1>6 DEF SaveAnswer, Shapes, Shape, Answers
  <2>2. Answers(t)
    BY <2>1 DEF AnswerShape, Answers
  <2>3. Goes(r, t) \/ Goes(r, Idle)
    BY <1>6 DEF SaveAnswer, Ends
  <2> HIDE DEF t
  <2> QED BY <2>1, <2>2, <2>3, <1>2
<1>7. ASSUME recomputeScore(r) PROVE Untouched(K)
  <2> DEFINE s == computeAssessmentScore(Saved(tx[r]))
             t == [tx[r] EXCEPT !.pc = "commit", !.score = s]
  <2>1. Answers(tx[r]) /\ AnswerShape(tx[r])
    BY <1>7 DEF recomputeScore, Shapes, Shape, Answers, Own
  <2>2. Goes(r, t)
    BY <1>7 DEF recomputeScore
  <2> HIDE DEF s
  <2>3. Answers(t)
    BY <2>1 DEF AnswerShape, Answers
  <2> HIDE DEF t
  <2> QED BY <2>1, <2>2, <2>3, <1>2
<1>8. ASSUME CommitAnswer(r) PROVE Untouched(K)
  <2> SUFFICES ASSUME NEW q \in Requests, tx[q].op \in K \/ tx'[q].op \in K
               PROVE  tx'[q] = tx[q]
    BY DEF Untouched
  <2> DEFINE c == [tx[q] EXCEPT !.missed = TRUE]
  <2>1. tx' = Unseen(r) /\ Answers(tx[r])
    BY <1>8 DEF CommitAnswer, Answers
  <2>2. \/ q = r /\ tx'[q] = Idle
        \/ tx'[q] = tx[q] \/ (tx'[q] = c /\ Answers(tx[q]))
    BY <2>1 DEF Unseen, Own, Answers
  <2>3. Answers(tx[q]) => Answers(c)
    BY DEF Shapes, Shape, Answers, AnswerShape
  <2> HIDE DEF c
  <2> QED BY <2>1, <2>2, <2>3, <1>0 DEF Answers
<1> QED BY <1>1, <1>3, <1>4, <1>5, <1>6, <1>7, <1>8 DEF AssessmentStep

LEMMA RolesLeave ==
    ASSUME Shapes, Busy, NEW r \in Requests, RolesStep(r)
    PROVE  Untouched({"renew"}) /\ Busy'
<1>0. Idle.op = "none" /\ Idle.pc = "idle"
  BY DEF Idle
<1> DEFINE Goal == Untouched({"renew"}) /\ Busy'
<1>1. ASSUME NEW owner, NEW choice, StartEdit(r, owner, choice) PROVE Goal
  <2> DEFINE n == [op |-> "edit", pc |-> "delete", owner |-> owner, choice |-> choice,
                   left |-> choice.items,
                   alone |-> \A o \in Requests : ~Editing(o, owner)]
  <2>1. /\ tx[r].pc = "idle"
        /\ tx' = [q \in Requests |->
                 IF q = r THEN n
                 ELSE IF Editing(q, owner) THEN [tx[q] EXCEPT !.alone = FALSE] ELSE tx[q]]
    BY <1>1 DEF StartEdit
  <2>2. n.op = "edit" /\ n.pc = "delete"
    OBVIOUS
  <2>3. ASSUME NEW q \in Requests, Editing(q, owner)
        PROVE  LET c == [tx[q] EXCEPT !.alone = FALSE] IN
               tx[q].op = "edit" /\ c.op = "edit" /\ c.pc = tx[q].pc
    BY <2>3 DEF Shapes, Shape, Editing, EditShape
  <2> HIDE DEF n
  <2>4. ASSUME NEW q \in Requests
        PROVE  /\ tx[q].op = "renew" \/ tx'[q].op = "renew" => tx'[q] = tx[q]
               /\ tx'[q].op = "edit" => tx'[q].pc \in {"delete", "insert"}
    <3>1. CASE q = r
      <4>1. tx[q].op # "renew"
        BY <2>1, <3>1 DEF Busy
      <4> QED BY <2>1, <2>2, <3>1, <4>1
    <3>2. CASE q # r /\ Editing(q, owner)
      <4> DEFINE c == [tx[q] EXCEPT !.alone = FALSE]
      <4>1. tx'[q] = c
        BY <2>1, <3>2
      <4>2. tx[q].op = "edit" /\ c.op = "edit" /\ c.pc = tx[q].pc
        BY <2>3, <3>2
      <4> HIDE DEF c
      <4> QED BY <4>1, <4>2 DEF Busy
    <3>3. CASE q # r /\ ~Editing(q, owner)
      BY <2>1, <3>3 DEF Busy
    <3> QED BY <3>1, <3>2, <3>3
  <2> QED BY <2>4 DEF Untouched, Busy
<1>2. ASSUME NEW t, Goes(r, t), tx[r].op = "edit", t.op \in {"edit", "none"},
             t.op = "edit" => t.pc \in {"delete", "insert"}
      PROVE  Goal
  <2>1. Untouched({"renew"})
    BY <1>2, GoesLeaves
  <2>2. Busy'
    BY <1>2 DEF Goes, Busy, Shapes
  <2> QED BY <2>1, <2>2
<1>3. ASSUME Ends(r), tx[r].op = "edit" PROVE Goal
  <2>1. Goes(r, Idle)
    BY <1>3 DEF Ends
  <2> QED BY <2>1, <1>0, <1>2, <1>3
<1>4. ASSUME Goes(r, [tx[r] EXCEPT !.pc = "insert"]), tx[r].op = "edit" PROVE Goal
  <2> DEFINE c == [tx[r] EXCEPT !.pc = "insert"]
  <2>1. c.op = "edit" /\ c.pc = "insert"
    BY <1>4 DEF Shapes, Shape, EditShape
  <2>2. Goes(r, c)
    BY <1>4
  <2> HIDE DEF c
  <2> QED BY <2>1, <2>2, <1>2, <1>4
<1>5. ASSUME InsertLink(r) PROVE Goal
  <2>1. PICK item \in tx[r].left : Goes(r, [tx[r] EXCEPT !.left = @ \ {item}])
    BY <1>5 DEF InsertLink
  <2>2. tx[r].op = "edit" /\ tx[r].pc = "insert"
    BY <1>5 DEF InsertLink, At
  <2> DEFINE c == [tx[r] EXCEPT !.left = @ \ {item}]
  <2>3. c.op = "edit" /\ c.pc = "insert"
    BY <2>2 DEF Shapes, Shape, EditShape
  <2>4. Goes(r, c)
    BY <2>1
  <2> HIDE DEF c
  <2> QED BY <2>2, <2>3, <2>4, <1>2
<1>6. ASSUME DeleteLinks(r) PROVE Goal
  BY <1>4, <1>6 DEF DeleteLinks, At
<1>7. ASSUME EndOfPermissions(r) \/ syncLegacyEmployeeRole(r) \/ FailEdit(r) PROVE Goal
  BY <1>3, <1>7 DEF EndOfPermissions, syncLegacyEmployeeRole, FailEdit, Done, At
<1> QED BY <1>1, <1>5, <1>6, <1>7 DEF RolesStep, assignEmployeeRoles, updateRolePermissions

LEMMA PlansLeave ==
    ASSUME Shapes, Busy, NEW r \in Requests, PlansStep(r)
    PROVE  Untouched({"edit"}) /\ Busy'
<1>0. Idle.op = "none" /\ Idle.pc = "idle"
  BY DEF Idle
<1> DEFINE Goal == Untouched({"edit"}) /\ Busy'
<1>1. ASSUME NEW t, Goes(r, t), tx[r].op # "edit", t.op # "edit",
             t.op = "renew" => t.pc \in {"supersede", "insert"}
      PROVE  Goal
  <2>1. Untouched({"edit"})
    BY <1>1, GoesLeaves
  <2>2. Busy'
    BY <1>1 DEF Goes, Busy, Shapes
  <2> QED BY <2>1, <2>2
<1>2. ASSUME NEW t, Begin(r, t), t.op # "edit",
             t.op = "renew" => t.pc \in {"supersede", "insert"}
      PROVE  Goal
  <2>1. tx[r].op # "edit" /\ Goes(r, t)
    BY <1>2 DEF Begin, Busy
  <2> QED BY <2>1, <1>1, <1>2
<1>3. ASSUME NEW period \in Periods, create(r, period) PROVE Goal
  <2> DEFINE t == [op |-> "subscribe", pc |-> "insert", old |-> 0, expires |-> today + period]
  <2>1. Begin(r, t) /\ t.op = "subscribe"
    BY <1>3 DEF create
  <2> HIDE DEF t
  <2> QED BY <2>1, <1>2
<1>4. ASSUME NEW period \in Periods, renew(r, period) PROVE Goal
  <2> DEFINE t == [op |-> "renew", pc |-> IF Active = {} THEN "insert" ELSE "supersede",
                   old |-> IF Active = {} THEN 0 ELSE Min(Active), expires |-> today + period]
  <2>1. Begin(r, t)
    BY <1>4 DEF renew
  <2>2. t.op = "renew" /\ t.pc \in {"supersede", "insert"}
    OBVIOUS
  <2> HIDE DEF t
  <2> QED BY <2>1, <2>2, <1>2
<1>5. ASSUME Supersede(r) PROVE Goal
  <2> DEFINE t == [tx[r] EXCEPT !.pc = "insert"]
  <2>1. tx[r].op = "renew" /\ Goes(r, t)
    BY <1>5 DEF Supersede, At
  <2>2. t.op = "renew" /\ t.pc = "insert"
    BY <2>1 DEF Shapes, Shape, PlanShape
  <2> HIDE DEF t
  <2> QED BY <2>1, <2>2, <1>1
<1>6. ASSUME InsertPlan(r) \/ FailPlan(r) PROVE Goal
  <2>1. Goes(r, Idle) /\ tx[r].op # "edit"
    BY <1>6 DEF InsertPlan, FailPlan, Ends
  <2> QED BY <2>1, <1>0, <1>1
<1> QED BY <1>3, <1>4, <1>5, <1>6 DEF PlansStep

(* Whatever happens, handlers keep their shapes, and are either at an      *)
(* edit, at a renewal or at something else.                                *)
Sane == Shapes /\ Busy

Others == {"edit", "renew"}

LEMMA LeavesBusy == ASSUME Busy, Untouched(Others) PROVE Busy'
  BY DEF Busy, Untouched, Others

(* A step is one of the roles, one of the plans, or touches neither.       *)
LEMMA StepsApart ==
    ASSUME Sane, [Next]_vars
    PROVE  /\ Sane'
           /\ \/ Untouched(Others) /\ UNCHANGED <<roleVars, planVars>>
              \/ /\ UNCHANGED planVars /\ Untouched({"renew"})
                 /\ \E r \in Requests : RolesStep(r)
              \/ /\ UNCHANGED roleVars /\ Untouched({"edit"})
                 /\ \/ markExpiredSubscriptions /\ Untouched(Others)
                    \/ \E r \in Requests : PlansStep(r)
<1> USE DEF Sane
<1>1. CASE UNCHANGED vars
  <2>1. tx' = tx /\ UNCHANGED <<roleVars, planVars>>
    BY <1>1 DEF vars, portalVars
  <2> QED BY <2>1, LeavesBusy DEF Untouched, Shapes
<1>2. CASE NextDay /\ UNCHANGED <<lineVars, assessmentVars, roleVars, planVars>>
  <2>1. tx' = tx
    BY <1>2 DEF NextDay
  <2> QED BY <2>1, <1>2, LeavesBusy DEF Untouched, Shapes
<1>3. CASE \E r \in Requests : LinesStep(r) /\ UNCHANGED <<assessmentVars, roleVars, planVars>>
  <2>1. Shapes' /\ Untouched(Others)
    BY <1>3, LinesFrame, LinesLeave DEF Others
  <2> QED BY <2>1, <1>3, LeavesBusy
<1>4. CASE \E r \in Requests : AssessmentStep(r) /\ UNCHANGED <<lineVars, roleVars, planVars>>
  <2>1. Shapes' /\ Untouched(Others)
    BY <1>4, AnswersFrame, AssessmentLeaves DEF Others
  <2> QED BY <2>1, <1>4, LeavesBusy
<1>5. CASE \E r \in Requests : RolesStep(r) /\ UNCHANGED <<lineVars, assessmentVars, planVars>>
  BY <1>5, RolesFrame, RolesLeave
<1>6. CASE markExpiredSubscriptions /\ UNCHANGED <<lineVars, assessmentVars, roleVars>>
  <2>1. tx' = tx
    BY <1>6 DEF markExpiredSubscriptions, portalVars
  <2> QED BY <2>1, <1>6, LeavesBusy DEF Untouched, Shapes
<1>7. CASE \E r \in Requests : PlansStep(r) /\ UNCHANGED <<lineVars, assessmentVars, roleVars>>
  BY <1>7, PlansFrame, PlansLeave
<1> QED BY <1>1, <1>2, <1>3, <1>4, <1>5, <1>6, <1>7 DEF Next

-----------------------------------------------------------------------------
(* Roles and permissions.                                                  *)

USE RolesAssumption

(* The links that the edit t of the handler r has inserted so far.         *)
MadeBy(r, t, x) ==
    [owner |-> t.owner, item |-> x, by |-> r, primary |-> x = t.choice.primary]
LinksMade(r, t) == {MadeBy(r, t, x) : x \in t.choice.items \ t.left}

EditOk(t) ==
    /\ t.owner \in Owners
    /\ t.left \subseteq t.choice.items /\ IsFiniteSet(t.choice.items)
    /\ t.pc \in {"delete", "insert"}
    /\ t.pc = "delete" => t.left = t.choice.items

RoleTypes ==
    /\ torn = [o \in Owners |-> torn[o]]
    /\ wanted = [o \in Owners |-> wanted[o]]
    /\ legacy = [e \in RoleHolders |-> legacy[e]]
Edits == \A r \in Requests : tx[r].op = "edit" => EditOk(tx[r])

(* Of two edits of one owner, neither runs alone; and the links of an      *)
(* owner whose edit runs alone are those that the edit inserted.           *)
Apart ==
    \A r, q \in Requests :
        /\ r # q /\ tx[r].op = "edit"
        /\ tx[q].op = "edit" /\ tx[q].owner = tx[r].owner
        => ~tx[r].alone
Inserted ==
    \A r \in Requests :
        tx[r].op = "edit" /\ tx[r].alone /\ tx[r].pc = "insert" =>
            LinksOf(tx[r].owner) = LinksMade(r, tx[r])

RoleInv == Sane /\ RoleTypes /\ Edits /\ Apart /\ Inserted /\ LinksAsAssigned

Assigned(o) ==
    /\ {l.item : l \in LinksOf(o)} = wanted[o].items
    /\ Cardinality(LinksOf(o)) = Cardinality(wanted[o].items)
    /\ o \in RoleHolders =>
         /\ \A l \in LinksOf(o) : l.primary <=> l.item = wanted[o].primary
         /\ RecordFits(wanted[o], legacy[o])

(* What is known of an owner stays, as long as nothing about him changes.  *)
Kept(o) ==
    /\ LinksOf(o)' = LinksOf(o)
    /\ torn'[o] = torn[o] /\ wanted'[o] = wanted[o]
    /\ o \in RoleHolders => legacy'[o] = legacy[o]

LEMMA KeptAsAssigned ==
    ASSUME LinksAsAssigned, NEW o \in Owners, Kept(o),
           \A q \in Requests : Editing(q, o)' <=> Editing(q, o),
           ~torn'[o], \A q \in Requests : ~Editing(q, o)'
    PROVE  Assigned(o)'
<1>1. ~torn[o] /\ \A q \in Requests : ~Editing(q, o)
  BY DEF Kept
<1>2. Assigned(o)
  BY <1>1 DEF LinksAsAssigned, Assigned
<1> QED BY <1>2 DEF Assigned, Kept

LEMMA RolesUntouched ==
    ASSUME RoleInv, Sane', Untouched({"edit"}), UNCHANGED roleVars
    PROVE  RoleInv'
<1>1. /\ links' = links /\ legacy' = legacy /\ wanted' = wanted /\ torn' = torn
  BY DEF roleVars
<1>2. \A q \in Requests : tx[q].op = "edit" \/ tx'[q].op = "edit" => tx'[q] = tx[q]
  BY DEF Untouched
<1>3. RoleTypes'
  BY <1>1 DEF RoleInv, RoleTypes
<1>4. Edits'
  BY <1>2 DEF RoleInv, Edits, EditOk
<1>5. Apart'
  BY <1>2 DEF RoleInv, Apart, Editing
<1>6. Inserted'
  BY <1>1, <1>2 DEF RoleInv, Inserted, LinksOf, LinksMade, MadeBy
<1>7. LinksAsAssigned'
  <2> SUFFICES ASSUME NEW o \in Owners, ~torn'[o], \A q \in Requests : ~Editing(q, o)'
               PROVE  Assigned(o)'
    BY DEF LinksAsAssigned, Assigned
  <2>1. \A q \in Requests : Editing(q, o)' <=> Editing(q, o)
    BY <1>2 DEF Editing
  <2>2. Kept(o)
    BY <1>1 DEF Kept, LinksOf
  <2> QED BY <2>1, <2>2, KeptAsAssigned DEF RoleInv
<1> QED BY <1>3, <1>4, <1>5, <1>6, <1>7 DEF RoleInv

(* An edit starts: whatever runs on the same owner is alone no more.       *)
LEMMA StartKeepsRoles ==
    ASSUME RoleInv, Sane', NEW r \in Requests, NEW owner \in Owners, NEW choice,
           StartEdit(r, owner, choice), IsFiniteSet(choice.items)
    PROVE  RoleInv'
<1> DEFINE n == [op |-> "edit", pc |-> "delete", owner |-> owner, choice |-> choice,
                 left |-> choice.items,
                 alone |-> \A o \in Requests : ~Editing(o, owner)]
<1>1. /\ tx[r].pc = "idle"
      /\ tx' = [q \in Requests |->
               IF q = r THEN n
               ELSE IF Editing(q, owner) THEN [tx[q] EXCEPT !.alone = FALSE] ELSE tx[q]]
      /\ links' = links /\ legacy' = legacy /\ wanted' = wanted /\ torn' = torn
  BY DEF StartEdit, roleVars
<1>2. /\ n.op = "edit" /\ n.pc = "delete" /\ n.owner = owner /\ n.choice = choice
      /\ n.left = choice.items
      /\ (\E o \in Requests : Editing(o, owner)) => ~n.alone
  OBVIOUS
<1>3. EditOk(n)
  BY <1>2 DEF EditOk
<1> HIDE DEF n
<1>4. tx'[r] = n /\ tx[r].op # "edit"
  BY <1>1 DEF RoleInv, Sane, Busy
<1>5. ASSUME NEW q \in Requests, q # r, Editing(q, owner)
      PROVE  /\ tx[q].op = "edit" /\ tx'[q].op = "edit" /\ ~tx'[q].alone
             /\ tx'[q].owner = tx[q].owner /\ tx'[q].choice = tx[q].choice
             /\ tx'[q].left = tx[q].left /\ tx'[q].pc = tx[q].pc
  <2> DEFINE c == [tx[q] EXCEPT !.alone = FALSE]
  <2>1. tx'[q] = c
    BY <1>1, <1>5
  <2>2. /\ tx[q].op = "edit" /\ c.op = "edit" /\ ~c.alone
        /\ c.owner = tx[q].owner /\ c.choice = tx[q].choice
        /\ c.left = tx[q].left /\ c.pc = tx[q].pc
    BY <1>5 DEF RoleInv, Sane, Shapes, Shape, Editing, EditShape
  <2> HIDE DEF c
  <2> QED BY <2>1, <2>2
<1>6. ASSUME NEW q \in Requests, q # r, ~Editing(q, owner)
      PROVE  tx'[q] = tx[q]
  BY <1>1, <1>6
<1>7. RoleTypes'
  BY <1>1 DEF RoleInv, RoleTypes
<1>8. Edits'
  <2> SUFFICES ASSUME NEW q \in Requests, tx'[q].op = "edit" PROVE EditOk(tx'[q])
    BY DEF Edits, EditOk
  <2>1. CASE q = r
    BY <1>3, <1>4, <2>1
  <2>2. CASE q # r /\ Editing(q, owner)
    BY <1>5, <2>2 DEF RoleInv, Edits, EditOk
  <2>3. CASE q # r /\ ~Editing(q, owner)
    BY <1>6, <2>3 DEF RoleInv, Edits
  <2> QED BY <2>1, <2>2, <2>3
<1>9. \A q \in Requests \ {r}, o \in Owners : Editing(q, o)' <=> Editing(q, o)
  BY <1>5, <1>6 DEF Editing
<1>10. Apart'
  <2> SUFFICES ASSUME NEW q \in Requests, NEW p \in Requests, q # p, tx'[q].op = "edit",
                      tx'[p].op = "edit", tx'[p].owner = tx'[q].owner
               PROVE  ~tx'[q].alone
    BY DEF Apart, Editing
  <2>1. CASE q = r
    <3>1. Editing(p, owner)'
      BY <1>2, <1>4, <2>1 DEF Editing
    <3>2. Editing(p, owner)
      BY <3>1, <1>9, <2>1
    <3> QED BY <3>2, <1>2, <1>4, <2>1
  <2>2. CASE q # r /\ Editing(q, owner)
    BY <1>5, <2>2
  <2>3. CASE q # r /\ ~Editing(q, owner)
    <3>1. tx'[q] = tx[q] /\ tx[q].op = "edit" /\ tx[q].owner \in Owners
      BY <1>6, <2>3 DEF RoleInv, Edits, EditOk
    <3>2. p # r
      BY <3>1, <2>3, <1>2, <1>4 DEF Editing
    <3>3. tx[p].op = "edit" /\ tx[p].owner = tx[q].owner
      BY <3>1, <3>2, <1>5, <1>6
    <3> QED BY <3>1, <3>3 DEF RoleInv, Apart
  <2> QED BY <2>1, <2>2, <2>3
<1>11. Inserted'
  <2> SUFFICES ASSUME NEW q \in Requests, tx'[q].op = "edit", tx'[q].alone,
                      tx'[q].pc = "insert"
               PROVE  LinksOf(tx[q].owner)' = LinksMade(q, tx[q])'
    BY DEF Inserted, LinksOf, LinksMade, MadeBy
  <2>1. q # r /\ ~Editing(q, owner)
    BY <1>2, <1>4, <1>5
  <2> QED BY <1>1, <1>6, <2>1 DEF RoleInv, Inserted, LinksOf, LinksMade, MadeBy
<1>12. LinksAsAssigned'
  <2> SUFFICES ASSUME NEW o \in Owners, ~torn'[o], \A q \in Requests : ~Editing(q, o)'
               PROVE  Assigned(o)'
    BY DEF LinksAsAssigned, Assigned
  <2>1. ~Editing(r, o) /\ ~Editing(r, o)'
    BY <1>4 DEF Editing
  <2>2. \A q \in Requests : Editing(q, o)' <=> Editing(q, o)
    BY <1>9, <2>1
  <2>3. Kept(o)
    BY <1>1 DEF Kept, LinksOf
  <2> QED BY <2>2, <2>3, KeptAsAssigned DEF RoleInv
<1> QED BY <1>7, <1>8, <1>10, <1>11, <1>12 DEF RoleInv

(* A step of an edit, or its end.                                          *)
LEMMA EditKeepsRoles ==
    ASSUME RoleInv, Sane', NEW r \in Requests, NEW t, tx[r].op = "edit", Goes(r, t),
           NEW w, w = tx[r].owner, RoleTypes',
           \A o \in Owners \ {w} : Kept(o),
           t = Idle \/ /\ t.op = "edit" /\ EditOk(t) /\ t.owner = w
                       /\ t.alone => tx[r].alone
                       /\ t.alone /\ t.pc = "insert" => LinksOf(w)' = LinksMade(r, t),
           t = Idle /\ ~torn'[w] => Assigned(w)'
    PROVE  RoleInv'
<1>1. tx'[r] = t /\ \A q \in Requests \ {r} : tx'[q] = tx[q]
  BY GoesTo DEF Goes, RoleInv, Sane, Shapes
<1>2. w \in Owners /\ t.op \in {"edit", "none"}
  BY DEF RoleInv, Edits, EditOk, Idle
<1>3. Edits'
  <2> SUFFICES ASSUME NEW q \in Requests, tx'[q].op = "edit" PROVE EditOk(tx'[q])
    BY DEF Edits, EditOk
  <2>1. CASE q = r
    BY <1>1, <2>1 DEF Idle
  <2>2. CASE q # r
    BY <1>1, <2>2 DEF RoleInv, Edits
  <2> QED BY <2>1, <2>2
<1>4. \A q \in Requests, o \in Owners : Editing(q, o)' => Editing(q, o)
  BY <1>1 DEF Editing, Idle
<1>5. Apart'
  <2> SUFFICES ASSUME NEW q \in Requests, NEW p \in Requests, q # p, tx'[q].op = "edit",
                      tx'[p].op = "edit", tx'[p].owner = tx'[q].owner
               PROVE  ~tx'[q].alone
    BY DEF Apart, Editing
  <2>1. tx[q].op = "edit" /\ tx[q].owner = tx'[q].owner /\ tx[q].owner \in Owners
    BY <1>1 DEF Idle, RoleInv, Edits, EditOk
  <2>2. tx[p].op = "edit" /\ tx[p].owner = tx[q].owner
    BY <1>1, <2>1 DEF Idle
  <2>3. ~tx[q].alone
    BY <2>1, <2>2 DEF RoleInv, Apart
  <2> QED BY <2>3, <1>1 DEF Idle
<1>6. Inserted'
  <2> SUFFICES ASSUME NEW q \in Requests, tx'[q].op = "edit", tx'[q].alone,
                      tx'[q].pc = "insert"
               PROVE  LinksOf(tx[q].owner)' = LinksMade(q, tx[q])'
    BY DEF Inserted, LinksOf, LinksMade, MadeBy
  <2>1. CASE q = r
    BY <1>1, <2>1 DEF Idle, LinksOf, LinksMade, MadeBy
  <2>2. CASE q # r
    <3>1. tx'[q] = tx[q]
      BY <1>1, <2>2
    <3>2. tx[q].owner # w
      BY <2>2, <3>1 DEF RoleInv, Apart, Editing
    <3>3. tx[q].owner \in Owners /\ LinksOf(tx[q].owner) = LinksMade(q, tx[q])
      BY <3>1 DEF RoleInv, Edits, EditOk, Inserted
    <3>4. PICK o : o = tx[q].owner
      OBVIOUS
    <3>5. LinksOf(o)' = LinksOf(o)
      BY <3>2, <3>3, <3>4 DEF Kept
    <3> QED BY <3>1, <3>3, <3>4, <3>5 DEF LinksOf, LinksMade, MadeBy
  <2> QED BY <2>1, <2>2
<1>7. LinksAsAssigned'
  <2> SUFFICES ASSUME NEW o \in Owners, ~torn'[o], \A q \in Requests : ~Editing(q, o)'
               PROVE  Assigned(o)'
    BY DEF LinksAsAssigned, Assigned
  <2>1. CASE o = w
    <3>1. t = Idle
      BY <1>1, <2>1 DEF Editing
    <3> QED BY <3>1, <2>1
  <2>2. CASE o # w
    <3>1. \A q \in Requests : Editing(q, o)' <=> Editing(q, o)
      BY <1>1, <2>2 DEF Editing, Idle
    <3> QED BY <3>1, <2>2, KeptAsAssigned DEF RoleInv
  <2> QED BY <2>1, <2>2
<1> QED BY <1>3, <1>5, <1>6, <1>7 DEF RoleInv

LEMMA DeleteKeepsRoles ==
    ASSUME RoleInv, Sane', NEW r \in Requests, DeleteLinks(r)
    PROVE  RoleInv'
<1> DEFINE t == [tx[r] EXCEPT !.pc = "insert"]
<1>1. PICK w : w = tx[r].owner
  OBVIOUS
<1>2. /\ tx[r].op = "edit" /\ tx[r].pc = "delete" /\ Goes(r, t)
      /\ links' = links \ LinksOf(w) /\ UNCHANGED <<legacy, wanted, torn>>
  BY <1>1 DEF DeleteLinks, At
<1>3. /\ t.op = "edit" /\ t.pc = "insert" /\ t.owner = w /\ t.choice = tx[r].choice
      /\ t.left = tx[r].left /\ t.alone = tx[r].alone
  BY <1>1, <1>2 DEF RoleInv, Sane, Shapes, Shape, EditShape
<1>4. EditOk(tx[r]) /\ w \in Owners
  BY <1>1, <1>2 DEF RoleInv, Edits, EditOk
<1> HIDE DEF t
<1>5. EditOk(t) /\ LinksMade(r, t) = {}
  BY <1>1, <1>2, <1>3, <1>4 DEF EditOk, LinksMade
<1>6. \A o \in Owners \ {w} : Kept(o)
  BY <1>2 DEF Kept, LinksOf
<1>7. LinksOf(w)' = LinksMade(r, t)
  BY <1>2, <1>5 DEF LinksOf
<1>8. RoleTypes'
  BY <1>2 DEF RoleInv, RoleTypes
<1>9. t # Idle
  BY <1>3 DEF Idle
<1> QED BY <1>1, <1>2, <1>3, <1>5, <1>6, <1>7, <1>8, <1>9, EditKeepsRoles

LEMMA InsertKeepsRoles ==
    ASSUME RoleInv, Sane', NEW r \in Requests, InsertLink(r)
    PROVE  RoleInv'
<1>1. PICK w : w = tx[r].owner
  OBVIOUS
<1>2. PICK x \in tx[r].left :
         /\ links' = links \cup {Link(r, x)}
         /\ Goes(r, [tx[r] EXCEPT !.left = @ \ {x}])
         /\ UNCHANGED <<legacy, wanted, torn>>
  BY DEF InsertLink
<1>3. tx[r].op = "edit" /\ tx[r].pc = "insert"
  BY DEF InsertLink, At
<1> DEFINE t == [tx[r] EXCEPT !.left = @ \ {x}]
<1>4. /\ t.op = "edit" /\ t.pc = "insert" /\ t.owner = w /\ t.choice = tx[r].choice
      /\ t.left = tx[r].left \ {x} /\ t.alone = tx[r].alone
  BY <1>1, <1>3 DEF RoleInv, Sane, Shapes, Shape, EditShape
<1>5. EditOk(tx[r]) /\ w \in Owners
  BY <1>1, <1>3 DEF RoleInv, Edits, EditOk
<1>6. Goes(r, t)
  BY <1>2
<1> HIDE DEF t
<1>7. EditOk(t)
  BY <1>4, <1>3, <1>1, <1>5 DEF EditOk
<1>8. Link(r, x) = MadeBy(r, tx[r], x) /\ Link(r, x).owner = w
  BY <1>1 DEF Link, MadeBy
<1>9. \A o \in Owners \ {w} : Kept(o)
  BY <1>2, <1>8 DEF Kept, LinksOf
<1>10. LinksMade(r, t) = LinksMade(r, tx[r]) \cup {MadeBy(r, tx[r], x)}
  <2>1. \A y : MadeBy(r, t, y) = MadeBy(r, tx[r], y)
    BY <1>1, <1>4 DEF MadeBy
  <2>2. t.choice.items \ t.left = (tx[r].choice.items \ tx[r].left) \cup {x}
    BY <1>2, <1>4, <1>5 DEF EditOk
  <2> QED BY <2>1, <2>2 DEF LinksMade
<1>11. LinksOf(w)' = LinksOf(w) \cup {Link(r, x)}
  BY <1>2, <1>8 DEF LinksOf
<1>12. t.alone => LinksOf(w)' = LinksMade(r, t)
  <2>1. tx[r].alone => LinksOf(tx[r].owner) = LinksMade(r, tx[r])
    BY <1>3 DEF RoleInv, Inserted
  <2> QED BY <2>1, <1>1, <1>4, <1>8, <1>10, <1>11
<1>13. RoleTypes'
  BY <1>2 DEF RoleInv, RoleTypes
<1>14. t # Idle
  BY <1>4 DEF Idle
<1> QED BY <1>1, <1>3, <1>4, <1>6, <1>7, <1>9, <1>12, <1>13, <1>14, EditKeepsRoles

LEMMA FailKeepsRoles ==
    ASSUME RoleInv, Sane', NEW r \in Requests, FailEdit(r)
    PROVE  RoleInv'
<1>1. PICK w : w = tx[r].owner
  OBVIOUS
<1>2. /\ tx[r].op = "edit" /\ Goes(r, Idle)
      /\ torn' = [torn EXCEPT ![w] = TRUE] /\ UNCHANGED <<links, legacy, wanted>>
  BY <1>1 DEF FailEdit, Ends
<1>3. w \in Owners
  BY <1>1, <1>2 DEF RoleInv, Edits, EditOk
<1>4. torn'[w] /\ \A o \in Owners \ {w} : torn'[o] = torn[o]
  BY <1>2, <1>3 DEF RoleInv, RoleTypes
<1>5. \A o \in Owners \ {w} : Kept(o)
  BY <1>2, <1>4 DEF Kept, LinksOf
<1>6. RoleTypes'
  BY <1>2 DEF RoleInv, RoleTypes
<1> QED BY <1>1, <1>2, <1>4, <1>5, <1>6, EditKeepsRoles

(* An edit that ran alone has inserted each link it was asked for once.    *)
LEMMA MadeAll ==
    ASSUME NEW r, NEW t, t.left = {}, IsFiniteSet(t.choice.items)
    PROVE  /\ {l.item : l \in LinksMade(r, t)} = t.choice.items
           /\ Cardinality(LinksMade(r, t)) = Cardinality(t.choice.items)
<1> DEFINE items == t.choice.items
           f == [x \in items |-> MadeBy(r, t, x)]
<1>1. LinksMade(r, t) = {MadeBy(r, t, x) : x \in items}
  BY DEF LinksMade
<1>2. \A x : MadeBy(r, t, x).item = x
  BY DEF MadeBy
<1>3. f \in Bijection(items, LinksMade(r, t))
  BY <1>1, <1>2 DEF Bijection, Injection, Surjection, IsInjective
<1>4. Cardinality(LinksMade(r, t)) = Cardinality(items)
  BY <1>3, FS_Bijection DEF ExistsBijection
<1> QED BY <1>1, <1>2, <1>4

(* At the end of an edit.                                                  *)
LEMMA DoneKeepsRoles ==
    ASSUME RoleInv, Sane', NEW r \in Requests, At(r, "edit", "insert"), tx[r].left = {},
           Done(r), UNCHANGED links, legacy' = [e \in RoleHolders |-> legacy'[e]],
           \A e \in RoleHolders \ {tx[r].owner} : legacy'[e] = legacy[e],
           tx[r].owner \in RoleHolders /\ LinksOf(tx[r].owner) = LinksMade(r, tx[r]) =>
             RecordFits(tx[r].choice, legacy'[tx[r].owner])
    PROVE  RoleInv'
<1>1. PICK t : t = tx[r]
  OBVIOUS
<1>2. PICK w : w = t.owner
  OBVIOUS
<1>3. /\ t.op = "edit" /\ t.pc = "insert" /\ t.left = {} /\ Goes(r, Idle)
      /\ wanted' = [wanted EXCEPT ![w] = t.choice] /\ torn' = [torn EXCEPT ![w] = ~t.alone]
  BY <1>1, <1>2 DEF Done, At, Ends
<1>4. EditOk(t) /\ w \in Owners
  BY <1>1, <1>2, <1>3 DEF RoleInv, Edits, EditOk
<1>5. /\ wanted'[w] = t.choice /\ (~torn'[w] => t.alone)
      /\ \A o \in Owners \ {w} : wanted'[o] = wanted[o] /\ torn'[o] = torn[o]
  BY <1>3, <1>4 DEF RoleInv, RoleTypes
<1>6. \A o \in Owners \ {w} : Kept(o)
  BY <1>1, <1>2, <1>5 DEF Kept, LinksOf
<1>7. RoleTypes'
  BY <1>3 DEF RoleInv, RoleTypes
<1>8. ASSUME t.alone PROVE Assigned(w)'
  <2>1. LinksOf(w) = LinksMade(r, t)
    BY <1>1, <1>2, <1>3, <1>8 DEF RoleInv, Inserted
  <2>2. LinksOf(w)' = LinksMade(r, t)
    BY <2>1 DEF LinksOf
  <2>3. /\ {l.item : l \in LinksMade(r, t)} = t.choice.items
        /\ Cardinality(LinksMade(r, t)) = Cardinality(t.choice.items)
    BY <1>3, <1>4, MadeAll DEF EditOk
  <2>4. w \in RoleHolders => RecordFits(t.choice, legacy'[w])
    BY <1>1, <1>2, <2>1
  <2>5. \A l \in LinksMade(r, t) : l.primary <=> l.item = t.choice.primary
    <3>1. \A x : (MadeBy(r, t, x).primary <=> x = t.choice.primary) /\ MadeBy(r, t, x).item = x
      BY DEF MadeBy
    <3> QED BY <3>1 DEF LinksMade
  <2>6. w \in RoleHolders => RecordFits(wanted[w], legacy[w])'
    BY <1>5, <2>4 DEF RecordFits
  <2> QED BY <1>5, <2>2, <2>3, <2>5, <2>6 DEF Assigned
<1> QED BY <1>1, <1>2, <1>3, <1>5, <1>6, <1>7, <1>8, EditKeepsRoles

LEMMA EndKeepsRoles ==
    ASSUME RoleInv, Sane', NEW r \in Requests, EndOfPermissions(r)
    PROVE  RoleInv'
<1>1. /\ At(r, "edit", "insert") /\ tx[r].left = {} /\ Done(r) /\ UNCHANGED <<links, legacy>>
      /\ tx[r].owner \notin RoleHolders
  BY DEF EndOfPermissions
<1>2. legacy' = [e \in RoleHolders |-> legacy'[e]]
  BY <1>1 DEF RoleInv, RoleTypes
<1> QED BY <1>1, <1>2, DoneKeepsRoles

LEMMA SyncKeepsRoles ==
    ASSUME RoleInv, Sane', NEW r \in Requests, syncLegacyEmployeeRole(r)
    PROVE  RoleInv'
<1>1. PICK t : t = tx[r]
  OBVIOUS
<1>2. PICK w : w = t.owner
  OBVIOUS
<1> DEFINE found == PrimaryLinks(LinksOf(w))
<1>3. /\ At(r, "edit", "insert") /\ t.left = {} /\ w \in RoleHolders
      /\ Done(r) /\ UNCHANGED links
  BY <1>1, <1>2 DEF syncLegacyEmployeeRole
<1>4. \/ found = {} /\ legacy' = legacy
      \/ \E l \in found :
           legacy' = IF l.item \in LegacyRoles THEN [legacy EXCEPT ![w] = l.item] ELSE legacy
  BY <1>1, <1>2 DEF syncLegacyEmployeeRole
<1>5. legacy = [e \in RoleHolders |-> legacy[e]] /\ w \in RoleHolders
  BY <1>3 DEF RoleInv, RoleTypes
<1>6. /\ legacy' = [e \in RoleHolders |-> legacy'[e]]
      /\ \A e \in RoleHolders \ {w} : legacy'[e] = legacy[e]
  <2> HIDE DEF found
  <2> QED BY <1>4, <1>5
<1>7. ASSUME LinksOf(w) = LinksMade(r, t)
      PROVE  RecordFits(t.choice, legacy'[w])
  <2>1. \A x : (MadeBy(r, t, x).primary <=> x = t.choice.primary) /\ MadeBy(r, t, x).item = x
    BY DEF MadeBy
  <2>2. LinksOf(w) = {MadeBy(r, t, x) : x \in t.choice.items}
    BY <1>3, <1>7 DEF LinksMade
  <2>3. found \subseteq LinksOf(w) /\ \A l \in found : l.item \in t.choice.items
    BY <2>1, <2>2 DEF PrimaryLinks
  <2>4. ASSUME t.choice.primary \in t.choice.items \cap LegacyRoles
        PROVE  legacy'[w] = t.choice.primary
    <3>1. \E l \in LinksOf(w) : l.primary
      BY <2>1, <2>2, <2>4
    <3>2. found = {l \in LinksOf(w) : l.primary} /\ found # {}
      BY <3>1 DEF PrimaryLinks
    <3>3. \A l \in found : l.item = t.choice.primary
      BY <2>1, <2>2, <3>2
    <3> HIDE DEF found
    <3> QED BY <1>4, <1>5, <2>4, <3>2, <3>3
  <2>5. ASSUME t.choice.items # {}, t.choice.items \subseteq LegacyRoles
        PROVE  legacy'[w] \in t.choice.items
    <3>1. LinksOf(w) # {}
      BY <2>2, <2>5
    <3>2. found # {}
      BY <3>1 DEF PrimaryLinks
    <3> HIDE DEF found
    <3> QED BY <1>4, <1>5, <2>3, <2>5, <3>2
  <2> QED BY <2>4, <2>5 DEF RecordFits
<1> HIDE DEF found
<1>8. tx[r] = t /\ tx[r].owner = w
  BY <1>1, <1>2
<1> QED BY <1>3, <1>6, <1>7, <1>8, DoneKeepsRoles

LEMMA RolesKept == RoleInv /\ [Next]_vars => RoleInv'
<1> SUFFICES ASSUME RoleInv, [Next]_vars PROVE RoleInv'
  OBVIOUS
<1>1. /\ Sane'
      /\ \/ Untouched(Others) /\ UNCHANGED roleVars
         \/ \E r \in Requests : RolesStep(r)
         \/ UNCHANGED roleVars /\ Untouched({"edit"})
  <2>1. Sane
    BY DEF RoleInv
  <2> QED BY <2>1, StepsApart
<1>2. CASE Untouched(Others) /\ UNCHANGED roleVars
  <2>1. Untouched({"edit"})
    BY <1>2 DEF Untouched, Others
  <2> QED BY <1>1, <1>2, <2>1, RolesUntouched
<1>3. CASE UNCHANGED roleVars /\ Untouched({"edit"})
  BY <1>1, <1>3, RolesUntouched
<1>4. ASSUME NEW r \in Requests, RolesStep(r) PROVE RoleInv'
  <2>1. ASSUME NEW e \in RoleHolders, NEW choice \in RoleSets, assignEmployeeRoles(r, e, choice)
        PROVE  RoleInv'
    <3>1. IsFiniteSet(choice.items) /\ e \in Owners
      BY DEF Owners
    <3> QED BY <1>1, <2>1, <3>1, StartKeepsRoles DEF assignEmployeeRoles
  <2>2. ASSUME NEW role \in EditedRoles, NEW perms \in SUBSET Grants,
               updateRolePermissions(r, role, perms)
        PROVE  RoleInv'
    <3> DEFINE c == [items |-> perms, primary |-> None]
    <3>1. StartEdit(r, role, c)
      BY <2>2 DEF updateRolePermissions
    <3>2. c.items = perms /\ IsFiniteSet(perms)
      BY FS_Subset
    <3>3. role \in Owners
      BY DEF Owners
    <3> HIDE DEF c
    <3> QED BY <1>1, <3>1, <3>2, <3>3, StartKeepsRoles
  <2> QED BY <1>1, <1>4, <2>1, <2>2, DeleteKeepsRoles, InsertKeepsRoles, EndKeepsRoles,
             SyncKeepsRoles, FailKeepsRoles DEF RolesStep
<1> QED BY <1>1, <1>2, <1>3, <1>4

LEMMA SaneInitially == Init => Sane
<1> SUFFICES ASSUME Init PROVE Sane
  OBVIOUS
<1>1. tx = [r \in Requests |-> Idle]
  BY DEF Init, PortalInit
<1> QED BY <1>1, IdleShape DEF Sane, Shapes, Busy, Idle

LEMMA RolesInitially == Init => RoleInv
<1> SUFFICES ASSUME Init PROVE RoleInv
  OBVIOUS
<1>1. /\ \A r \in Requests : tx[r].op = "none"
      /\ links = {} /\ RolesInit
  BY DEF Init, PortalInit, Idle, RolesInit
<1>2. RoleTypes
  BY <1>1 DEF RolesInit, RoleTypes
<1>3. Edits /\ Apart /\ Inserted
  BY <1>1 DEF Edits, Apart, Inserted
<1>4. LinksAsAssigned
  <2> SUFFICES ASSUME NEW o \in Owners PROVE Assigned(o)
    BY DEF LinksAsAssigned, Assigned
  <2>1. wanted[o].items = {} /\ wanted[o].primary = None /\ LinksOf(o) = {}
    BY <1>1 DEF RolesInit, LinksOf
  <2>2. RecordFits(wanted[o], legacy[o])
    BY <2>1 DEF RecordFits
  <2> QED BY <2>1, <2>2 DEF Assigned
<1> QED BY <1>2, <1>3, <1>4, SaneInitially DEF RoleInv

(* However edits of roles and of permissions overlap and fail: an owner    *)
(* whose last edit ran alone and to its end has the links it asked for.    *)
THEOREM LinksAlwaysAsAssigned == Spec => []LinksAsAssigned
<1>1. RoleInv => LinksAsAssigned
  BY DEF RoleInv
<1> QED BY <1>1, RolesInitially, RolesKept, PTL DEF Spec

-----------------------------------------------------------------------------
(* Plans.                                                                  *)

USE SubscriptionAssumption

PlanRow(x) ==
    /\ x \in [status : {x.status}, expires : {x.expires}]
    /\ x.status \in {"NONE", "ACTIVE", "EXPIRED", "SUPERSEDED"}
    /\ x.status = "NONE" <=> x = NoPlan
PlanRows == plan = [p \in Plans |-> plan[p]] /\ \A p \in Plans : PlanRow(plan[p])

(* Rows are taken in order; the active one is the last that is taken; and  *)
(* when the last one is superseded, a renewal is about to insert the next. *)
Newest(p) == \A q \in Plans : plan[q] # NoPlan => q <= p
InOrder == \A p \in FreePlans, q \in Plans : plan[q] # NoPlan => q < p
LastIsActive == \A p \in Active : Newest(p)
Replacing(r) == tx[r].op = "renew" /\ tx[r].pc = "insert" /\ tx[r].old # 0
Replaced ==
    ~broken => \A p \in Plans : plan[p].status = "SUPERSEDED" /\ Newest(p) =>
                  \E r \in Requests : Replacing(r)
Renewals ==
    \A r \in Requests : tx[r].op = "renew" /\ tx[r].pc = "supersede" =>
        tx[r].old \in Plans /\ plan[tx[r].old] # NoPlan

PlanInv == Sane /\ PlanRows /\ InOrder /\ LastIsActive /\ Replaced /\ Renewals

LEMMA MinIs ==
    ASSUME NEW S, S \subseteq Nat, S # {}
    PROVE  Min(S) \in S /\ \A x \in S : Min(S) <= x
<1>1. \E x \in S : \A y \in S : x <= y
  BY LeastNat
<1> QED BY <1>1 DEF Min

LEMMA MaxIs ==
    ASSUME NEW S, S \subseteq Nat, IsFiniteSet(S), S # {}
    PROVE  Max(S) \in S /\ \A x \in S : x <= Max(S)
<1> DEFINE f == [x \in S |-> x]
           B == {b \in Nat : \A x \in S : x <= b}
<1>1. SumFunctionOnSet(f, S) \in B
  BY SumOfNaturals
<1>2. PICK b \in B : \A c \in B : b <= c
  BY <1>1, LeastNat
<1>3. b \in S
  <2> SUFFICES ASSUME b \notin S PROVE FALSE
    OBVIOUS
  <2>1. PICK x \in S : TRUE
    OBVIOUS
  <2>2. b - 1 \in B
    BY <2>1
  <2> QED BY <1>2, <2>2
<1>4. \E x \in S : \A y \in S : x >= y
  BY <1>3
<1> QED BY <1>4 DEF Max

(* A step that changes no plan and ends no replacement.                    *)
LEMMA SamePlans ==
    ASSUME PlanInv, Sane', UNCHANGED plan, ~broken' => ~broken, Renewals',
           \A r \in Requests : Replacing(r) => Replacing(r)'
    PROVE  PlanInv'
<1>1. PlanRows' /\ InOrder' /\ LastIsActive'
  BY DEF PlanInv, PlanRows, InOrder, LastIsActive, FreePlans, Active, Newest
<1>2. Replaced'
  BY DEF PlanInv, Replaced, Newest
<1> QED BY <1>1, <1>2 DEF PlanInv

LEMMA PlansUntouched ==
    ASSUME PlanInv, Sane', Untouched({"renew"}), UNCHANGED planVars
    PROVE  PlanInv'
<1>1. plan' = plan /\ broken' = broken
  BY DEF planVars
<1>2. \A r \in Requests : tx[r].op = "renew" \/ tx'[r].op = "renew" => tx'[r] = tx[r]
  BY DEF Untouched
<1>3. Renewals'
  BY <1>1, <1>2 DEF PlanInv, Renewals
<1>4. \A r \in Requests : Replacing(r) => Replacing(r)'
  BY <1>2 DEF Replacing
<1> QED BY <1>1, <1>3, <1>4, SamePlans

LEMMA BeginKeepsPlans ==
    ASSUME PlanInv, Sane', NEW r \in Requests, NEW t, Begin(r, t), UNCHANGED planVars,
           t.op = "renew" /\ t.pc = "supersede" => t.old \in Plans /\ plan[t.old] # NoPlan
    PROVE  PlanInv'
<1>1. plan' = plan /\ broken' = broken
  BY DEF planVars
<1>2. tx[r].pc = "idle" /\ tx'[r] = t /\ \A q \in Requests \ {r} : tx'[q] = tx[q]
  BY GoesTo DEF Begin, Goes, PlanInv, Sane, Shapes
<1>3. Renewals'
  BY <1>1, <1>2 DEF PlanInv, Renewals
<1>4. \A q \in Requests : Replacing(q) => Replacing(q)'
  BY <1>2 DEF Replacing
<1> QED BY <1>1, <1>3, <1>4, SamePlans

LEMMA RenewKeepsPlans ==
    ASSUME PlanInv, Sane', NEW r \in Requests, NEW period, renew(r, period)
    PROVE  PlanInv'
<1> DEFINE t == [op |-> "renew", pc |-> IF Active = {} THEN "insert" ELSE "supersede",
                 old |-> IF Active = {} THEN 0 ELSE Min(Active), expires |-> today + period]
<1>1. Begin(r, t) /\ UNCHANGED planVars
  BY DEF renew
<1>2. ASSUME t.pc = "supersede" PROVE t.old \in Plans /\ plan[t.old] # NoPlan
  <2>1. Active # {} /\ Active \subseteq Nat /\ t.old = Min(Active)
    BY <1>2 DEF Active
  <2>2. t.old \in Active
    BY <2>1, MinIs
  <2> QED BY <2>2 DEF Active, NoPlan
<1> HIDE DEF t
<1> QED BY <1>1, <1>2, BeginKeepsPlans

LEMMA CreateKeepsPlans ==
    ASSUME PlanInv, Sane', NEW r \in Requests, NEW period, create(r, period)
    PROVE  PlanInv'
<1> DEFINE t == [op |-> "subscribe", pc |-> "insert", old |-> 0, expires |-> today + period]
<1>1. Begin(r, t) /\ UNCHANGED planVars /\ t.op = "subscribe"
  BY DEF create
<1> HIDE DEF t
<1> QED BY <1>1, BeginKeepsPlans

(* Rows that keep their place: no row is taken or given up, and none       *)
(* becomes active.                                                         *)
LEMMA StatusOnly ==
    ASSUME PlanInv, PlanRows', \A p \in Plans : plan'[p] = NoPlan <=> plan[p] = NoPlan,
           \A p \in Plans : plan'[p].status = "ACTIVE" => plan[p].status = "ACTIVE"
    PROVE  InOrder' /\ LastIsActive' /\ \A p : Newest(p)' <=> Newest(p)
<1>1. FreePlans' = FreePlans /\ Active' \subseteq Active
  BY DEF FreePlans, Active
<1>2. \A p : Newest(p)' <=> Newest(p)
  BY DEF Newest
<1>3. InOrder'
  BY <1>1 DEF PlanInv, InOrder
<1>4. LastIsActive'
  BY <1>1, <1>2 DEF PlanInv, LastIsActive
<1> QED BY <1>2, <1>3, <1>4

LEMMA SupersedeKeepsPlans ==
    ASSUME PlanInv, Sane', NEW r \in Requests, Supersede(r)
    PROVE  PlanInv'
<1> DEFINE t == [tx[r] EXCEPT !.pc = "insert"]
<1>1. PICK p : p = tx[r].old
  OBVIOUS
<1>2. /\ tx[r].op = "renew" /\ tx[r].pc = "supersede" /\ Goes(r, t) /\ broken' = broken
      /\ plan' = [plan EXCEPT ![p].status = "SUPERSEDED"]
  BY <1>1 DEF Supersede, At
<1>3. t.op = "renew" /\ t.pc = "insert" /\ t.old = p
  BY <1>1, <1>2 DEF PlanInv, Sane, Shapes, Shape, PlanShape
<1> HIDE DEF t
<1>4. tx'[r] = t /\ \A q \in Requests \ {r} : tx'[q] = tx[q]
  BY <1>2 DEF Goes, PlanInv, Sane, Shapes
<1>5. p \in Plans /\ plan[p] # NoPlan /\ p # 0
  BY <1>1, <1>2 DEF PlanInv, Renewals
<1> DEFINE new == [plan[p] EXCEPT !.status = "SUPERSEDED"]
<1>6. plan' = [q \in Plans |-> IF q = p THEN new ELSE plan[q]]
  BY <1>2, <1>5 DEF PlanInv, PlanRows
<1>7. PlanRow(new) /\ new.status = "SUPERSEDED" /\ new # NoPlan
  BY <1>5 DEF PlanInv, PlanRows, PlanRow, NoPlan
<1> HIDE DEF new
<1>8. PlanRows'
  BY <1>6, <1>7 DEF PlanInv, PlanRows, PlanRow
<1>9. InOrder' /\ LastIsActive'
  BY <1>5, <1>6, <1>7, <1>8, StatusOnly
<1>10. Replaced'
  <2>1. Replacing(r)'
    BY <1>3, <1>4, <1>5 DEF Replacing
  <2> QED BY <2>1 DEF Replaced
<1>11. Renewals'
  BY <1>3, <1>4, <1>6, <1>7 DEF PlanInv, Renewals
<1> QED BY <1>8, <1>9, <1>10, <1>11 DEF PlanInv

LEMMA ExpireKeepsPlans ==
    ASSUME PlanInv, Sane', markExpiredSubscriptions
    PROVE  PlanInv'
<1> DEFINE row(p) == IF p \in Active /\ plan[p].expires <= today
                     THEN [plan[p] EXCEPT !.status = "EXPIRED"] ELSE plan[p]
<1>1. plan' = [p \in Plans |-> row(p)] /\ tx' = tx /\ broken' = broken
  BY DEF markExpiredSubscriptions, portalVars
<1>2. ASSUME NEW p \in Plans
      PROVE  /\ PlanRow(row(p)) /\ (row(p) = NoPlan <=> plan[p] = NoPlan)
             /\ row(p).status \in {"ACTIVE", "SUPERSEDED"} => row(p).status = plan[p].status
  <2>1. PlanRow(plan[p])
    BY DEF PlanInv, PlanRows
  <2>2. CASE p \in Active
    <3> DEFINE new == [plan[p] EXCEPT !.status = "EXPIRED"]
    <3>1. PlanRow(new) /\ new.status = "EXPIRED" /\ new # NoPlan /\ plan[p] # NoPlan
      BY <2>1, <2>2 DEF PlanRow, NoPlan, Active
    <3>2. row(p) = new \/ row(p) = plan[p]
      OBVIOUS
    <3> HIDE DEF new, row
    <3> QED BY <2>1, <3>1, <3>2
  <2>3. CASE p \notin Active
    BY <2>1, <2>3
  <2> QED BY <2>2, <2>3
<1> HIDE DEF row
<1>3. PlanRows'
  BY <1>1, <1>2 DEF PlanRows, PlanRow
<1>4. InOrder' /\ LastIsActive' /\ \A p : Newest(p)' <=> Newest(p)
  BY <1>1, <1>2, <1>3, StatusOnly
<1>5. Replaced'
  <2> SUFFICES ASSUME ~broken', NEW p \in Plans, plan'[p].status = "SUPERSEDED", Newest(p)'
               PROVE  \E r \in Requests : Replacing(r)'
    BY DEF Replaced
  <2>1. plan[p].status = "SUPERSEDED" /\ Newest(p)
    BY <1>1, <1>2, <1>4
  <2>2. PICK r \in Requests : Replacing(r)
    BY <2>1, <1>1 DEF PlanInv, Replaced
  <2> QED BY <2>2, <1>1 DEF Replacing
<1>6. Renewals'
  BY <1>1, <1>2 DEF PlanInv, Renewals
<1> QED BY <1>3, <1>4, <1>5, <1>6 DEF PlanInv

(* The last plan is not superseded while one is active.                    *)
LEMMA ActiveIsLast ==
    ASSUME PlanInv, Active # {}, NEW p \in Plans, Newest(p), plan[p] # NoPlan
    PROVE  plan[p].status = "ACTIVE"
<1>1. PICK a \in Active : TRUE
  OBVIOUS
<1>2. a \in Plans /\ plan[a].status = "ACTIVE" /\ plan[a] # NoPlan /\ Newest(a)
  BY <1>1 DEF PlanInv, LastIsActive, Active, NoPlan
<1>3. a <= p
  BY <1>2 DEF Newest
<1>4. p <= a
  BY <1>2 DEF Newest
<1> QED BY <1>2, <1>3, <1>4

LEMMA InsertKeepsPlans ==
    ASSUME PlanInv, Sane', NEW r \in Requests, InsertPlan(r)
    PROVE  PlanInv'
<1>1. /\ FreePlans # {} /\ tx'[r] = Idle /\ \A q \in Requests \ {r} : tx'[q] = tx[q]
      /\ Occupied => plan' = plan /\ broken' = broken
      /\ ~Occupied => plan' = [plan EXCEPT ![Min(FreePlans)] =
                                 [status |-> "ACTIVE", expires |-> tx[r].expires]]
  BY DEF InsertPlan, Ends, Goes, planVars, PlanInv, Sane, Shapes
<1>2. \A q \in Requests : tx'[q].op = "renew" => q # r /\ tx'[q] = tx[q]
  BY <1>1 DEF Idle
<1>3. CASE Occupied
  <2>1. PlanRows' /\ InOrder' /\ LastIsActive' /\ Renewals'
    BY <1>1, <1>2, <1>3 DEF PlanInv, PlanRows, InOrder, LastIsActive, FreePlans, Active,
       Newest, Renewals
  <2>2. Replaced'
    <3> SUFFICES ASSUME NEW p \in Plans, plan[p].status = "SUPERSEDED", Newest(p) PROVE FALSE
      BY <1>1, <1>3 DEF Replaced, Newest
    <3>1. plan[p] # NoPlan
      BY DEF NoPlan
    <3> QED BY <1>3, <3>1, ActiveIsLast DEF Occupied
  <2> QED BY <2>1, <2>2 DEF PlanInv
<1>4. CASE ~Occupied
  <2>1. PICK p : p = Min(FreePlans)
    OBVIOUS
  <2>2. p \in FreePlans /\ \A q \in FreePlans : p <= q
    <3>1. FreePlans \subseteq Nat
      BY DEF FreePlans
    <3> QED BY <1>1, <2>1, <3>1, MinIs
  <2>3. PICK new : new = [status |-> "ACTIVE", expires |-> tx[r].expires]
    OBVIOUS
  <2>4. PlanRow(new) /\ new.status = "ACTIVE" /\ new # NoPlan
    BY <2>3 DEF PlanRow, NoPlan
  <2>5. p \in Plans /\ plan[p] = NoPlan /\ plan' = [q \in Plans |-> IF q = p THEN new ELSE plan[q]]
    BY <1>1, <1>4, <2>1, <2>2, <2>3 DEF PlanInv, PlanRows, FreePlans
  <2>6. PlanRows'
    BY <2>4, <2>5 DEF PlanInv, PlanRows, PlanRow
  <2>7. \A q \in Plans : plan[q] # NoPlan => q < p
    BY <2>2 DEF PlanInv, InOrder
  <2>8. InOrder'
    <3> SUFFICES ASSUME NEW a \in Plans, plan'[a] = NoPlan, NEW b \in Plans, plan'[b] # NoPlan
                 PROVE  b < a
      BY DEF InOrder, FreePlans
    <3>1. a # p /\ a \in FreePlans
      BY <2>4, <2>5 DEF FreePlans
    <3>2. p < a
      <4>1. p \in Nat /\ a \in Nat /\ p <= a
        BY <2>2, <2>5, <3>1
      <4> QED BY <3>1, <4>1
    <3>3. b = p \/ plan[b] # NoPlan
      BY <2>5
    <3> QED BY <2>5, <2>7, <3>2, <3>3
  <2>9. \A q \in Plans : plan'[q].status = "ACTIVE" => q = p
    BY <1>4, <2>5 DEF Occupied, Active
  <2>10. ASSUME NEW q \in Plans, plan'[q] # NoPlan PROVE q <= p
    <3>1. q = p \/ plan[q] # NoPlan
      BY <2>5, <2>10
    <3>2. q = p \/ q < p
      BY <2>7, <3>1
    <3>3. q \in Nat /\ p \in Nat
      BY <2>5
    <3> QED BY <3>2, <3>3
  <2>11. LastIsActive'
    BY <2>9, <2>10 DEF LastIsActive, Active, Newest
  <2>12. Replaced'
    <3> SUFFICES ASSUME NEW a \in Plans, plan'[a].status = "SUPERSEDED", Newest(a)' PROVE FALSE
      BY DEF Replaced
    <3>1. a # p /\ a <= p
      BY <2>4, <2>5, <2>10 DEF NoPlan
    <3>2. p <= a
      BY <2>4, <2>5 DEF Newest
    <3> QED BY <2>5, <3>1, <3>2
  <2>13. Renewals'
    BY <1>2, <2>4, <2>5 DEF PlanInv, Renewals
  <2> QED BY <2>6, <2>8, <2>11, <2>12, <2>13 DEF PlanInv
<1> QED BY <1>3, <1>4

LEMMA FailKeepsPlans ==
    ASSUME PlanInv, Sane', NEW r \in Requests, FailPlan(r)
    PROVE  PlanInv'
<1>1. /\ plan' = plan /\ tx'[r] = Idle /\ \A q \in Requests \ {r} : tx'[q] = tx[q]
      /\ broken' = (broken \/ (tx[r].old # 0 /\ Active = {}))
  BY DEF FailPlan, Ends, Goes, PlanInv, Sane, Shapes
<1>2. \A q \in Requests : tx'[q].op = "renew" => q # r /\ tx'[q] = tx[q]
  BY <1>1 DEF Idle
<1>3. PlanRows' /\ InOrder' /\ LastIsActive' /\ Renewals'
  BY <1>1, <1>2 DEF PlanInv, PlanRows, InOrder, LastIsActive, FreePlans, Active, Newest, Renewals
<1>4. Replaced'
  <2> SUFFICES ASSUME ~broken', NEW p \in Plans, plan[p].status = "SUPERSEDED", Newest(p)
               PROVE  \E q \in Requests : Replacing(q)'
    BY <1>1 DEF Replaced, Newest
  <2>1. Active = {}
    <3>1. plan[p] # NoPlan
      BY DEF NoPlan
    <3> QED BY <3>1, ActiveIsLast
  <2>2. ~broken /\ tx[r].old = 0
    BY <1>1, <2>1
  <2>3. PICK q \in Requests : Replacing(q)
    BY <2>2 DEF PlanInv, Replaced
  <2>4. q # r
    BY <2>2, <2>3 DEF Replacing
  <2> QED BY <1>1, <2>3, <2>4 DEF Replacing
<1> QED BY <1>3, <1>4 DEF PlanInv

LEMMA PlansKept == PlanInv /\ [Next]_vars => PlanInv'
<1> SUFFICES ASSUME PlanInv, [Next]_vars PROVE PlanInv'
  OBVIOUS
<1>1. /\ Sane'
      /\ \/ Untouched(Others) /\ UNCHANGED planVars
         \/ Untouched({"renew"}) /\ UNCHANGED planVars
         \/ markExpiredSubscriptions
         \/ \E r \in Requests : PlansStep(r)
  <2>1. Sane
    BY DEF PlanInv
  <2> QED BY <2>1, StepsApart
<1>2. ASSUME Untouched(Others) PROVE Untouched({"renew"})
  BY <1>2 DEF Untouched, Others
<1>3. ASSUME NEW r \in Requests, PlansStep(r) PROVE PlanInv'
  BY <1>1, <1>3, CreateKeepsPlans, RenewKeepsPlans, SupersedeKeepsPlans, InsertKeepsPlans,
     FailKeepsPlans DEF PlansStep
<1> QED BY <1>1, <1>2, <1>3, PlansUntouched, ExpireKeepsPlans

LEMMA PlansInitially == Init => PlanInv
<1> SUFFICES ASSUME Init PROVE PlanInv
  OBVIOUS
<1>1. /\ \A r \in Requests : tx[r].op = "none"
      /\ plan = [p \in Plans |-> NoPlan]
  BY DEF Init, PortalInit, Idle, PlansInit
<1>2. PlanRow(NoPlan)
  BY DEF PlanRow, NoPlan
<1>3. PlanRows
  BY <1>1, <1>2 DEF PlanRows
<1>4. InOrder /\ LastIsActive /\ Replaced /\ Renewals
  BY <1>1 DEF InOrder, LastIsActive, Replaced, Renewals, Active, NoPlan
<1> QED BY <1>3, <1>4, SaneInitially DEF PlanInv

LEMMA PlanIsKept == PlanInv => PlanKept
<1> SUFFICES ASSUME PlanInv PROVE PlanKept
  OBVIOUS
<1>1. Cardinality(Active) <= 1
  <2>1. \A p, q \in Active : p = q
    BY DEF PlanInv, LastIsActive, Newest, Active, NoPlan
  <2>2. CASE Active = {}
    BY <2>2, FS_EmptySet
  <2>3. CASE Active # {}
    <3>1. PICK p \in Active : TRUE
      BY <2>3
    <3>2. Active = {p}
      BY <2>1, <3>1
    <3>3. Cardinality({p}) = 1
      BY FS_Singleton
    <3> QED BY <3>2, <3>3
  <2> QED BY <2>2, <2>3
<1>2. ASSUME ~broken, ~Renewing, NEW p \in Plans, plan[p].status = "SUPERSEDED"
      PROVE  p # Max(Plans \ FreePlans)
  <2> DEFINE used == Plans \ FreePlans
  <2>1. used = {q \in Plans : plan[q] # NoPlan} /\ p \in used
    BY <1>2 DEF FreePlans, NoPlan
  <2>2. used \subseteq Nat /\ IsFiniteSet(used)
    BY FS_Subset
  <2> HIDE DEF used
  <2>3. \A q \in used : q <= Max(used)
    BY <2>1, <2>2, MaxIs
  <2>4. p = Max(used) => Newest(p)
    BY <2>1, <2>3 DEF Newest
  <2>5. ~Newest(p)
    BY <1>2 DEF PlanInv, Replaced, Replacing, Renewing
  <2> QED BY <2>4, <2>5 DEF used
<1> QED BY <1>1, <1>2 DEF PlanKept

(* However plans are bought, renewed and expired: one is active at most,   *)
(* and the last one is superseded only while its renewal goes on, or when  *)
(* that renewal failed.                                                    *)
THEOREM PlanAlwaysKept == Spec => []PlanKept
  BY PlansInitially, PlansKept, PlanIsKept, PTL DEF Spec

=============================================================================
