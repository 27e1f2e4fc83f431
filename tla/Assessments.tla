----------------------------- MODULE Assessments -----------------------------
(***************************************************************************)
(* The performance assessment of one employee in one cycle: HR assigns it, *)
(* the employee answers and submits, a manager reviews, HR closes it, and  *)
(* other roles may answer sections of their own.  A handler checks the     *)
(* status before its transaction, which then saves the answers, to         *)
(* whatever questions, and updates the assessment whatever its status has  *)
(* become.  Who may act for whom is left out.                              *)
(***************************************************************************)
EXTENDS PortalHandlers

CONSTANTS
    Questions,
    Scored,         \* the questions of scored sections that ask for a rating
    Ratings         \* the weights of the answers to each question; 0 is not rated

ASSUME AssessmentAssumption ==
    /\ Scored \subseteq Questions /\ None \notin Questions
    /\ \A q \in Questions : Ratings[q] \subseteq Nat

VARIABLES
    assessment,     \* performance_assessments: the committed row
    answers,        \* performance_answers: the committed rows
    scoreBehind     \* history: the score was computed from answers that lacked some

assessmentVars == <<assessment, answers, scoreBehind>>

Unscored  == [sum |-> 0, count |-> 0]

NoAssessment == [status |-> "NONE", score |-> Unscored, submitted |-> FALSE,
                 managerReviewed |-> FALSE, hrReviewed |-> FALSE]
NewAssessment == [NoAssessment EXCEPT !.status = "DRAFT"]

(* The average rating, of which the code makes a percentage.               *)
Average(A) ==
    LET rated == {q \in DOMAIN A : A[q] \notin {None, 0}} IN
    IF rated = {} THEN Unscored
    ELSE [sum |-> MapThenSumSet(LAMBDA q : A[q], rated), count |-> Cardinality(rated)]
computeAssessmentScore(A) == Average([q \in Scored |-> A[q]])

-----------------------------------------------------------------------------
createAssessment(r) ==
    /\ Asked("create")
    /\ assessment = NoAssessment
    /\ Begin(r, [op |-> "create", pc |-> "insert"])
    /\ UNCHANGED assessmentVars

(* UQ_performance_assessments_org_emp_template_cycle: one for each cycle.  *)
InsertAssessment(r) ==
    /\ At(r, "create", "insert")
    /\ assessment' = IF assessment = NoAssessment THEN NewAssessment ELSE assessment
    /\ Ends(r)
    /\ UNCHANGED <<answers, scoreBehind>>

(* The statuses a handler asks for, for a section of a role those at which *)
(* any role may edit, and what it makes of the row: a draft and a review   *)
(* that is not complete leave the status alone.                            *)
Accepts == [saveDraft |-> {"DRAFT", "SUBMITTED"},   submit |-> {"DRAFT", "SUBMITTED"},
            managerDraft |-> {"SUBMITTED"},         managerReview |-> {"SUBMITTED"},
            hrDraft |-> {"MANAGER_REVIEWED"},       hrReview |-> {"MANAGER_REVIEWED"},
            roleReview |-> {"DRAFT", "SUBMITTED", "MANAGER_REVIEWED"}]
Own == {"saveDraft", "submit"}

Patched(op, row) ==
    CASE op = "submit"        -> [row EXCEPT !.status = "SUBMITTED", !.submitted = TRUE]
      [] op = "managerDraft"  -> [row EXCEPT !.managerReviewed = TRUE]
      [] op = "managerReview" -> [row EXCEPT !.status = "MANAGER_REVIEWED", !.managerReviewed = TRUE]
      [] op = "hrDraft"       -> [row EXCEPT !.hrReviewed = TRUE]
      [] op = "hrReview"      -> [row EXCEPT !.status = "COMPLETED", !.hrReviewed = TRUE]
      [] OTHER                -> row

EarlyStage(op) ==           \* mutant: HR reviews what no manager has
    Accepts[op] \cup {"SUBMITTED"}
LateStage(op) ==            \* mutant: the employee's own requests do not ask for the status
    IF op \in Own THEN {"DRAFT", "SUBMITTED", "MANAGER_REVIEWED", "COMPLETED"} ELSE Accepts[op]
Stage(op) == Accepts[op]

AfterAnswers(op) == IF op \in Own THEN "score" ELSE "commit"

(* The handler loads the assessment and checks it; no answer is one to None. *)
answer(r, op, q, v) ==
    /\ Asked(op)
    /\ assessment.status \in Stage(op)
    /\ Begin(r, [op |-> op, pc |-> IF q = None THEN AfterAnswers(op) ELSE "find",
                 q |-> q, v |-> v, read |-> assessment.status,
                 new |-> FALSE, score |-> Unscored, missed |-> FALSE])
    /\ UNCHANGED assessmentVars

(* upsertAnswers.                                                          *)
FindAnswers(r) ==
    /\ tx[r].op \in DOMAIN Accepts /\ tx[r].pc = "find"
    /\ Goes(r, [tx[r] EXCEPT !.pc = "save", !.new = answers[tx[r].q] = None])
    /\ UNCHANGED assessmentVars

(* A row that another transaction holds has to be waited for.  A second    *)
(* insert of one question fails (UQ_performance_answers_assessment_question). *)
Held(r, q) ==
    \E o \in Requests \ {r} :
        tx[o].op \in DOMAIN Accepts /\ tx[o].pc \in {"score", "commit"} /\ tx[o].q = q
SaveAnswer(r) ==
    LET t == tx[r] IN
    /\ t.op \in DOMAIN Accepts /\ t.pc = "save"
    /\ ~Held(r, t.q)
    /\ IF t.new /\ answers[t.q] # None
       THEN Ends(r)
       ELSE Goes(r, [t EXCEPT !.pc = AfterAnswers(t.op)])
    /\ UNCHANGED assessmentVars

Saved(t) == [q \in Questions |-> IF q = t.q THEN t.v ELSE answers[q]]

ScoreOfBefore(r) ==         \* mutant: the score is computed before the answer is saved
    /\ tx[r].op \in Own /\ tx[r].pc = "score"
    /\ Goes(r, [tx[r] EXCEPT !.pc = "commit", !.score = computeAssessmentScore(answers)])
    /\ UNCHANGED assessmentVars
recomputeScore(r) ==
    LET t == tx[r] IN
    /\ t.op \in Own /\ t.pc = "score"
    /\ Goes(r, [t EXCEPT !.pc = "commit",
                         !.score = computeAssessmentScore(Saved(t))])
    /\ UNCHANGED assessmentVars

(* What a handler computes its score from lacks what commits after that.   *)
Unseen(r) ==
    [o \in Requests |-> IF o = r THEN Idle
                        ELSE IF tx[o].op \in Own /\ tx[o].pc = "commit" /\ tx[r].q \in Scored
                             THEN [tx[o] EXCEPT !.missed = TRUE]
                        ELSE tx[o]]

CommitAnswer(r) ==
    LET t == tx[r]
        row == Patched(t.op, assessment) IN
    /\ t.op \in DOMAIN Accepts /\ t.pc = "commit"
    /\ answers' = Saved(t)
    /\ assessment' = IF t.op \in Own THEN [row EXCEPT !.score = t.score] ELSE row
    /\ scoreBehind' = IF t.op \in Own THEN t.missed ELSE scoreBehind \/ t.q \in Scored
    /\ tx' = Unseen(r)
    /\ UNCHANGED <<scenario, today>>

AssessmentInit ==
    /\ assessment = NoAssessment
    /\ answers = [q \in Questions |-> None]
    /\ scoreBehind = FALSE

AssessmentStep(r) ==
    \/ createAssessment(r) \/ InsertAssessment(r)
    \/ \E op \in DOMAIN Accepts :
           \/ answer(r, op, None, None)
           \/ \E q \in Questions : \E v \in Ratings[q] : answer(r, op, q, v)
    \/ FindAnswers(r) \/ SaveAnswer(r) \/ recomputeScore(r) \/ CommitAnswer(r)

-----------------------------------------------------------------------------
Rank == [NONE |-> 0, DRAFT |-> 1, SUBMITTED |-> 2, MANAGER_REVIEWED |-> 3, COMPLETED |-> 4]

(* However submissions and reviews overlap: no assessment is with HR that  *)
(* was not submitted and reviewed by a manager, and none is completed that *)
(* HR did not review.                                                      *)
StagesSigned ==
    /\ Rank[assessment.status] >= 2 => assessment.submitted
    /\ Rank[assessment.status] >= 3 => assessment.managerReviewed
    /\ Rank[assessment.status] >= 4 => assessment.hrReviewed

(* The score is that of the answers, unless the handler that saved it last *)
(* computed it before another one committed an answer that counts, or a    *)
(* reviewer, who computes none, answered such a question since.            *)
ScoreMatchesAnswers ==
    ~scoreBehind => assessment.score = computeAssessmentScore(answers)

(* An assessment goes back to an earlier stage, and a completed one gets   *)
(* other answers, only by a handler that had seen another status.          *)
NothingUndone ==
    [][ \/ Rank[assessment'.status] < Rank[assessment.status]
        \/ assessment.status = "COMPLETED" /\ answers' # answers
        => \E r \in Requests : tx[r].pc = "commit" /\ tx'[r] = Idle
                               /\ tx[r].read # assessment.status ]_assessmentVars

=============================================================================
