------------------------------ MODULE LeaveDays ------------------------------
(***************************************************************************)
(* The arithmetic of leave: what a request is charged, and which halves of *)
(* which days it takes.  Two services compute these apart from each other, *)
(* LeaveDayCalculatorService for the balance and leave-request-query.util  *)
(* for the overlap check.  Days are numbered, halves of a day are sessions *)
(* 1 and 2, and durations are counted in half days.                        *)
(***************************************************************************)
EXTENDS Integers, FiniteSets, Functions

CONSTANTS
    Weekend,    \* the days that are Saturdays or Sundays to the organization
    Holidays    \* the published holidays of the employee's location

Sessions == {1, 2}

(* From session s1 of day from to session s2 of day to.                    *)
SpansWithin(days) ==
    {s \in [from : days, to : days, s1 : Sessions, s2 : Sessions] : s.from <= s.to}

SameDay(s) == s.from = s.to

WeightOfPartialDay(s, d) ==
    CASE SameDay(s)         -> IF s.s1 = s.s2 THEN 1 ELSE 2
      [] ~SameDay(s) /\ d = s.from -> 1
      [] ~SameDay(s) /\ d = s.to   -> IF s.s2 = 1 THEN 1 ELSE 2
      [] OTHER              -> 2

weightForDay(rule, s, d) == IF rule.allowHalfDay THEN WeightOfPartialDay(s, d) ELSE 2

countsAsLeaveDay(rule, d) ==
    /\ d \in Weekend => rule.weekendsCountAsLeave
    /\ d \in Holidays => rule.holidaysCountAsLeave

CountingDays(rule, s) == {d \in s.from..s.to : countsAsLeaveDay(rule, d)}

calculate(rule, s) ==
    SumFunction([d \in CountingDays(rule, s) |-> weightForDay(rule, s, d)])

impliesPartialDay(s) == ~SameDay(s) \/ s.s1 = s.s2

sessionsCoveredOnDay(s, d) ==
    CASE ~(d \in s.from..s.to)     -> {}
      [] d \in s.from..s.to /\ SameDay(s) -> {s.s1, s.s2}
      [] ~SameDay(s) /\ d = s.from -> {s.s1}
      [] ~SameDay(s) /\ d = s.to   -> {1, s.s2}
      [] OTHER                     -> Sessions

(* The halves of days a range takes.                                       *)
SessionsIn(s) == {x \in (s.from..s.to) \X Sessions : x[2] \in sessionsCoveredOnDay(s, x[1])}

(* Only the days both ranges contain are compared.                         *)
leaveRangesConflict(a, b) ==
    \E d \in (a.from..a.to) \cap (b.from..b.to) :
        sessionsCoveredOnDay(a, d) \cap sessionsCoveredOnDay(b, d) # {}

=============================================================================
