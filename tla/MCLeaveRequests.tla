--------------------------- MODULE MCLeaveRequests ---------------------------
(* Small instances of LeaveRequests.                                        *)
EXTENDS LeaveRequests, TLC

CONSTANTS p1, p2, p3, l1, l2, r1, r2

(* Earned leave of one day, unpaid leave without limit that counts          *)
(* weekends and holidays, and leave by whole days.                          *)
MCRule ==
    [p \in Policies |->
        [granted                |-> 2,
         negativeBalanceAllowed |-> p = p2,
         maxDays                |-> 6,
         allowHalfDay           |-> p # p3,
         weekendsCountAsLeave   |-> p = p2,
         holidaysCountAsLeave   |-> p = p2]]

(* A morning, an afternoon, a whole day, and a range that starts that day   *)
(* and ends with a morning after a weekend day.                             *)
RaceSpans ==
    {[from |-> 1, to |-> 1, s1 |-> 1, s2 |-> 1],
     [from |-> 1, to |-> 1, s1 |-> 2, s2 |-> 2],
     [from |-> 1, to |-> 1, s1 |-> 1, s2 |-> 2],
     [from |-> 1, to |-> 3, s1 |-> 2, s2 |-> 1]}

AllOps == {"create"} \cup DecideOps

Symmetry == Permutations(Requests) \cup Permutations(Leaves)

-----------------------------------------------------------------------------
(* The arithmetic, over every range of four days: a working day, a weekend  *)
(* day, a working day and a holiday.                                        *)
AllSpans == SpansWithin(1..4)
AllRules == [allowHalfDay : BOOLEAN, weekendsCountAsLeave : BOOLEAN, holidaysCountAsLeave : BOOLEAN]

ASSUME CalculatorAlignsWithOverlapCheck ==
    \A s \in AllSpans, rule \in AllRules : (rule.allowHalfDay \/ ~impliesPartialDay(s)) =>
        calculate(rule, s) = Cardinality({x \in SessionsIn(s) : countsAsLeaveDay(rule, x[1])})

ASSUME RangesConflictWhenSessionsMeet ==
    \A a, b \in AllSpans : leaveRangesConflict(a, b) <=> SessionsIn(a) \cap SessionsIn(b) # {}

=============================================================================
