--------------------------- MODULE AttendanceDays ---------------------------
(***************************************************************************)
(* How the punches of an employee become the attendance of a day: which    *)
(* punches a day reads, how IN and OUT are paired, what is summed up, and  *)
(* whether a session is open.  Instants are numbers, DayLength to a day.   *)
(***************************************************************************)
EXTENDS Integers, FiniteSetsExt, Functions

CONSTANT DayLength      \* bound: the instants of a calendar day

ASSUME DayLengthAssumption == DayLength \in Nat \ {0}

Never == -1             \* no instant
NoDay == -1             \* no work date

DayOf(t) == t \div DayLength        \* orgDateKeyForInstant

Ins(P)  == {p.at : p \in {q \in P : q.type = "IN"}}
Outs(P) == {p.at : p \in {q \in P : q.type = "OUT"}}

(* A shift that spans midnight also reads the next calendar day.           *)
getPunchesForDay(P, d, overnight) ==
    {p \in P : DayOf(p.at) = d \/ (overnight /\ DayOf(p.at) = d + 1)}

(* An OUT closes the IN before it, unless another OUT did; an IN replaces  *)
(* one that is still open; the last IN may stay open.  The query orders by *)
(* the instant alone.  Instants only meet where a correction, given to the *)
(* minute, or a swipe coincides with another punch, and the order of the   *)
(* two is then the database's: the model has one, the INs first.           *)
Closed(P) ==
    {pair \in [in : Ins(P), out : Outs(P)] :
        /\ pair.in <= pair.out
        /\ \A t \in Ins(P)  : ~(pair.in < t /\ t <= pair.out)
        /\ \A t \in Outs(P) : ~(pair.in <= t /\ t < pair.out)}
Open(P) ==
    {[in |-> i, out |-> Never] :
        i \in {j \in Ins(P) : (\A t \in Ins(P) : t <= j) /\ (\A t \in Outs(P) : t < j)}}
PairsOf(P) == Closed(P) \cup Open(P)

(* Only the pairs that begin on the work date are its own.                 *)
pairPunches(P, d) == {pair \in PairsOf(P) : DayOf(pair.in) = d}

ClosedPairs(pairs) == {pair \in pairs : pair.out # Never}
hasCompleteInOutPair(P, d, overnight) ==
    ClosedPairs(pairPunches(getPunchesForDay(P, d, overnight), d)) # {}

(* The last punch of the day is an IN.                                     *)
hasOpenSession(P) == Open(P) # {}

(* attendance_daily_summaries: what the pairs of the day amount to.        *)
NoSummary == [exists |-> FALSE, firstIn |-> Never, lastOut |-> Never, worked |-> 0]

SummaryOf(pairs) ==
    LET closed == ClosedPairs(pairs) IN
    [exists  |-> TRUE,
     firstIn |-> IF pairs = {} THEN Never ELSE Min({p.in : p \in pairs}),
     lastOut |-> IF closed = {} THEN Never ELSE Max({p.out : p \in closed}),
     worked  |-> SumFunction([p \in closed |-> p.out - p.in])]

(* The session that signing out, or in, finds open: today's, or yesterday's *)
(* under a shift that spans midnight.                                      *)
HasOpen(P, d, overnight) ==
    \E p \in pairPunches(getPunchesForDay(P, d, overnight), d) : p.out = Never
findOpenSessionContext(P, today, overnight) ==
    IF HasOpen(P, today, overnight) THEN today
    ELSE IF overnight /\ HasOpen(P, today - 1, overnight) THEN today - 1
    ELSE NoDay

=============================================================================
