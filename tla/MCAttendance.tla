---------------------------- MODULE MCAttendance ----------------------------
(* Small instances of AttendanceSystem: two days of three instants, and    *)
(* ten ways of using them.                                                 *)
EXTENDS AttendanceViews, TLC

CONSTANTS r1, r2

MCTimes == {[in |-> 0, out |-> 2], [in |-> 2, out |-> 0]}

Plan(kinds) == [overnight |-> FALSE, strict |-> FALSE, window |-> 0, bound |-> TRUE,
                first |-> 3, last |-> 6, scans |-> 0, faults |-> 0, kinds |-> kinds]
Web == {"signIn", "signOut", "view", "midnight"}

DayShift    == [Plan(Web) EXCEPT !.first = 2, !.last = 5]
LateSignOut == [Plan(Web \ {"view"}) EXCEPT !.first = 1, !.last = 4]
NightShift  == [Plan(Web) EXCEPT !.first = 2, !.last = 5, !.overnight = TRUE]
Corrections == [Plan({"signIn", "signOut", "regularize", "approve", "reject", "withdraw"})
                   EXCEPT !.first = 0, !.last = 2]
NightCorrections == [Plan({"signIn", "signOut", "regularize", "approve"})
                        EXCEPT !.first = 2, !.last = 3, !.overnight = TRUE]
Swipes      == [Plan({"signIn", "signOut", "scan"})
                   EXCEPT !.scans = 2, !.window = 1]
Directed    == [Plan({"scan", "regularize", "approve"})
                   EXCEPT !.first = 0, !.last = 2, !.scans = 2, !.strict = TRUE]
Interrupted == [Plan({"scan"})
                   EXCEPT !.last = 5, !.scans = 2, !.faults = 1]
Unmapped    == [Plan({"scan", "resolve"})
                   EXCEPT !.last = 5, !.scans = 1, !.bound = FALSE, !.faults = 1]
Remapped    == [Plan({"scan", "bind", "clear", "ignore", "resolve"})
                   EXCEPT !.last = 5, !.scans = 2, !.bound = FALSE]

EveryScenario == {DayShift, LateSignOut, NightShift, Corrections, NightCorrections,
                  Swipes, Directed, Interrupted, Unmapped, Remapped}
NightSwipes   == {[Plan({"scan"}) EXCEPT !.overnight = TRUE, !.scans = 2]}

-----------------------------------------------------------------------------
(* pairPunches as the code runs: over the punches in order, with the IN    *)
(* that is open in hand.                                                   *)
RECURSIVE Paired(_, _, _)
Paired(P, t, currentIn) ==
    LET in == IF t \in Ins(P) THEN t ELSE currentIn IN
    IF t = End THEN IF currentIn = Never THEN {} ELSE {[in |-> currentIn, out |-> Never]}
    ELSE IF t \in Outs(P) /\ in # Never
    THEN {[in |-> in, out |-> t]} \cup Paired(P, t + 1, Never)
    ELSE Paired(P, t + 1, in)

AnyPunches == SUBSET {Punch(t, type, "WEB", None) : t \in 0 .. 4, type \in {"IN", "OUT"}}

ASSUME PairsAreWhatTheLoopFinds == \A P \in AnyPunches : PairsOf(P) = Paired(P, 0, Never)

(* The minutes in a shift are the instants of the shift that a pair covers,*)
(* and what was worked beyond them are the others.                         *)
Covered(pairs, at) ==
    {t \in 0 .. 5 : \E p \in pairs : p.in <= t /\ t < (IF p.out = Never THEN at ELSE p.out)}
ASSUME MinutesAreTheInstantsCovered ==
    \A P \in AnyPunches, start, end \in 0 .. 4 :
        LET inShift(pairs) == calcWorkInShiftMinutes(pairs, start, end, 5)
            closed == ClosedPairs(PairsOf(P))
            row == SummaryOf(PairsOf(P))
        IN
        /\ inShift(PairsOf(P)) = Cardinality(Covered(PairsOf(P), 5) \cap start .. end - 1)
        /\ calcShortfallAndExcess(end - start, inShift(closed), actualWorkMinutes(row, 0)).excess
             = Cardinality(Covered(closed, 5) \ (start .. end - 1))
        /\ start < end /\ ~shouldFlagAttendanceException(row, FALSE, start, end, inShift(closed), 0, 0)
             => start .. end - 1 \subseteq Covered(closed, 5)

=============================================================================
