--------------------------- MODULE AttendanceViews ---------------------------
(***************************************************************************)
(* What the portal shows of the attendance that AttendanceSystem records:  *)
(* the button to sign in or out, the detail of a day, the list of swipes,  *)
(* the month, and who is in.  And the minutes a day is judged by.          *)
(***************************************************************************)
EXTENDS AttendanceSystem

(* A shift of a day, from an instant to an instant; break as the setting.  *)
overlapMinutes(from, to, start, end) == Max({0, Min({to, end}) - Max({from, start})})

(* A pair that is still open counts up to now.                             *)
calcWorkInShiftMinutes(pairs, start, end, at) ==
    MapThenSumSet(LAMBDA p : overlapMinutes(p.in, IF p.out = Never THEN at ELSE p.out, start, end),
                  pairs)

calcLateInMinutes(firstIn, start) == IF firstIn = Never THEN 0 ELSE Max({0, firstIn - start})
calcEarlyOutMinutes(lastOut, end) == IF lastOut = Never THEN 0 ELSE Max({0, end - lastOut})
actualWorkMinutes(row, break) == Max({0, row.worked - break})
calcShortfallAndExcess(expected, inShift, actual) ==
    [shortfall |-> Max({0, expected - inShift}), excess |-> Max({0, actual - inShift})]

DayStatus(row, rest) == IF rest THEN "R" ELSE IF row.firstIn # Never THEN "P" ELSE "A"

shouldFlagAttendanceException(row, rest, start, end, inShift, break, grace) ==
    /\ ~rest
    /\ \/ DayStatus(row, rest) = "A" \/ row.lastOut = Never
       \/ calcLateInMinutes(row.firstIn, start) > grace
       \/ calcEarlyOutMinutes(row.lastOut, end) > grace
       \/ calcShortfallAndExcess(end - start - break, inShift, 0).shortfall > 0

-----------------------------------------------------------------------------
(* An employee without a shift has only the sessions of the calendar day.  *)
isSignedIn ==
    \/ findOpenSessionContext(punches, Today, overnight) # NoDay
    \/ hasOpenSession(getPunchesForDay(punches, Today, FALSE))

WholeWindow(d) == getPunchesForDay(punches, d, overnight)   \* mutant: not only the pairs of the day
DisplayPunches(d) ==
    LET seen == getPunchesForDay(punches, d, overnight) IN
    {p \in seen : \E pair \in pairPunches(seen, d) : p.at \in {pair.in, pair.out}}

getEmployeeSwipes(from, to) == {p \in punches : DayOf(p.at) \in from .. to}

getDays(d, rest) == DayStatus(summary[d], rest)

(* The month: its days that are present, and their minutes.                *)
getSummary(rests) ==
    LET present == {d \in Days : summary[d].exists /\ getDays(d, d \in rests) = "P"} IN
    [present |-> present,
     minutes |-> SumFunction([d \in present |-> actualWorkMinutes(summary[d], 0)]),
     penalty |-> {d \in Days \ rests : summary[d].exists /\ getDays(d, FALSE) = "A"}]

(* off: an approved leave, a holiday of the branch, a day of rest, or none *)
getWhoIsIn(d, off, start) ==
    CASE off = "leave" -> "onLeave"
      [] off = "holiday" -> "holiday"
      [] off = "rest" -> "restDay"
      [] OTHER -> IF summary[d].firstIn = Never THEN "notYetIn"
                  ELSE IF calcLateInMinutes(summary[d].firstIn, start) > 0 THEN "late"
                  ELSE "onTime"

-----------------------------------------------------------------------------
Span(instants) == IF instants = {} THEN 0 ELSE Max(instants) - Min(instants)

(* An IN on the days that show the punch.  A sign-out that is accepted     *)
(* before midnight and stamped after it may have none, and shows nowhere.  *)
Preceded(p) ==
    \E t \in Ins(punches) :
        t <= p.at /\ (DayOf(t) = DayOf(p.at) \/ (overnight /\ DayOf(t) = DayOf(p.at) - 1))

(* What the views say of one state of affairs agrees.  The button that is  *)
(* shown is the one the server accepts, unless a correction was approved   *)
(* that ends tomorrow.  A swipe of the list shows in the detail of one     *)
(* day, under a shift that spans midnight too, if sessions alternate and   *)
(* an OUT has an IN on the days that are read, and never in two.  No       *)
(* minute counts on two days of a month.  And who is signed in since today *)
(* is not expected any more, and present.                                  *)
ViewsAgree ==
    /\ isSignedIn /\ (\A p \in punches : DayOf(p.at) <= Today) => findOpenSessionContext(punches, Today, overnight) # NoDay
    /\ \A p \in getEmployeeSwipes(0, LastDay) :
        LET shown == {d \in Days : p \in DisplayPunches(d)} IN
        /\ Cardinality(shown) <= 1
        /\ (\A d \in Days : ~tangled[d]) /\ Preceded(p) => shown # {}
    /\ (\A d \in Days : ~behind[d]) => getSummary({}).minutes <= Span({p.at : p \in punches})
    /\ findOpenSessionContext(punches, Today, overnight) = Today /\ ~behind[Today] =>
        /\ Today \in getSummary({}).present
        /\ \A start \in Days : getWhoIsIn(Today, "none", start) \in {"late", "onTime"}

=============================================================================
