---------------------------- MODULE MCTimesheets ----------------------------
(* Small instances of Timesheets.                                           *)
EXTENDS Timesheets, TLC

CONSTANTS d1, d2, r1, r2, r3, s1, s2, s3, s4, s5

(* Two submissions of the same hours, a draft of as many, an empty draft,   *)
(* and one too long to submit.                                              *)
MCForm ==
    [s \in Saves |->
        [hours  |-> IF s = s4 THEN 0 ELSE IF s = s5 THEN 3 ELSE 1,
         submit |-> s \in {s1, s2, s5}]]

Symmetry == Permutations(Requests) \cup Permutations(Days) \cup Permutations({s1, s2} \cap Saves)

=============================================================================
