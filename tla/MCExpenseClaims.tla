--------------------------- MODULE MCExpenseClaims ---------------------------
(* Small instances of ExpenseClaims: two expenses, of one and two units.    *)
EXTENDS ExpenseClaims, TLC

CONSTANTS c1, c2, r1, r2, i1, i2

MCAmountOf == [i \in Items |-> IF i = i1 THEN 1 ELSE 2]

(* Every request, and the ones that decide a question about two claims.     *)
AllOps   == EmployeeOps \cup ReviewOps
ClaimRun == {"addLine", "deleteLine", "submit", "withdraw"}

Symmetry == Permutations(Requests) \cup Permutations(Claims)

=============================================================================
