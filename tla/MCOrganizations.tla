--------------------------- MODULE MCOrganizations ---------------------------
(* Small instances of Organizations.                                        *)
EXTENDS Organizations, TLC

CONSTANTS o1, o2, d1, d2, c1, c2, r1, s1, s2, s3, s4

Symmetry == Permutations(Orgs) \cup Permutations(Databases) \cup
            Permutations(Provisioners) \cup Permutations(Sources)

=============================================================================
