--------------------------- MODULE MCConnectionPool ---------------------------
(* Small instances of ConnectionPool.                                        *)
EXTENDS ConnectionPool

CONSTANTS r1, r2, r3, r4

=============================================================================
