--------------------------- MODULE MCSqliteStorage ---------------------------
(* An instance of SqliteStorage for TLC: two tasks of an application and   *)
(* one of a command, on one request.                                       *)
EXTENDS SqliteStorage

CONSTANTS a1, a2, b1, ca, cb, k1

MCConnOf == [t \in Tasks |-> IF t = b1 THEN cb ELSE ca]

=============================================================================
