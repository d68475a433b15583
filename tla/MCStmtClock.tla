------------------------------ MODULE MCStmtClock ------------------------------
(* StmtClock for TLC. *)
EXTENDS StmtClock

(* No limit, the edge values, and more than the run starts with. *)
AnyLimits == {-1, 0, 1, 6}
=============================================================================
