--------------------------- MODULE MCBoardAccess ---------------------------
(* Instance of BoardAccess for TLC. *)
EXTENDS BoardAccess, TLC

CONSTANTS t1, t2, t3, n1, f1

TwoTasks == {t1, t2}
ThreeTasks == {t1, t2, t3}
OneNode == {n1}
OneForm == {f1}
=============================================================================
