--------------------------- MODULE MCExecutionRun ---------------------------
(* Model values for ExecutionRun: two browsers, two nodes.                 *)
EXTENDS ExecutionRun

CONSTANTS b1, b2, n1, n2

MCBrowser == {b1, b2}
MCNode == {n1, n2}
=============================================================================
