--------------------------- MODULE MCExtensionCycle ---------------------------
(* An instance of ExtensionCycle for TLC; see the configuration.           *)
EXTENDS ExtensionCycle

CONSTANTS b1, b2, h1, h2

TwoBoards == {b1, b2}
ThreeTasks == 1..3
LastElsewhere == [t \in Task |-> IF \A u \in Task : u <= t THEN b2 ELSE b1]
TwoHandlers == {h1, h2}
=============================================================================
