--------------------------- MODULE MCApplyDispatch ---------------------------
(* Model values for ApplyDispatch.                                          *)
EXTENDS ApplyDispatch, TLC

CONSTANTS b1, n1, n2, t1, t2

MCOneBrowser == {b1}
MCOneNode == {n1}
MCOneTask == {t1}
MCTwoNodes == {n1, n2}
MCTwoTasks == {t1, t2}
MCNone == {}
MCOpenGates == {TRUE}
MCAnyGates == BOOLEAN
MCOnce == [t \in Task |-> 1]
MCTwice == [t \in Task |-> 2]
MCFirstThrice == [t \in Task |-> IF t = t1 THEN 3 ELSE 1]
MCFewOutcomes == {[status |-> "submitted", evidence |-> TRUE, reached |-> TRUE],
                  [status |-> "verifying", evidence |-> FALSE, reached |-> TRUE],
                  [status |-> "failed", evidence |-> FALSE, reached |-> FALSE],
                  [status |-> "challenge", evidence |-> FALSE, reached |-> FALSE]}
MCFailureOrChallenge == {[status |-> "failed", evidence |-> FALSE, reached |-> FALSE],
                         [status |-> "challenge", evidence |-> FALSE, reached |-> FALSE]}
MCDistinctOutcomes == {[status |-> "submitted", evidence |-> TRUE, reached |-> TRUE],
                       [status |-> "submitted", evidence |-> TRUE, reached |-> FALSE],
                       [status |-> "submitted", evidence |-> FALSE, reached |-> FALSE],
                       [status |-> "failed", evidence |-> FALSE, reached |-> TRUE],
                       [status |-> "challenge", evidence |-> FALSE, reached |-> FALSE]}
MCSymmetry == Permutations(MCTwoNodes)
=============================================================================
