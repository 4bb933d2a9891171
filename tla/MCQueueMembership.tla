-------------------------- MODULE MCQueueMembership --------------------------
(* Instances of QueueMembership for TLC; see the configurations.           *)
EXTENDS QueueMembership

CONSTANTS l1, f1, d1, e1

OneListing == {l1}
OneFinder == {f1}
OneTab == {d1}
OneWorker == {e1}
AllDeletions == {"purge", "refilter", "reset"}
=============================================================================
