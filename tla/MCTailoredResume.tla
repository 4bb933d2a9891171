--------------------------- MODULE MCTailoredResume ---------------------------
(* Instances of TailoredResume for TLC; see the configurations.            *)
EXTENDS TailoredResume, TLC

CONSTANTS l1, l2, e1, d1

TwoListings == {l1, l2}
OneExecutor == {e1}
OneDashboard == {d1}

\* The newest listing first.
InOrder == (l1 :> 0) @@ (l2 :> 1)
UploadBoards == (l1 :> "jobinja") @@ (l2 :> "e-estekhdam")
=============================================================================
