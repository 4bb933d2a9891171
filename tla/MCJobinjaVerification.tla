------------------------ MODULE MCJobinjaVerification ------------------------
(* Instances of JobinjaVerification for TLC; see the configurations.       *)
EXTENDS JobinjaVerification

CONSTANTS j1, j2, j3, x1, v1

ThreeJobs == {j1, j2, j3}
OneOwn == {j1}
OneExtension == {x1}
OneVault == {v1}
=============================================================================
