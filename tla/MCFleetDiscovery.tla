--------------------------- MODULE MCFleetDiscovery ---------------------------
(* Instances of FleetDiscovery for TLC; see the configurations.            *)
EXTENDS FleetDiscovery

CONSTANTS n1, n2, u1, u2, p1

OneNode == {n1}
TwoNodes == {n1, n2}
OneUser == {u1}
TwoUsers == {u1, u2}
OnePosting == {p1}

AllHaveFirst == [n \in Runner |-> {u1}]
AllHaveAll == [n \in Runner |-> User]
=============================================================================
