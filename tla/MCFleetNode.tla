----------------------------- MODULE MCFleetNode -----------------------------
(* An instance of FleetNode for TLC; see the configuration.                *)
EXTENDS FleetNode

CONSTANTS n1, u1, p1, c1, c2

OneNode == {n1}
OneUser == {u1}
OnePosting == {p1}
TwoCommands == {c1, c2}

AllForFirst == [c \in Command |-> n1]
UpdateAndRestart == [c \in Command |-> IF c = c1 THEN "update" ELSE "restart"]
HasUser == [n \in Runner |-> {u1}]
=============================================================================
