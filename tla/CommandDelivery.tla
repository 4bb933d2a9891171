--------------------------- MODULE CommandDelivery ---------------------------
(***************************************************************************)
(* What the command channel of the fleet promises an administrator         *)
(* (lib/fleet/commands.ts, api/fleet/commands): a command waits until its  *)
(* node answers, it is then never handed out as a new one, and the answer  *)
(* "done" or "failed" is given only for a command that was run.  It may be *)
(* run more than once.                                                     *)
(***************************************************************************)
CONSTANT Command

VARIABLES
    phase,      \* of each command: not issued, waiting for its node, or answered
    ran,        \* commands the node has run
    closed      \* commands that were reported done or failed

vars == <<phase, ran, closed>>

Init ==
    /\ phase = [c \in Command |-> "none"]
    /\ ran = {}
    /\ closed = {}

Issue(c) ==
    /\ phase[c] = "none"
    /\ phase' = [phase EXCEPT ![c] = "waiting"]
    /\ UNCHANGED <<ran, closed>>

\* The node takes up a command it was handed.
Run(c) ==
    /\ phase[c] # "none"
    /\ ran' = ran \cup {c}
    /\ UNCHANGED <<phase, closed>>

\* The node's answer is recorded; any answer will do for the command to be taken.
Answer(c) ==
    /\ phase[c] # "none"
    /\ phase' = [phase EXCEPT ![c] = "answered"]
    /\ \/ UNCHANGED closed
       \/ c \in ran /\ closed' = closed \cup {c}
    /\ UNCHANGED ran

Next == \E c \in Command : Issue(c) \/ Run(c) \/ Answer(c)

\* A command that waits is answered in the end.
Spec == Init /\ [][Next]_vars /\ \A c \in Command : WF_vars(phase[c] = "waiting" /\ Answer(c))
=============================================================================
