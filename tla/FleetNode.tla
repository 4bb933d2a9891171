------------------------------ MODULE FleetNode ------------------------------
(***************************************************************************)
(* A fleet node: one process in which the command phase of the tick        *)
(* (FleetCommands) and the discovery loop (FleetDiscovery) run side by     *)
(* side (worker/src/agent.ts).  They share nothing but the process: a      *)
(* command that replaces it takes the loop's memory along, and the turns   *)
(* of the users it was searching for.                                      *)
(***************************************************************************)
EXTENDS FleetCommands, FleetDiscovery

ASSUME OneProcess == Runner = Node

fleetVars == <<commandVars, discoveryVars>>

FleetInit == CommandsInit /\ DiscoveryInit

\* The command step just taken replaced the process: the script restarted it, it
\* exited to be restarted, or it died.
Replaced(n) ==
    \/ step[n] = "run" /\ step'[n] = "idle"
    \/ step[n] \in {"report done", "report failed"} /\ Kind[Current(n)] = "restart"
    \/ deaths' # deaths

CommandLoop(n) ==
    /\ CommandPhase(n) \/ NodeDies(n)
    /\ IF Replaced(n) THEN RunnerRestarts(n) /\ UNCHANGED mishaps ELSE UNCHANGED discoveryVars

ControlPlane ==
    /\ \/ \E c \in Command : IssueCommand(c)
       \/ \E c \in Command, s \in {"acked", "done", "failed"} : LateAck(c, s)
    /\ UNCHANGED discoveryVars

DiscoveryLoop == DiscoveryNext /\ UNCHANGED commandVars

FleetNext == (\E n \in Node : CommandLoop(n)) \/ ControlPlane \/ DiscoveryLoop

FleetSpec ==
    /\ FleetInit /\ [][FleetNext]_fleetVars
    /\ \A n \in Node : WF_fleetVars(CommandPhase(n) /\ CommandLoop(n))
    /\ DiscoveryFairness
=============================================================================
