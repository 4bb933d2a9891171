---------------------------- MODULE FleetCommands ----------------------------
(***************************************************************************)
(* Commands of the control plane to the fleet's nodes: issued by an        *)
(* administrator (lib/fleet/commands.ts), polled, run and acknowledged by  *)
(* the last phase of a node's tick (worker/src/lib/commands.ts), with      *)
(* update.sh and the process manager restarting the node.                  *)
(*                                                                         *)
(* An acknowledgement is a request the node waits for.  It is recorded, or *)
(* lost, or the connection breaks and it is recorded later than what the   *)
(* node does next.  Node is the process's state; it is gone on a restart.  *)
(***************************************************************************)
EXTENDS Integers

CONSTANTS
    Command,
    Node,
    NodeOf,     \* the node each command is for
    Kind,       \* "update" or "restart"
    MaxLosses,  \* bound of the model: acknowledgements lost or late
    MaxDeaths   \* bound of the model: restarts nobody asked for

ASSUME CommandAssumption ==
    /\ NodeOf \in [Command -> Node]
    /\ Kind \in [Command -> {"update", "restart"}]
    /\ MaxLosses \in Nat /\ MaxDeaths \in Nat

VARIABLES
    issuedAt,   \* worker_commands.issued_at: the command's number, 0 before it is issued
    latest,     \* number of the command issued last
    status,     \* worker_commands.status
    batch,      \* of each node: the commands it polled and has not finished
    step,       \* of each node: where it is with the first of them
    late,       \* acknowledgements under way whose sender has gone on
    ran,        \* history: commands run
    closed,     \* history: commands recorded as done or failed
    untaken,    \* history: times each command was run without "acked" arriving first
    reruns,     \* history: times each command was run again
    losses,     \* history: acknowledgements lost or late
    deaths      \* history: restarts nobody asked for

issueVars == <<issuedAt, latest>>
commandVars == <<issueVars, status, batch, step, late, ran, closed, untaken, reruns, losses, deaths>>

Status == {"none", "pending", "acked", "done", "failed"}
Step == {"idle", "take", "run", "report done", "report failed"}

CommandsTypeOK ==
    /\ issuedAt \in [Command -> Nat] /\ latest \in Nat
    /\ status \in [Command -> Status]
    /\ batch \in [Node -> SUBSET Command]
    /\ step \in [Node -> Step]
    /\ late \subseteq Command \X {"acked", "done", "failed"}
    /\ ran \subseteq Command /\ closed \subseteq Command
    /\ untaken \in [Command -> Nat] /\ reruns \in [Command -> Nat]
    /\ losses \in Nat /\ losses <= MaxLosses
    /\ deaths \in Nat /\ deaths <= MaxDeaths
    /\ \A n \in Node : step[n] = "idle" <=> batch[n] = {}

CommandsInit ==
    /\ issuedAt = [c \in Command |-> 0] /\ latest = 0
    /\ status = [c \in Command |-> "none"]
    /\ batch = [n \in Node |-> {}]
    /\ step = [n \in Node |-> "idle"]
    /\ late = {}
    /\ ran = {} /\ closed = {}
    /\ untaken = [c \in Command |-> 0] /\ reruns = [c \in Command |-> 0]
    /\ losses = 0 /\ deaths = 0

---------------------------------------------------------------------------
(* The control plane.                                                      *)

IssueCommand(c) ==
    /\ status[c] = "none"
    /\ latest' = latest + 1
    /\ issuedAt' = [issuedAt EXCEPT ![c] = latest + 1]
    /\ status' = [status EXCEPT ![c] = "pending"]
    /\ UNCHANGED <<batch, step, late, ran, closed, untaken, reruns, losses, deaths>>

\* Slip: whatever is not finished is handed out.
PollableOpen(c) == status[c] \in {"pending", "acked"}

\* pollCommands changes nothing.
Pollable(c) == status[c] = "pending"

Polled(n) == {c \in Command : NodeOf[c] = n /\ Pollable(c)}

\* Slip: a command that failed waits for another try.
AcknowledgeRetry(c, s) ==
    /\ status' = [status EXCEPT ![c] = IF s = "failed" THEN "pending" ELSE s]
    /\ closed' = IF s = "acked" THEN closed ELSE closed \cup {c}

\* ackCommand sets whatever status the node reports.
Acknowledge(c, s) ==
    /\ status' = [status EXCEPT ![c] = s]
    /\ closed' = IF s = "acked" THEN closed ELSE closed \cup {c}

---------------------------------------------------------------------------
(* The node.                                                               *)

\* The batch is handled oldest first.
Current(n) == CHOOSE c \in batch[n] : \A d \in batch[n] : issuedAt[c] <= issuedAt[d]

Poll(n) ==
    /\ step[n] = "idle"
    /\ Polled(n) # {}
    /\ batch' = [batch EXCEPT ![n] = Polled(n)]
    /\ step' = [step EXCEPT ![n] = "take"]
    /\ UNCHANGED <<issueVars, status, late, ran, closed, untaken, reruns, losses, deaths>>

\* safeAck: the node goes on whether or not its request was answered.
SafeAck(c, s) ==
    \/ /\ Acknowledge(c, s)
       /\ UNCHANGED <<late, losses>>
    \/ /\ losses < MaxLosses
       /\ losses' = losses + 1
       /\ late' \in {late, late \cup {<<c, s>>}}
       /\ UNCHANGED <<status, closed>>

LateAck(c, s) ==
    /\ <<c, s>> \in late
    /\ late' = late \ {<<c, s>>}
    /\ Acknowledge(c, s)
    /\ UNCHANGED <<issueVars, batch, step, ran, untaken, reruns, losses, deaths>>

\* handleCommand: "acked" first,
Take(n) ==
    /\ step[n] = "take"
    /\ SafeAck(Current(n), "acked")
    /\ step' = [step EXCEPT ![n] = "run"]
    /\ UNCHANGED <<issueVars, batch, ran, untaken, reruns, deaths>>

\* The process is replaced, and with it what it was doing.
Restarts(n) ==
    /\ batch' = [batch EXCEPT ![n] = {}]
    /\ step' = [step EXCEPT ![n] = "idle"]

\* then the update script, which ends well, badly, or, with systemd, by restarting
\* the node under its own feet; a restart is reported before it is done.
RunCommand(n) ==
    /\ step[n] = "run"
    /\ LET c == Current(n)
       IN  /\ ran' = ran \cup {c}
           /\ untaken' = IF status[c] = "pending" THEN [untaken EXCEPT ![c] = @ + 1] ELSE untaken
           /\ reruns' = IF c \in ran THEN [reruns EXCEPT ![c] = @ + 1] ELSE reruns
           /\ \/ /\ step' = [step EXCEPT ![n] = "report done"]
                 /\ UNCHANGED batch
              \/ /\ Kind[c] = "update"
                 /\ step' = [step EXCEPT ![n] = "report failed"]
                 /\ UNCHANGED batch
              \/ /\ Kind[c] = "update"
                 /\ Restarts(n)
    /\ UNCHANGED <<issueVars, status, late, closed, losses, deaths>>

\* "no point running further commands before the process bounces."
AfterReport(n) ==
    LET rest == batch[n] \ {Current(n)}
    IN  IF Kind[Current(n)] = "restart" THEN Restarts(n)
        ELSE /\ batch' = [batch EXCEPT ![n] = rest]
             /\ step' = [step EXCEPT ![n] = IF rest = {} THEN "idle" ELSE "take"]

\* and last the outcome.
ReportOutcome(n) ==
    /\ step[n] \in {"report done", "report failed"}
    /\ SafeAck(Current(n), IF step[n] = "report done" THEN "done" ELSE "failed")
    /\ AfterReport(n)
    /\ UNCHANGED <<issueVars, ran, untaken, reruns, deaths>>

\* A crash, a deploy, or a tick that outlives its deadline.
NodeDies(n) ==
    /\ deaths < MaxDeaths
    /\ deaths' = deaths + 1
    /\ Restarts(n)
    /\ UNCHANGED <<issueVars, status, late, ran, closed, untaken, reruns, losses>>

CommandPhase(n) == Poll(n) \/ Take(n) \/ RunCommand(n) \/ ReportOutcome(n)

CommandsNext ==
    \/ \E c \in Command : IssueCommand(c)
    \/ \E c \in Command, s \in {"acked", "done", "failed"} : LateAck(c, s)
    \/ \E n \in Node : CommandPhase(n) \/ NodeDies(n)

\* Nodes go on ticking.  A late acknowledgement arrives or not.
CommandsSpec ==
    CommandsInit /\ [][CommandsNext]_commandVars /\ \A n \in Node : WF_commandVars(CommandPhase(n))

---------------------------------------------------------------------------
(* Properties.                                                             *)

\* "status: pending -> acked -> done | failed" as an administrator sees it: a command
\* that was answered never waits again, done and failed are said of commands that
\* were run, and with nodes that keep polling every command is answered, in spite of
\* lost acknowledgements and restarts.
Delivery == INSTANCE CommandDelivery WITH
    phase <- [c \in Command |-> CASE status[c] = "none" -> "none"
                                  [] status[c] = "pending" -> "waiting"
                                  [] OTHER -> "answered"]

Delivered == Delivery!Spec

\* A command is run again only when the acknowledgements of the earlier run did not
\* arrive: a restart cannot become a loop by itself.
RerunExcused == \A c \in Command : reruns[c] <= untaken[c]
=============================================================================
