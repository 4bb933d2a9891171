---------------------------- MODULE ExecutionRun ----------------------------
(***************************************************************************)
(* The run row of one user (table apply_execution_runs): who may work the  *)
(* user's queue, an open browser (the extension) or a fleet node (the      *)
(* server).  Source: src/src/lib/apply/execution-run.ts, driven by         *)
(* api/extension/run, api/extension/queue/reset, api/fleet/claim and       *)
(* api/fleet/result.                                                       *)
(*                                                                         *)
(* Every database statement is one action.  A request that reads the row   *)
(* and writes it later is two actions with "call" remembering the request  *)
(* between them, so anything may happen in the gap.                        *)
(***************************************************************************)
EXTENDS Integers, FiniteSets

CONSTANTS
    Browser,    \* executorId of each browser that has the extension
    Node,       \* id of each fleet node the user is assigned to
    NoOne,      \* SQL NULL in executor_id
    StaleRun    \* STALE_RUN_MS, in ticks of the clock

ASSUME ExecutorAssumption ==
    /\ Browser \cap Node = {}
    /\ NoOne \notin Browser \cup Node
ASSUME StaleRunAssumption == StaleRun \in Nat

VARIABLES
    run,        \* the row: [state, owner, executor]; state "absent" = no row yet
    hbAge,      \* ticks since heartbeat_at, saturated just above StaleRun
    call,       \* the request each executor is in the middle of
    open        \* browsers whose Chrome is open

runVars == <<run, hbAge, call, open>>

Executor == Browser \cup Node
RunState == {"absent", "paused", "running", "blocked", "completed"}
CallState == {"idle", "start", "takeover", "block", "gate", "server"}

TypeOK ==
    /\ run \in [state : RunState,
                owner : {"none", "extension", "server"},
                executor : Executor \cup {NoOne}]
    /\ hbAge \in 0..(StaleRun + 1)
    /\ call \in [Executor -> CallState]
    /\ open \in SUBSET Browser

RunInit ==
    /\ run = [state |-> "absent", owner |-> "none", executor |-> NoOne]
    /\ hbAge = 0
    /\ call = [p \in Executor |-> "idle"]
    /\ open = Browser

---------------------------------------------------------------------------
(* The conditions the code evaluates on the row.                           *)

HeartbeatStale == hbAge > StaleRun

Running(owner, p) ==
    run.state = "running" /\ run.owner = owner /\ run.executor = p

\* Slip: the ownership check forgets that a paused run may not be worked on.
OwnsRunInAnyState(b) == run.owner = "extension" /\ run.executor = b

\* assertExtensionExecutionOwner, and the WHERE of updateExtensionProgress.
OwnsRunningRun(b) == Running("extension", b)

\* The WHERE shared by pause, heartbeat and complete.
HoldsRun(b) == run.owner = "extension" /\ run.executor = b

\* The setWhere of start; an INSERT meets no conflict when there is no row.
Reclaimable(b, takeover) ==
    \/ run.state \in {"absent", "blocked"}
    \/ takeover /\ run.owner # "none"
    \/ ~takeover /\ \/ run.owner = "none"
                    \/ HoldsRun(b)
                    \/ run.state \in {"paused", "completed"}
                    \/ HeartbeatStale

\* The two early throws of start, evaluated on the row as it was read.
StartRefused(b, takeover) ==
    /\ ~takeover
    /\ run.state = "running"
    /\ \/ run.owner = "server"
       \/ run.owner = "extension" /\ run.executor # b /\ ~HeartbeatStale

\* Slip: only an unowned or server run may be taken, so a closed browser keeps it.
ServerMayTakeUnowned ==
    run.state # "blocked" /\ run.owner \in {"none", "server"}

ServerMayTake ==
    /\ run.state # "blocked"
    /\ \/ run.owner \in {"none", "server"}
       \/ run.owner = "extension" /\ run.state = "running" /\ HeartbeatStale

\* Slip: the upsert trusts the gate that the browser is silent.
ServerUpsertTrustsGate ==
    /\ run.state # "blocked"
    /\ run.owner = "extension" => run.state = "running"

\* Slip: a silent browser yields whatever the state of its run.
ServerUpsertTakesParked ==
    /\ run.state # "blocked"
    /\ run.owner = "extension" => HeartbeatStale

\* The setWhere of markServerExecutionRunning.
ServerUpsertMatches ==
    /\ run.state # "blocked"
    /\ \/ run.owner \in {"none", "server"}
       \/ run.owner = "extension" /\ run.state = "running" /\ HeartbeatStale

\* A row written by p: the heartbeat is refreshed by the same statement.
WriteRun(state, owner, p) ==
    /\ run' = [state |-> state, owner |-> owner, executor |-> p]
    /\ hbAge' = 0

Goto(p, c) == call' = [call EXCEPT ![p] = c]

---------------------------------------------------------------------------
(* Requests of a browser.                                                  *)

StartRead(b, takeover) ==
    /\ b \in open
    /\ call[b] = "idle"
    /\ ~StartRefused(b, takeover)
    /\ Goto(b, IF takeover THEN "takeover" ELSE "start")
    /\ UNCHANGED <<run, hbAge, open>>

\* The upsert of start and takeover; no row returned means the 409.
StartUpsert(b) ==
    /\ call[b] \in {"start", "takeover"}
    /\ Goto(b, "idle")
    /\ IF Reclaimable(b, call[b] = "takeover")
       THEN WriteRun("running", "extension", b)
       ELSE UNCHANGED <<run, hbAge>>
    /\ UNCHANGED open

\* Slip: "stop" clears the owner but leaves the executor behind.
PauseKeepsExecutor(b, stop) ==
    /\ b \in open
    /\ run.owner = "extension"
    /\ run.executor = b \/ (stop /\ HeartbeatStale)
    /\ WriteRun("paused", IF stop THEN "none" ELSE "extension", run.executor)
    /\ UNCHANGED <<call, open>>

\* "pause" keeps the owner; "stop" clears it and also halts a silent run.
Pause(b, stop) ==
    /\ b \in open
    /\ run.owner = "extension"
    /\ run.executor = b \/ (stop /\ HeartbeatStale)
    /\ IF stop THEN WriteRun("paused", "none", NoOne)
               ELSE WriteRun("paused", "extension", run.executor)
    /\ UNCHANGED <<call, open>>

Heartbeat(b) ==
    /\ b \in open
    /\ HoldsRun(b)
    /\ hbAge' = 0
    /\ UNCHANGED <<run, call, open>>

Progress(b) ==
    /\ b \in open
    /\ OwnsRunningRun(b)
    /\ hbAge' = 0
    /\ UNCHANGED <<run, call, open>>

\* Sent by a browser that does not run in the background when its queue is dry.
Complete(b) ==
    /\ b \in open
    /\ HoldsRun(b)
    /\ WriteRun("completed", "extension", b)
    /\ UNCHANGED <<call, open>>

BlockAssert(b) ==
    /\ b \in open
    /\ call[b] = "idle"
    /\ OwnsRunningRun(b)
    /\ Goto(b, "block")
    /\ UNCHANGED <<run, hbAge, open>>

\* The final UPDATE matches user and executor only, neither owner nor state.
\* (The release of a task the request may name comes before it: see ApplyDispatch.)
BlockUpdate(b) ==
    /\ call[b] = "block"
    /\ Goto(b, "idle")
    /\ IF run.executor = b
       THEN /\ run' = [run EXCEPT !.state = "blocked"]
            /\ hbAge' = 0
       ELSE UNCHANGED <<run, hbAge>>
    /\ UNCHANGED open

\* claim_run of resetExtensionQueue: unconditional.
ResetClaimsRun(b) ==
    /\ b \in open
    /\ WriteRun("running", "extension", b)
    /\ UNCHANGED <<call, open>>

---------------------------------------------------------------------------
(* Requests of a fleet node.                                               *)

\* canServerExecute in the claim loop; plan, quota and toggle are read next.
ServerGate(n) ==
    /\ call[n] = "idle"
    /\ ServerMayTake
    /\ Goto(n, "gate")
    /\ UNCHANGED <<run, hbAge, open>>

\* markServerExecutionRunning; "server" = the node goes on to claim and apply.
ServerUpsert(n) ==
    /\ call[n] = "gate"
    /\ IF ServerUpsertMatches
       THEN WriteRun("running", "server", n) /\ Goto(n, "server")
       ELSE UNCHANGED <<run, hbAge>> /\ Goto(n, "idle")
    /\ UNCHANGED open

\* The node's tick is over: its batch is applied and reported.
ServerDone(n) ==
    /\ call[n] = "server"
    /\ Goto(n, "idle")
    /\ UNCHANGED <<run, hbAge, open>>

\* The upsert of blockServerExecution, after a security challenge on a job.  No
\* row returned is a 409, and the worker then carries on with its batch.
ServerBlock(n) ==
    /\ call[n] = "server"
    /\ IF run.owner \in {"none", "server"}
       THEN WriteRun("blocked", "server", n) /\ Goto(n, "idle")
       ELSE UNCHANGED <<run, hbAge, call>>
    /\ UNCHANGED open

---------------------------------------------------------------------------
(* The environment.                                                        *)

\* A deploy of the control plane, or a node restart, ends a request half way.
CallDies(p) ==
    /\ call[p] # "idle"
    /\ Goto(p, "idle")
    /\ UNCHANGED <<run, hbAge, open>>

CloseBrowser(b) ==
    /\ b \in open
    /\ open' = open \ {b}
    /\ UNCHANGED <<run, hbAge, call>>

OpenBrowser(b) ==
    /\ b \in Browser \ open
    /\ open' = open \cup {b}
    /\ UNCHANGED <<run, hbAge, call>>

Tick ==
    /\ hbAge <= StaleRun
    /\ hbAge' = hbAge + 1
    /\ UNCHANGED <<run, call, open>>

BrowserNext(b) ==
    \/ \E takeover \in BOOLEAN : StartRead(b, takeover)
    \/ StartUpsert(b)
    \/ \E stop \in BOOLEAN : Pause(b, stop)
    \/ Heartbeat(b)
    \/ Progress(b)
    \/ Complete(b)
    \/ BlockAssert(b)
    \/ BlockUpdate(b)
    \/ ResetClaimsRun(b)
    \/ CloseBrowser(b)
    \/ OpenBrowser(b)

NodeNext(n) ==
    \/ ServerGate(n)
    \/ ServerUpsert(n)
    \/ ServerDone(n)
    \/ ServerBlock(n)

RunNext ==
    \/ \E b \in Browser : BrowserNext(b)
    \/ \E n \in Node : NodeNext(n)
    \/ \E p \in Executor : CallDies(p)
    \/ Tick

RunSpec == RunInit /\ [][RunNext]_runVars

\* Time passes and a node's loop polls forever; a claim request that keeps
\* being retried is not cut off by a deploy every single time.
RunFairness ==
    /\ WF_runVars(Tick)
    /\ \A n \in Node : /\ WF_runVars(ServerGate(n))
                       /\ SF_runVars(ServerUpsert(n))
                       /\ WF_runVars(ServerDone(n))

FairRunSpec == RunSpec /\ RunFairness

---------------------------------------------------------------------------
(* Properties.                                                             *)

\* The owner column and the executor column always tell the same story: an
\* extension run names a browser, a server run names a node, an unowned run
\* names nobody, and an unowned run is never "running".  blockExtensionExecution
\* relies on it: its last UPDATE looks at the executor alone.
OwnerMatchesExecutor ==
    /\ run.owner = "extension" <=> run.executor \in Browser
    /\ run.owner = "server" <=> run.executor \in Node
    /\ run.owner = "none" => run.state \in {"absent", "paused"}
    /\ run.state = "absent" => run.owner = "none"
    /\ run.state = "completed" => run.owner = "extension"

LiveExtensionRun ==
    run.owner = "extension" /\ run.state = "running" /\ ~HeartbeatStale

\* A browser that is running the queue and still heartbeating loses the run to
\* nobody by surprise: only an explicit takeover, a queue reset or its own Stop
\* moves it, whatever any other request read before it acted ("the server always
\* yields to a LIVE extension", serverMayTakeRun).
LiveBrowserKeepsRun ==
    [][ LiveExtensionRun =>
          \/ run'.executor = run.executor
          \/ \E b \in Browser : ResetClaimsRun(b)
          \/ \E b \in Browser : call[b] = "takeover" /\ StartUpsert(b)
          \/ Pause(run.executor, TRUE) ]_runVars

\* The fleet never puts a parked run back to work: a run the user paused in the
\* browser, one that browser completed, and one blocked on a login or captcha are
\* only restarted by a browser, however long ago a node passed its gate.
ServerNeverRevives ==
    [][ (run.state = "blocked" \/ (run.owner = "extension" /\ run.state # "running"))
          => (run'.owner = "server" => run'.state = "blocked") ]_runVars

\* Close Chrome without pressing Stop and the fleet carries on: a running
\* extension run with no open browser is eventually taken by a node, unless a
\* browser comes back first or a block it had already requested lands.
ClosedBrowserYields ==
    (open = {} /\ run.owner = "extension" /\ run.state = "running")
        ~> (run.owner = "server" \/ open # {} \/ run.state = "blocked")
=============================================================================
