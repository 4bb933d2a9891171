---------------------------- MODULE ApplyDispatch ----------------------------
(***************************************************************************)
(* One user's apply queue while browsers and fleet nodes work it: leases,  *)
(* submissions on the job boards, and the results that come back.          *)
(* Sources: lib/apply/extension-queue.ts, lib/fleet/dispatch.ts, the lease *)
(* releases of lib/apply/execution-run.ts, the claim and result routes,    *)
(* extension/src/background/auto-apply.ts and worker/src/lib/agent.ts.     *)
(*                                                                         *)
(* The run row and its requests are those of ExecutionRun.  As there, one  *)
(* action is one database statement, one step on a job board, or one       *)
(* failure; "work" says how far each executor's apply loop is.             *)
(***************************************************************************)
EXTENDS ExecutionRun

CONSTANTS
    Task,       \* the queued listings of the user, one task and match each
    StaleExt,   \* age above which an extension lease is swept (15 minutes)
    StaleNode,  \* age above which a node lease is swept (30 minutes)
    TickMax,    \* TICK_TIMEOUT_MS of the worker (10 minutes)
    MaxGrants,  \* bound of the model: how often each task may be leased
    Outcomes,   \* bound of the model: the results that submissions come to
    Gates       \* bound of the model: the values "admitted" may take

\* What an executor reports; "evidence" stands for an externalRef or an
\* allowlisted board signal, "reached" for the truth on the board.
Result == [status : {"submitted", "verifying", "failed", "skipped", "challenge"},
           evidence : BOOLEAN, reached : BOOLEAN]

ASSUME DispatchAssumption ==
    /\ StaleExt \in Nat /\ StaleNode \in Nat /\ TickMax \in Nat
    /\ MaxGrants \in [Task -> Nat]
    /\ Outcomes \subseteq Result
    /\ Gates \subseteq BOOLEAN /\ TRUE \in Gates
    /\ NoOne \notin Task
ASSUME TickFitsLease == TickMax <= StaleNode

VARIABLES
    task,       \* rows of tasks: [status, by, age]; by = leased_by, age of leased_at
    app,        \* status of the application row of each task's match
    work,       \* apply loop of each executor
    rel,        \* lease release a browser's run request still has to do
    tickAge,    \* age of each node's current tick
    admitted,   \* plan, toggle and quota let the server apply, and the batch has room left
    sent,       \* history: submissions that reached the board
    grants,     \* history: leases granted on each task
    lost,       \* history: tasks with a submission whose result was dropped
    undercut,   \* history: tasks released from under an executor, or after their result
    late        \* history: submissions each browser made since the last pause

queueVars == <<task, app, work, rel, tickAge, admitted, sent, grants, lost, late, undercut>>
vars == <<runVars, queueVars>>

TaskStatus == {"pending", "leased", "verifying", "succeeded", "failed", "deleted"}
AppStatus == {"none", "submitted", "verifying", "failed", "skipped"}

NoResult == [status |-> "skipped", evidence |-> FALSE, reached |-> FALSE]

WorkStep == {"idle", "sweep", "select", "lease", "stamp", "load", "next", "check", "submit",
             "report", "save", "finish", "challenge", "unlease", "unleaseRest", "park"}
Idle == [pc |-> "idle", sel |-> {}, jobs |-> {}, cur |-> NoOne, res |-> NoResult]

ReleaseStep == {"none", "server", "extension", "task", "write", "taskWrite", "sweep"}

MaxAge == (IF StaleExt > StaleNode THEN StaleExt ELSE StaleNode) + 1

TaskRow == [status : TaskStatus, by : Node \cup {NoOne}, age : 0..MaxAge]
Loop == [pc : WorkStep, sel : SUBSET Task, jobs : SUBSET Task,
         cur : Task \cup {NoOne}, res : Result]

QueueTypeOK ==
    /\ task \in [Task -> TaskRow]
    /\ app \in [Task -> AppStatus]
    /\ work \in [Executor -> Loop]
    /\ rel \in [Browser -> [step : ReleaseStep, ids : SUBSET Task, sweep : BOOLEAN]]
    /\ tickAge \in [Node -> 0..TickMax] /\ admitted \in BOOLEAN
    /\ sent \in [Task -> Nat]
    /\ grants \in [Task -> Nat]
    /\ lost \in SUBSET Task /\ undercut \in SUBSET Task
    /\ late \in [Browser -> 0..2]

DispatchTypeOK == TypeOK /\ QueueTypeOK

NoRelease == [step |-> "none", ids |-> {}, sweep |-> FALSE]
Fresh(status, by) == [status |-> status, by |-> by, age |-> 0]

Init ==
    /\ RunInit
    /\ task = [t \in Task |-> Fresh("pending", NoOne)]
    /\ app = [t \in Task |-> "none"]
    /\ work = [p \in Executor |-> Idle]
    /\ rel = [b \in Browser |-> NoRelease]
    /\ tickAge = [n \in Node |-> 0] /\ admitted = TRUE
    /\ sent = [t \in Task |-> 0]
    /\ grants = [t \in Task |-> 0]
    /\ lost = {} /\ undercut = {}
    /\ late = [b \in Browser |-> 0]

---------------------------------------------------------------------------
(* Helpers.                                                                *)

Leased(t) == task[t].status = "leased"
LeasedToExtension(t) == Leased(t) /\ task[t].by = NoOne
LeasedToServer(t) == Leased(t) /\ task[t].by # NoOne

\* Every release clears the lease and makes the task claimable again.  The ones
\* that update by id alone have no condition on the status.
SetPending(ids) ==
    [t \in Task |-> IF t \in ids /\ task[t].status # "deleted"
                    THEN Fresh("pending", NoOne) ELSE task[t]]

StaleExtensionLeases == {t \in Task : LeasedToExtension(t) /\ task[t].age > StaleExt}
\* Slip: node leases have no sweep at all.
StaleFleetLeasesNone == {}

\* Slip: the sweep forgets the age of the lease.
StaleFleetLeasesAnyAge == {t \in Task : LeasedToServer(t)}

StaleFleetLeases == {t \in Task : LeasedToServer(t) /\ task[t].age > StaleNode}

\* The tasks an executor has been given and may still apply to; one that waits
\* for the answer to a challenge has stopped.
Held(p) ==
    IF work[p].pc \in {"unlease", "unleaseRest", "park"} THEN {}
    ELSE work[p].jobs \cup ({work[p].cur} \ {NoOne})

Finished(t) == task[t].status \in {"verifying", "succeeded", "failed"}

\* A release looks at the row only: it may take a task from under an executor, or put one
\* back into the queue after its result.
TakenAway(ids) == {t \in ids : Finished(t) \/ \E p \in Executor : t \in Held(p)}
Undercuts(ids) == undercut' = undercut \cup TakenAway(ids)

\* Dropping work after a submission reached the board loses its result.
LosesResult(p) ==
    /\ work[p].pc \in {"report", "save", "finish"}
    /\ work[p].res.reached
DropWork(p) ==
    /\ work' = [work EXCEPT ![p] = Idle]
    /\ lost' = IF LosesResult(p) THEN lost \cup {work[p].cur} ELSE lost

\* After a job a browser ends this pass of its loop; a node takes the next one.
JobDone(p) ==
    IF p \in Browser THEN Idle
    ELSE [pc |-> "next", sel |-> {}, jobs |-> work[p].jobs, cur |-> NoOne, res |-> NoResult]

Go(p, step) == work' = [work EXCEPT ![p].pc = step]

\* Late submissions are counted from a pause until the run is started again.
NoteRun == late' = IF run'.state = "running" THEN [b \in Browser |-> 0] ELSE late

---------------------------------------------------------------------------
(* Run requests that also touch the queue.                                 *)

UserStartRead(b, takeover) ==
    /\ rel[b].step = "none"
    /\ StartRead(b, takeover)
    /\ UNCHANGED queueVars

\* A takeover goes on to release the node leases; every start then sweeps.
UserStart(b) ==
    /\ LET takeover == call[b] = "takeover"
       IN  rel' = IF Reclaimable(b, takeover)
                  THEN [rel EXCEPT ![b] =
                          [step |-> IF takeover THEN "server" ELSE "sweep",
                           ids |-> {}, sweep |-> takeover]]
                  ELSE rel
    /\ StartUpsert(b)
    /\ NoteRun
    /\ UNCHANGED <<task, app, work, tickAge, admitted, sent, grants, lost, undercut>>

UserPause(b, stop) ==
    /\ rel[b].step = "none"
    /\ Pause(b, stop)
    /\ rel' = [rel EXCEPT ![b] = [step |-> "extension", ids |-> {}, sweep |-> FALSE]]
    /\ late' = [c \in Browser |-> 0]
    /\ UNCHANGED <<task, app, work, tickAge, admitted, sent, grants, lost, undercut>>

\* taskIdsForUser, or the one task a block names: what to release is read first ...
ReleaseRead(b) ==
    /\ rel[b].step \in {"server", "extension", "task"}
    /\ LET step == rel[b].step
           leases == {t \in Task : IF step = "server" THEN LeasedToServer(t) ELSE LeasedToExtension(t)}
       IN  \E ids \in SUBSET leases :
              /\ IF step = "task" THEN Cardinality(ids) <= 1 ELSE ids = leases
              /\ rel' = [rel EXCEPT ![b].step = IF step = "task" THEN "taskWrite" ELSE "write",
                                    ![b].ids = ids]
    /\ UNCHANGED <<runVars, task, app, work, tickAge, admitted, sent, grants, lost, late, undercut>>

\* ... and written afterwards, by id alone.
ReleaseWrite(b) ==
    /\ rel[b].step \in {"write", "taskWrite"}
    /\ task' = SetPending(rel[b].ids) /\ Undercuts(rel[b].ids)
    /\ rel' = [rel EXCEPT ![b] = IF rel[b].sweep
                                 THEN [step |-> "sweep", ids |-> {}, sweep |-> FALSE]
                                 ELSE NoRelease]
    /\ UNCHANGED <<runVars, app, work, tickAge, admitted, sent, grants, lost, late>>

ReleaseSweep(b) ==
    /\ rel[b].step = "sweep"
    /\ task' = SetPending(StaleExtensionLeases) /\ Undercuts(StaleExtensionLeases)
    /\ rel' = [rel EXCEPT ![b] = NoRelease]
    /\ UNCHANGED <<runVars, app, work, tickAge, admitted, sent, grants, lost, late>>

\* resetExtensionQueue, one statement.  The browser let its cycle settle first, but the
\* alarm may have begun another one by then.
UserReset(b) ==
    /\ ResetClaimsRun(b)
    /\ task' = [t \in Task |-> IF task[t].status \in {"pending", "leased", "failed"}
                               THEN Fresh("deleted", NoOne) ELSE task[t]]
    /\ NoteRun
    /\ UNCHANGED <<app, work, rel, tickAge, admitted, sent, grants, lost, undercut>>

\* A block may name a task (the extension of this commit names none), which is released
\* before the run is blocked.
UserBlock(b) ==
    /\ work[b].pc = "idle"
    /\ BlockAssert(b)
    /\ \/ UNCHANGED rel
       \/ rel[b].step = "none" /\ rel' = [rel EXCEPT ![b].step = "task"]
    /\ UNCHANGED <<task, app, work, tickAge, admitted, sent, grants, lost, late, undercut>>

\* Run requests that leave the queue alone.
UserOther(b) ==
    /\ \/ Heartbeat(b) \/ Progress(b)
       \/ work[b].pc = "idle" /\ Complete(b)
       \/ rel[b].step \notin {"task", "taskWrite"} /\ BlockUpdate(b)
       \/ OpenBrowser(b)
    /\ UNCHANGED queueVars

---------------------------------------------------------------------------
(* Claiming.                                                               *)

\* POST /api/apply-queue/claim: the ownership check comes first.
ExtensionClaim(b) ==
    /\ b \in open
    /\ work[b].pc = "idle"
    /\ OwnsRunningRun(b)
    /\ Go(b, "sweep")
    /\ UNCHANGED <<runVars, task, app, rel, tickAge, admitted, sent, grants, lost, late, undercut>>

\* POST /api/fleet/claim: canExecute and the user's plan, toggle and quota.  A node that is
\* turned away here never comes to the sweep below.
FleetGate(n) ==
    /\ admitted
    /\ ServerGate(n)
    /\ tickAge' = [tickAge EXCEPT ![n] = 0]
    /\ UNCHANGED <<task, app, work, rel, admitted, sent, grants, lost, late, undercut>>

\* The run is marked for this node, or the node is turned away here.
FleetMark(n) ==
    /\ ServerUpsert(n)
    /\ IF ServerUpsertMatches THEN Go(n, "sweep") ELSE UNCHANGED work
    /\ NoteRun
    /\ UNCHANGED <<task, app, rel, tickAge, admitted, sent, grants, lost, undercut>>

\* This side's stale leases are swept first.
ClaimSweep(p) ==
    /\ work[p].pc = "sweep"
    /\ task' = SetPending(IF p \in Browser THEN StaleExtensionLeases ELSE StaleFleetLeases)
    /\ IF p \in Browser THEN Undercuts(StaleExtensionLeases) ELSE UNCHANGED undercut
    /\ Go(p, "select")
    /\ UNCHANGED <<runVars, app, rel, tickAge, admitted, sent, grants, lost, late>>

\* Which pending tasks to take is read: one for a browser, a batch for a node.  Which of
\* them have a usable board, session and tailored resume is not modelled, so any of them
\* may be left out.
ClaimSelect(p) ==
    /\ work[p].pc = "select"
    /\ \E sel \in SUBSET {t \in Task : task[t].status = "pending"} :
          /\ p \in Browser => Cardinality(sel) <= 1
          /\ work' = [work EXCEPT ![p].sel = sel,
                                  ![p].pc = IF sel # {} THEN "lease"
                                            ELSE IF p \in Browser THEN "idle" ELSE "next"]
    /\ UNCHANGED <<runVars, task, app, rel, tickAge, admitted, sent, grants, lost, late, undercut>>

\* Slip: the UPDATE trusts the rows the SELECT returned.
LeaseWinsAlways(t) == TRUE

\* The UPDATE that leases them: only rows that are still pending are returned,
\* with leased_by NULL for a browser and for a node alike.
LeaseWins(t) == task[t].status = "pending"

ClaimLease(p) ==
    /\ work[p].pc = "lease"
    /\ LET got == {t \in work[p].sel : LeaseWins(t) /\ grants[t] < MaxGrants[t]}
       IN  /\ task' = [t \in Task |-> IF t \in got THEN Fresh("leased", NoOne) ELSE task[t]]
           /\ grants' = [t \in Task |-> IF t \in got THEN grants[t] + 1 ELSE grants[t]]
           /\ work' = [work EXCEPT ![p].sel = {},
                         ![p].jobs = got,
                         ![p].pc = IF p \in Node THEN "stamp"
                                   ELSE IF got = {} THEN "idle" ELSE "next"]
    /\ UNCHANGED <<runVars, app, rel, tickAge, admitted, sent, lost, late, undercut>>

\* markTaskLeases: a second statement writes the node into leased_by.
FleetStamp(n) ==
    /\ work[n].pc = "stamp"
    /\ task' = [t \in Task |-> IF t \in work[n].jobs /\ Leased(t)
                               THEN [task[t] EXCEPT !.by = n] ELSE task[t]]
    /\ Go(n, "load")
    /\ UNCHANGED <<runVars, app, rel, tickAge, admitted, sent, grants, lost, late, undercut>>

\* No session or no tailored resume for an item: hand it back.  The 30 minute
\* delay is left out, since a claim need not pick a pending task.
FleetHandBack(n, j) ==
    /\ work[n].pc = "load"
    /\ j \in work[n].jobs
    /\ task' = IF Leased(j) THEN SetPending({j}) ELSE task
    /\ work' = [work EXCEPT ![n].jobs = @ \ {j}]
    /\ UNCHANGED <<runVars, app, rel, tickAge, admitted, sent, grants, lost, late, undercut>>

FleetRespond(n) ==
    /\ work[n].pc = "load"
    /\ Go(n, "next")
    /\ UNCHANGED <<runVars, task, app, rel, tickAge, admitted, sent, grants, lost, late, undercut>>

---------------------------------------------------------------------------
(* Applying.                                                               *)

TakeJob(p, j) ==
    /\ work[p].pc = "next"
    /\ j \in work[p].jobs
    /\ work' = [work EXCEPT ![p].jobs = @ \ {j}, ![p].cur = j,
                            ![p].pc = IF p \in Browser THEN "check" ELSE "submit"]
    /\ UNCHANGED <<runVars, task, app, rel, tickAge, admitted, sent, grants, lost, late, undercut>>

\* Slip: the progress report is accepted from whoever sends it.
ExtensionCheckUnowned(b) ==
    /\ work[b].pc = "check"
    /\ Go(b, "submit") /\ hbAge' = 0
    /\ UNCHANGED <<run, call, open, task, app, rel, tickAge, admitted, sent, grants, lost, late, undercut>>

\* applyOne reports progress before it touches the board.  A refused report is
\* an exception, and the job is then reported as failed without a submission.
ExtensionCheck(b) ==
    /\ work[b].pc = "check"
    /\ IF OwnsRunningRun(b)
       THEN Go(b, "submit") /\ hbAge' = 0
       ELSE /\ work' = [work EXCEPT ![b].pc = "report",
                                    ![b].res = [NoResult EXCEPT !.status = "failed"]]
            /\ UNCHANGED hbAge
    /\ UNCHANGED <<run, call, open, task, app, rel, tickAge, admitted, sent, grants, lost, late, undercut>>

\* What can happen on the board.  Evidence is only ever shown for an application
\* the board holds, this one or an earlier one ("already applied"); a failure, or
\* an ambiguous end, may come before or after the board took it; a node sees a
\* security challenge before it submits.
BoardOutcome(p, t, r) ==
    /\ r.evidence => r.status = "submitted" /\ (r.reached \/ sent[t] > 0)
    /\ r.status \in {"skipped", "challenge"} => ~r.reached
    /\ r.status = "challenge" => p \in Node

Submit(p, r) ==
    /\ work[p].pc = "submit"
    /\ LET t == work[p].cur
       IN  /\ BoardOutcome(p, t, r)
           /\ sent' = IF r.reached THEN [sent EXCEPT ![t] = @ + 1] ELSE sent
    /\ late' = IF p \in Browser /\ r.reached /\ run.state = "paused" /\ late[p] < 2
               THEN [late EXCEPT ![p] = @ + 1] ELSE late
    /\ work' = [work EXCEPT ![p].pc = "report", ![p].res = r]
    /\ UNCHANGED <<runVars, task, app, rel, tickAge, admitted, grants, lost, undercut>>

---------------------------------------------------------------------------
(* Reporting.                                                              *)

\* The result route asks a browser for ownership again; a 409 drops the result.
\* A node is not asked.
Report(p) ==
    /\ work[p].pc = "report"
    /\ IF p \in Browser /\ ~OwnsRunningRun(p)
       THEN DropWork(p)
       ELSE /\ Go(p, IF work[p].res.status = "challenge" THEN "challenge" ELSE "save")
            /\ UNCHANGED lost
    /\ UNCHANGED <<runVars, task, app, rel, tickAge, admitted, sent, grants, late, undercut>>

\* The worker logs a failed report and goes on with its batch.
LoseReport(n) ==
    /\ work[n].pc = "report"
    /\ work' = [work EXCEPT ![n] = JobDone(n)]
    /\ lost' = IF LosesResult(n) THEN lost \cup {work[n].cur} ELSE lost
    /\ UNCHANGED <<runVars, task, app, rel, tickAge, admitted, sent, grants, late, undercut>>

\* Slip: what the executor says is recorded as it is.
RecordedStatusTrusting(r) == r.status

\* A submission without evidence is recorded as awaiting verification.
RecordedStatus(r) ==
    IF r.status = "submitted" /\ ~r.evidence THEN "verifying" ELSE r.status

\* Slip: "verifying" counts as done.
TaskStatusVerifyingDone(status) == IF status = "failed" THEN "failed" ELSE "succeeded"

TaskStatusFor(status) ==
    IF status \in {"verifying", "failed"} THEN status ELSE "succeeded"

\* recordResult, first write: the application row, whatever it held before.  A
\* deleted task is a 404 or 409 and nothing is recorded.
SaveApplication(p) ==
    /\ work[p].pc = "save"
    /\ LET t == work[p].cur
       IN  IF task[t].status = "deleted"
           THEN /\ work' = [work EXCEPT ![p] = JobDone(p)]
                /\ lost' = IF LosesResult(p) THEN lost \cup {t} ELSE lost
                /\ UNCHANGED app
           ELSE /\ app' = [app EXCEPT ![t] = RecordedStatus(work[p].res)]
                /\ Go(p, "finish")
                /\ UNCHANGED lost
    /\ UNCHANGED <<runVars, task, rel, tickAge, admitted, sent, grants, late, undercut>>

\* recordResult, second write: the task, by id alone; leased_by stays as it was.
FinishTask(p) ==
    /\ work[p].pc = "finish"
    /\ LET t == work[p].cur
       IN  task' = IF task[t].status = "deleted" THEN task
                   ELSE [task EXCEPT ![t].age = 0, ![t].status =
                           TaskStatusFor(RecordedStatus(work[p].res))]
    /\ work' = [work EXCEPT ![p] = JobDone(p)]
    /\ UNCHANGED <<runVars, app, rel, tickAge, admitted, sent, grants, lost, late, undercut>>

---------------------------------------------------------------------------
(* A security challenge on a node: blockServerExecution.                   *)

\* The task must still be leased to this node, or the request is a 409.
Challenge(n) ==
    /\ work[n].pc = "challenge"
    /\ LET t == work[n].cur
       IN  work' = IF Leased(t) /\ task[t].by = n
                   THEN [work EXCEPT ![n].pc = "unlease"]
                   ELSE [work EXCEPT ![n] = JobDone(n)]
    /\ UNCHANGED <<runVars, task, app, rel, tickAge, admitted, sent, grants, lost, late, undercut>>

\* The task is released by id, then the rest of the node's leases are read ...
ChallengeRelease(n) ==
    /\ work[n].pc = "unlease"
    /\ task' = SetPending({work[n].cur}) /\ Undercuts({work[n].cur})
    /\ work' = [work EXCEPT ![n].pc = "unleaseRest",
                            ![n].sel = {t \in Task : task'[t].status = "leased"
                                                     /\ task'[t].by = n}]
    /\ UNCHANGED <<runVars, app, rel, tickAge, admitted, sent, grants, lost, late>>

\* Slip: only the challenged task is released, the rest of the batch is not.
ChallengeReleaseNoRest(n) ==
    /\ work[n].pc = "unleaseRest"
    /\ work' = [work EXCEPT ![n].pc = "park", ![n].sel = {}]
    /\ UNCHANGED <<runVars, task, app, rel, tickAge, admitted, sent, grants, lost, late, undercut>>

\* ... and released by id.
ChallengeReleaseRest(n) ==
    /\ work[n].pc = "unleaseRest"
    /\ task' = SetPending(work[n].sel)
    /\ Undercuts(work[n].sel)
    /\ work' = [work EXCEPT ![n].pc = "park", ![n].sel = {}]
    /\ UNCHANGED <<runVars, app, rel, tickAge, admitted, sent, grants, lost, late>>

\* The run is parked.  If a browser has it, the request fails, and the node goes on with a
\* batch whose leases are gone.
ChallengePark(n) ==
    /\ work[n].pc = "park"
    /\ ServerBlock(n)
    /\ IF run.owner \in {"none", "server"}
       THEN work' = [work EXCEPT ![n] = Idle] /\ UNCHANGED undercut
       ELSE work' = [work EXCEPT ![n] = JobDone(n)] /\ undercut' = undercut \cup work[n].jobs
    /\ UNCHANGED <<task, app, rel, tickAge, admitted, sent, grants, lost, late>>

FleetTickEnds(n) ==
    /\ work[n].pc = "next" /\ work[n].jobs = {}
    /\ ServerDone(n)
    /\ work' = [work EXCEPT ![n] = Idle]
    /\ UNCHANGED <<task, app, rel, tickAge, admitted, sent, grants, lost, late, undercut>>

---------------------------------------------------------------------------
(* Failures and time.                                                      *)

\* A node restarts, or the control plane does while it serves the node.
NodeDies(n) ==
    /\ CallDies(n)
    /\ DropWork(n)
    /\ UNCHANGED <<task, app, rel, tickAge, admitted, sent, grants, late, undercut>>

\* The control plane restarts under a run request of a browser.
RequestDies(b) ==
    /\ \/ CallDies(b) /\ UNCHANGED rel
       \/ rel[b].step # "none" /\ rel' = [rel EXCEPT ![b] = NoRelease] /\ UNCHANGED runVars
    /\ UNCHANGED <<task, app, work, tickAge, admitted, sent, grants, lost, late, undercut>>

\* Chrome closes or kills the service worker: the loop's progress is gone.
BrowserCloses(b) ==
    /\ CloseBrowser(b)
    /\ DropWork(b)
    /\ UNCHANGED <<task, app, rel, tickAge, admitted, sent, grants, late, undercut>>

\* A tick that reaches its deadline exits the worker (NodeDies), so time does not
\* pass beyond it while the tick runs.
Ticking(n) == call[n] # "idle"

\* The user's plan or toggle changes, a quota fills up or renews, or the users before this
\* one fill the node's batch.
GatesChange ==
    /\ admitted' \in Gates \ {admitted}
    /\ UNCHANGED <<runVars, task, app, work, rel, tickAge, sent, grants, lost, late, undercut>>

TimePasses ==
    /\ \A n \in Node : Ticking(n) => tickAge[n] < TickMax
    /\ hbAge' = IF hbAge <= StaleRun THEN hbAge + 1 ELSE hbAge
    /\ task' = [t \in Task |-> IF Leased(t) /\ task[t].age < MaxAge
                               THEN [task[t] EXCEPT !.age = @ + 1] ELSE task[t]]
    /\ tickAge' = [n \in Node |-> IF Ticking(n) THEN tickAge[n] + 1 ELSE tickAge[n]]
    /\ UNCHANGED <<run, call, open, app, work, rel, admitted, sent, grants, lost, late, undercut>>

---------------------------------------------------------------------------
UserNext(b) ==
    \/ \E takeover \in BOOLEAN : UserStartRead(b, takeover)
    \/ UserStart(b)
    \/ \E stop \in BOOLEAN : UserPause(b, stop)
    \/ ReleaseRead(b) \/ ReleaseWrite(b) \/ ReleaseSweep(b)
    \/ UserReset(b)
    \/ UserBlock(b) \/ UserOther(b)
    \/ RequestDies(b)
    \/ BrowserCloses(b)

\* The steps of an apply loop, which run by themselves once a job is claimed.
LoopNext(p) ==
    \/ ClaimSweep(p) \/ ClaimSelect(p) \/ ClaimLease(p)
    \/ \E j \in work[p].jobs : TakeJob(p, j)
    \/ \E r \in Outcomes : Submit(p, r)
    \/ Report(p) \/ SaveApplication(p) \/ FinishTask(p)

ExtensionNext(b) ==
    \/ ExtensionClaim(b) \/ ExtensionCheck(b)
    \/ LoopNext(b)

FleetNext(n) ==
    \/ FleetGate(n) \/ FleetMark(n) \/ FleetStamp(n) \/ FleetRespond(n)
    \/ \E j \in work[n].jobs : FleetHandBack(n, j)
    \/ LoopNext(n)
    \/ LoseReport(n)
    \/ Challenge(n) \/ ChallengeRelease(n) \/ ChallengeReleaseRest(n) \/ ChallengePark(n)
    \/ FleetTickEnds(n)

Next ==
    \/ \E b \in Browser : UserNext(b) \/ ExtensionNext(b)
    \/ \E n \in Node : FleetNext(n) \/ NodeDies(n)
    \/ TimePasses \/ GatesChange

Spec == Init /\ [][Next]_vars

\* Nodes poll and time passes; browsers, users and failures promise nothing, but
\* a claim that is tried forever is not cut off by a restart every single time.
Fairness ==
    /\ WF_vars(TimePasses)
    /\ \A n \in Node : /\ WF_vars(FleetNext(n))
                       /\ SF_vars(FleetMark(n))
                       /\ SF_vars(ClaimSweep(n))

FairSpec == Spec /\ Fairness

---------------------------------------------------------------------------
(* Properties.                                                             *)

\* The run row changes by the requests of ExecutionRun alone: whatever the apply
\* loops do in between, a claim, a progress report, a challenge or a takeover
\* writes the row only as that module allows.  (RunSpec, with the steps that leave
\* the row alone set aside first.)
RunRowImplemented == RunInit /\ [][runVars' # runVars => RunNext]_runVars

\* "submitted" is never shown to the user for an application the board does not
\* hold, whatever order results, retries, releases and late reports arrive in
\* (the proof contract of recordResult and submission-proof.ts).
SubmittedIsReal ==
    \A t \in Task : app[t] = "submitted" => sent[t] > 0

\* After Pause a browser finishes at most the submission it was already in: it
\* may not begin another one while the run stays paused, even though a pause
\* never reaches into its loop.
PauseStopsSoon == \A b \in Browser : late[b] <= 1

\* Once a node that met a security challenge has parked the run and gone, none of
\* the user's tasks is left leased to it: blockServerExecution releases the batch
\* the worker abandons, so the user's next start finds every task claimable.
ChallengeReleasesBatch ==
    \A n \in Node :
        run.state = "blocked" /\ run.executor = n /\ work[n].pc = "idle"
            => \A t \in Task : Leased(t) => task[t].by # n

\* Two executors are never busy with the same task, unless a release took it from one of
\* them: a takeover, a pause, the sweep of browsers' leases, or a challenge.  Otherwise the
\* claims keep them apart, and time: a node lease outlives the longest tick.
OneHolder ==
    \A p, q \in Executor :
        p # q => Held(p) \cap Held(q) \subseteq undercut

\* The user applies twice for one job only when the result of a submission was lost (a
\* crash, a report that failed or was refused), or a release took the task from under the
\* executor that was applying, or put it back after its result.
ResendExcused == \A t \in Task : sent[t] > 1 => t \in lost \cup undercut

\* When no result is half written, the task and the application agree, so the
\* queue pages and the applications page never contradict each other.
TaskAgreesWithApplication ==
    \A t \in Task \ undercut :
        (\A p \in Executor : ~(work[p].pc = "finish" /\ work[p].cur = t)) =>
            /\ task[t].status = "succeeded" => app[t] \in {"submitted", "skipped"}
            /\ task[t].status = "verifying" => app[t] = "verifying"
            /\ task[t].status = "failed" => app[t] = "failed"

\* A node that polls now would not get as far as the sweep: its user's plan, toggle or quota
\* forbid it, earlier users fill the batch, or the run is blocked, or a browser's that is
\* alive, paused or completed.
TurnedAway == ~admitted \/ ~ServerMayTake

\* A lease that names a node ends: by a result, by a release, or by the sweep of the node
\* that polls next ("which every deploy does" over STALE_FLEET_LEASE_MINUTES), even if the
\* node that held it died with the batch.  The sweep comes after the gates, so a lease may
\* outlive its limit for as long as nodes are turned away from the user, and no longer.
NodeLeaseReturns ==
    \A t \in Task : LeasedToServer(t) ~> (~LeasedToServer(t) \/ TurnedAway)
=============================================================================
