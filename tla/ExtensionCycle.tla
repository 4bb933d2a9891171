---------------------------- MODULE ExtensionCycle ----------------------------
(***************************************************************************)
(* The background worker of one browser (extension/src/background/         *)
(* auto-apply.ts, service-worker.ts): a single cycle that reads the run,   *)
(* discovers, and applies job by job, and the handlers of the panel's      *)
(* messages, which change the run on the server and then abort, await or   *)
(* start the cycle.  All of them take turns at every await.                *)
(*                                                                         *)
(* The server is what its handlers do to this browser's run and to the     *)
(* user's tasks (lib/apply/execution-run.ts, api/extension/run,            *)
(* api/apply-queue/claim, extension-queue-reset.ts, queue-refilter.ts).    *)
(* The worker may be torn down at any await, and with it all but the       *)
(* alarm.                                                                  *)
(***************************************************************************)
EXTENDS Integers, FiniteSets

CONSTANTS
    Task,           \* the user's tasks; a claim takes the first
    Board,
    BoardOf,        \* the board of each task
    BoardLimit,     \* BOARD_FAILURE_STREAK_LIMIT
    SessionLimit,   \* SESSION_FAILURE_STREAK_LIMIT
    Handler,        \* messages that may be in work at the same time
    MaxEvents       \* bound of the model: messages of the user, and faults, which are
                    \* lost requests, torn-down workers and other executors

ASSUME CycleAssumption ==
    /\ Task \subseteq Nat \ {0}
    /\ BoardOf \in [Task -> Board]
    /\ BoardLimit \in Nat \ {0} /\ SessionLimit \in Nat \ {0}
    /\ MaxEvents \in Nat

VARIABLES
    run,        \* the row: its state, or "other" when another executor has it
    background, \* the row's background_enabled
    status,     \* tasks.status; "unseen" has no row, "later" is put off by run_after
    cycle,      \* activeCycle and its locals
    generation, \* cycleGeneration
    handler,    \* the messages in work
    unread,     \* history: the run was started and no cycle has read it yet
    met,        \* history: ... and the start met a cycle, a teardown or a failure
    events      \* history: messages and faults

vars == <<run, background, status, cycle, generation, handler, unread, met, events>>

RunState == {"paused", "running", "completed", "blocked", "other"}
Status == {"unseen", "pending", "later", "leased", "failed", "closed"}
Result == {"settled", "session", "refused"}
CycleStep == {"none", "overview", "discover", "check", "lease", "apply", "send", "report", "block", "finish"}
Message == {"start", "pause", "filters", "reset", "background"}
HandlerStep == {"none", "server", "delete", "abort", "wait", "tick"}
Streaks == [Board -> Nat]
NoTask == 0
CycleRecord == [step : CycleStep, gen : Nat, force : BOOLEAN, background : BOOLEAN,
                item : Task \cup {NoTask}, result : Result, refused : Streaks, session : Nat, late : Nat]
MessageRecord == [kind : Message, step : HandlerStep, on : BOOLEAN, gen : Nat, stale : SUBSET Task]

NoCycle == [step |-> "none", gen |-> 0, force |-> FALSE, background |-> FALSE, item |-> NoTask,
            result |-> "settled", refused |-> [b \in Board |-> 0], session |-> 0, late |-> 0]
NoMessage == [kind |-> "pause", step |-> "none", on |-> FALSE, gen |-> 0, stale |-> {}]

CycleTypeOK ==
    /\ run \in RunState /\ background \in BOOLEAN
    /\ status \in [Task -> Status]
    /\ cycle \in CycleRecord
    /\ generation \in Nat
    /\ handler \in [Handler -> MessageRecord]
    /\ unread \in BOOLEAN /\ met \in BOOLEAN
    /\ events \in 0..MaxEvents
    /\ cycle.item # NoTask <=> cycle.step \in {"apply", "send", "report"}

Init ==
    /\ run \in {"paused", "running"} /\ background \in BOOLEAN
    /\ \E s \in {"unseen", "pending"} : status = [t \in Task |-> s]
    /\ cycle = NoCycle /\ generation = 0
    /\ handler = [h \in Handler |-> NoMessage]
    /\ unread = FALSE /\ met = FALSE
    /\ events = 0

Event == events < MaxEvents /\ events' = events + 1

Aborted == cycle.gen # generation

---------------------------------------------------------------------------
(* The cycle.                                                              *)

\* A promise's continuation comes before the next event: whoever awaited the cycle that
\* has just ended goes first.
NobodyAwaits == \A h \in Handler : handler[h].step # "wait"

\* runAutoApplyTick: one that meets a cycle at work just waits for that one.
RunTick(force) ==
    IF cycle.step = "none"
    THEN cycle' = [NoCycle EXCEPT !.step = "overview", !.gen = generation, !.force = force]
    ELSE UNCHANGED cycle

\* The alarm, every minute, or "run now".
Alarm ==
    /\ cycle.step = "none" /\ NobodyAwaits
    /\ RunTick(FALSE)
    /\ UNCHANGED <<run, background, status, generation, handler, unread, met, events>>

CycleEnds == cycle' = NoCycle

\* runCycle's gate.  Whether discovery is due is a matter of the clock and of the
\* length of the queue, unless it is forced.
ReadRun ==
    /\ cycle.step = "overview"
    /\ IF run = "running" /\ (background \/ cycle.force)
       THEN /\ \E due \in {cycle.force, TRUE} :
                 cycle' = [cycle EXCEPT !.step = IF due THEN "discover" ELSE "check",
                                        !.force = FALSE, !.background = background]
            /\ unread' = FALSE /\ met' = FALSE
       ELSE CycleEnds /\ UNCHANGED <<unread, met>>
    /\ UNCHANGED <<run, background, status, generation, handler, events>>

\* Slip: discovery takes up the whole tick.
DiscoverOnly ==
    /\ cycle.step = "discover"
    /\ CycleEnds
    /\ \E imported \in {{}, {t \in Task : status[t] = "unseen"}} :
         status' = [t \in Task |-> IF t \in imported THEN "pending" ELSE status[t]]
    /\ UNCHANGED <<run, background, generation, handler, unread, met, events>>

\* Board by board until the time is up or the cycle is aborted; the progress it reports
\* is refused once the run is not running, and the cycle fails.
Discover ==
    /\ cycle.step = "discover"
    /\ cycle' = IF run = "running" \/ Aborted THEN [cycle EXCEPT !.step = "check"] ELSE NoCycle
    /\ \E imported \in {{}, {t \in Task : status[t] = "unseen"}} :
         status' = [t \in Task |-> IF t \in imported THEN "pending" ELSE status[t]]
    /\ UNCHANGED <<run, background, generation, handler, unread, met, events>>

\* Slip: the loop does not look whether it was aborted.
GivesUpNever == FALSE

GivesUp == Aborted

\* releaseStaleExtensionLeases; an application does not take 15 minutes.
ReleaseStale ==
    \E stale \in SUBSET {t \in Task : status[t] = "leased" /\ cycle.item # t} :
        status' = [t \in Task |-> IF t \in stale THEN "pending" ELSE status[t]]

\* The head of the loop: heartbeat, progress, and the first half of the claim, the
\* check of ownership and the release of leases older than 15 minutes.
Check ==
    /\ cycle.step = "check"
    /\ IF run # "running" \/ GivesUp
       THEN CycleEnds /\ UNCHANGED status
       ELSE /\ cycle' = [cycle EXCEPT !.step = "lease"]
            /\ ReleaseStale
    /\ UNCHANGED <<run, background, generation, handler, unread, met, events>>

\* Slip: one refusal too many.
ParkedLate == {b \in Board : cycle.refused[b] > BoardLimit}

\* "The board is refusing everything we send it.  Park THAT board".
Parked == {b \in Board : cycle.refused[b] >= BoardLimit}

Claimable == {t \in Task : status[t] = "pending" /\ BoardOf[t] \notin Parked}

\* The second half of the claim leases the first task in line, whatever the run has
\* become.  When its resume cannot be made it is put off, and the cycle with it: the
\* streak of such failures never gets past one, so its limit is not reached.  Only a
\* spent AI budget ("ai_maintenance") blocks the run.
Lease ==
    /\ cycle.step = "lease"
    /\ IF Claimable = {}
       THEN /\ cycle' = IF Parked = Board THEN NoCycle ELSE [cycle EXCEPT !.step = "finish"]
            /\ UNCHANGED <<status, events>>
       ELSE LET t == CHOOSE t \in Claimable : \A u \in Claimable : t <= u
            IN  \/ /\ status' = [status EXCEPT ![t] = "leased"]
                   /\ cycle' = [cycle EXCEPT !.step = "apply", !.item = t]
                   /\ UNCHANGED events
                \/ /\ Event
                   /\ status' = [status EXCEPT ![t] = "later"]
                   /\ CycleEnds \/ cycle' = [cycle EXCEPT !.step = "block"]
    /\ UNCHANGED <<run, background, generation, handler, unread, met>>

\* Progress again, before the page is opened.
Apply ==
    /\ cycle.step = "apply"
    /\ IF run = "running" THEN cycle' = [cycle EXCEPT !.step = "send"] ELSE CycleEnds
    /\ UNCHANGED <<run, background, status, generation, handler, unread, met, events>>

\* applyOne; every failure of it is a result.
Send ==
    /\ cycle.step = "send"
    /\ \E r \in Result : cycle' = [cycle EXCEPT !.step = "report", !.result = r,
                                                !.late = IF Aborted THEN @ + 1 ELSE @]
    /\ UNCHANGED <<run, background, status, generation, handler, unread, met, events>>

RecordedAs(r) == IF r = "refused" THEN "failed" ELSE "closed"

\* The result is refused when the run is not running, and meets a 404 when the task is
\* gone; then the cycle fails.  Otherwise the streaks go on: of the session with every
\* session-level reason, of the board with every hard failure.
Report ==
    /\ cycle.step = "report"
    /\ LET t == cycle.item
           b == BoardOf[t]
           session == IF cycle.result = "session" THEN cycle.session + 1 ELSE 0
       IN  IF run # "running" \/ status[t] = "unseen"
           THEN CycleEnds /\ UNCHANGED status
           ELSE /\ status' = [status EXCEPT ![t] = RecordedAs(cycle.result)]
                /\ cycle' = [cycle EXCEPT
                     !.step = IF session >= SessionLimit THEN "block" ELSE "check",
                     !.item = NoTask, !.result = "settled", !.session = session,
                     !.refused[b] = IF cycle.result = "refused" THEN @ + 1 ELSE 0]
    /\ UNCHANGED <<run, background, generation, handler, unread, met, events>>

\* "The session, not the ad, is the problem".
Block ==
    /\ cycle.step = "block"
    /\ run' = IF run = "running" THEN "blocked" ELSE run
    /\ CycleEnds
    /\ UNCHANGED <<background, status, generation, handler, unread, met, events>>

\* Nothing to claim: a cycle that began in the background reports that it waits, any
\* other one completes the run, whatever state it is in by now.
Finish ==
    /\ cycle.step = "finish"
    /\ run' = IF cycle.background \/ run = "other" THEN run ELSE "completed"
    /\ CycleEnds
    /\ UNCHANGED <<background, status, generation, handler, unread, met, events>>

\* A request fails.  The claim's answer may get lost after the lease.
CycleFails ==
    /\ cycle.step \notin {"none", "send"}
    /\ Event
    /\ CycleEnds
    /\ met' = (met \/ unread)
    /\ UNCHANGED <<run, background, status, generation, handler, unread>>

CycleGoesOn ==
    ReadRun \/ Discover \/ Check \/ Lease \/ Apply \/ Send \/ Report \/ Block \/ Finish

---------------------------------------------------------------------------
(* The handlers.                                                           *)

At(h, kind, step) == handler[h].kind = kind /\ handler[h].step = step

Goto(h, step) == handler' = [handler EXCEPT ![h].step = step]
Done(h) == handler' = [handler EXCEPT ![h] = NoMessage]

Receive(h, kind, on) ==
    /\ handler[h].step = "none"
    /\ Event
    /\ kind \notin {"start", "background"} => ~on
    /\ handler' = [handler EXCEPT ![h] = [kind |-> kind, on |-> on, gen |-> 0, stale |-> {},
                                          step |-> IF kind = "reset" THEN "abort" ELSE "server"]]
    /\ UNCHANGED <<run, background, status, cycle, generation, unread, met>>

\* startExtensionExecution, by takeover where it must.
StartOnServer(h) ==
    /\ At(h, "start", "server")
    /\ run' = "running" /\ background' = handler[h].on
    /\ unread' = TRUE
    /\ met' = (cycle.step # "none")
    /\ ReleaseStale
    /\ Goto(h, "tick")
    /\ UNCHANGED <<cycle, generation, events>>

\* Slip: the tick that follows a start has no force.
ForceOfNone(kind) == FALSE

\* A start and a reset run even in the foreground.
ForceOf(kind) == TRUE

\* "void runAutoApplyTick(true)" at the end of start and reset: it joins a cycle at work.
TickOf(h) ==
    /\ handler[h].step = "tick"
    /\ cycle.step # "none" \/ NobodyAwaits
    /\ RunTick(ForceOf(handler[h].kind))
    /\ met' = (met \/ (unread /\ cycle.step # "none"))
    /\ Done(h)
    /\ UNCHANGED <<run, background, status, generation, unread, events>>

\* pauseExtensionExecution releases the leases, too; a refusal ends the handler.
PauseOnServer(h) ==
    /\ At(h, "pause", "server")
    /\ IF run = "other"
       THEN Done(h) /\ UNCHANGED <<run, status>>
       ELSE /\ run' = "paused"
            /\ status' = [t \in Task |-> IF status[t] = "leased" THEN "pending" ELSE status[t]]
            /\ Goto(h, "abort")
    /\ UNCHANGED <<background, cycle, generation, unread, met, events>>

\* abortActiveCycle; a reset and new filters go on to await the cycle.
Abort(h) ==
    /\ handler[h].step = "abort"
    /\ generation' = generation + 1
    /\ IF handler[h].kind = "pause"
       THEN Done(h)
       ELSE handler' = [handler EXCEPT ![h].step = "wait", ![h].gen = generation']
    /\ UNCHANGED <<run, background, status, cycle, unread, met, events>>

\* Slip: nobody waits for the cycle.
OverNow(h) == TRUE

\* The cycle that was there when the handler aborted has come to its end.
Over(h) == cycle.step = "none" \/ cycle.gen >= handler[h].gen

\* restartAfterFiltersChanged.
RestartAfterFilters(h) ==
    /\ At(h, "filters", "wait") /\ Over(h)
    /\ RunTick(TRUE)
    /\ Done(h)
    /\ UNCHANGED <<run, background, status, generation, unread, met, events>>

\* settleActiveCycleForQueueReset is through.
Settled(h) ==
    /\ At(h, "reset", "wait") /\ Over(h)
    /\ Goto(h, "server")
    /\ UNCHANGED <<run, background, status, cycle, generation, unread, met, events>>

\* resetExtensionQueue, one statement: every row that is not history, leased ones
\* included, and the run is this browser's.
ResetOnServer(h) ==
    /\ At(h, "reset", "server")
    /\ status' = [t \in Task |-> IF status[t] = "closed" THEN "closed" ELSE "unseen"]
    /\ run' = "running"
    /\ Goto(h, "tick")
    /\ UNCHANGED <<background, cycle, generation, unread, met, events>>

\* invalidatePendingQueueForFilters reads the pending tasks first
FiltersRead(h) ==
    /\ At(h, "filters", "server")
    /\ handler' = [handler EXCEPT ![h].step = "delete",
                                  ![h].stale = {t \in Task : status[t] \in {"pending", "later"}}]
    /\ UNCHANGED <<run, background, status, cycle, generation, unread, met, events>>

\* and deletes them by id; a cycle is restarted only if there was something to change.
FiltersDelete(h) ==
    /\ At(h, "filters", "delete")
    /\ status' = [t \in Task |-> IF t \in handler[h].stale THEN "unseen" ELSE status[t]]
    /\ handler' = [handler EXCEPT ![h].step = "abort", ![h].stale = {}]
    /\ UNCHANGED <<run, background, cycle, generation, unread, met, events>>

\* setRunBackground.
SetRunBackground(h) ==
    /\ At(h, "background", "server")
    /\ background' = IF run = "other" THEN background ELSE handler[h].on
    /\ Done(h)
    /\ UNCHANGED <<run, status, cycle, generation, unread, met, events>>

\* A request of the handler fails.
HandlerFails(h) ==
    /\ handler[h].step \in {"server", "delete"}
    /\ Event
    /\ Done(h)
    /\ UNCHANGED <<run, background, status, cycle, generation, unread, met>>

Handle(h) ==
    \/ StartOnServer(h) \/ TickOf(h) \/ PauseOnServer(h) \/ Abort(h) \/ RestartAfterFilters(h)
    \/ Settled(h) \/ ResetOnServer(h) \/ FiltersRead(h) \/ FiltersDelete(h) \/ SetRunBackground(h)

---------------------------------------------------------------------------
(* The rest of the world.                                                  *)

\* Chrome tears the worker down, or the browser is closed and opened again.
WorkerDies ==
    /\ Event
    /\ CycleEnds
    /\ handler' = [h \in Handler |-> NoMessage]
    /\ generation' = 0
    /\ met' = (met \/ unread)
    /\ UNCHANGED <<run, background, status, unread>>

\* Another browser takes the run over, or the fleet does after a silence.
TakenAway ==
    /\ run \notin {"other", "blocked"}
    /\ Event
    /\ run' = "other"
    /\ UNCHANGED <<background, status, cycle, generation, handler, unread, met>>

\* 30 minutes later.
DueAgain(t) ==
    /\ status[t] = "later"
    /\ status' = [status EXCEPT ![t] = "pending"]
    /\ UNCHANGED <<run, background, cycle, generation, handler, unread, met, events>>

Next ==
    \/ Alarm \/ CycleGoesOn \/ CycleFails
    \/ \E h \in Handler :
         \/ \E kind \in Message, on \in BOOLEAN : Receive(h, kind, on)
         \/ Handle(h) \/ HandlerFails(h)
    \/ WorkerDies \/ TakenAway
    \/ \E t \in Task : DueAgain(t)

Spec == Init /\ [][Next]_vars

\* The alarm goes off every minute, and promises are settled.
Fairness ==
    /\ WF_vars(Alarm) /\ WF_vars(CycleGoesOn)
    /\ \A h \in Handler : WF_vars(Handle(h))

FairSpec == Spec /\ Fairness

---------------------------------------------------------------------------
(* Properties.                                                             *)

\* "Bumped by pause/stop ... gives up at its next checkpoint": after the abort a cycle
\* sends at most the one application it had in hand or was being handed, even when the
\* run has been started again by then.
StopIsSoon == cycle.late <= 1

\* "Park THAT board for the rest of this run and carry on with the others", "a few in a
\* row ends the run": a cycle has no application in hand for a board that has refused
\* BoardLimit of them in a row, nor after SessionLimit problems with the session.
RefusingBoardsLeftAlone ==
    cycle.item # NoTask => cycle.refused[BoardOf[cycle.item]] < BoardLimit /\ cycle.session < SessionLimit

\* "Stop at the next safe checkpoint and wait before deleting queue rows": the rows are
\* deleted under no cycle of before, only under one an alarm began in the meantime.
ResetWaitsForCycle ==
    \A h \in Handler : At(h, "reset", "server") /\ cycle.step # "none" => cycle.gen >= handler[h].gen

\* A run that was started is read by a cycle, by the alarm's at the latest; only a start
\* in the foreground may be lost, if it met a cycle at work, a teardown or a failure.
StartIsServed ==
    [](unread => <>(~unread \/ run # "running" \/ (~background /\ met)))

\* "the next tick picks a different one", "carry on with the others": while the run goes
\* on in the background every pending task gets its turn, whatever boards refuse, however
\* often the worker is torn down.
QueueDrains ==
    \A t \in Task : (status[t] = "pending" /\ run = "running" /\ background)
                      ~> (status[t] # "pending" \/ run # "running" \/ ~background)
=============================================================================
