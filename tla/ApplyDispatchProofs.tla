------------------------- MODULE ApplyDispatchProofs -------------------------
(* Machine-checked proofs about ApplyDispatch.                               *)
EXTENDS ApplyDispatch, ExecutionRunProofs, TLAPS

\* A browser whose loop is under way is open: closing it ends the loop.
LoopsAreOpen == \A b \in Browser : work[b].pc # "idle" => b \in open

---------------------------------------------------------------------------
(* The composition keeps the run row as ExecutionRun describes it.           *)

\* Each action of the composed system is a run request or leaves the row alone.
LEMMA RunRowStep ==
    QueueTypeOK /\ LoopsAreOpen /\ [Next]_vars => [RunNext]_runVars
<1> SUFFICES ASSUME QueueTypeOK, LoopsAreOpen, [Next]_vars PROVE [RunNext]_runVars
  OBVIOUS
<1>1. ASSUME NEW b \in Browser, UserNext(b) PROVE [RunNext]_runVars
  <2>1. ASSUME NEW k \in BOOLEAN, UserStartRead(b, k) PROVE [RunNext]_runVars
    BY <2>1 DEF UserStartRead, RunNext, BrowserNext
  <2>2. CASE UserStart(b)
    BY <2>2 DEF UserStart, RunNext, BrowserNext
  <2>3. ASSUME NEW k \in BOOLEAN, UserPause(b, k) PROVE [RunNext]_runVars
    BY <2>3 DEF UserPause, RunNext, BrowserNext
  <2>4. CASE ReleaseRead(b) \/ ReleaseWrite(b) \/ ReleaseSweep(b)
    BY <2>4 DEF ReleaseRead, ReleaseWrite, ReleaseSweep
  <2>5. CASE UserReset(b)
    BY <2>5 DEF UserReset, RunNext, BrowserNext
  <2>6. CASE UserBlock(b) \/ UserOther(b)
    BY <2>6 DEF UserBlock, UserOther, RunNext, BrowserNext
  <2>7. CASE RequestDies(b)
    BY <2>7 DEF RequestDies, RunNext, Executor
  <2>8. CASE BrowserCloses(b)
    BY <2>8 DEF BrowserCloses, RunNext, BrowserNext
  <2>9. QED
    BY <1>1, <2>1, <2>2, <2>3, <2>4, <2>5, <2>6, <2>7, <2>8 DEF UserNext
<1>2. ASSUME NEW p \in Executor, LoopNext(p) PROVE UNCHANGED runVars
  BY <1>2 DEF LoopNext, ClaimSweep, ClaimSelect, ClaimLease, TakeJob, Submit, Report,
              SaveApplication, FinishTask
<1>3. ASSUME NEW b \in Browser, ExtensionNext(b) PROVE [RunNext]_runVars
  <2>1. CASE ExtensionClaim(b)
    BY <2>1 DEF ExtensionClaim
  <2>2. CASE ExtensionCheck(b)
    <3>1. b \in open
      BY <2>2 DEF ExtensionCheck, LoopsAreOpen
    <3>2. CASE OwnsRunningRun(b)
      <4>1. Progress(b)
        BY <2>2, <3>1, <3>2 DEF ExtensionCheck, Progress
      <4>2. QED  BY <4>1 DEF RunNext, BrowserNext
    <3>3. CASE ~OwnsRunningRun(b)
      BY <2>2, <3>3 DEF ExtensionCheck, runVars
    <3>4. QED  BY <3>2, <3>3
  <2>3. CASE LoopNext(b)
    BY <1>2, <2>3 DEF Executor
  <2>4. QED  BY <1>3, <2>1, <2>2, <2>3 DEF ExtensionNext
<1>4. ASSUME NEW n \in Node, FleetNext(n) PROVE [RunNext]_runVars
  <2>1. CASE FleetGate(n)
    BY <2>1 DEF FleetGate, RunNext, NodeNext
  <2>2. CASE FleetMark(n)
    BY <2>2 DEF FleetMark, RunNext, NodeNext
  <2>3. CASE ChallengePark(n)
    BY <2>3 DEF ChallengePark, RunNext, NodeNext
  <2>4. CASE FleetTickEnds(n)
    BY <2>4 DEF FleetTickEnds, RunNext, NodeNext
  <2>5. CASE LoopNext(n)
    BY <1>2, <2>5 DEF Executor
  <2>6. CASE \/ FleetStamp(n) \/ FleetRespond(n) \/ LoseReport(n)
             \/ \E j \in work[n].jobs : FleetHandBack(n, j)
    BY <2>6 DEF FleetStamp, FleetRespond, FleetHandBack, LoseReport
  <2>7. CASE Challenge(n) \/ ChallengeRelease(n) \/ ChallengeReleaseRest(n)
    BY <2>7 DEF Challenge, ChallengeRelease, ChallengeReleaseRest
  <2>8. QED
    BY <1>4, <2>1, <2>2, <2>3, <2>4, <2>5, <2>6, <2>7 DEF FleetNext
<1>5. ASSUME NEW n \in Node, NodeDies(n) PROVE [RunNext]_runVars
  BY <1>5 DEF NodeDies, RunNext, Executor
<1>6. CASE TimePasses
  BY <1>6 DEF TimePasses, RunNext, Tick, runVars
<1>7. CASE GatesChange \/ UNCHANGED vars
  BY <1>7 DEF GatesChange, vars
<1>8. QED
  BY <1>1, <1>3, <1>4, <1>5, <1>6, <1>7 DEF Next

---------------------------------------------------------------------------
(* Types, and the facts about the apply loops they need.                     *)

\* Between taking a job and letting it go, "cur" names a task.
WorksOnTask ==
    \A p \in Executor :
        work[p].pc \in {"check", "submit", "report", "save", "finish", "challenge", "unlease"}
            => work[p].cur \in Task

\* A challenge is not a result: it is never on its way into the application row.
ResultIsRecordable ==
    \A p \in Executor :
        work[p].pc \in {"save", "finish"} => work[p].res.status # "challenge"

LoopInv == QueueTypeOK /\ WorksOnTask /\ LoopsAreOpen /\ ResultIsRecordable

\* The very first state satisfies it.
LEMMA LoopInitInv == Init => LoopInv
<1> SUFFICES ASSUME Init PROVE LoopInv  OBVIOUS
<1>1. Fresh("pending", NoOne) \in TaskRow
  BY DispatchAssumption DEF Fresh, TaskRow, TaskStatus, MaxAge
<1>2. Idle \in Loop /\ Idle.pc = "idle"
  BY DEF Idle, NoResult, Result, Loop, WorkStep
<1>3. NoRelease \in [step : ReleaseStep, ids : SUBSET Task, sweep : BOOLEAN]
  BY DEF NoRelease, ReleaseStep
<1>4. QueueTypeOK
  BY <1>1, <1>2, <1>3, DispatchAssumption DEF Init, QueueTypeOK, AppStatus
<1>5. QED
  BY <1>2, <1>4, ExecutorAssumption
     DEF Init, LoopInv, WorksOnTask, LoopsAreOpen, ResultIsRecordable, Executor

\* A released task is well typed.
LEMMA SetPendingType ==
    ASSUME QueueTypeOK, NEW ids
    PROVE  SetPending(ids) \in [Task -> TaskRow]
BY DispatchAssumption DEF QueueTypeOK, SetPending, Fresh, TaskRow, TaskStatus, MaxAge

\* A release takes tasks away.
LEMMA UndercutsType ==
    ASSUME QueueTypeOK, NEW ids \in SUBSET Task, Undercuts(ids)
    PROVE  undercut' \in SUBSET Task
BY DEF QueueTypeOK, Undercuts, TakenAway

\* Ending a job leaves a well-typed loop that works on nothing.
LEMMA JobDoneType ==
    ASSUME QueueTypeOK, NEW p \in Executor
    PROVE  /\ JobDone(p) \in Loop
           /\ JobDone(p).pc \in {"idle", "next"}
           /\ p \in Browser => JobDone(p).pc = "idle"
<1>1. CASE p \in Browser
  BY <1>1 DEF QueueTypeOK, Loop, JobDone, Idle, NoResult, Result, WorkStep
<1>2. CASE p \notin Browser
  BY <1>2 DEF QueueTypeOK, Loop, JobDone, NoResult, Result, WorkStep
<1>3. QED  BY <1>1, <1>2

\* The steps at which "cur" is a task.
Working == {"check", "submit", "report", "save", "finish", "challenge", "unlease"}

\* An executor moves to state w of its loop and nobody else moves.
LEMMA LoopMoves ==
    ASSUME LoopInv, NEW p \in Executor, NEW w \in Loop,
           work' = [work EXCEPT ![p] = w],
           w.pc \in Working => w.cur \in Task,
           p \in Browser /\ w.pc # "idle" => p \in open,
           w.pc \in {"save", "finish"} => w.res.status # "challenge",
           UNCHANGED open
    PROVE  /\ work' \in [Executor -> Loop]
           /\ WorksOnTask' /\ LoopsAreOpen' /\ ResultIsRecordable'
BY DEF LoopInv, QueueTypeOK, WorksOnTask, LoopsAreOpen, ResultIsRecordable, Working, Executor

\* Every step of an apply loop that browsers and nodes share keeps LoopInv.
LEMMA SharedLoopStep ==
    ASSUME LoopInv, NEW p \in Executor, LoopNext(p)
    PROVE  LoopInv'
<1>0. /\ work \in [Executor -> Loop] /\ work[p] \in Loop
      /\ work[p].pc \in Working => work[p].cur \in Task
      /\ p \in Browser /\ work[p].pc # "idle" => p \in open
      /\ work[p].pc \in {"save", "finish"} => work[p].res.status # "challenge"
  BY DEF LoopInv, QueueTypeOK, WorksOnTask, LoopsAreOpen, ResultIsRecordable, Working, Executor
<1>10. CASE ClaimSweep(p)
  <2> DEFINE w == [work[p] EXCEPT !.pc = "select"]
  <2>1. work' = [work EXCEPT ![p] = w]
    BY <1>0, <1>10 DEF ClaimSweep, Go
  <2>2. w \in Loop /\ w.pc = "select"
    BY <1>0 DEF Loop, WorkStep
  <2> HIDE DEF w
  <2>3. UNCHANGED open /\ (p \in Browser => p \in open)
    BY <1>0, <1>10 DEF ClaimSweep, runVars
  <2>4. /\ work' \in [Executor -> Loop]
        /\ WorksOnTask' /\ LoopsAreOpen' /\ ResultIsRecordable'
    BY <2>1, <2>2, <2>3, LoopMoves DEF Working
  <2>5. task' \in [Task -> TaskRow]
    BY <1>10, SetPendingType DEF ClaimSweep, LoopInv
  <2>6. undercut' \in SUBSET Task
    BY <1>10, UndercutsType DEF ClaimSweep, StaleExtensionLeases, LoopInv, QueueTypeOK
  <2>7. QED  BY <1>10, <2>4, <2>5, <2>6 DEF ClaimSweep, LoopInv, QueueTypeOK
<1>1. CASE ClaimSelect(p)
  <2>2. PICK sel \in SUBSET Task :
            work' = [work EXCEPT ![p].sel = sel,
                                 ![p].pc = IF sel # {} THEN "lease"
                                           ELSE IF p \in Browser THEN "idle" ELSE "next"]
    BY <1>1 DEF ClaimSelect
  <2>3. /\ work' \in [Executor -> Loop]
        /\ WorksOnTask' /\ LoopsAreOpen' /\ ResultIsRecordable'
    <3> DEFINE step == IF sel # {} THEN "lease" ELSE IF p \in Browser THEN "idle" ELSE "next"
               w == [work[p] EXCEPT !.sel = sel, !.pc = step]
    <3>1. work' = [work EXCEPT ![p] = w]
      BY <1>0, <2>2
    <3>2. step \in {"lease", "idle", "next"}
      OBVIOUS
    <3> HIDE DEF step
    <3>3. w \in Loop /\ w.pc = step
      BY <1>0, <3>2 DEF Loop, WorkStep
    <3>4. UNCHANGED open /\ (p \in Browser => p \in open)
      BY <1>0, <1>1 DEF ClaimSelect, runVars
    <3> HIDE DEF w
    <3>5. QED  BY <3>1, <3>2, <3>3, <3>4, LoopMoves DEF Working
  <2>5. QED  BY <1>1, <2>3 DEF ClaimSelect, LoopInv, QueueTypeOK
<1>2. CASE ClaimLease(p)
  <2> DEFINE got == {t \in work[p].sel : LeaseWins(t) /\ grants[t] < MaxGrants[t]}
             step == IF p \in Node THEN "stamp" ELSE IF got = {} THEN "idle" ELSE "next"
             w == [work[p] EXCEPT !.sel = {}, !.jobs = got, !.pc = step]
  <2>1. got \in SUBSET Task
    BY <1>0 DEF Loop
  <2>2. step \in {"stamp", "idle", "next"}
    OBVIOUS
  <2>3. work' = [work EXCEPT ![p] = w]
    BY <1>0, <1>2 DEF ClaimLease
  <2> HIDE DEF got, step
  <2>4. w \in Loop /\ w.pc = step
    BY <1>0, <2>1, <2>2 DEF Loop, WorkStep
  <2> HIDE DEF w
  <2>5. /\ work' \in [Executor -> Loop]
        /\ WorksOnTask' /\ LoopsAreOpen' /\ ResultIsRecordable'
    <3>1. p \in Browser => p \in open
      BY <1>0, <1>2 DEF ClaimLease
    <3>2. QED
      BY <1>2, <2>2, <2>3, <2>4, <3>1, LoopMoves DEF ClaimLease, Working, runVars
  <2>6. task' \in [Task -> TaskRow]
    <3>1. task' = [t \in Task |-> IF t \in got THEN Fresh("leased", NoOne) ELSE task[t]]
      BY <1>2 DEF ClaimLease, got
    <3>2. Fresh("leased", NoOne) \in TaskRow
      BY DispatchAssumption DEF TaskRow, Fresh, TaskStatus, MaxAge
    <3>3. QED  BY <3>1, <3>2 DEF LoopInv, QueueTypeOK
  <2>7. grants' \in [Task -> Nat]
    <3>1. grants' = [t \in Task |-> IF t \in got THEN grants[t] + 1 ELSE grants[t]]
      BY <1>2 DEF ClaimLease, got
    <3>2. QED  BY <3>1 DEF LoopInv, QueueTypeOK
  <2>8. QED  BY <1>2, <2>5, <2>6, <2>7 DEF ClaimLease, LoopInv, QueueTypeOK
<1>3. ASSUME NEW j \in work[p].jobs, TakeJob(p, j) PROVE LoopInv'
  BY <1>3 DEF TakeJob, LoopInv, QueueTypeOK, WorksOnTask, LoopsAreOpen, ResultIsRecordable, Loop,
              WorkStep, Executor, runVars
<1>4. ASSUME NEW r \in Outcomes, Submit(p, r) PROVE LoopInv'
  <2> DEFINE w == [work[p] EXCEPT !.pc = "report", !.res = r]
  <2>1. work' = [work EXCEPT ![p] = w] /\ work[p].pc = "submit"
    BY <1>0, <1>4 DEF Submit
  <2>2. w \in Loop /\ w.pc = "report" /\ w.cur = work[p].cur
    BY <1>0, DispatchAssumption DEF Loop, WorkStep
  <2> HIDE DEF w
  <2>3. /\ work' \in [Executor -> Loop]
        /\ WorksOnTask' /\ LoopsAreOpen' /\ ResultIsRecordable'
    <3>1. UNCHANGED open /\ work[p].cur \in Task /\ (p \in Browser => p \in open)
      BY <1>0, <1>4, <2>1 DEF Submit, Working, runVars
    <3>2. QED  BY <2>1, <2>2, <3>1, LoopMoves
  <2>4. sent' \in [Task -> Nat]
    <3>1. CASE r.reached
      <4>1. work[p].cur \in Task
        BY <1>0, <2>1 DEF Working
      <4>2. sent' = [sent EXCEPT ![work[p].cur] = sent[work[p].cur] + 1]
        BY <1>4, <3>1 DEF Submit
      <4>3. QED  BY <4>1, <4>2 DEF LoopInv, QueueTypeOK
    <3>2. CASE ~r.reached
      BY <1>4, <3>2 DEF Submit, LoopInv, QueueTypeOK
    <3>3. QED  BY <3>1, <3>2
  <2>5. late' \in [Browser -> 0..2]
    <3>1. CASE p \in Browser /\ r.reached /\ run.state = "paused" /\ late[p] < 2
      <4>1. late' = [late EXCEPT ![p] = late[p] + 1] /\ late[p] + 1 \in 0..2
        BY <1>4, <3>1 DEF Submit, LoopInv, QueueTypeOK
      <4>2. QED  BY <4>1 DEF LoopInv, QueueTypeOK
    <3>2. CASE ~(p \in Browser /\ r.reached /\ run.state = "paused" /\ late[p] < 2)
      <4>1. late' = late
        BY <1>4, <3>2 DEF Submit
      <4>2. QED  BY <4>1 DEF LoopInv, QueueTypeOK
    <3>3. QED  BY <3>1, <3>2
  <2>6. QED  BY <1>4, <2>3, <2>4, <2>5 DEF Submit, LoopInv, QueueTypeOK
<1>5. CASE Report(p)
  <2>1. PICK w \in Loop : /\ work' = [work EXCEPT ![p] = w]
                          /\ w.pc \in Working => w.cur = work[p].cur
                          /\ w.pc \in {"save", "finish"} => w.res.status # "challenge"
    <3>1. CASE p \in Browser /\ ~OwnsRunningRun(p)
      <4>1. work' = [work EXCEPT ![p] = Idle]
        BY <1>5, <3>1 DEF Report, DropWork
      <4>2. Idle \in Loop /\ Idle.pc \notin Working
        BY DEF Idle, NoResult, Result, Loop, WorkStep, Working
      <4>3. QED  BY <4>1, <4>2 DEF Working
    <3>2. CASE ~(p \in Browser /\ ~OwnsRunningRun(p))
      <4> DEFINE step == IF work[p].res.status = "challenge" THEN "challenge" ELSE "save"
                 w == [work[p] EXCEPT !.pc = step]
      <4>1. work' = [work EXCEPT ![p] = w]
        BY <1>0, <1>5, <3>2 DEF Report, Go
      <4>2. step \in WorkStep /\ (step = "save" => work[p].res.status # "challenge")
                              /\ step # "finish"
        BY DEF WorkStep
      <4> HIDE DEF step
      <4>3. /\ w \in Loop /\ w.cur = work[p].cur
            /\ w.pc \in {"save", "finish"} => w.res.status # "challenge"
        BY <1>0, <4>2 DEF Loop
      <4>4. QED  BY <4>1, <4>3
    <3>3. QED  BY <3>1, <3>2
  <2>2. work[p].cur \in Task /\ (p \in Browser => p \in open)
    BY <1>0, <1>5 DEF Report, Working
  <2>3. /\ work' \in [Executor -> Loop]
        /\ WorksOnTask' /\ LoopsAreOpen' /\ ResultIsRecordable'
    BY <1>5, <2>1, <2>2, LoopMoves DEF Report, runVars
  <2>4. lost' \in SUBSET Task
    BY <1>5, <2>2 DEF Report, DropWork, LoopInv, QueueTypeOK
  <2>5. QED  BY <1>5, <2>3, <2>4 DEF Report, LoopInv, QueueTypeOK
<1>6. CASE SaveApplication(p)
  <2>1. work[p].cur \in Task /\ (p \in Browser => p \in open)
    BY <1>0, <1>6 DEF SaveApplication, Working
  <2>2. PICK w \in Loop : /\ work' = [work EXCEPT ![p] = w]
                          /\ w.pc \in Working => w.cur = work[p].cur
                          /\ w.pc \in {"save", "finish"} => w.res.status # "challenge"
    <3>1. CASE task[work[p].cur].status = "deleted"
      BY <1>6, <3>1, JobDoneType DEF SaveApplication, LoopInv, Working
    <3>2. CASE task[work[p].cur].status # "deleted"
      <4> DEFINE w == [work[p] EXCEPT !.pc = "finish"]
      <4>1. work' = [work EXCEPT ![p] = w]
        BY <1>0, <1>6, <3>2 DEF SaveApplication, Go
      <4>2. w \in Loop /\ w.cur = work[p].cur /\ w.res.status # "challenge"
        BY <1>0, <1>6 DEF Loop, WorkStep, SaveApplication
      <4>3. QED  BY <4>1, <4>2
    <3>3. QED  BY <3>1, <3>2
  <2>3. /\ work' \in [Executor -> Loop]
        /\ WorksOnTask' /\ LoopsAreOpen' /\ ResultIsRecordable'
    BY <1>6, <2>1, <2>2, LoopMoves DEF SaveApplication, runVars
  <2>4. lost' \in SUBSET Task
    BY <1>6, <2>1 DEF SaveApplication, LoopInv, QueueTypeOK
  <2>5. app' \in [Task -> AppStatus]
    <3>1. RecordedStatus(work[p].res) \in AppStatus
      BY <1>0, <1>6 DEF SaveApplication, RecordedStatus, Loop, Result, AppStatus
    <3>2. QED
      BY <1>6, <3>1 DEF SaveApplication, LoopInv, QueueTypeOK
  <2>6. QED  BY <1>6, <2>3, <2>4, <2>5 DEF SaveApplication, LoopInv, QueueTypeOK
<1>7. CASE FinishTask(p)
  <2>1. work[p].cur \in Task /\ (p \in Browser => p \in open)
    BY <1>0, <1>7 DEF FinishTask, Working
  <2>2. work' = [work EXCEPT ![p] = JobDone(p)]
    BY <1>7 DEF FinishTask
  <2>3. JobDone(p) \in Loop /\ JobDone(p).pc \notin Working
    BY JobDoneType DEF LoopInv, Working
  <2>4. /\ work' \in [Executor -> Loop]
        /\ WorksOnTask' /\ LoopsAreOpen' /\ ResultIsRecordable'
    BY <1>7, <2>1, <2>2, <2>3, LoopMoves DEF FinishTask, Working, runVars
  <2>5. TaskStatusFor(RecordedStatus(work[p].res)) \in TaskStatus
    BY DEF TaskStatusFor, TaskStatus
  <2>6. task' \in [Task -> TaskRow]
    <3>1. CASE task[work[p].cur].status = "deleted"
      BY <1>7, <3>1 DEF FinishTask, LoopInv, QueueTypeOK
    <3>2. CASE task[work[p].cur].status # "deleted"
      <4> DEFINE st == TaskStatusFor(RecordedStatus(work[p].res))
                 row == [task[work[p].cur] EXCEPT !.age = 0, !.status = st]
      <4>1. task' = [task EXCEPT ![work[p].cur] = row]
        BY <1>7, <3>2, <2>1 DEF FinishTask, LoopInv, QueueTypeOK
      <4>2. task[work[p].cur] \in TaskRow
        BY <2>1 DEF LoopInv, QueueTypeOK
      <4>3. st \in TaskStatus /\ 0 \in 0..MaxAge
        BY <2>5, DispatchAssumption DEF MaxAge
      <4> HIDE DEF st
      <4>4. row \in TaskRow
        BY <4>2, <4>3 DEF TaskRow
      <4>5. QED  BY <4>1, <4>4 DEF LoopInv, QueueTypeOK
    <3>3. QED  BY <3>1, <3>2
  <2>7. QED  BY <1>7, <2>4, <2>6 DEF FinishTask, LoopInv, QueueTypeOK
<1>8. QED
  BY <1>1, <1>2, <1>3, <1>4, <1>5, <1>6, <1>7, <1>10 DEF LoopNext

\* A loop that starts over, wherever it stood, keeps LoopInv.
LEMMA IdleMoves ==
    ASSUME LoopInv, NEW p \in Executor, work' = [work EXCEPT ![p] = Idle],
           open' = open \/ (open' = open \ {p})
    PROVE  /\ work' \in [Executor -> Loop]
           /\ WorksOnTask' /\ LoopsAreOpen' /\ ResultIsRecordable'
<1>1. Idle \in Loop /\ Idle.pc = "idle"
  BY DEF Idle, NoResult, Result, Loop, WorkStep
<1>2. QED
  BY <1>1 DEF LoopInv, QueueTypeOK, WorksOnTask, LoopsAreOpen, ResultIsRecordable, Working,
              Executor

\* The step of a loop alone changes: the move of most node requests.
LEMMA StepMoves ==
    ASSUME LoopInv, NEW p \in Executor, NEW step \in WorkStep, Go(p, step), UNCHANGED open,
           step \in Working => work[p].cur \in Task,
           p \in Browser => p \in open,
           step \notin {"save", "finish"}
    PROVE  /\ work' \in [Executor -> Loop]
           /\ WorksOnTask' /\ LoopsAreOpen' /\ ResultIsRecordable'
<1> DEFINE w == [work[p] EXCEPT !.pc = step]
<1>1. work' = [work EXCEPT ![p] = w] /\ work[p] \in Loop
  BY DEF Go, LoopInv, QueueTypeOK
<1>2. w \in Loop /\ w.pc = step /\ w.cur = work[p].cur
  BY <1>1 DEF Loop
<1> HIDE DEF w
<1>3. QED
  BY <1>1, <1>2, LoopMoves

\* Every step of a browser's own loop keeps LoopInv.
LEMMA ExtensionStep ==
    ASSUME LoopInv, NEW b \in Browser, ExtensionNext(b)
    PROVE  LoopInv'
<1>0. b \in Executor /\ work[b] \in Loop
  BY DEF LoopInv, QueueTypeOK, Executor
<1>1. CASE ExtensionClaim(b)
  <2>1. "sweep" \in WorkStep /\ "sweep" \notin Working
    BY DEF WorkStep, Working
  <2>2. /\ work' \in [Executor -> Loop]
        /\ WorksOnTask' /\ LoopsAreOpen' /\ ResultIsRecordable'
    BY <1>0, <1>1, <2>1, StepMoves DEF ExtensionClaim, runVars
  <2>3. QED  BY <1>1, <2>2 DEF ExtensionClaim, LoopInv, QueueTypeOK
<1>2. CASE ExtensionCheck(b)
  <2>1. work[b].cur \in Task /\ b \in open
    BY <1>0, <1>2 DEF ExtensionCheck, LoopInv, WorksOnTask, LoopsAreOpen
  <2>2. /\ work' \in [Executor -> Loop]
        /\ WorksOnTask' /\ LoopsAreOpen' /\ ResultIsRecordable'
    <3>1. CASE OwnsRunningRun(b)
      <4>1. "submit" \in WorkStep
        BY DEF WorkStep
      <4>2. QED  BY <1>0, <1>2, <2>1, <3>1, <4>1, StepMoves DEF ExtensionCheck
    <3>2. CASE ~OwnsRunningRun(b)
      <4> DEFINE failed == [NoResult EXCEPT !.status = "failed"]
                 w == [work[b] EXCEPT !.pc = "report", !.res = failed]
      <4>1. work' = [work EXCEPT ![b] = w]
        BY <1>0, <1>2, <3>2 DEF ExtensionCheck, LoopInv, QueueTypeOK
      <4>2. failed \in Result
        BY DEF NoResult, Result
      <4> HIDE DEF failed
      <4>3. w \in Loop /\ w.pc = "report" /\ w.cur = work[b].cur
        BY <1>0, <4>2 DEF Loop, WorkStep
      <4> HIDE DEF w
      <4>4. UNCHANGED open
        BY <1>2 DEF ExtensionCheck
      <4>5. QED  BY <1>0, <2>1, <4>1, <4>3, <4>4, LoopMoves
    <3>3. QED  BY <3>1, <3>2
  <2>3. QED  BY <1>2, <2>2 DEF ExtensionCheck, LoopInv, QueueTypeOK
<1>3. CASE LoopNext(b)
  BY <1>0, <1>3, SharedLoopStep
<1>4. QED
  BY <1>1, <1>2, <1>3 DEF ExtensionNext

\* Nobody's loop moves.
LEMMA LoopsStay ==
    ASSUME LoopInv, UNCHANGED work, open \subseteq open'
    PROVE  /\ work' \in [Executor -> Loop]
           /\ WorksOnTask' /\ LoopsAreOpen' /\ ResultIsRecordable'
BY DEF LoopInv, QueueTypeOK, WorksOnTask, LoopsAreOpen, ResultIsRecordable

\* The count of late submissions stays in range when the run is written.
LEMMA NoteRunType ==
    ASSUME LoopInv, NoteRun
    PROVE  late' \in [Browser -> 0..2]
BY DEF LoopInv, QueueTypeOK, NoteRun

\* Requests about the run leave "open" alone, but for opening a browser.
LEMMA RequestsKeepOpen ==
    ASSUME NEW b \in Browser,
           \/ \E k \in BOOLEAN : StartRead(b, k) \/ Pause(b, k)
           \/ StartUpsert(b) \/ Heartbeat(b) \/ Progress(b) \/ Complete(b)
           \/ BlockAssert(b) \/ BlockUpdate(b) \/ ResetClaimsRun(b) \/ OpenBrowser(b)
    PROVE  open \subseteq open'
BY DEF StartRead, Pause, StartUpsert, Heartbeat, Progress, Complete, BlockAssert, BlockUpdate,
       ResetClaimsRun, OpenBrowser

\* Every run request of a browser, and what it does to the queue, keeps LoopInv.
LEMMA UserStep ==
    ASSUME LoopInv, NEW b \in Browser, UserNext(b)
    PROVE  LoopInv'
<1> USE DEF ReleaseStep
<1> DEFINE Releases == [step : ReleaseStep, ids : SUBSET Task, sweep : BOOLEAN]
<1>0. rel \in [Browser -> Releases] /\ b \in Executor
  BY DEF LoopInv, QueueTypeOK, Executor
<1>1. ASSUME NEW k \in BOOLEAN, UserStartRead(b, k) PROVE LoopInv'
  BY <1>1, LoopsStay, RequestsKeepOpen DEF UserStartRead, queueVars, LoopInv, QueueTypeOK
<1>2. CASE UserStart(b)
  <2>1. PICK k \in BOOLEAN, st \in {"server", "sweep"} :
            rel' = rel \/ rel' = [rel EXCEPT ![b] = [step |-> st, ids |-> {}, sweep |-> k]]
    <3> DEFINE takeover == call[b] = "takeover"
    <3>1. takeover \in BOOLEAN
      OBVIOUS
    <3>2. rel' = rel \/ rel' = [rel EXCEPT ![b] =
              [step |-> IF takeover THEN "server" ELSE "sweep", ids |-> {}, sweep |-> takeover]]
      BY <1>2 DEF UserStart
    <3> HIDE DEF takeover
    <3>3. QED  BY <3>1, <3>2
  <2>2. rel' \in [Browser -> Releases]
    BY <1>0, <2>1
  <2>3. /\ work' \in [Executor -> Loop]
        /\ WorksOnTask' /\ LoopsAreOpen' /\ ResultIsRecordable'
    BY <1>2, LoopsStay, RequestsKeepOpen DEF UserStart
  <2>4. late' \in [Browser -> 0..2]
    BY <1>2, NoteRunType DEF UserStart
  <2>5. QED  BY <1>2, <2>2, <2>3, <2>4 DEF UserStart, LoopInv, QueueTypeOK
<1>3. ASSUME NEW k \in BOOLEAN, UserPause(b, k) PROVE LoopInv'
  <2>1. rel' \in [Browser -> Releases]
    BY <1>0, <1>3 DEF UserPause
  <2>2. /\ work' \in [Executor -> Loop]
        /\ WorksOnTask' /\ LoopsAreOpen' /\ ResultIsRecordable'
    BY <1>3, LoopsStay, RequestsKeepOpen DEF UserPause
  <2>3. late' \in [Browser -> 0..2]
    BY <1>3 DEF UserPause
  <2>4. QED  BY <1>3, <2>1, <2>2, <2>3 DEF UserPause, LoopInv, QueueTypeOK
<1>4. CASE ReleaseRead(b)
  <2>1. PICK ids \in SUBSET Task, st \in {"write", "taskWrite"} :
            rel' = [rel EXCEPT ![b].step = st, ![b].ids = ids]
    BY <1>4 DEF ReleaseRead
  <2>2. rel' \in [Browser -> Releases]
    BY <1>0, <2>1
  <2>3. /\ work' \in [Executor -> Loop]
        /\ WorksOnTask' /\ LoopsAreOpen' /\ ResultIsRecordable'
    BY <1>4, LoopsStay DEF ReleaseRead, runVars
  <2>4. QED  BY <1>4, <2>2, <2>3 DEF ReleaseRead, LoopInv, QueueTypeOK
<1>5. CASE ReleaseWrite(b) \/ ReleaseSweep(b)
  <2>1. task' \in [Task -> TaskRow]
    BY <1>5, SetPendingType DEF ReleaseWrite, ReleaseSweep, LoopInv
  <2>2. rel' \in [Browser -> Releases]
    <3>1. PICK st \in {"none", "sweep"} :
              rel' = [rel EXCEPT ![b] = [step |-> st, ids |-> {}, sweep |-> FALSE]]
      <4>1. CASE ReleaseWrite(b) /\ rel[b].sweep
        BY <4>1 DEF ReleaseWrite
      <4>2. CASE ReleaseWrite(b) /\ ~rel[b].sweep
        BY <4>2 DEF ReleaseWrite, NoRelease
      <4>3. CASE ReleaseSweep(b)
        BY <4>3 DEF ReleaseSweep, NoRelease
      <4>4. QED  BY <1>5, <4>1, <4>2, <4>3
    <3>2. QED  BY <1>0, <3>1
  <2>3. /\ work' \in [Executor -> Loop]
        /\ WorksOnTask' /\ LoopsAreOpen' /\ ResultIsRecordable'
    BY <1>5, LoopsStay DEF ReleaseWrite, ReleaseSweep, runVars
  <2>4. undercut' \in SUBSET Task
    <3>1. rel[b].ids \in SUBSET Task /\ StaleExtensionLeases \in SUBSET Task
      BY <1>0 DEF StaleExtensionLeases
    <3>2. QED  BY <1>5, <3>1, UndercutsType DEF ReleaseWrite, ReleaseSweep, LoopInv
  <2>5. QED
    BY <1>5, <2>1, <2>2, <2>3, <2>4 DEF ReleaseWrite, ReleaseSweep, LoopInv, QueueTypeOK
<1>6. CASE UserReset(b)
  <2>1. task' \in [Task -> TaskRow]
    <3>1. Fresh("deleted", NoOne) \in TaskRow
      BY DispatchAssumption DEF TaskRow, Fresh, TaskStatus, MaxAge
    <3>2. QED  BY <1>6, <3>1 DEF UserReset, LoopInv, QueueTypeOK
  <2>2. /\ work' \in [Executor -> Loop]
        /\ WorksOnTask' /\ LoopsAreOpen' /\ ResultIsRecordable'
    BY <1>6, LoopsStay, RequestsKeepOpen DEF UserReset
  <2>3. late' \in [Browser -> 0..2]
    BY <1>6, NoteRunType DEF UserReset
  <2>4. QED  BY <1>6, <2>1, <2>2, <2>3 DEF UserReset, LoopInv, QueueTypeOK
<1>b. CASE UserBlock(b)
  <2>1. open \subseteq open'
    BY <1>b, RequestsKeepOpen DEF UserBlock
  <2>2. rel' \in [Browser -> Releases]
    <3>1. rel' = rel \/ rel' = [rel EXCEPT ![b].step = "task"]
      BY <1>b DEF UserBlock
    <3>2. QED  BY <1>0, <3>1
  <2>3. QED
    BY <1>b, <2>1, <2>2, LoopsStay DEF UserBlock, LoopInv, QueueTypeOK
<1>7. CASE UserOther(b)
  <2>1. open \subseteq open'
    BY <1>7, RequestsKeepOpen DEF UserOther
  <2>2. QED
    BY <1>7, <2>1, LoopsStay DEF UserOther, queueVars, LoopInv, QueueTypeOK
<1>8. CASE RequestDies(b)
  <2>1. rel' \in [Browser -> Releases]
    <3>1. rel' = rel \/ rel' = [rel EXCEPT ![b] = NoRelease]
      BY <1>8 DEF RequestDies
    <3>2. NoRelease \in Releases
      BY DEF NoRelease
    <3>3. QED  BY <1>0, <3>1, <3>2
  <2>2. open' = open
    BY <1>8 DEF RequestDies, CallDies, runVars
  <2>3. QED
    BY <1>8, <2>1, <2>2, LoopsStay DEF RequestDies, LoopInv, QueueTypeOK
<1>9. CASE BrowserCloses(b)
  <2>1. open' = open \ {b}
    BY <1>9 DEF BrowserCloses, CloseBrowser
  <2>2. /\ work' \in [Executor -> Loop]
        /\ WorksOnTask' /\ LoopsAreOpen' /\ ResultIsRecordable'
    BY <1>0, <1>9, <2>1, IdleMoves DEF BrowserCloses, DropWork
  <2>3. lost' \in SUBSET Task
    BY <1>0, <1>9 DEF BrowserCloses, DropWork, LosesResult, LoopInv, QueueTypeOK, WorksOnTask,
                      Working
  <2>4. QED  BY <1>9, <2>2, <2>3 DEF BrowserCloses, LoopInv, QueueTypeOK
<1>10. QED
  BY <1>1, <1>2, <1>3, <1>4, <1>5, <1>6, <1>7, <1>8, <1>9, <1>b DEF UserNext

\* Every request of a node, and what it does to the queue, keeps LoopInv.
LEMMA FleetStep ==
    ASSUME LoopInv, NEW n \in Node, FleetNext(n)
    PROVE  LoopInv'
<1>0. n \in Executor /\ n \notin Browser /\ work[n] \in Loop
  BY ExecutorAssumption DEF LoopInv, QueueTypeOK, Executor
<1>1. CASE FleetGate(n)
  <2>1. tickAge' \in [Node -> 0..TickMax] /\ open' = open
    BY <1>1, DispatchAssumption DEF FleetGate, ServerGate, LoopInv, QueueTypeOK
  <2>2. QED  BY <1>1, <2>1, LoopsStay DEF FleetGate, LoopInv, QueueTypeOK
<1>2. CASE FleetMark(n)
  <2>1. open' = open /\ "sweep" \in WorkStep /\ "sweep" \notin Working
    BY <1>2 DEF FleetMark, ServerUpsert, WorkStep, Working
  <2>2. /\ work' \in [Executor -> Loop]
        /\ WorksOnTask' /\ LoopsAreOpen' /\ ResultIsRecordable'
    <3>1. CASE ServerUpsertMatches
      BY <1>0, <1>2, <2>1, <3>1, StepMoves DEF FleetMark
    <3>2. CASE ~ServerUpsertMatches
      BY <1>2, <2>1, <3>2, LoopsStay DEF FleetMark
    <3>3. QED  BY <3>1, <3>2
  <2>3. late' \in [Browser -> 0..2]
    BY <1>2, NoteRunType DEF FleetMark
  <2>4. QED  BY <1>2, <2>2, <2>3 DEF FleetMark, LoopInv, QueueTypeOK
<1>3. CASE FleetStamp(n)
  <2>1. "load" \in WorkStep /\ "load" \notin Working
    BY DEF WorkStep, Working
  <2>2. /\ work' \in [Executor -> Loop]
        /\ WorksOnTask' /\ LoopsAreOpen' /\ ResultIsRecordable'
    BY <1>0, <1>3, <2>1, StepMoves DEF FleetStamp, runVars
  <2>3. task' \in [Task -> TaskRow]
    <3>1. \A t \in Task : [task[t] EXCEPT !.by = n] \in TaskRow
      BY DEF LoopInv, QueueTypeOK, TaskRow
    <3>2. QED  BY <1>3, <3>1 DEF FleetStamp, LoopInv, QueueTypeOK
  <2>4. QED  BY <1>3, <2>2, <2>3 DEF FleetStamp, LoopInv, QueueTypeOK
<1>4. ASSUME NEW j \in work[n].jobs, FleetHandBack(n, j) PROVE LoopInv'
  <2> DEFINE w == [work[n] EXCEPT !.jobs = work[n].jobs \ {j}]
  <2>1. work' = [work EXCEPT ![n] = w] /\ work[n].pc = "load"
    BY <1>0, <1>4 DEF FleetHandBack, LoopInv, QueueTypeOK
  <2>2. w \in Loop /\ w.pc = "load"
    BY <1>0, <2>1 DEF Loop, WorkStep
  <2> HIDE DEF w
  <2>3. /\ work' \in [Executor -> Loop]
        /\ WorksOnTask' /\ LoopsAreOpen' /\ ResultIsRecordable'
    <3>1. UNCHANGED open
      BY <1>4 DEF FleetHandBack, runVars
    <3>2. QED  BY <1>0, <2>1, <2>2, <3>1, LoopMoves DEF Working
  <2>4. task' \in [Task -> TaskRow]
    BY <1>4, SetPendingType DEF FleetHandBack, LoopInv, QueueTypeOK
  <2>5. QED  BY <1>4, <2>3, <2>4 DEF FleetHandBack, LoopInv, QueueTypeOK
<1>5. CASE FleetRespond(n)
  <2>1. "next" \in WorkStep /\ "next" \notin Working
    BY DEF WorkStep, Working
  <2>2. /\ work' \in [Executor -> Loop]
        /\ WorksOnTask' /\ LoopsAreOpen' /\ ResultIsRecordable'
    BY <1>0, <1>5, <2>1, StepMoves DEF FleetRespond, runVars
  <2>3. QED  BY <1>5, <2>2 DEF FleetRespond, LoopInv, QueueTypeOK
<1>6. CASE LoseReport(n)
  <2>1. work[n].cur \in Task
    BY <1>0, <1>6 DEF LoseReport, LoopInv, WorksOnTask
  <2>2. /\ work' \in [Executor -> Loop]
        /\ WorksOnTask' /\ LoopsAreOpen' /\ ResultIsRecordable'
    BY <1>0, <1>6, JobDoneType, LoopMoves DEF LoseReport, LoopInv, Working, runVars
  <2>3. lost' \in SUBSET Task
    BY <1>6, <2>1 DEF LoseReport, LoopInv, QueueTypeOK
  <2>4. QED  BY <1>6, <2>2, <2>3 DEF LoseReport, LoopInv, QueueTypeOK
<1>7. CASE Challenge(n)
  <2>1. work[n].cur \in Task
    BY <1>0, <1>7 DEF Challenge, LoopInv, WorksOnTask
  <2> DEFINE granted == Leased(work[n].cur) /\ task[work[n].cur].by = n
  <2>2. /\ work' \in [Executor -> Loop]
        /\ WorksOnTask' /\ LoopsAreOpen' /\ ResultIsRecordable'
    <3>1. CASE granted
      <4>1. Go(n, "unlease") /\ UNCHANGED open /\ "unlease" \in WorkStep
        BY <1>7, <3>1 DEF Challenge, Go, WorkStep, runVars
      <4>2. QED  BY <1>0, <2>1, <4>1, StepMoves
    <3>2. CASE ~granted
      BY <1>0, <1>7, <3>2, JobDoneType, LoopMoves DEF Challenge, LoopInv, Working, runVars
    <3>3. QED  BY <3>1, <3>2
  <2>3. QED  BY <1>7, <2>2 DEF Challenge, LoopInv, QueueTypeOK
<1>8. CASE ChallengeRelease(n)
  <2>1. task' \in [Task -> TaskRow]
    BY <1>8, SetPendingType DEF ChallengeRelease, LoopInv
  <2> DEFINE rest == {t \in Task : task'[t].status = "leased" /\ task'[t].by = n}
             w == [work[n] EXCEPT !.pc = "unleaseRest", !.sel = rest]
  <2>2. work' = [work EXCEPT ![n] = w]
    BY <1>0, <1>8 DEF ChallengeRelease, LoopInv, QueueTypeOK
  <2>3. rest \in SUBSET Task
    OBVIOUS
  <2> HIDE DEF rest
  <2>4. w \in Loop /\ w.pc = "unleaseRest"
    BY <1>0, <2>3 DEF Loop, WorkStep
  <2> HIDE DEF w
  <2>5. /\ work' \in [Executor -> Loop]
        /\ WorksOnTask' /\ LoopsAreOpen' /\ ResultIsRecordable'
    BY <1>0, <1>8, <2>2, <2>4, LoopMoves DEF ChallengeRelease, Working, runVars
  <2>6. undercut' \in SUBSET Task
    BY <1>0, <1>8, UndercutsType DEF ChallengeRelease, LoopInv, WorksOnTask
  <2>7. QED  BY <1>8, <2>1, <2>5, <2>6 DEF ChallengeRelease, LoopInv, QueueTypeOK
<1>9. CASE ChallengeReleaseRest(n)
  <2> DEFINE w == [work[n] EXCEPT !.pc = "park", !.sel = {}]
  <2>1. task' \in [Task -> TaskRow]
    BY <1>9, SetPendingType DEF ChallengeReleaseRest, LoopInv
  <2>2. work' = [work EXCEPT ![n] = w]
    BY <1>0, <1>9 DEF ChallengeReleaseRest, LoopInv, QueueTypeOK
  <2>3. w \in Loop /\ w.pc = "park"
    BY <1>0 DEF Loop, WorkStep
  <2> HIDE DEF w
  <2>4. /\ work' \in [Executor -> Loop]
        /\ WorksOnTask' /\ LoopsAreOpen' /\ ResultIsRecordable'
    BY <1>0, <1>9, <2>2, <2>3, LoopMoves DEF ChallengeReleaseRest, Working, runVars
  <2>5. undercut' \in SUBSET Task
    BY <1>0, <1>9, UndercutsType DEF ChallengeReleaseRest, Loop, LoopInv
  <2>6. QED  BY <1>9, <2>1, <2>4, <2>5 DEF ChallengeReleaseRest, LoopInv, QueueTypeOK
<1>10. CASE ChallengePark(n)
  <2>1. open' = open
    BY <1>10 DEF ChallengePark, ServerBlock
  <2>2. work' = [work EXCEPT ![n] = Idle] \/ work' = [work EXCEPT ![n] = JobDone(n)]
    BY <1>10 DEF ChallengePark
  <2>3. /\ work' \in [Executor -> Loop]
        /\ WorksOnTask' /\ LoopsAreOpen' /\ ResultIsRecordable'
    <3>1. CASE work' = [work EXCEPT ![n] = Idle]
      BY <1>0, <2>1, <3>1, IdleMoves
    <3>2. CASE work' = [work EXCEPT ![n] = JobDone(n)]
      BY <1>0, <2>1, <3>2, JobDoneType, LoopMoves DEF LoopInv, Working
    <3>3. QED  BY <2>2, <3>1, <3>2
  <2>4. undercut' \in SUBSET Task
    BY <1>0, <1>10 DEF ChallengePark, LoopInv, QueueTypeOK, Loop
  <2>5. QED  BY <1>10, <2>3, <2>4 DEF ChallengePark, LoopInv, QueueTypeOK
<1>11. CASE FleetTickEnds(n)
  <2>1. open' = open
    BY <1>11 DEF FleetTickEnds, ServerDone
  <2>2. QED
    BY <1>0, <1>11, <2>1, IdleMoves DEF FleetTickEnds, LoopInv, QueueTypeOK
<1>12. CASE LoopNext(n)
  BY <1>0, <1>12, SharedLoopStep
<1>13. QED
  BY <1>1, <1>2, <1>3, <1>4, <1>5, <1>6, <1>7, <1>8, <1>9, <1>10, <1>11, <1>12 DEF FleetNext

\* The failures and the clock keep LoopInv, and so does every step.
LEMMA LoopStep == LoopInv /\ [Next]_vars => LoopInv'
<1> SUFFICES ASSUME LoopInv, [Next]_vars PROVE LoopInv'
  OBVIOUS
<1>1. ASSUME NEW n \in Node, NodeDies(n) PROVE LoopInv'
  <2>1. n \in Executor /\ open' = open
    BY <1>1 DEF NodeDies, CallDies, Executor
  <2>2. /\ work' \in [Executor -> Loop]
        /\ WorksOnTask' /\ LoopsAreOpen' /\ ResultIsRecordable'
    BY <1>1, <2>1, IdleMoves DEF NodeDies, DropWork
  <2>3. lost' \in SUBSET Task
    BY <1>1, <2>1 DEF NodeDies, DropWork, LosesResult, LoopInv, QueueTypeOK, WorksOnTask
  <2>4. QED  BY <1>1, <2>2, <2>3 DEF NodeDies, LoopInv, QueueTypeOK
<1>2. CASE TimePasses
  <2>1. task' \in [Task -> TaskRow]
    <3>1. MaxAge \in Nat
      BY DispatchAssumption DEF MaxAge
    <3>2. ASSUME NEW t \in Task, task[t].age < MaxAge
          PROVE  [task[t] EXCEPT !.age = task[t].age + 1] \in TaskRow
      <4>1. task[t] \in TaskRow
        BY DEF LoopInv, QueueTypeOK
      <4>2. task[t].age + 1 \in 0..MaxAge
        BY <3>1, <3>2, <4>1 DEF TaskRow
      <4>3. QED  BY <4>1, <4>2 DEF TaskRow
    <3>3. QED  BY <1>2, <3>2 DEF TimePasses, LoopInv, QueueTypeOK
  <2>2. tickAge' \in [Node -> 0..TickMax]
    BY <1>2, DispatchAssumption DEF TimePasses, LoopInv, QueueTypeOK
  <2>3. open' = open
    BY <1>2 DEF TimePasses
  <2>4. QED
    BY <1>2, <2>1, <2>2, <2>3, LoopsStay DEF TimePasses, LoopInv, QueueTypeOK
<1>3. CASE GatesChange \/ UNCHANGED vars
  <2>1. admitted' \in BOOLEAN
    BY <1>3, DispatchAssumption DEF GatesChange, vars, queueVars, LoopInv, QueueTypeOK
  <2>2. UNCHANGED <<runVars, task, app, work, rel, tickAge, sent, grants, lost, late, undercut>>
    BY <1>3 DEF GatesChange, vars, queueVars
  <2>3. QED  BY <2>1, <2>2, LoopsStay DEF runVars, LoopInv, QueueTypeOK
<1>4. QED
  BY <1>1, <1>2, <1>3, UserStep, ExtensionStep, FleetStep DEF Next

---------------------------------------------------------------------------
(* "submitted" means submitted.                                              *)

\* A result that comes with evidence is about an application the board holds.
Reporting == {"report", "save", "finish"}
EvidenceIsReal ==
    \A p \in Executor :
        work[p].pc \in Reporting /\ work[p].res.evidence => sent[work[p].cur] > 0

\* The end of a job and a fresh loop carry no evidence.
LEMMA RestCarriesNoEvidence ==
    ASSUME NEW p \in Executor
    PROVE  JobDone(p).pc \notin Reporting /\ Idle.pc \notin Reporting
BY DEF JobDone, Idle, Reporting

\* Only a submission makes evidence, and only about what it submitted or found.
LEMMA EvidenceStep ==
    ASSUME LoopInv, NEW p \in Executor, LoopNext(p), EvidenceIsReal, SubmittedIsReal
    PROVE  EvidenceIsReal' /\ SubmittedIsReal'
<1>0. work \in [Executor -> Loop] /\ work[p] \in Loop /\ sent \in [Task -> Nat]
  BY DEF LoopInv, QueueTypeOK
<1>1. CASE ClaimSweep(p) \/ ClaimSelect(p) \/ ClaimLease(p) \/ \E j \in work[p].jobs : TakeJob(p, j)
  <2>1. work'[p].pc \notin Reporting /\ \A q \in Executor \ {p} : work'[q] = work[q]
    <3>1. CASE ClaimSelect(p)
      <4>1. PICK sel : work' = [work EXCEPT ![p].sel = sel,
                                  ![p].pc = IF sel # {} THEN "lease"
                                            ELSE IF p \in Browser THEN "idle" ELSE "next"]
        BY <3>1 DEF ClaimSelect
      <4>2. QED  BY <1>0, <4>1 DEF Loop, Reporting
    <3>2. CASE ClaimLease(p)
      BY <1>0, <3>2 DEF ClaimLease, Loop, Reporting
    <3>3. ASSUME NEW j \in work[p].jobs, TakeJob(p, j)
          PROVE  work'[p].pc \notin Reporting /\ \A q \in Executor \ {p} : work'[q] = work[q]
      BY <1>0, <3>3 DEF TakeJob, Loop, Reporting
    <3>4. CASE ClaimSweep(p)
      BY <1>0, <3>4 DEF ClaimSweep, Go, Loop, Reporting
    <3>5. QED  BY <1>1, <3>1, <3>2, <3>3, <3>4
  <2>2. UNCHANGED <<sent, app>>
    BY <1>1 DEF ClaimSweep, ClaimSelect, ClaimLease, TakeJob
  <2>3. QED  BY <2>1, <2>2 DEF EvidenceIsReal, SubmittedIsReal
<1>2. ASSUME NEW r \in Outcomes, Submit(p, r) PROVE EvidenceIsReal' /\ SubmittedIsReal'
  <2>1. work[p].cur \in Task
    BY <1>0, <1>2 DEF Submit, LoopInv, WorksOnTask
  <2>2. /\ \A t \in Task : sent'[t] >= sent[t]
        /\ r.reached => sent'[work[p].cur] > 0
    <3>1. CASE r.reached
      BY <1>0, <1>2, <2>1, <3>1 DEF Submit
    <3>2. CASE ~r.reached
      BY <1>0, <1>2, <3>2 DEF Submit
    <3>3. QED  BY <3>1, <3>2
  <2>3. r.evidence => sent'[work[p].cur] > 0
    BY <1>0, <1>2, <2>1, <2>2 DEF Submit, BoardOutcome
  <2>4. /\ work'[p].res = r /\ work'[p].cur = work[p].cur
        /\ \A q \in Executor \ {p} : work'[q] = work[q]
    BY <1>0, <1>2 DEF Submit, Loop
  <2>5. EvidenceIsReal'
    <3>1. ASSUME NEW q \in Executor, work'[q].pc \in Reporting, work'[q].res.evidence
          PROVE  sent'[work'[q].cur] > 0
      <4>1. CASE q = p
        BY <2>3, <2>4, <3>1, <4>1
      <4>2. CASE q # p
        <5>1. work[q].cur \in Task /\ sent[work[q].cur] > 0
          BY <2>4, <3>1, <4>2 DEF EvidenceIsReal, LoopInv, WorksOnTask, Reporting
        <5>2. sent'[work[q].cur] >= sent[work[q].cur] /\ sent'[work[q].cur] \in Nat
          BY <1>0, <1>2, <2>2, <5>1, SharedLoopStep DEF LoopInv, QueueTypeOK
        <5>3. QED  BY <1>0, <2>4, <4>2, <5>1, <5>2
      <4>3. QED  BY <4>1, <4>2
    <3>2. QED  BY <3>1 DEF EvidenceIsReal
  <2>6. SubmittedIsReal'
    <3>1. app' = app /\ sent' \in [Task -> Nat]
      BY <1>2, SharedLoopStep DEF Submit, LoopInv, QueueTypeOK
    <3>2. QED  BY <1>0, <2>2, <3>1 DEF SubmittedIsReal
  <2>7. QED  BY <2>5, <2>6
<1>3. CASE Report(p) \/ FinishTask(p)
  <2>1. UNCHANGED <<sent, app>> /\ \A q \in Executor \ {p} : work'[q] = work[q]
    BY <1>0, <1>3 DEF Report, DropWork, Go, FinishTask
  <2>2. work'[p].pc \in Reporting => work'[p].res = work[p].res /\ work'[p].cur = work[p].cur
                                     /\ work[p].pc \in Reporting
    <3>1. CASE Report(p)
      <4>1. CASE work' = [work EXCEPT ![p] = Idle]
        BY <1>0, <4>1, RestCarriesNoEvidence
      <4>2. CASE \E step \in WorkStep : Go(p, step)
        BY <1>0, <3>1, <4>2 DEF Report, Go, Loop, Reporting
      <4>3. QED
        BY <3>1, <4>1, <4>2 DEF Report, DropWork, WorkStep
    <3>2. CASE FinishTask(p)
      BY <1>0, <3>2, RestCarriesNoEvidence DEF FinishTask
    <3>3. QED  BY <1>3, <3>1, <3>2
  <2>3. QED  BY <2>1, <2>2 DEF EvidenceIsReal, SubmittedIsReal
<1>4. CASE SaveApplication(p)
  <2>1. sent' = sent /\ work[p].cur \in Task /\ work[p].pc \in Reporting
        /\ \A q \in Executor \ {p} : work'[q] = work[q]
    BY <1>0, <1>4 DEF SaveApplication, Go, LoopInv, WorksOnTask, Reporting
  <2>2. CASE task[work[p].cur].status = "deleted"
    <3>1. app' = app /\ work'[p].pc \notin Reporting
      BY <1>0, <1>4, <2>2, RestCarriesNoEvidence DEF SaveApplication
    <3>2. QED  BY <2>1, <3>1 DEF EvidenceIsReal, SubmittedIsReal
  <2>3. CASE task[work[p].cur].status # "deleted"
    <3>1. work'[p].res = work[p].res /\ work'[p].cur = work[p].cur
      BY <1>0, <1>4, <2>3 DEF SaveApplication, Go, Loop
    <3>2. EvidenceIsReal'
      BY <2>1, <3>1 DEF EvidenceIsReal
    <3>3. app' = [app EXCEPT ![work[p].cur] = RecordedStatus(work[p].res)]
      BY <1>4, <2>3 DEF SaveApplication
    <3>4. RecordedStatus(work[p].res) = "submitted" => work[p].res.evidence
      BY DEF RecordedStatus
    <3>5. SubmittedIsReal'
      BY <2>1, <3>3, <3>4 DEF SubmittedIsReal, EvidenceIsReal, LoopInv, QueueTypeOK
    <3>6. QED  BY <3>2, <3>5
  <2>4. QED  BY <2>2, <2>3
<1>5. QED
  BY <1>1, <1>2, <1>3, <1>4 DEF LoopNext

\* Outside the shared loop nothing is submitted or recorded, and no loop starts to
\* report anything but a failure without evidence.
LEMMA QuietStep ==
    ASSUME LoopInv, EvidenceIsReal, SubmittedIsReal, UNCHANGED <<sent, app>>,
           NEW p \in Executor, NEW w \in Loop,
           work' = work \/ work' = [work EXCEPT ![p] = w],
           w.pc \in Reporting => ~w.res.evidence
    PROVE  EvidenceIsReal' /\ SubmittedIsReal'
BY DEF LoopInv, QueueTypeOK, EvidenceIsReal, SubmittedIsReal

\* Evidence and the applications it was recorded for survive every step.
LEMMA SubmittedStep ==
    LoopInv /\ EvidenceIsReal /\ SubmittedIsReal /\ [Next]_vars
        => EvidenceIsReal' /\ SubmittedIsReal'
<1> SUFFICES ASSUME LoopInv, EvidenceIsReal, SubmittedIsReal, [Next]_vars
             PROVE  EvidenceIsReal' /\ SubmittedIsReal'
  OBVIOUS
<1>0. work \in [Executor -> Loop]
  BY DEF LoopInv, QueueTypeOK
<1>a. Idle \in Loop /\ Idle.pc \notin Reporting
  BY DEF Idle, NoResult, Result, Loop, WorkStep, Reporting
<1>1. CASE UNCHANGED <<work, sent, app>>
  BY <1>1 DEF EvidenceIsReal, SubmittedIsReal
<1>2. ASSUME NEW b \in Browser, UserNext(b) PROVE EvidenceIsReal' /\ SubmittedIsReal'
  <2>1. CASE BrowserCloses(b)
    BY <1>a, <2>1, QuietStep DEF BrowserCloses, DropWork, Executor
  <2>2. CASE ~BrowserCloses(b)
    <3>1. UNCHANGED <<work, sent, app>>
      BY <1>2, <2>2 DEF UserNext, UserStartRead, UserStart, UserPause, ReleaseRead, ReleaseWrite,
                        ReleaseSweep, UserReset, UserBlock, UserOther, RequestDies, queueVars
    <3>2. QED  BY <1>1, <3>1
  <2>3. QED  BY <2>1, <2>2
<1>3. ASSUME NEW b \in Browser, ExtensionNext(b) PROVE EvidenceIsReal' /\ SubmittedIsReal'
  <2>0. b \in Executor /\ work[b] \in Loop
    BY <1>0 DEF Executor
  <2>1. CASE ExtensionClaim(b)
    <3> DEFINE w == [work[b] EXCEPT !.pc = "sweep"]
    <3>1. work' = [work EXCEPT ![b] = w] /\ UNCHANGED <<sent, app>>
      BY <1>0, <2>0, <2>1 DEF ExtensionClaim, Go
    <3>2. w \in Loop /\ w.pc \notin Reporting
      BY <2>0 DEF Loop, WorkStep, Reporting
    <3> HIDE DEF w
    <3>3. QED  BY <2>0, <3>1, <3>2, QuietStep
  <2>2. CASE ExtensionCheck(b)
    <3> DEFINE failed == [NoResult EXCEPT !.status = "failed"]
               step == IF OwnsRunningRun(b) THEN "submit" ELSE "report"
               out == IF OwnsRunningRun(b) THEN work[b].res ELSE failed
               w == [work[b] EXCEPT !.pc = step, !.res = out]
    <3>0. work[b].res \in Result /\ failed \in Result /\ ~failed.evidence
      BY <2>0 DEF Loop, NoResult, Result
    <3>1. UNCHANGED <<sent, app>>
      BY <2>2 DEF ExtensionCheck
    <3>2. step \in WorkStep /\ out \in Result /\ (step \in Reporting => ~out.evidence)
      BY <3>0 DEF WorkStep, Reporting
    <3>3. work' = [work EXCEPT ![b] = w]
      <4>1. CASE OwnsRunningRun(b)
        <5>1. w = [work[b] EXCEPT !.pc = "submit"]
          BY <2>0, <4>1 DEF Loop
        <5>2. QED  BY <1>0, <2>0, <2>2, <4>1, <5>1 DEF ExtensionCheck, Go
      <4>2. CASE ~OwnsRunningRun(b)
        BY <1>0, <2>0, <2>2, <4>2 DEF ExtensionCheck
      <4>3. QED  BY <4>1, <4>2
    <3> HIDE DEF step, out, failed
    <3>4. w \in Loop /\ w.pc = step /\ w.res = out
      BY <2>0, <3>2 DEF Loop
    <3> HIDE DEF w
    <3>5. QED  BY <2>0, <3>1, <3>2, <3>3, <3>4, QuietStep
  <2>3. CASE LoopNext(b)
    BY <2>0, <2>3, EvidenceStep
  <2>4. QED  BY <1>3, <2>1, <2>2, <2>3 DEF ExtensionNext
<1>4. ASSUME NEW n \in Node, FleetNext(n) PROVE EvidenceIsReal' /\ SubmittedIsReal'
  <2>0. n \in Executor /\ work[n] \in Loop
    BY <1>0 DEF Executor
  <2>1. CASE LoopNext(n)
    BY <2>0, <2>1, EvidenceStep
  <2>2. CASE FleetGate(n)
    BY <1>1, <2>2 DEF FleetGate
  <2>3. CASE LoseReport(n) \/ Challenge(n) \/ ChallengePark(n) \/ FleetTickEnds(n)
    <3>1. UNCHANGED <<sent, app>>
      BY <2>3 DEF LoseReport, Challenge, ChallengePark, FleetTickEnds
    <3>2. \/ work' = [work EXCEPT ![n] = Idle]
          \/ work' = [work EXCEPT ![n] = JobDone(n)]
          \/ work' = [work EXCEPT ![n].pc = "unlease"]
      BY <2>3 DEF LoseReport, Challenge, ChallengePark, FleetTickEnds
    <3> DEFINE w == [work[n] EXCEPT !.pc = "unlease"]
    <3>3. w \in Loop /\ w.pc \notin Reporting /\ ([work EXCEPT ![n].pc = "unlease"] = [work EXCEPT ![n] = w])
      BY <2>0 DEF Loop, WorkStep, Reporting
    <3> HIDE DEF w
    <3>4. JobDone(n) \in Loop /\ JobDone(n).pc \notin Reporting
      BY <2>0, JobDoneType, RestCarriesNoEvidence DEF LoopInv
    <3>5. QED  BY <1>a, <2>0, <3>1, <3>2, <3>3, <3>4, QuietStep
  <2>4. CASE FleetMark(n) \/ FleetStamp(n) \/ FleetRespond(n)
    <3>1. PICK step \in {"sweep", "load", "next"} : Go(n, step) \/ UNCHANGED work
      BY <2>4 DEF FleetMark, FleetStamp, FleetRespond
    <3> DEFINE w == [work[n] EXCEPT !.pc = step]
    <3>2. UNCHANGED <<sent, app>> /\ (work' = work \/ work' = [work EXCEPT ![n] = w])
      BY <1>0, <2>0, <2>4, <3>1 DEF FleetMark, FleetStamp, FleetRespond, Go
    <3>3. w \in Loop /\ w.pc \notin Reporting
      BY <2>0 DEF Loop, WorkStep, Reporting
    <3> HIDE DEF w
    <3>4. QED  BY <2>0, <3>2, <3>3, QuietStep
  <2>5. CASE \/ ChallengeRelease(n) \/ ChallengeReleaseRest(n)
             \/ \E j \in work[n].jobs : FleetHandBack(n, j)
    <3>1. UNCHANGED <<sent, app>> /\ work'[n].pc \notin Reporting
          /\ \A q \in Executor \ {n} : work'[q] = work[q]
      BY <1>0, <2>0, <2>5
         DEF ChallengeRelease, ChallengeReleaseRest, FleetHandBack, Loop, Reporting
    <3>2. QED  BY <3>1 DEF EvidenceIsReal, SubmittedIsReal
  <2>6. QED
    BY <1>4, <2>1, <2>2, <2>3, <2>4, <2>5 DEF FleetNext
<1>5. ASSUME NEW n \in Node, NodeDies(n) PROVE EvidenceIsReal' /\ SubmittedIsReal'
  BY <1>a, <1>5, QuietStep DEF NodeDies, DropWork, Executor
<1>6. CASE TimePasses
  BY <1>1, <1>6 DEF TimePasses
<1>7. CASE GatesChange \/ UNCHANGED vars
  BY <1>1, <1>7 DEF GatesChange, vars, queueVars
<1>8. QED
  BY <1>2, <1>3, <1>4, <1>5, <1>6, <1>7 DEF Next

---------------------------------------------------------------------------
(* Theorems.                                                                 *)

\* The inductive invariant of the composed system.
DispatchInv == RunInv /\ LoopInv /\ EvidenceIsReal /\ SubmittedIsReal

\* It holds at first ...
LEMMA DispatchInitInv == Init => DispatchInv
<1> SUFFICES ASSUME Init PROVE DispatchInv  OBVIOUS
<1>1. EvidenceIsReal /\ SubmittedIsReal
  BY DEF Init, EvidenceIsReal, SubmittedIsReal, Reporting, Idle
<1>2. QED
  BY <1>1, RunInitInv, LoopInitInv DEF Init, DispatchInv

\* ... and after every step.
LEMMA DispatchStepInv == DispatchInv /\ [Next]_vars => DispatchInv'
<1> SUFFICES ASSUME DispatchInv, [Next]_vars PROVE DispatchInv'  OBVIOUS
<1>1. [RunNext]_runVars
  BY RunRowStep DEF DispatchInv, LoopInv
<1>2. RunInv'
  BY <1>1, RunStepInv DEF DispatchInv
<1>3. QED
  BY <1>2, LoopStep, SubmittedStep DEF DispatchInv

\* In every reachable state the queue, the loops and the run row are well typed.
THEOREM DispatchTypeCorrect == Spec => []DispatchTypeOK
<1>1. DispatchInv => DispatchTypeOK
  BY DEF DispatchInv, RunInv, LoopInv, DispatchTypeOK
<1>2. QED
  BY DispatchInitInv, DispatchStepInv, <1>1, PTL DEF Spec

\* An application is only ever recorded as submitted when the board holds it, for
\* any number of browsers, nodes, tasks and retries.
THEOREM SubmittedMeansSubmitted == Spec => []SubmittedIsReal
<1>1. DispatchInv => SubmittedIsReal
  BY DEF DispatchInv
<1>2. QED
  BY DispatchInitInv, DispatchStepInv, <1>1, PTL DEF Spec

\* The composed system implements the run row: every result about ExecutionRun
\* holds while browsers and nodes claim, apply, report and fail around it.
THEOREM DispatchImplementsRun == Spec => RunRowImplemented
<1>1. Init => RunInit
  BY DEF Init
<1>2. DispatchInv /\ [Next]_vars => [runVars' # runVars => RunNext]_runVars
  BY RunRowStep DEF DispatchInv, LoopInv
<1>3. QED
  BY DispatchInitInv, DispatchStepInv, <1>1, <1>2, PTL DEF Spec, RunRowImplemented

---------------------------------------------------------------------------
(* A pause stops a browser soon.                                             *)

\* A browser that has submitted during a pause is past its ownership check, and the
\* run has not been started since.
LateInv ==
    \A b \in Browser :
        /\ late[b] <= 1
        /\ late[b] > 0 => run.state # "running" /\ work[b].pc # "submit"

\* A step that counts nothing keeps it, if it starts neither the run nor, unless the
\* run was started, a submission.
LEMMA LateKept ==
    ASSUME LateInv, UNCHANGED late,
           run.state # "running" => /\ run'.state # "running"
                                    /\ \A b \in Browser : work'[b].pc = "submit" => work[b].pc = "submit"
    PROVE  LateInv'
<1>1. ASSUME NEW b \in Browser, late[b] > 0 PROVE run'.state # "running" /\ work'[b].pc # "submit"
  BY <1>1 DEF LateInv
<1>2. QED  BY <1>1 DEF LateInv

\* Starting the run clears the counts.
LEMMA LateNoted ==
    ASSUME LoopInv, LateInv, NoteRun, UNCHANGED work \/ \E n \in Node : Go(n, "sweep")
    PROVE  LateInv'
<1>1. CASE run'.state = "running"
  BY <1>1 DEF NoteRun, LateInv
<1>2. CASE run'.state # "running"
  <2>1. late' = late
    BY <1>2 DEF NoteRun
  <2>2. \A b \in Browser : work'[b].pc = "submit" => work[b].pc = "submit"
    BY ExecutorAssumption DEF Go, LoopInv, QueueTypeOK, Executor
  <2>3. QED  BY <1>2, <2>1, <2>2, LateKept
<1>3. QED  BY <1>1, <1>2

\* The loops that browsers and nodes share.
LEMMA LateLoopStep ==
    ASSUME LoopInv, LateInv, NEW p \in Executor, LoopNext(p)
    PROVE  LateInv'
<1>0. work \in [Executor -> Loop] /\ late \in [Browser -> 0..2]
  BY DEF LoopInv, QueueTypeOK
<1>a. run' = run
  BY DEF LoopNext, ClaimSweep, ClaimSelect, ClaimLease, TakeJob, Submit, Report, SaveApplication, FinishTask, runVars
<1>b. \A b \in Browser \ {p} : work'[b] = work[b]
  BY <1>0 DEF LoopNext, ClaimSweep, ClaimSelect, ClaimLease, TakeJob, Submit, Report, DropWork, SaveApplication,
              FinishTask, Go, Executor
<1>1. ASSUME NEW r \in Outcomes, Submit(p, r) PROVE LateInv'
  <2>1. work[p].pc = "submit" /\ work'[p].pc = "report"
    BY <1>0, <1>1 DEF Submit
  <2>2. CASE UNCHANGED late
    BY <1>a, <1>b, <2>1, <2>2, LateKept
  <2>3. CASE late' # late
    <3>1. p \in Browser /\ run.state = "paused" /\ late' = [late EXCEPT ![p] = @ + 1]
      BY <1>1, <2>3 DEF Submit
    <3>2. late[p] = 0
      BY <1>0, <2>1, <3>1 DEF LateInv
    <3>3. late'[p] = 1 /\ \A b \in Browser \ {p} : late'[b] = late[b]
      BY <1>0, <3>1, <3>2
    <3>4. QED  BY <1>a, <1>b, <2>1, <3>1, <3>3 DEF LateInv
  <2>4. QED  BY <2>2, <2>3
<1>2. ASSUME ~\E r \in Outcomes : Submit(p, r) PROVE LateInv'
  <2>1. UNCHANGED late
    BY <1>2 DEF LoopNext, ClaimSweep, ClaimSelect, ClaimLease, TakeJob, Report, SaveApplication, FinishTask
  <2>2. p \in Browser => work'[p].pc # "submit"
    <3>1. work[p] \in Loop
      BY <1>0
    <3>2. JobDone(p).pc # "submit" /\ Idle.pc # "submit"
      BY DEF JobDone, Idle
    <3>9. CASE ClaimSweep(p)
      BY <1>0, <3>1, <3>9 DEF ClaimSweep, Go, Loop
    <3>3. CASE ClaimSelect(p)
      BY <1>0, <3>1, <3>3 DEF ClaimSelect, Loop
    <3>4. CASE ClaimLease(p)
      BY <1>0, <3>1, <3>4, ExecutorAssumption DEF ClaimLease, Loop
    <3>5. CASE \E j \in work[p].jobs : TakeJob(p, j)
      BY <1>0, <3>1, <3>5 DEF TakeJob, Loop
    <3>6. CASE Report(p)
      BY <1>0, <3>1, <3>2, <3>6 DEF Report, DropWork, Go, Loop
    <3>7. CASE SaveApplication(p) \/ FinishTask(p)
      BY <1>0, <3>1, <3>2, <3>7 DEF SaveApplication, FinishTask, Go, Loop
    <3>8. QED  BY <1>2, <3>3, <3>4, <3>5, <3>6, <3>7, <3>9 DEF LoopNext
  <2>3. QED  BY <1>a, <1>b, <2>1, <2>2, LateKept
<1>3. QED  BY <1>1, <1>2

\* The requests of the user, pauses and starts among them.
LEMMA LateUserStep ==
    ASSUME TypeOK, LoopInv, LateInv, NEW b \in Browser, UserNext(b)
    PROVE  LateInv'
<1>0. work \in [Executor -> Loop] /\ b \in Executor
  BY DEF LoopInv, QueueTypeOK, Executor
<1>1. CASE \E takeover \in BOOLEAN : UserStartRead(b, takeover)
  BY <1>1, LateKept DEF UserStartRead, StartRead, queueVars
<1>2. CASE UserStart(b)
  BY <1>2, LateNoted DEF UserStart
<1>3. CASE \E stop \in BOOLEAN : UserPause(b, stop)
  BY <1>3 DEF UserPause, LateInv
<1>4. CASE ReleaseRead(b) \/ ReleaseWrite(b) \/ ReleaseSweep(b)
  BY <1>4, LateKept DEF ReleaseRead, ReleaseWrite, ReleaseSweep, runVars
<1>5. CASE UserReset(b)
  BY <1>5, LateNoted DEF UserReset
<1>6. CASE UserBlock(b) \/ UserOther(b)
  <2>1. UNCHANGED <<late, work>>
    BY <1>6 DEF UserBlock, UserOther, queueVars
  <2>2. run.state # "running" => run'.state # "running"
    BY <1>6 DEF UserBlock, UserOther, Heartbeat, Progress, Complete, BlockAssert, BlockUpdate, OpenBrowser,
                WriteRun, OwnsRunningRun, TypeOK
  <2>3. QED  BY <2>1, <2>2, LateKept
<1>7. CASE RequestDies(b)
  BY <1>7, LateKept DEF RequestDies, CallDies, runVars
<1>8. CASE BrowserCloses(b)
  <2>1. UNCHANGED <<late, run>> /\ work' = [work EXCEPT ![b] = Idle]
    BY <1>8 DEF BrowserCloses, CloseBrowser, DropWork
  <2>2. \A c \in Browser : work'[c].pc = "submit" => work[c].pc = "submit"
    BY <1>0, <2>1 DEF Idle, Executor
  <2>3. QED  BY <2>1, <2>2, LateKept
<1>9. QED
  BY <1>1, <1>2, <1>3, <1>4, <1>5, <1>6, <1>7, <1>8 DEF UserNext

\* Every step keeps it.
LEMMA LateStep == TypeOK /\ LoopInv /\ LateInv /\ [Next]_vars => LateInv'
<1> SUFFICES ASSUME TypeOK, LoopInv, LateInv, [Next]_vars PROVE LateInv'  OBVIOUS
<1>0. work \in [Executor -> Loop]
  BY DEF LoopInv, QueueTypeOK
<1>1. ASSUME NEW b \in Browser, ExtensionNext(b) PROVE LateInv'
  <2>0. b \in Executor
    BY DEF Executor
  <2>1. CASE ExtensionClaim(b)
    <3>1. UNCHANGED <<late, run>> /\ work' = [work EXCEPT ![b].pc = "sweep"]
      BY <2>1 DEF ExtensionClaim, Go, runVars
    <3>2. \A c \in Browser : work'[c].pc = "submit" => work[c].pc = "submit"
      BY <1>0, <2>0, <3>1 DEF Executor, Loop
    <3>3. QED  BY <3>1, <3>2, LateKept
  <2>2. CASE ExtensionCheck(b)
    <3>1. UNCHANGED <<late, run>>
      BY <2>2 DEF ExtensionCheck
    <3>2. run.state = "running" \/ work'[b].pc = "report"
      <4>1. work[b] \in Loop
        BY <1>0, <2>0
      <4>2. QED  BY <1>0, <2>0, <2>2, <4>1 DEF ExtensionCheck, Go, OwnsRunningRun, Running, Loop
    <3>3. \A c \in Browser \ {b} : work'[c] = work[c]
      BY <1>0, <2>0, <2>2 DEF ExtensionCheck, Go, Executor
    <3>4. QED  BY <3>1, <3>2, <3>3, LateKept
  <2>3. CASE LoopNext(b)
    BY <2>0, <2>3, LateLoopStep
  <2>4. QED  BY <1>1, <2>1, <2>2, <2>3 DEF ExtensionNext
<1>2. ASSUME NEW n \in Node, FleetNext(n) \/ NodeDies(n) PROVE LateInv'
  <2>0. n \in Executor /\ \A b \in Browser : b # n
    BY ExecutorAssumption DEF Executor
  <2>1. CASE FleetMark(n)
    BY <2>1, LateNoted DEF FleetMark
  <2>2. CASE LoopNext(n)
    BY <2>0, <2>2, LateLoopStep
  <2>3. CASE ~FleetMark(n) /\ ~LoopNext(n)
    <3>1. UNCHANGED late
      BY <1>2, <2>3 DEF FleetNext, FleetGate, FleetStamp, FleetRespond, FleetHandBack, LoseReport, Challenge,
                        ChallengeRelease, ChallengeReleaseRest, ChallengePark, FleetTickEnds, NodeDies
    <3>2. run.state # "running" => run'.state # "running"
      <4>1. CASE ChallengePark(n)
        BY <4>1 DEF ChallengePark, ServerBlock, WriteRun
      <4>2. CASE ~ChallengePark(n)
        <5>1. run' = run
          BY <1>2, <2>3, <4>2 DEF FleetNext, FleetGate, FleetStamp, FleetRespond, FleetHandBack,
                                  LoseReport, Challenge, ChallengeRelease, ChallengeReleaseRest,
                                  FleetTickEnds, NodeDies, ServerGate, ServerDone, CallDies, runVars
        <5>2. QED  BY <5>1
      <4>3. QED  BY <4>1, <4>2
    <3>3. \A b \in Browser : work'[b] = work[b]
      <4>1. \/ work' = work
            \/ \E w : work' = [work EXCEPT ![n] = w]
        BY <1>2, <2>3 DEF FleetNext, FleetGate, FleetStamp, FleetRespond, FleetHandBack, LoseReport,
                          Challenge, ChallengeRelease, ChallengeReleaseRest, ChallengePark,
                          FleetTickEnds, NodeDies, DropWork, Go
      <4>2. QED  BY <1>0, <2>0, <4>1 DEF Executor
    <3>4. QED  BY <3>1, <3>2, <3>3, LateKept
  <2>4. QED  BY <2>1, <2>2, <2>3
<1>3. CASE TimePasses
  BY <1>3, LateKept DEF TimePasses
<1>4. CASE GatesChange \/ UNCHANGED vars
  BY <1>4, LateKept DEF GatesChange, vars, queueVars, runVars
<1>5. QED
  BY <1>1, <1>2, <1>3, <1>4, LateUserStep DEF Next

\* However many browsers and nodes there are, a browser submits at most once
\* between a pause and the next start.
THEOREM PauseStopsSoonAlways == Spec => []PauseStopsSoon
<1>1. Init => LateInv
  BY DEF Init, LateInv
<1>2. LateInv => PauseStopsSoon
  BY DEF LateInv, PauseStopsSoon
<1>3. DispatchInv /\ LateInv /\ [Next]_vars => LateInv'
  BY LateStep DEF DispatchInv, RunInv
<1>4. QED  BY DispatchInitInv, DispatchStepInv, <1>1, <1>2, <1>3, PTL DEF Spec

---------------------------------------------------------------------------
(* A challenge leaves no lease behind.                                       *)

\* The leases that name a node.
Stamped(n) == {t \in Task : Leased(t) /\ task[t].by = n}

\* What a challenge has read is what there is to release, and what it released is gone
\* when it parks the run.
BatchInv ==
    \A n \in Node :
        /\ work[n].pc = "unleaseRest" => Stamped(n) \subseteq work[n].sel
        /\ work[n].pc = "park" => Stamped(n) = {}
        /\ run.state = "blocked" /\ run.executor = n => work[n].pc = "idle" /\ Stamped(n) = {}

\* A release stamps nothing.
LEMMA PendingStampsNothing ==
    ASSUME LoopInv, NEW ids, task' = SetPending(ids), NEW n \in Node
    PROVE  Stamped(n)' \subseteq Stamped(n) \ ids
<1>1. \A t \in Task : task'[t] = IF t \in ids /\ task[t].status # "deleted"
                                 THEN Fresh("pending", NoOne) ELSE task[t]
  BY DEF SetPending
<1>2. QED  BY <1>1 DEF Stamped, Leased, Fresh

\* Nobody but the node itself stamps its leases.
LEMMA StampsAreOwn ==
    ASSUME LoopInv, [Next]_vars, NEW n \in Node, ~FleetStamp(n)
    PROVE  Stamped(n)' \subseteq Stamped(n)
<1>0. task \in [Task -> TaskRow] /\ n # NoOne
  BY ExecutorAssumption DEF LoopInv, QueueTypeOK
<1>a. ASSUME UNCHANGED task PROVE Stamped(n)' \subseteq Stamped(n)
  BY <1>a DEF Stamped, Leased
<1>1. ASSUME NEW b \in Browser, UserNext(b) PROVE Stamped(n)' \subseteq Stamped(n)
  <2>1. CASE ReleaseWrite(b) \/ ReleaseSweep(b)
    BY <2>1, PendingStampsNothing DEF ReleaseWrite, ReleaseSweep
  <2>2. CASE UserReset(b)
    BY <2>2 DEF UserReset, Stamped, Leased, Fresh
  <2>3. CASE ~ReleaseWrite(b) /\ ~ReleaseSweep(b) /\ ~UserReset(b)
    BY <1>a, <1>1, <2>3 DEF UserNext, UserStartRead, UserStart, UserPause, ReleaseRead, UserBlock, UserOther,
                            RequestDies, BrowserCloses, queueVars
  <2>4. QED  BY <2>1, <2>2, <2>3
<1>2. ASSUME NEW p \in Executor, LoopNext(p) PROVE Stamped(n)' \subseteq Stamped(n)
  <2>1. CASE ClaimSweep(p)
    BY <2>1, PendingStampsNothing DEF ClaimSweep
  <2>2. CASE ClaimLease(p)
    BY <1>0, <2>2 DEF ClaimLease, Stamped, Leased, Fresh
  <2>3. CASE FinishTask(p)
    <3>1. CASE UNCHANGED task
      BY <1>a, <3>1
    <3>2. CASE task' # task
      <4> DEFINE u == work[p].cur
                 st == TaskStatusFor(RecordedStatus(work[p].res))
      <4>1. task' = [task EXCEPT ![u].age = 0, ![u].status = st] /\ st # "leased"
        BY <2>3, <3>2 DEF FinishTask, TaskStatusFor
      <4> HIDE DEF u, st
      <4>2. ASSUME NEW t \in Stamped(n)' PROVE t \in Stamped(n)
        <5>1. t \in Task /\ task'[t].status = "leased" /\ task'[t].by = n
          BY <4>2 DEF Stamped, Leased
        <5>2. t # u
          BY <1>0, <4>1, <5>1 DEF TaskRow
        <5>3. QED  BY <1>0, <4>1, <5>1, <5>2 DEF Stamped, Leased
      <4>3. QED  BY <4>2
    <3>3. QED  BY <3>1, <3>2
  <2>4. CASE ~ClaimSweep(p) /\ ~ClaimLease(p) /\ ~FinishTask(p)
    BY <1>2, <1>a, <2>4 DEF LoopNext, ClaimSelect, TakeJob, Submit, Report, SaveApplication
  <2>5. QED  BY <2>1, <2>2, <2>3, <2>4
<1>3. ASSUME NEW b \in Browser, ExtensionNext(b) PROVE Stamped(n)' \subseteq Stamped(n)
  BY <1>2, <1>3, <1>a DEF ExtensionNext, ExtensionClaim, ExtensionCheck, Executor
<1>4. ASSUME NEW m \in Node, FleetNext(m) PROVE Stamped(n)' \subseteq Stamped(n)
  <2>1. CASE FleetStamp(m)
    <3>1. \A t \in Task : task'[t] = IF t \in work[m].jobs /\ Leased(t)
                                     THEN [task[t] EXCEPT !.by = m] ELSE task[t]
      BY <2>1 DEF FleetStamp
    <3>2. m # n
      BY <2>1
    <3>3. QED  BY <1>0, <3>1, <3>2 DEF Stamped, Leased, TaskRow
  <2>2. ASSUME NEW j \in work[m].jobs, FleetHandBack(m, j) PROVE Stamped(n)' \subseteq Stamped(n)
    BY <1>a, <2>2, PendingStampsNothing DEF FleetHandBack
  <2>3. CASE LoopNext(m)
    BY <1>2, <2>3 DEF Executor
  <2>4. CASE ChallengeRelease(m) \/ ChallengeReleaseRest(m)
    BY <2>4, PendingStampsNothing DEF ChallengeRelease, ChallengeReleaseRest
  <2>5. CASE ~FleetStamp(m) /\ ~(\E j \in work[m].jobs : FleetHandBack(m, j)) /\ ~LoopNext(m)
             /\ ~ChallengeRelease(m) /\ ~ChallengeReleaseRest(m)
    BY <1>4, <1>a, <2>5 DEF FleetNext, FleetGate, FleetMark, FleetRespond, LoseReport, Challenge,
                            ChallengePark, FleetTickEnds
  <2>6. QED  BY <2>1, <2>2, <2>3, <2>4, <2>5
<1>5. ASSUME NEW m \in Node, NodeDies(m) PROVE Stamped(n)' \subseteq Stamped(n)
  BY <1>5, <1>a DEF NodeDies
<1>6. CASE TimePasses
  <2>1. \A t \in Task : task'[t] = IF Leased(t) /\ task[t].age < MaxAge
                                   THEN [task[t] EXCEPT !.age = @ + 1] ELSE task[t]
    BY <1>6 DEF TimePasses
  <2>2. QED  BY <1>0, <2>1 DEF Stamped, Leased, TaskRow
<1>7. CASE GatesChange \/ UNCHANGED vars
  BY <1>7, <1>a DEF GatesChange, vars, queueVars
<1>8. QED
  BY <1>1, <1>3, <1>4, <1>5, <1>6, <1>7 DEF Next

\* A run that is parked by a node was parked by it before, or by this step.
LEMMA ParkedBefore ==
    ASSUME TypeOK, LoopInv, [Next]_vars, NEW n \in Node,
           run'.state = "blocked", run'.executor = n, ~ChallengePark(n)
    PROVE  run.state = "blocked" /\ run.executor = n
<1>1. \A b \in Browser : b # n
  BY ExecutorAssumption
<1>2. CASE UNCHANGED run
  BY <1>2
<1>3. CASE run' # run
  <2>1. ASSUME NEW b \in Browser, UserNext(b) PROVE FALSE
    <3>1. ASSUME NEW takeover \in BOOLEAN, UserStartRead(b, takeover) PROVE FALSE
      BY <1>3, <3>1 DEF UserStartRead, StartRead
    <3>2. CASE UserStart(b)
      BY <1>3, <3>2 DEF UserStart, StartUpsert, WriteRun
    <3>3. ASSUME NEW stop \in BOOLEAN, UserPause(b, stop) PROVE FALSE
      BY <1>3, <3>3 DEF UserPause, Pause, WriteRun
    <3>4. CASE UserReset(b)
      BY <1>3, <3>4 DEF UserReset, ResetClaimsRun, WriteRun
    <3>5. CASE UserBlock(b) \/ UserOther(b)
      <4>1. CASE BlockUpdate(b)
        BY <1>1, <1>3, <4>1 DEF BlockUpdate, TypeOK
      <4>2. CASE ~BlockUpdate(b)
        BY <1>3, <3>5, <4>2 DEF UserBlock, UserOther, Heartbeat, Progress, Complete, BlockAssert, OpenBrowser, WriteRun
      <4>3. QED  BY <4>1, <4>2
    <3>6. CASE ReleaseRead(b) \/ ReleaseWrite(b) \/ ReleaseSweep(b)
      BY <1>3, <3>6 DEF ReleaseRead, ReleaseWrite, ReleaseSweep, runVars
    <3>7. CASE RequestDies(b) \/ BrowserCloses(b)
      BY <1>3, <3>7 DEF RequestDies, BrowserCloses, CallDies, CloseBrowser, runVars
    <3>8. QED  BY <2>1, <3>1, <3>2, <3>3, <3>4, <3>5, <3>6, <3>7 DEF UserNext
  <2>2. ASSUME NEW p \in Executor, LoopNext(p) PROVE FALSE
    BY <1>3, <2>2 DEF LoopNext, ClaimSweep, ClaimSelect, ClaimLease, TakeJob, Submit, Report, SaveApplication,
                      FinishTask, runVars
  <2>3. ASSUME NEW b \in Browser, ExtensionNext(b) PROVE FALSE
    BY <1>3, <2>2, <2>3 DEF ExtensionNext, ExtensionClaim, ExtensionCheck, runVars, Executor
  <2>4. ASSUME NEW m \in Node, FleetNext(m) PROVE FALSE
    <3>1. CASE FleetMark(m)
      BY <1>3, <3>1 DEF FleetMark, ServerUpsert, WriteRun
    <3>2. CASE ChallengePark(m)
      <4>1. m # n
        BY <3>2
      <4>2. QED  BY <1>3, <3>2, <4>1 DEF ChallengePark, ServerBlock, WriteRun
    <3>3. CASE LoopNext(m)
      BY <2>2, <3>3 DEF Executor
    <3>4. CASE ~FleetMark(m) /\ ~ChallengePark(m) /\ ~LoopNext(m)
      BY <1>3, <2>4, <3>4 DEF FleetNext, FleetGate, FleetStamp, FleetRespond, FleetHandBack, LoseReport,
                              Challenge, ChallengeRelease, ChallengeReleaseRest, FleetTickEnds,
                              ServerGate, ServerDone, runVars
    <3>5. QED  BY <3>1, <3>2, <3>3, <3>4
  <2>5. ASSUME NEW m \in Node, NodeDies(m) PROVE FALSE
    BY <1>3, <2>5 DEF NodeDies, CallDies
  <2>6. CASE TimePasses \/ GatesChange \/ UNCHANGED vars
    BY <1>3, <2>6 DEF TimePasses, GatesChange, vars, runVars
  <2>7. QED  BY <2>1, <2>3, <2>4, <2>5, <2>6 DEF Next
<1>4. QED  BY <1>2, <1>3

\* The steps in which a node's challenge does not move.
LEMMA ChallengeRests ==
    ASSUME LoopInv, [Next]_vars, NEW n \in Node,
           ~FleetStamp(n), ~ChallengeRelease(n), ~ChallengeReleaseRest(n), ~ChallengePark(n)
    PROVE  /\ work'[n].pc \in {"unleaseRest", "park"} => work'[n] = work[n]
           /\ work[n].pc = "idle" => work'[n].pc = "idle" \/ run'.state = "running"
<1>0. /\ work \in [Executor -> Loop] /\ n \in Executor /\ work[n] \in Loop
      /\ \A b \in Browser : b # n
  BY ExecutorAssumption DEF LoopInv, QueueTypeOK, Executor
<1>a. ASSUME work'[n] = work[n]
      PROVE  /\ work'[n].pc \in {"unleaseRest", "park"} => work'[n] = work[n]
             /\ work[n].pc = "idle" => work'[n].pc = "idle" \/ run'.state = "running"
  BY <1>a
<1>b. ASSUME work'[n].pc \notin {"unleaseRest", "park"}, work[n].pc # "idle"
      PROVE  /\ work'[n].pc \in {"unleaseRest", "park"} => work'[n] = work[n]
             /\ work[n].pc = "idle" => work'[n].pc = "idle" \/ run'.state = "running"
  BY <1>b
<1>c. JobDone(n).pc = "next" /\ Idle.pc = "idle"
  BY <1>0 DEF JobDone, Idle
<1>1. ASSUME NEW b \in Browser, UserNext(b) \/ ExtensionNext(b) PROVE work'[n] = work[n]
  <2>1. CASE UserNext(b)
    BY <1>0, <2>1 DEF UserNext, UserStartRead, UserStart, UserPause, ReleaseRead, ReleaseWrite,
                      ReleaseSweep, UserReset, UserBlock, UserOther, RequestDies, BrowserCloses, DropWork, queueVars
  <2>2. CASE ExtensionClaim(b) \/ ExtensionCheck(b)
    BY <1>0, <2>2 DEF ExtensionClaim, ExtensionCheck, Go
  <2>3. CASE LoopNext(b)
    BY <1>0, <2>3 DEF LoopNext, ClaimSweep, ClaimSelect, ClaimLease, TakeJob, Submit, Report, DropWork,
                      SaveApplication, FinishTask, Go
  <2>4. QED  BY <1>1, <2>1, <2>2, <2>3 DEF ExtensionNext
<1>2. ASSUME NEW m \in Node \ {n}, FleetNext(m) \/ NodeDies(m) PROVE work'[n] = work[n]
  <2>1. work' = work \/ \E w : work' = [work EXCEPT ![m] = w]
    <3>1. CASE LoopNext(m)
      BY <3>1 DEF LoopNext, ClaimSweep, ClaimSelect, ClaimLease, TakeJob, Submit, Report, DropWork,
                  SaveApplication, FinishTask, Go
    <3>2. CASE ~LoopNext(m)
      BY <1>2, <3>2 DEF FleetNext, FleetGate, FleetMark, FleetStamp, FleetRespond, FleetHandBack,
                  LoseReport, Challenge, ChallengeRelease, ChallengeReleaseRest, ChallengePark,
                  FleetTickEnds, NodeDies, DropWork, Go
    <3>3. QED  BY <3>1, <3>2
  <2>2. QED  BY <1>0, <2>1
<1>3. ASSUME LoopNext(n) PROVE work'[n].pc \notin {"unleaseRest", "park"} /\ work[n].pc # "idle"
  <2>1. CASE ClaimSweep(n) \/ ClaimSelect(n)
    BY <1>0, <2>1 DEF ClaimSweep, ClaimSelect, Go, Loop
  <2>2. CASE ClaimLease(n)
    BY <1>0, <2>2 DEF ClaimLease, Loop
  <2>3. CASE \E j \in work[n].jobs : TakeJob(n, j)
    BY <1>0, <2>3 DEF TakeJob, Loop
  <2>4. CASE \E r \in Outcomes : Submit(n, r)
    BY <1>0, <2>4 DEF Submit, Loop
  <2>5. CASE Report(n)
    BY <1>0, <1>c, <2>5 DEF Report, DropWork, Go, Loop
  <2>6. CASE SaveApplication(n) \/ FinishTask(n)
    BY <1>0, <1>c, <2>6 DEF SaveApplication, FinishTask, Go, Loop
  <2>7. QED  BY <1>3, <2>1, <2>2, <2>3, <2>4, <2>5, <2>6 DEF LoopNext
<1>4. CASE FleetGate(n) \/ \E j \in work[n].jobs : FleetHandBack(n, j)
  <2>1. CASE FleetGate(n)
    BY <1>a, <2>1 DEF FleetGate
  <2>2. ASSUME NEW j \in work[n].jobs, FleetHandBack(n, j)
        PROVE  work'[n].pc \notin {"unleaseRest", "park"} /\ work[n].pc # "idle"
    BY <1>0, <2>2 DEF FleetHandBack, Loop
  <2>3. QED  BY <1>4, <1>b, <2>1, <2>2
<1>5. CASE FleetMark(n)
  <2>1. CASE ServerUpsertMatches
    <3>1. run'.state = "running" /\ work'[n].pc = "sweep"
      BY <1>0, <1>5, <2>1 DEF FleetMark, ServerUpsert, WriteRun, Go, Loop
    <3>2. QED  BY <3>1
  <2>2. CASE ~ServerUpsertMatches
    BY <1>a, <1>5, <2>2 DEF FleetMark
  <2>3. QED  BY <2>1, <2>2
<1>6. CASE FleetRespond(n) \/ LoseReport(n) \/ Challenge(n) \/ FleetTickEnds(n)
  <2>1. CASE FleetRespond(n) \/ LoseReport(n) \/ FleetTickEnds(n)
    BY <1>0, <1>b, <1>c, <2>1 DEF FleetRespond, LoseReport, FleetTickEnds, Go, Loop
  <2>2. CASE Challenge(n)
    BY <1>0, <1>b, <1>c, <2>2 DEF Challenge, Loop
  <2>3. QED  BY <1>6, <2>1, <2>2
<1>7. CASE NodeDies(n)
  BY <1>0, <1>c, <1>7 DEF NodeDies, DropWork
<1>8. CASE TimePasses \/ GatesChange \/ UNCHANGED vars
  BY <1>a, <1>8 DEF TimePasses, GatesChange, vars, queueVars
<1>9. QED
  <2>1. CASE \E b \in Browser : UserNext(b) \/ ExtensionNext(b)
    BY <1>1, <1>a, <2>1
  <2>2. CASE \E m \in Node \ {n} : FleetNext(m) \/ NodeDies(m)
    BY <1>2, <1>a, <2>2
  <2>3. CASE FleetNext(n)
    BY <1>3, <1>b, <1>4, <1>5, <1>6, <2>3 DEF FleetNext
  <2>4. QED  BY <1>7, <1>8, <2>1, <2>2, <2>3 DEF Next

\* Every step keeps it.
LEMMA BatchStep == TypeOK /\ LoopInv /\ BatchInv /\ [Next]_vars => BatchInv'
<1> SUFFICES ASSUME TypeOK, LoopInv, BatchInv, [Next]_vars, NEW n \in Node
             PROVE  /\ work'[n].pc = "unleaseRest" => Stamped(n)' \subseteq work'[n].sel
                    /\ work'[n].pc = "park" => Stamped(n)' = {}
                    /\ run'.state = "blocked" /\ run'.executor = n => work'[n].pc = "idle" /\ Stamped(n)' = {}
  BY DEF BatchInv
<1>0. /\ work \in [Executor -> Loop] /\ n \in Executor /\ work[n] \in Loop
  BY DEF LoopInv, QueueTypeOK, Executor
<1>a. work[n].pc # "idle" => ~(run.state = "blocked" /\ run.executor = n)
  BY DEF BatchInv
<1>1. CASE FleetStamp(n)
  <2>1. work'[n].pc = "load" /\ work[n].pc = "stamp" /\ run' = run
    BY <1>0, <1>1 DEF FleetStamp, Go, Loop, runVars
  <2>2. QED  BY <1>a, <2>1
<1>2. CASE ChallengeRelease(n)
  <2>1. /\ work'[n].pc = "unleaseRest" /\ work'[n].sel = Stamped(n)'
        /\ work[n].pc = "unlease" /\ run' = run
    BY <1>0, <1>2 DEF ChallengeRelease, Stamped, Leased, Loop, runVars
  <2>2. QED  BY <1>a, <2>1
<1>3. CASE ChallengeReleaseRest(n)
  <2>1. work'[n].pc = "park" /\ work[n].pc = "unleaseRest" /\ run' = run
    BY <1>0, <1>3 DEF ChallengeReleaseRest, Loop, runVars
  <2>2. Stamped(n)' \subseteq Stamped(n) \ work[n].sel
    BY <1>3, PendingStampsNothing DEF ChallengeReleaseRest
  <2>3. QED  BY <1>a, <2>1, <2>2 DEF BatchInv
<1>4. CASE ChallengePark(n)
  <2>1. work[n].pc = "park" /\ task' = task
    BY <1>4 DEF ChallengePark
  <2>2. Stamped(n)' = {}
    BY <2>1 DEF BatchInv, Stamped, Leased
  <2>3. \/ work'[n].pc = "idle"
        \/ work'[n].pc = "next" /\ run' = run
    BY <1>0, <1>4, ExecutorAssumption DEF ChallengePark, ServerBlock, JobDone, Idle
  <2>4. QED  BY <1>a, <2>1, <2>2, <2>3
<1>5. CASE ~FleetStamp(n) /\ ~ChallengeRelease(n) /\ ~ChallengeReleaseRest(n) /\ ~ChallengePark(n)
  <2>1. Stamped(n)' \subseteq Stamped(n)
    BY <1>5, StampsAreOwn
  <2>2. /\ work'[n].pc \in {"unleaseRest", "park"} => work'[n] = work[n]
        /\ work[n].pc = "idle" => work'[n].pc = "idle" \/ run'.state = "running"
    BY <1>5, ChallengeRests
  <2>3. run'.state = "blocked" /\ run'.executor = n => run.state = "blocked" /\ run.executor = n
    BY <1>5, ParkedBefore
  <2>4. QED  BY <2>1, <2>2, <2>3 DEF BatchInv
<1>6. QED  BY <1>1, <1>2, <1>3, <1>4, <1>5

\* However many nodes, tasks and browsers there are, a node that parked the run after
\* a challenge holds no lease.
THEOREM ChallengeReleasesAlways == Spec => []ChallengeReleasesBatch
<1>1. Init => BatchInv
  <2> SUFFICES ASSUME Init PROVE BatchInv
    OBVIOUS
  <2>1. \A n \in Node : work[n].pc = "idle"
    BY DEF Init, Idle, Executor
  <2>2. run.state # "blocked"
    BY DEF Init, RunInit
  <2>3. QED  BY <2>1, <2>2 DEF BatchInv
<1>2. BatchInv => ChallengeReleasesBatch
  BY DEF BatchInv, ChallengeReleasesBatch, Stamped
<1>3. DispatchInv /\ BatchInv /\ [Next]_vars => BatchInv'
  BY BatchStep DEF DispatchInv, RunInv
<1>4. QED  BY DispatchInitInv, DispatchStepInv, <1>1, <1>2, <1>3, PTL DEF Spec

---------------------------------------------------------------------------
(* Who takes a step, and what it leaves of the others.                       *)

\* A request of a browser, a step of its apply loop, or one of a node.
Step(p) ==
    \/ p \in Browser /\ (UserNext(p) \/ ExtensionNext(p))
    \/ p \in Node /\ (FleetNext(p) \/ NodeDies(p))

\* Every step is somebody's, or time passes.
LEMMA Actors ==
    ASSUME [Next]_vars
    PROVE  (\E p \in Executor : Step(p)) \/ TimePasses \/ GatesChange \/ UNCHANGED vars
BY DEF Next, Step, Executor

\* What a node does besides what browsers do too.
NodeOnly(n) ==
    \/ FleetGate(n) \/ FleetMark(n) \/ FleetStamp(n) \/ FleetRespond(n)
    \/ \E j \in work[n].jobs : FleetHandBack(n, j)
    \/ LoseReport(n)
    \/ Challenge(n) \/ ChallengeRelease(n) \/ ChallengeReleaseRest(n) \/ ChallengePark(n)
    \/ FleetTickEnds(n) \/ NodeDies(n)

\* The kinds of steps.
LEMMA StepKinds ==
    ASSUME NEW p \in Executor, Step(p)
    PROVE  \/ p \in Executor /\ LoopNext(p)
           \/ p \in Browser /\ (UserNext(p) \/ ExtensionClaim(p) \/ ExtensionCheck(p))
           \/ p \in Node /\ NodeOnly(p)
BY DEF Step, ExtensionNext, FleetNext, NodeOnly

\* A request of a browser moves its apply loop only by closing it.
LEMMA RequestsKeepWork ==
    ASSUME NEW b \in Browser, UserNext(b), ~BrowserCloses(b)
    PROVE  work' = work
BY DEF UserNext, UserStartRead, UserStart, UserPause, ReleaseRead, ReleaseWrite, ReleaseSweep, UserReset,
       UserBlock, UserOther, RequestDies, queueVars

\* A step leaves the loops, and the ticks and calls, of all others alone.
LEMMA OthersStay ==
    ASSUME TypeOK, LoopInv, NEW p \in Executor, Step(p), NEW q \in Executor, q # p
    PROVE  /\ work'[q] = work[q]
           /\ q \in Node => call'[q] = call[q] /\ tickAge'[q] = tickAge[q]
<1>0. work \in [Executor -> Loop] /\ call \in [Executor -> CallState] /\ tickAge \in [Node -> 0..TickMax]
  BY DEF TypeOK, LoopInv, QueueTypeOK
<1>1. work'[q] = work[q]
  <2>1. CASE LoopNext(p)
    BY <1>0, <2>1 DEF LoopNext, ClaimSweep, ClaimSelect, ClaimLease, TakeJob, Submit, Report, SaveApplication, FinishTask,
                      DropWork, Go
  <2>2. CASE p \in Browser /\ UserNext(p)
    <3>1. CASE BrowserCloses(p)
      BY <1>0, <3>1 DEF BrowserCloses, DropWork
    <3>2. QED  BY <2>2, <3>1, RequestsKeepWork
  <2>3. CASE ExtensionClaim(p) \/ ExtensionCheck(p)
    BY <1>0, <2>3 DEF ExtensionClaim, ExtensionCheck, Go
  <2>4. CASE NodeOnly(p)
    BY <1>0, <2>4 DEF NodeOnly, FleetGate, FleetMark, FleetStamp, FleetRespond, FleetHandBack,
           LoseReport, Challenge, ChallengeRelease, ChallengeReleaseRest, ChallengePark, FleetTickEnds,
           NodeDies, DropWork, Go
  <2>5. QED  BY <2>1, <2>2, <2>3, <2>4, StepKinds
<1>2. call' = call \/ \E c : call' = [call EXCEPT ![p] = c]
  <2>1. CASE LoopNext(p) \/ ExtensionClaim(p) \/ ExtensionCheck(p)
    BY <2>1 DEF LoopNext, ClaimSweep, ClaimSelect, ClaimLease, TakeJob, Submit, Report, SaveApplication, FinishTask,
                ExtensionClaim, ExtensionCheck, runVars
  <2>2. CASE UserNext(p)
    BY <2>2 DEF UserNext, UserStartRead, UserStart, UserPause, ReleaseRead, ReleaseWrite, ReleaseSweep,
           UserReset, UserBlock, UserOther, RequestDies, BrowserCloses, runVars, StartRead, StartUpsert, Pause,
           Heartbeat, Progress, Complete, BlockAssert, BlockUpdate, ResetClaimsRun, CloseBrowser,
           OpenBrowser, CallDies, Goto
  <2>3. CASE NodeOnly(p)
    BY <2>3 DEF NodeOnly, FleetGate, FleetMark, FleetStamp, FleetRespond, FleetHandBack, LoseReport,
           Challenge, ChallengeRelease, ChallengeReleaseRest, ChallengePark, FleetTickEnds, NodeDies,
           runVars, ServerGate, ServerUpsert, ServerBlock, ServerDone, CallDies, Goto
  <2>4. QED  BY <2>1, <2>2, <2>3, StepKinds
<1>3. tickAge' = tickAge \/ \E a : tickAge' = [tickAge EXCEPT ![p] = a]
  <2>1. CASE LoopNext(p) \/ ExtensionClaim(p) \/ ExtensionCheck(p)
    BY <2>1 DEF LoopNext, ClaimSweep, ClaimSelect, ClaimLease, TakeJob, Submit, Report, SaveApplication, FinishTask,
                ExtensionClaim, ExtensionCheck
  <2>2. CASE UserNext(p)
    BY <2>2 DEF UserNext, UserStartRead, UserStart, UserPause, ReleaseRead, ReleaseWrite, ReleaseSweep,
           UserReset, UserBlock, UserOther, RequestDies, BrowserCloses, queueVars
  <2>3. CASE NodeOnly(p)
    BY <2>3 DEF NodeOnly, FleetGate, FleetMark, FleetStamp, FleetRespond, FleetHandBack, LoseReport,
           Challenge, ChallengeRelease, ChallengeReleaseRest, ChallengePark, FleetTickEnds, NodeDies
  <2>4. QED  BY <2>1, <2>2, <2>3, StepKinds
<1>4. QED  BY <1>0, <1>1, <1>2, <1>3

---------------------------------------------------------------------------
(* The shape of an apply loop.                                               *)

\* A claim gives a loop its jobs, one of them at a time is current, and a challenge did
\* not reach the board.
LoopShape(w) ==
    /\ w.pc \in {"idle", "sweep", "select", "lease"} => w.jobs = {}
    /\ w.pc \in {"idle", "sweep", "select", "lease", "stamp", "load", "next"} => w.cur = NoOne
    /\ w.cur \notin w.jobs
    /\ w.pc = "report" /\ w.res.status = "challenge" => ~w.res.reached

\* A node's loop runs within its tick.
ShapeInv ==
    /\ \A p \in Executor : LoopShape(work[p])
    /\ \A n \in Node : work[n].pc # "idle" => call[n] = "server"

\* A step of a loop that browsers have too keeps its shape.
LEMMA SharedShape ==
    ASSUME LoopInv, NEW p \in Executor, LoopShape(work[p]), LoopNext(p)
    PROVE  LoopShape(work'[p]) /\ (work'[p].pc # "idle" => work[p].pc # "idle")
<1>0. work \in [Executor -> Loop] /\ work[p] \in Loop /\ NoOne \notin Task
  BY DispatchAssumption DEF LoopInv, QueueTypeOK
<1>0a. CASE ClaimSweep(p)
  BY <1>0, <1>0a DEF ClaimSweep, Go, LoopShape, Loop
<1>1. CASE ClaimSelect(p)
  <2>1. PICK sel : work' = [work EXCEPT ![p].sel = sel,
                                        ![p].pc = IF sel # {} THEN "lease"
                                                  ELSE IF p \in Browser THEN "idle" ELSE "next"]
    BY <1>1 DEF ClaimSelect
  <2>2. /\ work'[p].jobs = work[p].jobs /\ work'[p].cur = work[p].cur
        /\ work'[p].pc \in {"lease", "idle", "next"}
    BY <1>0, <2>1 DEF Loop
  <2>3. QED  BY <1>0, <1>1, <2>2 DEF ClaimSelect, LoopShape
<1>2. CASE ClaimLease(p)
  BY <1>0, <1>2 DEF ClaimLease, LoopShape, Loop
<1>3. ASSUME NEW j \in work[p].jobs, TakeJob(p, j)
      PROVE  LoopShape(work'[p]) /\ (work'[p].pc # "idle" => work[p].pc # "idle")
  BY <1>0, <1>3 DEF TakeJob, LoopShape, Loop
<1>4. ASSUME NEW r \in Outcomes, Submit(p, r)
      PROVE  LoopShape(work'[p]) /\ (work'[p].pc # "idle" => work[p].pc # "idle")
  BY <1>0, <1>4 DEF Submit, BoardOutcome, LoopShape, Loop
<1>5. CASE Report(p)
  BY <1>0, <1>5 DEF Report, DropWork, Idle, Go, LoopShape, Loop
<1>6. CASE SaveApplication(p) \/ FinishTask(p)
  BY <1>0, <1>6 DEF SaveApplication, FinishTask, JobDone, Idle, Go, LoopShape, Loop
<1>7. QED  BY <1>0a, <1>1, <1>2, <1>3, <1>4, <1>5, <1>6 DEF LoopNext

\* A step that only nodes take keeps it, within the tick.
LEMMA NodeShape ==
    ASSUME TypeOK, LoopInv, NEW n \in Node, LoopShape(work[n]), NodeOnly(n),
           work[n].pc # "idle" => call[n] = "server"
    PROVE  LoopShape(work'[n]) /\ (work'[n].pc # "idle" => call'[n] = "server")
<1>0. /\ work \in [Executor -> Loop] /\ n \in Executor /\ work[n] \in Loop
      /\ call \in [Executor -> CallState] /\ n \notin Browser /\ NoOne \notin Task
  BY DispatchAssumption, ExecutorAssumption DEF TypeOK, LoopInv, QueueTypeOK, Executor
<1>1. CASE FleetGate(n)
  BY <1>0, <1>1 DEF FleetGate, ServerGate, Goto, LoopShape, Loop
<1>2. CASE FleetMark(n)
  BY <1>0, <1>2 DEF FleetMark, ServerUpsert, Goto, Go, LoopShape, Loop
<1>3. CASE FleetStamp(n) \/ FleetRespond(n)
  BY <1>0, <1>3 DEF FleetStamp, FleetRespond, Go, runVars, LoopShape, Loop
<1>4. ASSUME NEW j \in work[n].jobs, FleetHandBack(n, j)
      PROVE  LoopShape(work'[n]) /\ (work'[n].pc # "idle" => call'[n] = "server")
  BY <1>0, <1>4 DEF FleetHandBack, runVars, LoopShape, Loop
<1>5. CASE LoseReport(n)
  BY <1>0, <1>5 DEF LoseReport, JobDone, runVars, LoopShape, Loop
<1>6. CASE Challenge(n) \/ ChallengeRelease(n) \/ ChallengeReleaseRest(n)
  BY <1>0, <1>6 DEF Challenge, ChallengeRelease, ChallengeReleaseRest, JobDone, runVars, LoopShape, Loop
<1>7. CASE ChallengePark(n)
  BY <1>0, <1>7 DEF ChallengePark, ServerBlock, Goto, JobDone, Idle, LoopShape, Loop
<1>8. CASE FleetTickEnds(n)
  BY <1>0, <1>8 DEF FleetTickEnds, Idle, LoopShape, Loop
<1>9. CASE NodeDies(n)
  BY <1>0, <1>9 DEF NodeDies, DropWork, Idle, LoopShape, Loop
<1>10. QED
  BY <1>1, <1>2, <1>3, <1>4, <1>5, <1>6, <1>7, <1>8, <1>9 DEF NodeOnly

\* Every step keeps the shapes.
LEMMA ShapeInvStep == TypeOK /\ LoopInv /\ ShapeInv /\ [Next]_vars => ShapeInv'
<1> SUFFICES ASSUME TypeOK, LoopInv, ShapeInv, [Next]_vars PROVE ShapeInv'  OBVIOUS
<1>1. ASSUME NEW p \in Executor, Step(p) PROVE ShapeInv'
  <2>0. work \in [Executor -> Loop] /\ work[p] \in Loop /\ NoOne \notin Task /\ LoopShape(work[p])
    BY DispatchAssumption DEF LoopInv, QueueTypeOK, ShapeInv
  <2>1. LoopShape(work'[p]) /\ ((p \in Node /\ work'[p].pc # "idle") => call'[p] = "server")
    <3>1. CASE LoopNext(p)
      <4>1. call' = call
        BY <3>1 DEF LoopNext, ClaimSweep, ClaimSelect, ClaimLease, TakeJob, Submit, Report, SaveApplication, FinishTask,
                    runVars
      <4>2. QED  BY <2>0, <3>1, <4>1, SharedShape DEF ShapeInv
    <3>2. CASE p \in Browser /\ UserNext(p)
      <4>1. CASE BrowserCloses(p)
        BY <2>0, <3>2, <4>1, ExecutorAssumption DEF BrowserCloses, DropWork, Idle, LoopShape
      <4>2. CASE ~BrowserCloses(p)
        BY <2>0, <3>2, <4>2, RequestsKeepWork, ExecutorAssumption
      <4>3. QED  BY <4>1, <4>2
    <3>3. CASE p \in Browser /\ (ExtensionClaim(p) \/ ExtensionCheck(p))
      BY <2>0, <3>3, ExecutorAssumption
         DEF ExtensionClaim, ExtensionCheck, Go, NoResult, LoopShape, Loop
    <3>4. CASE p \in Node /\ NodeOnly(p)
      BY <2>0, <3>4, NodeShape DEF ShapeInv
    <3>5. QED  BY <1>1, <3>1, <3>2, <3>3, <3>4, StepKinds
  <2>2. QED  BY <1>1, <2>1, OthersStay DEF ShapeInv, Executor
<1>2. CASE TimePasses \/ GatesChange \/ UNCHANGED vars
  BY <1>2 DEF TimePasses, GatesChange, vars, runVars, queueVars, ShapeInv
<1>3. QED  BY <1>1, <1>2, Actors

---------------------------------------------------------------------------
(* Who holds what.                                                           *)

Gone(t) == task[t].status = "deleted"

\* The lease of a task is that of p and, if p is a node, no older than its tick.
LeasedFor(t, p) ==
    /\ Leased(t)
    /\ (task[t].by = NoOne \/ (p \in Node /\ task[t].by = p))
    /\ p \in Node => task[t].age <= tickAge[p]

\* An executor has the leases of what it holds (or the task is deleted), and nobody else
\* holds the same.
LeaseInv ==
    /\ \A p \in Executor : \A t \in Held(p) \ undercut : LeasedFor(t, p) \/ Gone(t)
    /\ \A p, q \in Executor : p # q => Held(p) \cap Held(q) \subseteq undercut

\* What is held are tasks.
LEMMA HeldAreTasks == ASSUME LoopInv, NEW p \in Executor PROVE Held(p) \subseteq Task
BY DEF LoopInv, QueueTypeOK, Held, Loop

\* The others hold what they held.
LEMMA OthersHold ==
    ASSUME TypeOK, LoopInv, NEW p \in Executor, Step(p), NEW q \in Executor, q # p
    PROVE  Held(q)' = Held(q)
BY OthersStay DEF Held

\* A step that gives nobody a task, but one that was taken away, and leaves the rows of those
\* who have some alone, or deletes them, keeps the leases.
LEMMA LeaseKept ==
    ASSUME TypeOK, LoopInv, LeaseInv, NEW p \in Executor, Step(p),
           undercut \subseteq undercut',
           Held(p)' \subseteq Held(p) \cup undercut',
           (p \in Node /\ Held(p)' # {}) => tickAge'[p] = tickAge[p],
           \A q \in Executor : \A t \in Held(q) \ undercut' :
               (q = p /\ t \notin Held(p)') \/ task'[t] = task[t] \/ Gone(t)'
    PROVE  LeaseInv'
<1>1. \A q \in Executor : Held(q)' \subseteq Held(q) \cup undercut'
  BY OthersHold
<1>2. \A q \in Executor : (q \in Node /\ Held(q)' # {}) => tickAge'[q] = tickAge[q]
  BY OthersStay
<1>3. ASSUME NEW q \in Executor, NEW t \in Held(q)' \ undercut'
      PROVE  LeasedFor(t, q)' \/ Gone(t)'
  <2>1. t \in Held(q) \ undercut
    BY <1>1, <1>3
  <2>2. task'[t] = task[t] \/ Gone(t)'
    BY <1>3, <2>1
  <2>3. LeasedFor(t, q) \/ Gone(t)
    BY <2>1 DEF LeaseInv
  <2>4. q \in Node => tickAge'[q] = tickAge[q]
    BY <1>2, <1>3
  <2>5. QED  BY <2>2, <2>3, <2>4 DEF LeasedFor, Leased, Gone
<1>4. QED  BY <1>1, <1>3 DEF LeaseInv

\* A release keeps them, as it says whom it took what from.
LEMMA ReleaseKeeps ==
    ASSUME TypeOK, LoopInv, LeaseInv, NEW p \in Executor, Step(p),
           NEW ids, task' = SetPending(ids), Undercuts(ids),
           Held(p)' \subseteq Held(p) \cup undercut', tickAge' = tickAge
    PROVE  LeaseInv'
<1>1. undercut' = undercut \cup TakenAway(ids)
  BY DEF Undercuts
<1>2. ASSUME NEW q \in Executor, NEW t \in Held(q) \ undercut' PROVE task'[t] = task[t]
  <2>1. t \notin ids
    BY <1>1, <1>2 DEF TakenAway
  <2>2. QED  BY <1>2, <2>1, HeldAreTasks DEF SetPending
<1>3. QED  BY <1>1, <1>2, LeaseKept

\* The sweep of node leases finds none that a running tick uses.
LEMMA SweepSparesTicks ==
    ASSUME LoopInv, LeaseInv, NEW p \in Executor, NEW t \in Held(p) \ undercut
    PROVE  t \notin StaleFleetLeases
<1>1. t \in Task
  BY HeldAreTasks
<1>2. task[t].age \in Nat
  BY <1>1, DispatchAssumption DEF LoopInv, QueueTypeOK, TaskRow, MaxAge
<1>3. LeasedFor(t, p) \/ Gone(t)
  BY DEF LeaseInv
<1>4. CASE p \in Node /\ LeasedFor(t, p)
  <2>1. task[t].age <= tickAge[p] /\ tickAge[p] \in 0..TickMax
    BY <1>4 DEF LeasedFor, LoopInv, QueueTypeOK
  <2>2. QED  BY <1>2, <2>1, DispatchAssumption, TickFitsLease DEF StaleFleetLeases
<1>5. QED
  BY <1>3, <1>4 DEF LeasedFor, Gone, Leased, StaleFleetLeases, LeasedToServer

---------------------------------------------------------------------------
(* Claiming keeps the leases.                                                *)

LEMMA SweepKeepsLeases ==
    ASSUME TypeOK, LoopInv, ShapeInv, LeaseInv, NEW p \in Executor, Step(p), ClaimSweep(p)
    PROVE  LeaseInv'
<1>0. work \in [Executor -> Loop] /\ work[p] \in Loop /\ LoopShape(work[p])
  BY DEF LoopInv, QueueTypeOK, ShapeInv
<1>1. Held(p)' = {} /\ tickAge' = tickAge
  BY <1>0 DEF ClaimSweep, Go, LoopShape, Held, Loop
<1>2. CASE p \in Browser
  BY <1>1, <1>2, ReleaseKeeps DEF ClaimSweep
<1>3. CASE p \notin Browser
  <2>1. task' = SetPending(StaleFleetLeases) /\ undercut' = undercut
    BY <1>3 DEF ClaimSweep
  <2>2. ASSUME NEW q \in Executor, NEW t \in Held(q) \ undercut' PROVE task'[t] = task[t]
    BY <2>1, <2>2, SweepSparesTicks, HeldAreTasks DEF SetPending
  <2>3. QED  BY <1>1, <2>1, <2>2, LeaseKept
<1>4. QED  BY <1>2, <1>3

LEMMA LeaseKeepsLeases ==
    ASSUME TypeOK, LoopInv, ShapeInv, LeaseInv, NEW p \in Executor, Step(p), ClaimLease(p)
    PROVE  LeaseInv'
<1>0. /\ work \in [Executor -> Loop] /\ work[p] \in Loop /\ task \in [Task -> TaskRow]
      /\ LoopShape(work[p]) /\ tickAge \in [Node -> 0..TickMax]
  BY DEF LoopInv, QueueTypeOK, ShapeInv
<1> DEFINE got == {t \in work[p].sel : LeaseWins(t) /\ grants[t] < MaxGrants[t]}
<1>1. /\ task' = [t \in Task |-> IF t \in got THEN Fresh("leased", NoOne) ELSE task[t]]
      /\ undercut' = undercut /\ tickAge' = tickAge
  BY DEF ClaimLease
<1>2. got \subseteq Task /\ \A t \in got : task[t].status = "pending"
  BY <1>0 DEF LeaseWins, Loop
<1>3. Held(p)' = got
  BY <1>0 DEF ClaimLease, LoopShape, Held, Loop
<1> HIDE DEF got
<1>4. \A q \in Executor \ {p} : Held(q)' = Held(q)
  BY OthersHold
<1>5. \A q \in Executor : Held(q) \cap got \subseteq undercut
  BY <1>2 DEF LeaseInv, LeasedFor, Leased, Gone
<1>6. \A t \in got : LeasedFor(t, p)'
  BY <1>0, <1>1, <1>2 DEF LeasedFor, Leased, Fresh
<1>7. ASSUME NEW q \in Executor \ {p}, NEW t \in Held(q) \ undercut PROVE LeasedFor(t, q)' \/ Gone(t)'
  <2>1. t \in Task /\ t \notin got /\ (LeasedFor(t, q) \/ Gone(t))
    BY <1>5, <1>7, HeldAreTasks DEF LeaseInv
  <2>2. task'[t] = task[t]
    BY <1>1, <2>1
  <2>3. QED  BY <1>1, <2>1, <2>2 DEF LeasedFor, Leased, Gone
<1>8. QED  BY <1>1, <1>3, <1>4, <1>5, <1>6, <1>7 DEF LeaseInv

LEMMA StampKeepsLeases ==
    ASSUME TypeOK, LoopInv, ShapeInv, LeaseInv, NEW n \in Node, Step(n), FleetStamp(n)
    PROVE  LeaseInv'
<1>0. /\ work \in [Executor -> Loop] /\ n \in Executor /\ work[n] \in Loop /\ task \in [Task -> TaskRow]
      /\ LoopShape(work[n])
  BY DEF LoopInv, QueueTypeOK, ShapeInv, Executor
<1>1. /\ task' = [t \in Task |-> IF t \in work[n].jobs /\ Leased(t)
                                 THEN [task[t] EXCEPT !.by = n] ELSE task[t]]
      /\ undercut' = undercut /\ tickAge' = tickAge
  BY DEF FleetStamp
<1>2. Held(n)' = work[n].jobs /\ Held(n) = work[n].jobs
  BY <1>0 DEF FleetStamp, Go, LoopShape, Held, Loop
<1>3. \A q \in Executor \ {n} : Held(q)' = Held(q)
  BY <1>0, OthersHold
<1>4. ASSUME NEW t \in work[n].jobs \ undercut PROVE LeasedFor(t, n)' \/ Gone(t)'
  <2>1. (LeasedFor(t, n) \/ Gone(t)) /\ t \in Task
    BY <1>0, <1>2, <1>4 DEF LeaseInv, Loop
  <2>2. CASE Gone(t)
    BY <1>1, <2>1, <2>2 DEF Gone, Leased
  <2>3. CASE LeasedFor(t, n)
    <3>1. task'[t] = [task[t] EXCEPT !.by = n] /\ task[t] \in TaskRow
      BY <1>0, <1>1, <1>4, <2>1, <2>3 DEF LeasedFor
    <3>2. QED  BY <1>1, <2>3, <3>1 DEF LeasedFor, Leased, TaskRow
  <2>4. QED  BY <2>1, <2>2, <2>3
<1>5. ASSUME NEW q \in Executor \ {n}, NEW t \in Held(q) \ undercut PROVE LeasedFor(t, q)' \/ Gone(t)'
  <2>1. (LeasedFor(t, q) \/ Gone(t)) /\ t \notin work[n].jobs /\ t \in Task
    BY <1>0, <1>2, <1>5, HeldAreTasks DEF LeaseInv
  <2>2. task'[t] = task[t]
    BY <1>1, <2>1
  <2>3. QED  BY <1>1, <2>1, <2>2 DEF LeasedFor, Leased, Gone
<1>6. QED  BY <1>0, <1>1, <1>2, <1>3, <1>4, <1>5 DEF LeaseInv

---------------------------------------------------------------------------
(* Everybody else keeps the leases too.                                      *)

\* What was lost or taken away stays so.
LEMMA HistoriesGrow ==
    ASSUME [Next]_vars
    PROVE  undercut \subseteq undercut' /\ lost \subseteq lost'
<1>1. ASSUME NEW p \in Executor, Step(p) PROVE undercut \subseteq undercut' /\ lost \subseteq lost'
  <2>1. CASE LoopNext(p)
    BY <2>1 DEF LoopNext, ClaimSweep, ClaimSelect, ClaimLease, TakeJob, Submit, Report, SaveApplication, FinishTask,
                DropWork, Undercuts
  <2>2. CASE UserNext(p) \/ ExtensionClaim(p) \/ ExtensionCheck(p)
    BY <2>2 DEF UserNext, UserStartRead, UserStart, UserPause, ReleaseRead, ReleaseWrite, ReleaseSweep,
                UserReset, UserBlock, UserOther, RequestDies, BrowserCloses, DropWork, Undercuts, queueVars,
                ExtensionClaim, ExtensionCheck
  <2>3. CASE NodeOnly(p)
    BY <2>3 DEF NodeOnly, FleetGate, FleetMark, FleetStamp, FleetRespond, FleetHandBack, LoseReport,
                Challenge, ChallengeRelease, ChallengeReleaseRest, ChallengePark, FleetTickEnds, NodeDies,
                DropWork, Undercuts
  <2>4. QED  BY <1>1, <2>1, <2>2, <2>3, StepKinds
<1>2. CASE TimePasses \/ GatesChange \/ UNCHANGED vars
  BY <1>2 DEF TimePasses, GatesChange, vars, queueVars
<1>3. QED  BY <1>1, <1>2, Actors

\* Only a claim gives an executor a task, or a challenge that failed gives a node its old
\* batch back.
LEMMA HeldStep ==
    ASSUME TypeOK, LoopInv, ShapeInv, NEW p \in Executor, Step(p), ~ClaimLease(p)
    PROVE  /\ Held(p)' \subseteq Held(p) \cup undercut'
           /\ (p \in Node /\ Held(p)' # {}) => tickAge'[p] = tickAge[p]
<1>0. /\ work \in [Executor -> Loop] /\ work[p] \in Loop /\ LoopShape(work[p]) /\ NoOne \notin Task
      /\ p \in Node => p \notin Browser
  BY DispatchAssumption, ExecutorAssumption DEF LoopInv, QueueTypeOK, ShapeInv
<1>1. CASE LoopNext(p)
  <2>1. tickAge' = tickAge
    BY <1>1 DEF LoopNext, ClaimSweep, ClaimSelect, ClaimLease, TakeJob, Submit, Report, SaveApplication, FinishTask
  <2>a. CASE ClaimSweep(p)
    BY <1>0, <2>1, <2>a DEF ClaimSweep, Go, Held, Loop
  <2>2. CASE ClaimSelect(p)
    <3>1. PICK sel : work' = [work EXCEPT ![p].sel = sel,
                                          ![p].pc = IF sel # {} THEN "lease"
                                                    ELSE IF p \in Browser THEN "idle" ELSE "next"]
      BY <2>2 DEF ClaimSelect
    <3>2. /\ work'[p].jobs = work[p].jobs /\ work'[p].cur = work[p].cur
          /\ work'[p].pc \in {"lease", "idle", "next"}
      BY <1>0, <3>1 DEF Loop
    <3>3. QED  BY <1>0, <2>1, <2>2, <3>2 DEF ClaimSelect, LoopShape, Held
  <2>3. ASSUME NEW j \in work[p].jobs, TakeJob(p, j) PROVE Held(p)' \subseteq Held(p)
    BY <1>0, <2>3 DEF TakeJob, Held, Loop
  <2>4. ASSUME NEW r \in Outcomes, Submit(p, r) PROVE Held(p)' \subseteq Held(p)
    BY <1>0, <2>4 DEF Submit, Held, Loop
  <2>5. CASE Report(p)
    BY <1>0, <2>5 DEF Report, DropWork, Idle, Go, Held, Loop
  <2>6. CASE SaveApplication(p) \/ FinishTask(p)
    BY <1>0, <2>6 DEF SaveApplication, FinishTask, JobDone, Idle, Go, Held, Loop
  <2>7. QED  BY <1>1, <2>1, <2>a, <2>2, <2>3, <2>4, <2>5, <2>6 DEF LoopNext
<1>2. CASE p \in Browser /\ UserNext(p)
  <2>1. CASE BrowserCloses(p)
    BY <1>0, <1>2, <2>1 DEF BrowserCloses, DropWork, Idle, Held
  <2>2. CASE ~BrowserCloses(p)
    <3>1. work' = work
      BY <1>2, <2>2, RequestsKeepWork
    <3>2. QED  BY <1>0, <1>2, <3>1 DEF Held
  <2>3. QED  BY <2>1, <2>2
<1>3. CASE p \in Browser /\ (ExtensionClaim(p) \/ ExtensionCheck(p))
  BY <1>0, <1>3 DEF ExtensionClaim, ExtensionCheck, Go, LoopShape, Held, Loop
<1>4. CASE p \in Node /\ NodeOnly(p)
  <2>0. call \in [Executor -> CallState] /\ (work[p].pc # "idle" => call[p] = "server")
    BY <1>4 DEF TypeOK, ShapeInv
  <2>1. CASE FleetGate(p)
    <3>1. work' = work /\ work[p].pc = "idle"
      BY <1>0, <2>0, <2>1 DEF FleetGate, ServerGate
    <3>2. QED  BY <1>0, <3>1 DEF LoopShape, Held
  <2>a. CASE ~FleetGate(p)
    <3>1. tickAge' = tickAge
      BY <1>4, <2>a DEF NodeOnly, FleetMark, FleetStamp, FleetRespond, FleetHandBack, LoseReport, Challenge,
             ChallengeRelease, ChallengeReleaseRest, ChallengePark, FleetTickEnds, NodeDies
    <3>2. CASE FleetMark(p)
      <4>1. work[p].pc = "idle"
        BY <2>0, <3>2 DEF FleetMark, ServerUpsert
      <4>2. QED  BY <1>0, <3>1, <3>2, <4>1 DEF FleetMark, Go, LoopShape, Held, Loop
    <3>3. CASE FleetStamp(p) \/ FleetRespond(p)
      BY <1>0, <3>1, <3>3 DEF FleetStamp, FleetRespond, Go, Held, Loop
    <3>4. ASSUME NEW j \in work[p].jobs, FleetHandBack(p, j) PROVE Held(p)' \subseteq Held(p)
      BY <1>0, <3>4 DEF FleetHandBack, Held, Loop
    <3>5. CASE LoseReport(p)
      BY <1>0, <1>4, <3>1, <3>5 DEF LoseReport, JobDone, Held, Loop
    <3>6. CASE Challenge(p) \/ ChallengeRelease(p) \/ ChallengeReleaseRest(p)
      <4>1. CASE Challenge(p)
        <5>1. work'[p] = [work[p] EXCEPT !.pc = "unlease"] \/ work'[p] = JobDone(p)
          BY <1>0, <4>1 DEF Challenge
        <5>2. QED  BY <1>0, <1>4, <3>1, <4>1, <5>1 DEF Challenge, JobDone, Held, Loop
      <4>2. CASE ChallengeRelease(p) \/ ChallengeReleaseRest(p)
        BY <1>0, <3>1, <4>2 DEF ChallengeRelease, ChallengeReleaseRest, Held, Loop
      <4>3. QED  BY <3>6, <4>1, <4>2
    <3>7. CASE ChallengePark(p)
      <4>1. \/ work'[p] = Idle
            \/ work'[p] = JobDone(p) /\ undercut' = undercut \cup work[p].jobs
        BY <1>0, <3>7 DEF ChallengePark
      <4>2. QED  BY <1>0, <1>4, <3>1, <4>1 DEF JobDone, Idle, Held, Loop
    <3>8. CASE FleetTickEnds(p) \/ NodeDies(p)
      BY <1>0, <3>1, <3>8 DEF FleetTickEnds, NodeDies, DropWork, Idle, Held
    <3>9. QED
      BY <1>4, <2>a, <3>1, <3>2, <3>3, <3>4, <3>5, <3>6, <3>7, <3>8 DEF NodeOnly
  <2>b. QED  BY <2>1, <2>a
<1>5. QED  BY <1>1, <1>2, <1>3, <1>4, StepKinds

\* Who writes the rows of tasks.
LEMMA RowWriters ==
    ASSUME NEW p \in Executor, Step(p), task' # task
    PROVE  \/ ClaimSweep(p) \/ ClaimLease(p) \/ (p \in Node /\ FleetStamp(p))
           \/ p \in Node /\ \E j \in work[p].jobs : FleetHandBack(p, j)
           \/ FinishTask(p)
           \/ p \in Browser /\ (ReleaseWrite(p) \/ ReleaseSweep(p) \/ UserReset(p))
           \/ p \in Node /\ (ChallengeRelease(p) \/ ChallengeReleaseRest(p))
<1>1. CASE LoopNext(p)
  BY <1>1 DEF LoopNext, ClaimSelect, TakeJob, Submit, Report, SaveApplication
<1>2. CASE p \in Browser /\ (UserNext(p) \/ ExtensionClaim(p) \/ ExtensionCheck(p))
  BY <1>2 DEF UserNext, UserStartRead, UserStart, UserPause, ReleaseRead, UserBlock, UserOther, RequestDies,
              BrowserCloses, queueVars, ExtensionClaim, ExtensionCheck
<1>3. CASE p \in Node /\ NodeOnly(p)
  BY <1>3 DEF NodeOnly, FleetGate, FleetMark, FleetRespond, LoseReport, Challenge, ChallengePark,
              FleetTickEnds, NodeDies
<1>4. QED  BY <1>1, <1>2, <1>3, StepKinds

\* A row that p holds and then no more may change.
LEMMA OwnRowKeeps ==
    ASSUME TypeOK, LoopInv, ShapeInv, LeaseInv, NEW p \in Executor, Step(p), ~ClaimLease(p),
           NEW u \in Held(p), u \notin Held(p)',
           undercut \subseteq undercut', \A t \in Task \ {u} : task'[t] = task[t]
    PROVE  LeaseInv'
<1>1. ASSUME NEW q \in Executor, NEW t \in Held(q) \ undercut', ~(q = p /\ t \notin Held(p)')
      PROVE  task'[t] = task[t]
  <2>1. t # u
    BY <1>1 DEF LeaseInv
  <2>2. QED  BY <1>1, <2>1, HeldAreTasks
<1>2. QED  BY <1>1, HeldStep, LeaseKept

\* Every step of an executor keeps the leases.
LEMMA LeaseStep ==
    ASSUME TypeOK, LoopInv, ShapeInv, LeaseInv, NEW p \in Executor, Step(p)
    PROVE  LeaseInv'
<1>0. /\ work \in [Executor -> Loop] /\ work[p] \in Loop /\ LoopShape(work[p]) /\ NoOne \notin Task
      /\ task \in [Task -> TaskRow] /\ undercut \subseteq undercut'
  <2>1. [Next]_vars
    BY DEF Step, Next
  <2>2. QED  BY <2>1, HistoriesGrow, DispatchAssumption DEF LoopInv, QueueTypeOK, ShapeInv
<1>1. CASE ClaimSweep(p) \/ ClaimLease(p) \/ (p \in Node /\ FleetStamp(p))
  BY <1>1, SweepKeepsLeases, LeaseKeepsLeases, StampKeepsLeases
<1>2. CASE task' = task /\ ~ClaimLease(p)
  BY <1>0, <1>2, HeldStep, LeaseKept
<1>3. ASSUME p \in Node, NEW j \in work[p].jobs, FleetHandBack(p, j), ~ClaimLease(p) PROVE LeaseInv'
  <2>1. j \in Held(p) /\ j \notin Held(p)'
    BY <1>0, <1>3 DEF FleetHandBack, LoopShape, Held, Loop
  <2>2. \A t \in Task \ {j} : task'[t] = task[t]
    BY <1>3 DEF FleetHandBack, SetPending
  <2>3. QED  BY <1>0, <1>3, <2>1, <2>2, OwnRowKeeps
<1>4. CASE FinishTask(p) /\ ~ClaimLease(p)
  <2> DEFINE u == work[p].cur
  <2>1. u \in Task
    BY <1>4 DEF FinishTask, LoopInv, WorksOnTask
  <2>2. u \in Held(p) /\ u \notin Held(p)'
    BY <1>0, <1>4, <2>1 DEF FinishTask, JobDone, Idle, LoopShape, Held, Loop
  <2>3. \A t \in Task \ {u} : task'[t] = task[t]
    BY <1>0, <1>4 DEF FinishTask
  <2>4. QED  BY <1>0, <1>4, <2>2, <2>3, OwnRowKeeps
<1>5. CASE p \in Browser /\ (ReleaseWrite(p) \/ ReleaseSweep(p)) /\ ~ClaimLease(p)
  <2>1. tickAge' = tickAge
    BY <1>5 DEF ReleaseWrite, ReleaseSweep
  <2>2. QED  BY <1>5, <2>1, HeldStep, ReleaseKeeps DEF ReleaseWrite, ReleaseSweep
<1>6. CASE p \in Browser /\ UserReset(p) /\ ~ClaimLease(p)
  <2>1. \A t \in Task : task'[t] = task[t] \/ task'[t].status = "deleted"
    BY <1>6 DEF UserReset, Fresh
  <2>2. QED  BY <1>0, <1>6, <2>1, HeldStep, HeldAreTasks, LeaseKept DEF Gone
<1>7. CASE p \in Node /\ (ChallengeRelease(p) \/ ChallengeReleaseRest(p)) /\ ~ClaimLease(p)
  <2>1. tickAge' = tickAge
    BY <1>7 DEF ChallengeRelease, ChallengeReleaseRest
  <2>2. QED  BY <1>7, <2>1, HeldStep, ReleaseKeeps DEF ChallengeRelease, ChallengeReleaseRest
<1>8. QED  BY <1>1, <1>2, <1>3, <1>4, <1>5, <1>6, <1>7, RowWriters

\* A tick ages with the leases it uses.
LEMMA TimeKeepsLeases ==
    ASSUME LoopInv, ShapeInv, LeaseInv, TimePasses
    PROVE  LeaseInv'
<1>0. task \in [Task -> TaskRow] /\ tickAge \in [Node -> 0..TickMax]
  BY DEF LoopInv, QueueTypeOK
<1>1. work' = work /\ undercut' = undercut
  BY DEF TimePasses
<1>2. ASSUME NEW p \in Executor, NEW t \in Held(p) \ undercut PROVE LeasedFor(t, p)' \/ Gone(t)'
  <2>1. t \in Task /\ (LeasedFor(t, p) \/ Gone(t))
    BY <1>2, HeldAreTasks DEF LeaseInv
  <2>2. task[t].age \in Nat /\ task[t] \in TaskRow
    BY <1>0, <2>1, DispatchAssumption DEF TaskRow, MaxAge
  <2>3. task'[t] = task[t] \/ task'[t] = [task[t] EXCEPT !.age = task[t].age + 1]
    BY <2>1 DEF TimePasses
  <2>4. task'[t].status = task[t].status /\ task'[t].by = task[t].by /\ task'[t].age <= task[t].age + 1
        /\ task'[t].age \in Nat
    BY <2>2, <2>3 DEF TaskRow
  <2>5. ASSUME p \in Node, LeasedFor(t, p) PROVE task'[t].age <= tickAge'[p]
    <3>1. work[p].pc # "idle"
      <4>1. LoopShape(work[p])
        BY DEF ShapeInv
      <4>2. QED  BY <1>2, <4>1 DEF LoopShape, Held
    <3>2. tickAge'[p] = tickAge[p] + 1
      BY <2>5, <3>1 DEF TimePasses, Ticking, ShapeInv
    <3>3. tickAge[p] \in Nat /\ task[t].age <= tickAge[p]
      BY <1>0, <2>5, DispatchAssumption DEF LeasedFor
    <3>4. QED  BY <2>2, <2>4, <3>2, <3>3
  <2>6. QED  BY <2>1, <2>4, <2>5 DEF LeasedFor, Leased, Gone
<1>3. QED  BY <1>1, <1>2 DEF LeaseInv, Held

\* Every step keeps the leases.
LEMMA LeaseInvStep == TypeOK /\ LoopInv /\ ShapeInv /\ LeaseInv /\ [Next]_vars => LeaseInv'
<1> SUFFICES ASSUME TypeOK, LoopInv, ShapeInv, LeaseInv, [Next]_vars PROVE LeaseInv'  OBVIOUS
<1>1. CASE GatesChange \/ UNCHANGED vars
  BY <1>1 DEF GatesChange, vars, queueVars, LeaseInv, LeasedFor, Leased, Gone, Held
<1>2. QED  BY <1>1, LeaseStep, TimeKeepsLeases, Actors

---------------------------------------------------------------------------
(* Where a submission and its result are.                                    *)

\* A result on its way to the tables.
CarriesResult(w, t) == w.pc \in Reporting /\ w.cur = t /\ w.res.reached
OnItsWay(t) == \E p \in Executor : CarriesResult(work[p], t)

\* A submission that reached the board is on its way, or there, or the user deleted the
\* task; it is the only one, and nobody else is going to apply for the task.
SentInv ==
    \A t \in Task \ (lost \cup undercut) :
        /\ sent[t] <= 1
        /\ sent[t] = 1 => Finished(t) \/ Gone(t) \/ OnItsWay(t)
        /\ \A p \in Executor : t \in Held(p) => sent[t] = 0 \/ CarriesResult(work[p], t)

\* The loops that are busy with one task.
AtWork == {"submit", "report", "save", "finish"}

\* A task somebody is busy with is leased, or deleted, so it has no result yet.
LEMMA BusyIsLeased ==
    ASSUME LoopInv, LeaseInv, NEW p \in Executor, work[p].pc \in AtWork
    PROVE  /\ work[p].cur \in Task /\ work[p].cur \in Held(p)
           /\ work[p].cur \notin undercut =>
                ~Finished(work[p].cur) /\ (Leased(work[p].cur) \/ Gone(work[p].cur))
<1>1. work[p].cur \in Task
  BY DEF LoopInv, WorksOnTask, AtWork
<1>2. work[p].cur \in Held(p)
  BY <1>1, DispatchAssumption DEF Held, AtWork
<1>3. QED  BY <1>1, <1>2 DEF LeaseInv, LeasedFor, Leased, Gone, Finished

\* Two loops busy with one task: it was taken away from one of them.
LEMMA BusyAlone ==
    ASSUME LoopInv, LeaseInv, NEW p \in Executor, NEW q \in Executor, p # q,
           work[p].pc \in AtWork, work[q].pc \in AtWork, work[p].cur = work[q].cur
    PROVE  work[p].cur \in undercut
BY BusyIsLeased DEF LeaseInv

\* Only the second write of a result finishes a task, and only the user's reset, or a
\* release that says so, undoes it.
LEMMA StatusStep ==
    ASSUME LoopInv, LeaseInv, [Next]_vars, NEW t \in Task \ undercut',
           \A p \in Executor : ~(FinishTask(p) /\ work[p].cur = t)
    PROVE  /\ Finished(t) => task'[t].status = task[t].status \/ Gone(t)'
           /\ Finished(t)' => task'[t].status = task[t].status
           /\ Gone(t) => Gone(t)'
<1> DEFINE Same == task'[t].status = task[t].status
           Swept == ~Finished(t) /\ ~Gone(t) /\ ~Finished(t)'
<1> SUFFICES Same \/ Gone(t)' \/ Swept  BY DEF Finished, Gone
<1>a. ASSUME NEW ids, task' = SetPending(ids), t \in ids => ~Finished(t) PROVE Same \/ Swept
  <2>1. task'[t] = task[t] \/ (t \in ids /\ ~Gone(t) /\ task'[t] = Fresh("pending", NoOne))
    BY <1>a DEF SetPending, Gone
  <2>2. QED  BY <1>a, <2>1 DEF Finished, Fresh
<1>b. ASSUME NEW ids, task' = SetPending(ids), Undercuts(ids) PROVE Same \/ Swept
  <2>1. t \in ids => ~Finished(t)
    BY <1>b DEF Undercuts, TakenAway
  <2>2. QED  BY <1>a, <1>b, <2>1
<1>1. ASSUME NEW p \in Executor, Step(p) PROVE Same \/ Gone(t)' \/ Swept
  <2>0. work[p] \in Loop /\ task \in [Task -> TaskRow]
    BY DEF LoopInv, QueueTypeOK
  <2>1. CASE ClaimSweep(p)
    <3>1. /\ t \in StaleExtensionLeases => ~Finished(t)
          /\ t \in StaleFleetLeases => ~Finished(t)
      BY DEF StaleExtensionLeases, LeasedToExtension, StaleFleetLeases, LeasedToServer, Leased, Finished
    <3>2. task' = SetPending(StaleExtensionLeases) \/ task' = SetPending(StaleFleetLeases)
      BY <2>1 DEF ClaimSweep
    <3>3. QED  BY <1>a, <3>1, <3>2
  <2>2. CASE ClaimLease(p)
    BY <2>0, <2>2 DEF ClaimLease, LeaseWins, Fresh, Finished, Gone
  <2>3. CASE FleetStamp(p)
    BY <2>0, <2>3 DEF FleetStamp, TaskRow
  <2>4. ASSUME NEW j \in work[p].jobs, FleetHandBack(p, j) PROVE Same \/ Swept
    BY <1>a, <2>4 DEF FleetHandBack, Leased, Finished
  <2>5. CASE FinishTask(p)
    BY <2>0, <2>5 DEF FinishTask
  <2>6. CASE ReleaseWrite(p) \/ ReleaseSweep(p)
    BY <1>b, <2>6 DEF ReleaseWrite, ReleaseSweep
  <2>7. CASE UserReset(p)
    BY <2>7 DEF UserReset, Fresh, Gone
  <2>8. CASE ChallengeRelease(p) \/ ChallengeReleaseRest(p)
    BY <1>b, <2>8 DEF ChallengeRelease, ChallengeReleaseRest
  <2>9. QED
    BY <1>1, <2>1, <2>2, <2>3, <2>4, <2>5, <2>6, <2>7, <2>8, RowWriters
<1>2. CASE TimePasses
  BY <1>2 DEF TimePasses, LoopInv, QueueTypeOK, TaskRow
<1>3. CASE GatesChange \/ UNCHANGED vars
  BY <1>3 DEF GatesChange, vars, queueVars
<1>4. QED  BY <1>1, <1>2, <1>3, Actors

\* An executor that has a result to report goes on reporting it, finishes, or loses it.
LEMMA ReportStep ==
    ASSUME LoopInv, ShapeInv, NEW p \in Executor, Step(p),
           NEW t \in Task, t \notin lost', CarriesResult(work[p], t)
    PROVE  CarriesResult(work'[p], t) \/ ((Finished(t)' \/ Gone(t)') /\ t \notin Held(p)')
<1>0. /\ work \in [Executor -> Loop] /\ work[p] \in Loop /\ task \in [Task -> TaskRow]
      /\ LoopShape(work[p]) /\ (p \in Node => p \notin Browser)
  BY ExecutorAssumption DEF LoopInv, QueueTypeOK, ShapeInv
<1>1. work[p].pc \in {"report", "save", "finish"} /\ work[p].cur = t /\ work[p].res.reached
  BY DEF CarriesResult, Reporting
<1>2. CASE Report(p)
  <2>0. LosesResult(p) /\ work[p].res.status # "challenge"
    <3>1. work[p].pc = "report"
      BY <1>2 DEF Report
    <3>2. LosesResult(p)
      BY <1>1 DEF LosesResult
    <3>3. QED  BY <1>0, <1>1, <3>1, <3>2 DEF LoopShape
  <2>1. work' = [work EXCEPT ![p].pc = "save"]
    <3>1. ~DropWork(p)
      BY <1>1, <2>0 DEF DropWork
    <3>2. QED  BY <1>2, <2>0, <3>1 DEF Report, Go
  <2>2. QED  BY <1>0, <1>1, <2>1 DEF CarriesResult, Reporting, Loop
<1>3. CASE SaveApplication(p)
  <2>1. work' = [work EXCEPT ![p].pc = "finish"]
    BY <1>1, <1>3 DEF SaveApplication, LosesResult, Go
  <2>2. QED  BY <1>0, <1>1, <2>1 DEF CarriesResult, Reporting, Loop
<1>4. CASE FinishTask(p)
  <2>1. t \notin Held(p)'
    <3>1. work'[p] = Idle \/ work'[p] = [pc |-> "next", sel |-> {}, jobs |-> work[p].jobs,
                                         cur |-> NoOne, res |-> NoResult]
      BY <1>0, <1>4 DEF FinishTask, JobDone
    <3>2. Held(p)' \subseteq work[p].jobs
      <4>1. work'[p].jobs \subseteq work[p].jobs /\ work'[p].cur = NoOne
        BY <3>1 DEF Idle
      <4>2. QED  BY <4>1 DEF Held
    <3>3. QED  BY <1>0, <1>1, <3>2 DEF LoopShape
  <2>2. CASE Gone(t)
    BY <1>1, <1>4, <2>1, <2>2 DEF FinishTask, Gone
  <2>3. CASE ~Gone(t)
    <3>1. task'[t].status = TaskStatusFor(RecordedStatus(work[p].res))
      BY <1>0, <1>1, <1>4, <2>3 DEF FinishTask, TaskRow, Gone
    <3>2. QED  BY <2>1, <3>1 DEF Finished, TaskStatusFor
  <2>4. QED  BY <2>2, <2>3
<1>5. CASE p \in Browser /\ UserNext(p)
  <2>1. ~BrowserCloses(p)
    BY <1>1 DEF BrowserCloses, DropWork, LosesResult
  <2>2. QED  BY <1>5, <2>1, RequestsKeepWork
<1>6. CASE p \in Node /\ NodeOnly(p)
  <2>1. call[p] = "server"
    BY <1>1, <1>6 DEF ShapeInv
  <2>2. CASE LoseReport(p) \/ NodeDies(p)
    BY <1>1, <2>2 DEF LoseReport, NodeDies, DropWork, LosesResult
  <2>3. QED
    BY <1>1, <1>6, <2>1, <2>2
       DEF NodeOnly, FleetGate, ServerGate, FleetMark, ServerUpsert, FleetStamp, FleetRespond,
           FleetHandBack, Challenge, ChallengeRelease, ChallengeReleaseRest, ChallengePark, FleetTickEnds
<1>7. QED
  BY <1>1, <1>2, <1>3, <1>4, <1>5, <1>6, StepKinds
     DEF LoopNext, ClaimSweep, ClaimSelect, ClaimLease, TakeJob, Submit, ExtensionClaim, ExtensionCheck

\* Submissions are counted as they are made.
LEMMA SentStep ==
    ASSUME [Next]_vars, sent' # sent
    PROVE  \E p \in Executor : \E r \in Outcomes : Submit(p, r)
<1>1. ASSUME NEW p \in Executor, Step(p) PROVE \E r \in Outcomes : Submit(p, r)
  <2>1. CASE LoopNext(p)
    BY <2>1 DEF LoopNext, ClaimSweep, ClaimSelect, ClaimLease, TakeJob, Report, SaveApplication, FinishTask
  <2>2. CASE UserNext(p) \/ ExtensionClaim(p) \/ ExtensionCheck(p)
    BY <2>2 DEF UserNext, UserStartRead, UserStart, UserPause, ReleaseRead, ReleaseWrite, ReleaseSweep,
                UserReset, UserBlock, UserOther, RequestDies, BrowserCloses, queueVars, ExtensionClaim, ExtensionCheck
  <2>3. CASE NodeOnly(p)
    BY <2>3 DEF NodeOnly, FleetGate, FleetMark, FleetStamp, FleetRespond, FleetHandBack, LoseReport,
                Challenge, ChallengeRelease, ChallengeReleaseRest, ChallengePark, FleetTickEnds, NodeDies
  <2>4. QED  BY <1>1, <2>1, <2>2, <2>3, StepKinds
<1>2. QED  BY <1>1, Actors DEF TimePasses, GatesChange, vars, queueVars

\* Nobody forgets a submission that was not lost.
LEMMA SentKept ==
    ASSUME TypeOK, LoopInv, ShapeInv, LeaseInv, [Next]_vars,
           NEW t \in Task, t \notin lost' \cup undercut', Finished(t) \/ Gone(t) \/ OnItsWay(t)
    PROVE  Finished(t)' \/ Gone(t)' \/ OnItsWay(t)'
<1>0. t \notin undercut
  BY HistoriesGrow
<1>1. CASE Finished(t) \/ Gone(t)
  <2>1. CASE \A p \in Executor : ~(FinishTask(p) /\ work[p].cur = t)
    BY <1>1, <2>1, StatusStep DEF Finished
  <2>2. ASSUME NEW p \in Executor, FinishTask(p), work[p].cur = t PROVE Gone(t)'
    <3>1. Gone(t)
      BY <1>0, <1>1, <2>2, BusyIsLeased DEF FinishTask, AtWork
    <3>2. QED  BY <2>2, <3>1 DEF FinishTask, Gone
  <2>3. QED  BY <2>1, <2>2
<1>2. CASE OnItsWay(t)
  <2>1. PICK q \in Executor : CarriesResult(work[q], t)
    BY <1>2 DEF OnItsWay
  <2>2. ASSUME NEW p \in Executor, Step(p)
        PROVE  CarriesResult(work'[q], t) \/ Finished(t)' \/ Gone(t)'
    BY <2>1, <2>2, ReportStep, OthersStay
  <2>3. ASSUME TimePasses \/ GatesChange \/ UNCHANGED vars PROVE CarriesResult(work'[q], t)
    BY <2>1, <2>3 DEF TimePasses, GatesChange, vars, queueVars
  <2>4. CarriesResult(work'[q], t) \/ Finished(t)' \/ Gone(t)'
    BY <2>2, <2>3, Actors
  <2>5. QED  BY <2>4 DEF OnItsWay
<1>3. QED  BY <1>1, <1>2

\* Who holds a task has not applied for it, or reports it.
LEMMA HolderKept ==
    ASSUME TypeOK, LoopInv, ShapeInv, LeaseInv, SentInv, [Next]_vars,
           NEW t \in Task, t \notin lost' \cup undercut', NEW q \in Executor, t \in Held(q)',
           sent'[t] = sent[t]
    PROVE  sent[t] = 0 \/ CarriesResult(work'[q], t)
<1>0. /\ t \notin lost \cup undercut /\ sent[t] \in Nat
      /\ work \in [Executor -> Loop] /\ task \in [Task -> TaskRow]
  BY HistoriesGrow DEF LoopInv, QueueTypeOK
<1>1. CASE t \in Held(q)
  <2>1. sent[t] = 0 \/ CarriesResult(work[q], t)
    BY <1>0, <1>1 DEF SentInv
  <2>2. ASSUME NEW p \in Executor, Step(p), CarriesResult(work[q], t) PROVE CarriesResult(work'[q], t)
    BY <2>2, ReportStep, OthersStay
  <2>3. CASE TimePasses \/ GatesChange \/ UNCHANGED vars
    BY <2>1, <2>3 DEF TimePasses, GatesChange, vars, queueVars
  <2>4. QED  BY <2>1, <2>2, <2>3, Actors
<1>2. CASE t \notin Held(q)
  <2>1. Step(q) /\ ClaimLease(q)
    <3>1. CASE TimePasses \/ GatesChange \/ UNCHANGED vars
      BY <1>2, <3>1 DEF TimePasses, GatesChange, vars, queueVars, Held
    <3>2. QED  BY <1>2, <3>1, Actors, OthersHold, HeldStep
  <2>2. task[t].status = "pending"
    <3>1. LoopShape(work[q]) /\ work[q] \in Loop
      BY <1>0 DEF ShapeInv
    <3>2. Held(q)' = {u \in work[q].sel : LeaseWins(u) /\ grants[u] < MaxGrants[u]}
      BY <1>0, <2>1, <3>1 DEF ClaimLease, LoopShape, Held, Loop
    <3>3. QED  BY <3>2 DEF LeaseWins
  <2>3. ASSUME NEW p \in Executor, CarriesResult(work[p], t) PROVE FALSE
    BY <1>0, <2>2, <2>3, BusyIsLeased DEF CarriesResult, Reporting, AtWork, Leased, Gone
  <2>4. QED  BY <1>0, <2>2, <2>3 DEF SentInv, Finished, Gone, OnItsWay
<1>3. QED  BY <1>1, <1>2

\* Only a submission counts, and only the first one is made.
LEMMA SentInvStep ==
    TypeOK /\ LoopInv /\ ShapeInv /\ LeaseInv /\ SentInv /\ [Next]_vars => SentInv'
<1> SUFFICES ASSUME TypeOK, LoopInv, ShapeInv, LeaseInv, SentInv, [Next]_vars,
                    NEW t \in Task, t \notin lost' \cup undercut'
             PROVE  /\ sent'[t] <= 1
                    /\ sent'[t] = 1 => Finished(t)' \/ Gone(t)' \/ OnItsWay(t)'
                    /\ \A q \in Executor : t \in Held(q)' => sent'[t] = 0 \/ CarriesResult(work'[q], t)
  BY DEF SentInv
<1>0. t \notin lost \cup undercut /\ sent[t] \in Nat
  BY HistoriesGrow DEF LoopInv, QueueTypeOK
<1>1. /\ sent[t] <= 1 /\ (sent[t] = 1 => Finished(t) \/ Gone(t) \/ OnItsWay(t))
      /\ \A p \in Executor : t \in Held(p) => sent[t] = 0 \/ CarriesResult(work[p], t)
  BY <1>0 DEF SentInv
<1>2. CASE sent'[t] = sent[t]
  BY <1>1, <1>2, SentKept, HolderKept
<1>3. ASSUME NEW p \in Executor, NEW r \in Outcomes, Submit(p, r), sent'[t] # sent[t]
      PROVE  /\ sent'[t] = 1 /\ OnItsWay(t)'
             /\ \A q \in Executor : t \in Held(q)' => CarriesResult(work'[q], t)
  <2>0. work \in [Executor -> Loop] /\ work[p] \in Loop /\ sent \in [Task -> Nat]
    BY DEF LoopInv, QueueTypeOK
  <2>1. work[p].pc = "submit" /\ work[p].cur = t /\ r.reached /\ sent'[t] = sent[t] + 1
    BY <1>3, <2>0 DEF Submit
  <2>2. t \in Held(p) /\ ~CarriesResult(work[p], t)
    BY <2>1, BusyIsLeased DEF AtWork, CarriesResult, Reporting
  <2>3. sent'[t] = 1
    BY <1>0, <1>1, <2>1, <2>2
  <2>4. CarriesResult(work'[p], t)
    BY <1>3, <2>0, <2>1 DEF Submit, CarriesResult, Reporting, Loop
  <2>5. ASSUME NEW q \in Executor, q # p, t \in Held(q)' PROVE FALSE
    <3>1. work'[q] = work[q]
      BY <1>3, <2>0, <2>5 DEF Submit
    <3>2. t \in Held(q)
      BY <2>5, <3>1 DEF Held
    <3>3. QED  BY <1>0, <2>2, <2>5, <3>2 DEF LeaseInv
  <2>6. QED  BY <2>3, <2>4, <2>5 DEF OnItsWay
<1>4. QED  BY <1>2, <1>3, SentStep

---------------------------------------------------------------------------
(* The task and the application.                                             *)

\* The task and the application say the same.
Agrees(t) ==
    /\ task[t].status = "succeeded" => app[t] \in {"submitted", "skipped"}
    /\ task[t].status = "verifying" => app[t] = "verifying"
    /\ task[t].status = "failed" => app[t] = "failed"

\* Between the two writes of a result the application has the first of them.
AgreeInv ==
    /\ \A p \in Executor : work[p].pc = "finish" /\ work[p].cur \notin undercut
           => app[work[p].cur] = RecordedStatus(work[p].res)
    /\ \A t \in Task \ undercut : Agrees(t)

\* An application is written for the task its executor is busy with.
LEMMA AppStep ==
    ASSUME LoopInv, [Next]_vars, NEW t \in Task, app'[t] # app[t]
    PROVE  \E p \in Executor : Step(p) /\ SaveApplication(p) /\ work[p].cur = t
<1>1. ASSUME NEW p \in Executor, Step(p), app' # app PROVE SaveApplication(p)
  <2>1. CASE LoopNext(p)
    BY <1>1, <2>1 DEF LoopNext, ClaimSweep, ClaimSelect, ClaimLease, TakeJob, Submit, Report, FinishTask
  <2>2. CASE UserNext(p) \/ ExtensionClaim(p) \/ ExtensionCheck(p)
    BY <1>1, <2>2 DEF UserNext, UserStartRead, UserStart, UserPause, ReleaseRead, ReleaseWrite, ReleaseSweep,
                UserReset, UserBlock, UserOther, RequestDies, BrowserCloses, queueVars, ExtensionClaim, ExtensionCheck
  <2>3. CASE NodeOnly(p)
    BY <1>1, <2>3 DEF NodeOnly, FleetGate, FleetMark, FleetStamp, FleetRespond, FleetHandBack, LoseReport,
                Challenge, ChallengeRelease, ChallengeReleaseRest, ChallengePark, FleetTickEnds, NodeDies
  <2>4. QED  BY <1>1, <2>1, <2>2, <2>3, StepKinds
<1>2. \E p \in Executor : Step(p) /\ SaveApplication(p)
  BY <1>1, Actors DEF TimePasses, GatesChange, vars, queueVars
<1>3. QED  BY <1>2 DEF SaveApplication, LoopInv, QueueTypeOK

\* Every step keeps task and application in agreement.
LEMMA AgreeKept ==
    ASSUME LoopInv, LeaseInv, AgreeInv, [Next]_vars, NEW t \in Task \ undercut'
    PROVE  Agrees(t)'
<1>0. t \notin undercut /\ Agrees(t)
  BY HistoriesGrow DEF AgreeInv
<1>1. ASSUME NEW p \in Executor, FinishTask(p), work[p].cur = t PROVE Agrees(t)'
  <2>1. task \in [Task -> TaskRow]
    BY DEF LoopInv, QueueTypeOK
  <2>2. CASE Gone(t)
    BY <1>1, <2>2 DEF FinishTask, Gone, Agrees
  <2>3. CASE ~Gone(t)
    <3>1. /\ task'[t].status = TaskStatusFor(app[t]) /\ app' = app
          /\ app[t] = RecordedStatus(work[p].res)
      BY <1>0, <1>1, <2>1, <2>3 DEF FinishTask, AgreeInv, TaskRow, Gone
    <3>2. work[p].res \in Result /\ work[p].res.status # "challenge"
      BY <1>1 DEF FinishTask, LoopInv, QueueTypeOK, ResultIsRecordable, Loop
    <3>3. QED  BY <3>1, <3>2 DEF Agrees, TaskStatusFor, RecordedStatus, Result
  <2>4. QED  BY <2>2, <2>3
<1>2. CASE \A p \in Executor : ~(FinishTask(p) /\ work[p].cur = t)
  <2>1. Finished(t)' => task'[t].status = task[t].status
    BY <1>2, StatusStep
  <2>2. CASE app'[t] = app[t]
    BY <1>0, <2>1, <2>2 DEF Agrees, Finished
  <2>3. CASE app'[t] # app[t]
    <3>1. PICK p \in Executor : SaveApplication(p) /\ work[p].cur = t
      BY <2>3, AppStep
    <3>2. ~Finished(t) /\ task' = task
      BY <1>0, <3>1, BusyIsLeased DEF SaveApplication, AtWork
    <3>3. QED  BY <3>2 DEF Agrees, Finished
  <2>4. QED  BY <2>2, <2>3
<1>3. QED  BY <1>1, <1>2

\* A loop comes to the second write of a result from the first.
LEMMA FinishIsNext ==
    ASSUME TypeOK, LoopInv, NEW p \in Executor, Step(p), work'[p].pc = "finish", ~SaveApplication(p)
    PROVE  work'[p] = work[p]
<1>0. work \in [Executor -> Loop] /\ work[p] \in Loop /\ (p \in Node => p \notin Browser)
  BY ExecutorAssumption DEF LoopInv, QueueTypeOK
<1>a. JobDone(p).pc # "finish" /\ Idle.pc # "finish"
  BY DEF JobDone, Idle
<1>1. CASE LoopNext(p)
  <2>1. CASE ClaimSweep(p) \/ ClaimSelect(p)
    <3>1. CASE ClaimSweep(p)
      BY <1>0, <3>1 DEF ClaimSweep, Go, Loop
    <3>2. CASE ClaimSelect(p)
      <4>1. PICK sel : work' = [work EXCEPT ![p].sel = sel,
                                            ![p].pc = IF sel # {} THEN "lease"
                                                      ELSE IF p \in Browser THEN "idle" ELSE "next"]
        BY <3>2 DEF ClaimSelect
      <4>2. work'[p].pc \in {"lease", "idle", "next"}
        BY <1>0, <4>1 DEF Loop
      <4>3. QED  BY <4>2
    <3>3. QED  BY <2>1, <3>1, <3>2
  <2>2. CASE ClaimLease(p)
    BY <1>0, <2>2 DEF ClaimLease, Loop
  <2>3. CASE \E j \in work[p].jobs : TakeJob(p, j)
    BY <1>0, <2>3 DEF TakeJob, Loop
  <2>4. CASE \E r \in Outcomes : Submit(p, r)
    BY <1>0, <2>4 DEF Submit, Loop
  <2>5. CASE Report(p) \/ FinishTask(p)
    BY <1>0, <1>a, <2>5 DEF Report, FinishTask, DropWork, Go, Loop
  <2>6. QED  BY <1>1, <2>1, <2>2, <2>3, <2>4, <2>5 DEF LoopNext
<1>2. CASE p \in Browser /\ UserNext(p)
  <2>1. ~BrowserCloses(p)
    BY <1>0, <1>a DEF BrowserCloses, DropWork
  <2>2. QED  BY <1>2, <2>1, RequestsKeepWork
<1>3. CASE ExtensionClaim(p) \/ ExtensionCheck(p)
  BY <1>0, <1>3 DEF ExtensionClaim, ExtensionCheck, Go, Loop
<1>4. CASE NodeOnly(p)
  <2>1. CASE LoseReport(p) \/ Challenge(p) \/ ChallengePark(p) \/ FleetTickEnds(p) \/ NodeDies(p)
    BY <1>0, <1>a, <2>1 DEF LoseReport, Challenge, ChallengePark, FleetTickEnds, NodeDies, DropWork, Loop
  <2>2. CASE FleetGate(p) \/ FleetMark(p) \/ FleetStamp(p) \/ FleetRespond(p)
    BY <1>0, <2>2 DEF FleetGate, FleetMark, FleetStamp, FleetRespond, Go, Loop
  <2>3. CASE \E j \in work[p].jobs : FleetHandBack(p, j)
    BY <1>0, <2>3 DEF FleetHandBack, Loop
  <2>4. CASE ChallengeRelease(p)
    BY <1>0, <2>4 DEF ChallengeRelease, Loop
  <2>5. CASE ChallengeReleaseRest(p)
    BY <1>0, <2>5 DEF ChallengeReleaseRest, Loop
  <2>6. QED  BY <1>4, <2>1, <2>2, <2>3, <2>4, <2>5 DEF NodeOnly
<1>5. QED  BY <1>1, <1>2, <1>3, <1>4, StepKinds

\* Every step keeps the first write of a result where the second expects it.
LEMMA FinishKept ==
    ASSUME TypeOK, LoopInv, LeaseInv, AgreeInv, [Next]_vars,
           NEW p \in Executor, work'[p].pc = "finish", work'[p].cur \notin undercut'
    PROVE  app'[work'[p].cur] = RecordedStatus(work'[p].res)
<1>0. work \in [Executor -> Loop] /\ work[p] \in Loop /\ app \in [Task -> AppStatus]
      /\ undercut \subseteq undercut'
  BY HistoriesGrow DEF LoopInv, QueueTypeOK
<1>1. CASE SaveApplication(p)
  <2>1. /\ work' = [work EXCEPT ![p].pc = "finish"]
        /\ app' = [app EXCEPT ![work[p].cur] = RecordedStatus(work[p].res)]
    BY <1>0, <1>1 DEF SaveApplication, JobDone, Idle, Go, Loop
  <2>2. work[p].cur \in Task
    BY <1>1 DEF SaveApplication, LoopInv, WorksOnTask
  <2>3. QED  BY <1>0, <2>1, <2>2 DEF Loop
<1>2. CASE ~SaveApplication(p)
  <2>1. work'[p] = work[p]
    <3>1. ASSUME NEW q \in Executor, Step(q) PROVE work'[p] = work[p]
      BY <1>2, <3>1, FinishIsNext, OthersStay
    <3>2. QED  BY <3>1, Actors DEF TimePasses, GatesChange, vars, queueVars
  <2>2. work[p].cur \in Task /\ work[p].cur \notin undercut
    BY <1>0, <2>1 DEF LoopInv, WorksOnTask
  <2>3. app'[work[p].cur] = app[work[p].cur]
    <3>1. \A q \in Executor : SaveApplication(q) => work[q].cur # work[p].cur
      BY <1>2, <2>1, <2>2, BusyAlone DEF SaveApplication, AtWork
    <3>2. QED  BY <2>2, <3>1, AppStep
  <2>4. QED  BY <2>1, <2>2, <2>3 DEF AgreeInv
<1>3. QED  BY <1>1, <1>2

---------------------------------------------------------------------------
(* The theorems about who works on what.                                     *)

WorkInv == DispatchInv /\ ShapeInv /\ LeaseInv /\ SentInv /\ AgreeInv

\* The very first state satisfies it.
LEMMA WorkInitInv == Init => WorkInv
<1> SUFFICES ASSUME Init PROVE WorkInv  OBVIOUS
<1>1. /\ \A p \in Executor : work[p] = Idle /\ Held(p) = {}
      /\ \A t \in Task : task[t].status = "pending" /\ sent[t] = 0
  BY DEF Init, Idle, Held, Fresh
<1>2. ShapeInv /\ LeaseInv
  BY <1>1 DEF ShapeInv, LoopShape, LeaseInv, Idle, NoResult, Executor
<1>3. SentInv /\ AgreeInv
  BY <1>1 DEF SentInv, AgreeInv, Agrees, Idle
<1>4. QED  BY <1>2, <1>3, DispatchInitInv DEF WorkInv

\* No step of a browser, of a node or of a user, and no passing of time, breaks it.
LEMMA WorkStepInv == WorkInv /\ [Next]_vars => WorkInv'
<1> SUFFICES ASSUME WorkInv, [Next]_vars PROVE WorkInv'  OBVIOUS
<1>1. TypeOK /\ LoopInv /\ ShapeInv /\ LeaseInv /\ SentInv /\ AgreeInv
  BY DEF WorkInv, DispatchInv, RunInv
<1>2. AgreeInv'
  BY <1>1, AgreeKept, FinishKept DEF AgreeInv
<1>3. QED
  BY <1>1, <1>2, DispatchStepInv, ShapeInvStep, LeaseInvStep, SentInvStep DEF WorkInv

\* However many browsers, nodes and tasks there are, and however often they claim, die and
\* are paused or taken over, two executors are busy with one task only after a release took
\* it from one of them.
THEOREM OneHolderAlways == Spec => []OneHolder
<1>1. WorkInv => OneHolder
  BY DEF WorkInv, LeaseInv, OneHolder
<1>2. QED  BY WorkInitInv, WorkStepInv, <1>1, PTL DEF Spec

\* However many there are, a second submission for a task is owed to a lost result or to a
\* release.
THEOREM ResendExcusedAlways == Spec => []ResendExcused
<1>1. WorkInv => ResendExcused
  <2> SUFFICES ASSUME WorkInv, NEW t \in Task, sent[t] > 1 PROVE t \in lost \cup undercut
    BY DEF ResendExcused
  <2>1. sent[t] \in Nat
    BY DEF WorkInv, DispatchInv, LoopInv, QueueTypeOK
  <2>2. QED  BY <2>1 DEF WorkInv, SentInv
<1>2. QED  BY WorkInitInv, WorkStepInv, <1>1, PTL DEF Spec

\* However many there are, the two tables agree about every task but those a release took
\* away.
THEOREM TablesAgree == Spec => []TaskAgreesWithApplication
<1>1. WorkInv => TaskAgreesWithApplication
  BY DEF WorkInv, AgreeInv, Agrees, TaskAgreesWithApplication
<1>2. QED  BY WorkInitInv, WorkStepInv, <1>1, PTL DEF Spec

---------------------------------------------------------------------------
(* Why the lease of a node ends: what NodeLeaseReturns rests on.             *)

\* Nothing renews a lease that names a node: neither the loop of that node, nor a late stamp of
\* another one, makes it younger, so it comes to the limit of the sweep (releaseStaleFleetLeases
\* has only leased_at to go by).
NeverRenewed(t) == LeasedToServer(t) /\ LeasedToServer(t)' => task'[t].age >= task[t].age

\* In every run, whoever moves, no node lease is ever renewed.
THEOREM LeasesAreNotRenewed == Spec => [][\A t \in Task : NeverRenewed(t)]_vars
<1>1. LoopInv /\ [Next]_vars => [\A t \in Task : NeverRenewed(t)]_vars
  <2> SUFFICES ASSUME LoopInv, [Next]_vars, NEW t \in Task, LeasedToServer(t), LeasedToServer(t)'
               PROVE  task'[t].age >= task[t].age
    BY DEF NeverRenewed
  <2>0. task \in [Task -> TaskRow] /\ task[t].age \in Nat
    BY DispatchAssumption DEF LoopInv, QueueTypeOK, TaskRow, MaxAge
  <2>a. ASSUME NEW ids, task' = SetPending(ids) PROVE task'[t] = task[t]
    BY <2>a DEF SetPending, Fresh, LeasedToServer, Leased
  <2>1. ASSUME NEW p \in Executor, Step(p), task' # task PROVE task'[t].age = task[t].age
    <3>1. CASE ClaimSweep(p)
      <4>1. task' = SetPending(StaleExtensionLeases) \/ task' = SetPending(StaleFleetLeases)
        BY <3>1 DEF ClaimSweep
      <4>2. QED  BY <2>a, <4>1
    <3>2. CASE ClaimLease(p)
      BY <3>2 DEF ClaimLease, Fresh, LeasedToServer, Leased
    <3>3. CASE FleetStamp(p)
      BY <2>0, <3>3 DEF FleetStamp, TaskRow
    <3>4. ASSUME NEW j \in work[p].jobs, FleetHandBack(p, j) PROVE task'[t] = task[t]
      BY <2>a, <3>4 DEF FleetHandBack
    <3>5. CASE FinishTask(p)
      BY <2>0, <3>5 DEF FinishTask, TaskStatusFor, RecordedStatus, LeasedToServer, Leased, TaskRow
    <3>6. CASE ReleaseWrite(p) \/ ReleaseSweep(p) \/ ChallengeRelease(p) \/ ChallengeReleaseRest(p)
      BY <2>a, <3>6 DEF ReleaseWrite, ReleaseSweep, ChallengeRelease, ChallengeReleaseRest
    <3>7. CASE UserReset(p)
      BY <3>7 DEF UserReset, Fresh, LeasedToServer, Leased
    <3>8. QED  BY <2>1, <3>1, <3>2, <3>3, <3>4, <3>5, <3>6, <3>7, RowWriters
  <2>2. CASE TimePasses
    <3>1. task'[t] = task[t] \/ task'[t] = [task[t] EXCEPT !.age = task[t].age + 1]
      BY <2>2 DEF TimePasses
    <3>2. QED  BY <2>0, <3>1 DEF TaskRow
  <2>3. QED  BY <2>0, <2>1, <2>2, Actors DEF GatesChange, vars, queueVars
<1>2. WorkInv => LoopInv
  BY DEF WorkInv, DispatchInv
<1>3. QED  BY WorkInitInv, WorkStepInv, <1>1, <1>2, PTL DEF Spec
=============================================================================
