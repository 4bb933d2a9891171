---------------------------- MODULE TailoredResume ----------------------------
(***************************************************************************)
(* Tailored resumes of one user: who makes them, what each model call may  *)
(* spend of the month's budget, which queued job gets one, and which       *)
(* version an application is archived with.                                *)
(* Sources: lib/resume/custom-resume-service.ts (generateTailoredResume),  *)
(* lib/resume/queue-prep.ts, lib/billing/metering.ts and ai-budget.ts, the *)
(* claim route, and claim and result in lib/apply/extension-queue.ts.      *)
(*                                                                         *)
(* One action is one database statement, one model call (its gate and its  *)
(* settlement apart), or one step on a board.  Leases and ownership are    *)
(* those of ApplyDispatch; here a claim is one step, and an executor keeps *)
(* its job until it has a result or dies.                                  *)
(***************************************************************************)
EXTENDS Integers, FiniteSets

CONSTANTS
    Listing,        \* the user's queued listings, one task each
    NoListing,
    BoardOf,        \* the board of each listing
    Rank,           \* Rank[l] < Rank[m]: l was posted after m
    Executor,       \* browsers and fleet nodes that claim jobs
    Dashboard,      \* pages on which the user asks for a resume by hand
    Cap,            \* the month's AI budget, in model calls
    MaxRepairs,     \* repair passes of a generation (four in the code)
    Delay,          \* run_after delay of a failed preparation, in polls
    MaxManual,      \* bound of the model: resumes asked for by hand
    MaxCrashes      \* bound of the model: requests and executors that die

Writer == Executor \cup Dashboard
Board == {"jobinja", "e-estekhdam", "jobvision", "irantalent", "karboom"}

ASSUME ResumeAssumption ==
    /\ NoListing \notin Listing
    /\ BoardOf \in [Listing -> Board]
    /\ Rank \in [Listing -> Nat]
    /\ \A l, m \in Listing : Rank[l] = Rank[m] => l = m
    /\ Executor \cap Dashboard = {}
    /\ IsFiniteSet(Writer)
    /\ Cap \in Nat \ {0}
    /\ MaxRepairs \in Nat /\ Delay \in Nat /\ MaxManual \in Nat /\ MaxCrashes \in Nat

VARIABLES
    rows,       \* resumes of each listing; versions count its writes, in the order of updated_at
    letter,     \* listings whose match has a cover letter
    task,       \* status of each task and what is left of its delay
    app,        \* application of each listing: its resume_id, and what was sent
    work,       \* how far each claim loop and each dashboard request is
    spent,      \* app_ai_budget of this month, in model calls
    polled,     \* executors that have claimed since the last tick
    made,       \* history: versions written for each listing
    manual,     \* history: resumes asked for by hand
    crashes,    \* history: requests that died
    overlapped  \* history: listings with a version written across a submission

vars == <<rows, letter, task, app, work, spent, polled, made, manual, crashes, overlapped>>

GenStep == {"extract", "extractCall", "tailor", "tailorCall", "repair", "repairCall",
            "find", "check", "write", "letter", "fail"}
JobStep == {"load", "send", "recordRead", "record"}
NotWorking == {"idle", "prepare", "again"}
Step == NotWorking \cup GenStep \cup JobStep

NoRow == 0
\* found: the row a generation will overwrite; version: what an executor sends;
\* row: what it will record; knew: the archive check could see an application.
Work == [pc : Step, l : Listing \cup {NoListing}, left : Nat,
         found : Nat, version : Nat, row : Nat, knew : BOOLEAN]
At(step, l, left) == [pc |-> step, l |-> l, left |-> left, found |-> NoRow,
                      version |-> 0, row |-> NoRow, knew |-> FALSE]
Without(step) == At(step, NoListing, 0)
Idle == Without("idle")

Row == [id : Nat, version : Nat]
Task == [status : {"pending", "leased", "done", "failed"}, delay : 0..Delay]
Application == [made : BOOLEAN, row : Nat, sent : Nat]

ResumeTypeOK ==
    /\ rows \in [Listing -> SUBSET Row]
    /\ letter \in SUBSET Listing
    /\ task \in [Listing -> Task]
    /\ app \in [Listing -> Application]
    /\ work \in [Writer -> Work]
    /\ spent \in Nat
    /\ polled \in SUBSET Executor
    /\ made \in [Listing -> Nat]
    /\ manual \in 0..MaxManual
    /\ crashes \in 0..MaxCrashes
    /\ overlapped \in SUBSET Listing
    /\ \A p \in Writer : /\ work[p].pc \notin NotWorking => work[p].l # NoListing
                         /\ work[p].pc = "repairCall" => work[p].left > 0

Init ==
    /\ rows = [l \in Listing |-> {}]
    /\ letter = {}
    /\ task = [l \in Listing |-> [status |-> "pending", delay |-> 0]]
    /\ app = [l \in Listing |-> [made |-> FALSE, row |-> NoRow, sent |-> 0]]
    /\ work = [p \in Writer |-> Idle]
    /\ spent = 0
    /\ polled = {}
    /\ made = [l \in Listing |-> 0]
    /\ manual = 0
    /\ crashes = 0
    /\ overlapped = {}

---------------------------------------------------------------------------
(* Helpers.                                                                *)

\* isNativeProfileResumeBoard: the board sends the profile's own resume.
NativeBoard(l) == BoardOf[l] \in {"jobvision", "irantalent"}

HasResume(l) == rows[l] # {}
Newest(l) == CHOOSE r \in rows[l] : \A s \in rows[l] : s.version <= r.version
VersionOf(l, id) == (CHOOSE r \in rows[l] : r.id = id).version

Due(l) == task[l].status = "pending" /\ task[l].delay = 0

\* ORDER BY posted_at DESC LIMIT 1.
NewestOf(S) == CHOOSE l \in S : \A m \in S : Rank[l] <= Rank[m]

Go(p, step) == work' = [work EXCEPT ![p].pc = step]
Start(l, step) == At(step, l, 0)

\* The calls that have passed the budget gate and are not settled.
InFlight == {p \in Writer : work[p].pc \in {"extractCall", "tailorCall", "repairCall"}}

---------------------------------------------------------------------------
(* Claiming.                                                               *)

\* claimUserApplyItems with requireTailoredResume.
Ready == {l \in Listing : Due(l) /\ (NativeBoard(l) \/ HasResume(l))}

\* The newest ready job is leased; with none ready the first claim goes on to
\* prepare one and the second gives up until the next poll.
Claim(e) ==
    /\ work[e].pc \in {"idle", "again"}
    /\ polled' = polled \cup {e}
    /\ IF Ready # {}
       THEN LET l == NewestOf(Ready)
            IN  /\ task' = [task EXCEPT ![l].status = "leased"]
                /\ work' = [work EXCEPT ![e] = Start(l, "load")]
       ELSE /\ UNCHANGED task
            /\ work' = [work EXCEPT ![e] = IF work[e].pc = "idle"
                                           THEN Without("prepare") ELSE Idle]
    /\ UNCHANGED <<rows, letter, app, spent, made, manual, crashes, overlapped>>

\* The boards whose jobs the queue makes a resume for.
PreparedBoards == {"jobinja", "e-estekhdam"}

\* A resume is enough, except where the board's form wants a cover letter too.
NothingToMake(l) == HasResume(l) /\ (BoardOf[l] # "e-estekhdam" \/ l \in letter)

\* With nothing prepared, the browser's route claims once more, the node's gives up.
ClaimOver(e) == \E step \in {"idle", "again"} : work' = [work EXCEPT ![e] = Without(step)]

\* prepareNextTailoredResumeForQueue: the newest job that is due, if any, gets a
\* resume unless it has one.  Its task is neither leased nor locked meanwhile.
Prepare(e) ==
    /\ work[e].pc = "prepare"
    /\ LET due == {l \in Listing : Due(l) /\ BoardOf[l] \in PreparedBoards}
           l == NewestOf(due)
       IN  IF due = {} THEN ClaimOver(e)
           ELSE work' = [work EXCEPT ![e] =
                           IF NothingToMake(l) THEN Without("again")
                           ELSE At("extract", l, MaxRepairs)]
    /\ UNCHANGED <<rows, letter, task, app, spent, polled, made, manual, crashes, overlapped>>

\* POST /api/resume/tailor and /custom: whatever resumes there are.
AskByHand(d, l) ==
    /\ work[d].pc = "idle"
    /\ manual < MaxManual
    /\ manual' = manual + 1
    /\ work' = [work EXCEPT ![d] = At("extract", l, MaxRepairs)]
    /\ UNCHANGED <<rows, letter, task, app, spent, polled, made, crashes, overlapped>>

---------------------------------------------------------------------------
(* Metered model calls of a generation.                                    *)

\* assertAiAvailable: the counter is read before the call, and written after it.
BudgetLeft == spent < Cap

\* Slip: the gate is asked once, for the first call of a generation.
CallPassesOnce(p, call, budget) ==
    /\ work' = [work EXCEPT ![p].pc = call]
    /\ budget \/ call # "extractCall"

CallPasses(p, call, budget) ==
    /\ work' = [work EXCEPT ![p].pc = call]
    /\ budget

\* The requirements of the ad are best effort: no ad text, no balance, no budget
\* or a failed call, and the generation goes on without them.
Extract(p) ==
    /\ work[p].pc = "extract"
    /\ \/ CallPasses(p, "extractCall", BudgetLeft)
       \/ Go(p, "tailor")
    /\ UNCHANGED <<rows, letter, task, app, spent, polled, made, manual, crashes, overlapped>>

\* The resume itself must succeed: a refused or failed call ends the generation.
Tailor(p) ==
    /\ work[p].pc = "tailor"
    /\ CallPasses(p, "tailorCall", BudgetLeft) \/ Go(p, "fail")
    /\ UNCHANGED <<rows, letter, task, app, spent, polled, made, manual, crashes, overlapped>>

\* Missing companies, gaps and language get a repair pass each, and each is best effort:
\* one that is not needed, or whose call is refused, leaves the resume as it is.
RepairsLeft(p) == work[p].left > 0

Repair(p) ==
    /\ work[p].pc = "repair"
    /\ IF RepairsLeft(p)
       THEN \/ CallPasses(p, "repairCall", BudgetLeft)
            \/ work' = [work EXCEPT ![p].left = @ - 1]
       ELSE Go(p, "find")
    /\ UNCHANGED <<rows, letter, task, app, spent, polled, made, manual, crashes, overlapped>>

\* A call is over and the generation goes on, with its answer or without.
GoesOn(p) ==
    work' = [work EXCEPT
               ![p].pc = IF @ = "extractCall" THEN "tailor" ELSE "repair",
               ![p].left = IF work[p].pc = "repairCall" THEN @ - 1 ELSE @]

\* The answer comes and its cost is settled in one transaction; a resume that does not
\* parse has been paid for all the same ...
Settle(p) ==
    /\ p \in InFlight
    /\ spent' = spent + 1
    /\ GoesOn(p) \/ (work[p].pc = "tailorCall" /\ Go(p, "fail"))
    /\ UNCHANGED <<rows, letter, task, app, polled, made, manual, crashes, overlapped>>

\* ... or the gateway, or the settlement, fails and nothing is recorded.
CallFails(p) ==
    /\ p \in InFlight
    /\ IF work[p].pc = "tailorCall" THEN Go(p, "fail") ELSE GoesOn(p)
    /\ UNCHANGED <<rows, letter, task, app, spent, polled, made, manual, crashes, overlapped>>

---------------------------------------------------------------------------
(* Saving the resume.                                                      *)

FindExisting(p) ==
    /\ work[p].pc = "find"
    /\ LET l == work[p].l
       IN  work' = [work EXCEPT ![p].pc = "check",
                                ![p].found = IF HasResume(l) THEN Newest(l).id ELSE NoRow]
    /\ UNCHANGED <<rows, letter, task, app, spent, polled, made, manual, crashes, overlapped>>

\* Slip: a regeneration always rewrites the newest row.
ArchivedNever(l, id) == FALSE

\* "A resume an application points to is the ARCHIVE of what that employer received."
Archived(l, id) == app[l].made /\ app[l].row = id

CheckArchived(p) ==
    /\ work[p].pc = "check"
    /\ LET l == work[p].l
       IN  work' = [work EXCEPT ![p].pc = "write",
                                ![p].knew = app[l].made,
                                ![p].found = IF Archived(l, @) THEN NoRow ELSE @]
    /\ UNCHANGED <<rows, letter, task, app, spent, polled, made, manual, crashes, overlapped>>

\* Somebody is between loading a version for l and recording its result, or the
\* application came after the archive check.
Crosses(p, l) ==
    \/ \E e \in Executor : work[e].l = l /\ work[e].pc \in {"send", "recordRead", "record"}
    \/ app[l].made /\ ~work[p].knew

\* UPDATE by id, or INSERT; either way the row is now the newest by updated_at.
Write(p) ==
    /\ work[p].pc = "write"
    /\ LET l == work[p].l
           id == IF work[p].found = NoRow THEN made[l] + 1 ELSE work[p].found
           others == {r \in rows[l] : r.id # id}
       IN  /\ made' = [made EXCEPT ![l] = @ + 1]
           /\ rows' = [rows EXCEPT ![l] = others \cup {[id |-> id, version |-> made[l] + 1]}]
           /\ overlapped' = IF Crosses(p, l) THEN overlapped \cup {l} ELSE overlapped
           /\ work' = [work EXCEPT ![p] =
                         IF p \in Dashboard THEN Idle
                         ELSE IF BoardOf[l] = "e-estekhdam" THEN Start(l, "letter")
                         ELSE Without("again")]
    /\ UNCHANGED <<letter, task, app, spent, polled, manual, crashes>>

\* The queue also writes the cover letter of the match.
WriteLetter(e) ==
    /\ work[e].pc = "letter"
    /\ letter' = letter \cup {work[e].l}
    /\ work' = [work EXCEPT ![e] = Without("again")]
    /\ UNCHANGED <<rows, task, app, spent, polled, made, manual, crashes, overlapped>>

\* Slip: the job that failed stays first in line.
DelayAfterFailureNone(l) == 0

\* now() + interval '30 minutes'.
DelayAfterFailure(l) == Delay

\* The queue puts the job off, by id and whatever its status is now; a dashboard
\* shows the error.
Fail(p) ==
    /\ work[p].pc = "fail"
    /\ task' = IF p \in Executor
               THEN [task EXCEPT ![work[p].l].delay = DelayAfterFailure(work[p].l)]
               ELSE task
    /\ IF p \in Executor THEN ClaimOver(p) ELSE work' = [work EXCEPT ![p] = Idle]
    /\ UNCHANGED <<rows, letter, app, spent, polled, made, manual, crashes, overlapped>>

---------------------------------------------------------------------------
(* Applying.                                                               *)

\* The newest version is read for the upload, by the node's claim or by the
\* browser's download.
Load(e) ==
    /\ work[e].pc = "load"
    /\ LET l == work[e].l
       IN  work' = [work EXCEPT ![e].pc = "send",
                                ![e].version = IF NativeBoard(l) THEN 0 ELSE Newest(l).version]
    /\ UNCHANGED <<rows, letter, task, app, spent, polled, made, manual, crashes, overlapped>>

Send(e) ==
    /\ Go(e, "recordRead")
    /\ work[e].pc = "send"
    /\ UNCHANGED <<rows, letter, task, app, spent, polled, made, manual, crashes, overlapped>>

\* sentResumeIdFor the row read as "the newest version is the one this submit sent".
SentRow(l) == IF HasResume(l) /\ ~NativeBoard(l) THEN Newest(l).id ELSE NoRow

RecordRead(e) ==
    /\ work[e].pc = "recordRead"
    /\ work' = [work EXCEPT ![e].pc = "record", ![e].row = SentRow(work[e].l)]
    /\ UNCHANGED <<rows, letter, task, app, spent, polled, made, manual, crashes, overlapped>>

\* The application is upserted, submitted or failed, and the task settled.
Record(e) ==
    /\ work[e].pc = "record"
    /\ LET l == work[e].l
       IN  /\ app' = [app EXCEPT ![l] = [made |-> TRUE, sent |-> work[e].version,
                          row |-> IF work[e].row = NoRow THEN @.row ELSE work[e].row]]
           /\ \E status \in {"done", "failed"} : task' = [task EXCEPT ![l].status = status]
    /\ work' = [work EXCEPT ![e] = Idle]
    /\ UNCHANGED <<rows, letter, spent, polled, made, manual, crashes, overlapped>>

---------------------------------------------------------------------------
(* Time and failures.                                                      *)

\* Executors claim every minute or so and a delay is half an hour: between two
\* ticks each of them has claimed at least once.
Tick ==
    /\ polled = Executor
    /\ polled' = {}
    /\ task' = [l \in Listing |-> IF task[l].delay > 0
                                  THEN [task[l] EXCEPT !.delay = @ - 1] ELSE task[l]]
    /\ UNCHANGED <<rows, letter, app, work, spent, made, manual, crashes, overlapped>>

\* The budget is counted per month; a call settles in the month it ends in.
NewMonth ==
    /\ spent > 0
    /\ spent' = 0
    /\ UNCHANGED <<rows, letter, task, app, work, polled, made, manual, crashes, overlapped>>

\* A request or an executor dies; a lease it held comes back by a sweep, at once due.
Die(p) ==
    /\ work[p].pc # "idle"
    /\ crashes < MaxCrashes
    /\ crashes' = crashes + 1
    /\ task' = IF work[p].pc \in JobStep
               THEN [task EXCEPT ![work[p].l] = [status |-> "pending", delay |-> 0]] ELSE task
    /\ work' = [work EXCEPT ![p] = Idle]
    /\ UNCHANGED <<rows, letter, app, spent, polled, made, manual, overlapped>>

---------------------------------------------------------------------------
Generate(p) ==
    \/ Extract(p) \/ Tailor(p) \/ Repair(p) \/ Settle(p) \/ CallFails(p)
    \/ FindExisting(p) \/ CheckArchived(p) \/ Write(p) \/ Fail(p)

Execute(e) ==
    \/ Claim(e) \/ Prepare(e) \/ Generate(e) \/ WriteLetter(e)
    \/ Load(e) \/ Send(e) \/ RecordRead(e) \/ Record(e)

Next ==
    \/ \E e \in Executor : Execute(e)
    \/ \E d \in Dashboard : Generate(d) \/ \E l \in Listing : AskByHand(d, l)
    \/ \E p \in Writer : Die(p)
    \/ Tick
    \/ NewMonth

Spec == Init /\ [][Next]_vars

\* Executors poll and answer, and time passes.  Dashboards, the budget's next
\* month and failures are left to chance: nobody promises a generation to succeed.
Fairness == WF_vars(Tick) /\ \A e \in Executor : WF_vars(Execute(e))

FairSpec == Spec /\ Fairness

---------------------------------------------------------------------------
(* Properties.                                                             *)

\* The month's budget is overshot by at most one call per concurrent request:
\* each call asks for itself, but the counter is read before the call and written
\* after it, so all the calls in flight may have seen the last unit.
BudgetOvershootBounded ==
    spent + Cardinality(InFlight) <= Cap - 1 + Cardinality(Writer)

\* The resume an application points to has the version the employer received,
\* whatever is generated afterwards, unless a version was written while the
\* submission was under way: the row is picked when the result is recorded, and
\* the archive check comes before the write.
ArchiveIsWhatWasSent ==
    \A l \in Listing \ overlapped :
        app[l].made => IF NativeBoard(l) THEN app[l].row = NoRow
                       ELSE VersionOf(l, app[l].row) = app[l].sent

\* A job that is due is worked on in the end, whatever becomes of the jobs before it:
\* one whose resume cannot be made is put off, so that it does not keep the front of
\* the line, and the budget running out stops nobody's turn (queue-prep.ts and the
\* claim route's "only for the job whose turn it is").
JobGetsItsTurn ==
    \A l \in {m \in Listing : NativeBoard(m) \/ BoardOf[m] \in PreparedBoards} :
        Due(l) ~> (task[l].status # "pending" \/ \E e \in Executor : work[e].l = l)
=============================================================================
