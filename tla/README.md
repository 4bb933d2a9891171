# Karjoo: the apply queue in TLA+

Karjoo applies for jobs on behalf of a user.  A control plane (Next.js over
PostgreSQL, `src/src`) discovers listings, keeps one *apply queue* per user, and
hands its tasks to whoever may submit them: the user's own browser (the Chrome
extension, `src/extension`) or a fleet of worker nodes (`src/worker`).  The hard
part is that these executors share one queue through single SQL statements, may
die at any point, and act on job boards where nothing can be undone.  These
modules model that part, check it with TLC and prove its central facts with TLAPS.

## 1. Inventory

| Component | State it keeps | Operations | Talks to |
|---|---|---|---|
| **Execution ownership** `lib/apply/execution-run.ts`, `api/extension/run` | one row per user in `apply_execution_runs`: state, owner, executorId, heartbeat | start, takeover, pause, stop, heartbeat, progress, complete, block; the server's gate, mark and block | called by the extension (HTTP) and by the fleet routes; releases leases in `tasks` |
| **Apply queue** `lib/apply/extension-queue.ts`, `api/apply-queue/**` | `tasks` (status, leased_by, leased_at, run_after), `applications` (status, reference, proof) | claim, record result, reset, purge, refilter, retry | claims ask execution ownership; results feed verification and the dashboard |
| **Fleet dispatch** `lib/fleet/dispatch.ts`, `api/fleet/{claim,result}` | none of its own: leases in `tasks` | claim (gate, mark, sweep, claim, stamp, hand back), result, security challenge | execution ownership, apply queue, vault, cooldown |
| **Worker agent** `worker/src/lib/{agent,commands}.ts`, `update.sh` | a tick: the batch in memory | claim, apply, report, run commands; a deadline that exits the process | fleet routes, job boards |
| **Extension loop** `extension/src/background/{auto-apply,service-worker}.ts` | one cycle and its generation in the service worker | discover, heartbeat, claim one, apply, report, park a board, block or complete; start, pause, reset and filters from the panel | claim, result and run routes, job boards |
| **Queue membership** `orchestrator.ts`, `queue-purge.ts`, `queue-refilter.ts`, `interview-prep.ts` | `matches` (status, score), `tasks` | discovery, enqueue, purge, refilter, retry | shares rows with claims and results |
| **Jobinja verification** `boards/jobinja-verification.ts` | `applications`, `tasks`, imported history | reconcile verifying applications with the board's history | result recording |
| **Generic queue** `lib/queue` | `tasks` | enqueue, claim (SKIP LOCKED), complete, fail with back-off | older consumers, enqueue from discovery |
| **Board access** `board-cooldown.ts`, `login/session-provider.ts`, `vault/{store,credential-store}.ts`, `api/board-accounts/**`, `api/session/refresh` | `board_accounts`, `session_blobs`, `board_credentials`, `tasks.run_after` and `last_error` | connect, disconnect, enrol a credential, upload a session, renew it, count and lock failed logins, defer a board's queue after a refusal, lift the pause | fleet claims and results, the extension |
| **Quota and gates** `billing/apply-quota.ts`, `auto-apply.ts` | counts over `applications` | check before a claim or a result | claims, results |
| **Discovery turns** `lib/fleet/discovery.ts`, `worker/src/lib/discovery`, `discovery-scheduler.ts`, `scripts/discovery-cron.sh` | `user_server_auto_apply.last_discovery_at`; per node a window of postings and what was sent to whom, in memory | give out turns, search, submit postings, rotate over users | queue membership |
| **Filter cursors** `filter-cursor.ts` | a page per filter | advance, wrap | discovery |
| **Fleet commands** `lib/fleet/commands.ts`, `worker/src/lib/commands.ts` | `worker_commands` | issue, poll, run, acknowledge | agent |
| **Enrolment, assignment** `lib/fleet/{enroll,assign}.ts` | `worker_nodes`, assignments | enrol, heartbeat, assign | agent |
| **Tailored resumes** `resume/{queue-prep,custom-resume-service}.ts` | `resumes`, `applications.resume_id` | pick the next job, generate, repair, archive | claims, billing |
| **Billing** `lib/billing` | monthly AI budget; wallet and plans at 1xAi | gate, settle, subscribe | every model call |
| **AI, scoring, parsing** `lib/ai`, `scoring.ts`, the rest of `lib/resume` | none | prompt, parse, score | model gateway |
| **Auth, pairing, encryption** `lib/auth`, `vault/*crypto.ts` | tokens, links | encrypt, verify, pair | every request |
| **Boards and pages** `lib/apply/boards`, `content`, `components`, `app` | none | scrape, fill forms, render | third-party sites, people |

What makes the parts that are modelled correct:

* *ownership*: one executor at a time; a live browser is never preempted by
  surprise; a run the user parked stays parked; a closed browser does not stop
  the queue for ever;
* *queue and results*: nothing is shown as submitted that is not; a task is with one
  executor; a job is sent once, unless its result was lost; task and application
  agree; what was leased comes back;
* *fleet and agent*: a batch that is abandoned (deadline, deploy, challenge) leaves no
  lease behind; no two nodes hold one task;
* *extension loop*: after a pause, at most the submission in progress goes out;
* *membership*: what was settled is not offered again; what was found gets queued
  even after a crash half way; a saved filter change leaves no task of the old filters;
* *verification*: a scan that calls itself complete is complete; only what the board does
  not hold is tried again; application and task agree after the reconciliation;
* *resumes and budget*: the budget is overshot by no more than what is in flight; what an
  application points to is what was sent; one hopeless job does not hold up the others;
* *commands*: a command is carried out, and again only if its acknowledgement was lost;
* *discovery turns*: a user is searched by one node at a time and again and again, and
  what a node counts as delivered was delivered;
* *extension cycle*: an abort stops it at its next checkpoint; a refusing board does not eat
  the queue, nor stop the other boards; a reset does not delete rows under the cycle it
  waited for;
* *board access*: a pause is not cut short; a wrong password is not tried for ever; a
  disconnect lasts; a task without a session comes back.

### What is hard about it

`PROJECT.json` lists the hazards with their lines.  They are of these kinds:
requests that read a row and write it later (start, the server's gate and mark,
block, the releases that read ids and then update by id, the AI budget, the count of
failed logins, the archive check of a resume); a claim made of five
statements (ownership, sweep, select, lease, stamp); a submission that cannot be
undone, between two ownership checks; executors that die silently, so that only
a clock tells; several endings of a tick (deadline, lost report, challenge)
that each leave leases behind; a match and its task, or an application and its task,
written by separate statements, between which others write and either may be the last;
scans of a list that grows at its front while it is read; one service worker in which
message handlers and the cycle take turns at every `await`; acknowledgements that
get lost; memory of a node that dies with it; one timestamp that two schedulers stamp.

## 2. Modules

```
ExecutionRun  <----  ApplyDispatch  <----  MCApplyDispatch          (TLC)
   ^    ^                  ^
   |    MCExecutionRun     ApplyDispatchProofs  ----> ExecutionRunProofs
   ExecutionRunProofs      (TLAPS)

QueueMembership <---- MCQueueMembership          (TLC)
   ^----------------- QueueMembershipProofs      (TLAPS)

JobinjaVerification <---- MCJobinjaVerification, JobinjaVerificationProofs
TailoredResume      <---- MCTailoredResume,      TailoredResumeProofs
ExtensionCycle      <---- MCExtensionCycle,      ExtensionCycleProofs
BoardAccess         <---- MCBoardAccess,         BoardAccessProofs

CommandDelivery <==== FleetCommands
                          |
MCFleetDiscovery      FleetNode <------- MCFleetNode, FleetNodeProofs
       |                  |
       +---------> FleetDiscovery
```

An arrow is EXTENDS, a double one INSTANCE ... WITH a refinement mapping.  ApplyDispatch shares the variables of ExecutionRun, so that the
specification of ExecutionRun is its abstract view without a mapping (`RunRowImplemented`).  Names that carry a comment "Slip:" are plausible mistakes in the
definition after them; they are used only to show that each property can fail.

**ExecutionRun** models the run row.  `run` is the row (`state = "absent"` before
its first insert), `hbAge` the age of `heartbeat_at` in ticks of the clock,
saturated just above `StaleRun` (the code asks only whether it is over
`STALE_RUN_MS`).  A request that reads the row and writes it later is two actions,
with `call[p]` between them: `StartRead`/`StartUpsert`, `BlockAssert`/`BlockUpdate`,
`ServerGate`/`ServerUpsert`.  A request that is one conditional UPDATE is one action.
`CallDies` ends a request half way.

| Definition | Code |
|---|---|
| `StartRefused`, `Reclaimable` | the early throws of start and the `setWhere` of its upsert, `reclaimableRunCondition` |
| `Pause(b, stop)` | `pauseExtensionExecution` with `stoppableRunCondition` |
| `Heartbeat`, `Progress`, `Complete` | single UPDATEs with their WHERE |
| `ResetClaimsRun` | the `claim_run` part of `resetExtensionQueue`, unconditional |
| `ServerMayTake`, `ServerUpsertMatches` | `serverMayTakeRun` and the `setWhere` of `markServerExecutionRunning` |
| `ServerBlock` | the upsert of `blockServerExecution` |

**ApplyDispatch** extends it with the queue.  `task` holds each task's status,
`leased_by` and lease age, `app` the status of the application of its match; `work[p]` is
the apply loop of an executor: where it is, the ids a SELECT returned (`sel`), the
jobs it was given (`jobs`), the one it is on (`cur`) and its result (`res`).  One
loop serves both kinds of executor: a browser claims one task per pass and checks
ownership before submitting and when reporting; a node takes a batch, stamps its id
into the leases, and is never asked again.  A node's claim passes the gates first (`canExecute`;
plan, toggle, quota and room in the batch, which are the one flag `admitted`; the mark of the run)
and sweeps stale node leases only then (`FleetGate`, `FleetMark`, `ClaimSweep`, `ClaimSelect`).
`rel[b]` is the lease release a browser's
run request still has to do, as the code does it: the ids are read, then updated by
id, then stale extension leases are swept; a block may release one task by name.  The job board is `BoardOutcome`: any of
its outcomes, including one that reached the board while the executor saw an error.
History variables (`sent`, `lost`, `late`, `grants`) record what the tables do not:
the submissions that reached a board, the results that were dropped, the submissions
made during a pause, the leases granted (the bound of the model), and the tasks that were
`undercut`: a release took them from under an executor that had them, or put them back into the
queue after their result (`TakenAway`).  Every release can do that, because it looks at the row and
not at the executor, and an executor is never told:

* a takeover releases the node leases and a pause the browser leases, whatever is under way;
* the sweep of stale browser leases takes the job of a browser that is slow, and of a node that has
  claimed and not stamped yet;
* the ids to release are read and then updated by id alone (`execution-run.ts:587-609`), so a lease
  taken, or a result recorded, between the two statements is released with them.  After a challenge,
  leases that a dead tick of the same node left behind are among them, old enough for another node to
  sweep and take in between;
* a challenge releases the whole batch before it parks the run; if a browser has taken the run over
  by then, the request fails, and the node goes on with the rest of a batch that is no longer its own
  (`agent.ts` logs the error and continues).

The sweep of node leases is the one that needs no such record: `LeaseInv` below shows that it never
takes a task from anybody.

**QueueMembership** models which listings of one user are in the queue.  `match[l]` and
`app[l]` are statuses, `task[l]` the row with the key `apply:<match>` (status "none" when
there is none; `id` tells a row from the one inserted after its deletion, which is how
the code's updates by id can miss).  `req[s]` is a discovery pass (of a browser, the server
or a node) or a dashboard request, `edit` a change of filters, `work[e]` an executor.
Everything but the reset is several statements in the code, and several actions here:

| Actions | Code |
|---|---|
| `FindBegin`, `FindListing`, `UpsertMatch`, `Enqueue`, `ReadExisting`, `MarkQueued` | the loop of `enqueueBrowserDiscoveredListings` (`runFilterApply` has the same statements); `enqueue` is INSERT ... ON CONFLICT DO NOTHING and, on a conflict, a SELECT |
| `Press`, then the same | `queueJobApplyAction` |
| `RetryRead`, `RetryTask`, `RetryApp`, `RetryMatch` | `retryFailedApplication`: a read and three writes by id, none conditional |
| `EditSelect`, `RefilterDelete`, `EditWrite` | PUT of the filters: `invalidatePendingQueueForFilters` (a transaction: SELECT, then DELETE by id), then the save |
| `Purge`, `Reset` | one DELETE; one statement with CTEs |
| `Claim`, `Report`, `SaveApplication`, `FinishTask`, `LeaseReturns` | the claim and the lookup and two writes of `recordResult`; the sweeps, which ApplyDispatch models |

The match statuses "drafted" and "scored" are one, and "dismissed" and the task status
"dead" do not occur, since nothing writes them.  All listings are of one board.  A pass
may find any listing at any time: score, caps, freshness and gender filters only narrow
that.  Four history variables say what a reader of the tables could not know:

* `purged`: the row went by a purge, and no row was inserted since;
* `overtaken`: the row went while a request was about to mark its match as queued;
* `torn`: a result was torn apart: its executor died between its two writes, its row was
  deleted while it was being recorded, a retry wrote over an application that had
  ceased to be failed since the retry read it, two results for one listing interleaved,
  or the refilter, which deletes by id, deleted a row that had been claimed since its SELECT;
* the field `excused` of a row: its pass overlapped a change of filters, or it has been
  claimed or retried since (the refilter keeps such rows on purpose).

These are the code's own windows.  The properties say that there are no others.

**JobinjaVerification** models the settling of applications whose outcome is unknown.
`history` is the board's list of the user's applications, newest first, and grows at its
front (`Arrive`); `scan[s]` is a scan of the extension or of the server, page by page,
with what the two do differently: the extension takes the number of pages anew from each
page, keeps rows of the window and stops at the cutoff; the server fixes the last page at the
first one, capped, and keeps every row.  Then the verifying rows are selected and each
verdict is two writes, `WriteApplication` and `WriteTask`.  The executors are there with
`Click` and `Record` (its two writes are one action here; QueueMembership takes them
apart).  Time passes in half days, because the board shows whole days: an application
has the time of the start of its day.  `torn` is, as above, a pair of writes split by a failure or
by another writer of the same row.

**TailoredResume** models who makes resumes and what they cost.  `work[p]` is a claim loop
or a dashboard request, `rows[l]` the resumes of a listing, each with its id and the version
it holds (versions count the writes of a listing, and so are in the order of `updated_at`), `spent` the month's budget in model calls.
The call for the resume itself must succeed; a repair pass is best effort (`repairTailoredResume` catches
every error), so a refused or failed one leaves the resume as it is and the next one follows.

| Actions | Code |
|---|---|
| `Claim`, `Prepare`, `Fail` | the claim route: claim, `prepareNextTailoredResumeForQueue`, claim again; a failure delays the job by id |
| `Extract`, `Tailor`, `Repair`, `Settle`, `CallFails` | `generateTailoredResume`: each metered call is a gate (`assertAiAvailable`), the call, and a settlement in a transaction |
| `FindExisting`, `CheckArchived`, `Write` | the three statements that pick the row to overwrite, or insert one |
| `Load`, `Send`, `RecordRead`, `Record` | the upload of the newest version, and `sentResumeIdFor` with the upsert of the application |

`overlapped` remembers that a version was written across a submission: the code
archives what is newest when the result arrives.

**ExtensionCycle** is the service worker of one browser.  `cycle` is `activeCycle` and the
locals of `runCycle` (`gen` the generation it began with, streaks per board, `item` the task
in hand), `generation` is `cycleGeneration`, `handler[h]` a message of the side panel in work.
An action runs from one `await` to the next.  The server is what its routes do to this
browser's run and tasks.  A handler that awaited the cycle goes on before any other
event begins a new one (`NobodyAwaits`), as promise continuations do.  `unread` and `met` are history:
a start that no cycle has read yet, and whether it met a cycle, a teardown or a failure.

**BoardAccess** is one user's account on one board: the account row, the newest session, the
credential with count and lock, and for each task status, delay (`wait`, from `run_after`) and
reason (`mark`, from `last_error`).  A request (a node's claim, an enrolment, the extension's
upload) goes through `req[p].at`: session, login, record, store, lift, connect, then reload or
keep.  `RecordOutcome` writes the count that `Login` read.  `promised` is what is left of the
pauses that were put on a task, `overridden` marks tasks whose resume was prepared meanwhile.

**CommandDelivery** is what the command channel promises; **FleetCommands** implements it:
`status` is the row, `batch[n]`, `step[n]` the node's loop over what it polled, `late` the
acknowledgements under way after their sender gave up.  An `update` runs a script that restarts the
process before "done" is sent; a `restart` sends "done" and exits.

**FleetDiscovery** is `last_discovery_at` as its two readers see it: whose is earlier (`ahead`; users
never searched, and users stamped by one statement, are tied, and SQL returns them in any order) and how long ago
it is (`since`).  `open` are the users whose gates let a node search, `listed` those the scheduler reads (toggle on, a site
connected).

| Actions | Code |
|---|---|
| `Ask`, `Examine`, `Answer` | `claimFleetDiscovery`: the gates, the conditional UPDATE that stamps, labels that cannot be had, an answer that is lost |
| `Refresh`, `CatalogReads` | `refreshJobvision` and `doRefresh`, for the user pass and the catalog pass: pages are read up to a cap and a deadline, unreachable ones are passed over, a read page (`seen`) is not read again even if it held no posting, those with one enter the window (`feed`); push-back cools the board down, any other failure does not, and in both cases the pass goes on; it ends if the catalog refuses the postings |
| `Search`, `Submit` | `searchBoard` (so many matches, noted in `sent` before they are submitted) and the submission, whose failure is logged |
| `CronBegins`, `CronUser`, `CronStops`, `CronMarks`, `CronDies` | `runServerDiscovery`: the first `Limit` listed users, attempted in the order read until the budget is spent, stamped at the end |
| `RunnerRestarts`, `RunnerDies` | a new process: turns, window and records of what was sent are gone |

**FleetNode** composes it with FleetCommands: the loops
share the process, so that a command that replaces it takes memory and turns along.

## 3. Runs

| Run | Instance | Checks | States |
|---|---|---|---|
| `execution_run` | 2 browsers, 2 nodes, with fairness | `OwnerMatchesExecutor`, `LiveBrowserKeepsRun`, `ServerNeverRevives`, `ClosedBrowserYields` | 19,728 |
| `apply_dispatch` | 1 browser, 1 node, 1 task, 2 leases, 5 outcomes | `SubmittedIsReal`, `PauseStopsSoon`, `ResendExcused`, `RunRowImplemented` | 2,124,400 |
| `fleet` | 2 nodes, symmetric, 2 tasks, 3 leases and 1, leases stale after 1 tick, 4 outcomes | `OneHolder`, `TaskAgreesWithApplication`, `ChallengeReleasesBatch` | 4,056,385 |
| `node_lease` | 1 browser, 1 node, 1 task, 1 lease, gates that change, 2 outcomes, with fairness | `NodeLeaseReturns` | 651,120 |
| `membership` | 1 listing, 1 pass, 1 tab, 1 executor; 1 deletion, 1 filter change, 1 failure, with fairness | `StrandedExcused`, `StaleTaskExcused`, `SettledNotOffered`, `DiscoveryQueues` | 321,369 |
| `verification` | 3 applications, 1 of them the user's own, a browser's and a server's scan one at a time, pages of 1, window of 1 day, 2 days, 2 submissions | `CompleteScanCoversDays`, `NegativeExcused`, `ApplicationMatchesTask`, `VaultCoversQuietHistory` | 4,690,706 |
| `tailored_resume` | 2 listings, 1 loop, 1 dashboard, budget of 2 calls, 4 repairs, 1 request by hand, 1 death, with fairness | `BudgetOvershootBounded`, `ArchiveIsWhatWasSent`, `JobGetsItsTurn` | 236,866 |
| `fleet_node` | 1 node, 1 user, 1 posting, an update and a restart, 1 loss, 1 death, with fairness | `RerunExcused`, `Delivered`, `SentWasDelivered` | 241,016 |
| `discovery` | 2 nodes of 1 user, 1 user of none, 1 posting, interval 3, cron 2, lists of 1, 1 mishap, with fairness | `TurnNotShared`, `LongestWaitFirst`, `EveryUserComesUp`, `PostingReachesUser` | 375,567 |
| `node_turn` | 1 node of 2 users, interval 3, cron 2, lists of 2, no mishaps, with fairness | `NodesSearchToo`: violated | 6,460 |
| `extension_cycle` | 3 tasks of 2 boards, 2 messages at a time, 2 messages or faults, with fairness | `StopIsSoon`, `RefusingBoardsLeftAlone`, `ResetWaitsForCycle`, `StartIsServed`, `QueueDrains` | 295,666 |
| `board_access` | 3 tasks, 1 node, 1 form, batches of 2, lock after 2 failures, 2 events, with fairness | `PausesHold`, `LoginsGiveUp`, `DisconnectIsFinal`, `TasksAreServed` | 663,641 |

Where the type invariant of a module is proved (section 4), no run repeats it.

What they say:

* `OwnerMatchesExecutor`: owner, executor and state tell one story, which the last
  UPDATE of `blockExtensionExecution` silently relies on (it looks at the executor only).
* `LiveBrowserKeepsRun`: whatever a request read earlier, a heartbeating browser
  loses the run only to a takeover, a reset or its own stop.
* `ServerNeverRevives`: paused-in-a-browser, completed and blocked runs are restarted
  by browsers only.
* `ClosedBrowserYields`: a running queue whose browsers are closed is taken over.
* `SubmittedIsReal`: "submitted" implies the board has the application, with results
  that come late, twice, from former holders, or after releases and resets.
* `PauseStopsSoon`: a browser submits at most once more after a pause.
* `RunRowImplemented`: every behaviour of ApplyDispatch is one of ExecutionRun, so what
  is shown of the row holds in the large model too.
* `OneHolder`: two executors, browsers or nodes, work on one task only if it is `undercut`.
  Otherwise the claims keep them apart, and time: a node lease outlives the longest tick.
* `ResendExcused`: two submissions of a job need a lost result, or an `undercut` task.
* `TaskAgreesWithApplication`: outside the gap between its two writes, a recorded result
  leaves task and application in agreement, `undercut` tasks aside.
* `ChallengeReleasesBatch`: after a challenge parks the run, its node holds no lease.
* `NodeLeaseReturns`: a node's lease ends, also that of a node that died, unless nodes are turned away from
  the user (`TurnedAway`): the claim comes to the sweep only after its gates, so the lease stays while the plan,
  the toggle or the quota forbid the server to apply, while other users fill the batch, and while the run is
  blocked, or a browser's that is alive, paused or completed.
* `StrandedExcused`: a match that says "queued", which every discovery will skip from then
  on, has a row in the queue, unless the listing is `purged` or `overtaken`.
* `StaleTaskExcused`: once filters are saved, an unclaimed task of older filters comes from
  a pass that overlapped a change of them.
* `SettledNotOffered`: what was sent, is being checked or was skipped is not pending again
  through discovery, by hand, a reset, a refilter or a retry, unless it is `torn`.
* `DiscoveryQueues`: a listing that keeps being found gets into the queue, whatever failed
  half way or was deleted before.
* `CompleteScanCoversDays`: the browser's complete scan has every application that the
  board held when it began and whose day is after the cutoff, although arrivals push
  older rows to later pages.  On the day of the cutoff itself it may miss some: the scan stops
  at the first row of that day.
* `VaultCoversQuietHistory`: the server's complete scan has all of its window if nothing
  arrived meanwhile and the history fits the pages it may read.  Both conditions are needed:
  its last page is fixed at the first, and a scan cut at its cap counts as complete.
* `NegativeExcused`: an application that the board holds is taken for one that never
  arrived only if it arrived after the scan began or falls on the day of the cutoff.
* `ApplicationMatchesTask`: after the reconciliation application and task agree, unless
  a failure or another writer split its two writes.
* `BudgetOvershootBounded`: the calls spent and in flight exceed the cap by fewer than there are
  concurrent requests, since each call asks for itself.
* `ArchiveIsWhatWasSent`: the resume an application points to has the version that was
  uploaded, whatever is generated later, unless a version was written across the submission.
* `JobGetsItsTurn`: a due job is worked on in the end, whatever becomes of the resumes of the jobs
  before it, of the budget, and of one death.
* `Delivered`: the commands implement CommandDelivery, its liveness included.
* `RerunExcused`: a command is carried out again no more often than acknowledgements of its
  runs failed to arrive: a restart cannot become a loop of its own.
* `TurnNotShared`: two nodes have the turn of one user only if one of them has kept the user
  past the interval.
* `SentWasDelivered`: what a node counts as sent to a user, and will not offer again, the server has,
  or its submission failed.
* `LongestWaitFirst`: a run of the scheduler attempts nobody before a user who had waited longer when
  it read its list, although nodes stamp users while it works through it.
* `EveryUserComesUp`: a user the scheduler reads is attempted by it, or has a turn on a node, again and
  again, whoever else is always refused.
* `PostingReachesUser`: a posting is offered to every user of the nodes in the end, in whoever's pass its page
  was read, unless the submission failed or the page was read in vain, the user's gates are closed, the turn came
  up while a pass had other users (the scheduler may take it, each time anew), or the scheduler leaves the
  nodes no turns at all (`CronCrowdsOut`: it can be back at a user within the interval).
* `NodesSearchToo`: a user of a node whose gates are open is searched by it again and again.  This is what the
  code says of itself, and it is false: see below.
* `StopIsSoon`: after an abort a cycle sends at most the one application it had in hand.
* `RefusingBoardsLeftAlone`: nothing of a board that refused several in a row, and
  nothing after several session failures, is in hand.
* `ResetWaitsForCycle`: rows are deleted under no cycle of before the reset.
* `StartIsServed`: a run that was started is read by a cycle; a start in the foreground may
  be lost if it met a cycle at work, a teardown or a failure.
* `QueueDrains`: in the background every pending task gets its turn.
* `PausesHold`: a task that was pending when its board refused is not claimable before the longest
  of its pauses is over or lifted, and is recognised as paused, unless a preparation of its resume
  wrote over both.
* `LoginsGiveUp`: no more failed logins in a row than the limit, unless logins overlapped.
* `DisconnectIsFinal`: nothing connects a disconnected account again but the user, or a request that
  was under way.
* `TasksAreServed`: while the account can be used, every task is served.

### Where a document or comment says otherwise

The first one has a run, which finds the violation:

* "The node now runs the same search as the extension from the Iranian IP, without a break"
  (`fleet/discovery.ts:7-8`): a node's turn needs 15 minutes without a stamp (`:60`, `:137-155`), and the scheduler, which
  the host starts every 10 minutes (`deploy/lightsail/README.md:19`; "safe to fire on a short interval",
  `scripts/discovery-cron.sh:8`), stamps the same column of every user it attempts.  In ticks of five minutes the
  interval is 3 and the cron period 2: `node_turn` shows a behaviour in which, after the first round, the node
  gets no turn again, without any failure.  The scheduler crowds the nodes out whenever its runs get through the
  users it reads, up to `DEFAULT_DISCOVERY_BATCH` = 100; because those it stamps together are tied and may be read
  in another order next time, it may hit the same user in consecutive runs with up to 199.  With more users the
  scheduler needs longer than the interval to come round, and nodes get turns (`discovery`).

The others were met while modelling; no run is kept for them, but the properties are stated so
that they hold of the code as it is.

* "`verifying` tasks are not claimable" (jobinja-submission-verification-design, line 41): a release
  that read the leased ids before the result writes `pending` by id after it
  (`execution-run.ts:608`).
* "A heartbeat timeout or browser restart returns an unfinished leased task to pending"
  (live-console-design, line 96): the fleet sweeps node leases only (`dispatch.ts:265`); a
  browser's lease waits for a browser.
* A purge can be undone, "the next discovery fills the queue again" (`api/apply-queue/purge/route.ts:8`):
  it leaves the matches "queued" (`queue-purge.ts:62`), and discovery skips those.
* "permit retry only after an authoritative negative check. This is accurate and duplicate-safe"
  (jobinja-submission-verification-design, lines 20-21): an attempt that arrives after the scan read page one
  lies in the window (`jobinja-verification.ts:68`) and is retried.
* A credential is locked "until the user intervenes" (`credential-store.ts:25`): the lock ends after
  six hours (`:28`).
* The extension's resume failure streak has a limit of several (`auto-apply.ts:448`), but each failure ends the
  cycle, and the streak is a local of the cycle: the limit is not reached.
* A session "missing or expired" is said to be renewed (`session-provider.ts:140`): `readSessionBlob` does not
  look at `expires_at`, so an expired session is handed out and refused by the board.
* The same ad sent twice is said not to be paid twice (`api/resume/custom/route.ts:57-61`): the row is the same, but
  the model calls are made again.
* Assignment is called atomic in `assign.ts`, but counts and then inserts.

### Bounds

* Two browsers and two nodes in ExecutionRun: a third of either adds no new kind of
  interference, since every condition compares an executor with the row's one.
* `MaxGrants` bounds how often a task is leased: 2 in `apply_dispatch` lets a former holder's
  result come after the new holder's; in `fleet` one task has 3, which a lease of a dead tick, one
  that undercuts it and one after that need, and the other has the one that meets the challenge.
  In `node_lease` one task has one lease: a further one is an end of it, after which the property asks anew.
  `OneHolder`, `TaskAgreesWithApplication` and `ChallengeReleasesBatch` are proved with browsers, any number
  of leases and any outcomes.
* `Gates` bounds what `admitted` may be: both values in `node_lease`; only TRUE elsewhere, since a node
  that is turned away at the gates does nothing the safety properties are about (they are proved for both).
* `Outcomes` bounds what submissions come to: in `apply_dispatch` a proved
  submission, one the board already had, one without evidence that never arrived, a failure after
  the board took it, and a challenge (a skipped job is left out: it ends the task without
  reaching the board); in `fleet` a proved and an ambiguous submission,
  a failure before the board took it, and a challenge; in `node_lease` a failure and a challenge,
  the two ways a job ends for the lease.  The properties of the first two runs are proved for any set of outcomes.
* The clock: ages saturate just above the limit they are compared with, so the limits
  can be 0 to 2 ticks.  In `apply_dispatch` `TickMax = 0`: time does not pass while a
  node's tick is running, so a browser's lease or heartbeat gets stale only between
  ticks; a run that goes stale during a tick has no effect on the node, which does not look at it
  again.  Leases that age during ticks are the subject of `fleet` and `node_lease`, where
  `TickMax = StaleNode`, the tightest case `TickFitsLease` allows (the code has 10 minutes
  against 30).
* `late` counts to 2, one more than the property allows.
* No browser takes part in `fleet`: a takeover releases the leases of a node that is still
  submitting, and the code does not prevent the second submission.  `node_lease` has one, because a live, paused,
  completed or blocked run of a browser is what turns nodes away.
* `MaxDeletions`, `MaxFilters`, `MaxFailures` of 1 in `membership`: each excuse needs one such
  event, and every safety property of that run is proved for any number of them.  With two
  executors (1.95 million states) and with two overlapping passes (1.65 million) the run was
  done once, no error; `DiscoveryQueues` with 2 listings and 2 deletions (21,022).
* `verification` has pages of one row and three pages, the size at which a row can move past a
  page that was already read, and past the cap; four half days put an application before,
  on and after the day of the cutoff.  `MaxScans` is 1: the browser's and the server's scans follow each other in
  any order, and executors write between their steps, but two scans do not interleave.  The safety properties
  are proved for any number at once.
* `tailored_resume`: `Cap` of 2 with two writers lets both be in flight at the last unit; a `Delay` of 3
  polls is longer than one job's generation, as half an hour is; `MaxRepairs` is the code's 4.  Both listings need an upload.
* `extension_cycle`: a board limit of 1 and a session limit of 2 let three tasks meet both; two messages
  at a time are enough for a reset against a start, a pause or another reset.
* `board_access`: the 30, 60 and 360 minutes are 1, 1 and 2 steps, so that a short pause can end
  before, with or after a long one; batches of two hold a session and a hand-back in one claim.
* `discovery` and `node_turn`: a tick is five minutes, so the interval is 3 and the cron period 2, as deployed.  With
  lists of 1 and two users the scheduler needs 4 ticks to come round, more than the interval, and nodes get turns; with
  lists of 2, as with fewer users than a list holds in the code, it is back after 2.  One user with two nodes is enough for
  turns to be disputed, and the second user makes a line for the scheduler.  With both users on one node
  the properties of `discovery` were checked once as well (47,652 states, no error).  One posting, and caps of one page and
  one match: postings are finite, so a cap can only delay one behind others; the age at which they leave
  the window is not modelled.
* `fleet_node`: one loss loses one acknowledgement of a command, one death what was polled; the mishaps of discovery are in
  `discovery`.  Its safety is proved for any number.

### Fairness

`RunFairness` and `Fairness` assume that time passes, that a node's loop (`runLoop`, under a
supervisor that restarts it) keeps polling (the node is one the user is assigned to; without an assignment nobody
would ask for the user), and (strong fairness) that a claim which
is tried for ever, and passes the gates for ever, gets to the mark and to the sweep and is not cut off by a
restart every single time.  `FairSpec` of
QueueMembership assumes that discovery is started again and again (the extension's
`discoverAndDrain` and the server's schedule), that a pass goes on, and, with strong fairness,
that it gets to each listing it finds infinitely often.  FleetCommands assumes nodes that
poll and go on with what they polled; FleetDiscovery the loops of node and scheduler, a cooldown that ends, and a clock
that waits for requests and for the scheduler's run, but not for passes; of the catalog pass it assumes nothing; ExtensionCycle the
alarm, and that an `await` ends; TailoredResume a loop that polls between two ticks; BoardAccess nodes that
poll, requests and jobs that end, and time.  Nothing is assumed of
browsers, of users, or of any failure.

## 4. Proofs

`ExecutionRunProofs` proves, for any sets of browsers and nodes and any stale time:

* `RunTypeCorrect` (`TypeOK`) and `OwnershipColumnsAgree` (`OwnerMatchesExecutor`), by an
  inductive invariant that adds to the property what the pending requests know: a call
  that is a start, takeover or block belongs to a browser, a gate or a tick to a node.
  Without it a `BlockUpdate` could set a server's row to the state of a browser's.
* `FleetRespectsParkedRuns` (`ServerNeverRevives`) and `LiveRunIsNotPreempted`
  (`LiveBrowserKeepsRun`), action by action from that invariant.

`ApplyDispatchProofs` proves, for any number of browsers, nodes and tasks and any
limits with `TickMax <= StaleNode`:

* `DispatchTypeCorrect` (`DispatchTypeOK`);
* `SubmittedMeansSubmitted` (`SubmittedIsReal`).  The property alone is not inductive: a
  result on its way carries the evidence that will justify the row.  The invariant adds
  `EvidenceIsReal` (a result with evidence is about a job some submission of which reached
  the board) and `LoopInv` (a loop that has a result has a current job);
* `DispatchImplementsRun` (`RunRowImplemented`): the refinement of ExecutionRun, every
  action mapped to an action of that module or to a stutter;
* `PauseStopsSoonAlways` (`PauseStopsSoon`), with `LateInv`: a browser that has submitted during
  a pause is past its ownership check, which it passes again only after a start;
* `ChallengeReleasesAlways` (`ChallengeReleasesBatch`), with `BatchInv`: nobody but a node stamps
  its name into leases, so what a challenge read is all there is to release, and nothing
  of it is left when the run is parked;
* `OneHolderAlways`, `ResendExcusedAlways` and `TablesAgree` (`TaskAgreesWithApplication`), with
  `WorkInv`, for browsers and nodes together and all four kinds of release between them.  Its
  `LeaseInv` is the argument of the code: what an executor holds is leased, to nobody by name or to
  itself, unless the user has deleted it; a node's lease is no older than its tick, hence not swept
  (`TickFitsLease`); and no two executors hold one task, `undercut` tasks aside.  `ShapeInv` ties a
  node's loop to its tick and says what each step of a loop has in hand.  `SentInv` says where a
  submission is: on its way through the report of the executor that made it, in the tables, deleted,
  or lost; and that whoever else holds the task has not applied.  `AgreeInv` adds that between its two
  writes a result is in the first table.  Without `LeaseInv` a late result might overwrite that of
  another executor;
* `LeasesAreNotRenewed`, of the argument for `NodeLeaseReturns` the part that needs an invariant: nothing makes
  a node lease younger, whoever moves.  The rest (time passes, a node that is not turned away sweeps) is fairness
  and stays with TLC.

`QueueMembershipProofs` proves, for any number of listings,
passes, dashboard requests and executors and any bounds:

* `MembershipTypeCorrect` (`MembershipTypeOK`), by `TypeInv`: a row's id stays within its
  type because a row is inserted at most once more often than rows were deleted, and what is under
  way is about a listing;
* `OnlyPurgesStrand` (`StrandedExcused`), with `MarkingInv`: a request that will mark its
  match whatever happens has seen the row, or the row has been `overtaken` since;
* `RefilterLeavesNoStale` (`StaleTaskExcused`), with `EditInv`: a claimed row is excused;
  between its SELECT and its DELETE a change of filters has selected every row that is
  not; between its DELETE and its save there is none;
* `SettledStaysSettled` (`SettledNotOffered`), with `ReportInv` (an executor between lookup
  and last write still has its row), `SettledInv` (a settled application whose row may be
  offered has an executor about to finish the row) and `FailureInv` (an executor about to
  write a failure has not settled the application), each but for `torn` results.

`FleetNodeProofs` proves, for any commands, nodes, users, postings and bounds:

* `CommandsType` (`CommandsTypeOK`);
* `RunsExcused` (`RerunExcused`), with `TracksRows` (what is in a batch or in a late
  acknowledgement was issued, what is reported was run) and `TracksRuns`: a command that was run and
  is pending, or waits in a batch, again has one more run without an "acked" than it has reruns;
* `CommandsImplementDelivery`: the safety part of `Delivered`, every step a step of CommandDelivery or
  a stutter;
* `FleetImplementsParts`: the node's steps are steps of FleetCommands, and steps of FleetDiscovery or restarts of
  it (the facts about discovery below are proved for both specifications, `DiscoverySpec` and `FleetSpec`), so that what is shown of the parts is true of the node; `FleetRunsCommands` says what that is of
  the commands;
* `DiscoveryTypeCorrect` (`DiscoveryTypeOK`), `TurnNotSharedAlways` (`TurnNotShared`), with `TurnInv`: a user who is with a node is
  not due, unless the pass has kept the user past the interval.  Without it a second node might be granted the turn;
* `SentWasDeliveredAlways` (`SentWasDelivered`), with `PassInv`: matched postings and a user in hand are there during a
  submission only;
* `LongestWaitFirstAlways` (`LongestWaitFirst`), with `CronInv`: what was attempted and what is left is together closed under
  the order that was read;
* the safety half of `EveryUserComesUp`, with `OrderInv` (`ahead` is an order by timestamps, with which
  `since` agrees): the scheduler always finds whom to attempt next (`SchedulerFindsNext`); a lead is lost only by going to the
  end of the line (`LeadIsKept`); and a run that attempted somebody and could record it gets every other user ahead
  of somebody it was not ahead of in the list that was read (`RunsMakeWay`).

`BoardAccessProofs` proves, for any tasks, nodes, forms, delays and limits:

* `AccessTypeCorrect` (`AccessTypeOK`);
* `OneWorkerPerTask`: `LeaseInv`, who works on a task holds its lease alone (a node with a session, a
  claim that has not come to it, or a claim that died);
* `PausesHoldAlways` (`PausesHold`), from `LeaseInv`: what is not pending has no pause promised to it, and a
  hand-back comes from the one who holds the lease;
* `DisconnectIsFinalAlways` (`DisconnectIsFinal`), with `QuietInv`: after a disconnect that met no request, nothing is
  under way but an upload, and the account is not connected;
* `LoginsGiveUpAlways` (`LoginsGiveUp`), with `CountInv`: without overlaps the stored count, or the
  count a login read, is at least the failures in a row, and a login was let through below the limit.

`ExtensionCycleProofs` proves, for any tasks, boards, handlers and limits:

* `CycleTypeCorrect` (`CycleTypeOK`);
* `StopIsSoonAlways` (`StopIsSoon`) and `ResetWaitsAlways` (`ResetWaitsForCycle`), with `GenerationInv` (no cycle and
  no message is ahead of the generation) and `StopInv` (a cycle that sent something after its abort is
  between the report and the next checkpoint);
* `RefusingBoardsLeftAloneAlways` (`RefusingBoardsLeftAlone`), with `BoardInv`.

`TailoredResumeProofs` proves, for any listings, any finite set of writers and any budget:

* `ResumeTypeCorrect` (`ResumeTypeOK`);
* `ArchiveAlways` (`ArchiveIsWhatWasSent`), by `RowsInv` (ids and versions of a listing are its own, and its last
  write is there), `HoldInv` (a job is held by one executor, and a job with a result is never leased
  again) and `ArchiveInv`: what is sent is the newest version, a generation that knows of an
  application spares its row, and what was recorded stays;
* `BudgetOvershootAlways` (`BudgetOvershootBounded`), for any number of repair passes, by counting the writers in flight: the bound holds
  when a call is let through, and a settlement moves one from flight to the counter.

`JobinjaVerificationProofs` proves, for any listings, scanners, page size and window:

* `VerificationTypeCorrect` (`VerificationTypeOK`);
* `CompleteScanAlways` (`CompleteScanCoversDays`), `NegativeExcusedAlways` (`NegativeExcused`) and `VaultScanAlways`
  (`VaultCoversQuietHistory`), by `ReadInv`: the history is in order of arrival; a browser's scan has seen all it must of
  the pages before the one it is at (arrivals only push rows to later pages); a server's scan has
  seen all of them if nothing arrived, and its last page is the one of the first;
* `StoryAlways` (`ApplicationMatchesTask`), with `TaskInv`: between its two writes a reconciliation has the
  listing to itself and has written its verdict.

The assumptions are the named ASSUMEs of the modules: disjoint sets of processes, natural
bounds, `TickFitsLease`.

Model-checked only: the liveness properties and the fair specifications (out of reach of
the prover).  Every invariant and every action property that a run checks is proved.

## 5. Not modelled

* Of the queue: scores and boards (a free choice of which tasks a claim takes); plans and quotas themselves (a gate that
  opens and closes freely); the legacy
  claim and result path without an executorId; a claim
  request that goes on in the control plane after its node has died; more than one run
  request of one browser at a time; audit rows.  In ApplyDispatch a queue that is reset loses
  its tasks for good: their rediscovery is in QueueMembership.
* Of membership: several boards, the interview page of a retried application, the branch of a retry for
  rows of before the verification existed (`unconfirmedSubmitted`, an application that says submitted without a
  proof; nothing writes such rows any more), and the statement-level detail of a reset, which is one statement.
* Of verification: parsers, the profile snapshot that comes with a scan, and the one-off repair
  of old rows.
* Of resumes: their text, validation and rendering, and the bulk preparation of a page of jobs,
  which is the same generation in a loop.  Wallet, entitlements and plans are kept by an external
  service: they are a free refusal of a call.
* Of board access: the second session row that two concurrent inserts may leave, several boards, and
  the login drivers, whose answer is free.
* Of the extension: connecting a provider, tab handling, capture of a session.
* Of discovery on nodes: the boards other than JobVision, which keep no memory between passes; the age at which
  a posting leaves the window, and a posting that is changed and read anew; the deadlines of a pass.
* Of the fleet: enrolment (one upsert per node) and assignment (a count and an insert; nothing else
  reads the capacity); filter cursors (which page a pass reads is a free choice already).
* A stop leaves the row without owner, and a node may then take the run: that is what
  the tests of `execution-run-server-takeover.test.ts` intend, and `ServerNeverRevives`
  speaks of runs parked *in a browser* for this reason.
* Device pairing: a code becomes a session by an insert and one conditional update, and a death between
  them leaves a session that nobody holds the token of until it expires; the queue is not touched.
* Components without a module are listed with their reasons in `PROJECT.json`: board
  adapters, rendering, prompts and parsing have no shared state to check.

## 6. Plan

1. *(done)* ExecutionRun: the row, its requests, safety, liveness, proofs.
2. *(done)* ApplyDispatch: queue, leases, results, crash and time; refinement; proofs.
3. *(done)* QueueMembership: matches and tasks; liveness of discovery; proofs.
4. *(done)* JobinjaVerification: scans and reconciliation; proofs.
5. *(done)* TailoredResume with the AI budget, ExtensionCycle, BoardAccess; proofs.
6. *(done)* FleetCommands against CommandDelivery, proofs; FleetDiscovery, composed in FleetNode.
7. *(done)* The remaining safety properties of ApplyDispatch; proofs.
8. *(done)* Proofs: `TurnNotShared`, `SentWasDelivered` and `LongestWaitFirst` of FleetDiscovery;
   `OneHolder`, `ResendExcused` and `TaskAgreesWithApplication` with browsers.
9. Proofs: the steps that the other liveness properties rest on, as done for `EveryUserComesUp`
   (FleetDiscovery) and `NodeLeaseReturns` (ApplyDispatch).  Their temporal part stays with TLC.
