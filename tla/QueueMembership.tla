--------------------------- MODULE QueueMembership ---------------------------
(***************************************************************************)
(* Which listings of one user are in the apply queue.  A listing has one   *)
(* row of matches and at most one row of tasks; discovery, the dashboard,  *)
(* a change of filters, a purge, a reset and a retry write both, in        *)
(* separate statements.  Sources: lib/apply/orchestrator.ts, lib/queue,    *)
(* queue-refilter.ts, queue-purge.ts, extension-queue-reset.ts,            *)
(* interview-prep.ts and the dashboard's jobs action.                      *)
(*                                                                         *)
(* One action is one statement, one transaction or one failure.  All       *)
(* listings are of one board, so a filter change and a purge concern all.  *)
(***************************************************************************)
EXTENDS Naturals

CONSTANTS
    Listing,        \* fresh listings the discovery keeps finding
    Finder,         \* discovery passes that may overlap: browser, server, node
    Dashboard,      \* dashboard requests that may overlap: tabs, double clicks
    Worker,         \* executors that apply (who may is ExecutionRun's subject)
    Deletions,      \* the deletions that occur: "purge", "refilter", "reset"
    MaxDeletions,   \* bound of the model: how many deletions
    MaxFilters,     \* bound of the model: how many changes of filters
    MaxFailures,    \* bound of the model: how many lost requests and crashes
    Nobody          \* no listing

ASSUME MembershipAssumption ==
    /\ Deletions \subseteq {"purge", "refilter", "reset"}
    /\ MaxDeletions \in Nat /\ MaxFilters \in Nat /\ MaxFailures \in Nat
    /\ Nobody \notin Listing
    /\ Finder \cap Dashboard = {}

VARIABLES
    match,      \* status of each listing's match; "drafted" is as "scored" here
    task,       \* row of each listing: [id, status, mode, filters, excused]
    app,        \* status of each listing's application
    filters,    \* version of the user's saved filters
    req,        \* progress of each discovery pass and dashboard request
    edit,       \* progress of a change of filters, and the rows it selected
    work,       \* progress of each executor
    deletions, failures,   \* counted for their bounds
    purged,     \* history: listings whose row a purge deleted, none inserted since
    overtaken,  \* history: rows deleted under a request about to mark the match
    torn        \* history: results torn apart by a failure, a deletion or a retry

rows == <<match, task, app, filters>>
history == <<deletions, failures, purged, overtaken, torn>>
vars == <<rows, req, edit, work, history>>

Requester == Finder \cup Dashboard
TaskStatus == {"none", "pending", "leased", "verifying", "succeeded", "failed"}
Outcome == {"submitted", "verifying", "skipped", "failed"}
RequestStep == {"idle", "loop", "upsert", "enqueue", "existing", "mark",
                "retryTask", "retryApp", "retryMatch"}

NoTask(id) == [id |-> id, status |-> "none", mode |-> "filter", filters |-> 0, excused |-> FALSE]
IdleRequest == [pc |-> "idle", l |-> Nobody, id |-> 0, filters |-> 0]
Searching(version) == [pc |-> "loop", l |-> Nobody, id |-> 0, filters |-> version]
IdleWork == [pc |-> "idle", l |-> Nobody, id |-> 0, res |-> "failed"]
NoEdit == [pc |-> "idle", sel |-> {}]

RowId == 0..(MaxDeletions + 1)
TaskRow == [id : RowId, status : TaskStatus, mode : {"filter", "manual"},
            filters : 0..MaxFilters, excused : BOOLEAN]
Request == [pc : RequestStep, l : Listing \cup {Nobody}, id : RowId, filters : 0..MaxFilters]
Edit == [pc : {"idle", "delete", "write"}, sel : SUBSET (Listing \X RowId)]
Work == [pc : {"idle", "apply", "save", "finish"}, l : Listing \cup {Nobody},
         id : RowId, res : Outcome]

MembershipTypeOK ==
    /\ match \in [Listing -> {"none", "scored", "queued"}]
    /\ task \in [Listing -> TaskRow]
    /\ app \in [Listing -> Outcome \cup {"none", "draft"}]
    /\ filters \in 0..MaxFilters
    /\ req \in [Requester -> Request]
    /\ edit \in Edit
    /\ work \in [Worker -> Work]
    /\ deletions \in 0..MaxDeletions
    /\ failures \in 0..MaxFailures
    /\ purged \subseteq Listing /\ overtaken \subseteq Listing /\ torn \subseteq Listing

Init ==
    /\ match = [l \in Listing |-> "none"]
    /\ task = [l \in Listing |-> NoTask(0)]
    /\ app = [l \in Listing |-> "none"]
    /\ filters = 0
    /\ req = [s \in Requester |-> IdleRequest]
    /\ edit = NoEdit
    /\ work = [e \in Worker |-> IdleWork]
    /\ deletions = 0 /\ failures = 0
    /\ purged = {} /\ overtaken = {} /\ torn = {}

---------------------------------------------------------------------------
(* Helpers.                                                                *)

HasTask(l) == task[l].status # "none"

\* The row a request or an executor knows by its id is still there.
RowThere(l, id) == HasTask(l) /\ task[l].id = id

\* Requests that will mark l as queued whatever happens to its row.
AboutToMark(l) ==
    \E s \in Requester : req[s].l = l /\ req[s].pc \in {"mark", "retryApp", "retryMatch"}

\* An executor's result for l is between its first read and its last write.
InReport(l) == \E e \in Worker : work[e].l = l /\ work[e].pc \in {"save", "finish"}

\* Delete rows, where those of "kept" were not meant to go.
DeleteRows(ls, kept) ==
    /\ deletions < MaxDeletions
    /\ deletions' = deletions + 1
    /\ task' = [l \in Listing |-> IF l \in ls THEN NoTask(task[l].id)
                                  ELSE task[l]]
    /\ overtaken' = overtaken \cup {l \in ls : AboutToMark(l)}
    /\ torn' = torn \cup {l \in ls : InReport(l) \/ l \in kept}

\* Slip: the deletion leaves the matches as they are.
UnqueueNone(ls) == match
\* A deletion that lets discovery find the listings again.
Unqueue(ls) == [l \in Listing |-> IF l \in ls /\ match[l] = "queued" THEN "scored"
                                  ELSE match[l]]

Step(s, pc) == req' = [req EXCEPT ![s].pc = pc]
\* A discovery pass takes the next listing; a dashboard request is over.
Over(s) == req' = [req EXCEPT ![s] = IF s \in Finder
                                     THEN Searching(req[s].filters)
                                     ELSE IdleRequest]

---------------------------------------------------------------------------
(* Discovery, and applying by hand from the dashboard.                     *)

\* The pass loads the profile once, with the filters it will search by.
FindBegin(f) ==
    /\ req[f].pc = "idle"
    /\ req' = [req EXCEPT ![f] = Searching(filters)]
    /\ UNCHANGED <<rows, edit, work, history>>

FindEnd(f) ==
    /\ req[f].pc = "loop"
    /\ req' = [req EXCEPT ![f] = IdleRequest]
    /\ UNCHANGED <<rows, edit, work, history>>

\* The next listing found: one that is queued already is skipped.
FindListing(f, l) ==
    /\ req[f].pc = "loop"
    /\ match[l] # "queued"
    /\ req' = [req EXCEPT ![f].pc = "upsert", ![f].l = l]
    /\ UNCHANGED <<rows, edit, work, history>>

\* queueJobApplyAction: only a confirmed application makes it a duplicate.
Press(d, l) ==
    /\ req[d].pc = "idle"
    /\ app[l] # "submitted"
    /\ req' = [req EXCEPT ![d].pc = "upsert", ![d].l = l]
    /\ UNCHANGED <<rows, edit, work, history>>

\* A discovery keeps a match that has become queued and stops; the dashboard's
\* upsert takes any match back to scored and goes on.
UpsertMatch(s) ==
    /\ req[s].pc = "upsert"
    /\ LET l == req[s].l
           keep == s \in Finder /\ match[l] = "queued"
       IN  /\ match' = IF keep THEN match ELSE [match EXCEPT ![l] = "scored"]
           /\ IF keep THEN Over(s) ELSE Step(s, "enqueue")
    /\ UNCHANGED <<task, app, filters, edit, work, history>>

\* Slip: an existing row is made claimable again.
EnqueueRequeues(s) ==
    /\ req[s].pc = "enqueue"
    /\ LET l == req[s].l
       IN  /\ task' = [task EXCEPT ![l] =
                         [id |-> IF HasTask(l) THEN @.id ELSE @.id + 1, status |-> "pending",
                          mode |-> IF s \in Finder THEN "filter" ELSE "manual",
                          filters |-> req[s].filters,
                          excused |-> edit.pc # "idle" \/ req[s].filters # filters]]
           /\ Step(s, "mark")
           /\ purged' = purged \ {l}
           /\ overtaken' = overtaken \ {l}
    /\ UNCHANGED <<match, app, filters, edit, work, deletions, failures, torn>>

\* enqueue: INSERT ... ON CONFLICT DO NOTHING on the key apply:<match>.  The row
\* is excused from the current filters when its pass overlaps a change of them.
Enqueue(s) ==
    /\ req[s].pc = "enqueue"
    /\ LET l == req[s].l
       IN  IF HasTask(l)
           THEN Step(s, "existing") /\ UNCHANGED <<task, purged, overtaken>>
           ELSE /\ task' = [task EXCEPT ![l] =
                              [id |-> @.id + 1, status |-> "pending",
                               mode |-> IF s \in Finder THEN "filter" ELSE "manual",
                               filters |-> req[s].filters,
                               excused |-> edit.pc # "idle" \/ req[s].filters # filters]]
                /\ Step(s, "mark")
                /\ purged' = purged \ {l}
                /\ overtaken' = overtaken \ {l}
    /\ UNCHANGED <<match, app, filters, edit, work, deletions, failures, torn>>

\* Slip: a row that was there already counts as done.
ReadExistingSkips(s) ==
    /\ req[s].pc = "existing"
    /\ Over(s)
    /\ UNCHANGED <<rows, edit, work, history>>

\* The conflicting row is read back; if it has gone, enqueue throws.
ReadExisting(s) ==
    /\ req[s].pc = "existing"
    /\ IF HasTask(req[s].l) THEN Step(s, "mark") ELSE Over(s)
    /\ UNCHANGED <<rows, edit, work, history>>

MarkQueued(s) ==
    /\ req[s].pc = "mark"
    /\ match' = [match EXCEPT ![req[s].l] = "queued"]
    /\ Over(s)
    /\ UNCHANGED <<task, app, filters, edit, work, history>>

---------------------------------------------------------------------------
(* Retrying a failed application from the dashboard: a read, three writes. *)

\* Rows from before the proof contract, "submitted" with neither a reference nor a proof,
\* may be retried as well; recordResult no longer writes such a row, and none is modelled.
RetryRead(d, l) ==
    /\ req[d].pc = "idle"
    /\ app[l] = "failed" /\ HasTask(l)
    /\ req' = [req EXCEPT ![d].pc = "retryTask", ![d].l = l, ![d].id = task[l].id]
    /\ UNCHANGED <<rows, edit, work, history>>

\* By id, whatever the row's status has become since the read.
RetryTask(d) ==
    /\ req[d].pc = "retryTask"
    /\ LET l == req[d].l
       IN  /\ task' = IF RowThere(l, req[d].id)
                      THEN [task EXCEPT ![l].status = "pending", ![l].excused = TRUE]
                      ELSE task
           /\ torn' = IF app[l] # "failed" THEN torn \cup {l} ELSE torn
           /\ overtaken' = IF HasTask(l) THEN overtaken ELSE overtaken \cup {l}
    /\ Step(d, "retryApp")
    /\ UNCHANGED <<match, app, filters, edit, work, deletions, failures, purged>>

RetryApp(d) ==
    /\ req[d].pc = "retryApp"
    /\ app' = [app EXCEPT ![req[d].l] = "draft"]
    /\ Step(d, "retryMatch")
    /\ UNCHANGED <<match, task, filters, edit, work, history>>

RetryMatch(d) ==
    /\ req[d].pc = "retryMatch"
    /\ match' = [match EXCEPT ![req[d].l] = "queued"]
    /\ Over(d)
    /\ UNCHANGED <<task, app, filters, edit, work, history>>

\* An exception, a lost connection or a restart: the statements so far stay.  A
\* discovery that only lost one listing goes on with the next.
RequestFails(s) ==
    /\ req[s].pc \notin {"idle", "loop"}
    /\ failures < MaxFailures
    /\ failures' = failures + 1
    /\ Over(s)
    /\ UNCHANGED <<rows, edit, work, deletions, purged, overtaken, torn>>

---------------------------------------------------------------------------
(* A change of filters: select the stale rows, delete them, then save.     *)

\* stalePendingQueueCondition, the SELECT of the transaction.
StalePending == {l \in Listing : task[l].status = "pending" /\ task[l].mode # "manual"}

EditSelect ==
    /\ "refilter" \in Deletions
    /\ edit.pc = "idle"
    /\ filters < MaxFilters
    /\ edit' = [pc |-> IF StalePending = {} THEN "write" ELSE "delete",
                sel |-> {<<l, task[l].id>> : l \in StalePending}]
    /\ UNCHANGED <<rows, req, work, history>>

\* Slip: the transaction rolls back and the save goes on.
RefilterNothing ==
    /\ edit.pc = "delete"
    /\ edit' = [pc |-> "write", sel |-> {}]
    /\ UNCHANGED <<rows, req, work, history>>

\* The DELETE goes by id alone; the transaction commits with the matches.
RefilterDelete ==
    /\ edit.pc = "delete"
    /\ LET ls == {l \in Listing : HasTask(l) /\ <<l, task[l].id>> \in edit.sel}
       IN  DeleteRows(ls, {l \in ls : task[l].status # "pending"})
    /\ match' = Unqueue({r[1] : r \in edit.sel})
    /\ edit' = [pc |-> "write", sel |-> {}]
    /\ UNCHANGED <<app, filters, req, work, failures, purged>>

EditWrite ==
    /\ edit.pc = "write"
    /\ filters' = filters + 1
    /\ edit' = NoEdit
    /\ UNCHANGED <<match, task, app, req, work, history>>

EditFails ==
    /\ edit.pc # "idle"
    /\ failures < MaxFailures
    /\ failures' = failures + 1
    /\ edit' = NoEdit
    /\ UNCHANGED <<rows, req, work, deletions, purged, overtaken, torn>>

---------------------------------------------------------------------------
(* Emptying the queue.                                                     *)

\* pursePendingQueue: one DELETE, which leaves the matches alone.
Purge ==
    /\ "purge" \in Deletions
    /\ LET ls == {l \in Listing : task[l].status = "pending"}
       IN  ls # {} /\ DeleteRows(ls, {}) /\ purged' = purged \cup ls
    /\ UNCHANGED <<match, app, filters, req, edit, work, failures>>

ResetStatus == {"pending", "leased", "failed"}

\* resetExtensionQueue, one statement for tasks and matches.
Reset ==
    /\ "reset" \in Deletions
    /\ LET ls == {l \in Listing : task[l].status \in ResetStatus}
       IN  ls # {} /\ DeleteRows(ls, {}) /\ match' = Unqueue(ls)
    /\ UNCHANGED <<app, filters, req, edit, work, failures, purged>>

---------------------------------------------------------------------------
(* The executors: claim, apply, and the two writes of recordResult.        *)

\* A row that has been claimed is kept by later filter changes.
Claim(e, l) ==
    /\ work[e].pc = "idle"
    /\ task[l].status = "pending"
    /\ task' = [task EXCEPT ![l].status = "leased", ![l].excused = TRUE]
    /\ work' = [work EXCEPT ![e] = [pc |-> "apply", l |-> l,
                                         id |-> task[l].id, res |-> "failed"]]
    /\ UNCHANGED <<match, app, filters, req, edit, history>>

\* The result request looks its row up by id: 404 when it has been deleted.
Report(e, res) ==
    /\ work[e].pc = "apply"
    /\ work' = [work EXCEPT ![e] = IF RowThere(work[e].l, work[e].id)
                                   THEN [work[e] EXCEPT !.pc = "save", !.res = res]
                                   ELSE IdleWork]
    /\ UNCHANGED <<rows, req, edit, history>>

\* Two results for one listing that interleave are torn as well.
SaveApplication(e) ==
    /\ work[e].pc = "save"
    /\ LET l == work[e].l
       IN  /\ app' = [app EXCEPT ![l] = work[e].res]
           /\ torn' = IF \E o \in Worker : work[o].pc = "finish" /\ work[o].l = l
                      THEN torn \cup {l} ELSE torn
    /\ work' = [work EXCEPT ![e].pc = "finish"]
    /\ UNCHANGED <<match, task, filters, req, edit, deletions, failures, purged, overtaken>>

FinishTask(e) ==
    /\ work[e].pc = "finish"
    /\ LET w == work[e]
       IN  task' = IF RowThere(w.l, w.id)
                   THEN [task EXCEPT ![w.l].status =
                           IF w.res \in {"failed", "verifying"} THEN w.res ELSE "succeeded"]
                   ELSE task
    /\ work' = [work EXCEPT ![e] = IdleWork]
    /\ UNCHANGED <<match, app, filters, req, edit, history>>

WorkerFails(e) ==
    /\ work[e].pc # "idle"
    /\ failures < MaxFailures
    /\ failures' = failures + 1
    /\ torn' = IF work[e].pc = "finish" THEN torn \cup {work[e].l} ELSE torn
    /\ work' = [work EXCEPT ![e] = IdleWork]
    /\ UNCHANGED <<rows, req, edit, deletions, purged, overtaken>>

\* The sweeps return a lease nobody works on any more (see ApplyDispatch).
LeaseReturns(l) ==
    /\ task[l].status = "leased"
    /\ \A e \in Worker : ~(work[e].l = l /\ work[e].id = task[l].id)
    /\ task' = [task EXCEPT ![l].status = "pending"]
    /\ UNCHANGED <<match, app, filters, req, edit, work, history>>

---------------------------------------------------------------------------
Discover(f) == UpsertMatch(f) \/ Enqueue(f) \/ ReadExisting(f) \/ MarkQueued(f)

FinderNext(f) ==
    \/ FindBegin(f) \/ FindEnd(f)
    \/ \E l \in Listing : FindListing(f, l)
    \/ Discover(f)

DashboardNext(d) ==
    \/ \E l \in Listing : Press(d, l) \/ RetryRead(d, l)
    \/ Discover(d)
    \/ RetryTask(d) \/ RetryApp(d) \/ RetryMatch(d)

EditNext == EditSelect \/ RefilterDelete \/ EditWrite \/ EditFails

WorkerNext(e) ==
    \/ \E l \in Listing : Claim(e, l)
    \/ \E res \in Outcome : Report(e, res)
    \/ SaveApplication(e) \/ FinishTask(e) \/ WorkerFails(e)

Next ==
    \/ \E f \in Finder : FinderNext(f)
    \/ \E d \in Dashboard : DashboardNext(d)
    \/ \E s \in Requester : RequestFails(s)
    \/ EditNext
    \/ Purge \/ Reset
    \/ \E e \in Worker : WorkerNext(e)
    \/ \E l \in Listing : LeaseReturns(l)

Spec == Init /\ [][Next]_vars

\* Discovery is started again and again by the extension's loop and the server's
\* schedule, and a pass goes through every listing it found.
FairSpec ==
    /\ Spec
    /\ \A f \in Finder : WF_vars(FindBegin(f)) /\ WF_vars(Discover(f))
    /\ \A f \in Finder : \A l \in Listing : SF_vars(FindListing(f, l))

---------------------------------------------------------------------------
(* Properties.                                                             *)

\* A match says "queued" without a row in the queue only after a purge, or when
\* the row was deleted under a request that was about to write the match.
StrandedExcused ==
    \A l \in Listing : match[l] = "queued" /\ ~HasTask(l) => l \in purged \cup overtaken

\* What has been applied for, or is being checked, is not offered again: not by
\* discovery, by hand or by a reset, unless its result was torn apart.
SettledNotOffered ==
    \A l \in Listing :
        app[l] \in {"submitted", "verifying", "skipped"} /\ task[l].status = "pending" =>
            l \in torn \/ InReport(l)

\* Once filters are saved, a task that was never claimed and was found with other
\* filters comes from a discovery that overlapped the change.
StaleTaskExcused ==
    \A l \in Listing :
        task[l].status = "pending" /\ task[l].mode = "filter" /\ task[l].filters # filters =>
            task[l].excused

\* A listing that discovery keeps finding gets into the queue, whatever failed or
\* was deleted before, unless it was stranded.
DiscoveryQueues ==
    \A l \in Listing :
        match[l] # "queued" ~>
            match[l] = "queued" /\ (HasTask(l) \/ l \in purged \cup overtaken)
=============================================================================
