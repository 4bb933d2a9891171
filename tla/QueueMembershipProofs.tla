------------------------ MODULE QueueMembershipProofs ------------------------
(* Machine-checked proofs about QueueMembership.                             *)
EXTENDS QueueMembership, TLAPS

---------------------------------------------------------------------------
(* Types.  Row ids count the insertions of a row, and a row is inserted again *)
(* only after a deletion, so their bound needs the number of deletions.       *)

\* A row was inserted at most once more often than rows were deleted.
RowInv ==
    /\ task \in [Listing -> TaskRow]
    /\ deletions \in 0..MaxDeletions
    /\ \A l \in Listing : task[l].id <= deletions + 1 /\ (~HasTask(l) => task[l].id <= deletions)

\* A request that is under way is about a listing.
RequestInv ==
    /\ req \in [Requester -> Request]
    /\ \A s \in Requester : req[s].pc \notin {"idle", "loop"} => req[s].l \in Listing

\* An executor that is at work works on a listing.
WorkInv ==
    /\ work \in [Worker -> Work]
    /\ \A e \in Worker : work[e].pc # "idle" => work[e].l \in Listing

\* The remaining variables, typed as in MembershipTypeOK; a change of filters
\* that is under way has not reached the bound.
OtherInv ==
    /\ match \in [Listing -> {"none", "scored", "queued"}]
    /\ app \in [Listing -> Outcome \cup {"none", "draft"}]
    /\ filters \in 0..MaxFilters
    /\ edit \in Edit
    /\ edit.pc # "idle" => filters < MaxFilters
    /\ failures \in 0..MaxFailures
    /\ purged \subseteq Listing /\ overtaken \subseteq Listing /\ torn \subseteq Listing

TypeInv == RowInv /\ RequestInv /\ WorkInv /\ OtherInv

\* The empty database satisfies the invariant.
LEMMA TypeInit == Init => TypeInv
BY MembershipAssumption
   DEF Init, TypeInv, RowInv, RequestInv, WorkInv, OtherInv, HasTask, NoTask, TaskRow,
       TaskStatus, RowId, IdleRequest, Request, RequestStep, NoEdit, Edit, IdleWork, Work,
       Outcome

\* A request gets a well-typed state.
LEMMA RequestSet ==
    ASSUME RequestInv, NEW s \in Requester, NEW r \in Request,
           r.pc \notin {"idle", "loop"} => r.l \in Listing,
           req' = [req EXCEPT ![s] = r]
    PROVE  RequestInv'
BY DEF RequestInv

\* A request that is under way goes to another step.
LEMMA RequestSteps ==
    ASSUME RequestInv, NEW s \in Requester, req[s].pc \notin {"idle", "loop"},
           NEW pc \in RequestStep, Step(s, pc)
    PROVE  RequestInv'
<1> DEFINE r == [req[s] EXCEPT !.pc = pc]
<1>1. r \in Request /\ r.l = req[s].l
  BY DEF RequestInv, Request
<1>2. req' = [req EXCEPT ![s] = r]
  BY DEF RequestInv, Step
<1>3. req[s].l \in Listing
  BY DEF RequestInv
<1> HIDE DEF r
<1>4. QED  BY <1>1, <1>2, <1>3, RequestSet

\* A request is over.
LEMMA RequestOver ==
    ASSUME RequestInv, NEW s \in Requester, Over(s)
    PROVE  RequestInv'
<1>1. IdleRequest \in Request /\ IdleRequest.pc = "idle"
  BY MembershipAssumption DEF IdleRequest, Request, RequestStep, RowId
<1>2. req[s].filters \in 0..MaxFilters
  BY DEF RequestInv, Request
<1>3. Searching(req[s].filters) \in Request /\ Searching(req[s].filters).pc = "loop"
  BY <1>2, MembershipAssumption DEF Searching, Request, RequestStep, RowId
<1>4. CASE s \in Finder
  BY <1>3, <1>4, RequestSet DEF Over
<1>5. CASE s \notin Finder
  BY <1>1, <1>5, RequestSet DEF Over
<1>6. QED  BY <1>4, <1>5

\* An executor gets a well-typed state.
LEMMA WorkSet ==
    ASSUME WorkInv, NEW e \in Worker, NEW w \in Work,
           w.pc # "idle" => w.l \in Listing,
           work' = [work EXCEPT ![e] = w]
    PROVE  WorkInv'
BY DEF WorkInv

\* An executor that is at work on a listing goes to another step.
LEMMA WorkEnds ==
    ASSUME WorkInv, NEW e \in Worker, work' = [work EXCEPT ![e] = IdleWork]
    PROVE  WorkInv'
<1>1. IdleWork \in Work /\ IdleWork.pc = "idle"
  BY MembershipAssumption DEF IdleWork, Work, RowId, Outcome
<1>2. QED  BY <1>1, WorkSet

\* A row keeps its id, and is not deleted.
LEMMA RowSet ==
    ASSUME RowInv, NEW l \in Listing, NEW r \in TaskRow,
           r.status # "none", r.id <= deletions + 1,
           task' = [task EXCEPT ![l] = r], UNCHANGED deletions
    PROVE  RowInv'
BY DEF RowInv, HasTask

\* Rows are deleted.
LEMMA RowsDeleted ==
    ASSUME TypeInv, NEW ls, NEW kept, DeleteRows(ls, kept)
    PROVE  RowInv' /\ overtaken' \subseteq Listing \cup ls /\ torn' \subseteq Listing \cup ls
<1>1. deletions \in Nat /\ deletions' \in 0..MaxDeletions /\ deletions' = deletions + 1
  BY MembershipAssumption DEF TypeInv, RowInv, DeleteRows
<1>2. \A l \in Listing : /\ task[l] \in TaskRow
                         /\ task[l].id \in RowId
                         /\ task[l].id <= deletions + 1
  BY DEF TypeInv, RowInv, TaskRow
<1>3. \A l \in Listing : NoTask(task[l].id) \in TaskRow /\ NoTask(task[l].id).id = task[l].id
  <2>1. \A id \in RowId : NoTask(id) \in TaskRow /\ NoTask(id).id = id
    BY MembershipAssumption DEF NoTask, TaskRow, TaskStatus
  <2>2. QED  BY <1>2, <2>1
<1>4. \A l \in Listing : task'[l] = IF l \in ls THEN NoTask(task[l].id)
                                    ELSE task[l]
  BY DEF DeleteRows
<1>5. task' \in [Listing -> TaskRow]
  BY <1>2, <1>3 DEF DeleteRows
<1>6. \A l \in Listing : task'[l].id = task[l].id
  BY <1>3, <1>4
<1>7. RowInv'
  BY <1>1, <1>2, <1>5, <1>6, MembershipAssumption DEF RowInv, HasTask, RowId
<1>8. overtaken' \subseteq Listing \cup ls /\ torn' \subseteq Listing \cup ls
  BY DEF DeleteRows, TypeInv, OtherInv
<1>9. QED  BY <1>7, <1>8

\* What an action does not touch keeps its part of the invariant.
LEMMA PartsKept ==
    ASSUME TypeInv
    PROVE  /\ UNCHANGED <<task, deletions>> => RowInv'
           /\ UNCHANGED req => RequestInv'
           /\ UNCHANGED work => WorkInv'
BY DEF TypeInv, RowInv, RequestInv, WorkInv, HasTask

\* The steps of discovery and of applying by hand.
LEMMA DiscoverTypes ==
    ASSUME TypeInv, NEW s \in Requester, Discover(s)
    PROVE  TypeInv'
<1> USE DEF rows, history
<1>1. CASE UpsertMatch(s)
  <2>1. req[s].pc \notin {"idle", "loop"} /\ (Over(s) \/ Step(s, "enqueue"))
    BY <1>1 DEF UpsertMatch
  <2>2. RequestInv'
    BY <2>1, RequestOver, RequestSteps DEF TypeInv, RequestStep
  <2>3. OtherInv'
    BY <1>1 DEF UpsertMatch, TypeInv, OtherInv
  <2>4. QED  BY <1>1, <2>2, <2>3, PartsKept DEF UpsertMatch, TypeInv
<1>2. CASE Enqueue(s)
  <2>1. req[s].pc \notin {"idle", "loop"} /\ (Step(s, "existing") \/ Step(s, "mark"))
    BY <1>2 DEF Enqueue
  <2>2. RequestInv'
    BY <2>1, RequestSteps DEF TypeInv, RequestStep
  <2>3. OtherInv'
    BY <1>2 DEF Enqueue, TypeInv, OtherInv
  <2>4. RowInv'
    <3> DEFINE l == req[s].l
    <3>1. l \in Listing /\ req[s] \in Request
      BY <2>1 DEF TypeInv, RequestInv
    <3>2. CASE HasTask(l)
      BY <1>2, <3>2, PartsKept DEF Enqueue
    <3>3. CASE ~HasTask(l)
      <4> DEFINE r == [id |-> task[l].id + 1, status |-> "pending",
                       mode |-> IF s \in Finder THEN "filter" ELSE "manual",
                       filters |-> req[s].filters,
                       excused |-> edit.pc # "idle" \/ req[s].filters # filters]
      <4>1. task[l] \in TaskRow /\ task[l].id <= deletions /\ deletions \in 0..MaxDeletions
        BY <3>1, <3>3 DEF TypeInv, RowInv
      <4>2. task[l].id + 1 \in RowId /\ task[l].id + 1 <= deletions + 1
        BY <4>1, MembershipAssumption DEF TaskRow, RowId
      <4>3. req[s].filters \in 0..MaxFilters
        BY <3>1 DEF Request
      <4>4. r \in TaskRow
        BY <4>2, <4>3 DEF TaskRow, TaskStatus
      <4>5. task' = [task EXCEPT ![l] = r] /\ UNCHANGED deletions
        BY <1>2, <3>3 DEF Enqueue
      <4>6. r.status # "none" /\ r.id <= deletions + 1
        BY <4>2
      <4> HIDE DEF r
      <4>7. QED  BY <3>1, <4>4, <4>5, <4>6, RowSet DEF TypeInv
    <3>4. QED  BY <3>2, <3>3
  <2>5. QED  BY <1>2, <2>2, <2>3, <2>4, PartsKept DEF Enqueue, TypeInv
<1>3. CASE ReadExisting(s)
  <2>1. req[s].pc \notin {"idle", "loop"} /\ (Over(s) \/ Step(s, "mark"))
    BY <1>3 DEF ReadExisting
  <2>2. RequestInv'
    BY <2>1, RequestOver, RequestSteps DEF TypeInv, RequestStep
  <2>3. QED  BY <1>3, <2>2, PartsKept DEF ReadExisting, TypeInv, OtherInv
<1>4. CASE MarkQueued(s)
  <2>1. RequestInv'
    BY <1>4, RequestOver DEF MarkQueued, TypeInv
  <2>2. OtherInv'
    BY <1>4 DEF MarkQueued, TypeInv, OtherInv
  <2>3. QED  BY <1>4, <2>1, <2>2, PartsKept DEF MarkQueued, TypeInv
<1>5. QED  BY <1>1, <1>2, <1>3, <1>4 DEF Discover

\* The other steps of a discovery pass.
LEMMA FinderTypes ==
    ASSUME TypeInv, NEW f \in Finder, FinderNext(f)
    PROVE  TypeInv'
<1> USE DEF rows, history
<1>0. f \in Requester
  BY DEF Requester
<1>1. CASE FindBegin(f)
  <2>1. Searching(filters) \in Request /\ Searching(filters).pc = "loop"
    BY MembershipAssumption
       DEF TypeInv, OtherInv, Searching, Request, RequestStep, RowId
  <2>2. RequestInv'
    BY <1>0, <1>1, <2>1, RequestSet DEF FindBegin, TypeInv
  <2>3. QED  BY <1>1, <2>2, PartsKept DEF FindBegin, TypeInv, OtherInv
<1>2. CASE FindEnd(f)
  <2>1. IdleRequest \in Request /\ IdleRequest.pc = "idle"
    BY MembershipAssumption DEF IdleRequest, Request, RequestStep, RowId
  <2>2. RequestInv'
    BY <1>0, <1>2, <2>1, RequestSet DEF FindEnd, TypeInv
  <2>3. QED  BY <1>2, <2>2, PartsKept DEF FindEnd, TypeInv, OtherInv
<1>3. ASSUME NEW l \in Listing, FindListing(f, l) PROVE TypeInv'
  <2> DEFINE r == [req[f] EXCEPT !.pc = "upsert", !.l = l]
  <2>1. r \in Request /\ r.l = l
    BY <1>0 DEF TypeInv, RequestInv, Request, RequestStep
  <2>2. req' = [req EXCEPT ![f] = r]
    BY <1>0, <1>3 DEF FindListing, TypeInv, RequestInv
  <2> HIDE DEF r
  <2>3. RequestInv'
    BY <1>0, <2>1, <2>2, RequestSet DEF TypeInv
  <2>4. QED  BY <1>3, <2>3, PartsKept DEF FindListing, TypeInv, OtherInv
<1>4. QED  BY <1>0, <1>1, <1>2, <1>3, DiscoverTypes DEF FinderNext

\* The steps of a dashboard request.
LEMMA DashboardTypes ==
    ASSUME TypeInv, NEW d \in Dashboard, DashboardNext(d)
    PROVE  TypeInv'
<1> USE DEF rows, history
<1>0. d \in Requester
  BY DEF Requester
<1>1. ASSUME NEW l \in Listing, Press(d, l) PROVE TypeInv'
  <2> DEFINE r == [req[d] EXCEPT !.pc = "upsert", !.l = l]
  <2>1. r \in Request /\ r.l = l
    BY <1>0 DEF TypeInv, RequestInv, Request, RequestStep
  <2>2. req' = [req EXCEPT ![d] = r]
    BY <1>0, <1>1 DEF Press, TypeInv, RequestInv
  <2> HIDE DEF r
  <2>3. RequestInv'
    BY <1>0, <2>1, <2>2, RequestSet DEF TypeInv
  <2>4. QED  BY <1>1, <2>3, PartsKept DEF Press, TypeInv, OtherInv
<1>2. ASSUME NEW l \in Listing, RetryRead(d, l) PROVE TypeInv'
  <2> DEFINE r == [req[d] EXCEPT !.pc = "retryTask", !.l = l, !.id = task[l].id]
  <2>1. task[l].id \in RowId
    BY DEF TypeInv, RowInv, TaskRow
  <2>2. r \in Request /\ r.l = l
    BY <1>0, <2>1 DEF TypeInv, RequestInv, Request, RequestStep
  <2>3. req' = [req EXCEPT ![d] = r]
    BY <1>0, <1>2 DEF RetryRead, TypeInv, RequestInv
  <2> HIDE DEF r
  <2>4. RequestInv'
    BY <1>0, <2>2, <2>3, RequestSet DEF TypeInv
  <2>5. QED  BY <1>2, <2>4, PartsKept DEF RetryRead, TypeInv, OtherInv
<1>3. CASE RetryTask(d)
  <2> DEFINE l == req[d].l
  <2>1. req[d].pc \notin {"idle", "loop"} /\ l \in Listing
    BY <1>0, <1>3 DEF RetryTask, TypeInv, RequestInv
  <2>2. RequestInv'
    BY <1>0, <1>3, <2>1, RequestSteps DEF RetryTask, TypeInv, RequestStep
  <2>3. OtherInv'
    BY <1>3, <2>1 DEF RetryTask, TypeInv, OtherInv
  <2>4. CASE RowThere(l, req[d].id)
    <3> DEFINE r == [task[l] EXCEPT !.status = "pending", !.excused = TRUE]
    <3>1. r \in TaskRow /\ r.status = "pending" /\ r.id = task[l].id
      BY <2>1 DEF TypeInv, RowInv, TaskRow, TaskStatus
    <3>2. task' = [task EXCEPT ![l] = r] /\ UNCHANGED deletions
      BY <1>3, <2>1, <2>4 DEF RetryTask, TypeInv, RowInv
    <3>3. task[l].id <= deletions + 1
      BY <2>1 DEF TypeInv, RowInv
    <3> HIDE DEF r
    <3>4. RowInv'
      BY <2>1, <3>1, <3>2, <3>3, RowSet DEF TypeInv
    <3>5. QED  BY <1>3, <2>2, <2>3, <3>4, PartsKept DEF RetryTask, TypeInv
  <2>5. CASE ~RowThere(l, req[d].id)
    BY <1>3, <2>2, <2>3, <2>5, PartsKept DEF RetryTask, TypeInv
  <2>6. QED  BY <2>4, <2>5
<1>4. CASE RetryApp(d)
  <2>1. RequestInv'
    BY <1>0, <1>4, RequestSteps DEF RetryApp, TypeInv, RequestStep
  <2>2. OtherInv'
    BY <1>4 DEF RetryApp, TypeInv, OtherInv
  <2>3. QED  BY <1>4, <2>1, <2>2, PartsKept DEF RetryApp, TypeInv
<1>5. CASE RetryMatch(d)
  <2>1. RequestInv'
    BY <1>0, <1>5, RequestOver DEF RetryMatch, TypeInv
  <2>2. OtherInv'
    BY <1>5 DEF RetryMatch, TypeInv, OtherInv
  <2>3. QED  BY <1>5, <2>1, <2>2, PartsKept DEF RetryMatch, TypeInv
<1>6. QED  BY <1>0, <1>1, <1>2, <1>3, <1>4, <1>5, DiscoverTypes DEF DashboardNext

\* A change of filters.
LEMMA EditTypes ==
    ASSUME TypeInv, EditNext
    PROVE  TypeInv'
<1> USE DEF rows, history
<1>1. CASE EditSelect
  <2>1. \A l \in StalePending : l \in Listing /\ task[l].id \in RowId
    BY DEF StalePending, TypeInv, RowInv, TaskRow
  <2>2. {<<l, task[l].id>> : l \in StalePending} \in SUBSET (Listing \X RowId)
    BY <2>1
  <2>3. edit' \in Edit /\ filters < MaxFilters
    BY <1>1, <2>2 DEF EditSelect, Edit
  <2>4. QED  BY <1>1, <2>3, PartsKept DEF EditSelect, TypeInv, OtherInv
<1>2. CASE RefilterDelete
  <2> DEFINE ls == {l \in Listing : HasTask(l) /\ <<l, task[l].id>> \in edit.sel}
             kept == {l \in ls : task[l].status # "pending"}
  <2>1. DeleteRows(ls, kept)
    BY <1>2 DEF RefilterDelete
  <2>2. ls \subseteq Listing
    OBVIOUS
  <2> HIDE DEF ls, kept
  <2>3. RowInv' /\ overtaken' \subseteq Listing /\ torn' \subseteq Listing
    BY <2>1, <2>2, RowsDeleted
  <2>4. match' \in [Listing -> {"none", "scored", "queued"}]
    BY <1>2 DEF RefilterDelete, Unqueue, TypeInv, OtherInv
  <2>5. edit' \in Edit /\ filters < MaxFilters
    BY <1>2 DEF RefilterDelete, Edit, TypeInv, OtherInv
  <2>6. QED  BY <1>2, <2>3, <2>4, <2>5, PartsKept DEF RefilterDelete, TypeInv, OtherInv
<1>3. CASE EditWrite
  <2>1. edit.pc = "write" /\ edit' = NoEdit /\ filters' = filters + 1
    BY <1>3 DEF EditWrite
  <2>2. filters' \in 0..MaxFilters
    BY <2>1, MembershipAssumption DEF TypeInv, OtherInv
  <2>3. NoEdit \in Edit /\ NoEdit.pc = "idle"
    BY DEF NoEdit, Edit
  <2>4. QED  BY <1>3, <2>1, <2>2, <2>3, PartsKept DEF EditWrite, TypeInv, OtherInv
<1>4. CASE EditFails
  <2>1. NoEdit \in Edit /\ NoEdit.pc = "idle"
    BY DEF NoEdit, Edit
  <2>2. failures' \in 0..MaxFailures
    BY <1>4, MembershipAssumption DEF EditFails, TypeInv, OtherInv
  <2>3. QED  BY <1>4, <2>1, <2>2, PartsKept DEF EditFails, TypeInv, OtherInv
<1>5. QED  BY <1>1, <1>2, <1>3, <1>4 DEF EditNext

\* A request that fails.
LEMMA RequestFailsTypes ==
    ASSUME TypeInv, NEW s \in Requester, RequestFails(s)
    PROVE  TypeInv'
<1> USE DEF rows, history
<1>1. RequestInv'
  BY RequestOver DEF RequestFails, TypeInv
<1>2. failures' \in 0..MaxFailures
  BY MembershipAssumption DEF RequestFails, TypeInv, OtherInv
<1>3. QED  BY <1>1, <1>2, PartsKept DEF RequestFails, TypeInv, OtherInv

\* Emptying the queue.
LEMMA DeletionTypes ==
    ASSUME TypeInv, Purge \/ Reset
    PROVE  TypeInv'
<1>1. CASE Purge
  <2> DEFINE ls == {l \in Listing : task[l].status = "pending"}
  <2>1. DeleteRows(ls, {}) /\ purged' = purged \cup ls /\ ls \subseteq Listing
    BY <1>1 DEF Purge
  <2> HIDE DEF ls
  <2>2. RowInv' /\ overtaken' \subseteq Listing /\ torn' \subseteq Listing
    BY <2>1, RowsDeleted
  <2>3. QED  BY <1>1, <2>1, <2>2, PartsKept DEF Purge, TypeInv, OtherInv
<1>2. CASE Reset
  <2> DEFINE ls == {l \in Listing : task[l].status \in ResetStatus}
  <2>1. DeleteRows(ls, {}) /\ match' = Unqueue(ls) /\ ls \subseteq Listing
    BY <1>2 DEF Reset
  <2> HIDE DEF ls
  <2>2. RowInv' /\ overtaken' \subseteq Listing /\ torn' \subseteq Listing
    BY <2>1, RowsDeleted
  <2>3. match' \in [Listing -> {"none", "scored", "queued"}]
    BY <2>1 DEF Unqueue, TypeInv, OtherInv
  <2>4. QED  BY <1>2, <2>2, <2>3, PartsKept DEF Reset, TypeInv, OtherInv
<1>3. QED  BY <1>1, <1>2

\* A listing's row gets another status, and keeps its id.
LEMMA RowStatus ==
    ASSUME TypeInv, NEW l \in Listing, NEW st \in TaskStatus \ {"none"},
           \/ task' = [task EXCEPT ![l].status = st]
           \/ task' = [task EXCEPT ![l].status = st, ![l].excused = TRUE],
           UNCHANGED deletions
    PROVE  RowInv'
<1>1. task[l] \in TaskRow /\ task[l].id <= deletions + 1
  BY DEF TypeInv, RowInv
<1>2. PICK r \in {[task[l] EXCEPT !.status = st],
                  [task[l] EXCEPT !.status = st, !.excused = TRUE]} :
        task' = [task EXCEPT ![l] = r]
  BY DEF TypeInv, RowInv
<1>3. r \in TaskRow /\ r.status = st /\ r.id = task[l].id
  BY <1>1, <1>2 DEF TaskRow
<1>4. QED  BY <1>1, <1>2, <1>3, RowSet DEF TypeInv

\* The executors, and the sweeps that return their leases.
LEMMA WorkerTypes ==
    ASSUME TypeInv, NEW e \in Worker, WorkerNext(e)
    PROVE  TypeInv'
<1> USE DEF rows, history
<1>0. work[e] \in Work /\ (work[e].pc # "idle" => work[e].l \in Listing)
  BY DEF TypeInv, WorkInv
<1>1. ASSUME NEW l \in Listing, Claim(e, l) PROVE TypeInv'
  <2> DEFINE w == [pc |-> "apply", l |-> l, id |-> task[l].id, res |-> "failed"]
  <2>1. task[l].id \in RowId
    BY DEF TypeInv, RowInv, TaskRow
  <2>2. w \in Work /\ w.l \in Listing
    BY <2>1 DEF Work, Outcome
  <2>3. work' = [work EXCEPT ![e] = w]
    BY <1>1 DEF Claim
  <2> HIDE DEF w
  <2>4. WorkInv'
    BY <2>2, <2>3, WorkSet DEF TypeInv
  <2>5. RowInv'
    <3>1. task' = [task EXCEPT ![l].status = "leased", ![l].excused = TRUE]
      BY <1>1 DEF Claim
    <3>2. "leased" \in TaskStatus \ {"none"} /\ UNCHANGED deletions
      BY <1>1 DEF Claim, TaskStatus
    <3>3. QED  BY <3>1, <3>2, RowStatus
  <2>6. QED  BY <1>1, <2>4, <2>5, PartsKept DEF Claim, TypeInv, OtherInv
<1>2. ASSUME NEW res \in Outcome, Report(e, res) PROVE TypeInv'
  <2> DEFINE w == [work[e] EXCEPT !.pc = "save", !.res = res]
  <2>1. w \in Work /\ w.l = work[e].l
    BY <1>0 DEF Work
  <2>2. work' = [work EXCEPT ![e] = w] \/ work' = [work EXCEPT ![e] = IdleWork]
    BY <1>2 DEF Report
  <2>3. work[e].l \in Listing
    BY <1>0, <1>2 DEF Report
  <2> HIDE DEF w
  <2>4. WorkInv'
    BY <2>1, <2>2, <2>3, WorkSet, WorkEnds DEF TypeInv
  <2>5. QED  BY <1>2, <2>4, PartsKept DEF Report, TypeInv, OtherInv
<1>3. CASE SaveApplication(e)
  <2> DEFINE w == [work[e] EXCEPT !.pc = "finish"]
  <2>1. w \in Work /\ w.l = work[e].l
    BY <1>0 DEF Work
  <2>2. work' = [work EXCEPT ![e] = w]
    BY <1>3 DEF SaveApplication, TypeInv, WorkInv
  <2>3. work[e].l \in Listing /\ work[e].res \in Outcome
    BY <1>0, <1>3 DEF SaveApplication, Work
  <2> HIDE DEF w
  <2>4. WorkInv'
    BY <2>1, <2>2, <2>3, WorkSet DEF TypeInv
  <2>5. OtherInv'
    BY <1>3, <2>3 DEF SaveApplication, TypeInv, OtherInv
  <2>6. QED  BY <1>3, <2>4, <2>5, PartsKept DEF SaveApplication, TypeInv
<1>4. CASE FinishTask(e)
  <2> DEFINE st == IF work[e].res \in {"failed", "verifying"} THEN work[e].res ELSE "succeeded"
  <2>1. work[e].l \in Listing /\ st \in TaskStatus \ {"none"}
    BY <1>0, <1>4 DEF FinishTask, Work, TaskStatus
  <2>2. WorkInv'
    BY <1>4, WorkEnds DEF FinishTask, TypeInv
  <2>3. UNCHANGED task \/ task' = [task EXCEPT ![work[e].l].status = st]
    BY <1>4 DEF FinishTask
  <2> HIDE DEF st
  <2>4. RowInv'
    BY <1>4, <2>1, <2>3, RowStatus, PartsKept DEF FinishTask
  <2>5. QED  BY <1>4, <2>2, <2>4, PartsKept DEF FinishTask, TypeInv, OtherInv
<1>5. CASE WorkerFails(e)
  <2>1. WorkInv'
    BY <1>5, WorkEnds DEF WorkerFails, TypeInv
  <2>2. failures' \in 0..MaxFailures
    BY <1>5, MembershipAssumption DEF WorkerFails, TypeInv, OtherInv
  <2>3. torn' \subseteq Listing
    BY <1>0, <1>5 DEF WorkerFails, TypeInv, OtherInv
  <2>4. QED  BY <1>5, <2>1, <2>2, <2>3, PartsKept DEF WorkerFails, TypeInv, OtherInv
<1>6. QED  BY <1>1, <1>2, <1>3, <1>4, <1>5 DEF WorkerNext

\* Every step keeps the types.
LEMMA TypeStep == TypeInv /\ [Next]_vars => TypeInv'
<1> SUFFICES ASSUME TypeInv, [Next]_vars PROVE TypeInv'
  OBVIOUS
<1>1. ASSUME NEW l \in Listing, LeaseReturns(l) PROVE TypeInv'
  <2>1. RowInv'
    <3>1. task' = [task EXCEPT ![l].status = "pending"]
      BY <1>1 DEF LeaseReturns
    <3>2. "pending" \in TaskStatus \ {"none"} /\ UNCHANGED deletions
      BY <1>1 DEF LeaseReturns, TaskStatus, history
    <3>3. QED  BY <3>1, <3>2, RowStatus
  <2>2. QED  BY <1>1, <2>1, PartsKept DEF LeaseReturns, TypeInv, OtherInv, history
<1>2. CASE UNCHANGED vars
  BY <1>2, PartsKept DEF vars, rows, history, TypeInv, OtherInv
<1>3. QED
  BY <1>1, <1>2, FinderTypes, DashboardTypes, RequestFailsTypes, EditTypes, DeletionTypes,
     WorkerTypes DEF Next

\* The invariant implies the module's type invariant.
LEMMA TypeImplies == TypeInv => MembershipTypeOK
BY DEF TypeInv, RowInv, RequestInv, WorkInv, OtherInv, MembershipTypeOK

\* The database and the requests always have their types: a row is inserted
\* only after a deletion, a request or an executor under way has a listing.
THEOREM MembershipTypeCorrect == Spec => []MembershipTypeOK
<1>1. QED  BY TypeInit, TypeStep, TypeImplies, PTL DEF Spec

---------------------------------------------------------------------------
(* The safety properties, proved for any number of listings, discovery       *)
(* passes, dashboard requests, executors, deletions, changes of filters and  *)
(* failures.                                                                 *)
---------------------------------------------------------------------------
(* What a step does to the rows and the requests.                            *)

\* A step of a request changes that request's place only.
LEMMA StepFacts ==
    ASSUME TypeInv, NEW s \in Requester, NEW pc, Step(s, pc)
    PROVE  /\ \A t \in Requester : t # s => req'[t] = req[t]
           /\ req'[s].pc = pc /\ req'[s].l = req[s].l
<1>1. req[s] \in Request
  BY DEF TypeInv, RequestInv
<1>2. QED  BY <1>1 DEF Step, TypeInv, RequestInv, Request

\* A request that is over is idle, or looks for the next listing.
LEMMA OverFacts ==
    ASSUME TypeInv, NEW s \in Requester, Over(s)
    PROVE  /\ \A t \in Requester : t # s => req'[t] = req[t]
           /\ req'[s].pc \in {"idle", "loop"}
BY DEF Over, Searching, IdleRequest, TypeInv, RequestInv

\* A row gets another status.
LEMMA StatusFacts ==
    ASSUME TypeInv, NEW l \in Listing, NEW st, task' = [task EXCEPT ![l].status = st]
    PROVE  /\ \A k \in Listing : k # l => task'[k] = task[k]
           /\ task'[l].status = st /\ task'[l].id = task[l].id
           /\ task'[l].mode = task[l].mode /\ task'[l].filters = task[l].filters
           /\ task'[l].excused = task[l].excused
<1>1. task[l] \in TaskRow
  BY DEF TypeInv, RowInv
<1>2. task' = [task EXCEPT ![l] = [task[l] EXCEPT !.status = st]]
  BY DEF TypeInv, RowInv
<1>3. QED  BY <1>1, <1>2 DEF TypeInv, RowInv, TaskRow

\* A row gets another status and is excused from the current filters.
LEMMA ExcusedFacts ==
    ASSUME TypeInv, NEW l \in Listing, NEW st,
           task' = [task EXCEPT ![l].status = st, ![l].excused = TRUE]
    PROVE  /\ \A k \in Listing : k # l => task'[k] = task[k]
           /\ task'[l].status = st /\ task'[l].id = task[l].id
           /\ task'[l].excused
<1>1. task[l] \in TaskRow
  BY DEF TypeInv, RowInv
<1>2. task' = [task EXCEPT ![l] = [task[l] EXCEPT !.status = st, !.excused = TRUE]]
  BY DEF TypeInv, RowInv
<1>3. QED  BY <1>1, <1>2 DEF TypeInv, RowInv, TaskRow

\* A row is inserted for a listing that has none.
LEMMA InsertFacts ==
    ASSUME TypeInv, NEW s \in Requester, Enqueue(s), ~HasTask(req[s].l)
    PROVE  /\ req[s].l \in Listing
           /\ \A k \in Listing : k # req[s].l => task'[k] = task[k]
           /\ task'[req[s].l].status = "pending"
           /\ task'[req[s].l].filters = req[s].filters
           /\ task'[req[s].l].excused = (edit.pc # "idle" \/ req[s].filters # filters)
           /\ Step(s, "mark")
           /\ purged' = purged \ {req[s].l} /\ overtaken' = overtaken \ {req[s].l}
<1> DEFINE l == req[s].l
           r == [id |-> task[l].id + 1, status |-> "pending",
                 mode |-> IF s \in Finder THEN "filter" ELSE "manual",
                 filters |-> req[s].filters,
                 excused |-> edit.pc # "idle" \/ req[s].filters # filters]
<1>1. l \in Listing
  BY DEF Enqueue, TypeInv, RequestInv
<1>2. /\ r.status = "pending" /\ r.filters = req[s].filters
      /\ r.excused = (edit.pc # "idle" \/ req[s].filters # filters)
  OBVIOUS
<1>3. /\ task' = [task EXCEPT ![l] = r]
      /\ Step(s, "mark") /\ purged' = purged \ {l} /\ overtaken' = overtaken \ {l}
  BY DEF Enqueue
<1> HIDE DEF r
<1>4. \A k \in Listing : task'[k] = IF k = l THEN r ELSE task[k]
  BY <1>3 DEF TypeInv, RowInv
<1>5. task'[l] = r
  BY <1>1, <1>4
<1>6. QED  BY <1>1, <1>2, <1>3, <1>4, <1>5

\* Rows are deleted.
LEMMA DeleteFacts ==
    ASSUME TypeInv, NEW ls, NEW kept, DeleteRows(ls, kept)
    PROVE  /\ \A k \in Listing : k \notin ls => task'[k] = task[k]
           /\ \A k \in Listing : k \in ls => task'[k].status = "none"
           /\ \A k \in ls : AboutToMark(k) => k \in overtaken'
           /\ \A k \in ls : InReport(k) \/ k \in kept => k \in torn'
           /\ overtaken \subseteq overtaken' /\ torn \subseteq torn'
BY DEF DeleteRows, NoTask

---------------------------------------------------------------------------
(* A match that says "queued" has a row, or is excused.                      *)

\* A request that will mark its match whatever happens has seen the row, or the
\* row was deleted since.
MarkingInv ==
    \A s \in Requester : req[s].pc \in {"mark", "retryApp", "retryMatch"} =>
        HasTask(req[s].l) \/ req[s].l \in overtaken

StrandedInv == TypeInv /\ StrandedExcused /\ MarkingInv

\* The steps of discovery and of applying by hand.
LEMMA StrandedDiscover ==
    ASSUME StrandedInv, NEW s \in Requester, Discover(s)
    PROVE  StrandedExcused' /\ MarkingInv'
<1>0. TypeInv /\ StrandedExcused /\ MarkingInv
  BY DEF StrandedInv
<1>a. req[s].pc \notin {"idle", "loop"} => req[s].l \in Listing
  BY <1>0 DEF TypeInv, RequestInv
<1> USE DEF rows, history
<1>1. CASE UpsertMatch(s)
  <2>1. /\ \A t \in Requester : t # s => req'[t] = req[t]
        /\ req'[s].pc \in {"idle", "loop", "enqueue"}
    BY <1>0, <1>1, OverFacts, StepFacts DEF UpsertMatch
  <2>2. \A l \in Listing : match'[l] = "queued" => match[l] = "queued"
    BY <1>0, <1>1 DEF UpsertMatch, TypeInv, OtherInv
  <2>3. UNCHANGED <<task, purged, overtaken>>
    BY <1>1 DEF UpsertMatch
  <2>4. QED  BY <1>0, <2>1, <2>2, <2>3 DEF StrandedExcused, MarkingInv, HasTask
<1>2. CASE Enqueue(s)
  <2>1. UNCHANGED match
    BY <1>2 DEF Enqueue
  <2>2. CASE HasTask(req[s].l)
    <3>1. /\ \A t \in Requester : t # s => req'[t] = req[t]
          /\ req'[s].pc = "existing"
          /\ UNCHANGED <<task, purged, overtaken>>
      BY <1>0, <1>2, <2>2, StepFacts DEF Enqueue
    <3>2. QED  BY <1>0, <2>1, <3>1 DEF StrandedExcused, MarkingInv, HasTask
  <2>3. CASE ~HasTask(req[s].l)
    <3>1. /\ \A t \in Requester : t # s => req'[t] = req[t]
          /\ req'[s].l = req[s].l
      BY <1>0, <1>2, <2>3, InsertFacts, StepFacts
    <3>2. \A k \in Listing : k # req[s].l => task'[k] = task[k]
      BY <1>0, <1>2, <2>3, InsertFacts
    <3>3. /\ task'[req[s].l].status = "pending"
          /\ purged' = purged \ {req[s].l} /\ overtaken' = overtaken \ {req[s].l}
      BY <1>0, <1>2, <2>3, InsertFacts
    <3>4. \A t \in Requester : req[t].pc \in {"mark", "retryApp", "retryMatch"} =>
            req[t].l \in Listing
      BY <1>0 DEF TypeInv, RequestInv
    <3>5. QED
      BY <1>0, <2>1, <3>1, <3>2, <3>3, <3>4 DEF StrandedExcused, MarkingInv, HasTask
  <2>4. QED  BY <2>2, <2>3
<1>3. CASE ReadExisting(s)
  <2>1. \A t \in Requester : t # s => req'[t] = req[t]
    BY <1>0, <1>3, OverFacts, StepFacts DEF ReadExisting
  <2>2. req'[s].pc \in {"idle", "loop"} \/ (HasTask(req[s].l) /\ req'[s].l = req[s].l)
    BY <1>0, <1>3, OverFacts, StepFacts DEF ReadExisting
  <2>3. UNCHANGED <<match, task, purged, overtaken>>
    BY <1>3 DEF ReadExisting
  <2>4. QED  BY <1>0, <2>1, <2>2, <2>3 DEF StrandedExcused, MarkingInv, HasTask
<1>4. CASE MarkQueued(s)
  <2>1. \A t \in Requester : t # s => req'[t] = req[t]
    BY <1>0, <1>4, OverFacts DEF MarkQueued
  <2>2. req'[s].pc \in {"idle", "loop"}
    BY <1>0, <1>4, OverFacts DEF MarkQueued
  <2>3. \A l \in Listing : match'[l] = "queued" => match[l] = "queued" \/ l = req[s].l
    BY <1>0, <1>4 DEF MarkQueued, TypeInv, OtherInv
  <2>4. UNCHANGED <<task, purged, overtaken>> /\ req[s].pc = "mark"
    BY <1>4 DEF MarkQueued
  <2>5. QED  BY <1>0, <2>1, <2>2, <2>3, <2>4 DEF StrandedExcused, MarkingInv, HasTask
<1>5. QED  BY <1>1, <1>2, <1>3, <1>4 DEF Discover

\* The retry from the dashboard.
LEMMA StrandedRetry ==
    ASSUME StrandedInv, NEW d \in Dashboard, RetryTask(d) \/ RetryApp(d) \/ RetryMatch(d)
    PROVE  StrandedExcused' /\ MarkingInv'
<1>0. TypeInv /\ StrandedExcused /\ MarkingInv /\ d \in Requester
  BY DEF StrandedInv, Requester
<1> USE DEF rows, history
<1>1. CASE RetryTask(d)
  <2> DEFINE l == req[d].l
  <2>1. l \in Listing
    BY <1>0, <1>1 DEF RetryTask, TypeInv, RequestInv
  <2>2. /\ \A t \in Requester : t # d => req'[t] = req[t]
        /\ req'[d].l = l
    BY <1>0, <1>1, StepFacts DEF RetryTask
  <2>3. \A k \in Listing : HasTask(k)' <=> HasTask(k)
    <3>1. CASE RowThere(l, req[d].id)
      <4>1. task' = [task EXCEPT ![l].status = "pending", ![l].excused = TRUE]
        BY <1>1, <3>1 DEF RetryTask
      <4>2. \A k \in Listing : k # l => task'[k] = task[k]
        BY <1>0, <2>1, <4>1, ExcusedFacts
      <4>3. task'[l].status = "pending"
        BY <1>0, <2>1, <4>1, ExcusedFacts
      <4>4. QED  BY <3>1, <4>2, <4>3 DEF HasTask, RowThere
    <3>2. CASE ~RowThere(l, req[d].id)
      BY <1>1, <3>2 DEF RetryTask, HasTask
    <3>3. QED  BY <3>1, <3>2
  <2>4. /\ UNCHANGED <<match, purged>>
        /\ overtaken' = IF HasTask(l) THEN overtaken ELSE overtaken \cup {l}
    BY <1>1 DEF RetryTask
  <2>5. \A t \in Requester : req[t].pc \in {"mark", "retryApp", "retryMatch"} =>
          req[t].l \in Listing
    BY <1>0 DEF TypeInv, RequestInv
  <2>6. StrandedExcused'
    BY <1>0, <2>3, <2>4 DEF StrandedExcused
  <2>7. \A k \in Listing : HasTask(k) \/ k \in overtaken => HasTask(k)' \/ k \in overtaken'
    BY <2>3, <2>4
  <2>8. \A k \in Listing : k = l => HasTask(k)' \/ k \in overtaken'
    BY <2>1, <2>3, <2>4
  <2>9. MarkingInv'
    BY <1>0, <2>1, <2>2, <2>5, <2>7, <2>8 DEF MarkingInv, HasTask
  <2>10. QED  BY <2>6, <2>9
<1>2. CASE RetryApp(d)
  <2>1. /\ \A t \in Requester : t # d => req'[t] = req[t]
        /\ req'[d].l = req[d].l
    BY <1>0, <1>2, StepFacts DEF RetryApp
  <2>2. UNCHANGED <<match, task, purged, overtaken>> /\ req[d].pc = "retryApp"
    BY <1>2 DEF RetryApp
  <2>3. QED  BY <1>0, <2>1, <2>2 DEF StrandedExcused, MarkingInv, HasTask
<1>3. CASE RetryMatch(d)
  <2>1. \A t \in Requester : t # d => req'[t] = req[t]
    BY <1>0, <1>3, OverFacts DEF RetryMatch
  <2>2. req'[d].pc \in {"idle", "loop"}
    BY <1>0, <1>3, OverFacts DEF RetryMatch
  <2>3. \A l \in Listing : match'[l] = "queued" => match[l] = "queued" \/ l = req[d].l
    BY <1>0, <1>3 DEF RetryMatch, TypeInv, OtherInv
  <2>4. UNCHANGED <<task, purged, overtaken>> /\ req[d].pc = "retryMatch"
    BY <1>3 DEF RetryMatch
  <2>5. QED  BY <1>0, <2>1, <2>2, <2>3, <2>4 DEF StrandedExcused, MarkingInv, HasTask
<1>4. QED  BY <1>1, <1>2, <1>3

\* Rows go together with their matches, or are recorded as purged.
LEMMA StrandedDelete ==
    ASSUME StrandedInv, NEW ls \in SUBSET Listing, NEW kept, DeleteRows(ls, kept),
           \A l \in Listing : match'[l] = "queued" =>
               match[l] = "queued" /\ (l \in ls => l \in purged'),
           purged \subseteq purged', UNCHANGED req
    PROVE  StrandedExcused' /\ MarkingInv'
<1>0. TypeInv /\ StrandedExcused /\ MarkingInv
  BY DEF StrandedInv
<1>1. /\ \A k \in Listing : k \notin ls => task'[k] = task[k]
      /\ \A k \in ls : AboutToMark(k) => k \in overtaken'
      /\ overtaken \subseteq overtaken'
  BY <1>0, DeleteFacts
<1>2. StrandedExcused'
  BY <1>0, <1>1 DEF StrandedExcused, HasTask
<1>3. \A t \in Requester : req[t].pc \in {"mark", "retryApp", "retryMatch"} =>
        req[t].l \in Listing
  BY <1>0 DEF TypeInv, RequestInv
<1>4. MarkingInv'
  BY <1>0, <1>1, <1>3 DEF MarkingInv, HasTask, AboutToMark
<1>5. QED  BY <1>2, <1>4

\* A step that only touches requests which are not about to mark.
LEMMA StrandedRequest ==
    ASSUME StrandedInv, NEW s \in Requester,
           \A t \in Requester : t # s => req'[t] = req[t],
           req'[s].pc \notin {"mark", "retryApp", "retryMatch"},
           UNCHANGED <<match, task, purged, overtaken>>
    PROVE  StrandedExcused' /\ MarkingInv'
BY DEF StrandedInv, StrandedExcused, MarkingInv, HasTask

\* A step of an executor or a sweep changes statuses only.
LEMMA StrandedStatus ==
    ASSUME StrandedInv, UNCHANGED <<match, req, purged, overtaken>>,
           \/ UNCHANGED task
           \/ \E l \in Listing, st \in TaskStatus \ {"none"} :
                 /\ HasTask(l)
                 /\ \/ task' = [task EXCEPT ![l].status = st]
                    \/ task' = [task EXCEPT ![l].status = st, ![l].excused = TRUE]
    PROVE  StrandedExcused' /\ MarkingInv'
<1>0. TypeInv /\ StrandedExcused /\ MarkingInv
  BY DEF StrandedInv
<1>1. \A k \in Listing : HasTask(k)' <=> HasTask(k)
  <2>1. CASE UNCHANGED task
    BY <2>1 DEF HasTask
  <2>2. ASSUME NEW l \in Listing, NEW st \in TaskStatus \ {"none"}, HasTask(l),
               \/ task' = [task EXCEPT ![l].status = st]
               \/ task' = [task EXCEPT ![l].status = st, ![l].excused = TRUE]
        PROVE  \A k \in Listing : HasTask(k)' <=> HasTask(k)
    <3>1. /\ \A k \in Listing : k # l => task'[k] = task[k]
          /\ task'[l].status = st
      BY <1>0, <2>2, StatusFacts, ExcusedFacts
    <3>2. QED  BY <2>2, <3>1 DEF HasTask
  <2>3. QED  BY <2>1, <2>2
<1>2. \A t \in Requester : req[t].pc \in {"mark", "retryApp", "retryMatch"} =>
        req[t].l \in Listing
  BY <1>0 DEF TypeInv, RequestInv
<1>3. StrandedExcused'
  BY <1>0, <1>1 DEF StrandedExcused
<1>4. MarkingInv'
  BY <1>0, <1>1, <1>2 DEF MarkingInv, HasTask
<1>5. QED  BY <1>3, <1>4

\* An executor claims a pending row, or finishes a row with a result.
LEMMA WorkerRows ==
    ASSUME TypeInv, NEW e \in Worker, WorkerNext(e)
    PROVE  /\ UNCHANGED <<match, filters, req, edit, purged, overtaken>>
           /\ \/ UNCHANGED task
              \/ \E l \in Listing :
                    /\ task[l].status = "pending"
                    /\ task' = [task EXCEPT ![l].status = "leased", ![l].excused = TRUE]
              \/ \E l \in Listing, st \in {"failed", "verifying", "succeeded"} :
                    HasTask(l) /\ task' = [task EXCEPT ![l].status = st]
<1> USE DEF rows, history
<1>1. ASSUME NEW l \in Listing, Claim(e, l)
      PROVE  /\ UNCHANGED <<match, filters, req, edit, purged, overtaken>>
             /\ task[l].status = "pending"
             /\ task' = [task EXCEPT ![l].status = "leased", ![l].excused = TRUE]
  BY <1>1 DEF Claim
<1>2. ASSUME \/ \E res \in Outcome : Report(e, res)
             \/ SaveApplication(e)
             \/ WorkerFails(e)
      PROVE  UNCHANGED <<match, task, filters, req, edit, purged, overtaken>>
  BY <1>2 DEF Report, SaveApplication, WorkerFails
<1>3. CASE FinishTask(e)
  <2> DEFINE l == work[e].l
             st == IF work[e].res \in {"failed", "verifying"} THEN work[e].res ELSE "succeeded"
  <2>1. l \in Listing /\ st \in {"failed", "verifying", "succeeded"}
    BY <1>3 DEF FinishTask, TypeInv, WorkInv
  <2>2. UNCHANGED task \/ (HasTask(l) /\ task' = [task EXCEPT ![l].status = st])
    BY <1>3 DEF FinishTask, RowThere
  <2>3. UNCHANGED <<match, filters, req, edit, purged, overtaken>>
    BY <1>3 DEF FinishTask
  <2> HIDE DEF l, st
  <2>4. QED  BY <2>1, <2>2, <2>3
<1>4. QED  BY <1>1, <1>2, <1>3 DEF WorkerNext

\* Every step keeps matches and rows together, but for the excused ones.
LEMMA StrandedStep == StrandedInv /\ TypeInv' /\ [Next]_vars => StrandedInv'
<1> SUFFICES ASSUME StrandedInv, [Next]_vars PROVE StrandedExcused' /\ MarkingInv'
  BY DEF StrandedInv
<1>0. TypeInv
  BY DEF StrandedInv
<1> USE DEF rows, history
<1>1. ASSUME NEW f \in Finder, FinderNext(f) PROVE StrandedExcused' /\ MarkingInv'
  <2>0. f \in Requester
    BY DEF Requester
  <2>1. CASE FindBegin(f) \/ FindEnd(f) \/ \E l \in Listing : FindListing(f, l)
    <3>1. /\ \A t \in Requester : t # f => req'[t] = req[t]
          /\ req'[f].pc \notin {"mark", "retryApp", "retryMatch"}
      BY <1>0, <2>0, <2>1 DEF FindBegin, FindEnd, FindListing, Searching, IdleRequest,
                              TypeInv, RequestInv, Request
    <3>2. UNCHANGED <<match, task, purged, overtaken>>
      BY <2>1 DEF FindBegin, FindEnd, FindListing
    <3>3. QED  BY <2>0, <3>1, <3>2, StrandedRequest
  <2>2. CASE Discover(f)
    BY <2>0, <2>2, StrandedDiscover
  <2>3. QED  BY <1>1, <2>1, <2>2 DEF FinderNext
<1>2. ASSUME NEW d \in Dashboard, DashboardNext(d) PROVE StrandedExcused' /\ MarkingInv'
  <2>0. d \in Requester
    BY DEF Requester
  <2>1. CASE \E l \in Listing : Press(d, l) \/ RetryRead(d, l)
    <3>1. /\ \A t \in Requester : t # d => req'[t] = req[t]
          /\ req'[d].pc \notin {"mark", "retryApp", "retryMatch"}
      BY <1>0, <2>0, <2>1 DEF Press, RetryRead, TypeInv, RequestInv, Request
    <3>2. UNCHANGED <<match, task, purged, overtaken>>
      BY <2>1 DEF Press, RetryRead
    <3>3. QED  BY <2>0, <3>1, <3>2, StrandedRequest
  <2>2. CASE Discover(d)
    BY <2>0, <2>2, StrandedDiscover
  <2>3. CASE RetryTask(d) \/ RetryApp(d) \/ RetryMatch(d)
    BY <2>3, StrandedRetry
  <2>4. QED  BY <1>2, <2>1, <2>2, <2>3 DEF DashboardNext
<1>3. ASSUME NEW s \in Requester, RequestFails(s) PROVE StrandedExcused' /\ MarkingInv'
  <2>1. /\ \A t \in Requester : t # s => req'[t] = req[t]
        /\ req'[s].pc \in {"idle", "loop"}
    BY <1>0, <1>3, OverFacts DEF RequestFails
  <2>2. UNCHANGED <<match, task, purged, overtaken>>
    BY <1>3 DEF RequestFails
  <2>3. QED  BY <2>1, <2>2, StrandedRequest
<1>4. CASE EditNext
  <2>1. CASE EditSelect \/ EditWrite \/ EditFails
    <3>1. UNCHANGED <<match, task, req, purged, overtaken>>
      BY <2>1 DEF EditSelect, EditWrite, EditFails
    <3>2. QED  BY <3>1, StrandedStatus
  <2>2. CASE RefilterDelete
    <3> DEFINE ls == {l \in Listing : HasTask(l) /\ <<l, task[l].id>> \in edit.sel}
               kept == {l \in ls : task[l].status # "pending"}
    <3>1. DeleteRows(ls, kept) /\ UNCHANGED <<req, purged>>
      BY <2>2 DEF RefilterDelete
    <3>2. \A l \in Listing : match'[l] = "queued" => match[l] = "queued" /\ l \notin ls
      BY <2>2 DEF RefilterDelete, Unqueue
    <3>3. ls \in SUBSET Listing
      OBVIOUS
    <3> HIDE DEF ls, kept
    <3>4. QED  BY <3>1, <3>2, <3>3, StrandedDelete
  <2>3. QED  BY <1>4, <2>1, <2>2 DEF EditNext
<1>5. CASE Purge
  <2> DEFINE ls == {l \in Listing : task[l].status = "pending"}
  <2>1. DeleteRows(ls, {}) /\ purged' = purged \cup ls /\ UNCHANGED <<match, req>>
    BY <1>5 DEF Purge
  <2>2. ls \in SUBSET Listing
    OBVIOUS
  <2> HIDE DEF ls
  <2>3. QED  BY <2>1, <2>2, StrandedDelete
<1>6. CASE Reset
  <2> DEFINE ls == {l \in Listing : task[l].status \in ResetStatus}
  <2>1. DeleteRows(ls, {}) /\ match' = Unqueue(ls) /\ UNCHANGED <<req, purged>>
    BY <1>6 DEF Reset
  <2>2. ls \in SUBSET Listing
    OBVIOUS
  <2> HIDE DEF ls
  <2>3. \A l \in Listing : match'[l] = "queued" => match[l] = "queued" /\ l \notin ls
    BY <2>1 DEF Unqueue
  <2>4. QED  BY <2>1, <2>2, <2>3, StrandedDelete
<1>7. ASSUME NEW e \in Worker, WorkerNext(e) PROVE StrandedExcused' /\ MarkingInv'
  <2>1. \A l \in Listing : task[l].status = "pending" => HasTask(l)
    BY DEF HasTask
  <2>2. \/ UNCHANGED task
        \/ \E l \in Listing, st \in TaskStatus \ {"none"} :
              /\ HasTask(l)
              /\ \/ task' = [task EXCEPT ![l].status = st]
                 \/ task' = [task EXCEPT ![l].status = st, ![l].excused = TRUE]
    BY <1>0, <1>7, <2>1, WorkerRows DEF TaskStatus
  <2>3. UNCHANGED <<match, req, purged, overtaken>>
    BY <1>0, <1>7, WorkerRows
  <2>4. QED  BY <2>2, <2>3, StrandedStatus
<1>8. ASSUME NEW l \in Listing, LeaseReturns(l) PROVE StrandedExcused' /\ MarkingInv'
  <2>1. /\ task' = [task EXCEPT ![l].status = "pending"]
        /\ UNCHANGED <<match, req, purged, overtaken>>
    BY <1>8 DEF LeaseReturns
  <2>2. HasTask(l) /\ "pending" \in TaskStatus \ {"none"}
    BY <1>8 DEF LeaseReturns, HasTask, TaskStatus
  <2>3. QED  BY <2>1, <2>2, StrandedStatus
<1>9. CASE UNCHANGED vars
  BY <1>9, StrandedStatus DEF vars
<1>10. QED  BY <1>1, <1>2, <1>3, <1>4, <1>5, <1>6, <1>7, <1>8, <1>9 DEF Next

\* A match says "queued" without a row only after a purge, or when its row went
\* under a request that was about to write the match: whatever the number of
\* discovery passes, tabs, executors, resets, filter changes and failures.
THEOREM OnlyPurgesStrand == Spec => []StrandedExcused
<1>1. Init => StrandedInv
  <2>1. Init => StrandedExcused /\ MarkingInv
    BY DEF Init, StrandedExcused, MarkingInv, IdleRequest
  <2>2. QED  BY <2>1, TypeInit DEF StrandedInv
<1>2. StrandedInv /\ [Next]_vars => StrandedInv'
  BY TypeStep, StrandedStep DEF StrandedInv
<1>3. StrandedInv => StrandedExcused
  BY DEF StrandedInv
<1>4. QED  BY <1>1, <1>2, <1>3, PTL DEF Spec

---------------------------------------------------------------------------
(* A row of other filters than the saved ones is excused.                    *)

\* A row that discovery inserted, that nobody claimed and no change of filters
\* overlapped.
Plain(l) == task[l].status = "pending" /\ task[l].mode = "filter" /\ ~task[l].excused

\* A claimed row is excused; a change of filters has selected the plain rows and,
\* once it has deleted them, there are none.
EditInv ==
    /\ \A l \in Listing : task[l].status = "leased" => task[l].excused
    /\ edit.pc = "delete" => \A l \in Listing : Plain(l) => <<l, task[l].id>> \in edit.sel
    /\ edit.pc = "write" => \A l \in Listing : ~Plain(l)

StaleInv == TypeInv /\ EditInv /\ StaleTaskExcused

\* A step that makes no row plain and leaves the filters and their change alone.
LEMMA StaleKept ==
    ASSUME StaleInv, UNCHANGED <<filters, edit>>,
           \A l \in Listing :
               \/ task'[l] = task[l]
               \/ task'[l].status \notin {"pending", "leased"}
               \/ task'[l].excused
    PROVE  EditInv' /\ StaleTaskExcused'
<1>1. EditInv /\ StaleTaskExcused
  BY DEF StaleInv
<1>2. \A l \in Listing : Plain(l)' => task'[l] = task[l] /\ Plain(l)
  BY DEF Plain
<1>3. EditInv'
  BY <1>1, <1>2 DEF EditInv
<1>4. StaleTaskExcused'
  BY <1>1 DEF StaleTaskExcused
<1>5. QED  BY <1>3, <1>4

\* A row that is inserted is excused, or is of the saved filters and no change
\* is under way.
LEMMA StaleInsert ==
    ASSUME StaleInv, NEW s \in Requester, Enqueue(s), ~HasTask(req[s].l)
    PROVE  EditInv' /\ StaleTaskExcused'
<1> DEFINE l == req[s].l
<1>0. TypeInv /\ EditInv /\ StaleTaskExcused
  BY DEF StaleInv
<1>1. /\ \A k \in Listing : k # l => task'[k] = task[k]
      /\ task'[l].status = "pending" /\ task'[l].filters = req[s].filters
      /\ task'[l].excused = (edit.pc # "idle" \/ req[s].filters # filters)
  BY <1>0, InsertFacts
<1>2. UNCHANGED <<filters, edit>>
  BY DEF Enqueue
<1>3. CASE edit.pc # "idle" \/ req[s].filters # filters
  BY <1>1, <1>2, <1>3, StaleKept
<1>4. CASE edit.pc = "idle" /\ req[s].filters = filters
  <2>1. EditInv'
    BY <1>0, <1>1, <1>2, <1>4 DEF EditInv
  <2>2. StaleTaskExcused'
    BY <1>0, <1>1, <1>2, <1>4 DEF StaleTaskExcused
  <2>3. QED  BY <2>1, <2>2
<1>5. QED  BY <1>3, <1>4

\* The change of filters itself.
LEMMA StaleEdit ==
    ASSUME StaleInv, EditNext
    PROVE  EditInv' /\ StaleTaskExcused'
<1>0. TypeInv /\ EditInv /\ StaleTaskExcused
  BY DEF StaleInv
<1> USE DEF rows, history
<1>1. CASE EditSelect
  <2>1. UNCHANGED <<task, filters>>
    BY <1>1 DEF EditSelect
  <2>2. edit'.pc = IF StalePending = {} THEN "write" ELSE "delete"
    BY <1>1 DEF EditSelect
  <2>3. edit'.sel = {<<l, task[l].id>> : l \in StalePending}
    BY <1>1 DEF EditSelect
  <2>4. \A l \in Listing : Plain(l) => l \in StalePending
    BY DEF Plain, StalePending
  <2>5. \A l \in Listing : Plain(l) => <<l, task[l].id>> \in edit'.sel
    BY <2>3, <2>4
  <2>6. edit'.pc = "write" => \A l \in Listing : ~Plain(l)
    BY <2>2, <2>4
  <2>7. EditInv'
    BY <1>0, <2>1, <2>5, <2>6 DEF EditInv, Plain
  <2>8. QED  BY <1>0, <2>1, <2>7 DEF StaleTaskExcused
<1>2. CASE RefilterDelete
  <2> DEFINE ls == {l \in Listing : HasTask(l) /\ <<l, task[l].id>> \in edit.sel}
             kept == {l \in ls : task[l].status # "pending"}
  <2>1. DeleteRows(ls, kept) /\ UNCHANGED filters /\ edit'.pc = "write" /\ edit.pc = "delete"
    BY <1>2 DEF RefilterDelete
  <2>2. \A l \in Listing : Plain(l) => l \in ls
    BY <1>0, <2>1 DEF EditInv, Plain, HasTask
  <2> HIDE DEF ls, kept
  <2>3. /\ \A k \in Listing : k \notin ls => task'[k] = task[k]
        /\ \A k \in Listing : k \in ls => task'[k].status = "none"
    BY <1>0, <2>1, DeleteFacts
  <2>4. \A l \in Listing : ~Plain(l)'
    BY <2>2, <2>3 DEF Plain
  <2>5. EditInv'
    BY <1>0, <2>1, <2>3, <2>4 DEF EditInv
  <2>6. StaleTaskExcused'
    BY <2>4 DEF StaleTaskExcused, Plain
  <2>7. QED  BY <2>5, <2>6
<1>3. CASE EditWrite
  <2>1. edit.pc = "write" /\ edit' = NoEdit /\ UNCHANGED task
    BY <1>3 DEF EditWrite
  <2>2. \A l \in Listing : ~Plain(l)
    BY <1>0, <2>1 DEF EditInv
  <2>3. EditInv'
    BY <1>0, <2>1 DEF EditInv, NoEdit
  <2>4. StaleTaskExcused'
    BY <2>1, <2>2 DEF StaleTaskExcused, Plain
  <2>5. QED  BY <2>3, <2>4
<1>4. CASE EditFails
  <2>1. edit' = NoEdit /\ UNCHANGED <<task, filters>>
    BY <1>4 DEF EditFails
  <2>2. QED  BY <1>0, <2>1 DEF EditInv, NoEdit, StaleTaskExcused
<1>5. QED  BY <1>1, <1>2, <1>3, <1>4 DEF EditNext

\* Rows that are deleted, by anyone but the change of filters.
LEMMA StaleDelete ==
    ASSUME StaleInv, NEW ls \in SUBSET Listing, DeleteRows(ls, {}), UNCHANGED <<filters, edit>>
    PROVE  EditInv' /\ StaleTaskExcused'
<1>1. TypeInv
  BY DEF StaleInv
<1>2. /\ \A k \in Listing : k \notin ls => task'[k] = task[k]
      /\ \A k \in Listing : k \in ls => task'[k].status = "none"
  BY <1>1, DeleteFacts
<1>3. QED  BY <1>2, StaleKept

\* Every step keeps stale rows excused.
LEMMA StaleStep == StaleInv /\ TypeInv' /\ [Next]_vars => StaleInv'
<1> SUFFICES ASSUME StaleInv, [Next]_vars PROVE EditInv' /\ StaleTaskExcused'
  BY DEF StaleInv
<1>0. TypeInv /\ EditInv
  BY DEF StaleInv
<1> USE DEF rows, history
<1>1. ASSUME NEW s \in Requester, Discover(s) PROVE EditInv' /\ StaleTaskExcused'
  <2>1. CASE Enqueue(s) /\ ~HasTask(req[s].l)
    BY <2>1, StaleInsert
  <2>2. CASE ~(Enqueue(s) /\ ~HasTask(req[s].l))
    <3>1. UNCHANGED <<task, filters, edit>>
      BY <1>1, <2>2 DEF Discover, UpsertMatch, Enqueue, ReadExisting, MarkQueued
    <3>2. QED  BY <3>1, StaleKept
  <2>3. QED  BY <2>1, <2>2
<1>2. ASSUME NEW d \in Dashboard, RetryTask(d) PROVE EditInv' /\ StaleTaskExcused'
  <2> DEFINE l == req[d].l
  <2>1. UNCHANGED <<filters, edit>>
    BY <1>2 DEF RetryTask
  <2>2. l \in Listing
    BY <1>0, <1>2 DEF RetryTask, TypeInv, RequestInv, Requester
  <2>3. \/ UNCHANGED task
        \/ task' = [task EXCEPT ![l].status = "pending", ![l].excused = TRUE]
    BY <1>2 DEF RetryTask
  <2>4. CASE UNCHANGED task
    BY <2>1, <2>4, StaleKept
  <2>5. CASE task' = [task EXCEPT ![l].status = "pending", ![l].excused = TRUE]
    <3>1. (\A k \in Listing : k # l => task'[k] = task[k]) /\ task'[l].excused
      BY <1>0, <2>2, <2>5, ExcusedFacts
    <3>2. QED  BY <2>1, <3>1, StaleKept
  <2>6. QED  BY <2>3, <2>4, <2>5
<1>3. ASSUME NEW f \in Finder, FinderNext(f) PROVE EditInv' /\ StaleTaskExcused'
  <2>0. f \in Requester
    BY DEF Requester
  <2>1. CASE Discover(f)
    BY <1>1, <2>0, <2>1
  <2>2. CASE FindBegin(f) \/ FindEnd(f) \/ \E l \in Listing : FindListing(f, l)
    <3>1. UNCHANGED <<task, filters, edit>>
      BY <2>2 DEF FindBegin, FindEnd, FindListing
    <3>2. QED  BY <3>1, StaleKept
  <2>3. QED  BY <1>3, <2>1, <2>2 DEF FinderNext
<1>4. ASSUME NEW d \in Dashboard, DashboardNext(d) PROVE EditInv' /\ StaleTaskExcused'
  <2>0. d \in Requester
    BY DEF Requester
  <2>1. CASE Discover(d) \/ RetryTask(d)
    BY <1>1, <1>2, <2>0, <2>1
  <2>2. CASE \/ \E l \in Listing : Press(d, l) \/ RetryRead(d, l)
             \/ RetryApp(d) \/ RetryMatch(d)
    <3>1. UNCHANGED <<task, filters, edit>>
      BY <2>2 DEF Press, RetryRead, RetryApp, RetryMatch
    <3>2. QED  BY <3>1, StaleKept
  <2>3. QED  BY <1>4, <2>1, <2>2 DEF DashboardNext
<1>5. ASSUME NEW s \in Requester, RequestFails(s) PROVE EditInv' /\ StaleTaskExcused'
  <2>1. UNCHANGED <<task, filters, edit>>
    BY <1>5 DEF RequestFails
  <2>2. QED  BY <2>1, StaleKept
<1>6. CASE Purge \/ Reset
  <2>1. PICK ls \in SUBSET Listing : DeleteRows(ls, {}) /\ UNCHANGED <<filters, edit>>
    BY <1>6 DEF Purge, Reset
  <2>2. QED  BY <2>1, StaleDelete
<1>7. ASSUME NEW e \in Worker, WorkerNext(e) PROVE EditInv' /\ StaleTaskExcused'
  <2>1. UNCHANGED <<filters, edit>>
    BY <1>0, <1>7, WorkerRows
  <2>2. CASE UNCHANGED task
    BY <2>1, <2>2, StaleKept
  <2>3. ASSUME NEW l \in Listing,
               task' = [task EXCEPT ![l].status = "leased", ![l].excused = TRUE]
        PROVE  EditInv' /\ StaleTaskExcused'
    <3>1. (\A k \in Listing : k # l => task'[k] = task[k]) /\ task'[l].excused
      BY <1>0, <2>3, ExcusedFacts
    <3>2. QED  BY <2>1, <3>1, StaleKept
  <2>4. ASSUME NEW l \in Listing, NEW st \in {"failed", "verifying", "succeeded"},
               task' = [task EXCEPT ![l].status = st]
        PROVE  EditInv' /\ StaleTaskExcused'
    <3>1. (\A k \in Listing : k # l => task'[k] = task[k]) /\ task'[l].status = st
      BY <1>0, <2>4, StatusFacts
    <3>2. QED  BY <2>1, <3>1, StaleKept
  <2>5. QED  BY <1>0, <1>7, <2>2, <2>3, <2>4, WorkerRows
<1>8. ASSUME NEW l \in Listing, LeaseReturns(l) PROVE EditInv' /\ StaleTaskExcused'
  <2>1. /\ task' = [task EXCEPT ![l].status = "pending"]
        /\ UNCHANGED <<filters, edit>>
        /\ task[l].status = "leased"
    BY <1>8 DEF LeaseReturns
  <2>2. /\ \A k \in Listing : k # l => task'[k] = task[k]
        /\ task'[l].excused = task[l].excused
    BY <1>0, <2>1, StatusFacts
  <2>3. task[l].excused
    BY <1>0, <2>1 DEF EditInv
  <2>4. QED  BY <2>1, <2>2, <2>3, StaleKept
<1>9. CASE UNCHANGED vars
  BY <1>9, StaleKept DEF vars
<1>10. QED  BY <1>1, <1>3, <1>4, <1>5, <1>6, <1>7, <1>8, <1>9, StaleEdit DEF Next

\* Once filters are saved, a task of other filters was claimed before, or its
\* discovery overlapped a change of filters.
THEOREM RefilterLeavesNoStale == Spec => []StaleTaskExcused
<1>1. Init => StaleInv
  <2>1. Init => EditInv /\ StaleTaskExcused
    BY DEF Init, EditInv, Plain, StaleTaskExcused, NoTask, NoEdit
  <2>2. QED  BY <2>1, TypeInit DEF StaleInv
<1>2. StaleInv /\ [Next]_vars => StaleInv'
  BY TypeStep, StaleStep DEF StaleInv
<1>3. StaleInv => StaleTaskExcused
  BY DEF StaleInv
<1>4. QED  BY <1>1, <1>2, <1>3, PTL DEF Spec

---------------------------------------------------------------------------
(* What has been applied for is not offered again.                           *)

Settled(l) == app[l] \in {"submitted", "verifying", "skipped"}
Offered(l) == task[l].status \in {"none", "pending", "leased", "failed"}
Finishing(e) == work[e].pc = "finish"

\* An executor that reports has its row, or its result is torn.
ReportInv ==
    \A e \in Worker : work[e].pc \in {"save", "finish"} =>
        RowThere(work[e].l, work[e].id) \/ work[e].l \in torn

\* A settled application whose row may be offered is about to be finished.
SettledInv ==
    \A l \in Listing : Settled(l) /\ Offered(l) =>
        l \in torn \/ \E e \in Worker : Finishing(e) /\ work[e].l = l

\* An executor that is to finish a failure has not settled the application.
FailureInv ==
    \A e \in Worker : Finishing(e) /\ work[e].res = "failed" =>
        ~Settled(work[e].l) \/ work[e].l \in torn

OfferInv == TypeInv /\ ReportInv /\ SettledInv /\ FailureInv

\* The property follows: a pending row may be offered.
LEMMA OfferImplies == OfferInv => SettledNotOffered
<1> SUFFICES ASSUME OfferInv, NEW l \in Listing, Settled(l), task[l].status = "pending",
                    l \notin torn
             PROVE  InReport(l)
  BY DEF SettledNotOffered, Settled
<1>1. Offered(l)
  BY DEF Offered
<1>2. PICK e \in Worker : Finishing(e) /\ work[e].l = l
  BY <1>1 DEF OfferInv, SettledInv
<1>3. QED  BY <1>2 DEF InReport, Finishing

\* A step that leaves applications and executors alone, and changes rows so that
\* none is lost to an executor and none that was not offered is.
LEMMA OfferRows ==
    ASSUME OfferInv, UNCHANGED <<app, work>>, torn \subseteq torn',
           \A l \in Listing :
               \/ /\ task'[l].id = task[l].id
                  /\ HasTask(l)' <=> HasTask(l)
                  /\ Offered(l)' => Offered(l) \/ ~Settled(l) \/ l \in torn'
               \/ /\ InReport(l) => l \in torn'
                  /\ Offered(l)' => Offered(l) \/ l \in torn'
    PROVE  ReportInv' /\ SettledInv' /\ FailureInv'
<1>0. TypeInv /\ ReportInv /\ SettledInv /\ FailureInv
  BY DEF OfferInv
<1>1. \A e \in Worker : work[e].pc \in {"save", "finish"} => work[e].l \in Listing
  BY <1>0 DEF TypeInv, WorkInv
<1>2. ReportInv'
  <2> SUFFICES ASSUME NEW e \in Worker, work[e].pc \in {"save", "finish"},
                      work[e].l \notin torn'
               PROVE  RowThere(work[e].l, work[e].id)'
    BY DEF ReportInv, RowThere, HasTask
  <2>1. PICK l \in Listing : l = work[e].l
    BY <1>1
  <2>2. InReport(l) /\ l \notin torn'
    BY <2>1 DEF InReport
  <2>3. task'[l].id = task[l].id /\ (HasTask(l)' <=> HasTask(l))
    BY <2>2
  <2>4. RowThere(l, work[e].id)
    BY <1>0, <2>1, <2>2 DEF ReportInv
  <2>5. QED  BY <2>1, <2>3, <2>4 DEF RowThere, HasTask
<1>3. SettledInv'
  <2> SUFFICES ASSUME NEW l \in Listing, Settled(l), Offered(l)', l \notin torn'
               PROVE  \E e \in Worker : Finishing(e) /\ work[e].l = l
    BY DEF SettledInv, Settled, Finishing
  <2>1. Offered(l) /\ l \notin torn
    OBVIOUS
  <2>2. QED  BY <1>0, <2>1 DEF SettledInv
<1>4. FailureInv'
  BY <1>0 DEF FailureInv, Finishing, Settled
<1>5. QED  BY <1>2, <1>3, <1>4

\* Rows go, of listings that may be offered or whose result is torn by it.
LEMMA OfferDelete ==
    ASSUME OfferInv, NEW ls \in SUBSET Listing, NEW kept, DeleteRows(ls, kept),
           \A l \in ls : Offered(l) \/ l \in kept, UNCHANGED <<app, work>>
    PROVE  ReportInv' /\ SettledInv' /\ FailureInv'
<1>0. TypeInv
  BY DEF OfferInv
<1>1. /\ \A k \in Listing : k \notin ls => task'[k] = task[k]
      /\ \A k \in ls : InReport(k) \/ k \in kept => k \in torn'
      /\ torn \subseteq torn'
  BY <1>0, DeleteFacts
<1>2. \A l \in Listing :
        \/ /\ task'[l].id = task[l].id
           /\ HasTask(l)' <=> HasTask(l)
           /\ Offered(l)' => Offered(l) \/ ~Settled(l) \/ l \in torn'
        \/ /\ InReport(l) => l \in torn'
           /\ Offered(l)' => Offered(l) \/ l \in torn'
  BY <1>1 DEF HasTask, Offered
<1>3. QED  BY <1>1, <1>2, OfferRows

\* A row is inserted where there was none.
LEMMA OfferInsert ==
    ASSUME OfferInv, NEW s \in Requester, Enqueue(s)
    PROVE  ReportInv' /\ SettledInv' /\ FailureInv'
<1> DEFINE l == req[s].l
<1>0. TypeInv /\ ReportInv
  BY DEF OfferInv
<1>1. UNCHANGED <<app, work, torn>>
  BY DEF Enqueue
<1>2. CASE HasTask(l)
  <2>1. UNCHANGED task
    BY <1>2 DEF Enqueue
  <2>2. QED  BY <1>1, <2>1, OfferRows DEF HasTask, Offered
<1>3. CASE ~HasTask(l)
  <2>1. \A k \in Listing : k # l => task'[k] = task[k]
    BY <1>0, <1>3, InsertFacts
  <2>2. \A k \in Listing : k = l => (InReport(k) => k \in torn')
    BY <1>0, <1>1, <1>3 DEF ReportInv, InReport, RowThere
  <2>3. \A k \in Listing : k = l => Offered(k)
    BY <1>3 DEF Offered, HasTask
  <2>4. \A k \in Listing :
          \/ /\ task'[k].id = task[k].id
             /\ HasTask(k)' <=> HasTask(k)
             /\ Offered(k)' => Offered(k) \/ ~Settled(k) \/ k \in torn'
          \/ /\ InReport(k) => k \in torn'
             /\ Offered(k)' => Offered(k) \/ k \in torn'
    BY <2>1, <2>2, <2>3 DEF HasTask, Offered
  <2>5. QED  BY <1>1, <2>4, OfferRows
<1>4. QED  BY <1>2, <1>3

\* The retry takes a failed application's row, or tears the result.
LEMMA OfferRetry ==
    ASSUME OfferInv, NEW d \in Dashboard, RetryTask(d) \/ RetryApp(d)
    PROVE  ReportInv' /\ SettledInv' /\ FailureInv'
<1> DEFINE l == req[d].l
<1>0. TypeInv /\ ReportInv /\ SettledInv /\ FailureInv
  BY DEF OfferInv
<1>1. l \in Listing
  BY <1>0 DEF RetryTask, RetryApp, TypeInv, RequestInv, Requester
<1> USE DEF rows, history
<1>2. CASE RetryTask(d)
  <2>1. UNCHANGED <<app, work>> /\ torn' = IF app[l] # "failed" THEN torn \cup {l} ELSE torn
    BY <1>2 DEF RetryTask
  <2>2. \A k \in Listing : k = l => ~Settled(k) \/ k \in torn'
    BY <2>1 DEF Settled
  <2>3. CASE RowThere(l, req[d].id)
    <3>1. task' = [task EXCEPT ![l].status = "pending", ![l].excused = TRUE]
      BY <1>2, <2>3 DEF RetryTask
    <3>2. /\ \A k \in Listing : k # l => task'[k] = task[k]
          /\ task'[l].status = "pending" /\ task'[l].id = task[l].id
      BY <1>0, <1>1, <3>1, ExcusedFacts
    <3>3. \A k \in Listing :
            /\ task'[k].id = task[k].id
            /\ HasTask(k)' <=> HasTask(k)
            /\ Offered(k)' => Offered(k) \/ ~Settled(k) \/ k \in torn'
      BY <2>2, <2>3, <3>2 DEF HasTask, Offered, RowThere
    <3>4. QED  BY <2>1, <3>3, OfferRows
  <2>4. CASE ~RowThere(l, req[d].id)
    <3>1. UNCHANGED task
      BY <1>2, <2>4 DEF RetryTask
    <3>2. QED  BY <2>1, <3>1, OfferRows DEF HasTask, Offered
  <2>5. QED  BY <2>3, <2>4
<1>3. CASE RetryApp(d)
  <2>1. UNCHANGED <<task, work, torn>> /\ app' = [app EXCEPT ![l] = "draft"]
    BY <1>3 DEF RetryApp
  <2>2. \A k \in Listing : Settled(k)' => Settled(k)
    BY <1>0, <1>1, <2>1 DEF Settled, TypeInv, OtherInv
  <2>3. ReportInv'
    BY <1>0, <2>1 DEF ReportInv, RowThere, HasTask
  <2>4. SettledInv'
    BY <1>0, <2>1, <2>2 DEF SettledInv, Offered, Finishing
  <2>5. \A e \in Worker : Finishing(e) => work[e].l \in Listing
    BY <1>0 DEF TypeInv, WorkInv, Finishing
  <2>6. \A e \in Worker : Finishing(e) /\ Settled(work[e].l)' => Settled(work[e].l)
    BY <2>1, <2>2, <2>5 DEF Settled
  <2>7. FailureInv'
    BY <1>0, <2>1, <2>6 DEF FailureInv, Finishing
  <2>8. QED  BY <2>3, <2>4, <2>7
<1>4. QED  BY <1>2, <1>3

\* An executor reports, and writes the application.
LEMMA OfferReport ==
    ASSUME OfferInv, NEW e \in Worker,
           SaveApplication(e) \/ (\E res \in Outcome : Report(e, res))
    PROVE  ReportInv' /\ SettledInv' /\ FailureInv'
<1>0. TypeInv /\ ReportInv /\ SettledInv /\ FailureInv /\ work[e] \in Work
  BY DEF OfferInv, TypeInv, WorkInv
<1> USE DEF rows, history
<1>1. ASSUME NEW res \in Outcome, Report(e, res)
      PROVE  ReportInv' /\ SettledInv' /\ FailureInv'
  <2> DEFINE w == [work[e] EXCEPT !.pc = "save", !.res = res]
  <2>1. w.pc = "save" /\ w.l = work[e].l /\ w.id = work[e].id
    BY <1>0 DEF Work
  <2>2. IdleWork.pc = "idle"
    BY DEF IdleWork
  <2>3. UNCHANGED <<task, app, torn>> /\ work[e].pc = "apply"
    BY <1>1 DEF Report
  <2>4. /\ \A o \in Worker : o # e => work'[o] = work[o]
        /\ work'[e] = IF RowThere(work[e].l, work[e].id) THEN w ELSE IdleWork
    BY <1>0, <1>1 DEF Report, TypeInv, WorkInv
  <2> HIDE DEF w
  <2>5. ReportInv'
    BY <1>0, <2>1, <2>2, <2>3, <2>4 DEF ReportInv, RowThere, HasTask
  <2>6. \A o \in Worker : Finishing(o)' <=> Finishing(o)
    BY <2>1, <2>2, <2>3, <2>4 DEF Finishing
  <2>7. \A o \in Worker : Finishing(o) => work'[o] = work[o]
    BY <2>3, <2>4 DEF Finishing
  <2>8. SettledInv'
    BY <1>0, <2>3, <2>6, <2>7 DEF SettledInv, Settled, Offered
  <2>9. FailureInv'
    BY <1>0, <2>3, <2>6, <2>7 DEF FailureInv, Settled
  <2>10. QED  BY <2>5, <2>8, <2>9
<1>2. CASE SaveApplication(e)
  <2> DEFINE l == work[e].l
             w == [work[e] EXCEPT !.pc = "finish"]
  <2>1. w.pc = "finish" /\ w.l = l /\ w.id = work[e].id /\ w.res = work[e].res
    BY <1>0 DEF Work
  <2>2. /\ UNCHANGED task /\ work[e].pc = "save"
        /\ app' = [app EXCEPT ![l] = work[e].res]
        /\ torn \subseteq torn'
        /\ \A o \in Worker : Finishing(o) /\ work[o].l = l => l \in torn'
    BY <1>2 DEF SaveApplication, Finishing
  <2>3. /\ \A o \in Worker : o # e => work'[o] = work[o]
        /\ work'[e] = w
    BY <1>0, <1>2 DEF SaveApplication, TypeInv, WorkInv
  <2>4. l \in Listing
    BY <1>0, <2>2 DEF TypeInv, WorkInv
  <2> HIDE DEF w
  <2>5. \A k \in Listing : app'[k] = IF k = l THEN work[e].res ELSE app[k]
    BY <1>0, <2>2, <2>4 DEF TypeInv, OtherInv
  <2>6. ReportInv'
    BY <1>0, <2>1, <2>2, <2>3 DEF ReportInv, RowThere, HasTask
  <2>7. SettledInv'
    <3> SUFFICES ASSUME NEW k \in Listing, app'[k] \in {"submitted", "verifying", "skipped"},
                        Offered(k), k \notin torn'
                 PROVE  \E o \in Worker : work'[o].pc = "finish" /\ work'[o].l = k
      BY <2>2 DEF SettledInv, Settled, Offered, Finishing
    <3>1. CASE k = l
      BY <2>1, <2>3, <3>1
    <3>2. CASE k # l
      <4>1. PICK o \in Worker : Finishing(o) /\ work[o].l = k
        BY <1>0, <2>2, <2>5, <3>2 DEF SettledInv, Settled
      <4>2. work'[o] = work[o]
        BY <2>2, <2>3, <4>1 DEF Finishing
      <4>3. QED  BY <4>1, <4>2 DEF Finishing
    <3>3. QED  BY <3>1, <3>2
  <2>8. FailureInv'
    <3> SUFFICES ASSUME NEW o \in Worker, work'[o].pc = "finish", work'[o].res = "failed",
                        work'[o].l \notin torn'
                 PROVE  app'[work'[o].l] \notin {"submitted", "verifying", "skipped"}
      BY DEF FailureInv, Settled, Finishing
    <3>1. CASE o = e
      BY <2>1, <2>3, <2>4, <2>5, <3>1
    <3>2. CASE o # e
      <4>1. work'[o] = work[o] /\ Finishing(o)
        BY <2>3, <3>2 DEF Finishing
      <4>2. work[o].l # l
        BY <2>2, <4>1
      <4>3. work[o].l \in Listing /\ ~Settled(work[o].l)
        BY <1>0, <2>2, <4>1 DEF FailureInv, TypeInv, WorkInv, Finishing
      <4>4. QED  BY <2>5, <4>1, <4>2, <4>3 DEF Settled
    <3>3. QED  BY <3>1, <3>2
  <2>9. QED  BY <2>6, <2>7, <2>8
<1>3. QED  BY <1>1, <1>2

\* An executor leaves its work: it has finished the row, or its result is torn.
LEMMA OfferLeaves ==
    ASSUME OfferInv, NEW e \in Worker, UNCHANGED app,
           work' = [work EXCEPT ![e] = IdleWork],
           torn \subseteq torn',
           \A l \in Listing : /\ task'[l].id = task[l].id
                              /\ HasTask(l)' <=> HasTask(l)
                              /\ Offered(l)' => Offered(l) \/ ~Settled(l) \/ l \in torn',
           Finishing(e) =>
               \/ work[e].l \in torn'
               \/ ~Settled(work[e].l)
               \/ \A l \in Listing : l = work[e].l => ~Offered(l)'
    PROVE  ReportInv' /\ SettledInv' /\ FailureInv'
<1>0. TypeInv /\ ReportInv /\ SettledInv /\ FailureInv
  BY DEF OfferInv
<1>1. /\ \A o \in Worker : o # e => work'[o] = work[o]
      /\ work'[e].pc = "idle"
  BY <1>0 DEF IdleWork, TypeInv, WorkInv
<1>2. \A o \in Worker : work[o].pc # "idle" => work[o].l \in Listing
  BY <1>0 DEF TypeInv, WorkInv
<1>3. ReportInv'
  <2> SUFFICES ASSUME NEW o \in Worker, work'[o].pc \in {"save", "finish"},
                      work'[o].l \notin torn'
               PROVE  RowThere(work[o].l, work[o].id)' /\ work'[o] = work[o]
    BY DEF ReportInv, RowThere, HasTask
  <2>1. work'[o] = work[o] /\ work[o].l \notin torn
    BY <1>1
  <2>2. RowThere(work[o].l, work[o].id) /\ work[o].l \in Listing
    BY <1>0, <1>2, <2>1 DEF ReportInv
  <2>3. QED  BY <2>1, <2>2 DEF RowThere, HasTask
<1>4. SettledInv'
  <2> SUFFICES ASSUME NEW l \in Listing, Settled(l), Offered(l)', l \notin torn'
               PROVE  \E o \in Worker : work'[o].pc = "finish" /\ work'[o].l = l
    BY DEF SettledInv, Settled, Finishing
  <2>1. PICK o \in Worker : Finishing(o) /\ work[o].l = l
    BY <1>0 DEF SettledInv
  <2>2. o # e
    BY <2>1
  <2>3. QED  BY <1>1, <2>1, <2>2 DEF Finishing
<1>5. FailureInv'
  BY <1>0, <1>1 DEF FailureInv, Finishing, Settled
<1>6. QED  BY <1>3, <1>4, <1>5

\* The executors.
LEMMA OfferWorker ==
    ASSUME OfferInv, NEW e \in Worker, WorkerNext(e)
    PROVE  ReportInv' /\ SettledInv' /\ FailureInv'
<1>0. TypeInv /\ ReportInv /\ SettledInv /\ FailureInv
  BY DEF OfferInv
<1> USE DEF rows, history
<1>1. ASSUME NEW l \in Listing, Claim(e, l) PROVE ReportInv' /\ SettledInv' /\ FailureInv'
  <2> DEFINE w == [pc |-> "apply", l |-> l, id |-> task[l].id, res |-> "failed"]
  <2>1. task' = [task EXCEPT ![l].status = "leased", ![l].excused = TRUE]
    BY <1>1 DEF Claim
  <2>2. /\ \A k \in Listing : k # l => task'[k] = task[k]
        /\ task'[l].status = "leased" /\ task'[l].id = task[l].id
    BY <1>0, <2>1, ExcusedFacts
  <2>3. /\ UNCHANGED <<app, torn>> /\ task[l].status = "pending" /\ work[e].pc = "idle"
        /\ work' = [work EXCEPT ![e] = w]
    BY <1>1 DEF Claim
  <2>4. w.pc = "apply"
    OBVIOUS
  <2> HIDE DEF w
  <2>5. /\ \A o \in Worker : o # e => work'[o] = work[o]
        /\ work'[e].pc = "apply"
    BY <1>0, <2>3, <2>4 DEF TypeInv, WorkInv
  <2>6. \A k \in Listing : /\ task'[k].id = task[k].id
                           /\ HasTask(k)' <=> HasTask(k)
                           /\ Offered(k)' <=> Offered(k)
    BY <2>2, <2>3 DEF HasTask, Offered
  <2>7. \A o \in Worker : work[o].pc # "idle" => work[o].l \in Listing /\ o # e
    BY <1>0, <2>3 DEF TypeInv, WorkInv
  <2>8. ReportInv'
    <3> SUFFICES ASSUME NEW o \in Worker, work'[o].pc \in {"save", "finish"},
                        work'[o].l \notin torn
                 PROVE  RowThere(work[o].l, work[o].id)' /\ work'[o] = work[o]
      BY <2>3 DEF ReportInv, RowThere, HasTask
    <3>1. work'[o] = work[o]
      BY <2>5
    <3>2. RowThere(work[o].l, work[o].id) /\ work[o].l \in Listing
      BY <1>0, <2>7, <3>1 DEF ReportInv
    <3>3. QED  BY <2>6, <3>1, <3>2 DEF RowThere, HasTask
  <2>9. SettledInv'
    <3> SUFFICES ASSUME NEW k \in Listing, Settled(k), Offered(k), k \notin torn
                 PROVE  \E o \in Worker : work'[o].pc = "finish" /\ work'[o].l = k
      BY <2>3, <2>6 DEF SettledInv, Settled, Finishing
    <3>1. PICK o \in Worker : Finishing(o) /\ work[o].l = k
      BY <1>0 DEF SettledInv
    <3>2. QED  BY <2>5, <2>7, <3>1 DEF Finishing
  <2>10. FailureInv'
    BY <1>0, <2>3, <2>5 DEF FailureInv, Finishing, Settled
  <2>11. QED  BY <2>8, <2>9, <2>10
<1>2. CASE FinishTask(e)
  <2> DEFINE l == work[e].l
             st == IF work[e].res \in {"failed", "verifying"} THEN work[e].res ELSE "succeeded"
  <2>1. /\ UNCHANGED <<app, torn>> /\ work[e].pc = "finish"
        /\ work' = [work EXCEPT ![e] = IdleWork]
    BY <1>2 DEF FinishTask
  <2>2. l \in Listing
    BY <1>0, <2>1 DEF TypeInv, WorkInv
  <2>3. st # "failed" => st \in {"verifying", "succeeded"}
    OBVIOUS
  <2>4. st = "failed" => ~Settled(l) \/ l \in torn
    BY <1>0, <2>1 DEF FailureInv, Finishing
  <2>5. CASE RowThere(l, work[e].id)
    <3>1. task' = [task EXCEPT ![l].status = st]
      BY <1>2, <2>5 DEF FinishTask
    <3> HIDE DEF st
    <3>2. /\ \A k \in Listing : k # l => task'[k] = task[k]
          /\ task'[l].status = st /\ task'[l].id = task[l].id
      BY <1>0, <2>2, <3>1, StatusFacts
    <3>3. st # "none"
      BY <2>3
    <3>4. \A k \in Listing :
            /\ task'[k].id = task[k].id
            /\ HasTask(k)' <=> HasTask(k)
            /\ Offered(k)' => Offered(k) \/ ~Settled(k) \/ k \in torn
      BY <2>3, <2>4, <2>5, <3>2, <3>3 DEF HasTask, Offered, RowThere
    <3>5. \/ l \in torn
          \/ ~Settled(l)
          \/ \A k \in Listing : k = l => ~Offered(k)'
      BY <2>3, <2>4, <3>2 DEF Offered
    <3>6. QED  BY <2>1, <3>4, <3>5, OfferLeaves
  <2>6. CASE ~RowThere(l, work[e].id)
    <3>1. UNCHANGED task
      BY <1>2, <2>6 DEF FinishTask
    <3>2. l \in torn
      BY <1>0, <2>1, <2>6 DEF ReportInv
    <3>3. QED  BY <2>1, <3>1, <3>2, OfferLeaves DEF HasTask, Offered
  <2>7. QED  BY <2>5, <2>6
<1>3. CASE WorkerFails(e)
  <2>1. /\ UNCHANGED <<task, app>> /\ work' = [work EXCEPT ![e] = IdleWork]
        /\ torn \subseteq torn' /\ (Finishing(e) => work[e].l \in torn')
    BY <1>3 DEF WorkerFails, Finishing
  <2>2. QED  BY <2>1, OfferLeaves DEF HasTask, Offered
<1>4. QED  BY <1>1, <1>2, <1>3, OfferReport DEF WorkerNext

\* Every step keeps a settled application from being offered.
LEMMA OfferStep == OfferInv /\ TypeInv' /\ [Next]_vars => OfferInv'
<1> SUFFICES ASSUME OfferInv, [Next]_vars PROVE ReportInv' /\ SettledInv' /\ FailureInv'
  BY DEF OfferInv
<1>0. TypeInv
  BY DEF OfferInv
<1> USE DEF rows, history
<1>1. ASSUME UNCHANGED <<task, app, work, torn>>
      PROVE  ReportInv' /\ SettledInv' /\ FailureInv'
  BY <1>1, OfferRows DEF HasTask, Offered
<1>2. ASSUME NEW s \in Requester, Discover(s) PROVE ReportInv' /\ SettledInv' /\ FailureInv'
  <2>1. CASE Enqueue(s)
    BY <2>1, OfferInsert
  <2>2. CASE UpsertMatch(s) \/ ReadExisting(s) \/ MarkQueued(s)
    BY <1>1, <2>2 DEF UpsertMatch, ReadExisting, MarkQueued
  <2>3. QED  BY <1>2, <2>1, <2>2 DEF Discover
<1>3. ASSUME NEW f \in Finder, FinderNext(f) PROVE ReportInv' /\ SettledInv' /\ FailureInv'
  <2>1. CASE FindBegin(f) \/ FindEnd(f) \/ \E l \in Listing : FindListing(f, l)
    BY <1>1, <2>1 DEF FindBegin, FindEnd, FindListing
  <2>2. QED  BY <1>2, <1>3, <2>1 DEF FinderNext, Requester
<1>4. ASSUME NEW d \in Dashboard, DashboardNext(d) PROVE ReportInv' /\ SettledInv' /\ FailureInv'
  <2>1. CASE (\E l \in Listing : Press(d, l) \/ RetryRead(d, l)) \/ RetryMatch(d)
    BY <1>1, <2>1 DEF Press, RetryRead, RetryMatch
  <2>2. CASE RetryTask(d) \/ RetryApp(d)
    BY <2>2, OfferRetry
  <2>3. QED  BY <1>2, <1>4, <2>1, <2>2 DEF DashboardNext, Requester
<1>5. ASSUME NEW s \in Requester, RequestFails(s) PROVE ReportInv' /\ SettledInv' /\ FailureInv'
  BY <1>1, <1>5 DEF RequestFails
<1>6. CASE EditNext
  <2>1. CASE EditSelect \/ EditWrite \/ EditFails
    BY <1>1, <2>1 DEF EditSelect, EditWrite, EditFails
  <2>2. CASE RefilterDelete
    <3> DEFINE ls == {l \in Listing : HasTask(l) /\ <<l, task[l].id>> \in edit.sel}
               kept == {l \in ls : task[l].status # "pending"}
    <3>1. DeleteRows(ls, kept) /\ UNCHANGED <<app, work>>
      BY <2>2 DEF RefilterDelete
    <3>2. \A l \in ls : Offered(l) \/ l \in kept
      BY DEF Offered
    <3>3. ls \in SUBSET Listing
      OBVIOUS
    <3> HIDE DEF ls, kept
    <3>4. QED  BY <3>1, <3>2, <3>3, OfferDelete
  <2>3. QED  BY <1>6, <2>1, <2>2 DEF EditNext
<1>7. CASE Purge \/ Reset
  <2>1. PICK ls \in SUBSET Listing :
          /\ DeleteRows(ls, {}) /\ UNCHANGED <<app, work>>
          /\ \A l \in ls : Offered(l)
    BY <1>7 DEF Purge, Reset, ResetStatus, Offered
  <2>2. QED  BY <2>1, OfferDelete
<1>8. ASSUME NEW l \in Listing, LeaseReturns(l) PROVE ReportInv' /\ SettledInv' /\ FailureInv'
  <2>1. /\ task' = [task EXCEPT ![l].status = "pending"] /\ UNCHANGED <<app, work, torn>>
        /\ task[l].status = "leased"
    BY <1>8 DEF LeaseReturns
  <2>2. /\ \A k \in Listing : k # l => task'[k] = task[k]
        /\ task'[l].status = "pending" /\ task'[l].id = task[l].id
    BY <1>0, <2>1, StatusFacts
  <2>3. \A k \in Listing : /\ task'[k].id = task[k].id
                           /\ HasTask(k)' <=> HasTask(k)
                           /\ Offered(k)' <=> Offered(k)
    BY <2>1, <2>2 DEF HasTask, Offered
  <2>4. QED  BY <2>1, <2>3, OfferRows
<1>9. CASE UNCHANGED vars
  BY <1>1, <1>9 DEF vars
<1>10. QED  BY <1>3, <1>4, <1>5, <1>6, <1>7, <1>8, <1>9, OfferWorker DEF Next

\* An application that was sent, is being checked or was skipped is not offered to
\* an executor again, unless a failure, a deletion or a retry tore its result:
\* whatever the requests and executors that run at the same time.
THEOREM SettledStaysSettled == Spec => []SettledNotOffered
<1>1. Init => OfferInv
  <2>1. Init => ReportInv /\ SettledInv /\ FailureInv
    BY DEF Init, ReportInv, SettledInv, FailureInv, Settled, Finishing, IdleWork
  <2>2. QED  BY <2>1, TypeInit DEF OfferInv
<1>2. OfferInv /\ [Next]_vars => OfferInv'
  BY TypeStep, OfferStep DEF OfferInv
<1>3. QED  BY <1>1, <1>2, OfferImplies, PTL DEF Spec

=============================================================================
