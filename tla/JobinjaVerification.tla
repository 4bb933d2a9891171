------------------------- MODULE JobinjaVerification -------------------------
(***************************************************************************)
(* Applications whose outcome on Jobinja is unknown ("verifying") and the  *)
(* scans of the board's own history that settle them.  Sources:            *)
(* lib/apply/boards/jobinja-verification.ts, syncJobinjaFromVault in       *)
(* jobinja-read.ts, the push route, and the extension's                    *)
(* jobinja-application-history.ts.                                         *)
(*                                                                         *)
(* A scan reads the history page by page while applications go on arriving *)
(* at its front; then the verifying rows are selected, and each decision   *)
(* is two writes, of the application and of its task.                      *)
(***************************************************************************)
EXTENDS Naturals, Sequences, FiniteSets

CONSTANTS
    Listing,      \* jobs the user may apply to on the board
    Own,          \* those that are in Karjoo's queue
    Extension,    \* scans run in the browser and pushed
    Vault,        \* scans run by the server with the stored session
    PageSize,     \* applications on one page of the history (25)
    MaxPages,     \* pages a scan reads at most (120)
    Window,       \* MAX_PROVIDER_SYNC_AGE_DAYS, in half days
    MaxTime,      \* bound of the model: half days that pass
    MaxClicks,    \* bound of the model: submissions of one listing
    MaxScans,     \* bound of the model: scans under way at once
    Nobody        \* no listing

ASSUME VerificationAssumption ==
    /\ Own \subseteq Listing /\ Nobody \notin Listing
    /\ Extension \cap Vault = {}
    /\ PageSize \in Nat \ {0} /\ MaxPages \in Nat \ {0}
    /\ Window \in Nat /\ MaxTime \in Nat /\ MaxClicks \in Nat /\ MaxScans \in Nat

VARIABLES
    history,     \* the board's list of the user's applications, newest first
    appliedAt,   \* when each listing in it was applied for
    now,         \* the time, in half days: the board shows whole days only
    app,         \* status of Karjoo's application rows
    attempt,     \* their updated_at
    task,        \* status of their task rows
    scan,        \* progress of each scan and its reconciliation
    clicks,      \* history: submissions of each listing
    torn         \* history: listings whose two writes a failure or another writer split

queue == <<app, attempt, task>>
board == <<history, appliedAt>>
vars == <<board, now, queue, scan, clicks, torn>>

Scanner == Extension \cup Vault
Time == 0..MaxTime
Verdict == {"confirmed", "retryable"}
NoScan == [pc |-> "idle", page |-> 1, last |-> 1, seen |-> {}, complete |-> FALSE,
           from |-> 0, present |-> {}, rows |-> {}, cur |-> Nobody, verdict |-> "confirmed"]

VerificationTypeOK ==
    /\ history \in Seq(Listing)
    /\ appliedAt \in [Listing -> Time]
    /\ now \in Time
    /\ app \in [Own -> {"none", "verifying", "submitted", "failed"}]
    /\ attempt \in [Own -> Time]
    /\ task \in [Own -> {"pending", "leased", "verifying", "succeeded"}]
    /\ scan \in [Scanner -> [pc : {"idle", "page", "select", "decide", "task"},
                             page : Nat \ {0}, last : Nat \ {0},
                             seen : SUBSET Listing, complete : BOOLEAN, from : Time,
                             present : SUBSET Listing, rows : SUBSET (Own \X BOOLEAN),
                             cur : Own \cup {Nobody}, verdict : Verdict]]
    /\ clicks \in [Own -> 0..MaxClicks]
    /\ torn \subseteq Own
    /\ \A s \in Scanner : scan[s].pc = "task" => scan[s].cur \in Own

Init ==
    /\ history = <<>>
    /\ appliedAt = [l \in Listing |-> 0]
    /\ now = 0
    /\ app = [l \in Own |-> "none"]
    /\ attempt = [l \in Own |-> 0]
    /\ task = [l \in Own |-> "pending"]
    /\ scan = [s \in Scanner |-> NoScan]
    /\ clicks = [l \in Own |-> 0]
    /\ torn = {}

---------------------------------------------------------------------------
(* The board.                                                              *)

Held == {history[i] : i \in DOMAIN history}

\* Page p of the history, and the number of the last page.
Page(p) == {history[i] : i \in {j \in DOMAIN history :
                                  (p - 1) * PageSize < j /\ j <= p * PageSize}}
LastPage == IF history = <<>> THEN 1 ELSE (Len(history) + PageSize - 1) \div PageSize

\* The board shows the day; the parsers make it the start of that day.
Day(t) == t - (t % 2)
DayOf(l) == Day(appliedAt[l])

\* Not before the cutoff computed at time t.
InWindow(at, t) == at + Window >= t

Arrive(l) ==
    IF l \in Held THEN UNCHANGED board
    ELSE /\ history' = <<l>> \o history
         /\ appliedAt' = [appliedAt EXCEPT ![l] = now]

\* The user applies on the site itself.
ApplyByHand(l) ==
    /\ l \notin Held
    /\ Arrive(l)
    /\ UNCHANGED <<now, queue, scan, clicks, torn>>

Tick ==
    /\ now < MaxTime
    /\ now' = now + 1
    /\ UNCHANGED <<board, queue, scan, clicks, torn>>

---------------------------------------------------------------------------
(* An executor (see ApplyDispatch for its loop).                           *)

\* A claimed task is submitted; whether it reached the board may stay unknown.
Click(l, reached) ==
    /\ task[l] = "pending"
    /\ clicks[l] < MaxClicks
    /\ clicks' = [clicks EXCEPT ![l] = @ + 1]
    /\ task' = [task EXCEPT ![l] = "leased"]
    /\ IF reached THEN Arrive(l) ELSE UNCHANGED board
    /\ UNCHANGED <<now, app, attempt, scan, torn>>

\* recordResult, the two writes as one: verifying without evidence, submitted with
\* it, and evidence is only shown for an application the board holds.
Record(l, status) ==
    /\ task[l] = "leased"
    /\ status = "submitted" => l \in Held
    /\ app' = [app EXCEPT ![l] = status]
    /\ attempt' = [attempt EXCEPT ![l] = now]
    /\ task' = [task EXCEPT ![l] = IF status = "submitted" THEN "succeeded" ELSE "verifying"]
    /\ torn' = IF \E s \in Scanner : scan[s].pc = "task" /\ scan[s].cur = l
               THEN torn \cup {l} ELSE torn
    /\ UNCHANGED <<board, now, scan, clicks>>

---------------------------------------------------------------------------
(* Reading the history.                                                    *)

ScanBegin(s) ==
    /\ scan[s].pc = "idle"
    /\ Cardinality({o \in Scanner : scan[o].pc # "idle"}) < MaxScans
    /\ scan' = [scan EXCEPT ![s] = [NoScan EXCEPT !.pc = "page", !.from = now,
                                                  !.present = Held]]
    /\ UNCHANGED <<board, now, queue, clicks, torn>>

\* The next page is added; the scan is over when "complete" says so or when it
\* must stop short.
TakePage(s, rows, complete, stop) ==
    scan' = [scan EXCEPT ![s].seen = @ \cup rows,
                         ![s].complete = complete,
                         ![s].pc = IF complete \/ stop THEN "select" ELSE "page",
                         ![s].page = @ + 1]

\* Slip: the number of pages is the one the first page showed.
ExtensionPageFixedEnd(s) ==
    /\ s \in Extension
    /\ scan[s].pc = "page"
    /\ LET p == scan[s].page
           rows == Page(p)
           last == IF p = 1 THEN LastPage ELSE scan[s].last
           reachedCutoff == \E l \in rows : DayOf(l) + Window <= scan[s].from
       IN  scan' = [scan EXCEPT ![s].seen = @ \cup {l \in rows : InWindow(DayOf(l), scan[s].from)},
                                ![s].complete = reachedCutoff \/ p >= last,
                                ![s].pc = IF reachedCutoff \/ p >= last \/ p = MaxPages
                                          THEN "select" ELSE "page",
                                ![s].last = IF last > MaxPages THEN MaxPages ELSE last,
                                ![s].page = @ + 1]
    /\ UNCHANGED <<board, now, queue, clicks, torn>>

\* syncJobinjaApplicationHistory: rows of the window are kept; the scan is complete
\* at the first row on or before the cutoff, or at what is the last page by now.
ExtensionPage(s) ==
    /\ s \in Extension
    /\ scan[s].pc = "page"
    /\ LET p == scan[s].page
           rows == Page(p)
           reachedCutoff == \E l \in rows : DayOf(l) + Window <= scan[s].from
       IN  TakePage(s, {l \in rows : InWindow(DayOf(l), scan[s].from)},
                    reachedCutoff \/ p >= LastPage, p = MaxPages)
    /\ UNCHANGED <<board, now, queue, clicks, torn>>

\* Slip: the loop ends one page before the last.
VaultPageStopsEarly(s) ==
    /\ s \in Vault
    /\ scan[s].pc = "page"
    /\ LET p == scan[s].page
           rows == Page(p)
           last == IF p > 1 THEN scan[s].last
                   ELSE IF LastPage < MaxPages THEN LastPage ELSE MaxPages
       IN  scan' = [scan EXCEPT ![s].seen = @ \cup rows,
                                ![s].complete = p + 1 >= last,
                                ![s].pc = IF p + 1 >= last THEN "select" ELSE "page",
                                ![s].last = last,
                                ![s].page = @ + 1]
    /\ UNCHANGED <<board, now, queue, clicks, torn>>

\* syncJobinjaFromVault: every row is kept; the last page is the one the first page
\* named, capped; an empty later page stops the scan.
VaultPage(s) ==
    /\ s \in Vault
    /\ scan[s].pc = "page"
    /\ LET p == scan[s].page
           rows == Page(p)
           last == IF p > 1 THEN scan[s].last
                   ELSE IF LastPage < MaxPages THEN LastPage ELSE MaxPages
           pastWindow == rows # {} /\ \A l \in rows : ~InWindow(DayOf(l), now)
           empty == p > 1 /\ rows = {}
       IN  scan' = [scan EXCEPT ![s].seen = @ \cup rows,
                                ![s].complete = ~empty /\ (pastWindow \/ p = last),
                                ![s].pc = IF empty \/ pastWindow \/ p = last
                                          THEN "select" ELSE "page",
                                ![s].last = last,
                                ![s].page = @ + 1]
    /\ UNCHANGED <<board, now, queue, clicks, torn>>

\* A page cannot be fetched or read: what was seen so far is still used.
ScanStops(s) ==
    /\ scan[s].pc = "page"
    /\ scan' = [scan EXCEPT ![s].pc = "select"]
    /\ UNCHANGED <<board, now, queue, clicks, torn>>

---------------------------------------------------------------------------
(* Reconciling (reconcileJobinjaVerifying).                                *)

\* The window is set, 45 days back from now, and the verifying rows are read: of the
\* updated_at of a row only matters whether it lies in that window.
SelectVerifying(s) ==
    /\ scan[s].pc = "select"
    /\ scan' = [scan EXCEPT ![s].pc = "decide",
                            ![s].rows = {<<l, InWindow(attempt[l], now)>> :
                                           l \in {k \in Own : app[k] = "verifying"}}]
    /\ UNCHANGED <<board, now, queue, clicks, torn>>

\* Slip: a scan that stopped short counts as a negative answer.
ClassifyAnyScan(s, l, inWindow) ==
    IF l \in scan[s].seen THEN "confirmed"
    ELSE IF inWindow THEN "retryable" ELSE "unresolved"

\* classifyJobinjaVerification.
Classify(s, l, inWindow) ==
    IF l \in scan[s].seen THEN "confirmed"
    ELSE IF scan[s].complete /\ inWindow THEN "retryable" ELSE "unresolved"

Rest(s, r) == scan[s].rows \ {r}

Unresolved(s, r) ==
    /\ scan[s].pc = "decide" /\ r \in scan[s].rows
    /\ Classify(s, r[1], r[2]) = "unresolved"
    /\ scan' = [scan EXCEPT ![s].rows = Rest(s, r)]
    /\ UNCHANGED <<board, now, queue, clicks, torn>>

\* The first write is to the application, by id alone.
WriteApplication(s, r) ==
    /\ scan[s].pc = "decide" /\ r \in scan[s].rows
    /\ LET l == r[1]
           verdict == Classify(s, l, r[2])
       IN  /\ verdict # "unresolved"
           /\ app' = [app EXCEPT ![l] = IF verdict = "confirmed" THEN "submitted" ELSE "failed"]
           /\ attempt' = [attempt EXCEPT ![l] = now]
           /\ scan' = [scan EXCEPT ![s].rows = Rest(s, r), ![s].pc = "task",
                                   ![s].cur = l, ![s].verdict = verdict]
           /\ torn' = IF task[l] # "verifying"
                         \/ \E o \in Scanner : scan[o].pc = "task" /\ scan[o].cur = l
                      THEN torn \cup {l} ELSE torn
    /\ UNCHANGED <<board, now, task, clicks>>

\* Slip: the negative answer only inserts the task, and leaves an existing one.
WriteTaskInsertOnly(s) ==
    /\ scan[s].pc = "task"
    /\ task' = IF scan[s].verdict = "confirmed"
               THEN [task EXCEPT ![scan[s].cur] = "succeeded"] ELSE task
    /\ scan' = [scan EXCEPT ![s].pc = "decide", ![s].cur = Nobody]
    /\ UNCHANGED <<board, now, app, attempt, clicks, torn>>

\* The second write is to the task of the match, or inserts one again.
WriteTask(s) ==
    /\ scan[s].pc = "task"
    /\ task' = [task EXCEPT ![scan[s].cur] =
                  IF scan[s].verdict = "confirmed" THEN "succeeded" ELSE "pending"]
    /\ scan' = [scan EXCEPT ![s].pc = "decide", ![s].cur = Nobody]
    /\ UNCHANGED <<board, now, app, attempt, clicks, torn>>

ScanEnd(s) ==
    /\ scan[s].pc = "decide" /\ scan[s].rows = {}
    /\ scan' = [scan EXCEPT ![s] = NoScan]
    /\ UNCHANGED <<board, now, queue, clicks, torn>>

\* The push is lost, or the server stops between two statements.
ScanFails(s) ==
    /\ scan[s].pc # "idle"
    /\ torn' = IF scan[s].pc = "task" THEN torn \cup {scan[s].cur} ELSE torn
    /\ scan' = [scan EXCEPT ![s] = NoScan]
    /\ UNCHANGED <<board, now, queue, clicks>>

---------------------------------------------------------------------------
ScanNext(s) ==
    \/ ScanBegin(s) \/ ExtensionPage(s) \/ VaultPage(s) \/ ScanStops(s)
    \/ SelectVerifying(s)
    \/ \E r \in scan[s].rows : Unresolved(s, r) \/ WriteApplication(s, r)
    \/ WriteTask(s) \/ ScanEnd(s) \/ ScanFails(s)

Next ==
    \/ \E l \in Listing : ApplyByHand(l)
    \/ \E l \in Own : \/ \E reached \in BOOLEAN : Click(l, reached)
                      \/ \E status \in {"verifying", "submitted"} : Record(l, status)
    \/ \E s \in Scanner : ScanNext(s)
    \/ Tick

Spec == Init /\ [][Next]_vars

---------------------------------------------------------------------------
(* Properties.                                                             *)

Scanned(s) == scan[s].pc \in {"select", "decide", "task"}

\* A complete scan of the browser has seen every application the board held when
\* it began and whose day lies after the cutoff, although applications that
\* arrive while it reads push the older ones to later pages.
CompleteScanCoversDays ==
    \A s \in Extension : Scanned(s) /\ scan[s].complete =>
        \A l \in scan[s].present : DayOf(l) + Window > scan[s].from => l \in scan[s].seen

\* A negative answer is given for an application the board holds only if that
\* application arrived after the scan had begun, or on the day of the cutoff.
NegativeExcused ==
    [][\A s \in Extension, l \in Own :
          /\ scan[s].pc = "decide" /\ scan'[s].pc = "task"
          /\ scan'[s].cur = l /\ scan'[s].verdict = "retryable"
          /\ l \in Held
          => l \notin scan[s].present \/ DayOf(l) + Window <= scan[s].from]_vars

\* An application and its task tell the same story once the reconciliation that
\* writes them is through, unless a failure or another writer split its writes.
ApplicationMatchesTask ==
    \A l \in Own :
        l \in torn \/ (\E s \in Scanner : scan[s].pc = "task" /\ scan[s].cur = l) \/
        CASE app[l] = "submitted" -> task[l] = "succeeded"
          [] app[l] = "verifying" -> task[l] = "verifying"
          [] OTHER -> task[l] \in {"pending", "leased"}

\* A complete scan of the server, which fixes its last page at the first one, has
\* seen every application of the window as it is now, if none arrived meanwhile and
\* the history is within the pages it may read.
VaultCoversQuietHistory ==
    \A s \in Vault :
        Scanned(s) /\ scan[s].complete /\ Held = scan[s].present
                /\ Len(history) <= MaxPages * PageSize =>
            \A l \in Held : InWindow(DayOf(l), now) => l \in scan[s].seen
=============================================================================
