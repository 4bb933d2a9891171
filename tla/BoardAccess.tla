---------------------------- MODULE BoardAccess ----------------------------
(***************************************************************************)
(* How the fleet gets at one user's account on one board: the account row, *)
(* the session in the vault, the stored credential with its failure count  *)
(* and lock, and the pauses the board's refusals put on the user's queue.  *)
(*                                                                         *)
(* A request is a claim of a node, the enrolment of a credential or the    *)
(* extension's upload of a session; the three share the tail that stores a *)
(* session, lifts the pauses and marks the account connected               *)
(* (lib/apply/login/session-provider.ts).  Time is counted in steps.       *)
(***************************************************************************)
EXTENDS Integers, FiniteSets

CONSTANTS
    Task,           \* apply tasks of the user on the board
    Queued,         \* those of them in the queue at the start
    Node,           \* nodes, each with one claim under way at most
    Form,           \* requests of the user's that may be under way together
    NoTask,
    Batch,          \* jobs of one claim
    Retry, Short, Long, \* the 30, 60 and 360 minutes of a delay
    Lockout,        \* the 6 hours of a locked credential
    FailureLimit,   \* CREDENTIAL_FAILURE_LIMIT
    MaxEvents       \* bound of the model: acts of the user, refusals, failures, restarts

Request == Node \cup Form

ASSUME AccessAssumption ==
    /\ Node \cap Form = {}
    /\ NoTask \notin Task /\ Queued \subseteq Task
    /\ {Batch, Retry, Short, Long, Lockout, FailureLimit} \subseteq Nat \ {0}
    /\ Retry <= Short /\ Short < Long
    /\ MaxEvents \in Nat

VARIABLES
    account,    \* board_accounts.status; "none" before the first connect
    blob,       \* newest session of session_blobs: "none", "live" or "dead" to the board
    cred,       \* board_credentials: whether it is there, its count and its lock
    password,   \* whether the stored password is the board's
    task,       \* the rows of tasks
    req,        \* requests under way
    hand,       \* session a node holds with each job
    orphan,     \* leased tasks nobody works on any more
    stale,      \* those of them whose lease is old enough for the sweep
    prep,       \* task whose resume is being prepared
    promised,   \* history: what is left of the pauses put on each pending task
    overridden, \* history: pending tasks whose pause a preparation wrote over
    wanted,     \* history: the user's last word was to connect
    uploaded,   \* history: the extension began an upload after that word
    overtaken,  \* history: a request was under way when the user disconnected
    streak,     \* history: failed renewals since the credential was last fresh
    raced,      \* history: two logins overlapped since then
    events

accountVars == <<account, blob, cred, password>>
wishVars == <<wanted, uploaded, overtaken>>
pauseVars == <<promised, overridden>>
streakVars == <<streak, raced>>
leaseVars == <<hand, orphan, stale>>
vars == <<accountVars, task, req, leaseVars, prep, pauseVars, wishVars, streakVars, events>>

Session == {"none", "live", "dead"}
Asks(kind, step, S) == [kind |-> kind, at |-> step, tasks |-> S, ok |-> FALSE, seen |-> 0]
Idle == Asks("none", "idle", {})
NoCredential == [set |-> FALSE, count |-> 0, lock |-> 0]
NoCount == -1   \* there was no credential to count a login for

TaskRow == [status : {"none", "pending", "leased", "done"}, wait : 0..Long,
            mark : {"none", "cooldown", "no_session", "prep"}]
Credential == [set : BOOLEAN, count : 0..FailureLimit, lock : 0..Lockout]
RequestRecord == [kind : {"none", "claim", "enroll", "upload"},
                  at : {"idle", "session", "login", "record", "store",
                        "lift", "connect", "keep", "reload"},
                  tasks : SUBSET Task, ok : BOOLEAN, seen : NoCount..FailureLimit]

AccessTypeOK ==
    /\ account \in {"none", "connected", "needs_reauth"}
    /\ blob \in Session
    /\ cred \in Credential
    /\ password \in BOOLEAN
    /\ task \in [Task -> TaskRow]
    /\ req \in [Request -> RequestRecord]
    /\ hand \in [Task -> Session]
    /\ orphan \subseteq Task /\ stale \subseteq orphan
    /\ prep \in Task \cup {NoTask}
    /\ promised \in [Task -> 0..Long] /\ overridden \subseteq Task
    /\ wanted \in BOOLEAN /\ uploaded \in BOOLEAN /\ overtaken \in BOOLEAN
    /\ streak \in 0..(FailureLimit + 1) /\ raced \in BOOLEAN
    /\ events \in 0..MaxEvents

\* A board the user has not connected, or one connected with or without a
\* session and a stored credential.
Init ==
    /\ \/ account = "none" /\ blob = "none" /\ cred = NoCredential
       \/ /\ account = "connected" /\ blob \in {"none", "live"}
          /\ cred \in {NoCredential, [set |-> TRUE, count |-> 0, lock |-> 0]}
    /\ password = TRUE
    /\ task = [t \in Task |-> [status |-> IF t \in Queued THEN "pending" ELSE "none", wait |-> 0, mark |-> "none"]]
    /\ req = [p \in Request |-> Idle]
    /\ hand = [t \in Task |-> "none"]
    /\ orphan = {} /\ stale = {}
    /\ prep = NoTask
    /\ promised = [t \in Task |-> 0] /\ overridden = {}
    /\ wanted = (account = "connected") /\ uploaded = FALSE /\ overtaken = FALSE
    /\ streak = 0 /\ raced = FALSE
    /\ events = 0

Larger(a, b) == IF a < b THEN b ELSE a
Smaller(a, b) == IF a < b THEN a ELSE b
Pending == {t \in Task : task[t].status = "pending"}
Due == {t \in Pending : task[t].wait = 0}
Event == events < MaxEvents /\ events' = events + 1
AsExpected == UNCHANGED events

(***************************************************************************)
(* Tasks.                                                                  *)
(***************************************************************************)
Waiting(t, delay, mark) == [task EXCEPT ![t] = [status |-> "pending", wait |-> delay, mark |-> mark]]
Settled(t) == [task EXCEPT ![t] = [status |-> "done", wait |-> 0, mark |-> "none"]]

\* Slip: a later refusal replaces an earlier pause instead of prolonging it.
DeferredAnew(k) == [t \in Task |-> IF t \in Pending
                                     THEN [task[t] EXCEPT !.wait = k, !.mark = "cooldown"]
                                     ELSE task[t]]
Deferred(k) == [t \in Task |-> IF t \in Pending
                                 THEN [task[t] EXCEPT !.wait = Larger(@, k), !.mark = "cooldown"]
                                 ELSE task[t]]

CooldownCleared ==
    [t \in Task |-> IF t \in Pending /\ task[t].wait > 0 /\ task[t].mark = "cooldown"
                      THEN [task[t] EXCEPT !.wait = 0, !.mark = "none"]
                      ELSE task[t]]

Swept == [t \in Task |-> IF t \in stale THEN [status |-> "pending", wait |-> 0, mark |-> "none"]
                                        ELSE task[t]]

\* Discovery queues a task; a pause that is on already does not cover it.
Enqueue(t) ==
    /\ task[t].status = "none"
    /\ task' = Waiting(t, 0, "none")
    /\ UNCHANGED <<accountVars, req, leaseVars, prep, pauseVars, wishVars, streakVars, events>>

(***************************************************************************)
(* The claim of a node: which boards are usable is read first, the leased  *)
(* tasks then get their session one by one.                                *)
(***************************************************************************)
Usable == account = "connected" /\ (blob # "none" \/ cred.set)

Claim(p, S) ==
    /\ req[p].at = "idle"
    /\ Usable
    /\ S # {} /\ Cardinality(S) <= Batch
    /\ S \subseteq Due \cup stale
    /\ task' = [t \in Task |-> IF t \in S THEN [status |-> "leased", wait |-> 0, mark |-> "none"] ELSE Swept[t]]
    /\ orphan' = orphan \ stale /\ stale' = {}
    /\ req' = [req EXCEPT ![p] = Asks("claim", "session", S)]
    /\ promised' = [t \in Task |-> IF t \in S THEN 0 ELSE promised[t]]
    /\ overridden' = overridden \ S
    /\ UNCHANGED <<accountVars, hand, prep, wishVars, streakVars, events>>

NextItem(p, t) ==
    req' = [req EXCEPT ![p] = IF @.tasks = {t} THEN Idle
                              ELSE Asks("claim", "session", req[p].tasks \ {t})]

GetsSession(p, t) ==
    /\ req[p].at \in {"session", "reload"}
    /\ t \in req[p].tasks
    /\ blob # "none"
    /\ hand' = [hand EXCEPT ![t] = blob]
    /\ NextItem(p, t)
    /\ UNCHANGED <<accountVars, task, orphan, stale, prep, pauseVars, wishVars, streakVars, events>>

CanRenew == cred.set /\ cred.lock = 0

\* A task no session could be produced for goes back to the queue.
\* Slip: it is passed over and stays leased.
NoSessionReleaseNone(t) == task
NoSessionRelease(t) == Waiting(t, Retry, "no_session")

HandBack(p, t) ==
    /\ \/ req[p].at = "session" /\ ~CanRenew
       \/ req[p].at = "reload"
    /\ t \in req[p].tasks
    /\ blob = "none"
    /\ task' = NoSessionRelease(t)
    /\ NextItem(p, t)
    /\ UNCHANGED <<accountVars, leaseVars, prep, pauseVars, wishVars, streakVars, events>>

LoggingIn == {p \in Request : req[p].at \in {"login", "record"}}

Renew(p) ==
    /\ req[p].at = "session"
    /\ blob = "none" /\ CanRenew
    /\ req' = [req EXCEPT ![p].at = "login"]
    /\ raced' = (raced \/ LoggingIn # {})
    /\ UNCHANGED <<accountVars, task, leaseVars, prep, pauseVars, wishVars, streak, events>>

(***************************************************************************)
(* The login, its record on the credential, and the tail shared with the   *)
(* upload of a session.  The driver's answer and the count that is read    *)
(* next belong to one step, the write of the count to another.             *)
(***************************************************************************)
Login(p, ok) ==
    /\ req[p].at = "login"
    /\ \/ req[p].kind = "enroll" /\ AsExpected
       \/ req[p].kind = "claim" /\ ok = password /\ AsExpected
       \/ req[p].kind = "claim" /\ ~ok /\ password /\ Event
    /\ req' = [req EXCEPT ![p] = [@ EXCEPT !.at = "record", !.ok = ok,
                                     !.seen = IF cred.set THEN cred.count ELSE NoCount]]
    /\ UNCHANGED <<accountVars, task, leaseVars, prep, pauseVars, wishVars, streakVars>>

\* Slip: one failure more than the limit before the lock.
RecordedLate(seen, ok) ==
    [set |-> TRUE, count |-> IF ok THEN 0 ELSE Smaller(seen + 1, FailureLimit),
     lock |-> IF ~ok /\ seen + 1 > FailureLimit THEN Lockout ELSE 0]
Recorded(seen, ok) ==
    [set |-> TRUE, count |-> IF ok THEN 0 ELSE Smaller(seen + 1, FailureLimit),
     lock |-> IF ~ok /\ seen + 1 >= FailureLimit THEN Lockout ELSE 0]

RecordOutcome(p) ==
    /\ req[p].at = "record"
    /\ cred' = IF cred.set /\ req[p].seen # NoCount THEN Recorded(req[p].seen, req[p].ok) ELSE cred
    /\ IF req[p].ok
         THEN /\ streak' = 0
              /\ raced' = (LoggingIn \ {p} # {})
         ELSE /\ streak' = IF req[p].kind = "claim" THEN Smaller(streak + 1, FailureLimit + 1) ELSE streak
              /\ UNCHANGED raced
    /\ \/ /\ req[p].ok
          /\ req' = [req EXCEPT ![p].at = "store"]
          /\ UNCHANGED task
       \/ /\ ~req[p].ok /\ req[p].kind = "enroll"
          /\ req' = [req EXCEPT ![p] = Idle]
          /\ UNCHANGED task
       \/ /\ ~req[p].ok
          /\ \E t \in req[p].tasks : task' = NoSessionRelease(t) /\ NextItem(p, t)
    /\ UNCHANGED <<account, blob, password, leaseVars, prep, pauseVars, wishVars, events>>

\* Slip: a stored session marks the account connected.
StoreSessionConnects(p) ==
    /\ req[p].at = "store"
    /\ blob' = IF account = "none" THEN blob ELSE "live"
    /\ account' = IF account = "none" THEN account ELSE "connected"
    /\ req' = [req EXCEPT ![p] = IF account = "none" THEN Idle ELSE [@ EXCEPT !.at = "lift"]]
    /\ UNCHANGED <<cred, password, task, leaseVars, prep, pauseVars, wishVars, streakVars, events>>

StoreSession(p) ==
    /\ req[p].at = "store"
    /\ blob' = IF account = "none" THEN blob ELSE "live"
    /\ req' = [req EXCEPT ![p] = IF account = "none" THEN Idle ELSE [@ EXCEPT !.at = "lift"]]
    /\ UNCHANGED <<account, cred, password, task, leaseVars, prep, pauseVars, wishVars, streakVars, events>>

\* Lifting the pauses is fail-soft.
Lift(p) ==
    /\ req[p].at = "lift"
    /\ req' = [req EXCEPT ![p] = IF @.kind = "upload" THEN Idle ELSE [@ EXCEPT !.at = "connect"]]
    /\ \/ task' = CooldownCleared /\ promised' = [t \in Task |-> 0] /\ overridden' = {} /\ AsExpected
       \/ Event /\ UNCHANGED <<task, pauseVars>>
    /\ UNCHANGED <<accountVars, leaseVars, prep, wishVars, streakVars>>

MarkConnected(p) ==
    /\ req[p].at = "connect"
    /\ account' = "connected"
    /\ req' = [req EXCEPT ![p].at = IF req[p].kind = "claim" THEN "reload" ELSE "keep"]
    /\ UNCHANGED <<blob, cred, password, task, leaseVars, prep, pauseVars, wishVars, streakVars, events>>

UpsertCredential(p) ==
    /\ req[p].at = "keep"
    /\ cred' = [set |-> TRUE, count |-> 0, lock |-> 0]
    /\ password' = TRUE
    /\ streak' = 0 /\ raced' = (LoggingIn # {})
    /\ req' = [req EXCEPT ![p] = Idle]
    /\ UNCHANGED <<account, blob, task, leaseVars, prep, pauseVars, wishVars, events>>

(***************************************************************************)
(* What the user does, and the board.                                      *)
(***************************************************************************)
BeginEnroll(p) ==
    /\ req[p].at = "idle"
    /\ Event
    /\ req' = [req EXCEPT ![p] = Asks("enroll", "login", {})]
    /\ wanted' = TRUE
    /\ raced' = (raced \/ LoggingIn # {})
    /\ UNCHANGED <<accountVars, task, leaseVars, prep, pauseVars, uploaded, overtaken, streak>>

BeginUpload(p) ==
    /\ req[p].at = "idle"
    /\ Event
    /\ req' = [req EXCEPT ![p] = Asks("upload", "store", {})]
    /\ uploaded' = TRUE
    /\ UNCHANGED <<accountVars, task, leaseVars, prep, pauseVars, wanted, overtaken, streakVars>>

ConnectBoard ==
    /\ account # "connected"
    /\ Event
    /\ account' = "connected"
    /\ wanted' = TRUE /\ uploaded' = FALSE /\ overtaken' = FALSE
    /\ UNCHANGED <<blob, cred, password, task, req, leaseVars, prep, pauseVars, streakVars>>

Disconnect ==
    /\ account # "none"
    /\ Event
    /\ account' = "needs_reauth" /\ blob' = "none"
    /\ wanted' = FALSE /\ uploaded' = FALSE
    /\ overtaken' = (\E p \in Request : req[p].at # "idle")
    /\ UNCHANGED <<cred, password, task, req, leaseVars, prep, pauseVars, streakVars>>

DeleteCredential ==
    /\ cred.set
    /\ Event
    /\ cred' = NoCredential
    /\ UNCHANGED <<account, blob, password, task, req, leaseVars, prep, pauseVars, wishVars, streakVars>>

ChangePassword ==
    /\ cred.set /\ password
    /\ Event
    /\ password' = FALSE
    /\ UNCHANGED <<account, blob, cred, task, req, leaseVars, prep, pauseVars, wishVars, streakVars>>

SessionExpires ==
    /\ blob = "live"
    /\ Event
    /\ blob' = "dead"
    /\ hand' = [t \in Task |-> IF hand[t] = "live" THEN "dead" ELSE hand[t]]
    /\ UNCHANGED <<account, cred, password, task, req, orphan, stale, prep, pauseVars, wishVars, streakVars>>

(***************************************************************************)
(* The node's jobs.                                                        *)
(***************************************************************************)
JobEnds(t) ==
    /\ hand[t] = "live"
    /\ task' = Settled(t)
    /\ hand' = [hand EXCEPT ![t] = "none"]
    /\ UNCHANGED <<accountVars, req, orphan, stale, prep, pauseVars, wishVars, streakVars, events>>

\* The result says the board refused; putting the pause on is fail-soft.
Refused(t, k) ==
    /\ \/ hand[t] = "dead" /\ k = Short /\ AsExpected
       \/ hand[t] = "live" /\ Event
    /\ hand' = [hand EXCEPT ![t] = "none"]
    /\ task' = [Deferred(k) EXCEPT ![t] = Settled(t)[t]]
    /\ promised' = [u \in Task |-> IF u \in Pending THEN Larger(promised[u], k) ELSE promised[u]]
    /\ UNCHANGED <<accountVars, req, orphan, stale, prep, overridden, wishVars, streakVars>>

RefusedUnpaused(t) ==
    /\ hand[t] # "none"
    /\ Event
    /\ hand' = [hand EXCEPT ![t] = "none"]
    /\ task' = Settled(t)
    /\ UNCHANGED <<accountVars, req, orphan, stale, prep, pauseVars, wishVars, streakVars>>

(***************************************************************************)
(* The preparation of a resume chooses a due task and writes to it by id   *)
(* when it is over; what it writes to a task no longer pending is written  *)
(* over by the task's release.                                             *)
(***************************************************************************)
PrepBegins(t) ==
    /\ prep = NoTask
    /\ t \in Due
    /\ prep' = t
    /\ UNCHANGED <<accountVars, task, req, leaseVars, pauseVars, wishVars, streakVars, events>>

PrepEnds ==
    /\ prep # NoTask
    /\ prep' = NoTask
    /\ \/ prep \notin Pending /\ AsExpected /\ UNCHANGED task
       \/ prep \in Pending /\ AsExpected /\ task' = [task EXCEPT ![prep].mark = "none"]
       \/ prep \in Pending /\ Event /\ task' = Waiting(prep, Retry, "prep")
    /\ overridden' = IF promised[prep] > 0 THEN overridden \cup {prep} ELSE overridden
    /\ UNCHANGED <<accountVars, req, leaseVars, promised, wishVars, streakVars>>

RequestDies(p) ==
    /\ req[p].at # "idle"
    /\ Event
    /\ req' = [req EXCEPT ![p] = Idle]
    /\ orphan' = orphan \cup req[p].tasks
    /\ UNCHANGED <<accountVars, task, hand, stale, prep, pauseVars, wishVars, streakVars>>

\* A node dies, or cannot report: jobs it holds stay leased.
LoseJobs(S) ==
    /\ S # {} /\ \A t \in S : hand[t] # "none"
    /\ Event
    /\ hand' = [t \in Task |-> IF t \in S THEN "none" ELSE hand[t]]
    /\ orphan' = orphan \cup S
    /\ UNCHANGED <<accountVars, task, req, stale, prep, pauseVars, wishVars, streakVars>>

Less(n) == IF n > 0 THEN n - 1 ELSE 0

TimePasses ==
    /\ cred.lock > 0 \/ orphan # stale \/ \E t \in Pending : task[t].wait > 0 \/ promised[t] > 0
    /\ cred' = [cred EXCEPT !.lock = Less(@)]
    /\ stale' = orphan
    /\ task' = [t \in Task |-> [task[t] EXCEPT !.wait = Less(@)]]
    /\ promised' = [t \in Task |-> Less(promised[t])]
    /\ overridden' = {t \in overridden : promised[t] > 1}
    /\ IF cred.lock = 1
         THEN streak' = 0 /\ raced' = (LoggingIn # {})
         ELSE UNCHANGED streakVars
    /\ UNCHANGED <<account, blob, password, req, hand, orphan, prep, wishVars, events>>

RequestStep(p) ==
    \/ Renew(p) \/ (\E ok \in BOOLEAN : Login(p, ok)) \/ RecordOutcome(p)
    \/ StoreSession(p) \/ Lift(p) \/ MarkConnected(p) \/ UpsertCredential(p)
    \/ \E t \in Task : GetsSession(p, t) \/ HandBack(p, t)

NodeStep(t) == JobEnds(t) \/ \E k \in {Short, Long} : Refused(t, k)

ClaimSome(p) == \E S \in SUBSET Task : Claim(p, S)

UserStep ==
    \/ \E p \in Form : BeginEnroll(p) \/ BeginUpload(p)
    \/ ConnectBoard \/ Disconnect \/ DeleteCredential \/ ChangePassword \/ SessionExpires

Next ==
    \/ \E p \in Node : ClaimSome(p)
    \/ \E p \in Request : RequestStep(p) \/ RequestDies(p)
    \/ \E t \in Task : Enqueue(t) \/ NodeStep(t) \/ RefusedUnpaused(t) \/ PrepBegins(t)
    \/ PrepEnds \/ (\E S \in SUBSET Task : LoseJobs(S)) \/ TimePasses \/ UserStep

Spec == Init /\ [][Next]_vars

\* Nodes poll, requests and jobs come to an end, and time passes.
Fairness ==
    /\ \A p \in Node : WF_vars(ClaimSome(p))
    /\ \A p \in Request : WF_vars(RequestStep(p))
    /\ \A t \in Task : WF_vars(NodeStep(t))
    /\ WF_vars(TimePasses)

FairSpec == Spec /\ Fairness

(***************************************************************************)
(* Properties.                                                             *)
(***************************************************************************)

\* A task that was pending when the board refused does not become claimable
\* before the longest of its pauses is over or lifted, in whatever order
\* refusals, sweeps and hand-backs come, and until then it can be told by its
\* last_error, which is how a fresh session finds the tasks to free.  The
\* preparation of a resume, which writes both by id, is the only writer that
\* may cut a pause short or hide it.
PausesHold ==
    \A t \in Pending :
        promised[t] > 0 => \/ task[t].wait >= promised[t] /\ task[t].mark = "cooldown"
                           \/ t \in overridden

\* The server does not hammer a board with a login it refuses: between two
\* fresh starts (a stored credential, a login that worked, an expired lock)
\* no more renewals fail than the limit, unless logins overlapped, whose
\* count is read and written in two statements.
LoginsGiveUp == streak > FailureLimit => raced

\* Disconnecting a board holds: the account is not connected again and no
\* session is in the vault but by the user's own doing, or by a request that
\* was under way at that moment and logged in with the credential, which
\* disconnecting keeps.
DisconnectIsFinal ==
    ~wanted /\ ~overtaken => account # "connected" /\ (blob # "none" => uploaded)

\* As long as the account is connected and the vault has a session that works,
\* or none but a credential that does, every queued task is served, in spite
\* of pauses, failed logins and dead requests.
Servable == account = "connected" /\ (blob = "live" \/ (blob = "none" /\ cred.set /\ password))
TasksAreServed ==
    \A t \in Task : []<>(task[t].status \in {"none", "done"} \/ ~Servable)
=============================================================================
