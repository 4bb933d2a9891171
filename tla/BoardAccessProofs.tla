-------------------------- MODULE BoardAccessProofs --------------------------
(***************************************************************************)
(* Proofs about BoardAccess, for any tasks, nodes, forms, delays and       *)
(* limits: its type invariant, that pauses hold, that a disconnect is      *)
(* final, and that logins give up.                                         *)
(***************************************************************************)
EXTENDS BoardAccess, TLAPS

(***************************************************************************)
(* Types.                                                                  *)
(***************************************************************************)

\* The assumptions on numbers, one by one.
LEMMA Numbers ==
    /\ Batch \in Nat /\ Retry \in Nat /\ Short \in Nat /\ Long \in Nat
    /\ Lockout \in Nat /\ FailureLimit \in Nat /\ MaxEvents \in Nat
    /\ Batch > 0 /\ Retry > 0 /\ Short > 0 /\ Lockout > 0 /\ FailureLimit > 0
    /\ Retry <= Short /\ Short < Long
BY AccessAssumption

LEMMA TypeInit == Init => AccessTypeOK
<1> SUFFICES ASSUME Init  PROVE AccessTypeOK
  OBVIOUS
<1> USE AccessAssumption
<1>1. cred \in Credential
  <2>1. [set |-> FALSE, count |-> 0, lock |-> 0] \in Credential
    BY DEF Credential
  <2>2. [set |-> TRUE, count |-> 0, lock |-> 0] \in Credential
    BY DEF Credential
  <2>3. QED  BY <2>1, <2>2 DEF Init, NoCredential
<1>2. task \in [Task -> TaskRow]
  BY DEF Init, TaskRow
<1>3. Idle \in RequestRecord
  BY DEF Idle, Asks, RequestRecord, NoCount
<1>4. req \in [Request -> RequestRecord]
  BY <1>3 DEF Init
<1>5. account \in {"none", "connected", "needs_reauth"} /\ blob \in Session
  BY DEF Init, Session
<1>6. /\ hand \in [Task -> Session] /\ promised \in [Task -> 0..Long]
      /\ streak \in 0..(FailureLimit + 1) /\ events \in 0..MaxEvents
  BY DEF Init, Session
<1>7. QED  BY <1>1, <1>2, <1>4, <1>5, <1>6 DEF Init, AccessTypeOK

\* Each operator that makes a new table of tasks makes rows of it.
LEMMA TaskTypes ==
    ASSUME task \in [Task -> TaskRow]
    PROVE  /\ \A t \in Task, w \in 0..Long, m \in {"none", "cooldown", "no_session", "prep"} :
                  Waiting(t, w, m) \in [Task -> TaskRow]
           /\ \A t \in Task : Settled(t) \in [Task -> TaskRow]
           /\ \A t \in Task : NoSessionRelease(t) \in [Task -> TaskRow]
           /\ \A k \in 0..Long : Deferred(k) \in [Task -> TaskRow]
           /\ CooldownCleared \in [Task -> TaskRow]
           /\ Swept \in [Task -> TaskRow]
<1> USE Numbers
<1>1. \A t \in Task, w \in 0..Long, m \in {"none", "cooldown", "no_session", "prep"} :
          Waiting(t, w, m) \in [Task -> TaskRow]
  BY DEF TaskRow, Waiting
<1>2. \A t \in Task : Settled(t) \in [Task -> TaskRow]
  BY DEF TaskRow, Settled
<1>3. \A t \in Task : NoSessionRelease(t) \in [Task -> TaskRow]
  BY <1>1 DEF NoSessionRelease
<1>4. ASSUME NEW k \in 0..Long  PROVE Deferred(k) \in [Task -> TaskRow]
  <2>1. \A t \in Task : [task[t] EXCEPT !.wait = Larger(@, k), !.mark = "cooldown"] \in TaskRow
    BY DEF TaskRow, Larger
  <2>2. QED  BY <2>1 DEF Deferred
<1>5. CooldownCleared \in [Task -> TaskRow]
  <2>1. ASSUME NEW r \in TaskRow  PROVE [r EXCEPT !.wait = 0, !.mark = "none"] \in TaskRow
    <3>1. 0 \in 0..Long
      OBVIOUS
    <3>2. QED  BY <3>1 DEF TaskRow
  <2>2. QED  BY <2>1 DEF CooldownCleared
<1>6. Swept \in [Task -> TaskRow]
  BY DEF TaskRow, Swept
<1>7. QED  BY <1>1, <1>2, <1>3, <1>4, <1>5, <1>6

\* A request that goes on has a record of a request.
LEMMA NextItemType ==
    ASSUME req \in [Request -> RequestRecord], NEW p \in Request, NEW t \in Task, NextItem(p, t)
    PROVE  req' \in [Request -> RequestRecord]
BY AccessAssumption DEF NextItem, RequestRecord, Idle, Asks, NoCount

LEMMA TypeStep ==
    ASSUME AccessTypeOK, [Next]_vars
    PROVE  AccessTypeOK'
<1> USE AccessAssumption, Numbers
<1> USE DEF accountVars, wishVars, pauseVars, streakVars, leaseVars
<1>t. task \in [Task -> TaskRow] /\ req \in [Request -> RequestRecord]
  BY DEF AccessTypeOK
<1>1. ASSUME NEW p \in Node, NEW S \in SUBSET Task, Claim(p, S)  PROVE AccessTypeOK'
  BY <1>1 DEF AccessTypeOK, Claim, TaskRow, RequestRecord, Asks, NoCount, Request, Swept
<1>2. ASSUME NEW p \in Request, Renew(p)  PROVE AccessTypeOK'
  BY <1>2 DEF AccessTypeOK, Renew, RequestRecord
<1>3. ASSUME NEW p \in Request, NEW ok \in BOOLEAN, Login(p, ok)  PROVE AccessTypeOK'
  <2>1. (IF cred.set THEN cred.count ELSE NoCount) \in NoCount..FailureLimit
    BY DEF AccessTypeOK, Credential, NoCount
  <2> DEFINE seen == IF cred.set THEN cred.count ELSE NoCount
  <2>a. req' = [req EXCEPT ![p] = [@ EXCEPT !.at = "record", !.ok = ok, !.seen = seen]]
    BY <1>3 DEF Login
  <2>b. seen \in NoCount..FailureLimit
    BY <2>1
  <2> HIDE DEF seen
  <2>2. req' \in [Request -> RequestRecord]
    BY <2>a, <2>b, <1>t DEF RequestRecord
  <2>3. events' \in 0..MaxEvents
    <3>1. events' = events \/ Event
      BY <1>3 DEF Login, AsExpected
    <3>2. QED  BY <3>1 DEF AccessTypeOK, Event
  <2>4. /\ UNCHANGED <<account, blob, cred, password, task, hand, orphan, stale>>
        /\ UNCHANGED <<prep, promised, overridden, wanted, uploaded, overtaken, streak, raced>>
    BY <1>3 DEF Login
  <2>5. QED  BY <2>2, <2>3, <2>4 DEF AccessTypeOK
<1>4. ASSUME NEW p \in Request, RecordOutcome(p)  PROVE AccessTypeOK'
  <2>i. Idle \in RequestRecord
    BY DEF Idle, Asks, RequestRecord, NoCount
  <2>a. ASSUME req' = [req EXCEPT ![p].at = "store"], UNCHANGED task
        PROVE  req' \in [Request -> RequestRecord] /\ task' \in [Task -> TaskRow]
    BY <2>a, <1>t DEF RequestRecord
  <2>b. ASSUME req' = [req EXCEPT ![p] = Idle], UNCHANGED task
        PROVE  req' \in [Request -> RequestRecord] /\ task' \in [Task -> TaskRow]
    BY <2>b, <2>i, <1>t
  <2>c. ASSUME NEW t \in req[p].tasks, task' = NoSessionRelease(t), NextItem(p, t)
        PROVE  req' \in [Request -> RequestRecord] /\ task' \in [Task -> TaskRow]
    <3>1. t \in Task
      BY <1>t DEF RequestRecord
    <3>2. req' \in [Request -> RequestRecord]
      BY <2>c, <3>1, <1>t, NextItemType
    <3>3. NoSessionRelease(t) \in [Task -> TaskRow]
      BY <3>1, <1>t, TaskTypes
    <3>4. QED  BY <2>c, <3>2, <3>3
  <2>1. req' \in [Request -> RequestRecord] /\ task' \in [Task -> TaskRow]
    <3>1. \/ req' = [req EXCEPT ![p].at = "store"] /\ UNCHANGED task
          \/ req' = [req EXCEPT ![p] = Idle] /\ UNCHANGED task
          \/ \E t \in req[p].tasks : task' = NoSessionRelease(t) /\ NextItem(p, t)
      BY <1>4 DEF RecordOutcome
    <3>2. QED  BY <3>1, <2>a, <2>b, <2>c
  <2>2. cred' \in Credential
    BY <1>4 DEF RecordOutcome, Recorded, Credential, AccessTypeOK, RequestRecord, Smaller, NoCount
  <2>3. streak' \in 0..(FailureLimit + 1) /\ raced' \in BOOLEAN
    <3>1. streak \in 0..(FailureLimit + 1) /\ raced \in BOOLEAN
      BY DEF AccessTypeOK
    <3>2. streak' \in {0, streak, Smaller(streak + 1, FailureLimit + 1)}
      BY <1>4 DEF RecordOutcome
    <3>3. raced' \in BOOLEAN
      BY <1>4, <3>1 DEF RecordOutcome
    <3>4. QED  BY <3>1, <3>2, <3>3 DEF Smaller
  <2>4. QED  BY <1>4, <2>1, <2>2, <2>3 DEF RecordOutcome, AccessTypeOK
<1>5. ASSUME NEW p \in Request, StoreSession(p)  PROVE AccessTypeOK'
  BY <1>5 DEF AccessTypeOK, StoreSession, RequestRecord, Idle, Asks, Session, NoCount
<1>6. ASSUME NEW p \in Request, Lift(p)  PROVE AccessTypeOK'
  <2>1. req' \in [Request -> RequestRecord]
    BY <1>6, <1>t DEF Lift, RequestRecord, Idle, Asks, NoCount
  <2>2. task' \in [Task -> TaskRow]
    BY <1>6, <1>t, TaskTypes DEF Lift
  <2>3. promised' \in [Task -> 0..Long] /\ overridden' \subseteq Task /\ events' \in 0..MaxEvents
    BY <1>6 DEF Lift, AccessTypeOK, Event, AsExpected
  <2>4. QED  BY <1>6, <2>1, <2>2, <2>3 DEF AccessTypeOK, Lift
<1>7. ASSUME NEW p \in Request, MarkConnected(p)  PROVE AccessTypeOK'
  BY <1>7 DEF AccessTypeOK, MarkConnected, RequestRecord
<1>8. ASSUME NEW p \in Request, UpsertCredential(p)  PROVE AccessTypeOK'
  BY <1>8 DEF AccessTypeOK, UpsertCredential, RequestRecord, Idle, Asks, NoCount, Credential
<1>9. ASSUME NEW p \in Request, NEW t \in Task, GetsSession(p, t)  PROVE AccessTypeOK'
  BY <1>9, NextItemType DEF AccessTypeOK, GetsSession, Session
<1>10. ASSUME NEW p \in Request, NEW t \in Task, HandBack(p, t)  PROVE AccessTypeOK'
  BY <1>10, NextItemType, TaskTypes DEF AccessTypeOK, HandBack
<1>11. ASSUME NEW p \in Request, RequestDies(p)  PROVE AccessTypeOK'
  BY <1>11 DEF AccessTypeOK, RequestDies, RequestRecord, Idle, Asks, NoCount, Event
<1>12. ASSUME NEW t \in Task, Enqueue(t)  PROVE AccessTypeOK'
  BY <1>12, TaskTypes DEF AccessTypeOK, Enqueue
<1>13. ASSUME NEW t \in Task, JobEnds(t)  PROVE AccessTypeOK'
  BY <1>13, TaskTypes DEF AccessTypeOK, JobEnds, Session
<1>14. ASSUME NEW t \in Task, NEW k \in {Short, Long}, Refused(t, k)  PROVE AccessTypeOK'
  <2>0. k \in 0..Long
    BY <1>14
  <2>1. Deferred(k) \in [Task -> TaskRow] /\ Settled(t) \in [Task -> TaskRow]
    BY <1>t, <2>0, TaskTypes
  <2>2. task' \in [Task -> TaskRow]
    BY <1>14, <2>1 DEF Refused
  <2>3. promised' \in [Task -> 0..Long]
    BY <1>14 DEF Refused, AccessTypeOK, Larger
  <2>4. QED  BY <1>14, <2>2, <2>3 DEF Refused, AccessTypeOK, Session, Event, AsExpected
<1>15. ASSUME NEW t \in Task, RefusedUnpaused(t)  PROVE AccessTypeOK'
  BY <1>15, TaskTypes DEF AccessTypeOK, RefusedUnpaused, Session, Event
<1>16. ASSUME NEW t \in Task, PrepBegins(t)  PROVE AccessTypeOK'
  BY <1>16 DEF AccessTypeOK, PrepBegins
<1>17. ASSUME PrepEnds  PROVE AccessTypeOK'
  <2>1. task' \in [Task -> TaskRow]
    <3>1. prep \in Task /\ Retry \in 0..Long
      BY <1>17 DEF AccessTypeOK, PrepEnds
    <3>2. Waiting(prep, Retry, "prep") \in [Task -> TaskRow]
      BY <3>1, <1>t, TaskTypes
    <3>3. [task EXCEPT ![prep].mark = "none"] \in [Task -> TaskRow]
      BY <1>t DEF TaskRow
    <3>4. QED  BY <1>17, <1>t, <3>2, <3>3 DEF PrepEnds
  <2>2. QED  BY <1>17, <2>1 DEF PrepEnds, AccessTypeOK, Event, AsExpected
<1>18. ASSUME NEW S \in SUBSET Task, LoseJobs(S)  PROVE AccessTypeOK'
  BY <1>18 DEF AccessTypeOK, LoseJobs, Session, Event
<1>19. ASSUME TimePasses  PROVE AccessTypeOK'
  <2>1. cred' \in Credential
    BY <1>19 DEF AccessTypeOK, TimePasses, Less, Credential
  <2>2. task' \in [Task -> TaskRow]
    <3>1. \A t \in Task : [task[t] EXCEPT !.wait = Less(@)] \in TaskRow
      BY <1>t DEF Less, TaskRow
    <3>2. QED  BY <1>19, <3>1 DEF TimePasses
  <2>3. promised' \in [Task -> 0..Long] /\ overridden' \subseteq Task /\ stale' \subseteq orphan'
    BY <1>19 DEF AccessTypeOK, TimePasses, Less
  <2>4. streak' \in 0..(FailureLimit + 1) /\ raced' \in BOOLEAN
    <3>1. streak \in 0..(FailureLimit + 1) /\ raced \in BOOLEAN
      BY DEF AccessTypeOK
    <3>2. CASE cred.lock = 1
      BY <1>19, <3>2 DEF TimePasses
    <3>3. CASE cred.lock # 1
      BY <1>19, <3>1, <3>3 DEF TimePasses
    <3>4. QED  BY <3>2, <3>3
  <2>5. QED  BY <1>19, <2>1, <2>2, <2>3, <2>4 DEF AccessTypeOK, TimePasses
<1>20. ASSUME NEW p \in Form, BeginEnroll(p) \/ BeginUpload(p)  PROVE AccessTypeOK'
  <2>1. Asks("enroll", "login", {}) \in RequestRecord /\ Asks("upload", "store", {}) \in RequestRecord
    BY DEF Asks, RequestRecord, NoCount
  <2>2. p \in Request /\ events' \in 0..MaxEvents
    BY <1>20 DEF Request, AccessTypeOK, BeginEnroll, BeginUpload, Event
  <2>3. CASE BeginEnroll(p)
    BY <2>1, <2>2, <2>3 DEF AccessTypeOK, BeginEnroll
  <2>4. CASE BeginUpload(p)
    BY <2>1, <2>2, <2>4 DEF AccessTypeOK, BeginUpload
  <2>5. QED  BY <1>20, <2>3, <2>4
<1>21. ASSUME ConnectBoard \/ Disconnect \/ DeleteCredential \/ ChangePassword \/ SessionExpires
       PROVE  AccessTypeOK'
  <2>0. Event
    BY <1>21 DEF ConnectBoard, Disconnect, DeleteCredential, ChangePassword, SessionExpires
  <2>1. events' \in 0..MaxEvents
    BY <2>0 DEF AccessTypeOK, Event
  <2>2. CASE ConnectBoard
    BY <2>1, <2>2 DEF AccessTypeOK, ConnectBoard
  <2>3. CASE Disconnect
    BY <2>1, <2>3 DEF AccessTypeOK, Disconnect, Session
  <2>4. CASE DeleteCredential
    BY <2>1, <2>4 DEF AccessTypeOK, DeleteCredential, Credential, NoCredential
  <2>5. CASE ChangePassword
    BY <2>1, <2>5 DEF AccessTypeOK, ChangePassword
  <2>6. CASE SessionExpires
    BY <2>1, <2>6 DEF AccessTypeOK, SessionExpires, Session
  <2>7. QED  BY <1>21, <2>2, <2>3, <2>4, <2>5, <2>6
<1>22. CASE UNCHANGED vars
  BY <1>22 DEF AccessTypeOK, vars
<1> QED
  BY <1>1, <1>2, <1>3, <1>4, <1>5, <1>6, <1>7, <1>8, <1>9, <1>10, <1>11, <1>12, <1>13, <1>14,
     <1>15, <1>16, <1>17, <1>18, <1>19, <1>20, <1>21, <1>22
     DEF Next, ClaimSome, RequestStep, NodeStep, UserStep

\* The account, the session, the credential and its count, the rows and the
\* requests keep their types.
THEOREM AccessTypeCorrect == Spec => []AccessTypeOK
<1>1. QED  BY TypeInit, TypeStep, PTL DEF Spec

(***************************************************************************)
(* The invariants.                                                         *)
(***************************************************************************)

\* Whoever works on a task: a node that holds a session, a claim that has not
\* come to it yet, or nobody; in all three it is leased, and only one of them.
LeaseInv ==
    /\ \A t \in Task : hand[t] # "none" => task[t].status = "leased" /\ t \notin orphan
    /\ \A t \in orphan : task[t].status = "leased"
    /\ \A p \in Request : \A t \in req[p].tasks :
           task[t].status = "leased" /\ hand[t] = "none" /\ t \notin orphan
    /\ \A p \in Request : \A q \in Request \ {p} : req[p].tasks \cap req[q].tasks = {}
    /\ \A t \in Task : task[t].status # "pending" => promised[t] = 0

\* After a disconnect nothing is under way but what the user began since.
QuietInv ==
    ~wanted /\ ~overtaken =>
        /\ account # "connected" /\ (blob # "none" => uploaded)
        /\ \A p \in Request : req[p].at # "idle" =>
               uploaded /\ req[p].kind = "upload" /\ req[p].at \in {"store", "lift"}

\* As long as logins did not overlap, the stored count is at least the number
\* of failures in a row, and a login under way was let through below the limit.
CountInv ==
    ~raced =>
        /\ streak <= FailureLimit
        /\ \A p \in LoggingIn : \A q \in LoggingIn : p = q
        /\ \A p \in LoggingIn : req[p].kind = "claim" => streak < FailureLimit
        /\ cred.set => streak <= cred.count /\ (cred.lock = 0 => streak < FailureLimit)
        /\ \A p \in Request : req[p].at = "record" /\ cred.set =>
               req[p].seen # NoCount /\ streak <= req[p].seen

(***************************************************************************)
(* Leases.                                                                 *)
(***************************************************************************)

\* A request that leaves a task goes on with the others it had.
LEMMA NextItemKeeps ==
    ASSUME req \in [Request -> RequestRecord], NEW p \in Request, NEW t \in req[p].tasks, NextItem(p, t)
    PROVE  /\ req'[p].tasks = req[p].tasks \ {t}
           /\ \A q \in Request \ {p} : req'[q] = req[q]
<1>1. Idle.tasks = {} /\ Asks("claim", "session", req[p].tasks \ {t}).tasks = req[p].tasks \ {t}
  BY DEF Idle, Asks
<1>2. QED  BY <1>1 DEF NextItem

\* Whatever a request does that keeps its tasks or gives them all up, and
\* touches no task, keeps the leases.
LEMMA LeaseSame ==
    ASSUME LeaseInv, UNCHANGED <<task, hand, orphan>>, UNCHANGED promised \/ promised' = [t \in Task |-> 0],
           \A p \in Request : req'[p].tasks \subseteq req[p].tasks
    PROVE  LeaseInv'
BY DEF LeaseInv

\* A task that is handed back is pending and nobody's.
LEMMA LeaseBack ==
    ASSUME AccessTypeOK, LeaseInv, NEW p \in Request, NEW t \in req[p].tasks,
           task' = NoSessionRelease(t), NextItem(p, t), UNCHANGED <<hand, orphan, promised>>
    PROVE  LeaseInv'
<1>t. task \in [Task -> TaskRow] /\ req \in [Request -> RequestRecord]
  BY DEF AccessTypeOK
<1>r. \A q \in Request : req[q].tasks \subseteq Task
  BY <1>t DEF RequestRecord
<1>1. \A u \in Task : task'[u] = IF u = t THEN [status |-> "pending", wait |-> Retry, mark |-> "no_session"] ELSE task[u]
  BY <1>t DEF NoSessionRelease, Waiting
<1>2. req'[p].tasks = req[p].tasks \ {t} /\ \A q \in Request \ {p} : req'[q] = req[q]
  BY <1>t, NextItemKeeps
<1>3. \A q \in Request : req'[q].tasks \subseteq req[q].tasks /\ t \notin req'[q].tasks
  BY <1>2 DEF LeaseInv
<1>4. orphan \subseteq Task
  BY DEF AccessTypeOK
<1>5. QED  BY <1>1, <1>3, <1>4, <1>r DEF LeaseInv

LEMMA LeaseStep ==
    ASSUME AccessTypeOK, LeaseInv, [Next]_vars
    PROVE  LeaseInv'
<1> USE DEF accountVars, wishVars, pauseVars, streakVars, leaseVars
<1>t. task \in [Task -> TaskRow] /\ req \in [Request -> RequestRecord] /\ hand \in [Task -> Session]
  BY DEF AccessTypeOK
<1>r. \A p \in Request : req[p].tasks \subseteq Task
  BY <1>t DEF RequestRecord
<1>1. ASSUME NEW p \in Node, NEW S \in SUBSET Task, Claim(p, S)  PROVE LeaseInv'
  <2> DEFINE row(t) == IF t \in S THEN [status |-> "leased", wait |-> 0, mark |-> "none"] ELSE Swept[t]
  <2>1. /\ task' = [t \in Task |-> row(t)] /\ orphan' = orphan \ stale /\ UNCHANGED hand
        /\ req' = [req EXCEPT ![p] = Asks("claim", "session", S)]
        /\ promised' = [t \in Task |-> IF t \in S THEN 0 ELSE promised[t]]
        /\ S \subseteq Due \cup stale
    BY <1>1 DEF Claim
  <2>2. Asks("claim", "session", S).tasks = S
    BY DEF Asks
  <2>3. p \in Request /\ req'[p].tasks = S /\ \A q \in Request \ {p} : req'[q] = req[q]
    BY <2>1, <2>2, <1>t DEF Request
  <2>4. stale \subseteq orphan /\ orphan \subseteq Task
    BY DEF AccessTypeOK
  <2>5. /\ \A t \in Task \ (S \cup stale) : task'[t] = task[t]
        /\ \A t \in S : task'[t].status = "leased"
        /\ \A t \in stale \ S : task'[t].status = "pending"
    BY <2>1, <2>4 DEF Swept
  <2>6. \A t \in S : hand[t] = "none" /\ \A q \in Request : t \notin req[q].tasks
    BY <2>1, <2>4 DEF LeaseInv, Due, Pending
  <2>7. \A q \in Request : \A t \in req[q].tasks : t \notin S \cup stale
    BY <2>4, <2>6 DEF LeaseInv
  <2>8. \A t \in Task : hand[t] # "none" => t \notin S \cup stale
    BY <2>4, <2>6 DEF LeaseInv
  <2>a. \A t \in Task : hand'[t] # "none" => task'[t].status = "leased" /\ t \notin orphan'
    BY <2>1, <2>5, <2>8 DEF LeaseInv
  <2>b. \A t \in orphan' : task'[t].status = "leased"
    BY <2>1, <2>4, <2>5 DEF LeaseInv
  <2>c. \A q \in Request : \A t \in req'[q].tasks :
           task'[t].status = "leased" /\ hand'[t] = "none" /\ t \notin orphan'
    <3>1. ASSUME NEW t \in S  PROVE task'[t].status = "leased" /\ hand'[t] = "none" /\ t \notin orphan'
      BY <2>1, <2>4, <2>5, <2>6, <1>t DEF LeaseInv, Due, Pending
    <3>2. ASSUME NEW q \in Request \ {p}, NEW t \in req[q].tasks
          PROVE  task'[t].status = "leased" /\ hand'[t] = "none" /\ t \notin orphan'
      BY <2>1, <2>5, <2>7, <1>r DEF LeaseInv
    <3>3. QED  BY <2>3, <3>1, <3>2
  <2>d. \A q \in Request : \A r \in Request \ {q} : req'[q].tasks \cap req'[r].tasks = {}
    BY <2>3, <2>7 DEF LeaseInv
  <2>e. \A t \in Task : task'[t].status # "pending" => promised'[t] = 0
    BY <2>1, <2>4, <2>5 DEF LeaseInv
  <2>9. QED  BY <2>a, <2>b, <2>c, <2>d, <2>e DEF LeaseInv
<1>3. ASSUME NEW p \in Request, Renew(p) \/ (\E ok \in BOOLEAN : Login(p, ok)) \/ StoreSession(p)
                                \/ MarkConnected(p) \/ UpsertCredential(p)
      PROVE  LeaseInv'
  <2>0. Idle.tasks = {}
    BY DEF Idle, Asks
  <2>1. \A q \in Request : req'[q].tasks \subseteq req[q].tasks
    <3>1. \A q \in Request \ {p} : req'[q] = req[q]
      BY <1>3, <1>t DEF Renew, Login, StoreSession, MarkConnected, UpsertCredential
    <3>2. req'[p].tasks \subseteq req[p].tasks
      <4>1. CASE Renew(p) \/ MarkConnected(p)
        BY <4>1, <1>t DEF Renew, MarkConnected, RequestRecord
      <4>2. CASE StoreSession(p) \/ UpsertCredential(p)
        BY <4>2, <2>0, <1>t DEF StoreSession, UpsertCredential, RequestRecord
      <4>3. CASE \E ok \in BOOLEAN : Login(p, ok)
        <5>1. PICK ok, n : req' = [req EXCEPT ![p] = [@ EXCEPT !.at = "record", !.ok = ok, !.seen = n]]
          BY <4>3 DEF Login
        <5>2. QED  BY <5>1, <1>t DEF RequestRecord
      <4>4. QED  BY <1>3, <4>1, <4>2, <4>3
    <3>3. QED  BY <3>1, <3>2
  <2>2. UNCHANGED <<task, hand, orphan, promised>>
    BY <1>3 DEF Renew, Login, StoreSession, MarkConnected, UpsertCredential
  <2>3. QED  BY <2>1, <2>2, LeaseSame
<1>4. ASSUME NEW p \in Request, RecordOutcome(p)  PROVE LeaseInv'
  <2>0. Idle.tasks = {}
    BY DEF Idle, Asks
  <2>1. UNCHANGED <<hand, orphan, promised>>
    BY <1>4 DEF RecordOutcome
  <2>2. CASE UNCHANGED task /\ (req' = [req EXCEPT ![p].at = "store"] \/ req' = [req EXCEPT ![p] = Idle])
    <3>1. \A q \in Request : req'[q].tasks \subseteq req[q].tasks
      BY <2>2, <2>0, <1>t DEF RequestRecord
    <3>2. QED  BY <2>1, <2>2, <3>1, LeaseSame
  <2>3. CASE \E t \in req[p].tasks : task' = NoSessionRelease(t) /\ NextItem(p, t)
    <3>1. PICK t \in req[p].tasks : task' = NoSessionRelease(t) /\ NextItem(p, t)
      BY <2>3
    <3>2. QED  BY <2>1, <3>1, <1>t, LeaseBack
  <2>4. QED  BY <1>4, <2>2, <2>3 DEF RecordOutcome
<1>6. ASSUME NEW p \in Request, Lift(p)  PROVE LeaseInv'
  <2>0. Idle.tasks = {}
    BY DEF Idle, Asks
  <2>1. \A q \in Request : req'[q].tasks \subseteq req[q].tasks
    BY <1>6, <2>0, <1>t DEF Lift
  <2>2. UNCHANGED <<hand, orphan>>
    BY <1>6 DEF Lift
  <2>3. CASE UNCHANGED task /\ UNCHANGED promised
    BY <2>1, <2>2, <2>3, LeaseSame
  <2>4. CASE task' = CooldownCleared /\ promised' = [t \in Task |-> 0]
    <3>1. \A t \in Task : task'[t].status = task[t].status
      BY <2>4, <1>t DEF CooldownCleared, TaskRow
    <3>2. orphan \subseteq Task
      BY DEF AccessTypeOK
    <3>3. QED  BY <2>1, <2>2, <2>4, <3>1, <3>2, <1>r DEF LeaseInv
  <2>5. QED  BY <1>6, <2>3, <2>4 DEF Lift
<1>9. ASSUME NEW p \in Request, NEW t \in Task, GetsSession(p, t)  PROVE LeaseInv'
  <2>1. t \in req[p].tasks /\ hand' = [hand EXCEPT ![t] = blob] /\ UNCHANGED <<task, orphan, promised>> /\ NextItem(p, t)
    BY <1>9 DEF GetsSession
  <2>2. req'[p].tasks = req[p].tasks \ {t} /\ \A q \in Request \ {p} : req'[q] = req[q]
    BY <2>1, <1>t, NextItemKeeps
  <2>3. \A q \in Request : req'[q].tasks \subseteq req[q].tasks /\ t \notin req'[q].tasks
    BY <2>1, <2>2 DEF LeaseInv
  <2>4. QED  BY <2>1, <2>3, <1>t, <1>r DEF LeaseInv
<1>10. ASSUME NEW p \in Request, NEW t \in Task, HandBack(p, t)  PROVE LeaseInv'
  BY <1>10, <1>t, LeaseBack DEF HandBack
<1>11. ASSUME NEW p \in Request, RequestDies(p)  PROVE LeaseInv'
  <2>1. Idle.tasks = {}
    BY DEF Idle, Asks
  <2>2. req' = [req EXCEPT ![p] = Idle] /\ orphan' = orphan \cup req[p].tasks /\ UNCHANGED <<task, hand, promised>>
    BY <1>11 DEF RequestDies
  <2>3. req'[p].tasks = {} /\ \A q \in Request \ {p} : req'[q] = req[q]
    BY <2>1, <2>2, <1>t
  <2>4. QED  BY <2>2, <2>3, <1>t, <1>r DEF LeaseInv
<1>12. ASSUME NEW t \in Task, Enqueue(t)  PROVE LeaseInv'
  <2>1. task' = Waiting(t, 0, "none") /\ UNCHANGED <<req, hand, orphan, promised>> /\ task[t].status = "none"
    BY <1>12 DEF Enqueue
  <2>2. \A u \in Task : task'[u] = IF u = t THEN [status |-> "pending", wait |-> 0, mark |-> "none"] ELSE task[u]
    BY <2>1, <1>t DEF Waiting
  <2>3. QED  BY <2>1, <2>2, <1>r DEF LeaseInv, AccessTypeOK
<1>13. ASSUME NEW t \in Task, JobEnds(t) \/ RefusedUnpaused(t)  PROVE LeaseInv'
  <2>1. /\ task' = Settled(t) /\ hand' = [hand EXCEPT ![t] = "none"]
        /\ UNCHANGED <<req, orphan, promised>> /\ hand[t] # "none"
    BY <1>13 DEF JobEnds, RefusedUnpaused
  <2>2. \A u \in Task : task'[u] = IF u = t THEN [status |-> "done", wait |-> 0, mark |-> "none"] ELSE task[u]
    BY <2>1, <1>t DEF Settled
  <2>3. QED  BY <2>1, <2>2, <1>r, <1>t DEF LeaseInv, AccessTypeOK
<1>14. ASSUME NEW t \in Task, NEW k \in {Short, Long}, Refused(t, k)  PROVE LeaseInv'
  <2>1. /\ task' = [Deferred(k) EXCEPT ![t] = Settled(t)[t]] /\ hand' = [hand EXCEPT ![t] = "none"]
        /\ promised' = [u \in Task |-> IF u \in Pending THEN Larger(promised[u], k) ELSE promised[u]]
        /\ UNCHANGED <<req, orphan>> /\ hand[t] # "none"
    BY <1>14 DEF Refused
  <2>2. \A u \in Task \ {t} : task'[u].status = task[u].status
    BY <2>1, <1>t DEF Deferred, TaskRow
  <2>3. task[t].status = "leased" /\ \A q \in Request : t \notin req[q].tasks
    BY <2>1 DEF LeaseInv
  <2>4. \A u \in Task : task'[u].status # "pending" => promised'[u] = 0
    <3>1. promised'[t] = 0
      BY <2>1, <2>3 DEF LeaseInv, Pending
    <3>2. ASSUME NEW u \in Task \ {t}, task'[u].status # "pending"  PROVE promised'[u] = 0
      BY <2>1, <2>2, <3>2 DEF LeaseInv, Pending
    <3>3. QED  BY <3>1, <3>2
  <2>5. QED  BY <2>1, <2>2, <2>3, <2>4, <1>r, <1>t DEF LeaseInv, AccessTypeOK
<1>17. ASSUME PrepEnds  PROVE LeaseInv'
  <2>1. UNCHANGED <<req, hand, orphan, promised>>
    BY <1>17 DEF PrepEnds
  <2>2. \A u \in Task : task'[u].status = task[u].status
    <3>1. CASE UNCHANGED task
      BY <3>1
    <3>2. CASE task' = [task EXCEPT ![prep].mark = "none"]
      BY <3>2, <1>t DEF TaskRow
    <3>3. CASE prep \in Pending /\ task' = Waiting(prep, Retry, "prep")
      BY <3>3, <1>t DEF Pending, Waiting
    <3>4. QED  BY <1>17, <3>1, <3>2, <3>3 DEF PrepEnds
  <2>3. QED  BY <2>1, <2>2, <1>r DEF LeaseInv, AccessTypeOK
<1>18. ASSUME NEW S \in SUBSET Task, LoseJobs(S)  PROVE LeaseInv'
  BY <1>18, <1>t, <1>r DEF LoseJobs, LeaseInv, AccessTypeOK
<1>19. ASSUME TimePasses  PROVE LeaseInv'
  <2>1. UNCHANGED <<req, hand, orphan>> /\ promised' = [t \in Task |-> Less(promised[t])]
    BY <1>19 DEF TimePasses
  <2>2. \A u \in Task : task'[u].status = task[u].status
    BY <1>19, <1>t DEF TimePasses, TaskRow
  <2>3. QED  BY <2>1, <2>2, <1>r DEF LeaseInv, AccessTypeOK, Less
<1>20. ASSUME NEW p \in Form, BeginEnroll(p) \/ BeginUpload(p)  PROVE LeaseInv'
  <2>1. Asks("enroll", "login", {}).tasks = {} /\ Asks("upload", "store", {}).tasks = {}
    BY DEF Asks
  <2>2. \A q \in Request : req'[q].tasks \subseteq req[q].tasks
    BY <1>20, <2>1, <1>t DEF BeginEnroll, BeginUpload
  <2>3. UNCHANGED <<task, hand, orphan, promised>>
    BY <1>20 DEF BeginEnroll, BeginUpload
  <2>4. QED  BY <2>2, <2>3, LeaseSame
<1>21. ASSUME ConnectBoard \/ Disconnect \/ DeleteCredential \/ ChangePassword \/ SessionExpires
              \/ (\E t \in Task : PrepBegins(t)) \/ UNCHANGED vars
       PROVE  LeaseInv'
  <2>1. CASE SessionExpires
    <3>1. UNCHANGED <<task, req, orphan, promised>> /\ \A t \in Task : hand'[t] = "none" <=> hand[t] = "none"
      BY <2>1 DEF SessionExpires
    <3>2. QED  BY <3>1, <1>r DEF LeaseInv
  <2>2. CASE UNCHANGED <<task, req, hand, orphan, promised>>
    BY <2>2, LeaseSame
  <2>3. QED
    BY <1>21, <2>1, <2>2 DEF ConnectBoard, Disconnect, DeleteCredential, ChangePassword, PrepBegins, vars
<1> QED
  BY <1>1, <1>3, <1>4, <1>6, <1>9, <1>10, <1>11, <1>12, <1>13, <1>14,
     <1>17, <1>18, <1>19, <1>20, <1>21
     DEF Next, ClaimSome, RequestStep, NodeStep, UserStep

(***************************************************************************)
(* Pauses.                                                                 *)
(***************************************************************************)

\* A task whose row and pause stay, or that was not pending before, keeps the
\* invariant about it.
PauseOf(t) ==
    t \in Pending /\ promised[t] > 0 =>
        (task[t].wait >= promised[t] /\ task[t].mark = "cooldown") \/ t \in overridden

LEMMA PauseStep ==
    ASSUME AccessTypeOK, LeaseInv, PausesHold, [Next]_vars
    PROVE  PausesHold'
<1> USE Numbers
<1> USE DEF accountVars, wishVars, pauseVars, streakVars, leaseVars
<1>t. task \in [Task -> TaskRow] /\ promised \in [Task -> 0..Long] /\ overridden \subseteq Task
  BY DEF AccessTypeOK
<1>p. \A t \in Task : PauseOf(t)
  BY DEF PausesHold, PauseOf, Pending
<1>z. \A t \in Task : t \notin Pending => promised[t] = 0
  BY DEF LeaseInv, Pending
<1> SUFFICES ASSUME NEW t \in Task  PROVE PauseOf(t)'
  BY DEF PausesHold, PauseOf, Pending
<1>0. ASSUME task'[t] = task[t], promised'[t] = promised[t], overridden \subseteq overridden'
      PROVE  PauseOf(t)'
  BY <1>0, <1>p DEF PauseOf, Pending
<1>n. ASSUME promised'[t] = 0  PROVE PauseOf(t)'
  BY <1>n DEF PauseOf
<1>1. ASSUME NEW p \in Node, NEW S \in SUBSET Task, Claim(p, S)  PROVE PauseOf(t)'
  <2>1. CASE t \in S \cup stale
    <3>1. promised[t] = 0 \/ t \in S
      BY <2>1, <1>z DEF LeaseInv, AccessTypeOK, Pending
    <3>2. QED  BY <1>1, <3>1, <1>n DEF Claim
  <2>2. CASE t \notin S \cup stale
    BY <1>1, <2>2, <1>p DEF Claim, Swept, PauseOf, Pending
  <2>3. QED  BY <2>1, <2>2
<1>2. ASSUME NEW p \in Request, NEW u \in Task, HandBack(p, u) \/ RecordOutcome(p), u \in req[p].tasks,
             task' = NoSessionRelease(u), UNCHANGED <<promised, overridden>>
      PROVE  PauseOf(t)'
  <2>1. promised[u] = 0
    BY <1>2, <1>z DEF LeaseInv, Pending
  <2>2. t # u => task'[t] = task[t]
    BY <1>2, <1>t DEF NoSessionRelease, Waiting
  <2>3. QED  BY <1>2, <2>1, <2>2, <1>0, <1>n
<1>4. ASSUME NEW p \in Request, RecordOutcome(p)  PROVE PauseOf(t)'
  <2>1. UNCHANGED task \/ \E u \in req[p].tasks : task' = NoSessionRelease(u)
    BY <1>4 DEF RecordOutcome
  <2>2. UNCHANGED <<promised, overridden>>
    BY <1>4 DEF RecordOutcome
  <2>3. \A u \in req[p].tasks : u \in Task
    BY DEF AccessTypeOK, RequestRecord
  <2>4. QED  BY <2>1, <2>2, <2>3, <1>4, <1>2, <1>0
<1>5. ASSUME NEW p \in Request, NEW u \in Task, HandBack(p, u)  PROVE PauseOf(t)'
  BY <1>5, <1>2 DEF HandBack
<1>6. ASSUME NEW p \in Request, Lift(p)  PROVE PauseOf(t)'
  BY <1>6, <1>0, <1>n DEF Lift
<1>12. ASSUME NEW u \in Task, Enqueue(u)  PROVE PauseOf(t)'
  <2>1. CASE t = u
    <3>1. promised[t] = 0
      BY <1>12, <2>1, <1>z DEF Enqueue, Pending
    <3>2. QED  BY <1>12, <3>1, <1>n DEF Enqueue
  <2>2. CASE t # u
    BY <1>12, <2>2, <1>0, <1>t DEF Enqueue, Waiting
  <2>3. QED  BY <2>1, <2>2
<1>13. ASSUME NEW u \in Task, JobEnds(u) \/ RefusedUnpaused(u)  PROVE PauseOf(t)'
  <2>1. promised[u] = 0
    BY <1>13, <1>z DEF JobEnds, RefusedUnpaused, LeaseInv, Pending
  <2>2. t # u => task'[t] = task[t]
    BY <1>13, <1>t DEF JobEnds, RefusedUnpaused, Settled
  <2>3. QED  BY <1>13, <2>1, <2>2, <1>0, <1>n DEF JobEnds, RefusedUnpaused
<1>14. ASSUME NEW u \in Task, NEW k \in {Short, Long}, Refused(u, k)  PROVE PauseOf(t)'
  <2>1. u \notin Pending
    BY <1>14 DEF Refused, LeaseInv, Pending
  <2>2. /\ task' = [Deferred(k) EXCEPT ![u] = Settled(u)[u]] /\ UNCHANGED overridden
        /\ promised'[t] = IF t \in Pending THEN Larger(promised[t], k) ELSE promised[t]
    BY <1>14 DEF Refused
  <2>3. CASE t \notin Pending
    BY <2>2, <2>3, <1>z, <1>n
  <2>4. CASE t \in Pending
    <3>1. task'[t] = [task[t] EXCEPT !.wait = Larger(@, k), !.mark = "cooldown"]
      BY <2>1, <2>2, <2>4 DEF Deferred
    <3>2. task'[t].wait = Larger(task[t].wait, k) /\ task'[t].mark = "cooldown"
      BY <3>1, <1>t DEF TaskRow
    <3>3. promised'[t] = Larger(promised[t], k)
      BY <2>2, <2>4
    <3>4. task[t].wait \in Nat /\ promised[t] \in Nat /\ k \in Nat
      BY <1>t, <1>14 DEF TaskRow
    <3>5. promised[t] > 0 => task[t].wait >= promised[t] \/ t \in overridden
      BY <2>4, <1>p DEF PauseOf
    <3>6. task'[t].wait >= promised'[t] \/ t \in overridden
      BY <3>2, <3>3, <3>4, <3>5 DEF Larger
    <3>7. QED  BY <2>2, <3>2, <3>6 DEF PauseOf
  <2>5. QED  BY <2>3, <2>4
<1>17. ASSUME PrepEnds  PROVE PauseOf(t)'
  <2>1. UNCHANGED promised /\ overridden \subseteq overridden'
    BY <1>17 DEF PrepEnds
  <2>2. CASE t = prep /\ promised[t] > 0
    BY <1>17, <2>2 DEF PrepEnds, PauseOf
  <2>3. CASE t = prep /\ promised[t] = 0
    BY <2>1, <2>3, <1>n
  <2>4. CASE t # prep
    BY <1>17, <2>1, <2>4, <1>0, <1>t DEF PrepEnds, Waiting
  <2>5. promised[t] \in Nat
    BY <1>t
  <2>6. QED  BY <2>2, <2>3, <2>4, <2>5
<1>19. ASSUME TimePasses  PROVE PauseOf(t)'
  <2>1. /\ task'[t] = [task[t] EXCEPT !.wait = Less(@)] /\ promised'[t] = Less(promised[t])
        /\ overridden' = {u \in overridden : promised[u] > 1}
    BY <1>19 DEF TimePasses
  <2>2. /\ task'[t].wait = Less(task[t].wait) /\ task'[t].mark = task[t].mark
        /\ task'[t].status = task[t].status
    BY <2>1, <1>t DEF TaskRow
  <2>3. task[t].wait \in Nat /\ promised[t] \in Nat
    BY <1>t DEF TaskRow
  <2>4. SUFFICES ASSUME t \in Pending, promised'[t] > 0
                 PROVE  (task'[t].wait >= promised'[t] /\ task'[t].mark = "cooldown") \/ t \in overridden'
    BY <2>2 DEF PauseOf, Pending
  <2>5. promised[t] > 1 /\ promised'[t] = promised[t] - 1
    BY <2>1, <2>3, <2>4 DEF Less
  <2>6. (task[t].wait >= promised[t] /\ task[t].mark = "cooldown") \/ t \in overridden
    BY <2>3, <2>4, <2>5, <1>p DEF PauseOf
  <2>7. CASE t \in overridden
    BY <2>1, <2>5, <2>7
  <2>8. CASE task[t].wait >= promised[t] /\ task[t].mark = "cooldown"
    BY <2>2, <2>3, <2>5, <2>8 DEF Less
  <2>9. QED  BY <2>6, <2>7, <2>8
<1>21. ASSUME UNCHANGED <<task, promised, overridden>>  PROVE PauseOf(t)'
  BY <1>21, <1>0
<1>22. ASSUME NEW p \in Request, Renew(p) \/ (\E ok \in BOOLEAN : Login(p, ok)) \/ StoreSession(p)
                \/ MarkConnected(p) \/ UpsertCredential(p) \/ RequestDies(p)
                \/ \E u \in Task : GetsSession(p, u)
       PROVE  PauseOf(t)'
  BY <1>22, <1>21 DEF Renew, Login, StoreSession, MarkConnected, UpsertCredential, RequestDies, GetsSession
<1>23. ASSUME UserStep \/ (\E u \in Task : PrepBegins(u)) \/ (\E S \in SUBSET Task : LoseJobs(S)) \/ UNCHANGED vars
       PROVE  PauseOf(t)'
  BY <1>23, <1>21 DEF UserStep, BeginEnroll, BeginUpload, ConnectBoard, Disconnect, DeleteCredential,
                      ChangePassword, SessionExpires, PrepBegins, LoseJobs, vars
<1> QED
  BY <1>1, <1>4, <1>5, <1>6, <1>12, <1>13, <1>14, <1>17, <1>19, <1>22, <1>23
     DEF Next, ClaimSome, RequestStep, NodeStep

LEMMA PauseInit == Init => LeaseInv /\ PausesHold
<1> SUFFICES ASSUME Init  PROVE LeaseInv /\ PausesHold
  OBVIOUS
<1>1. Idle.tasks = {}
  BY DEF Idle, Asks
<1>2. \A t \in Task : promised[t] = 0
  BY DEF Init
<1>3. QED  BY <1>1, <1>2 DEF Init, LeaseInv, PausesHold, Pending

\* No task becomes claimable, or loses the mark that tells it apart, before its
\* pause is over or lifted, but by the preparation of a resume.
THEOREM PausesHoldAlways == Spec => []PausesHold
<1>1. AccessTypeOK /\ LeaseInv /\ PausesHold /\ [Next]_vars => (AccessTypeOK /\ LeaseInv /\ PausesHold)'
  BY TypeStep, LeaseStep, PauseStep
<1>2. Init => AccessTypeOK /\ LeaseInv /\ PausesHold
  BY TypeInit, PauseInit
<1>3. QED  BY <1>1, <1>2, PTL DEF Spec

\* A task somebody works on, or whose worker is lost, is leased, and nobody
\* works on a task with somebody else.
THEOREM OneWorkerPerTask == Spec => []LeaseInv
<1>1. AccessTypeOK /\ LeaseInv /\ [Next]_vars => (AccessTypeOK /\ LeaseInv)'
  BY TypeStep, LeaseStep
<1>2. Init => AccessTypeOK /\ LeaseInv
  BY TypeInit, PauseInit
<1>3. QED  BY <1>1, <1>2, PTL DEF Spec

(***************************************************************************)
(* Disconnecting.                                                          *)
(***************************************************************************)

LEMMA QuietStep ==
    ASSUME AccessTypeOK, QuietInv, [Next]_vars
    PROVE  QuietInv'
<1> USE DEF accountVars, wishVars, pauseVars, streakVars, leaseVars
<1>t. req \in [Request -> RequestRecord]
  BY DEF AccessTypeOK
<1>i. Idle.at = "idle"
  BY DEF Idle, Asks
<1> SUFFICES ASSUME ~wanted', ~overtaken'
             PROVE  /\ account' # "connected" /\ (blob' # "none" => uploaded')
                    /\ \A p \in Request : req'[p].at # "idle" =>
                           uploaded' /\ req'[p].kind = "upload" /\ req'[p].at \in {"store", "lift"}
  BY DEF QuietInv
<1> DEFINE Goal == /\ account' # "connected" /\ (blob' # "none" => uploaded')
                   /\ \A p \in Request : req'[p].at # "idle" =>
                           uploaded' /\ req'[p].kind = "upload" /\ req'[p].at \in {"store", "lift"}
<1>q. ASSUME UNCHANGED wishVars
      PROVE  /\ account # "connected" /\ (blob # "none" => uploaded)
             /\ \A p \in Request : req[p].at # "idle" =>
                    uploaded /\ req[p].kind = "upload" /\ req[p].at \in {"store", "lift"}
  BY <1>q DEF QuietInv
<1>0. ASSUME UNCHANGED <<wanted, uploaded, overtaken, account, blob, req>>  PROVE Goal
  BY <1>0, <1>q
<1>1. ASSUME NEW p \in Request, NEW S \in SUBSET Task, Claim(p, S)  PROVE Goal
  BY <1>1, <1>q DEF Claim, Usable
<1>2. ASSUME NEW p \in Request, Renew(p) \/ (\E ok \in BOOLEAN : Login(p, ok)) \/ RecordOutcome(p)
                \/ MarkConnected(p) \/ UpsertCredential(p) \/ \E t \in Task : GetsSession(p, t) \/ HandBack(p, t)
      PROVE  Goal
  <2>1. UNCHANGED wishVars
    BY <1>2 DEF Renew, Login, RecordOutcome, MarkConnected, UpsertCredential, GetsSession, HandBack
  <2>2. req[p].at \notin {"idle", "store", "lift"}
    BY <1>2 DEF Renew, Login, RecordOutcome, MarkConnected, UpsertCredential, GetsSession, HandBack
  <2>3. QED  BY <2>1, <2>2, <1>q
<1>3. ASSUME NEW p \in Request, StoreSession(p)  PROVE Goal
  <2>1. UNCHANGED wishVars /\ UNCHANGED account /\ req[p].at = "store"
    BY <1>3 DEF StoreSession
  <2>2. uploaded /\ req[p].kind = "upload"
    BY <2>1, <1>q
  <2>3. req'[p].at = "idle" \/ (req'[p].at = "lift" /\ req'[p].kind = "upload")
    BY <1>3, <2>2, <1>i, <1>t DEF StoreSession, RequestRecord
  <2>4. \A q \in Request \ {p} : req'[q] = req[q]
    BY <1>3, <1>t DEF StoreSession
  <2>5. QED  BY <2>1, <2>2, <2>3, <2>4, <1>q
<1>4. ASSUME NEW p \in Request, Lift(p)  PROVE Goal
  <2>1. UNCHANGED <<wanted, uploaded, overtaken, account, blob>> /\ req[p].at = "lift"
    BY <1>4 DEF Lift
  <2>2. req[p].kind = "upload"
    BY <2>1, <1>q
  <2>3. req'[p] = Idle /\ \A q \in Request \ {p} : req'[q] = req[q]
    BY <1>4, <2>2, <1>t DEF Lift
  <2>4. QED  BY <2>1, <2>3, <1>i, <1>q
<1>5. ASSUME NEW p \in Request, RequestDies(p)  PROVE Goal
  <2>1. UNCHANGED <<wanted, uploaded, overtaken, account, blob>> /\ req'[p] = Idle
    BY <1>5, <1>t DEF RequestDies
  <2>2. \A q \in Request \ {p} : req'[q] = req[q]
    BY <1>5, <1>t DEF RequestDies
  <2>3. QED  BY <2>1, <2>2, <1>i, <1>q
<1>6. ASSUME NEW p \in Form, BeginUpload(p)  PROVE Goal
  <2>1. UNCHANGED <<wanted, overtaken, account, blob>> /\ uploaded' = TRUE /\ p \in Request
    BY <1>6 DEF BeginUpload, Request
  <2>2. Asks("upload", "store", {}).at = "store" /\ Asks("upload", "store", {}).kind = "upload"
    BY DEF Asks
  <2>3. req'[p].at = "store" /\ req'[p].kind = "upload" /\ \A q \in Request \ {p} : req'[q] = req[q]
    BY <1>6, <2>1, <2>2, <1>t DEF BeginUpload
  <2>4. ~wanted /\ ~overtaken
    BY <2>1
  <2>5. QED  BY <2>1, <2>3, <2>4 DEF QuietInv
<1>7. ASSUME Disconnect  PROVE Goal
  BY <1>7 DEF Disconnect
<1>8. ASSUME ConnectBoard \/ \E p \in Form : BeginEnroll(p)  PROVE Goal
  BY <1>8 DEF ConnectBoard, BeginEnroll
<1>9. ASSUME SessionExpires  PROVE Goal
  BY <1>9, <1>q DEF SessionExpires
<1>10. ASSUME DeleteCredential \/ ChangePassword \/ (\E t \in Task : Enqueue(t) \/ NodeStep(t) \/ RefusedUnpaused(t) \/ PrepBegins(t))
              \/ PrepEnds \/ (\E S \in SUBSET Task : LoseJobs(S)) \/ TimePasses \/ UNCHANGED vars
       PROVE  Goal
  BY <1>10, <1>0 DEF DeleteCredential, ChangePassword, Enqueue, NodeStep, JobEnds, Refused, RefusedUnpaused,
                     PrepBegins, PrepEnds, LoseJobs, TimePasses, vars
<1> HIDE DEF Goal
<1>11. Goal
  BY <1>1, <1>2, <1>3, <1>4, <1>5, <1>6, <1>7, <1>8, <1>9, <1>10
     DEF Next, ClaimSome, RequestStep, UserStep, Request
<1> QED  BY <1>11 DEF Goal

LEMMA QuietInit == Init => QuietInv
<1>1. Idle.at = "idle"
  BY DEF Idle, Asks
<1>2. QED  BY <1>1 DEF Init, QuietInv

\* A disconnect is undone by nobody but the user, or a request it overtook.
THEOREM DisconnectIsFinalAlways == Spec => []DisconnectIsFinal
<1>1. AccessTypeOK /\ QuietInv /\ [Next]_vars => (AccessTypeOK /\ QuietInv)'
  BY TypeStep, QuietStep
<1>2. QuietInv => DisconnectIsFinal
  BY DEF QuietInv, DisconnectIsFinal
<1>3. QED  BY <1>1, <1>2, TypeInit, QuietInit, PTL DEF Spec

(***************************************************************************)
(* Failed logins.                                                          *)
(***************************************************************************)

\* What the invariant says of the state without the history of overlaps.
CountGood ==
    /\ streak <= FailureLimit
    /\ \A p \in Request : \A q \in Request :
           req[p].at \in {"login", "record"} /\ req[q].at \in {"login", "record"} => p = q
    /\ \A p \in Request :
           req[p].at \in {"login", "record"} /\ req[p].kind = "claim" => streak < FailureLimit
    /\ cred.set => streak <= cred.count /\ (cred.lock = 0 => streak < FailureLimit)
    /\ \A p \in Request : req[p].at = "record" /\ cred.set =>
           req[p].seen # NoCount /\ streak <= req[p].seen

LEMMA CountForm == CountInv <=> (~raced => CountGood)
BY DEF CountInv, CountGood, LoggingIn

LEMMA CountStep ==
    ASSUME AccessTypeOK, CountInv, [Next]_vars
    PROVE  CountInv'
<1> USE Numbers
<1> USE DEF accountVars, wishVars, pauseVars, streakVars, leaseVars
<1>t. /\ req \in [Request -> RequestRecord] /\ cred \in Credential
      /\ streak \in 0..(FailureLimit + 1) /\ raced \in BOOLEAN
  BY DEF AccessTypeOK
<1>i. Idle.at = "idle"
  BY DEF Idle, Asks
<1> SUFFICES ASSUME ~raced'  PROVE CountGood'
  BY DEF CountInv, CountGood, LoggingIn
<1>g. ~raced => CountGood
  BY CountForm
<1>0. ASSUME UNCHANGED <<streak, raced, cred>>,
             \A p \in Request : req'[p] = req[p] \/ req'[p].at \notin {"login", "record"}
      PROVE  CountGood'
  <2>1. CountGood
    BY <1>0, <1>g
  <2>2. /\ \A p \in Request : req'[p].at \in {"login", "record"} => req'[p] = req[p]
        /\ \A p \in Request : req'[p].at = "record" => req'[p] = req[p]
    BY <1>0
  <2> HIDE DEF streakVars
  <2>a. (streak <= FailureLimit)'
    BY <1>0, <2>1 DEF CountGood
  <2>b. \A p \in Request : \A q \in Request :
           req'[p].at \in {"login", "record"} /\ req'[q].at \in {"login", "record"} => p = q
    BY <2>1, <2>2 DEF CountGood
  <2>c. \A p \in Request :
           req'[p].at \in {"login", "record"} /\ req'[p].kind = "claim" => streak' < FailureLimit
    BY <1>0, <2>1, <2>2 DEF CountGood
  <2>d. cred'.set => streak' <= cred'.count /\ (cred'.lock = 0 => streak' < FailureLimit)
    BY <1>0, <2>1 DEF CountGood
  <2>e. \A p \in Request : req'[p].at = "record" /\ cred'.set =>
           req'[p].seen # NoCount /\ streak' <= req'[p].seen
    BY <1>0, <2>1, <2>2 DEF CountGood
  <2>3. QED  BY <2>a, <2>b, <2>c, <2>d, <2>e DEF CountGood
<1>1. ASSUME NEW p \in Node, NEW S \in SUBSET Task, Claim(p, S)  PROVE CountGood'
  <2>1. Asks("claim", "session", S).at = "session"
    BY DEF Asks
  <2>2. UNCHANGED <<streak, raced, cred>> /\ req' = [req EXCEPT ![p] = Asks("claim", "session", S)]
    BY <1>1 DEF Claim
  <2>3. QED  BY <1>0, <1>t, <2>1, <2>2
<1>2. ASSUME NEW p \in Request, Renew(p)  PROVE CountGood'
  <2>1. ~raced /\ LoggingIn = {} /\ UNCHANGED <<streak, cred>> /\ cred.set /\ cred.lock = 0
    BY <1>2 DEF Renew, CanRenew
  <2>2. CountGood
    BY <2>1, <1>g
  <2>3. req'[p].at = "login" /\ \A q \in Request \ {p} : req'[q] = req[q]
    BY <1>2, <1>t DEF Renew, RequestRecord
  <2>4. \A q \in Request \ {p} : req'[q].at \notin {"login", "record"}
    BY <2>1, <2>3 DEF LoggingIn
  <2>5. streak < FailureLimit /\ streak <= cred.count
    BY <2>1, <2>2 DEF CountGood
  <2>6. QED  BY <2>1, <2>2, <2>3, <2>4, <2>5, <1>t DEF CountGood
<1>3. ASSUME NEW p \in Request, NEW ok \in BOOLEAN, Login(p, ok)  PROVE CountGood'
  <2>1. ~raced /\ UNCHANGED <<streak, cred>> /\ req[p].at = "login"
    BY <1>3 DEF Login
  <2>2. CountGood
    BY <2>1, <1>g
  <2> DEFINE seen == IF cred.set THEN cred.count ELSE NoCount
  <2>3. req' = [req EXCEPT ![p] = [@ EXCEPT !.at = "record", !.ok = ok, !.seen = seen]]
    BY <1>3 DEF Login
  <2>4. cred.set => seen # NoCount /\ streak <= seen
    BY <2>2, <1>t DEF CountGood, NoCount, Credential
  <2> HIDE DEF seen
  <2>5. /\ req'[p].at = "record" /\ req'[p].seen = seen /\ req'[p].kind = req[p].kind
        /\ \A q \in Request \ {p} : req'[q] = req[q]
    BY <2>3, <1>t DEF RequestRecord
  <2>6. \A q \in Request \ {p} : req'[q].at \notin {"login", "record"}
    BY <2>1, <2>2, <2>5 DEF CountGood
  <2>7. QED  BY <2>1, <2>2, <2>4, <2>5, <2>6, <1>t DEF CountGood
<1>4. ASSUME NEW p \in Request, RecordOutcome(p)  PROVE CountGood'
  <2>1. req[p].at = "record" /\ \A q \in Request \ {p} : req'[q] = req[q]
    <3>1. \A t \in req[p].tasks : NextItem(p, t) => \A q \in Request \ {p} : req'[q] = req[q]
      BY <1>t DEF NextItem
    <3>2. QED  BY <1>4, <3>1, <1>t DEF RecordOutcome
  <2>2. req'[p].at \notin {"login", "record"}
    <3>1. CASE req' = [req EXCEPT ![p].at = "store"] \/ req' = [req EXCEPT ![p] = Idle]
      BY <3>1, <1>t, <1>i DEF RequestRecord
    <3>2. ASSUME NEW t \in req[p].tasks, NextItem(p, t)  PROVE req'[p].at \notin {"login", "record"}
      <4>1. Asks("claim", "session", req[p].tasks \ {t}).at = "session"
        BY DEF Asks
      <4>2. QED  BY <3>2, <4>1, <1>t, <1>i DEF NextItem
    <3>3. QED  BY <1>4, <3>1, <3>2 DEF RecordOutcome
  <2>3. CASE req[p].ok
    <3>1. streak' = 0 /\ LoggingIn \ {p} = {}
      BY <1>4, <2>3 DEF RecordOutcome
    <3>2. \A q \in Request : req'[q].at \notin {"login", "record"}
      BY <2>1, <2>2, <3>1 DEF LoggingIn
    <3>3. cred'.set => 0 <= cred'.count
      BY <1>4, <2>3, <1>t DEF RecordOutcome, Recorded, Credential
    <3>4. QED  BY <3>1, <3>2, <3>3 DEF CountGood
  <2>4. CASE ~req[p].ok
    <3>1. UNCHANGED raced
      BY <1>4, <2>4 DEF RecordOutcome
    <3>2. CountGood
      BY <3>1, <1>g
    <3>3. \A q \in Request : req'[q].at \notin {"login", "record"}
      BY <2>1, <2>2, <3>2 DEF CountGood
    <3>4. streak \in Nat /\ req[p].seen \in NoCount..FailureLimit
      BY <1>t DEF RequestRecord
    <3>5. streak' = IF req[p].kind = "claim" THEN Smaller(streak + 1, FailureLimit + 1) ELSE streak
      BY <1>4, <2>4 DEF RecordOutcome
    <3>6. req[p].kind = "claim" => streak < FailureLimit
      BY <2>1, <3>2 DEF CountGood
    <3>7. streak' \in Nat /\ streak' <= FailureLimit /\ streak' <= streak + 1
          /\ (req[p].kind # "claim" => streak' = streak)
      BY <3>2, <3>4, <3>5, <3>6 DEF Smaller, CountGood
    <3>8. cred'.set => streak' <= cred'.count /\ (cred'.lock = 0 => streak' < FailureLimit)
      <4> SUFFICES ASSUME cred'.set
                   PROVE  streak' <= cred'.count /\ (cred'.lock = 0 => streak' < FailureLimit)
        OBVIOUS
      <4>1. cred.set
        BY <1>4 DEF RecordOutcome
      <4>2. req[p].seen # NoCount /\ streak <= req[p].seen
        BY <2>1, <3>2, <4>1 DEF CountGood
      <4>3. cred' = Recorded(req[p].seen, req[p].ok)
        BY <1>4, <4>1, <4>2 DEF RecordOutcome
      <4>4. cred'.count = Smaller(req[p].seen + 1, FailureLimit)
            /\ cred'.lock = IF req[p].seen + 1 >= FailureLimit THEN Lockout ELSE 0
        BY <4>3, <2>4 DEF Recorded
      <4>5. QED  BY <3>4, <3>7, <4>2, <4>4 DEF Smaller, NoCount
    <3>9. QED  BY <3>3, <3>7, <3>8 DEF CountGood
  <2>5. QED  BY <2>3, <2>4
<1>5. ASSUME NEW p \in Request, StoreSession(p) \/ Lift(p) \/ MarkConnected(p) \/ RequestDies(p)
                \/ \E t \in Task : GetsSession(p, t) \/ HandBack(p, t)
      PROVE  CountGood'
  <2>1. UNCHANGED <<streak, raced, cred>>
    BY <1>5 DEF StoreSession, Lift, MarkConnected, RequestDies, GetsSession, HandBack
  <2>2. \A q \in Request \ {p} : req'[q] = req[q]
    BY <1>5, <1>t DEF StoreSession, Lift, MarkConnected, RequestDies, GetsSession, HandBack, NextItem
  <2>3. req'[p].at \notin {"login", "record"}
    <3>1. CASE StoreSession(p) \/ Lift(p) \/ MarkConnected(p) \/ RequestDies(p)
      BY <3>1, <1>t, <1>i DEF StoreSession, Lift, MarkConnected, RequestDies, RequestRecord
    <3>2. ASSUME NEW t \in Task, NextItem(p, t)  PROVE req'[p].at \notin {"login", "record"}
      <4>1. Asks("claim", "session", req[p].tasks \ {t}).at = "session"
        BY DEF Asks
      <4>2. QED  BY <3>2, <4>1, <1>t, <1>i DEF NextItem
    <3>3. QED  BY <1>5, <3>1, <3>2 DEF GetsSession, HandBack
  <2>4. QED  BY <2>1, <2>2, <2>3, <1>0
<1>6. ASSUME NEW p \in Request, UpsertCredential(p)  PROVE CountGood'
  <2>1. LoggingIn = {} /\ streak' = 0 /\ cred' = [set |-> TRUE, count |-> 0, lock |-> 0]
    BY <1>6 DEF UpsertCredential
  <2>2. \A q \in Request : req'[q].at \notin {"login", "record"}
    BY <1>6, <2>1, <1>t, <1>i DEF UpsertCredential, LoggingIn
  <2>3. QED  BY <2>1, <2>2 DEF CountGood
<1>7. ASSUME NEW p \in Form, BeginEnroll(p)  PROVE CountGood'
  <2>1. p \in Request /\ ~raced /\ LoggingIn = {} /\ UNCHANGED <<streak, cred>>
    BY <1>7 DEF BeginEnroll, Request
  <2>2. CountGood
    BY <2>1, <1>g
  <2>3. Asks("enroll", "login", {}).at = "login" /\ Asks("enroll", "login", {}).kind = "enroll"
    BY DEF Asks
  <2>4. req'[p].at = "login" /\ req'[p].kind = "enroll" /\ \A q \in Request \ {p} : req'[q] = req[q]
    BY <1>7, <2>1, <2>3, <1>t DEF BeginEnroll
  <2>5. \A q \in Request \ {p} : req'[q].at \notin {"login", "record"}
    BY <2>1, <2>4 DEF LoggingIn
  <2>6. QED  BY <2>1, <2>2, <2>4, <2>5 DEF CountGood
<1>8. ASSUME NEW p \in Form, BeginUpload(p)  PROVE CountGood'
  <2>1. Asks("upload", "store", {}).at = "store"
    BY DEF Asks
  <2>2. UNCHANGED <<streak, raced, cred>> /\ req' = [req EXCEPT ![p] = Asks("upload", "store", {})]
    BY <1>8 DEF BeginUpload
  <2>3. QED  BY <2>1, <2>2, <1>0, <1>t
<1>9. ASSUME DeleteCredential  PROVE CountGood'
  <2>1. UNCHANGED <<streak, raced, req>> /\ ~cred'.set
    BY <1>9 DEF DeleteCredential, NoCredential
  <2>2. QED  BY <2>1, <1>g DEF CountGood
<1>10. ASSUME TimePasses  PROVE CountGood'
  <2>1. UNCHANGED req /\ cred' = [cred EXCEPT !.lock = Less(@)]
    BY <1>10 DEF TimePasses
  <2>2. cred'.set = cred.set /\ cred'.count = cred.count /\ cred'.lock = Less(cred.lock)
    BY <2>1, <1>t DEF Credential
  <2>3. CASE cred.lock = 1
    <3>1. streak' = 0 /\ LoggingIn = {}
      BY <1>10, <2>3 DEF TimePasses
    <3>2. cred.count \in Nat
      BY <1>t DEF Credential
    <3>3. QED  BY <2>1, <2>2, <3>1, <3>2 DEF CountGood, LoggingIn
  <2>4. CASE cred.lock # 1
    <3>1. UNCHANGED <<streak, raced>>
      BY <1>10, <2>4 DEF TimePasses
    <3>2. cred'.lock = 0 => cred.lock = 0
      BY <2>2, <2>4, <1>t DEF Less, Credential
    <3>3. QED  BY <2>1, <2>2, <3>1, <3>2, <1>g DEF CountGood
  <2>5. QED  BY <2>3, <2>4
<1>11. ASSUME UNCHANGED <<streak, raced, cred, req>>  PROVE CountGood'
  BY <1>11, <1>0
<1>12. ASSUME ConnectBoard \/ Disconnect \/ ChangePassword \/ SessionExpires
              \/ (\E t \in Task : Enqueue(t) \/ NodeStep(t) \/ RefusedUnpaused(t) \/ PrepBegins(t))
              \/ PrepEnds \/ (\E S \in SUBSET Task : LoseJobs(S)) \/ UNCHANGED vars
       PROVE  CountGood'
  BY <1>12, <1>11 DEF ConnectBoard, Disconnect, ChangePassword, SessionExpires, Enqueue, NodeStep, JobEnds,
                      Refused, RefusedUnpaused, PrepBegins, PrepEnds, LoseJobs, vars
<1> QED
  BY <1>1, <1>2, <1>3, <1>4, <1>5, <1>6, <1>7, <1>8, <1>9, <1>10, <1>12
     DEF Next, ClaimSome, RequestStep, UserStep

LEMMA CountInit == Init => CountInv
<1>1. Idle.at = "idle"
  BY DEF Idle, Asks
<1>2. QED  BY <1>1, Numbers DEF Init, CountInv, LoggingIn, NoCredential

\* Between two fresh starts no more logins fail than the limit, unless two of
\* them overlapped.
THEOREM LoginsGiveUpAlways == Spec => []LoginsGiveUp
<1>1. AccessTypeOK /\ CountInv /\ [Next]_vars => (AccessTypeOK /\ CountInv)'
  BY TypeStep, CountStep
<1>2. AccessTypeOK /\ CountInv => LoginsGiveUp
  BY Numbers DEF AccessTypeOK, CountInv, LoginsGiveUp
<1>3. QED  BY <1>1, <1>2, TypeInit, CountInit, PTL DEF Spec
=============================================================================
