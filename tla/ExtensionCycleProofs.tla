------------------------- MODULE ExtensionCycleProofs -------------------------
(***************************************************************************)
(* Proofs about ExtensionCycle, for any tasks, boards, limits and messages *)
(* in work: its type invariant, that a stop is soon, that boards which     *)
(* refuse are left alone, and that a reset waits for the cycle.            *)
(***************************************************************************)
EXTENDS ExtensionCycle, TLAPS, WellFoundedInduction

\* A set of numbers that is not empty has a least one.
LEMMA LeastNumber ==
    ASSUME NEW S \in SUBSET Nat, S # {}
    PROVE  \E i \in S : \A j \in S : i <= j
<1> DEFINE Less == {p \in Nat \X Nat : p[1] < p[2]}
<1>1. IsWellFoundedOn(Less, Nat)
  BY NatLessThanWellFounded DEF OpToRel
<1>2. \E i \in S : \A j \in S : <<j, i>> \notin Less
  BY <1>1, WFMin
<1>3. \A i, j \in S : <<j, i>> \notin Less => i <= j
  <2> TAKE i, j \in S
  <2>1. i \in Nat /\ j \in Nat
    OBVIOUS
  <2>2. j < i => <<j, i>> \in Less
    BY <2>1
  <2> QED  BY <2>1, <2>2
<1> HIDE DEF Less
<1> QED  BY <1>2, <1>3

\* If a task can be claimed, the first in line is one of the claimable.
LEMMA FirstInLine ==
    ASSUME Claimable # {}
    PROVE  (CHOOSE t \in Claimable : \A u \in Claimable : t <= u) \in Claimable
<1>1. Claimable \in SUBSET Nat
  BY CycleAssumption DEF Claimable
<1>2. \E t \in Claimable : \A u \in Claimable : t <= u
  BY <1>1, LeastNumber
<1>3. QED  BY <1>2

(***************************************************************************)
(* Types.                                                                  *)
(***************************************************************************)

LEMMA NoCycleType ==
    /\ NoCycle \in CycleRecord
    /\ NoCycle.step = "none" /\ NoCycle.gen = 0 /\ NoCycle.item = NoTask
    /\ NoCycle.session = 0 /\ NoCycle.late = 0
BY DEF NoCycle, CycleRecord, CycleStep, Result, Streaks

LEMMA NoMessageType ==
    /\ NoMessage \in MessageRecord
    /\ NoMessage.step = "none" /\ NoMessage.gen = 0
BY DEF NoMessage, MessageRecord, Message, HandlerStep

LEMMA TypeInit == Init => CycleTypeOK
<1> SUFFICES ASSUME Init  PROVE CycleTypeOK
  OBVIOUS
<1>1. handler \in [Handler -> MessageRecord] /\ cycle \in CycleRecord /\ generation \in Nat
  BY NoCycleType, NoMessageType DEF Init
<1>2. status \in [Task -> Status] /\ run \in RunState /\ events \in 0..MaxEvents
  BY CycleAssumption DEF Init, Status, RunState
<1>3. cycle.item # NoTask <=> cycle.step \in {"apply", "send", "report"}
  BY NoCycleType DEF Init
<1>4. QED  BY <1>1, <1>2, <1>3 DEF Init, CycleTypeOK

\* A cycle that begins, if one does, is a record of a cycle.
LEMMA RunTickType ==
    ASSUME CycleTypeOK, NEW f \in BOOLEAN, RunTick(f)
    PROVE  /\ cycle' \in CycleRecord
           /\ cycle'.item # NoTask <=> cycle'.step \in {"apply", "send", "report"}
           /\ \/ UNCHANGED cycle /\ cycle.step # "none"
              \/ /\ cycle.step = "none" /\ cycle'.step = "overview" /\ cycle'.gen = generation
                 /\ cycle'.session = 0 /\ cycle'.late = 0
<1>1. [NoCycle EXCEPT !.step = "overview", !.gen = generation, !.force = f] \in CycleRecord
  BY NoCycleType DEF CycleTypeOK, CycleRecord, CycleStep
<1>2. CASE cycle.step = "none"
  <2>1. cycle' = [NoCycle EXCEPT !.step = "overview", !.gen = generation, !.force = f]
    BY <1>2 DEF RunTick
  <2>2. /\ cycle'.item = NoTask /\ cycle'.step = "overview" /\ cycle'.gen = generation
        /\ cycle'.session = 0 /\ cycle'.late = 0
    BY <2>1, NoCycleType DEF CycleRecord
  <2>3. QED  BY <1>1, <1>2, <2>1, <2>2
<1>3. CASE cycle.step # "none"
  BY <1>3 DEF RunTick, CycleTypeOK
<1>4. QED  BY <1>2, <1>3

\* What the branch of Report does that goes on.
Counted(session, n) ==
    cycle' = [cycle EXCEPT !.step = IF session >= SessionLimit THEN "block" ELSE "check",
                           !.item = NoTask, !.result = "settled", !.session = session,
                           !.refused = [cycle.refused EXCEPT ![BoardOf[cycle.item]] = n]]

LEMMA ReportForm ==
    ASSUME CycleTypeOK, Report
    PROVE  \/ CycleEnds /\ UNCHANGED status
           \/ /\ status' = [status EXCEPT ![cycle.item] = RecordedAs(cycle.result)] /\ cycle.item \in Task
              /\ \E session \in Nat, n \in Nat : Counted(session, n)
<1>1. cycle \in CycleRecord
  BY DEF CycleTypeOK
<1> DEFINE session == IF cycle.result = "session" THEN cycle.session + 1 ELSE 0
           n == IF cycle.result = "refused" THEN cycle.refused[BoardOf[cycle.item]] + 1 ELSE 0
<1>2. CASE CycleEnds /\ UNCHANGED status
  BY <1>2
<1>3. CASE ~(CycleEnds /\ UNCHANGED status)
  <2>1. cycle' = [cycle EXCEPT
                     !.step = IF session >= SessionLimit THEN "block" ELSE "check",
                     !.item = NoTask, !.result = "settled", !.session = session,
                     !.refused[BoardOf[cycle.item]] = IF cycle.result = "refused" THEN @ + 1 ELSE 0]
        /\ status' = [status EXCEPT ![cycle.item] = RecordedAs(cycle.result)]
    BY <1>3 DEF Report
  <2>2. Counted(session, n)
    BY <2>1 DEF Counted
  <2>3. session \in Nat
    BY <1>1 DEF CycleRecord
  <2>4. n \in Nat
    <3>1. cycle.item \in Task
      BY <1>1 DEF CycleTypeOK, CycleRecord, Report
    <3>2. cycle.refused[BoardOf[cycle.item]] \in Nat
      BY <1>1, <3>1, CycleAssumption DEF CycleRecord, Streaks
    <3>3. QED  BY <3>2
  <2>5. cycle.item \in Task
    BY <1>1 DEF CycleTypeOK, CycleRecord, Report
  <2>6. QED  BY <2>1, <2>2, <2>3, <2>4, <2>5
<1>4. QED  BY <1>2, <1>3

LEMMA TypeStep ==
    ASSUME CycleTypeOK, [Next]_vars
    PROVE  CycleTypeOK'
<1> USE CycleAssumption
<1>t. /\ cycle \in CycleRecord /\ handler \in [Handler -> MessageRecord] /\ status \in [Task -> Status]
      /\ generation \in Nat /\ run \in RunState
  BY DEF CycleTypeOK
<1>i. cycle.item # NoTask <=> cycle.step \in {"apply", "send", "report"}
  BY DEF CycleTypeOK
<1>e. Event => events' \in 0..MaxEvents
  BY DEF CycleTypeOK, Event
<1> DEFINE CycleGood == cycle' \in CycleRecord /\ (cycle'.item # NoTask <=> cycle'.step \in {"apply", "send", "report"})
<1>n. CycleEnds => CycleGood
  BY NoCycleType DEF CycleEnds
<1>r. ReleaseStale => status' \in [Task -> Status]
  BY <1>t DEF ReleaseStale, Status
<1>1. ASSUME Alarm  PROVE CycleTypeOK'
  BY <1>1, RunTickType DEF Alarm, CycleTypeOK
<1>2. ASSUME ReadRun  PROVE CycleTypeOK'
  <2>1. ASSUME NEW due \in BOOLEAN,
               cycle' = [cycle EXCEPT !.step = IF due THEN "discover" ELSE "check",
                                      !.force = FALSE, !.background = background],
               cycle.step = "overview"
        PROVE  CycleGood
    <3> DEFINE s == IF due THEN "discover" ELSE "check"
    <3>1. s \in CycleStep /\ s \notin {"apply", "send", "report"}
      BY DEF CycleStep
    <3>2. cycle' = [cycle EXCEPT !.step = s, !.force = FALSE, !.background = background]
      BY <2>1
    <3> HIDE DEF s
    <3>3. background \in BOOLEAN
      BY DEF CycleTypeOK
    <3>4. cycle'.item = cycle.item /\ cycle'.step = s
      BY <3>2, <1>t DEF CycleRecord
    <3>5. cycle' \in CycleRecord
      BY <3>1, <3>2, <3>3, <1>t DEF CycleRecord
    <3>6. QED  BY <2>1, <3>1, <3>4, <3>5, <1>i
  <2>2. cycle.force \in BOOLEAN
    BY <1>t DEF CycleRecord
  <2>3. CycleGood
    BY <1>2, <2>1, <2>2, <1>n DEF ReadRun
  <2>4. QED  BY <1>2, <2>3 DEF ReadRun, CycleTypeOK
<1>3. ASSUME Discover  PROVE CycleTypeOK'
  <2>1. CycleGood
    <3>1. CASE cycle' = NoCycle
      BY <3>1, <1>n DEF CycleEnds
    <3>2. CASE cycle' = [cycle EXCEPT !.step = "check"]
      BY <1>3, <3>2, <1>t, <1>i DEF CycleRecord, CycleStep, Discover
    <3>3. QED  BY <1>3, <3>1, <3>2 DEF Discover
  <2>2. status' \in [Task -> Status]
    BY <1>3, <1>t DEF Discover, Status
  <2>3. QED  BY <1>3, <2>1, <2>2 DEF Discover, CycleTypeOK
<1>4. ASSUME Check  PROVE CycleTypeOK'
  <2>1. CycleGood
    <3>2. CASE cycle' = [cycle EXCEPT !.step = "lease"]
      BY <1>4, <3>2, <1>t, <1>i DEF CycleRecord, CycleStep, Check
    <3>3. QED  BY <1>4, <3>2, <1>n DEF Check
  <2>2. status' \in [Task -> Status]
    BY <1>4, <1>t, <1>r DEF Check
  <2>3. QED  BY <1>4, <2>1, <2>2 DEF Check, CycleTypeOK
<1>5. ASSUME Lease  PROVE CycleTypeOK'
  <2>1. CASE Claimable = {}
    <3>1. CycleGood
      <4>1. CASE cycle' = NoCycle
        BY <4>1, <1>n DEF CycleEnds
      <4>2. CASE cycle' = [cycle EXCEPT !.step = "finish"]
        BY <1>5, <4>2, <1>t, <1>i DEF CycleRecord, CycleStep, Lease
      <4>3. QED  BY <1>5, <2>1, <4>1, <4>2 DEF Lease
    <3>2. UNCHANGED <<status, events>>
      BY <1>5, <2>1 DEF Lease
    <3>3. QED  BY <1>5, <3>1, <3>2 DEF Lease, CycleTypeOK
  <2>2. CASE Claimable # {}
    <3> DEFINE t == CHOOSE t \in Claimable : \A u \in Claimable : t <= u
    <3>1. t \in Task /\ t # NoTask
      BY <2>2, FirstInLine DEF Claimable, NoTask
    <3>2. \/ /\ status' = [status EXCEPT ![t] = "leased"]
             /\ cycle' = [cycle EXCEPT !.step = "apply", !.item = t]
             /\ UNCHANGED events
          \/ /\ Event
             /\ status' = [status EXCEPT ![t] = "later"]
             /\ CycleEnds \/ cycle' = [cycle EXCEPT !.step = "block"]
      BY <1>5, <2>2 DEF Lease
    <3> HIDE DEF t
    <3>3. status' \in [Task -> Status]
      BY <3>1, <3>2, <1>t DEF Status
    <3>4. CycleGood
      <4>1. CASE cycle' = [cycle EXCEPT !.step = "apply", !.item = t]
        BY <4>1, <3>1, <1>t DEF CycleRecord, CycleStep
      <4>2. CASE cycle' = [cycle EXCEPT !.step = "block"]
        BY <1>5, <4>2, <1>t, <1>i DEF CycleRecord, CycleStep, Lease
      <4>3. QED  BY <3>2, <4>1, <4>2, <1>n
    <3>5. events' \in 0..MaxEvents
      BY <3>2, <1>e DEF CycleTypeOK
    <3>6. QED  BY <1>5, <3>3, <3>4, <3>5 DEF Lease, CycleTypeOK
  <2>3. QED  BY <2>1, <2>2
<1>6. ASSUME Apply  PROVE CycleTypeOK'
  <2>1. CycleGood
    <3>1. CASE cycle' = [cycle EXCEPT !.step = "send"]
      BY <1>6, <3>1, <1>t, <1>i DEF CycleRecord, CycleStep, Apply
    <3>2. QED  BY <1>6, <3>1, <1>n DEF Apply
  <2>2. QED  BY <1>6, <2>1 DEF Apply, CycleTypeOK
<1>7. ASSUME Send  PROVE CycleTypeOK'
  <2>1. PICK r \in Result : cycle' = [cycle EXCEPT !.step = "report", !.result = r,
                                                   !.late = IF Aborted THEN @ + 1 ELSE @]
    BY <1>7 DEF Send
  <2> DEFINE n == IF Aborted THEN cycle.late + 1 ELSE cycle.late
  <2>2. n \in Nat
    BY <1>t DEF CycleRecord
  <2>3. cycle' = [cycle EXCEPT !.step = "report", !.result = r, !.late = n]
    BY <2>1
  <2> HIDE DEF n
  <2>4. CycleGood
    BY <1>7, <2>2, <2>3, <1>t, <1>i DEF CycleRecord, CycleStep, Send
  <2>5. QED  BY <1>7, <2>4 DEF Send, CycleTypeOK
<1>8. ASSUME Report  PROVE CycleTypeOK'
  <2>1. CASE CycleEnds /\ UNCHANGED status
    BY <1>8, <2>1, <1>n DEF Report, CycleTypeOK
  <2>2. CASE /\ status' = [status EXCEPT ![cycle.item] = RecordedAs(cycle.result)] /\ cycle.item \in Task
             /\ \E session \in Nat, n \in Nat : Counted(session, n)
    <3>1. PICK session \in Nat, n \in Nat : Counted(session, n)
      BY <2>2
    <3> DEFINE s == IF session >= SessionLimit THEN "block" ELSE "check"
               f == [cycle.refused EXCEPT ![BoardOf[cycle.item]] = n]
    <3>2. s \in CycleStep /\ s \notin {"apply", "send", "report"}
      BY DEF CycleStep
    <3>3. f \in Streaks
      BY <1>t DEF Streaks, CycleRecord
    <3>4. cycle' = [cycle EXCEPT !.step = s, !.item = NoTask, !.result = "settled", !.session = session, !.refused = f]
      BY <3>1 DEF Counted
    <3> HIDE DEF s, f
    <3>5. cycle' \in CycleRecord
      BY <3>2, <3>3, <3>4, <1>t DEF CycleRecord, Result
    <3>6. cycle'.item = NoTask /\ cycle'.step = s
      BY <3>4, <1>t DEF CycleRecord
    <3>7. status' \in [Task -> Status]
      BY <2>2, <1>t DEF RecordedAs, Status
    <3>8. QED  BY <1>8, <3>2, <3>5, <3>6, <3>7 DEF Report, CycleTypeOK
  <2>3. QED  BY <1>8, <2>1, <2>2, ReportForm
<1>9. ASSUME Block \/ Finish \/ CycleFails \/ WorkerDies  PROVE CycleTypeOK'
  <2>1. CycleGood
    BY <1>9, <1>n DEF Block, Finish, CycleFails, WorkerDies
  <2>2. run' \in RunState /\ events' \in 0..MaxEvents
    BY <1>9, <1>e DEF Block, Finish, CycleFails, WorkerDies, RunState, CycleTypeOK
  <2>3. handler' \in [Handler -> MessageRecord] /\ generation' \in Nat
    BY <1>9, <1>t, NoMessageType DEF Block, Finish, CycleFails, WorkerDies
  <2>4. QED  BY <1>9, <2>1, <2>2, <2>3 DEF Block, Finish, CycleFails, WorkerDies, CycleTypeOK
<1>10. ASSUME NEW h \in Handler, NEW kind \in Message, NEW on \in BOOLEAN, Receive(h, kind, on)  PROVE CycleTypeOK'
  <2>1. handler' \in [Handler -> MessageRecord]
    BY <1>10, <1>t DEF Receive, MessageRecord, HandlerStep
  <2>2. QED  BY <1>10, <2>1, <1>e DEF Receive, CycleTypeOK
<1>11. ASSUME NEW h \in Handler, Handle(h)  PROVE CycleTypeOK'
  <2>g. \A s \in HandlerStep : Goto(h, s) => handler' \in [Handler -> MessageRecord]
    BY <1>t DEF Goto, MessageRecord
  <2>d. Done(h) => handler' \in [Handler -> MessageRecord]
    BY <1>t, NoMessageType DEF Done
  <2>1. CASE StartOnServer(h)
    <3>1. "tick" \in HandlerStep /\ handler[h].on \in BOOLEAN
      BY <1>t DEF HandlerStep, MessageRecord
    <3>2. handler' \in [Handler -> MessageRecord]
      BY <2>1, <2>g, <3>1 DEF StartOnServer
    <3>3. QED  BY <2>1, <3>1, <3>2, <1>r DEF StartOnServer, CycleTypeOK, RunState
  <2>2. CASE TickOf(h)
    BY <2>2, <2>d, RunTickType DEF TickOf, ForceOf, CycleTypeOK
  <2>3. CASE PauseOnServer(h)
    <3>1. "abort" \in HandlerStep
      BY DEF HandlerStep
    <3>2. handler' \in [Handler -> MessageRecord]
      BY <2>3, <2>g, <2>d, <3>1 DEF PauseOnServer
    <3>3. run' \in RunState /\ status' \in [Task -> Status]
      BY <2>3, <1>t DEF PauseOnServer, RunState, Status
    <3>4. QED  BY <2>3, <3>2, <3>3 DEF PauseOnServer, CycleTypeOK
  <2>4. CASE Abort(h)
    <3>1. CASE handler[h].kind = "pause"
      BY <2>4, <3>1, <2>d DEF Abort, CycleTypeOK
    <3>2. CASE handler[h].kind # "pause"
      <4>1. PICK g \in Nat : handler' = [handler EXCEPT ![h].step = "wait", ![h].gen = g]
        BY <2>4, <3>2, <1>t DEF Abort
      <4>2. [handler[h] EXCEPT !.step = "wait", !.gen = g] \in MessageRecord
        <5>1. handler[h] \in MessageRecord /\ "wait" \in HandlerStep
          BY <1>t DEF HandlerStep
        <5>2. QED  BY <4>1, <5>1 DEF MessageRecord
      <4>3. handler' \in [Handler -> MessageRecord]
        BY <4>1, <4>2, <1>t
      <4>4. QED  BY <2>4, <4>3 DEF Abort, CycleTypeOK
    <3>3. QED  BY <3>1, <3>2
  <2>5. CASE RestartAfterFilters(h)
    BY <2>5, <2>d, RunTickType DEF RestartAfterFilters, CycleTypeOK
  <2>6. CASE Settled(h)
    <3>1. "server" \in HandlerStep
      BY DEF HandlerStep
    <3>2. QED  BY <2>6, <2>g, <3>1 DEF Settled, CycleTypeOK
  <2>7. CASE ResetOnServer(h)
    <3>1. "tick" \in HandlerStep
      BY DEF HandlerStep
    <3>2. handler' \in [Handler -> MessageRecord]
      BY <2>7, <2>g, <3>1 DEF ResetOnServer
    <3>3. run' \in RunState /\ status' \in [Task -> Status]
      BY <2>7, <1>t DEF ResetOnServer, RunState, Status
    <3>4. QED  BY <2>7, <3>2, <3>3 DEF ResetOnServer, CycleTypeOK
  <2>8. CASE FiltersRead(h)
    <3>1. PICK S \in SUBSET Task : handler' = [handler EXCEPT ![h].step = "delete", ![h].stale = S]
      BY <2>8 DEF FiltersRead
    <3>2. handler' \in [Handler -> MessageRecord]
      <4>1. handler[h] \in MessageRecord /\ "delete" \in HandlerStep
        BY <1>t DEF HandlerStep
      <4>2. [handler[h] EXCEPT !.step = "delete", !.stale = S] \in MessageRecord
        BY <4>1 DEF MessageRecord
      <4>3. QED  BY <3>1, <4>2, <1>t
    <3>3. QED  BY <2>8, <3>2 DEF FiltersRead, CycleTypeOK
  <2>9. CASE FiltersDelete(h)
    <3>1. handler' \in [Handler -> MessageRecord]
      <4>1. handler[h] \in MessageRecord /\ "abort" \in HandlerStep
        BY <1>t DEF HandlerStep
      <4>2. [handler[h] EXCEPT !.step = "abort", !.stale = {}] \in MessageRecord
        BY <4>1 DEF MessageRecord
      <4>3. QED  BY <2>9, <4>2, <1>t DEF FiltersDelete
    <3>2. status' \in [Task -> Status]
      BY <2>9, <1>t DEF FiltersDelete, Status
    <3>3. QED  BY <2>9, <3>1, <3>2 DEF FiltersDelete, CycleTypeOK
  <2>10. CASE SetRunBackground(h)
    <3>1. handler[h].on \in BOOLEAN
      BY <1>t DEF MessageRecord
    <3>2. QED  BY <2>10, <2>d, <3>1 DEF SetRunBackground, CycleTypeOK
  <2>11. QED
    BY <1>11, <2>1, <2>2, <2>3, <2>4, <2>5, <2>6, <2>7, <2>8, <2>9, <2>10 DEF Handle
<1>12. ASSUME NEW h \in Handler, HandlerFails(h)  PROVE CycleTypeOK'
  <2>1. handler' \in [Handler -> MessageRecord]
    BY <1>12, <1>t, NoMessageType DEF HandlerFails, Done
  <2>2. QED  BY <1>12, <2>1, <1>e DEF HandlerFails, CycleTypeOK
<1>13. ASSUME TakenAway \/ (\E t \in Task : DueAgain(t)) \/ UNCHANGED vars  PROVE CycleTypeOK'
  <2>1. status' \in [Task -> Status] /\ run' \in RunState /\ events' \in 0..MaxEvents
    BY <1>13, <1>t, <1>e DEF TakenAway, DueAgain, vars, Status, RunState, CycleTypeOK
  <2>2. UNCHANGED <<background, cycle, generation, handler, unread, met>>
    BY <1>13 DEF TakenAway, DueAgain, vars
  <2>3. QED  BY <2>1, <2>2 DEF CycleTypeOK
<1> QED
  BY <1>1, <1>2, <1>3, <1>4, <1>5, <1>6, <1>7, <1>8, <1>9, <1>10, <1>11, <1>12, <1>13 DEF Next, CycleGoesOn

\* The run, the rows, the cycle with its counts and the messages in work keep
\* their types, and a cycle has a task in hand from its lease to its report.
THEOREM CycleTypeCorrect == Spec => []CycleTypeOK
<1>1. QED  BY TypeInit, TypeStep, PTL DEF Spec

(***************************************************************************)
(* A stop is soon, and a reset waits: generations.                         *)
(***************************************************************************)

\* No cycle and no message is ahead of the generation.
GenerationInv ==
    /\ cycle.gen <= generation
    /\ \A h \in Handler : handler[h].gen <= generation

\* An application sent after the abort is the last one: the cycle it belongs to
\* finds out before it claims again.
StopInv ==
    cycle.late > 0 => cycle.late = 1 /\ Aborted /\ cycle.step \in {"report", "check", "block"}

\* Every step but a teardown leaves the generation or adds one to it, and the
\* cycle keeps its own, ends, or is a new one.
LEMMA GenerationStep ==
    ASSUME CycleTypeOK, GenerationInv, [Next]_vars
    PROVE  GenerationInv'
<1>t. /\ cycle \in CycleRecord /\ handler \in [Handler -> MessageRecord] /\ generation \in Nat
      /\ cycle.gen \in Nat /\ \A h \in Handler : handler[h].gen \in Nat
  BY DEF CycleTypeOK, CycleRecord, MessageRecord
<1>0. ASSUME UNCHANGED generation, cycle'.gen = cycle.gen \/ cycle'.gen <= generation,
             \A h \in Handler : handler'[h].gen = handler[h].gen \/ handler'[h].gen <= generation
      PROVE  GenerationInv'
  BY <1>0 DEF GenerationInv
<1>n. CycleEnds => cycle'.gen <= generation
  BY NoCycleType, <1>t DEF CycleEnds
<1>1. ASSUME CycleGoesOn \/ CycleFails \/ Alarm  PROVE GenerationInv'
  <2>1. cycle'.gen = cycle.gen \/ cycle'.gen <= generation
    <3>1. CASE CycleEnds
      BY <3>1, <1>n
    <3>2. CASE Alarm
      <4>1. RunTick(FALSE)
        BY <3>2 DEF Alarm
      <4>2. cycle'.gen = cycle.gen \/ cycle'.gen = generation
        BY <4>1, RunTickType
      <4>3. QED  BY <4>2, <1>t
    <3>3. CASE ReadRun \/ Discover \/ Check \/ Apply \/ Block \/ Finish \/ CycleFails
      <4>1. ASSUME ReadRun, ~CycleEnds  PROVE cycle'.gen = cycle.gen
        <5>1. PICK due \in {cycle.force, TRUE} :
                 cycle' = [cycle EXCEPT !.step = IF due THEN "discover" ELSE "check",
                                        !.force = FALSE, !.background = background]
          BY <4>1 DEF ReadRun
        <5>2. QED  BY <5>1, <1>t DEF CycleRecord
      <4>2. ASSUME Discover \/ Check \/ Apply, ~CycleEnds  PROVE cycle'.gen = cycle.gen
        BY <4>2, <1>t DEF Discover, Check, Apply, CycleRecord, CycleEnds
      <4>3. ASSUME Block \/ Finish \/ CycleFails  PROVE CycleEnds
        BY <4>3 DEF Block, Finish, CycleFails
      <4>4. QED  BY <3>3, <4>1, <4>2, <4>3, <1>n
    <3>4. CASE Lease
      BY <3>4, <1>n, <1>t DEF Lease, CycleRecord, CycleEnds
    <3>5. CASE Send
      BY <3>5, <1>t DEF Send, CycleRecord
    <3>6. CASE Report
      BY <3>6, <1>n, <1>t, ReportForm DEF Counted, CycleRecord
    <3>7. QED  BY <1>1, <3>1, <3>2, <3>3, <3>4, <3>5, <3>6 DEF CycleGoesOn
  <2>2. UNCHANGED <<generation, handler>>
    BY <1>1 DEF CycleGoesOn, CycleFails, Alarm, ReadRun, Discover, Check, Lease, Apply, Send, Report, Block, Finish
  <2>3. QED  BY <2>1, <2>2, <1>0
<1>2. ASSUME NEW h \in Handler, Abort(h)  PROVE GenerationInv'
  <2>1. generation' = generation + 1 /\ UNCHANGED cycle
    BY <1>2 DEF Abort
  <2>2. ASSUME NEW i \in Handler  PROVE handler'[i].gen <= generation'
    <3>1. CASE handler[h].kind = "pause"
      <4>1. handler' = [handler EXCEPT ![h] = NoMessage]
        BY <1>2, <3>1 DEF Abort, Done
      <4>2. handler'[i].gen = handler[i].gen \/ handler'[i].gen = 0
        BY <4>1, <1>t, NoMessageType
      <4>3. QED  BY <4>2, <2>1, <1>t DEF GenerationInv
    <3>2. CASE handler[h].kind # "pause"
      <4>1. PICK g \in Nat : g = generation'
        BY <2>1, <1>t
      <4>2. handler' = [handler EXCEPT ![h].step = "wait", ![h].gen = g]
        BY <1>2, <3>2, <4>1 DEF Abort
      <4>3. handler'[i].gen = handler[i].gen \/ handler'[i].gen = g
        BY <4>2, <1>t DEF MessageRecord
      <4>4. QED  BY <4>1, <4>3, <2>1, <1>t DEF GenerationInv
    <3>3. QED  BY <3>1, <3>2
  <2>3. QED  BY <2>1, <2>2, <1>t DEF GenerationInv
<1>3. ASSUME NEW h \in Handler, Handle(h), ~Abort(h)  PROVE GenerationInv'
  <2>g. \A s \in HandlerStep : Goto(h, s) => \A i \in Handler : handler'[i].gen = handler[i].gen
    BY <1>t DEF Goto, MessageRecord
  <2>d. Done(h) => \A i \in Handler : handler'[i].gen = handler[i].gen \/ handler'[i].gen <= generation
    BY <1>t, NoMessageType DEF Done
  <2>s. {"tick", "abort", "server"} \subseteq HandlerStep
    BY DEF HandlerStep
  <2>1. UNCHANGED generation
    BY <1>3 DEF Handle, StartOnServer, TickOf, PauseOnServer, RestartAfterFilters, Settled, ResetOnServer,
                FiltersRead, FiltersDelete, SetRunBackground
  <2>2. cycle'.gen = cycle.gen \/ cycle'.gen <= generation
    <3>1. (\E f \in BOOLEAN : RunTick(f)) \/ UNCHANGED cycle
      BY <1>3 DEF Handle, StartOnServer, TickOf, PauseOnServer, RestartAfterFilters, Settled, ResetOnServer,
                  FiltersRead, FiltersDelete, SetRunBackground, ForceOf
    <3>2. QED  BY <3>1, <1>t, RunTickType
  <2>3. \A i \in Handler : handler'[i].gen = handler[i].gen \/ handler'[i].gen <= generation
    <3>1. CASE FiltersRead(h) \/ FiltersDelete(h)
      BY <3>1, <1>t DEF FiltersRead, FiltersDelete, MessageRecord
    <3>2. CASE TickOf(h) \/ RestartAfterFilters(h) \/ SetRunBackground(h)
      BY <3>2, <2>d DEF TickOf, RestartAfterFilters, SetRunBackground
    <3>3. CASE StartOnServer(h) \/ PauseOnServer(h) \/ Settled(h) \/ ResetOnServer(h)
      BY <3>3, <2>d, <2>g, <2>s DEF StartOnServer, PauseOnServer, Settled, ResetOnServer
    <3>4. QED  BY <1>3, <3>1, <3>2, <3>3 DEF Handle
  <2>4. QED  BY <2>1, <2>2, <2>3, <1>0
<1>4. ASSUME NEW h \in Handler, NEW kind \in Message, NEW on \in BOOLEAN, Receive(h, kind, on)  PROVE GenerationInv'
  <2>1. \A i \in Handler : handler'[i].gen = handler[i].gen \/ handler'[i].gen = 0
    BY <1>4, <1>t DEF Receive
  <2>2. QED  BY <1>4, <2>1, <1>0, <1>t DEF Receive
<1>5. ASSUME NEW h \in Handler, HandlerFails(h)  PROVE GenerationInv'
  <2>1. \A i \in Handler : handler'[i].gen = handler[i].gen \/ handler'[i].gen = 0
    BY <1>5, <1>t, NoMessageType DEF HandlerFails, Done
  <2>2. QED  BY <1>5, <2>1, <1>0, <1>t DEF HandlerFails
<1>6. ASSUME WorkerDies  PROVE GenerationInv'
  BY <1>6, NoCycleType, NoMessageType DEF WorkerDies, CycleEnds, GenerationInv
<1>7. ASSUME TakenAway \/ (\E t \in Task : DueAgain(t)) \/ UNCHANGED vars  PROVE GenerationInv'
  BY <1>7 DEF TakenAway, DueAgain, vars, GenerationInv
<1> QED
  BY <1>1, <1>2, <1>3, <1>4, <1>5, <1>6, <1>7 DEF Next

LEMMA StopStep ==
    ASSUME CycleTypeOK, GenerationInv, StopInv, [Next]_vars
    PROVE  StopInv'
<1>t. /\ cycle \in CycleRecord /\ generation \in Nat /\ cycle.gen \in Nat /\ cycle.late \in Nat
      /\ cycle.gen <= generation
  BY DEF CycleTypeOK, CycleRecord, GenerationInv
<1>0. ASSUME UNCHANGED cycle, generation' \in {generation, generation + 1}  PROVE StopInv'
  BY <1>0, <1>t DEF StopInv, Aborted
<1>z. ASSUME cycle'.late = 0  PROVE StopInv'
  BY <1>z DEF StopInv
<1>n. CycleEnds => cycle'.late = 0
  BY NoCycleType DEF CycleEnds
<1>1. ASSUME Alarm  PROVE StopInv'
  <2>1. RunTick(FALSE) /\ cycle.step = "none"
    BY <1>1 DEF Alarm
  <2>2. QED  BY <2>1, <1>z, RunTickType
<1>2. ASSUME ReadRun \/ Discover \/ Lease \/ Apply \/ Block \/ Finish  PROVE StopInv'
  <2>1. cycle.step \notin {"report", "check", "block"} \/ CycleEnds
    BY <1>2 DEF ReadRun, Discover, Lease, Apply, Block, Finish
  <2>2. cycle'.late = cycle.late \/ cycle'.late = 0
    <3>1. CASE Lease
      BY <3>1, <1>n, <1>t DEF Lease, CycleRecord, CycleEnds
    <3>2. QED
      BY <1>2, <3>1, <1>n, <1>t DEF ReadRun, Discover, Apply, Block, Finish, CycleRecord, CycleEnds
  <2>3. cycle'.late = 0
    BY <2>1, <2>2, <1>n, <1>t DEF StopInv
  <2>4. QED  BY <2>3, <1>z
<1>3. ASSUME Check  PROVE StopInv'
  <2>1. CASE CycleEnds
    BY <2>1, <1>n, <1>z
  <2>2. CASE ~CycleEnds
    <3>1. ~Aborted /\ cycle' = [cycle EXCEPT !.step = "lease"]
      BY <1>3, <2>2 DEF Check, GivesUp
    <3>2. cycle'.late = 0
      BY <3>1, <1>t DEF StopInv, CycleRecord
    <3>3. QED  BY <3>2, <1>z
  <2>3. QED  BY <2>1, <2>2
<1>4. ASSUME Send  PROVE StopInv'
  <2>1. cycle.step = "send" /\ UNCHANGED generation
    BY <1>4 DEF Send
  <2>2. cycle.late = 0
    BY <2>1, <1>t DEF StopInv
  <2>3. PICK r \in Result : cycle' = [cycle EXCEPT !.step = "report", !.result = r,
                                                   !.late = IF Aborted THEN @ + 1 ELSE @]
    BY <1>4 DEF Send
  <2> DEFINE n == IF Aborted THEN cycle.late + 1 ELSE cycle.late
  <2>4. cycle' = [cycle EXCEPT !.step = "report", !.result = r, !.late = n]
    BY <2>3
  <2>5. n = IF Aborted THEN 1 ELSE 0
    BY <2>2
  <2> HIDE DEF n
  <2>6. cycle'.step = "report" /\ cycle'.late = n /\ cycle'.gen = cycle.gen
    BY <2>4, <1>t DEF CycleRecord
  <2>7. QED  BY <2>1, <2>5, <2>6 DEF StopInv, Aborted
<1>5. ASSUME Report  PROVE StopInv'
  <2>1. CASE CycleEnds
    BY <2>1, <1>n, <1>z
  <2>2. CASE \E session \in Nat, n \in Nat : Counted(session, n)
    <3>1. PICK session \in Nat, n \in Nat : Counted(session, n)
      BY <2>2
    <3> DEFINE s == IF session >= SessionLimit THEN "block" ELSE "check"
    <3>2. s \in {"block", "check"}
      OBVIOUS
    <3>3. cycle' = [cycle EXCEPT !.step = s, !.item = NoTask, !.result = "settled", !.session = session,
                                 !.refused = [cycle.refused EXCEPT ![BoardOf[cycle.item]] = n]]
      BY <3>1 DEF Counted
    <3> HIDE DEF s
    <3>4. cycle'.step = s /\ cycle'.late = cycle.late /\ cycle'.gen = cycle.gen
      BY <3>3, <1>t DEF CycleRecord
    <3>5. UNCHANGED generation
      BY <1>5 DEF Report
    <3>6. QED  BY <3>2, <3>4, <3>5 DEF StopInv, Aborted
  <2>3. QED  BY <1>5, <2>1, <2>2, ReportForm
<1>6. ASSUME CycleFails \/ WorkerDies  PROVE StopInv'
  BY <1>6, <1>n, <1>z DEF CycleFails, WorkerDies
<1>7. ASSUME NEW h \in Handler, TickOf(h) \/ RestartAfterFilters(h)  PROVE StopInv'
  <2>1. PICK f \in BOOLEAN : RunTick(f)
    BY <1>7 DEF TickOf, RestartAfterFilters, ForceOf
  <2>2. UNCHANGED generation
    BY <1>7 DEF TickOf, RestartAfterFilters
  <2>3. UNCHANGED cycle \/ cycle'.late = 0
    BY <2>1, RunTickType
  <2>4. QED  BY <2>2, <2>3, <1>0, <1>z
<1>8. ASSUME NEW h \in Handler, Handle(h) \/ HandlerFails(h) \/ \E kind \in Message, on \in BOOLEAN : Receive(h, kind, on),
             ~TickOf(h), ~RestartAfterFilters(h)
      PROVE  StopInv'
  <2>1. UNCHANGED cycle /\ generation' \in {generation, generation + 1}
    BY <1>8 DEF Handle, StartOnServer, PauseOnServer, Abort, Settled, ResetOnServer, FiltersRead, FiltersDelete,
                SetRunBackground, HandlerFails, Receive
  <2>2. QED  BY <2>1, <1>0
<1>9. ASSUME TakenAway \/ (\E t \in Task : DueAgain(t)) \/ UNCHANGED vars  PROVE StopInv'
  BY <1>9, <1>0 DEF TakenAway, DueAgain, vars
<1> QED
  BY <1>1, <1>2, <1>3, <1>4, <1>5, <1>6, <1>7, <1>8, <1>9 DEF Next, CycleGoesOn

LEMMA StopInit == Init => GenerationInv /\ StopInv
BY NoCycleType, NoMessageType DEF Init, GenerationInv, StopInv

\* After the abort a cycle sends at most the one application it had in hand.
THEOREM StopIsSoonAlways == Spec => []StopIsSoon
<1>1. CycleTypeOK /\ GenerationInv /\ StopInv /\ [Next]_vars => (CycleTypeOK /\ GenerationInv /\ StopInv)'
  BY TypeStep, GenerationStep, StopStep
<1>2. CycleTypeOK /\ StopInv => StopIsSoon
  BY DEF CycleTypeOK, CycleRecord, StopInv, StopIsSoon
<1>3. QED  BY <1>1, <1>2, TypeInit, StopInit, PTL DEF Spec

\* What ResetWaitsForCycle says of one message.
Ahead(h) == handler[h].kind = "reset" /\ handler[h].step = "server" /\ cycle.step # "none"
                => cycle.gen >= handler[h].gen

\* A cycle that is at work when the rows are about to be deleted began after the
\* reset's abort.
LEMMA ResetStep ==
    ASSUME CycleTypeOK, GenerationInv, ResetWaitsForCycle, [Next]_vars
    PROVE  ResetWaitsForCycle'
<1>t. /\ cycle \in CycleRecord /\ handler \in [Handler -> MessageRecord] /\ generation \in Nat
      /\ \A h \in Handler : handler[h].gen <= generation
  BY DEF CycleTypeOK, GenerationInv
<1>p. \A h \in Handler : Ahead(h)
  BY DEF ResetWaitsForCycle, At, Ahead
<1> SUFFICES ASSUME NEW h \in Handler  PROVE Ahead(h)'
  BY DEF ResetWaitsForCycle, At, Ahead
<1>0. ASSUME cycle' = cycle, handler'[h] = handler[h]  PROVE Ahead(h)'
  BY <1>0, <1>p DEF Ahead
<1>k. ASSUME cycle'.gen = cycle.gen, cycle.step # "none", handler'[h] = handler[h]  PROVE Ahead(h)'
  BY <1>k, <1>p DEF Ahead
<1>n. ASSUME CycleEnds  PROVE Ahead(h)'
  BY <1>n, NoCycleType DEF CycleEnds, Ahead
<1>s. ASSUME handler'[h].step # "server" \/ handler'[h].kind # "reset"  PROVE Ahead(h)'
  BY <1>s DEF Ahead
<1>r. ASSUME NEW f \in BOOLEAN, RunTick(f), handler'[h] = handler[h]  PROVE Ahead(h)'
  BY <1>r, <1>p, <1>t, RunTickType DEF Ahead
<1>1. ASSUME Alarm  PROVE Ahead(h)'
  BY <1>1, <1>r DEF Alarm
<1>2. ASSUME CycleGoesOn  PROVE Ahead(h)'
  <2>1. cycle.step # "none" /\ UNCHANGED handler
    BY <1>2 DEF CycleGoesOn, ReadRun, Discover, Check, Lease, Apply, Send, Report, Block, Finish
  <2>2. cycle'.gen = cycle.gen \/ CycleEnds
    <3>1. CASE Discover \/ Check \/ Apply \/ Send \/ Block \/ Finish
      BY <3>1, <1>t DEF Discover, Check, Apply, Send, Block, Finish, CycleRecord, CycleEnds
    <3>2. CASE ReadRun
      <4>1. CASE \E due \in {cycle.force, TRUE} :
                 cycle' = [cycle EXCEPT !.step = IF due THEN "discover" ELSE "check",
                                        !.force = FALSE, !.background = background]
        <5>1. PICK due \in {cycle.force, TRUE} :
                 cycle' = [cycle EXCEPT !.step = IF due THEN "discover" ELSE "check",
                                        !.force = FALSE, !.background = background]
          BY <4>1
        <5>2. QED  BY <5>1, <1>t DEF CycleRecord
      <4>2. QED  BY <3>2, <4>1 DEF ReadRun
    <3>3. CASE Lease
      BY <3>3, <1>t DEF Lease, CycleRecord, CycleEnds
    <3>4. CASE Report
      BY <3>4, <1>t, ReportForm DEF Counted, CycleRecord
    <3>5. QED  BY <1>2, <3>1, <3>2, <3>3, <3>4 DEF CycleGoesOn
  <2>3. QED  BY <2>1, <2>2, <1>k, <1>n
<1>3. ASSUME CycleFails \/ WorkerDies  PROVE Ahead(h)'
  BY <1>3, <1>n DEF CycleFails, WorkerDies
<1>4. ASSUME NEW i \in Handler, TickOf(i) \/ RestartAfterFilters(i)  PROVE Ahead(h)'
  <2>1. (\E f \in BOOLEAN : RunTick(f)) /\ handler' = [handler EXCEPT ![i] = NoMessage]
    BY <1>4 DEF TickOf, RestartAfterFilters, ForceOf, Done
  <2>2. CASE h = i
    BY <2>1, <2>2, <1>s, <1>t, NoMessageType
  <2>3. CASE h # i
    BY <2>1, <2>3, <1>r, <1>t
  <2>4. QED  BY <2>2, <2>3
<1>5. ASSUME NEW i \in Handler, Settled(i)  PROVE Ahead(h)'
  <2>1. cycle' = cycle /\ Over(i) /\ handler' = [handler EXCEPT ![i].step = "server"]
    BY <1>5 DEF Settled, Goto
  <2>2. CASE h = i
    <3>1. handler'[h].gen = handler[i].gen
      BY <2>1, <2>2, <1>t DEF MessageRecord
    <3>2. QED  BY <2>1, <2>2, <3>1 DEF Over, Ahead
  <2>3. CASE h # i
    BY <2>1, <2>3, <1>0, <1>t
  <2>4. QED  BY <2>2, <2>3
<1>6. ASSUME NEW i \in Handler, Abort(i)  PROVE Ahead(h)'
  <2>1. cycle' = cycle
    BY <1>6 DEF Abort
  <2>2. CASE h = i
    <3>1. CASE handler[i].kind = "pause"
      BY <1>6, <2>2, <3>1, <1>s, <1>t, NoMessageType DEF Abort, Done
    <3>2. CASE handler[i].kind # "pause"
      <4>1. \E g : handler' = [handler EXCEPT ![i].step = "wait", ![i].gen = g]
        BY <1>6, <3>2 DEF Abort
      <4>2. handler'[i].step = "wait"
        BY <4>1, <1>t DEF MessageRecord
      <4>3. QED  BY <2>2, <4>2, <1>s
    <3>3. QED  BY <3>1, <3>2
  <2>3. CASE h # i
    <3>1. handler'[h] = handler[h]
      BY <1>6, <2>3, <1>t DEF Abort, Done
    <3>2. QED  BY <2>1, <3>1, <1>0
  <2>4. QED  BY <2>2, <2>3
<1>7. ASSUME NEW i \in Handler, NEW kind \in Message, NEW on \in BOOLEAN, Receive(i, kind, on)  PROVE Ahead(h)'
  <2>1. cycle' = cycle
    BY <1>7 DEF Receive
  <2>2. h = i => handler'[h].kind # "reset" \/ handler'[h].step = "abort"
    BY <1>7, <1>t DEF Receive
  <2>3. h # i => handler'[h] = handler[h]
    BY <1>7, <1>t DEF Receive
  <2>4. QED  BY <2>1, <2>2, <2>3, <1>0, <1>s
<1>8. ASSUME NEW i \in Handler, StartOnServer(i) \/ PauseOnServer(i) \/ ResetOnServer(i) \/ FiltersRead(i)
                \/ FiltersDelete(i) \/ SetRunBackground(i) \/ HandlerFails(i)
      PROVE  Ahead(h)'
  <2>1. cycle' = cycle
    BY <1>8 DEF StartOnServer, PauseOnServer, ResetOnServer, FiltersRead, FiltersDelete, SetRunBackground, HandlerFails
  <2>2. h # i => handler'[h] = handler[h]
    BY <1>8, <1>t DEF StartOnServer, PauseOnServer, ResetOnServer, FiltersRead, FiltersDelete, SetRunBackground,
                      HandlerFails, Goto, Done
  <2>3. handler'[i].step # "server"
    <3>1. CASE Done(i)
      BY <3>1, <1>t, NoMessageType DEF Done
    <3>2. CASE FiltersRead(i) \/ FiltersDelete(i)
      BY <3>2, <1>t DEF FiltersRead, FiltersDelete, MessageRecord
    <3>3. CASE Goto(i, "tick") \/ Goto(i, "abort")
      BY <3>3, <1>t DEF Goto, MessageRecord
    <3>4. QED
      BY <1>8, <3>1, <3>2, <3>3 DEF StartOnServer, PauseOnServer, ResetOnServer, SetRunBackground, HandlerFails
  <2>4. QED  BY <2>1, <2>2, <2>3, <1>0, <1>s
<1>9. ASSUME TakenAway \/ (\E t \in Task : DueAgain(t)) \/ UNCHANGED vars  PROVE Ahead(h)'
  BY <1>9, <1>0 DEF TakenAway, DueAgain, vars
<1> QED
  BY <1>1, <1>2, <1>3, <1>4, <1>5, <1>6, <1>7, <1>8, <1>9 DEF Next, Handle

\* A reset deletes the rows under no cycle that was at work when it began.
THEOREM ResetWaitsAlways == Spec => []ResetWaitsForCycle
<1>1. CycleTypeOK /\ GenerationInv /\ ResetWaitsForCycle /\ [Next]_vars
        => (CycleTypeOK /\ GenerationInv /\ ResetWaitsForCycle)'
  BY TypeStep, GenerationStep, ResetStep
<1>2. Init => ResetWaitsForCycle
  BY NoMessageType DEF Init, ResetWaitsForCycle, At
<1>3. QED  BY <1>1, <1>2, TypeInit, StopInit, PTL DEF Spec

(***************************************************************************)
(* Boards that refuse.                                                     *)
(***************************************************************************)

\* The limit of the session is found out at the report that reaches it.
BoardInv ==
    /\ cycle.step # "block" => cycle.session < SessionLimit
    /\ cycle.item # NoTask => cycle.refused[BoardOf[cycle.item]] < BoardLimit

LEMMA BoardStep ==
    ASSUME CycleTypeOK, BoardInv, [Next]_vars
    PROVE  BoardInv'
<1> USE CycleAssumption
<1>t. /\ cycle \in CycleRecord /\ cycle.session \in Nat
      /\ cycle.item # NoTask <=> cycle.step \in {"apply", "send", "report"}
  BY DEF CycleTypeOK, CycleRecord
<1>0. ASSUME UNCHANGED cycle  PROVE BoardInv'
  BY <1>0 DEF BoardInv
<1>n. ASSUME CycleEnds  PROVE BoardInv'
  BY <1>n, NoCycleType DEF CycleEnds, BoardInv
<1>s. ASSUME cycle.step # "block", cycle'.item = NoTask, cycle'.session = cycle.session  PROVE BoardInv'
  BY <1>s DEF BoardInv
<1>r. ASSUME NEW f \in BOOLEAN, RunTick(f)  PROVE BoardInv'
  <2>1. UNCHANGED cycle \/ (cycle'.step = "overview" /\ cycle'.session = 0)
    BY <1>r, RunTickType
  <2>2. cycle'.step = "overview" => cycle'.item = NoTask
    BY <1>r, RunTickType
  <2>3. QED  BY <2>1, <2>2, <1>0 DEF BoardInv
<1>1. ASSUME Alarm  PROVE BoardInv'
  BY <1>1, <1>r DEF Alarm
<1>2. ASSUME ReadRun  PROVE BoardInv'
  <2>1. CASE \E due \in {cycle.force, TRUE} :
                 cycle' = [cycle EXCEPT !.step = IF due THEN "discover" ELSE "check",
                                        !.force = FALSE, !.background = background]
    <3>1. PICK due \in {cycle.force, TRUE} :
             cycle' = [cycle EXCEPT !.step = IF due THEN "discover" ELSE "check",
                                    !.force = FALSE, !.background = background]
      BY <2>1
    <3>2. cycle'.item = cycle.item /\ cycle'.session = cycle.session
      BY <3>1, <1>t DEF CycleRecord
    <3>3. QED  BY <1>2, <3>2, <1>s, <1>t DEF ReadRun
  <2>2. QED  BY <1>2, <2>1, <1>n DEF ReadRun
<1>3. ASSUME Discover \/ Check, ~CycleEnds  PROVE BoardInv'
  <2>1. cycle.step \in {"discover", "check"} /\ cycle'.item = cycle.item /\ cycle'.session = cycle.session
    BY <1>3, <1>t DEF Discover, Check, CycleEnds, CycleRecord
  <2>2. QED  BY <2>1, <1>s, <1>t
<1>4. ASSUME Apply, ~CycleEnds  PROVE BoardInv'
  <2>1. cycle.step = "apply" /\ cycle' = [cycle EXCEPT !.step = "send"]
    BY <1>4 DEF Apply
  <2>2. cycle'.item = cycle.item /\ cycle'.session = cycle.session /\ cycle'.refused = cycle.refused
    BY <2>1, <1>t DEF CycleRecord
  <2>3. QED  BY <2>1, <2>2 DEF BoardInv
<1>5. ASSUME Send  PROVE BoardInv'
  <2>1. PICK r, n : cycle' = [cycle EXCEPT !.step = "report", !.result = r, !.late = n]
    BY <1>5 DEF Send
  <2>2. cycle'.item = cycle.item /\ cycle'.session = cycle.session /\ cycle'.refused = cycle.refused
    BY <2>1, <1>t DEF CycleRecord
  <2>3. QED  BY <1>5, <2>2 DEF Send, BoardInv
<1>6. ASSUME Lease, ~CycleEnds  PROVE BoardInv'
  <2>0. cycle.step = "lease" /\ cycle.session < SessionLimit
    BY <1>6 DEF Lease, BoardInv
  <2>1. CASE Claimable = {}
    <3>1. cycle' = [cycle EXCEPT !.step = "finish"]
      BY <1>6, <2>1 DEF Lease, CycleEnds
    <3>2. cycle'.item = cycle.item /\ cycle'.session = cycle.session
      BY <3>1, <1>t DEF CycleRecord
    <3>3. QED  BY <2>0, <3>2, <1>s, <1>t
  <2>2. CASE Claimable # {}
    <3> DEFINE t == CHOOSE t \in Claimable : \A u \in Claimable : t <= u
    <3>1. t \in Task /\ BoardOf[t] \in Board \ Parked
      BY <2>2, FirstInLine DEF Claimable
    <3>2. \/ cycle' = [cycle EXCEPT !.step = "apply", !.item = t]
          \/ cycle' = [cycle EXCEPT !.step = "block"]
      BY <1>6, <2>2 DEF Lease
    <3> HIDE DEF t
    <3>3. CASE cycle' = [cycle EXCEPT !.step = "block"]
      <4>1. cycle'.item = cycle.item /\ cycle'.session = cycle.session
        BY <3>3, <1>t DEF CycleRecord
      <4>2. QED  BY <2>0, <4>1, <1>s, <1>t
    <3>4. CASE cycle' = [cycle EXCEPT !.step = "apply", !.item = t]
      <4>1. cycle'.item = t /\ cycle'.session = cycle.session /\ cycle'.refused = cycle.refused
        BY <3>4, <1>t DEF CycleRecord
      <4>2. cycle.refused[BoardOf[t]] \in Nat /\ BoardLimit \in Nat
        BY <3>1, <1>t DEF CycleRecord, Streaks
      <4>3. cycle.refused[BoardOf[t]] < BoardLimit
        BY <3>1, <4>2 DEF Parked
      <4>4. QED  BY <2>0, <4>1, <4>3 DEF BoardInv
    <3>5. QED  BY <3>2, <3>3, <3>4
  <2>3. QED  BY <2>1, <2>2
<1>7. ASSUME Report  PROVE BoardInv'
  <2>2. CASE \E session \in Nat, n \in Nat : Counted(session, n)
    <3>1. PICK session \in Nat, n \in Nat : Counted(session, n)
      BY <2>2
    <3> DEFINE s == IF session >= SessionLimit THEN "block" ELSE "check"
    <3>2. cycle' = [cycle EXCEPT !.step = s, !.item = NoTask, !.result = "settled", !.session = session,
                                 !.refused = [cycle.refused EXCEPT ![BoardOf[cycle.item]] = n]]
      BY <3>1 DEF Counted
    <3>3. s # "block" => session < SessionLimit
      OBVIOUS
    <3> HIDE DEF s
    <3>4. cycle'.step = s /\ cycle'.item = NoTask /\ cycle'.session = session
      BY <3>2, <1>t DEF CycleRecord
    <3>5. QED  BY <3>3, <3>4 DEF BoardInv
  <2>3. QED  BY <1>7, <2>2, <1>n, ReportForm
<1>8. ASSUME Block \/ Finish \/ CycleFails \/ WorkerDies  PROVE BoardInv'
  BY <1>8, <1>n DEF Block, Finish, CycleFails, WorkerDies
<1>9. ASSUME NEW h \in Handler, Handle(h) \/ HandlerFails(h) \/ \E kind \in Message, on \in BOOLEAN : Receive(h, kind, on)
      PROVE  BoardInv'
  <2>1. UNCHANGED cycle \/ \E f \in BOOLEAN : RunTick(f)
    BY <1>9 DEF Handle, StartOnServer, TickOf, PauseOnServer, Abort, RestartAfterFilters, Settled, ResetOnServer,
                FiltersRead, FiltersDelete, SetRunBackground, HandlerFails, Receive, ForceOf
  <2>2. QED  BY <2>1, <1>0, <1>r
<1>10. ASSUME TakenAway \/ (\E t \in Task : DueAgain(t)) \/ UNCHANGED vars  PROVE BoardInv'
  BY <1>10, <1>0 DEF TakenAway, DueAgain, vars
<1> QED
  BY <1>1, <1>2, <1>3, <1>4, <1>5, <1>6, <1>7, <1>8, <1>9, <1>10, <1>n DEF Next, CycleGoesOn

\* A cycle has no application in hand for a board that refused the limit of them
\* in a row, nor after the limit of problems with the session.
THEOREM RefusingBoardsLeftAloneAlways == Spec => []RefusingBoardsLeftAlone
<1>1. CycleTypeOK /\ BoardInv /\ [Next]_vars => (CycleTypeOK /\ BoardInv)'
  BY TypeStep, BoardStep
<1>2. Init => BoardInv
  BY NoCycleType, CycleAssumption DEF Init, BoardInv
<1>3. CycleTypeOK /\ BoardInv => RefusingBoardsLeftAlone
  BY DEF CycleTypeOK, BoardInv, RefusingBoardsLeftAlone
<1>4. QED  BY <1>1, <1>2, <1>3, TypeInit, PTL DEF Spec
=============================================================================
