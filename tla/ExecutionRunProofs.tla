------------------------- MODULE ExecutionRunProofs -------------------------
(* What TLAPS proves of ExecutionRun, for any browsers, nodes and window.  *)
EXTENDS ExecutionRun, TLAPS

\* The inductive invariant: well-typed rows whose two ownership columns agree.
RunInv == TypeOK /\ OwnerMatchesExecutor

\* The first row is well typed and unowned.
LEMMA RunInitInv == RunInit => RunInv
  BY ExecutorAssumption, StaleRunAssumption
     DEF RunInit, RunInv, TypeOK, OwnerMatchesExecutor, Executor, RunState, CallState

\* Every request of a browser keeps the row well typed and its columns in step.
LEMMA BrowserKeepsInv ==
  ASSUME RunInv, NEW b \in Browser, BrowserNext(b)
  PROVE  RunInv'
<1> USE ExecutorAssumption, StaleRunAssumption
    DEF RunInv, TypeOK, OwnerMatchesExecutor, Executor, RunState, CallState, Goto
<1>1. ASSUME NEW takeover \in BOOLEAN, StartRead(b, takeover) PROVE RunInv'
  BY <1>1 DEF StartRead
<1>2. CASE StartUpsert(b)
  BY <1>2 DEF StartUpsert, WriteRun
<1>3. ASSUME NEW stop \in BOOLEAN, Pause(b, stop) PROVE RunInv'
  BY <1>3 DEF Pause, WriteRun
<1>4. CASE Heartbeat(b) \/ Progress(b)
  BY <1>4 DEF Heartbeat, Progress
<1>5. CASE Complete(b)
  BY <1>5 DEF Complete, WriteRun, HoldsRun
<1>6. CASE BlockAssert(b)
  BY <1>6 DEF BlockAssert
<1>7. CASE BlockUpdate(b)
  <2>1. CASE run.executor = b
    BY <1>7, <2>1 DEF BlockUpdate
  <2>2. CASE run.executor # b
    BY <1>7, <2>2 DEF BlockUpdate
  <2>3. QED  BY <2>1, <2>2
<1>8. CASE ResetClaimsRun(b)
  BY <1>8 DEF ResetClaimsRun, WriteRun
<1>9. CASE CloseBrowser(b) \/ OpenBrowser(b)
  BY <1>9 DEF CloseBrowser, OpenBrowser
<1>10. QED
  BY <1>1, <1>2, <1>3, <1>4, <1>5, <1>6, <1>7, <1>8, <1>9 DEF BrowserNext

\* So does every request of a node.
LEMMA NodeKeepsInv ==
  ASSUME RunInv, NEW n \in Node, NodeNext(n)
  PROVE  RunInv'
<1> USE ExecutorAssumption, StaleRunAssumption
    DEF RunInv, TypeOK, OwnerMatchesExecutor, Executor, RunState, CallState, Goto
<1>1. CASE ServerGate(n)
  BY <1>1 DEF ServerGate
<1>2. CASE ServerUpsert(n)
  <2>1. CASE ServerUpsertMatches
    BY <1>2, <2>1 DEF ServerUpsert, WriteRun
  <2>2. CASE ~ServerUpsertMatches
    BY <1>2, <2>2 DEF ServerUpsert
  <2>3. QED  BY <2>1, <2>2
<1>3. CASE ServerDone(n)
  BY <1>3 DEF ServerDone
<1>4. CASE ServerBlock(n)
  BY <1>4 DEF ServerBlock, WriteRun
<1>5. QED  BY <1>1, <1>2, <1>3, <1>4 DEF NodeNext

\* So does every step: requests, failures and the clock.
LEMMA RunStepInv == RunInv /\ [RunNext]_runVars => RunInv'
<1> SUFFICES ASSUME RunInv, [RunNext]_runVars PROVE RunInv'  OBVIOUS
<1>1. CASE \E b \in Browser : BrowserNext(b)
  BY <1>1, BrowserKeepsInv
<1>2. CASE \E n \in Node : NodeNext(n)
  BY <1>2, NodeKeepsInv
<1>3. ASSUME NEW p \in Executor, CallDies(p) PROVE RunInv'
  BY <1>3, ExecutorAssumption
     DEF CallDies, Goto, RunInv, TypeOK, OwnerMatchesExecutor, CallState
<1>4. CASE Tick
  BY <1>4, StaleRunAssumption DEF Tick, RunInv, TypeOK, OwnerMatchesExecutor
<1>5. CASE UNCHANGED runVars
  BY <1>5 DEF runVars, RunInv, TypeOK, OwnerMatchesExecutor
<1>6. QED  BY <1>1, <1>2, <1>3, <1>4, <1>5 DEF RunNext

\* In every reachable state the row is well typed.
THEOREM RunTypeCorrect == RunSpec => []TypeOK
<1>1. RunInv => TypeOK  BY DEF RunInv
<1>2. QED  BY RunInitInv, RunStepInv, <1>1, PTL DEF RunSpec

\* In every reachable state owner and executor_id agree.
THEOREM OwnershipColumnsAgree == RunSpec => []OwnerMatchesExecutor
<1>1. RunInv => OwnerMatchesExecutor  BY DEF RunInv
<1>2. QED  BY RunInitInv, RunStepInv, <1>1, PTL DEF RunSpec

\* A browser request never hands the run to the server.
LEMMA BrowserStepOwner ==
  ASSUME RunInv, NEW b \in Browser, BrowserNext(b)
  PROVE  run'.owner = "server" => run' = run
<1> USE DEF RunInv, TypeOK, OwnerMatchesExecutor
<1>1. ASSUME NEW takeover \in BOOLEAN, StartRead(b, takeover)
      PROVE  run' = run
  BY <1>1 DEF StartRead
<1>2. CASE StartUpsert(b)
  BY <1>2 DEF StartUpsert, WriteRun
<1>3. ASSUME NEW stop \in BOOLEAN, Pause(b, stop)
      PROVE  run'.owner # "server"
  BY <1>3 DEF Pause, WriteRun
<1>4. CASE Heartbeat(b) \/ Progress(b) \/ BlockAssert(b)
  BY <1>4 DEF Heartbeat, Progress, BlockAssert
<1>5. CASE Complete(b) \/ ResetClaimsRun(b)
  BY <1>5 DEF Complete, ResetClaimsRun, WriteRun
<1>6. CASE BlockUpdate(b)
  <2>1. CASE run.executor = b
    <3>1. run.owner = "extension"  BY <2>1
    <3>2. run'.owner = run.owner  BY <1>6, <2>1 DEF BlockUpdate
    <3>3. QED  BY <3>1, <3>2
  <2>2. CASE run.executor # b
    BY <1>6, <2>2 DEF BlockUpdate
  <2>3. QED  BY <2>1, <2>2
<1>7. CASE CloseBrowser(b) \/ OpenBrowser(b)
  BY <1>7 DEF CloseBrowser, OpenBrowser
<1>8. QED
  BY <1>1, <1>2, <1>3, <1>4, <1>5, <1>6, <1>7 DEF BrowserNext

\* A parked run is never restarted by the fleet: the gate a node passed earlier
\* does not matter, because the upsert evaluates the same condition again.
THEOREM FleetRespectsParkedRuns == RunSpec => ServerNeverRevives
<1> DEFINE Parked == \/ run.state = "blocked"
                     \/ run.owner = "extension" /\ run.state # "running"
           Kept == Parked => (run'.owner = "server" => run'.state = "blocked")
<1>1. RunInv /\ [RunNext]_runVars => [Kept]_runVars
  <2> SUFFICES ASSUME RunInv, RunNext, Parked, run'.owner = "server"
               PROVE  run'.state = "blocked"
    OBVIOUS
  <2>1. CASE run' = run
    BY <2>1 DEF RunInv, TypeOK, OwnerMatchesExecutor
  <2>2. CASE \E b \in Browser : BrowserNext(b)
    BY <2>1, <2>2, BrowserStepOwner
  <2>3. ASSUME NEW n \in Node, NodeNext(n) PROVE run'.state = "blocked"
    <3>1. CASE ServerGate(n) \/ ServerDone(n)
      BY <2>1, <3>1 DEF ServerGate, ServerDone
    <3>2. CASE ServerUpsert(n)
      <4>1. ~ServerUpsertMatches  BY DEF ServerUpsertMatches
      <4>2. QED  BY <2>1, <3>2, <4>1 DEF ServerUpsert
    <3>3. CASE ServerBlock(n)
      BY <2>1, <3>3 DEF ServerBlock, WriteRun
    <3>4. QED  BY <2>3, <3>1, <3>2, <3>3 DEF NodeNext
  <2>4. CASE (\E p \in Executor : CallDies(p)) \/ Tick
    BY <2>1, <2>4 DEF CallDies, Tick
  <2>5. QED  BY <2>2, <2>3, <2>4 DEF RunNext
<1>2. QED
  BY RunInitInv, RunStepInv, <1>1, PTL DEF RunSpec, ServerNeverRevives

\* A live browser's run changes hands only by takeover, reset or its own Stop.
THEOREM LiveRunIsNotPreempted == RunSpec => LiveBrowserKeepsRun
<1> DEFINE Allowed == \/ run'.executor = run.executor
                      \/ \E b \in Browser : ResetClaimsRun(b)
                      \/ \E b \in Browser : call[b] = "takeover" /\ StartUpsert(b)
                      \/ Pause(run.executor, TRUE)
<1>1. RunInv /\ [RunNext]_runVars => [LiveExtensionRun => Allowed]_runVars
  <2> SUFFICES ASSUME RunInv, RunNext, LiveExtensionRun
               PROVE  Allowed
    OBVIOUS
  <2> USE DEF LiveExtensionRun
  <2>1. ASSUME NEW b \in Browser, BrowserNext(b) PROVE Allowed
    <3>1. ASSUME NEW takeover \in BOOLEAN, StartRead(b, takeover) PROVE Allowed
      BY <3>1 DEF StartRead
    <3>2. CASE StartUpsert(b)
      <4>1. CASE call[b] = "takeover"
        BY <2>1, <3>2, <4>1
      <4>2. CASE call[b] # "takeover" /\ run.executor = b
        <5>1. CASE Reclaimable(b, call[b] = "takeover")
          <6>1. run'.executor = b  BY <3>2, <5>1 DEF StartUpsert, WriteRun
          <6>2. QED  BY <4>2, <6>1
        <5>2. CASE ~Reclaimable(b, call[b] = "takeover")
          BY <3>2, <5>2 DEF StartUpsert
        <5>3. QED  BY <5>1, <5>2
      <4>3. CASE call[b] # "takeover" /\ run.executor # b
        <5>1. ~Reclaimable(b, call[b] = "takeover")
          BY <4>3 DEF Reclaimable, HoldsRun
        <5>2. QED  BY <3>2, <5>1 DEF StartUpsert
      <4>4. QED  BY <4>1, <4>2, <4>3
    <3>3. ASSUME NEW stop \in BOOLEAN, Pause(b, stop) PROVE Allowed
      <4>1. run.executor = b  BY <3>3 DEF Pause
      <4>2. CASE stop
        BY <3>3, <4>1, <4>2
      <4>3. CASE ~stop
        BY <3>3, <4>3 DEF Pause, WriteRun
      <4>4. QED  BY <4>2, <4>3
    <3>4. CASE Heartbeat(b) \/ Progress(b) \/ BlockAssert(b)
      BY <3>4 DEF Heartbeat, Progress, BlockAssert
    <3>5. CASE Complete(b)
      BY <3>5 DEF Complete, HoldsRun, WriteRun
    <3>6. CASE BlockUpdate(b)
      BY <3>6 DEF BlockUpdate, RunInv, TypeOK
    <3>7. CASE ResetClaimsRun(b)
      BY <2>1, <3>7
    <3>8. CASE CloseBrowser(b) \/ OpenBrowser(b)
      BY <3>8 DEF CloseBrowser, OpenBrowser
    <3>9. QED
      BY <2>1, <3>1, <3>2, <3>3, <3>4, <3>5, <3>6, <3>7, <3>8 DEF BrowserNext
  <2>2. ASSUME NEW n \in Node, NodeNext(n) PROVE Allowed
    <3>1. CASE ServerGate(n) \/ ServerDone(n)
      BY <3>1 DEF ServerGate, ServerDone
    <3>2. CASE ServerUpsert(n)
      <4>1. ~ServerUpsertMatches  BY DEF ServerUpsertMatches
      <4>2. QED  BY <3>2, <4>1 DEF ServerUpsert
    <3>3. CASE ServerBlock(n)
      BY <3>3 DEF ServerBlock
    <3>4. QED  BY <2>2, <3>1, <3>2, <3>3 DEF NodeNext
  <2>3. CASE (\E p \in Executor : CallDies(p)) \/ Tick
    BY <2>3 DEF CallDies, Tick
  <2>4. QED  BY <2>1, <2>2, <2>3 DEF RunNext
<1>2. QED
  BY RunInitInv, RunStepInv, <1>1, PTL DEF RunSpec, LiveBrowserKeepsRun
=============================================================================
