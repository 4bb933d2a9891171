------------------------ MODULE TailoredResumeProofs ------------------------
(***************************************************************************)
(* Proofs about TailoredResume, for any listings, boards, executors,       *)
(* dashboards, budgets and bounds: its type invariant, that the budget's   *)
(* overshoot is bounded by the requests in flight, and that an application *)
(* keeps pointing to the version that was sent.                            *)
(***************************************************************************)
EXTENDS TailoredResume, FiniteSetTheorems, WellFoundedInduction, TLAPS

(***************************************************************************)
(* Types.                                                                  *)
(***************************************************************************)

\* A set of numbers that is not empty has a least one.
LEMMA LeastNumber ==
    ASSUME NEW S \in SUBSET Nat, S # {}
    PROVE  \E i \in S : \A j \in S : i <= j
<1> DEFINE Less == {p \in Nat \X Nat : p[1] < p[2]}
<1>1. IsWellFoundedOn(Less, Nat)
  BY NatLessThanWellFounded DEF OpToRel
<1>2. \E i \in S : \A j \in S : <<j, i>> \notin Less
  BY <1>1, WFMin
<1>3. \A i, j \in S : <<j, i>> \notin Less => i <= j
  <2> TAKE i, j \in S
  <2>1. i \in Nat /\ j \in Nat
    OBVIOUS
  <2>2. j < i => <<j, i>> \in Less
    BY <2>1
  <2> QED  BY <2>1, <2>2
<1> HIDE DEF Less
<1> QED  BY <1>2, <1>3

\* Of jobs that are not none, the one posted last is one of them.
LEMMA NewestIsOne ==
    ASSUME NEW S \in SUBSET Listing, S # {}
    PROVE  NewestOf(S) \in S
<1> DEFINE R == {Rank[l] : l \in S}
<1>1. R \in SUBSET Nat /\ R # {}
  BY ResumeAssumption
<1>2. PICK i \in R : \A j \in R : i <= j
  BY <1>1, LeastNumber
<1>3. \E l \in S : \A m \in S : Rank[l] <= Rank[m]
  BY <1>2
<1> QED  BY <1>3 DEF NewestOf

\* Where every writer is, is sound.
WorkOK ==
    /\ work \in [Writer -> Work]
    /\ \A p \in Writer : /\ work[p].pc \notin NotWorking => work[p].l # NoListing
                         /\ work[p].pc = "repairCall" => work[p].left > 0

\* A record of a writer that begins something.
LEMMA AtType ==
    ASSUME NEW s \in Step, NEW l \in Listing \cup {NoListing}, NEW n \in Nat
    PROVE  At(s, l, n) \in Work /\ At(s, l, n).pc = s /\ At(s, l, n).l = l
BY DEF At, Work, NoRow

LEMMA Steps ==
    /\ "idle" \in Step /\ "prepare" \in Step /\ "again" \in Step
    /\ "extract" \in Step /\ "extractCall" \in Step /\ "tailor" \in Step /\ "tailorCall" \in Step
    /\ "repair" \in Step /\ "repairCall" \in Step /\ "find" \in Step /\ "check" \in Step
    /\ "write" \in Step /\ "letter" \in Step /\ "fail" \in Step
    /\ "load" \in Step /\ "send" \in Step /\ "recordRead" \in Step /\ "record" \in Step
    /\ JobStep \cap NotWorking = {} /\ GenStep \cap NotWorking = {} /\ JobStep \cap GenStep = {}
    /\ "repairCall" \notin NotWorking /\ NotWorking \subseteq Step
BY DEF Step, NotWorking, GenStep, JobStep

\* A writer that begins something, of nothing and of a listing.
LEMMA BeginType ==
    /\ \A s \in NotWorking : Without(s) \in Work /\ Without(s).pc = s
    /\ Idle \in Work /\ Idle.pc = "idle"
    /\ \A l \in Listing :
          /\ At("extract", l, MaxRepairs) \in Work /\ At("extract", l, MaxRepairs).pc = "extract"
          /\ At("extract", l, MaxRepairs).l = l /\ l # NoListing
    /\ \A l \in Listing, s \in {"load", "letter"} :
          Start(l, s) \in Work /\ Start(l, s).pc = s /\ Start(l, s).l = l
<1> USE ResumeAssumption
<1>1. \A s \in NotWorking : Without(s) \in Work /\ Without(s).pc = s
  <2> TAKE s \in NotWorking
  <2>1. s \in Step /\ s # "repairCall"
    BY Steps
  <2>2. NoListing \in Listing \cup {NoListing} /\ 0 \in Nat
    OBVIOUS
  <2>3. At(s, NoListing, 0) \in Work /\ At(s, NoListing, 0).pc = s
    BY <2>1, <2>2, AtType
  <2>4. QED  BY <2>3 DEF Without
<1>2. Idle \in Work /\ Idle.pc = "idle"
  BY <1>1 DEF Idle, NotWorking
<1>3. ASSUME NEW l \in Listing, NEW s \in Step, NEW n \in Nat
      PROVE  At(s, l, n) \in Work /\ At(s, l, n).pc = s /\ At(s, l, n).l = l
  <2>1. l \in Listing \cup {NoListing}
    OBVIOUS
  <2>2. QED  BY <2>1, AtType
<1>4. /\ "extract" \in Step /\ "load" \in Step /\ "letter" \in Step
  BY Steps
<1>5. ASSUME NEW l \in Listing
      PROVE  /\ At("extract", l, MaxRepairs) \in Work /\ At("extract", l, MaxRepairs).pc = "extract"
             /\ At("extract", l, MaxRepairs).l = l /\ l # NoListing
  BY <1>3, <1>4
<1>6. ASSUME NEW l \in Listing, NEW s \in {"load", "letter"}
      PROVE  Start(l, s) \in Work /\ Start(l, s).pc = s /\ Start(l, s).l = l
  BY <1>3, <1>4 DEF Start
<1>7. QED  BY <1>1, <1>2, <1>5, <1>6

LEMMA PutType ==
    ASSUME WorkOK, NEW p \in Writer, NEW w \in Work, work' = [work EXCEPT ![p] = w],
           w.pc \notin NotWorking => w.l # NoListing, w.pc # "repairCall"
    PROVE  WorkOK'
BY DEF WorkOK

LEMMA GoType ==
    ASSUME WorkOK, NEW p \in Writer, NEW s \in Step, Go(p, s), work[p].pc \notin NotWorking,
           s = "repairCall" => work[p].left > 0
    PROVE  WorkOK'
<1>1. work \in [Writer -> Work]
  BY DEF WorkOK
<1>2. [work[p] EXCEPT !.pc = s] \in Work
  BY <1>1 DEF Work
<1>3. work' = [work EXCEPT ![p] = [work[p] EXCEPT !.pc = s]]
  BY DEF Go
<1>4. work'[p].pc = s /\ work'[p].l = work[p].l /\ work'[p].left = work[p].left
  BY <1>1, <1>3 DEF Work
<1>5. \A q \in Writer \ {p} : work'[q] = work[q]
  BY <1>1, <1>3
<1>6. work' \in [Writer -> Work]
  BY <1>1, <1>2, <1>3
<1>7. QED  BY <1>4, <1>5, <1>6 DEF WorkOK

\* Where a writer goes after a call that does not end its generation, or past a repair that
\* is not made.
Onward(p, s, k) == work' = [work EXCEPT ![p] = [work[p] EXCEPT !.pc = s, !.left = k]]

LEMMA GoesOnward ==
    ASSUME WorkOK, NEW p \in Writer,
           \/ p \in InFlight /\ GoesOn(p)
           \/ Repair(p) /\ RepairsLeft(p) /\ work' = [work EXCEPT ![p].left = @ - 1]
    PROVE  \E s \in {"tailor", "repair"}, k \in Nat : Onward(p, s, k)
<1>t. work \in [Writer -> Work] /\ (work[p].pc = "repairCall" => work[p].left > 0)
  BY DEF WorkOK
<1>1. CASE p \in InFlight /\ GoesOn(p)
  <2> DEFINE s == IF work[p].pc = "extractCall" THEN "tailor" ELSE "repair"
             k == IF work[p].pc = "repairCall" THEN work[p].left - 1 ELSE work[p].left
  <2>1. s \in {"tailor", "repair"} /\ k \in Nat
    BY <1>t DEF Work
  <2>2. work' = [work EXCEPT ![p].pc = s, ![p].left = k]
    BY <1>1 DEF GoesOn
  <2> HIDE DEF s, k
  <2>3. Onward(p, s, k)
    BY <2>2, <1>t DEF Onward
  <2>4. QED  BY <2>1, <2>3
<1>2. CASE Repair(p) /\ RepairsLeft(p) /\ work' = [work EXCEPT ![p].left = @ - 1]
  <2> DEFINE k == work[p].left - 1
  <2>1. k \in Nat /\ work[p].pc = "repair" /\ work[p] \in Work
    BY <1>2, <1>t DEF RepairsLeft, Repair, Work
  <2>2. [work[p] EXCEPT !.pc = "repair", !.left = k] = [work[p] EXCEPT !.left = k]
    BY <2>1 DEF Work
  <2>3. Onward(p, "repair", k)
    BY <1>2, <2>2 DEF Onward
  <2> HIDE DEF k
  <2>4. QED  BY <2>1, <2>3
<1>3. QED  BY <1>1, <1>2

\* What a call, or its absence, may lead to.
LEMMA CallSteps ==
    ASSUME NEW p \in Writer,
           Extract(p) \/ Tailor(p) \/ Repair(p) \/ Settle(p) \/ CallFails(p)
    PROVE  \/ work[p].pc = "extract" /\ (Go(p, "tailor") \/ (Go(p, "extractCall") /\ spent < Cap))
           \/ work[p].pc = "tailor" /\ (Go(p, "fail") \/ (Go(p, "tailorCall") /\ spent < Cap))
           \/ work[p].pc = "repair" /\ (Go(p, "find")
                 \/ (Go(p, "repairCall") /\ spent < Cap /\ work[p].left > 0))
           \/ work[p].pc = "tailorCall" /\ Go(p, "fail")
           \/ p \in InFlight /\ GoesOn(p)
           \/ Repair(p) /\ RepairsLeft(p) /\ work' = [work EXCEPT ![p].left = @ - 1]
BY DEF Extract, Tailor, Repair, Settle, CallFails, CallPasses, Go, BudgetLeft, RepairsLeft

LEMMA TypeInit == Init => ResumeTypeOK
<1> SUFFICES ASSUME Init  PROVE ResumeTypeOK
  OBVIOUS
<1>1. Idle \in Work /\ Idle.pc = "idle"
  BY BeginType
<1>2. work \in [Writer -> Work] /\ \A p \in Writer : work[p].pc = "idle"
  BY <1>1 DEF Init
<1>3. /\ rows \in [Listing -> SUBSET Row] /\ task \in [Listing -> Task]
      /\ app \in [Listing -> Application] /\ made \in [Listing -> Nat]
  BY ResumeAssumption DEF Init, Task, Application, NoRow
<1>4. manual \in 0..MaxManual /\ crashes \in 0..MaxCrashes
  BY ResumeAssumption DEF Init
<1>5. QED  BY <1>2, <1>3, <1>4 DEF Init, ResumeTypeOK, NotWorking

(***************************************************************************)
(* The invariants.                                                         *)
(***************************************************************************)

\* Rows and versions of a listing are counted by its writes; ids and versions are
\* its own, and the last write is there.
RowsInv ==
    \A l \in Listing :
        /\ \A r \in rows[l] : 0 < r.id /\ r.id <= made[l] /\ r.version <= made[l]
        /\ \A r, s \in rows[l] : r.id = s.id \/ r.version = s.version => r = s
        /\ rows[l] # {} => \E r \in rows[l] : r.version = made[l]
        /\ \A p \in Writer : work[p].l = l => work[p].found <= made[l]

\* A job is held by one executor, of a task it leased; one with a result is
\* never leased again.
HoldInv ==
    /\ \A p \in Writer : work[p].pc \in JobStep =>
           /\ p \in Executor /\ task[work[p].l].status = "leased"
           /\ NativeBoard(work[p].l) \/ HasResume(work[p].l)
           /\ \A q \in Writer : work[q].pc \in JobStep /\ work[q].l = work[p].l => p = q
    /\ \A l \in Listing : app[l].made => task[l].status \in {"done", "failed"}

\* What is sent is the newest version, and what will be recorded is its row.
Sending(p) ==
    work[p].pc \in {"send", "recordRead", "record"} /\ work[p].l \notin overlapped =>
        IF NativeBoard(work[p].l) THEN work[p].pc = "record" => work[p].row = NoRow
        ELSE /\ work[p].version = made[work[p].l]
             /\ work[p].pc = "record" =>
                  \E r \in rows[work[p].l] : r.id = work[p].row /\ r.version = made[work[p].l]

\* A generation that knows of the application spares its row.
Sparing(p) ==
    work[p].pc = "write" /\ work[p].knew =>
        app[work[p].l].made /\ (work[p].found = NoRow \/ work[p].found # app[work[p].l].row)

\* What was recorded stays.
Kept(l) ==
    /\ ~app[l].made => app[l].row = NoRow
    /\ l \notin overlapped /\ app[l].made =>
           IF NativeBoard(l) THEN app[l].row = NoRow
           ELSE \E r \in rows[l] : r.id = app[l].row /\ r.version = app[l].sent

ArchiveInv ==
    /\ \A p \in Writer : Sending(p) /\ Sparing(p)
    /\ \A l \in Listing : Kept(l)

\* The newest row of a listing that has one is that of its last write.
LEMMA NewestIsRow ==
    ASSUME ResumeTypeOK, RowsInv, NEW l \in Listing, HasResume(l)
    PROVE  /\ Newest(l) \in rows[l] /\ Newest(l).version = made[l]
           /\ Newest(l).id \in Nat /\ Newest(l).id # NoRow /\ Newest(l).id <= made[l]
<1>1. PICK r \in rows[l] : r.version = made[l]
  BY DEF RowsInv, HasResume
<1>2. \A s \in rows[l] : s.version <= made[l] /\ 0 < s.id /\ s.id <= made[l]
  BY DEF RowsInv
<1>3. rows[l] \in SUBSET Row /\ made[l] \in Nat
  BY DEF ResumeTypeOK
<1>4. \A s \in rows[l] : s.version <= r.version
  BY <1>1, <1>2
<1>5. /\ Newest(l) \in rows[l]
      /\ \A s \in rows[l] : s.version <= Newest(l).version
  BY <1>1, <1>4 DEF Newest
<1>6. Newest(l).version = made[l]
  <2>1. Newest(l).version <= made[l] /\ made[l] <= Newest(l).version
    BY <1>1, <1>2, <1>5
  <2>2. Newest(l).version \in Nat
    BY <1>3, <1>5 DEF Row
  <2>3. QED  BY <2>1, <2>2, <1>3
<1>7. QED  BY <1>2, <1>3, <1>5, <1>6 DEF Row, NoRow

(***************************************************************************)
(* Types are kept.                                                         *)
(***************************************************************************)

LEMMA TypeStep ==
    ASSUME ResumeTypeOK, RowsInv, HoldInv, [Next]_vars
    PROVE  ResumeTypeOK'
<1> USE ResumeAssumption
<1>w. WorkOK
  BY DEF ResumeTypeOK, WorkOK
<1>t. /\ task \in [Listing -> Task] /\ work \in [Writer -> Work] /\ rows \in [Listing -> SUBSET Row]
      /\ app \in [Listing -> Application] /\ made \in [Listing -> Nat]
  BY DEF ResumeTypeOK
<1>u. ASSUME WorkOK', UNCHANGED <<rows, letter, task, app, spent, polled, made, manual, crashes, overlapped>>
      PROVE  ResumeTypeOK'
  BY <1>u DEF ResumeTypeOK, WorkOK
<1>n. \A p \in Writer : work[p].pc \notin NotWorking => work[p].l \in Listing
  BY <1>w DEF WorkOK, Work
<1>0. \A s \in NotWorking : Without(s) \in Work /\ Without(s).pc = s
  BY BeginType
<1>z. NotWorking = {"idle", "prepare", "again"}
  BY DEF NotWorking
<1>c. ASSUME NEW p \in Writer, ClaimOver(p)  PROVE WorkOK'
  <2>1. PICK s \in {"idle", "again"} : work' = [work EXCEPT ![p] = Without(s)]
    BY <1>c DEF ClaimOver
  <2>2. Without(s) \in Work /\ Without(s).pc = s /\ s \in NotWorking
    BY <1>0, <1>z
  <2>3. QED  BY <2>1, <2>2, <1>w, PutType
<1>1. ASSUME NEW e \in Executor, Claim(e)  PROVE ResumeTypeOK'
  <2>1. CASE Ready # {}
    <3> DEFINE l == NewestOf(Ready)
    <3>1. l \in Listing /\ l # NoListing
      BY <2>1, NewestIsOne DEF Ready
    <3>2. task' = [task EXCEPT ![l].status = "leased"] /\ work' = [work EXCEPT ![e] = Start(l, "load")]
      BY <1>1, <2>1 DEF Claim
    <3> HIDE DEF l
    <3>3. Start(l, "load") \in Work /\ Start(l, "load").pc = "load" /\ Start(l, "load").l = l
      BY <3>1, BeginType
    <3>4. WorkOK'
      BY <3>1, <3>2, <3>3, <1>w, PutType DEF Writer
    <3>5. task' \in [Listing -> Task]
      BY <3>1, <3>2, <1>t DEF Task
    <3>6. QED  BY <1>1, <3>4, <3>5 DEF Claim, ResumeTypeOK, WorkOK
  <2>2. CASE Ready = {}
    <3>1. UNCHANGED task /\ work' = [work EXCEPT ![e] = IF work[e].pc = "idle" THEN Without("prepare") ELSE Idle]
      BY <1>1, <2>2 DEF Claim
    <3>2. PICK s \in NotWorking : work' = [work EXCEPT ![e] = Without(s)]
      BY <3>1 DEF NotWorking, Idle
    <3>3. WorkOK'
      BY <3>2, <1>0, <1>w, <1>z, PutType DEF Writer
    <3>4. QED  BY <1>1, <3>1, <3>3 DEF Claim, ResumeTypeOK, WorkOK
  <2>3. QED  BY <2>1, <2>2
<1>2. ASSUME NEW e \in Executor, Prepare(e)  PROVE ResumeTypeOK'
  <2> DEFINE due == {l \in Listing : Due(l) /\ BoardOf[l] \in PreparedBoards}
             l == NewestOf(due)
  <2>1. CASE due = {}
    <3>1. ClaimOver(e)
      BY <1>2, <2>1 DEF Prepare
    <3>2. WorkOK'
      BY <3>1, <1>c DEF Writer
    <3>3. QED  BY <1>2, <3>2, <1>u DEF Prepare
  <2>2. CASE due # {}
    <3>1. l \in Listing /\ l # NoListing
      BY <2>2, NewestIsOne
    <3>2. work' = [work EXCEPT ![e] = IF NothingToMake(l) THEN Without("again") ELSE At("extract", l, MaxRepairs)]
      BY <1>2, <2>2 DEF Prepare
    <3> HIDE DEF l
    <3>3. /\ At("extract", l, MaxRepairs) \in Work /\ At("extract", l, MaxRepairs).pc = "extract"
          /\ At("extract", l, MaxRepairs).l = l
      BY <3>1, BeginType
    <3>4. CASE NothingToMake(l)
      <4>1. WorkOK'
        BY <3>2, <3>4, <1>0, <1>w, <1>z, PutType DEF Writer
      <4>2. QED  BY <1>2, <4>1, <1>u DEF Prepare
    <3>5. CASE ~NothingToMake(l)
      <4>1. WorkOK'
        BY <3>1, <3>2, <3>3, <3>5, <1>w, PutType DEF Writer
      <4>2. QED  BY <1>2, <4>1, <1>u DEF Prepare
    <3>6. QED  BY <3>4, <3>5
  <2>3. QED  BY <2>1, <2>2
<1>3. ASSUME NEW d \in Dashboard, NEW l \in Listing, AskByHand(d, l)  PROVE ResumeTypeOK'
  <2>1. /\ At("extract", l, MaxRepairs) \in Work /\ At("extract", l, MaxRepairs).pc = "extract"
        /\ At("extract", l, MaxRepairs).l = l
    BY BeginType
  <2>2. WorkOK'
    BY <1>3, <2>1, <1>w, PutType DEF AskByHand, Writer
  <2>3. QED  BY <1>3, <2>2 DEF AskByHand, ResumeTypeOK, WorkOK
<1>4. ASSUME NEW p \in Writer, Extract(p) \/ Tailor(p) \/ Repair(p) \/ Settle(p) \/ CallFails(p)
      PROVE  ResumeTypeOK'
  <2>1. work[p].pc \notin NotWorking
    BY <1>4, <1>z DEF Extract, Tailor, Repair, Settle, CallFails, InFlight
  <2>2. ASSUME \E s \in {"tailor", "repair"}, k \in Nat : Onward(p, s, k)  PROVE WorkOK'
    <3>1. PICK s \in {"tailor", "repair"}, k \in Nat : Onward(p, s, k)
      BY <2>2
    <3> DEFINE w == [work[p] EXCEPT !.pc = s, !.left = k]
    <3>2. work[p] \in Work /\ s \in Step /\ s # "repairCall"
      BY <1>t, Steps
    <3>3. w \in Work /\ w.pc = s /\ w.l = work[p].l
      BY <3>2 DEF Work
    <3>4. work[p].l # NoListing /\ work' = [work EXCEPT ![p] = w]
      BY <2>1, <3>1, <1>w DEF WorkOK, Onward
    <3> HIDE DEF w
    <3>5. QED  BY <3>2, <3>3, <3>4, <1>w, PutType
  <2>3. ASSUME \E s \in Step : Go(p, s) /\ (s = "repairCall" => work[p].left > 0)  PROVE WorkOK'
    BY <2>1, <2>3, <1>w, GoType
  <2>4. \/ \E s \in {"tailor", "repair"}, k \in Nat : Onward(p, s, k)
        \/ \E s \in Step : Go(p, s) /\ (s = "repairCall" => work[p].left > 0)
    BY <1>4, <1>w, CallSteps, GoesOnward, Steps
  <2>5. WorkOK'
    BY <2>2, <2>3, <2>4
  <2>6. CASE ~Settle(p)
    BY <1>4, <1>u, <2>5, <2>6 DEF Extract, Tailor, Repair, CallFails
  <2>7. CASE Settle(p)
    BY <2>5, <2>7 DEF Settle, ResumeTypeOK, WorkOK
  <2>8. QED  BY <2>6, <2>7
<1>6. ASSUME NEW p \in Writer, FindExisting(p) \/ CheckArchived(p)  PROVE ResumeTypeOK'
  <2>0. work[p].pc \notin NotWorking /\ work[p].l \in Listing
    BY <1>6, <1>z, <1>n DEF FindExisting, CheckArchived
  <2>1. PICK s \in {"check", "write"}, f \in Nat, k \in BOOLEAN : work' = [work EXCEPT ![p] = [work[p] EXCEPT !.pc = s, !.found = f, !.knew = k]]
    <3>1. CASE FindExisting(p)
      <4> DEFINE f == IF HasResume(work[p].l) THEN Newest(work[p].l).id ELSE NoRow
      <4>1. work' = [work EXCEPT ![p] = [work[p] EXCEPT !.pc = "check", !.found = f]]
        BY <3>1, <1>t DEF FindExisting
      <4>2. f \in Nat
        BY <2>0, NewestIsRow DEF NoRow
      <4> HIDE DEF f
      <4>3. work[p].knew \in BOOLEAN
        BY <1>t DEF Work
      <4>4. [work[p] EXCEPT !.pc = "check", !.found = f] = [work[p] EXCEPT !.pc = "check", !.found = f, !.knew = work[p].knew]
        BY <1>t DEF Work
      <4>5. QED  BY <4>1, <4>2, <4>3, <4>4
    <3>2. CASE CheckArchived(p)
      <4> DEFINE f == IF Archived(work[p].l, work[p].found) THEN NoRow ELSE work[p].found
      <4>1. work' = [work EXCEPT ![p] = [work[p] EXCEPT !.pc = "write", !.found = f, !.knew = app[work[p].l].made]]
        BY <3>2, <1>t DEF CheckArchived, Work
      <4>2. f \in Nat
        BY <1>t DEF NoRow, Work
      <4> HIDE DEF f
      <4>3. app[work[p].l].made \in BOOLEAN
        BY <2>0, <1>t DEF Application
      <4>4. QED  BY <4>1, <4>2, <4>3
    <3>3. QED  BY <1>6, <3>1, <3>2
  <2>2. [work[p] EXCEPT !.pc = s, !.found = f, !.knew = k] \in Work
    <3>1. s \in Step /\ work[p] \in Work
      BY <2>1, <1>t, Steps
    <3>2. QED  BY <2>1, <3>1 DEF Work
  <2>3. /\ [work[p] EXCEPT !.pc = s, !.found = f, !.knew = k].pc = s
        /\ [work[p] EXCEPT !.pc = s, !.found = f, !.knew = k].l = work[p].l
    BY <1>t DEF Work
  <2>4. WorkOK'
    BY <2>0, <2>1, <2>2, <2>3, <1>w, PutType
  <2>5. QED  BY <1>6, <2>4, <1>u DEF FindExisting, CheckArchived
<1>7. ASSUME NEW p \in Writer, Write(p)  PROVE ResumeTypeOK'
  <2> DEFINE l == work[p].l
             id == IF work[p].found = NoRow THEN made[l] + 1 ELSE work[p].found
             others == {r \in rows[l] : r.id # id}
  <2>0. l \in Listing /\ l # NoListing
    BY <1>7, <1>z, <1>n DEF Write
  <2>1. id \in Nat /\ made[l] + 1 \in Nat
    BY <2>0, <1>t DEF Work
  <2>2. /\ made' = [made EXCEPT ![l] = made[l] + 1]
        /\ rows' = [rows EXCEPT ![l] = others \cup {[id |-> id, version |-> made[l] + 1]}]
        /\ overlapped' = IF Crosses(p, l) THEN overlapped \cup {l} ELSE overlapped
        /\ work' = [work EXCEPT ![p] =
                         IF p \in Dashboard THEN Idle
                         ELSE IF BoardOf[l] = "e-estekhdam" THEN Start(l, "letter")
                         ELSE Without("again")]
    BY <1>7 DEF Write
  <2>3. [id |-> id, version |-> made[l] + 1] \in Row
    BY <2>1 DEF Row
  <2>4. others \cup {[id |-> id, version |-> made[l] + 1]} \in SUBSET Row
    BY <2>0, <2>3, <1>t
  <2> HIDE DEF id, others
  <2>5. rows' \in [Listing -> SUBSET Row] /\ made' \in [Listing -> Nat]
    BY <2>1, <2>2, <2>4, <1>t
  <2>6. Start(l, "letter") \in Work /\ Start(l, "letter").pc = "letter" /\ Start(l, "letter").l = l
    BY <2>0, BeginType
  <2>7. PICK w : w \in {Idle, Start(l, "letter"), Without("again")} /\ work' = [work EXCEPT ![p] = w]
    BY <2>2
  <2>8. w \in Work /\ (w.pc \notin NotWorking => w.l # NoListing) /\ w.pc # "repairCall"
    BY <2>0, <2>6, <2>7, <1>0, <1>z DEF Idle
  <2>9. WorkOK'
    BY <2>7, <2>8, <1>w, PutType
  <2>10. QED  BY <1>7, <2>0, <2>2, <2>5, <2>9 DEF Write, ResumeTypeOK, WorkOK
<1>8. ASSUME NEW e \in Executor, WriteLetter(e)  PROVE ResumeTypeOK'
  <2>0. work[e].l \in Listing
    BY <1>8, <1>z, <1>n DEF WriteLetter, Writer
  <2>1. WorkOK'
    BY <1>8, <1>0, <1>z, <1>w, PutType DEF WriteLetter, Writer
  <2>2. QED  BY <1>8, <2>0, <2>1 DEF WriteLetter, ResumeTypeOK, WorkOK
<1>9. ASSUME NEW p \in Writer, Fail(p)  PROVE ResumeTypeOK'
  <2>0. work[p].l \in Listing
    BY <1>9, <1>z, <1>n DEF Fail
  <2>1. WorkOK'
    <3>1. CASE ClaimOver(p)
      BY <3>1, <1>c
    <3>2. CASE work' = [work EXCEPT ![p] = Idle]
      BY <3>2, <1>0, <1>z, <1>w, PutType DEF Idle
    <3>3. QED  BY <1>9, <3>1, <3>2 DEF Fail
  <2>2. task' \in [Listing -> Task]
    BY <1>9, <2>0, <1>t DEF Fail, DelayAfterFailure, Task
  <2>3. QED  BY <1>9, <2>1, <2>2 DEF Fail, ResumeTypeOK, WorkOK
<1>10. ASSUME NEW e \in Executor, Load(e) \/ RecordRead(e)  PROVE ResumeTypeOK'
  <2>0. e \in Writer /\ work[e].pc \notin NotWorking /\ work[e].l \in Listing
    BY <1>10, <1>z, <1>n DEF Load, RecordRead, Writer
  <2>1. PICK w \in Work : work' = [work EXCEPT ![e] = w] /\ w.pc \in {"send", "record"} /\ w.l = work[e].l
    <3>1. CASE Load(e)
      <4> DEFINE v == IF NativeBoard(work[e].l) THEN 0 ELSE Newest(work[e].l).version
      <4>1. work' = [work EXCEPT ![e] = [work[e] EXCEPT !.pc = "send", !.version = v]]
        BY <2>0, <3>1, <1>t DEF Load
      <4>2. v \in Nat
        <5>1. NativeBoard(work[e].l) \/ HasResume(work[e].l)
          BY <2>0, <3>1 DEF Load, HoldInv, JobStep
        <5>2. QED  BY <2>0, <5>1, <1>t, NewestIsRow
      <4> HIDE DEF v
      <4>3. [work[e] EXCEPT !.pc = "send", !.version = v] \in Work
        <5>1. "send" \in Step /\ work[e] \in Work
          BY <2>0, <1>t, Steps
        <5>2. QED  BY <4>2, <5>1 DEF Work
      <4>4. /\ [work[e] EXCEPT !.pc = "send", !.version = v].pc = "send"
            /\ [work[e] EXCEPT !.pc = "send", !.version = v].l = work[e].l
        BY <2>0, <1>t DEF Work
      <4>5. QED  BY <4>1, <4>3, <4>4
    <3>2. CASE RecordRead(e)
      <4> DEFINE r == SentRow(work[e].l)
      <4>1. work' = [work EXCEPT ![e] = [work[e] EXCEPT !.pc = "record", !.row = r]]
        BY <2>0, <3>2, <1>t DEF RecordRead
      <4>2. r \in Nat
        BY <2>0, NewestIsRow DEF SentRow, NoRow
      <4> HIDE DEF r
      <4>3. [work[e] EXCEPT !.pc = "record", !.row = r] \in Work
        <5>1. "record" \in Step /\ work[e] \in Work
          BY <2>0, <1>t, Steps
        <5>2. QED  BY <4>2, <5>1 DEF Work
      <4>4. /\ [work[e] EXCEPT !.pc = "record", !.row = r].pc = "record"
            /\ [work[e] EXCEPT !.pc = "record", !.row = r].l = work[e].l
        BY <2>0, <1>t DEF Work
      <4>5. QED  BY <4>1, <4>3, <4>4
    <3>3. QED  BY <1>10, <3>1, <3>2
  <2>2. WorkOK'
    BY <2>0, <2>1, <1>w, PutType
  <2>3. QED  BY <1>10, <2>2, <1>u DEF Load, RecordRead
<1>11. ASSUME NEW e \in Executor, Send(e)  PROVE ResumeTypeOK'
  <2>1. WorkOK'
    BY <1>11, <1>w, <1>z, Steps, GoType DEF Send, Writer
  <2>2. QED  BY <1>11, <2>1, <1>u DEF Send
<1>12. ASSUME NEW e \in Executor, Record(e)  PROVE ResumeTypeOK'
  <2>0. e \in Writer /\ work[e].l \in Listing
    BY <1>12, <1>z, <1>n DEF Record, Writer
  <2> DEFINE l == work[e].l
             r == IF work[e].row = NoRow THEN app[l].row ELSE work[e].row
  <2>1. /\ app' = [app EXCEPT ![l] = [made |-> TRUE, sent |-> work[e].version, row |-> r]]
        /\ \E status \in {"done", "failed"} : task' = [task EXCEPT ![l].status = status]
        /\ work' = [work EXCEPT ![e] = Idle]
    BY <1>12, <2>0, <1>t DEF Record
  <2>2. r \in Nat /\ work[e].version \in Nat
    BY <2>0, <1>t DEF Work, Application
  <2> HIDE DEF r
  <2>3. app' \in [Listing -> Application]
    BY <2>0, <2>1, <2>2, <1>t DEF Application
  <2>4. task' \in [Listing -> Task]
    BY <2>0, <2>1, <1>t DEF Task
  <2>5. WorkOK'
    BY <2>0, <2>1, <1>0, <1>z, <1>w, PutType DEF Idle
  <2>6. QED  BY <1>12, <2>3, <2>4, <2>5 DEF Record, ResumeTypeOK, WorkOK
<1>13. ASSUME NEW p \in Writer, Die(p)  PROVE ResumeTypeOK'
  <2>1. WorkOK'
    BY <1>13, <1>0, <1>z, <1>w, PutType DEF Die, Idle
  <2>2. task' \in [Listing -> Task]
    <3>1. [status |-> "pending", delay |-> 0] \in Task
      BY DEF Task
    <3>2. work[p].pc \in JobStep => work[p].l \in Listing
      BY <1>n, Steps
    <3>3. QED  BY <1>13, <3>1, <3>2, <1>t DEF Die
  <2>3. QED  BY <1>13, <2>1, <2>2 DEF Die, ResumeTypeOK, WorkOK
<1>14. ASSUME Tick  PROVE ResumeTypeOK'
  <2>1. ASSUME NEW l \in Listing, task[l].delay > 0  PROVE [task[l] EXCEPT !.delay = @ - 1] \in Task
    BY <2>1, <1>t DEF Task
  <2>2. task' \in [Listing -> Task]
    BY <1>14, <2>1, <1>t DEF Tick
  <2>3. QED  BY <1>14, <2>2, <1>w DEF Tick, ResumeTypeOK, WorkOK
<1>15. ASSUME NewMonth \/ UNCHANGED vars  PROVE ResumeTypeOK'
  BY <1>15 DEF NewMonth, vars, ResumeTypeOK
<1> QED
  BY <1>1, <1>2, <1>3, <1>4, <1>6, <1>7, <1>8, <1>9, <1>10, <1>11, <1>12, <1>13, <1>14, <1>15
     DEF Next, Execute, Generate, Writer

(***************************************************************************)
(* The invariants are kept.                                                *)
(***************************************************************************)

IInv == ResumeTypeOK /\ RowsInv /\ HoldInv /\ ArchiveInv

\* Of the writers that are not p, nothing changes.
Alone(p) == \A q \in Writer \ {p} : work'[q] = work[q]

LEMMA IInvInit == Init => IInv
<1> SUFFICES ASSUME Init  PROVE IInv
  OBVIOUS
<1>1. ResumeTypeOK
  BY TypeInit
<1>2. \A p \in Writer : work[p].pc = "idle" /\ work[p].found = 0
  BY BeginType DEF Init, Idle, Without, At, NoRow
<1>3. RowsInv
  BY <1>2 DEF Init, RowsInv
<1>4. HoldInv
  BY <1>2 DEF Init, HoldInv, JobStep
<1>5. ArchiveInv
  BY <1>2 DEF Init, ArchiveInv, Sending, Sparing, Kept
<1>6. QED  BY <1>1, <1>3, <1>4, <1>5 DEF IInv

\* A writer that does not take, hold or finish a job, and is not about to write,
\* disturbs nothing; one that gives its job up does not either.
LEMMA Aside ==
    ASSUME IInv, ResumeTypeOK', NEW p \in Writer, Alone(p),
           UNCHANGED <<rows, made, app, overlapped>>,
           work'[p].pc \notin JobStep, work'[p].pc # "write",
           work'[p].l \in Listing => work'[p].found <= made[work'[p].l],
           \A l \in Listing : task'[l].status = task[l].status
                             \/ (work[p].pc \in JobStep /\ l = work[p].l)
    PROVE  IInv'
<1>1. RowsInv'
  BY DEF IInv, RowsInv, Alone, NoRow
<1>2. HoldInv'
  <2>1. ASSUME NEW q \in Writer, work'[q].pc \in JobStep
        PROVE  /\ q \in Executor /\ task'[work'[q].l].status = "leased"
               /\ NativeBoard(work'[q].l) \/ rows'[work'[q].l] # {}
               /\ \A z \in Writer : work'[z].pc \in JobStep /\ work'[z].l = work'[q].l => q = z
    <3>1. q # p /\ work'[q] = work[q] /\ work[q].pc \in JobStep
      BY <2>1 DEF Alone
    <3>2. work[q].l \in Listing
      BY <3>1, Steps DEF IInv, ResumeTypeOK, Work
    <3>3. task'[work[q].l].status = task[work[q].l].status
      BY <3>1, <3>2 DEF IInv, HoldInv
    <3>4. /\ q \in Executor /\ task[work[q].l].status = "leased"
          /\ NativeBoard(work[q].l) \/ HasResume(work[q].l)
          /\ \A z \in Writer : work[z].pc \in JobStep /\ work[z].l = work[q].l => q = z
      BY <3>1 DEF IInv, HoldInv
    <3>5. rows'[work'[q].l] # {} <=> HasResume(work[q].l)
      BY <3>1 DEF HasResume
    <3>6. ASSUME NEW z \in Writer, work'[z].pc \in JobStep, work'[z].l = work'[q].l  PROVE q = z
      BY <3>1, <3>4, <3>6 DEF Alone
    <3>7. QED  BY <3>1, <3>3, <3>4, <3>5, <3>6
  <2>2. ASSUME NEW l \in Listing, app'[l].made  PROVE task'[l].status \in {"done", "failed"}
    <3>1. app[l].made /\ task[l].status \in {"done", "failed"}
      BY <2>2 DEF IInv, HoldInv
    <3>2. task'[l].status = task[l].status
      BY <3>1 DEF IInv, HoldInv
    <3>3. QED  BY <3>1, <3>2
  <2>3. QED  BY <2>1, <2>2 DEF HoldInv, NativeBoard, HasResume
<1>3. ArchiveInv'
  <2>1. ASSUME NEW q \in Writer  PROVE Sending(q)' /\ Sparing(q)'
    <3>1. CASE q = p
      BY <3>1 DEF Sending, Sparing, JobStep
    <3>2. CASE q # p
      <4>1. work'[q] = work[q] /\ Sending(q) /\ Sparing(q)
        BY <3>2 DEF Alone, IInv, ArchiveInv
      <4>2. QED  BY <4>1 DEF Sending, Sparing, NativeBoard
    <3>3. QED  BY <3>1, <3>2
  <2>2. ASSUME NEW l \in Listing  PROVE Kept(l)'
    <3>1. Kept(l)
      BY DEF IInv, ArchiveInv
    <3>2. QED  BY <3>1 DEF Kept, NativeBoard
  <2>3. QED  BY <2>1, <2>2 DEF ArchiveInv
<1>4. QED  BY <1>1, <1>2, <1>3 DEF IInv

\* So does time.
LEMMA Aloof ==
    ASSUME IInv, ResumeTypeOK', UNCHANGED <<rows, made, app, overlapped, work>>,
           \A l \in Listing : task'[l].status = task[l].status
    PROVE  IInv'
<1>1. RowsInv'
  BY DEF IInv, RowsInv
<1>2. HoldInv'
  <2>1. \A q \in Writer : work[q].pc \in JobStep => work[q].l \in Listing
    BY Steps DEF IInv, ResumeTypeOK, Work
  <2>2. QED  BY <2>1 DEF IInv, HoldInv, HasResume, NativeBoard
<1>3. ArchiveInv'
  BY DEF IInv, ArchiveInv, Sending, Sparing, Kept, NativeBoard
<1>4. QED  BY <1>1, <1>2, <1>3 DEF IInv

\* A version is written: a row that is the archive of a submission is spared, or the
\* listing counts as overlapped.
LEMMA WriteStep ==
    ASSUME IInv, ResumeTypeOK', NEW p \in Writer, Write(p)
    PROVE  IInv'
<1> USE ResumeAssumption
<1> DEFINE l == work[p].l
           id == IF work[p].found = NoRow THEN made[l] + 1 ELSE work[p].found
           row == [id |-> id, version |-> made[l] + 1]
<1>t. /\ work \in [Writer -> Work] /\ rows \in [Listing -> SUBSET Row]
      /\ app \in [Listing -> Application] /\ made \in [Listing -> Nat]
  BY DEF IInv, ResumeTypeOK
<1>1. l \in Listing /\ work[p].found \in Nat /\ made[l] \in Nat
  <2>1. work[p].pc \notin NotWorking
    BY DEF Write, NotWorking
  <2>2. l # NoListing
    BY <2>1 DEF IInv, ResumeTypeOK
  <2>3. work[p] \in Work
    BY <1>t
  <2>4. l \in Listing
    BY <2>2, <2>3 DEF Work
  <2>5. QED  BY <2>3, <2>4, <1>t DEF Work
<1>2. /\ made' = [made EXCEPT ![l] = made[l] + 1]
      /\ rows' = [rows EXCEPT ![l] = {r \in rows[l] : r.id # id} \cup {row}]
      /\ overlapped' = IF Crosses(p, l) THEN overlapped \cup {l} ELSE overlapped
      /\ UNCHANGED <<app, task>>
      /\ work[p].pc = "write"
  BY DEF Write
<1>3. /\ Alone(p)
      /\ work'[p].pc \in {"idle", "letter", "again"} /\ work'[p].found = NoRow
  <2>1. PICK w : w \in {Idle, Start(l, "letter"), Without("again")} /\ work' = [work EXCEPT ![p] = w]
    BY DEF Write
  <2>2. w.pc \in {"idle", "letter", "again"} /\ w.found = NoRow
    BY <2>1 DEF Idle, Start, Without, At
  <2>3. QED  BY <2>1, <2>2, <1>t DEF Alone
<1>4. id \in Nat /\ 0 < id /\ id <= made[l] + 1
  <2>1. work[p].found <= made[l]
    BY <1>1 DEF IInv, RowsInv
  <2>2. QED  BY <2>1, <1>1 DEF NoRow
<1>5. row.id = id /\ row.version = made[l] + 1
  OBVIOUS
<1> HIDE DEF l, id, row
<1>6. /\ rows'[l] = {r \in rows[l] : r.id # id} \cup {row}
      /\ made'[l] = made[l] + 1
      /\ \A m \in Listing \ {l} : rows'[m] = rows[m] /\ made'[m] = made[m]
  BY <1>1, <1>2, <1>t
<1>7. \A m \in Listing : rows[m] # {} => rows'[m] # {}
  BY <1>6
<1>8. RowsInv'
  <2>1. ASSUME NEW m \in Listing
        PROVE  /\ \A r \in rows'[m] : 0 < r.id /\ r.id <= made'[m] /\ r.version <= made'[m]
               /\ \A r, s \in rows'[m] : r.id = s.id \/ r.version = s.version => r = s
               /\ rows'[m] # {} => \E r \in rows'[m] : r.version = made'[m]
    <3>0. /\ \A r \in rows[m] : 0 < r.id /\ r.id <= made[m] /\ r.version <= made[m]
          /\ \A r, s \in rows[m] : r.id = s.id \/ r.version = s.version => r = s
          /\ rows[m] # {} => \E r \in rows[m] : r.version = made[m]
      BY DEF IInv, RowsInv
    <3>1. CASE m # l
      BY <3>0, <3>1, <1>6
    <3>2. CASE m = l
      <4>1. \A r \in rows[l] : r.id \in Nat /\ r.version \in Nat
        BY <1>1, <1>t DEF Row
      <4>2. \A r \in rows[l] : r.version # made[l] + 1 /\ r.id <= made[l] + 1 /\ r.version <= made[l] + 1
        BY <3>0, <3>2, <4>1, <1>1
      <4>3. \A r \in rows'[m] : 0 < r.id /\ r.id <= made'[m] /\ r.version <= made'[m]
        BY <3>0, <3>2, <4>2, <1>1, <1>4, <1>5, <1>6
      <4>4. \A r, s \in rows'[m] : r.id = s.id \/ r.version = s.version => r = s
        BY <3>0, <3>2, <4>2, <1>5, <1>6
      <4>5. QED  BY <3>2, <4>3, <4>4, <1>5, <1>6
    <3>3. QED  BY <3>1, <3>2
  <2>2. ASSUME NEW m \in Listing, NEW q \in Writer, work'[q].l = m  PROVE work'[q].found <= made'[m]
    <3>1. made[m] \in Nat /\ made[m] <= made'[m]
      BY <1>1, <1>6, <1>t
    <3>2. CASE q = p
      BY <3>1, <3>2, <1>1, <1>3, <1>6 DEF NoRow
    <3>3. CASE q # p
      <4>1. work'[q] = work[q] /\ work[q].found \in Nat
        BY <3>3, <1>3, <1>t DEF Alone, Work
      <4>2. work[q].found <= made[m]
        BY <4>1, <2>2 DEF IInv, RowsInv
      <4>3. QED  BY <3>1, <4>1, <4>2, <1>1, <1>6
    <3>4. QED  BY <3>2, <3>3
  <2>3. QED  BY <2>1, <2>2 DEF RowsInv
<1>9. \A q \in Writer : work'[q].pc \in JobStep => q # p /\ work'[q] = work[q]
  BY <1>3 DEF Alone, JobStep
<1>10. HoldInv'
  <2>1. \A q \in Writer : work[q].pc \in JobStep => work[q].l \in Listing
    BY Steps DEF IInv, ResumeTypeOK, Work
  <2>2. QED  BY <1>2, <1>7, <1>9, <2>1 DEF IInv, HoldInv, NativeBoard, HasResume
<1>11. ArchiveInv'
  <2>1. ASSUME NEW q \in Writer  PROVE Sending(q)'
    <3>1. SUFFICES ASSUME work'[q].pc \in {"send", "recordRead", "record"}, work'[q].l \notin overlapped'
                   PROVE  Sending(q)'
      BY DEF Sending
    <3>2. q # p /\ work'[q] = work[q] /\ work[q].pc \in JobStep
      BY <3>1, <1>9 DEF JobStep
    <3>3. work[q].l \notin overlapped /\ q \in Executor /\ work[q].l \in Listing
      BY <3>1, <3>2, <1>2, Steps DEF IInv, HoldInv, ResumeTypeOK, Work
    <3>4. work[q].l # l
      BY <3>1, <3>2, <3>3, <1>2 DEF Crosses
    <3>5. Sending(q)
      BY DEF IInv, ArchiveInv
    <3>6. rows'[work[q].l] = rows[work[q].l] /\ made'[work[q].l] = made[work[q].l]
      BY <3>3, <3>4, <1>6
    <3>7. QED  BY <3>2, <3>3, <3>5, <3>6 DEF Sending, NativeBoard
  <2>2. ASSUME NEW q \in Writer  PROVE Sparing(q)'
    <3>1. CASE q = p
      BY <3>1, <1>3 DEF Sparing
    <3>2. CASE q # p
      <4>1. work'[q] = work[q] /\ Sparing(q)
        BY <3>2, <1>3 DEF Alone, IInv, ArchiveInv
      <4>2. QED  BY <4>1, <1>2 DEF Sparing
    <3>3. QED  BY <3>1, <3>2
  <2>3. ASSUME NEW m \in Listing  PROVE Kept(m)'
    <3>1. Kept(m) /\ app' = app /\ (m \notin overlapped' => m \notin overlapped)
      BY <1>2 DEF IInv, ArchiveInv
    <3>2. CASE m # l
      <4>1. rows'[m] = rows[m]
        BY <3>2, <1>6
      <4>2. QED  BY <3>1, <4>1 DEF Kept, NativeBoard
    <3>3. CASE m = l
      <4>1. ASSUME m \notin overlapped', app[m].made, ~NativeBoard(m)
            PROVE  \E r \in rows'[m] : r.id = app[m].row /\ r.version = app[m].sent
        <5>1. ~Crosses(p, l)
          BY <3>3, <4>1, <1>2
        <5>2. work[p].knew
          BY <3>3, <4>1, <5>1 DEF Crosses
        <5>3. work[p].found = NoRow \/ work[p].found # app[m].row
          <6>1. Sparing(p)
            BY DEF IInv, ArchiveInv
          <6>2. QED  BY <3>3, <5>2, <6>1, <1>2 DEF Sparing, l
        <5>4. PICK r \in rows[m] : r.id = app[m].row /\ r.version = app[m].sent
          BY <3>1, <4>1 DEF Kept
        <5>5. r.id <= made[m] /\ r.id \in Nat
          BY <1>t DEF IInv, RowsInv, Row
        <5>6. id # app[m].row
          BY <3>3, <5>3, <5>4, <5>5, <1>1 DEF id
        <5>7. r \in rows'[m]
          BY <3>3, <5>4, <5>6, <1>6
        <5>8. QED  BY <5>4, <5>7
      <4>2. QED  BY <3>1, <4>1 DEF Kept, NativeBoard
    <3>4. QED  BY <3>2, <3>3
  <2>4. QED  BY <2>1, <2>2, <2>3 DEF ArchiveInv
<1>12. QED  BY <1>8, <1>10, <1>11 DEF IInv

\* The archive check, the claim of a job and the steps on a board touch neither rows
\* nor, but for the result, applications: what they change is one writer.
LEMMA CheckStep ==
    ASSUME IInv, ResumeTypeOK', NEW p \in Writer, CheckArchived(p)
    PROVE  IInv'
<1> DEFINE l == work[p].l
           f == IF Archived(l, work[p].found) THEN NoRow ELSE work[p].found
<1>t. work \in [Writer -> Work] /\ made \in [Listing -> Nat] /\ app \in [Listing -> Application]
  BY DEF IInv, ResumeTypeOK
<1>1. /\ work' = [work EXCEPT ![p].pc = "write", ![p].knew = app[l].made, ![p].found = f]
      /\ UNCHANGED <<rows, task, app, made, overlapped>> /\ work[p].pc = "check"
  BY DEF CheckArchived
<1> HIDE DEF f
<1>2. /\ Alone(p) /\ work'[p].pc = "write" /\ work'[p].l = l /\ work'[p].found = f
      /\ work'[p].knew = app[l].made
  BY <1>1, <1>t DEF Alone, Work
<1>3. RowsInv'
  <2>1. ASSUME NEW m \in Listing, NEW q \in Writer, work'[q].l = m  PROVE work'[q].found <= made[m]
    <3>0. \A z \in Writer : work[z].l = m => work[z].found <= made[m]
      BY DEF IInv, RowsInv
    <3>1. CASE q # p
      BY <2>1, <3>0, <3>1, <1>2 DEF Alone
    <3>2. CASE q = p
      BY <2>1, <3>0, <3>2, <1>2, <1>t DEF f, NoRow
    <3>3. QED  BY <3>1, <3>2
  <2>2. QED  BY <2>1, <1>1 DEF IInv, RowsInv
<1>4. \A q \in Writer : work'[q].pc \in JobStep => q # p /\ work'[q] = work[q]
  BY <1>2 DEF Alone, JobStep
<1>5. HoldInv'
  <2>1. ASSUME NEW q \in Writer, work'[q].pc \in JobStep
        PROVE  /\ q \in Executor /\ task'[work'[q].l].status = "leased"
               /\ NativeBoard(work'[q].l) \/ rows'[work'[q].l] # {}
               /\ \A z \in Writer : work'[z].pc \in JobStep /\ work'[z].l = work'[q].l => q = z
    BY <2>1, <1>1, <1>4 DEF IInv, HoldInv, HasResume
  <2>2. QED  BY <2>1, <1>1 DEF IInv, HoldInv, NativeBoard, HasResume
<1>6. ArchiveInv'
  <2>1. ASSUME NEW q \in Writer  PROVE Sending(q)' /\ Sparing(q)'
    <3>1. CASE q = p
      <4>1. f = NoRow \/ (app[l].made => f # app[l].row)
        BY DEF f, Archived
      <4>2. QED  BY <3>1, <4>1, <1>1, <1>2 DEF Sending, Sparing
    <3>2. CASE q # p
      <4>1. work'[q] = work[q] /\ Sending(q) /\ Sparing(q)
        BY <3>2, <1>2 DEF Alone, IInv, ArchiveInv
      <4>2. QED  BY <4>1, <1>1 DEF Sending, Sparing, NativeBoard
    <3>3. QED  BY <3>1, <3>2
  <2>2. QED  BY <2>1, <1>1 DEF IInv, ArchiveInv, Kept, NativeBoard
<1>7. QED  BY <1>3, <1>5, <1>6 DEF IInv

LEMMA ClaimStep ==
    ASSUME IInv, ResumeTypeOK', NEW e \in Executor, Claim(e), Ready # {}
    PROVE  IInv'
<1> DEFINE l == NewestOf(Ready)
<1>t. /\ work \in [Writer -> Work] /\ task \in [Listing -> Task] /\ made \in [Listing -> Nat]
      /\ e \in Writer
  BY DEF IInv, ResumeTypeOK, Writer
<1>1. l \in Ready /\ l \in Listing
  BY NewestIsOne DEF Ready
<1>2. /\ work' = [work EXCEPT ![e] = Start(l, "load")] /\ task' = [task EXCEPT ![l].status = "leased"]
      /\ UNCHANGED <<rows, app, made, overlapped>>
  BY DEF Claim
<1> HIDE DEF l
<1>3. task[l].status = "pending" /\ (NativeBoard(l) \/ HasResume(l))
  BY <1>1 DEF Ready, Due
<1>4. Alone(e) /\ work'[e].pc = "load" /\ work'[e].l = l /\ work'[e].found = NoRow
  BY <1>2, <1>t DEF Alone, Start, At
<1>5. \A m \in Listing : task'[m].status = IF m = l THEN "leased" ELSE task[m].status
  BY <1>1, <1>2, <1>t DEF Task
<1>6. RowsInv'
  BY <1>2, <1>4, <1>t DEF IInv, RowsInv, Alone, NoRow
<1>7. HoldInv'
  <2>1. ASSUME NEW q \in Writer, work'[q].pc \in JobStep
        PROVE  /\ q \in Executor /\ task'[work'[q].l].status = "leased"
               /\ NativeBoard(work'[q].l) \/ rows[work'[q].l] # {}
               /\ \A z \in Writer : work'[z].pc \in JobStep /\ work'[z].l = work'[q].l => q = z
    <3>0. \A z \in Writer : z # e /\ work'[z].pc \in JobStep =>
             /\ z \in Executor /\ work'[z] = work[z] /\ task[work[z].l].status = "leased" /\ work[z].l # l
             /\ NativeBoard(work[z].l) \/ HasResume(work[z].l)
      BY <1>3, <1>4 DEF Alone, IInv, HoldInv
    <3>1. CASE q = e
      BY <3>0, <3>1, <1>1, <1>3, <1>4, <1>5 DEF HasResume
    <3>2. CASE q # e
      <4>1. work[q].l \in Listing
        BY <3>0, <3>2, <2>1, Steps DEF IInv, ResumeTypeOK, Work
      <4>2. \A z \in Writer : work'[z].pc \in JobStep /\ work'[z].l = work'[q].l => q = z
        <5>1. \A z \in Writer : work[z].pc \in JobStep /\ work[z].l = work[q].l => q = z
          BY <2>1, <3>0, <3>2 DEF IInv, HoldInv
        <5>2. QED  BY <2>1, <3>0, <3>2, <5>1, <1>4
      <4>3. QED  BY <2>1, <3>0, <3>2, <4>1, <4>2, <1>5 DEF HasResume
    <3>3. QED  BY <3>1, <3>2
  <2>2. ASSUME NEW m \in Listing, app'[m].made  PROVE task'[m].status \in {"done", "failed"}
    BY <2>2, <1>2, <1>3, <1>5 DEF IInv, HoldInv
  <2>3. QED  BY <2>1, <2>2, <1>2 DEF HoldInv, NativeBoard, HasResume
<1>8. ArchiveInv'
  <2>1. ASSUME NEW q \in Writer  PROVE Sending(q)' /\ Sparing(q)'
    <3>1. CASE q = e
      BY <3>1, <1>4 DEF Sending, Sparing
    <3>2. CASE q # e
      <4>1. work'[q] = work[q] /\ Sending(q) /\ Sparing(q)
        BY <3>2, <1>4 DEF Alone, IInv, ArchiveInv
      <4>2. QED  BY <4>1, <1>2 DEF Sending, Sparing, NativeBoard
    <3>3. QED  BY <3>1, <3>2
  <2>2. QED  BY <2>1, <1>2 DEF IInv, ArchiveInv, Kept, NativeBoard
<1>9. QED  BY <1>6, <1>7, <1>8 DEF IInv

\* A step on a board keeps the job.
LEMMA BoardStep ==
    ASSUME IInv, ResumeTypeOK', NEW e \in Executor, Load(e) \/ Send(e) \/ RecordRead(e)
    PROVE  IInv'
<1> DEFINE l == work[e].l
<1>t. /\ work \in [Writer -> Work] /\ made \in [Listing -> Nat] /\ e \in Writer
  BY DEF IInv, ResumeTypeOK, Writer
<1>1. UNCHANGED <<rows, task, app, made, overlapped>> /\ work[e].pc \in JobStep
  BY DEF Load, Send, RecordRead, JobStep
<1>2. /\ Alone(e) /\ work'[e].pc \in {"send", "recordRead", "record"} /\ work'[e].l = l
      /\ work'[e].found = work[e].found
  <2>1. CASE Load(e)
    BY <2>1, <1>t DEF Load, Alone, Work
  <2>2. CASE Send(e)
    BY <2>2, <1>t DEF Send, Go, Alone, Work
  <2>3. CASE RecordRead(e)
    BY <2>3, <1>t DEF RecordRead, Alone, Work
  <2>4. QED  BY <2>1, <2>2, <2>3
<1>3. l \in Listing /\ (NativeBoard(l) \/ HasResume(l))
  BY <1>1, <1>t, Steps DEF IInv, HoldInv, ResumeTypeOK, Work
<1>4. RowsInv'
  BY <1>1, <1>2 DEF IInv, RowsInv, Alone
<1>5. HoldInv'
  <2>1. \A q \in Writer : /\ work'[q].l = work[q].l
                          /\ work'[q].pc \in JobStep => work[q].pc \in JobStep
    BY <1>1, <1>2 DEF Alone
  <2>2. ASSUME NEW q \in Writer, work'[q].pc \in JobStep
        PROVE  /\ q \in Executor /\ task'[work'[q].l].status = "leased"
               /\ NativeBoard(work'[q].l) \/ rows'[work'[q].l] # {}
               /\ \A z \in Writer : work'[z].pc \in JobStep /\ work'[z].l = work'[q].l => q = z
    BY <2>1, <2>2, <1>1 DEF IInv, HoldInv, HasResume
  <2>3. QED  BY <2>2, <1>1 DEF IInv, HoldInv, NativeBoard, HasResume
<1>6. ArchiveInv'
  <2>1. ASSUME NEW q \in Writer \ {e}  PROVE Sending(q)' /\ Sparing(q)'
    <3>1. work'[q] = work[q] /\ Sending(q) /\ Sparing(q)
      BY <1>2 DEF Alone, IInv, ArchiveInv
    <3>2. QED  BY <3>1, <1>1 DEF Sending, Sparing, NativeBoard
  <2>2. Sparing(e)'
    BY <1>2 DEF Sparing
  <2>3. Sending(e)'
    <3>1. Sending(e) /\ RowsInv /\ ResumeTypeOK
      BY <1>t DEF IInv, ArchiveInv
    <3>2. CASE Load(e)
      <4>1. /\ work'[e].pc = "send"
            /\ work'[e].version = IF NativeBoard(l) THEN 0 ELSE Newest(l).version
        BY <3>2, <1>t DEF Load, Work
      <4>2. ~NativeBoard(l) => Newest(l).version = made[l]
        BY <3>1, <1>3, NewestIsRow
      <4>3. QED  BY <4>1, <4>2, <1>1, <1>2 DEF Sending, NativeBoard
    <3>3. CASE Send(e)
      <4>1. work'[e].pc = "recordRead" /\ work'[e].version = work[e].version /\ work[e].pc = "send"
        BY <3>3, <1>t DEF Send, Go, Work
      <4>2. QED  BY <3>1, <4>1, <1>1, <1>2 DEF Sending, NativeBoard
    <3>4. CASE RecordRead(e)
      <4>1. /\ work'[e].pc = "record" /\ work'[e].version = work[e].version
            /\ work'[e].row = SentRow(l) /\ work[e].pc = "recordRead"
        BY <3>4, <1>t DEF RecordRead, Work
      <4>2. CASE NativeBoard(l)
        BY <4>1, <4>2, <1>1, <1>2 DEF Sending, NativeBoard, SentRow
      <4>3. CASE ~NativeBoard(l)
        <5>1. SentRow(l) = Newest(l).id /\ Newest(l) \in rows[l] /\ Newest(l).version = made[l]
          BY <3>1, <4>3, <1>3, NewestIsRow DEF SentRow
        <5>2. QED  BY <3>1, <4>1, <4>3, <5>1, <1>1, <1>2 DEF Sending, NativeBoard
      <4>4. QED  BY <4>2, <4>3
    <3>5. QED  BY <3>2, <3>3, <3>4
  <2>4. QED  BY <2>1, <2>2, <2>3, <1>1 DEF IInv, ArchiveInv, Kept, NativeBoard
<1>7. QED  BY <1>4, <1>5, <1>6 DEF IInv

\* A result is recorded once, with the row of the version that was sent.
LEMMA RecordStep ==
    ASSUME IInv, ResumeTypeOK', NEW e \in Executor, Record(e)
    PROVE  IInv'
<1> DEFINE l == work[e].l
           r == IF work[e].row = NoRow THEN app[l].row ELSE work[e].row
<1>t. /\ work \in [Writer -> Work] /\ task \in [Listing -> Task] /\ made \in [Listing -> Nat]
      /\ app \in [Listing -> Application] /\ e \in Writer
  BY DEF IInv, ResumeTypeOK, Writer
<1>1. work[e].pc = "record" /\ work[e].pc \in JobStep /\ l \in Listing
  <2>1. work[e].pc = "record" /\ work[e].pc \in JobStep
    BY DEF Record, JobStep
  <2>2. QED  BY <2>1, <1>t, Steps DEF IInv, ResumeTypeOK, Work
<1>2. /\ app' = [app EXCEPT ![l] = [made |-> TRUE, sent |-> work[e].version, row |-> r]]
      /\ \E status \in {"done", "failed"} : task' = [task EXCEPT ![l].status = status]
      /\ work' = [work EXCEPT ![e] = Idle]
      /\ UNCHANGED <<rows, made, overlapped>>
  BY <1>1, <1>t DEF Record
<1> HIDE DEF r
<1>3. Alone(e) /\ work'[e].pc = "idle" /\ work'[e].found = NoRow
  BY <1>2, <1>t, BeginType DEF Alone, Idle, Without, At
<1>4. /\ app'[l].made /\ app'[l].sent = work[e].version /\ app'[l].row = r
      /\ \A m \in Listing \ {l} : app'[m] = app[m] /\ task'[m] = task[m]
      /\ task'[l].status \in {"done", "failed"}
  BY <1>1, <1>2, <1>t DEF Task
<1>5. /\ ~app[l].made
      /\ \A q \in Writer : work[q].pc \in JobStep /\ work[q].l = l => q = e
  BY <1>1, <1>t DEF IInv, HoldInv
<1>6. RowsInv'
  BY <1>2, <1>3, <1>t DEF IInv, RowsInv, Alone, NoRow
<1>7. \A q \in Writer : work'[q].pc \in JobStep => q # e /\ work'[q] = work[q] /\ work[q].l \in Listing \ {l}
  BY <1>3, <1>5, Steps DEF Alone, JobStep, IInv, ResumeTypeOK, Work
<1>8. HoldInv'
  <2>1. ASSUME NEW m \in Listing, app'[m].made  PROVE task'[m].status \in {"done", "failed"}
    BY <2>1, <1>4 DEF IInv, HoldInv
  <2>2. QED  BY <2>1, <1>2, <1>4, <1>7 DEF IInv, HoldInv, NativeBoard, HasResume
<1>9. ArchiveInv'
  <2>1. ASSUME NEW q \in Writer  PROVE Sending(q)'
    <3>1. CASE q = e
      BY <3>1, <1>3 DEF Sending
    <3>2. CASE q # e
      <4>1. work'[q] = work[q] /\ Sending(q)
        BY <3>2, <1>3 DEF Alone, IInv, ArchiveInv
      <4>2. QED  BY <4>1, <1>2 DEF Sending, NativeBoard
    <3>3. QED  BY <3>1, <3>2
  <2>2. ASSUME NEW q \in Writer  PROVE Sparing(q)'
    <3>1. CASE q = e
      BY <3>1, <1>3 DEF Sparing
    <3>2. CASE q # e
      <4>1. work'[q] = work[q] /\ Sparing(q)
        BY <3>2, <1>3 DEF Alone, IInv, ArchiveInv
      <4>2. CASE work[q].pc = "write" /\ work[q].knew
        <5>1. work[q].l \in Listing \ {l}
          <6>1. app[work[q].l].made
            BY <4>1, <4>2 DEF Sparing
          <6>2. work[q].l \in Listing
            BY <4>2 DEF IInv, ResumeTypeOK, Work, NotWorking
          <6>3. QED  BY <6>1, <6>2, <1>5
        <5>2. QED  BY <4>1, <5>1, <1>4 DEF Sparing
      <4>3. QED  BY <4>1, <4>2 DEF Sparing
    <3>3. QED  BY <3>1, <3>2
  <2>3. ASSUME NEW m \in Listing  PROVE Kept(m)'
    <3>1. Kept(m)
      BY DEF IInv, ArchiveInv
    <3>2. CASE m # l
      BY <3>1, <3>2, <1>2, <1>4 DEF Kept, NativeBoard
    <3>3. CASE m = l
      <4>1. Sending(e) /\ app[l].row = NoRow
        BY <3>1, <3>3, <1>5, <1>t DEF IInv, ArchiveInv, Kept
      <4>2. CASE l \in overlapped
        BY <3>3, <4>2, <1>2, <1>4 DEF Kept
      <4>3. CASE l \notin overlapped /\ NativeBoard(l)
        <5>1. r = NoRow
          BY <4>1, <4>3, <1>1 DEF Sending, r
        <5>2. QED  BY <3>3, <4>3, <5>1, <1>4 DEF Kept, NativeBoard
      <4>4. CASE l \notin overlapped /\ ~NativeBoard(l)
        <5>1. PICK s \in rows[l] : s.id = work[e].row /\ s.version = work[e].version
          BY <4>1, <4>4, <1>1 DEF Sending
        <5>2. s.id # NoRow
          BY <1>1 DEF IInv, RowsInv, NoRow
        <5>3. r = s.id
          BY <5>1, <5>2 DEF r
        <5>4. QED  BY <3>3, <4>4, <5>1, <5>3, <1>2, <1>4 DEF Kept, NativeBoard
      <4>5. QED  BY <4>2, <4>3, <4>4
    <3>4. QED  BY <3>2, <3>3
  <2>4. QED  BY <2>1, <2>2, <2>3 DEF ArchiveInv
<1>10. QED  BY <1>6, <1>8, <1>9 DEF IInv

\* A step of a generation, and of the claim before it, that writes nothing: where the
\* writer is now is not on a job, and a row it has found is still its listing's.
LEMMA GenerateStep ==
    ASSUME IInv, ResumeTypeOK', NEW p \in Writer,
           \/ Prepare(p) \/ Extract(p) \/ Tailor(p) \/ Repair(p) \/ Settle(p) \/ CallFails(p)
           \/ FindExisting(p) \/ WriteLetter(p) \/ Fail(p)
           \/ Claim(p) /\ Ready = {}
           \/ \E l \in Listing : AskByHand(p, l)
    PROVE  IInv'
<1>t. /\ work \in [Writer -> Work] /\ task \in [Listing -> Task] /\ made \in [Listing -> Nat]
  BY DEF IInv, ResumeTypeOK
<1>n. "idle" \in NotWorking /\ "prepare" \in NotWorking /\ "again" \in NotWorking /\ "write" \notin NotWorking
  BY DEF NotWorking
<1>1. UNCHANGED <<rows, made, app, overlapped>>
  BY DEF Prepare, Extract, Tailor, Repair, Settle, CallFails, FindExisting, WriteLetter, Fail, Claim, AskByHand
<1>2. \A l \in Listing : task'[l].status = task[l].status
  <2>1. CASE Fail(p)
    <3>1. task' = task \/ task' = [task EXCEPT ![work[p].l].delay = DelayAfterFailure(work[p].l)]
      BY <2>1 DEF Fail
    <3>2. QED  BY <3>1, <1>t DEF Task
  <2>2. CASE ~Fail(p)
    BY <2>2 DEF Prepare, Extract, Tailor, Repair, Settle, CallFails, FindExisting, WriteLetter, Claim, AskByHand
  <2>3. QED  BY <2>1, <2>2
<1>3. ASSUME NEW w, work' = [work EXCEPT ![p] = w]  PROVE Alone(p) /\ work'[p] = w
  BY <1>3, <1>t DEF Alone
<1>4. ASSUME NEW s \in NotWorking, work' = [work EXCEPT ![p] = Without(s)]
      PROVE  Alone(p) /\ work'[p].pc = s /\ work'[p].found = NoRow
  <2>1. Without(s).pc = s /\ Without(s).found = NoRow
    BY DEF Without, At
  <2>2. QED  BY <2>1, <1>3, <1>4
<1>11. ASSUME NEW l, work' = [work EXCEPT ![p] = At("extract", l, MaxRepairs)]
       PROVE  Alone(p) /\ work'[p].pc = "extract" /\ work'[p].found = NoRow
  <2>1. At("extract", l, MaxRepairs).pc = "extract" /\ At("extract", l, MaxRepairs).found = NoRow
    BY DEF At
  <2>2. QED  BY <2>1, <1>3, <1>11
<1>5. ASSUME NEW s \in Step, Go(p, s)
      PROVE  Alone(p) /\ work'[p].pc = s /\ work'[p].l = work[p].l /\ work'[p].found = work[p].found
  BY <1>5, <1>t DEF Go, Alone, Work
<1>6. ASSUME ClaimOver(p)
      PROVE  Alone(p) /\ work'[p].pc \in NotWorking /\ work'[p].found = NoRow
  <2>1. PICK s \in {"idle", "again"} : work' = [work EXCEPT ![p] = Without(s)]
    BY <1>6 DEF ClaimOver
  <2>2. Without(s).pc = s /\ Without(s).found = NoRow
    BY DEF Without, At
  <2>3. QED  BY <2>1, <2>2, <1>3 DEF NotWorking
<1>7. /\ Alone(p) /\ work'[p].pc \in (NotWorking \cup GenStep) \ {"write"}
      /\ \/ work'[p].found = NoRow
         \/ work'[p].l = work[p].l /\ work'[p].found = work[p].found
         \/ work'[p].l = work[p].l /\ work[p].l \in Listing /\ HasResume(work[p].l)
              /\ work'[p].found = Newest(work[p].l).id
  <2>1. CASE Prepare(p)
    <3> DEFINE l == NewestOf({m \in Listing : Due(m) /\ BoardOf[m] \in PreparedBoards})
    <3>1. ClaimOver(p) \/ \E w \in {Without("again"), At("extract", l, MaxRepairs)} : work' = [work EXCEPT ![p] = w]
      BY <2>1 DEF Prepare
    <3> HIDE DEF l
    <3>2. CASE ClaimOver(p)
      BY <3>2, <1>6, Steps DEF NotWorking
    <3>3. CASE \E w \in {Without("again"), At("extract", l, MaxRepairs)} : work' = [work EXCEPT ![p] = w]
      <4>1. CASE work' = [work EXCEPT ![p] = Without("again")]
        BY <4>1, <1>4 DEF NotWorking, GenStep
      <4>2. CASE work' = [work EXCEPT ![p] = At("extract", l, MaxRepairs)]
        BY <4>2, <1>11 DEF GenStep
      <4>3. QED  BY <3>3, <4>1, <4>2
    <3>4. QED  BY <3>1, <3>2, <3>3
  <2>2. CASE Extract(p) \/ Tailor(p) \/ Repair(p) \/ Settle(p) \/ CallFails(p)
    <3>1. CASE \E s \in GenStep \ {"write"} : Go(p, s)
      <4>1. PICK s \in GenStep \ {"write"} : Go(p, s)
        BY <3>1
      <4>2. QED  BY <4>1, <1>5 DEF Step
    <3>2. CASE \E s \in {"tailor", "repair"}, k \in Nat : Onward(p, s, k)
      <4>1. PICK s \in {"tailor", "repair"}, k \in Nat : Onward(p, s, k)
        BY <3>2
      <4>2. s \in GenStep \ {"write"}
        BY DEF GenStep
      <4>3. QED  BY <4>1, <4>2, <1>t DEF Onward, Alone, Work
    <3>3. WorkOK
      BY DEF IInv, ResumeTypeOK, WorkOK
    <3>4. \/ \E s \in GenStep \ {"write"} : Go(p, s)
          \/ \E s \in {"tailor", "repair"}, k \in Nat : Onward(p, s, k)
      BY <2>2, <3>3, CallSteps, GoesOnward DEF GenStep
    <3>5. QED  BY <3>1, <3>2, <3>4
  <2>4. CASE FindExisting(p)
    <3> DEFINE f == IF HasResume(work[p].l) THEN Newest(work[p].l).id ELSE NoRow
    <3>1. work' = [work EXCEPT ![p].pc = "check", ![p].found = f] /\ work[p].pc = "find"
      BY <2>4 DEF FindExisting
    <3>2. f = NoRow \/ (HasResume(work[p].l) /\ f = Newest(work[p].l).id)
      OBVIOUS
    <3>3. work[p].l \in Listing
      BY <3>1, <1>t DEF IInv, ResumeTypeOK, Work, NotWorking
    <3> HIDE DEF f
    <3>4. Alone(p) /\ work'[p].pc = "check" /\ work'[p].l = work[p].l /\ work'[p].found = f
      BY <3>1, <1>t DEF Alone, Work
    <3>5. QED  BY <3>2, <3>3, <3>4 DEF GenStep
  <2>5. CASE WriteLetter(p)
    <3>1. work' = [work EXCEPT ![p] = Without("again")]
      BY <2>5 DEF WriteLetter
    <3>2. QED  BY <3>1, <1>4, <1>n DEF GenStep
  <2>6. CASE Fail(p)
    <3>1. ClaimOver(p) \/ work' = [work EXCEPT ![p] = Idle]
      BY <2>6 DEF Fail
    <3>2. CASE ClaimOver(p)
      BY <3>2, <1>6, Steps DEF NotWorking
    <3>3. CASE work' = [work EXCEPT ![p] = Idle]
      BY <3>3, <1>4, <1>n DEF Idle, GenStep
    <3>4. QED  BY <3>1, <3>2, <3>3
  <2>7. CASE Claim(p) /\ Ready = {}
    <3>1. PICK s \in {"prepare", "idle"} : work' = [work EXCEPT ![p] = Without(s)]
      BY <2>7 DEF Claim, Idle
    <3>2. QED  BY <3>1, <1>4, <1>n DEF GenStep
  <2>8. CASE \E l \in Listing : AskByHand(p, l)
    <3>1. PICK l \in Listing : work' = [work EXCEPT ![p] = At("extract", l, MaxRepairs)]
      BY <2>8 DEF AskByHand
    <3>2. QED  BY <3>1, <1>11 DEF GenStep
  <2>9. QED  BY <2>1, <2>2, <2>4, <2>5, <2>6, <2>7, <2>8
<1>8. work'[p].l \in Listing => work'[p].found <= made[work'[p].l]
  <2>1. \A l \in Listing : HasResume(l) => Newest(l).id <= made[l]
    BY NewestIsRow DEF IInv
  <2>2. QED  BY <2>1, <1>7, <1>t DEF IInv, RowsInv, NoRow
<1>9. work'[p].pc \notin JobStep /\ work'[p].pc # "write"
  BY <1>7, Steps
<1>10. QED  BY <1>1, <1>2, <1>7, <1>8, <1>9, Aside

LEMMA DieStep ==
    ASSUME IInv, ResumeTypeOK', NEW p \in Writer, Die(p)
    PROVE  IInv'
<1>t. /\ work \in [Writer -> Work] /\ task \in [Listing -> Task] /\ made \in [Listing -> Nat]
  BY DEF IInv, ResumeTypeOK
<1>1. Alone(p) /\ work'[p].pc = "idle" /\ work'[p].found = NoRow
  BY <1>t DEF Die, Alone, Idle, Without, At
<1>2. \A l \in Listing : task'[l].status = task[l].status
                         \/ (work[p].pc \in JobStep /\ l = work[p].l)
  BY <1>t DEF Die
<1>3. QED  BY <1>1, <1>2, <1>t, Aside DEF Die, JobStep, NoRow

LEMMA TimeStep ==
    ASSUME IInv, ResumeTypeOK', Tick \/ NewMonth \/ UNCHANGED vars
    PROVE  IInv'
<1>t. task \in [Listing -> Task]
  BY DEF IInv, ResumeTypeOK
<1>1. \A l \in Listing : task'[l].status = task[l].status
  BY <1>t DEF Tick, NewMonth, vars, Task
<1>2. QED  BY <1>1, Aloof DEF Tick, NewMonth, vars

LEMMA IInvStep ==
    ASSUME IInv, [Next]_vars
    PROVE  IInv'
<1>1. ResumeTypeOK'
  BY TypeStep DEF IInv
<1>2. ASSUME NEW p \in Writer, Generate(p)  PROVE IInv'
  BY <1>1, <1>2, GenerateStep, CheckStep, WriteStep DEF Generate
<1>3. ASSUME NEW e \in Executor, Execute(e)  PROVE IInv'
  <2>1. e \in Writer
    BY DEF Writer
  <2>2. CASE Claim(e)
    BY <2>1, <2>2, <1>1, ClaimStep, GenerateStep
  <2>3. CASE Prepare(e) \/ WriteLetter(e)
    BY <2>1, <2>3, <1>1, GenerateStep
  <2>4. CASE Generate(e)
    BY <2>1, <2>4, <1>2
  <2>5. CASE Load(e) \/ Send(e) \/ RecordRead(e)
    BY <2>5, <1>1, BoardStep
  <2>6. CASE Record(e)
    BY <2>6, <1>1, RecordStep
  <2>7. QED  BY <1>3, <2>2, <2>3, <2>4, <2>5, <2>6 DEF Execute
<1>4. ASSUME NEW d \in Dashboard, Generate(d) \/ \E l \in Listing : AskByHand(d, l)  PROVE IInv'
  <2>1. d \in Writer
    BY DEF Writer
  <2>2. QED  BY <2>1, <1>1, <1>2, <1>4, GenerateStep
<1>5. ASSUME NEW p \in Writer, Die(p)  PROVE IInv'
  BY <1>1, <1>5, DieStep
<1>6. ASSUME Tick \/ NewMonth \/ UNCHANGED vars  PROVE IInv'
  BY <1>1, <1>6, TimeStep
<1>7. QED  BY <1>3, <1>4, <1>5, <1>6 DEF Next

LEMMA IInvAlways == Spec => []IInv
<1>1. Init => IInv
  BY IInvInit
<1>2. IInv /\ [Next]_vars => IInv'
  BY IInvStep
<1>3. QED  BY <1>1, <1>2, PTL DEF Spec

\* The variables keep their types (see TailoredResume).
THEOREM ResumeTypeCorrect == Spec => []ResumeTypeOK
<1>1. IInv => ResumeTypeOK
  BY DEF IInv
<1>2. QED  BY <1>1, IInvAlways, PTL

\* The resume an application points to has the version that was sent, unless a version
\* was written while the submission was under way.
THEOREM ArchiveAlways == Spec => []ArchiveIsWhatWasSent
<1>1. IInv => ArchiveIsWhatWasSent
  <2>1. ASSUME IInv, NEW l \in Listing \ overlapped, app[l].made, ~NativeBoard(l)
        PROVE  VersionOf(l, app[l].row) = app[l].sent
    <3>1. PICK r \in rows[l] : r.id = app[l].row /\ r.version = app[l].sent
      BY <2>1 DEF IInv, ArchiveInv, Kept
    <3>2. \A s \in rows[l] : s.id = r.id => s = r
      BY <2>1 DEF IInv, RowsInv
    <3>3. (CHOOSE s \in rows[l] : s.id = app[l].row) = r
      BY <3>1, <3>2
    <3>4. QED  BY <3>1, <3>3 DEF VersionOf
  <2>2. ASSUME IInv, NEW l \in Listing \ overlapped, app[l].made, NativeBoard(l)
        PROVE  app[l].row = NoRow
    BY <2>2 DEF IInv, ArchiveInv, Kept
  <2>3. QED  BY <2>1, <2>2 DEF ArchiveIsWhatWasSent
<1>2. QED  BY <1>1, IInvAlways, PTL

(***************************************************************************)
(* The budget.                                                             *)
(***************************************************************************)

Calls == {"extractCall", "tailorCall", "repairCall"}

\* A step of a writer is its own, and starts a call only when there is budget left.
LEMMA CallsAreGated ==
    ASSUME ResumeTypeOK, NEW p \in Writer,
           \/ Generate(p) \/ (p \in Executor /\ Execute(p)) \/ Die(p)
           \/ \E l \in Listing : AskByHand(p, l)
    PROVE  Alone(p) /\ (work'[p].pc \in Calls => spent < Cap)
<1>t. work \in [Writer -> Work]
  BY DEF ResumeTypeOK
<1>0. ASSUME NEW w, work' = [work EXCEPT ![p] = w], w.pc \notin Calls
      PROVE  Alone(p) /\ work'[p].pc \notin Calls
  BY <1>0, <1>t DEF Alone
<1>s. ASSUME NEW s \in NotWorking, work' = [work EXCEPT ![p] = Without(s)]
      PROVE  Alone(p) /\ work'[p].pc \notin Calls
  <2>1. Without(s).pc \notin Calls
    BY DEF Without, At, NotWorking, Calls
  <2>2. QED  BY <2>1, <1>0, <1>s
<1>a. ASSUME NEW s \in {"load", "letter", "extract"}, NEW l, NEW n, work' = [work EXCEPT ![p] = At(s, l, n)]
      PROVE  Alone(p) /\ work'[p].pc \notin Calls
  <2>1. At(s, l, n).pc \notin Calls
    BY DEF At, Calls
  <2>2. QED  BY <2>1, <1>0, <1>a
<1>n. NotWorking = {"idle", "prepare", "again"} /\ Idle = Without("idle")
  BY DEF NotWorking, Idle
<1>g. ASSUME NEW s, Go(p, s)  PROVE Alone(p) /\ work'[p].pc = s
  BY <1>g, <1>t DEF Go, Alone, Work
<1>o. ASSUME ClaimOver(p)  PROVE Alone(p) /\ work'[p].pc \notin Calls
  BY <1>o, <1>s, <1>n DEF ClaimOver
<1>1. CASE Claim(p)
  <2>1. \/ work' = [work EXCEPT ![p] = At("load", NewestOf(Ready), 0)]
        \/ work' = [work EXCEPT ![p] = Without("prepare")]
        \/ work' = [work EXCEPT ![p] = Without("idle")]
    BY <1>1, <1>n DEF Claim, Start
  <2>2. QED  BY <2>1, <1>a, <1>s, <1>n
<1>2. CASE Prepare(p)
  <2> DEFINE l == NewestOf({m \in Listing : Due(m) /\ BoardOf[m] \in PreparedBoards})
  <2>1. \/ ClaimOver(p) \/ work' = [work EXCEPT ![p] = Without("again")]
        \/ work' = [work EXCEPT ![p] = At("extract", l, MaxRepairs)]
    BY <1>2 DEF Prepare
  <2> HIDE DEF l
  <2>2. QED  BY <2>1, <1>a, <1>o, <1>s, <1>n
<1>3. CASE Extract(p) \/ Tailor(p) \/ Repair(p) \/ Settle(p) \/ CallFails(p)
  <2>1. CASE \E c \in Calls : Go(p, c) /\ spent < Cap
    BY <2>1, <1>g
  <2>2. CASE \E s \in {"tailor", "find", "fail"} : Go(p, s)
    BY <2>2, <1>g DEF Calls
  <2>3. CASE \E s \in {"tailor", "repair"}, k \in Nat : Onward(p, s, k)
    <3>1. PICK s \in {"tailor", "repair"}, k \in Nat : Onward(p, s, k)
      BY <2>3
    <3>2. s \notin Calls
      BY DEF Calls
    <3>3. QED  BY <3>1, <3>2, <1>t DEF Onward, Alone, Work
  <2>4. WorkOK
    BY DEF ResumeTypeOK, WorkOK
  <2>5. \/ \E c \in Calls : Go(p, c) /\ spent < Cap
        \/ \E s \in {"tailor", "find", "fail"} : Go(p, s)
        \/ \E s \in {"tailor", "repair"}, k \in Nat : Onward(p, s, k)
    BY <1>3, <2>4, CallSteps, GoesOnward DEF Calls
  <2>6. QED  BY <2>1, <2>2, <2>3, <2>5
<1>8. CASE FindExisting(p)
  BY <1>8, <1>t DEF FindExisting, Alone, Work, Calls
<1>9. CASE CheckArchived(p)
  BY <1>9, <1>t DEF CheckArchived, Alone, Work, Calls
<1>10. CASE Write(p)
  <2>1. \/ work' = [work EXCEPT ![p] = Without("idle")]
        \/ work' = [work EXCEPT ![p] = At("letter", work[p].l, 0)]
        \/ work' = [work EXCEPT ![p] = Without("again")]
    BY <1>10, <1>n DEF Write, Start
  <2>2. QED  BY <2>1, <1>a, <1>s, <1>n
<1>11. CASE Fail(p)
  <2>1. ClaimOver(p) \/ work' = [work EXCEPT ![p] = Without("idle")]
    BY <1>11, <1>n DEF Fail
  <2>2. QED  BY <2>1, <1>o, <1>s, <1>n
<1>12. CASE WriteLetter(p)
  <2>1. work' = [work EXCEPT ![p] = Without("again")]
    BY <1>12 DEF WriteLetter
  <2>2. QED  BY <2>1, <1>s, <1>n
<1>13. CASE Load(p)
  BY <1>13, <1>t DEF Load, Alone, Work, Calls
<1>14. CASE Send(p)
  BY <1>14, <1>g DEF Send, Calls
<1>15. CASE RecordRead(p)
  BY <1>15, <1>t DEF RecordRead, Alone, Work, Calls
<1>16. CASE Record(p) \/ Die(p)
  <2>1. work' = [work EXCEPT ![p] = Without("idle")]
    BY <1>16, <1>n DEF Record, Die
  <2>2. QED  BY <2>1, <1>s, <1>n
<1>17. CASE \E l \in Listing : AskByHand(p, l)
  <2>1. PICK l \in Listing : work' = [work EXCEPT ![p] = At("extract", l, MaxRepairs)]
    BY <1>17 DEF AskByHand
  <2>2. QED  BY <2>1, <1>a
<1>18. QED
  BY <1>1, <1>2, <1>3, <1>8, <1>9, <1>10, <1>11, <1>12, <1>13, <1>14, <1>15,
     <1>16, <1>17 DEF Generate, Execute

LEMMA FlightIsFinite ==
    /\ IsFiniteSet(Writer) /\ Cardinality(Writer) \in Nat
    /\ IsFiniteSet(InFlight) /\ Cardinality(InFlight) \in Nat
    /\ Cardinality(InFlight) <= Cardinality(Writer)
<1>1. IsFiniteSet(Writer) /\ InFlight \subseteq Writer
  BY ResumeAssumption DEF InFlight
<1>2. QED  BY <1>1, FS_Subset, FS_CardinalityType

LEMMA FlightIsFiniteNext ==
    /\ IsFiniteSet(InFlight') /\ Cardinality(InFlight') \in Nat
    /\ Cardinality(InFlight') <= Cardinality(Writer)
<1>1. IsFiniteSet(Writer) /\ InFlight' \subseteq Writer
  BY ResumeAssumption DEF InFlight
<1>2. QED  BY <1>1, FS_Subset, FS_CardinalityType

LEMMA BudgetStep ==
    ASSUME ResumeTypeOK, BudgetOvershootBounded, [Next]_vars
    PROVE  BudgetOvershootBounded'
<1> DEFINE W == Cardinality(Writer)
           n == Cardinality(InFlight)
           m == Cardinality(InFlight')
<1>t. Cap \in Nat \ {0} /\ W \in Nat /\ n \in Nat /\ m \in Nat /\ m <= W /\ spent \in Nat
  BY ResumeAssumption, FlightIsFinite, FlightIsFiniteNext DEF ResumeTypeOK
<1>b. spent + n <= Cap - 1 + W
  BY DEF BudgetOvershootBounded
<1>s. ASSUME spent' + m <= Cap - 1 + W  PROVE BudgetOvershootBounded'
  BY <1>s DEF BudgetOvershootBounded
<1>1. ASSUME spent' = spent, InFlight' \subseteq InFlight  PROVE BudgetOvershootBounded'
  <2>1. m <= n
    BY <1>1, FlightIsFinite, FS_Subset
  <2> HIDE DEF W, n, m
  <2>2. QED  BY <2>1, <1>1, <1>b, <1>s, <1>t
<1>2. ASSUME NEW p \in Writer, Alone(p), work'[p].pc \in Calls => spent < Cap, spent' = spent
      PROVE  BudgetOvershootBounded'
  <2>1. CASE work'[p].pc \in Calls
    <3> HIDE DEF W, n, m
    <3>1. QED  BY <2>1, <1>2, <1>s, <1>t
  <2>2. CASE work'[p].pc \notin Calls
    <3>1. InFlight' \subseteq InFlight
      BY <2>2, <1>2 DEF InFlight, Alone, Calls
    <3>2. QED  BY <3>1, <1>1, <1>2
  <2>3. QED  BY <2>1, <2>2
<1>3. ASSUME NEW p \in Writer, Settle(p)  PROVE BudgetOvershootBounded'
  <2>1. Alone(p) /\ p \in InFlight /\ spent' = spent + 1
    BY <1>3, CallsAreGated DEF Settle, Generate
  <2>2. work'[p].pc \notin Calls
    <3>1. CASE Go(p, "fail")
      BY <3>1 DEF Go, ResumeTypeOK, Calls, Work
    <3>2. CASE GoesOn(p)
      <4>1. WorkOK
        BY DEF ResumeTypeOK, WorkOK
      <4>2. PICK s \in {"tailor", "repair"}, k \in Nat : Onward(p, s, k)
        BY <2>1, <3>2, <4>1, GoesOnward
      <4>3. s \notin Calls
        BY DEF Calls
      <4>4. QED  BY <4>2, <4>3 DEF Onward, ResumeTypeOK, Work
    <3>3. QED  BY <1>3, <3>1, <3>2 DEF Settle
  <2>3. InFlight' = InFlight \ {p}
    BY <2>1, <2>2 DEF InFlight, Alone, Calls
  <2>4. m = n - 1
    BY <2>1, <2>3, FlightIsFinite, FS_RemoveElement
  <2> HIDE DEF W, n, m
  <2>5. QED  BY <2>1, <2>4, <1>b, <1>s, <1>t
<1>4. ASSUME NEW p \in Writer, Generate(p)  PROVE BudgetOvershootBounded'
  <2>1. CASE Settle(p)
    BY <2>1, <1>3
  <2>2. CASE ~Settle(p)
    <3>1. spent' = spent
      BY <2>2, <1>4 DEF Generate, Extract, Tailor, Repair, CallFails, FindExisting, CheckArchived, Write, Fail
    <3>2. QED  BY <3>1, <1>2, <1>4, CallsAreGated
  <2>3. QED  BY <2>1, <2>2
<1>5. ASSUME NEW e \in Executor, Execute(e)  PROVE BudgetOvershootBounded'
  <2>1. e \in Writer
    BY DEF Writer
  <2>2. CASE Generate(e)
    BY <2>1, <2>2, <1>4
  <2>3. CASE ~Generate(e)
    <3>1. spent' = spent
      BY <2>3, <1>5 DEF Execute, Claim, Prepare, WriteLetter, Load, Send, RecordRead, Record
    <3>2. QED  BY <2>1, <3>1, <1>2, <1>5, CallsAreGated
  <2>4. QED  BY <2>2, <2>3
<1>6. ASSUME NEW d \in Dashboard, \E l \in Listing : AskByHand(d, l)  PROVE BudgetOvershootBounded'
  <2>1. d \in Writer /\ spent' = spent
    BY <1>6 DEF Writer, AskByHand
  <2>2. QED  BY <2>1, <1>2, <1>6, CallsAreGated
<1>7. ASSUME NEW p \in Writer, Die(p)  PROVE BudgetOvershootBounded'
  <2>1. spent' = spent
    BY <1>7 DEF Die
  <2>2. QED  BY <2>1, <1>2, <1>7, CallsAreGated
<1>8. CASE NewMonth
  <2>1. spent' = 0
    BY <1>8 DEF NewMonth
  <2> HIDE DEF W, n, m
  <2>2. QED  BY <2>1, <1>s, <1>t
<1>9. CASE Tick \/ UNCHANGED vars
  BY <1>9, <1>1 DEF Tick, vars, InFlight
<1>10. QED
  <2>1. \A d \in Dashboard : d \in Writer
    BY DEF Writer
  <2>2. QED  BY <2>1, <1>4, <1>5, <1>6, <1>7, <1>8, <1>9 DEF Next

\* The month's budget is overshot by at most one call per concurrent request.
THEOREM BudgetOvershootAlways == Spec => []BudgetOvershootBounded
<1>1. Init => BudgetOvershootBounded
  <2>1. ASSUME Init  PROVE BudgetOvershootBounded
    <3>1. spent = 0
      BY <2>1 DEF Init
    <3> DEFINE W == Cardinality(Writer)
               n == Cardinality(InFlight)
    <3>2. n <= W /\ n \in Nat /\ W \in Nat /\ Cap \in Nat \ {0}
      BY FlightIsFinite, ResumeAssumption
    <3>3. n <= Cap - 1 + W => BudgetOvershootBounded
      BY <3>1, <3>2 DEF BudgetOvershootBounded
    <3> HIDE DEF W, n
    <3>4. QED  BY <3>2, <3>3
  <2>2. QED  BY <2>1
<1>2. ResumeTypeOK /\ BudgetOvershootBounded /\ [Next]_vars => BudgetOvershootBounded'
  BY BudgetStep
<1>3. QED  BY <1>1, <1>2, ResumeTypeCorrect, PTL DEF Spec
=============================================================================
