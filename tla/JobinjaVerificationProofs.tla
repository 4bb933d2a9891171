---------------------- MODULE JobinjaVerificationProofs ----------------------
(***************************************************************************)
(* Proofs about JobinjaVerification, for any listings, scans, page sizes,  *)
(* window and bounds: what a complete scan has seen, what a negative       *)
(* answer means, and that an application and its task agree.               *)
(***************************************************************************)
EXTENDS JobinjaVerification, SequenceTheorems, TLAPS

(***************************************************************************)
(* Pages and days.                                                         *)
(***************************************************************************)

\* The pages up to the last hold every application.
LEMMA LastPageHoldsAll ==
    ASSUME NEW n \in Nat, NEW k \in Nat \ {0}, NEW p \in Nat, p >= (n + k - 1) \div k
    PROVE  n <= p * k
<1> DEFINE q == (n + k - 1) \div k
<1>1. q \in Int /\ n + k - 1 < (q + 1) * k
  OBVIOUS
<1> HIDE DEF q
<1>2. (q + 1) * k = q * k + k
  BY <1>1
<1>3. n <= q * k
  BY <1>1, <1>2
<1>4. p >= q
  BY DEF q
<1>5. q * k <= p * k
  BY <1>1, <1>4
<1>6. QED  BY <1>1, <1>3, <1>5

LEMMA DayIsMonotone ==
    ASSUME NEW t \in Nat, NEW u \in Nat, t <= u
    PROVE  Day(t) \in Nat /\ Day(t) <= Day(u) /\ Day(t) <= t
BY DEF Day

LEMMA LastPageIsOne ==
    ASSUME NEW n \in Nat \ {0}, NEW k \in Nat \ {0}
    PROVE  (n + k - 1) \div k \in Nat \ {0}
<1> DEFINE q == (n + k - 1) \div k
<1>1. q \in Int /\ n + k - 1 < (q + 1) * k /\ k <= n + k - 1
  OBVIOUS
<1> HIDE DEF q
<1>2. q <= 0 => (q + 1) * k <= k
  BY <1>1
<1>3. q > 0
  BY <1>1, <1>2
<1> QED  BY <1>1, <1>3 DEF q

LEMMA LastPageType == VerificationTypeOK => LastPage \in Nat \ {0}
<1> SUFFICES ASSUME VerificationTypeOK  PROVE LastPage \in Nat \ {0}
  OBVIOUS
<1>1. history \in Seq(Listing) /\ Len(history) \in Nat
  BY DEF VerificationTypeOK
<1>2. history # <<>> => Len(history) # 0
  BY <1>1, EmptySeq
<1>3. history # <<>> => (Len(history) + PageSize - 1) \div PageSize \in Nat \ {0}
  BY <1>1, <1>2, LastPageIsOne, VerificationAssumption
<1>4. QED  BY <1>3 DEF LastPage

(***************************************************************************)
(* Arrivals.                                                               *)
(***************************************************************************)

\* What an application that arrives does to the history.
LEMMA Arrival ==
    ASSUME VerificationTypeOK, NEW l \in Listing, l \notin Held, Arrive(l)
    PROVE  /\ history' \in Seq(Listing) /\ DOMAIN history' = 1..(Len(history) + 1)
           /\ history'[1] = l
           /\ \A i \in 1..Len(history) : history'[i + 1] = history[i]
           /\ appliedAt' = [appliedAt EXCEPT ![l] = now]
           /\ \A m \in Held : appliedAt'[m] = appliedAt[m]
           /\ l \in Held' /\ Held \subseteq Held'
<1>t. history \in Seq(Listing) /\ appliedAt \in [Listing -> Time] /\ <<l>> \in Seq(Listing)
  BY DEF VerificationTypeOK
<1>1. history' = <<l>> \o history /\ appliedAt' = [appliedAt EXCEPT ![l] = now]
  BY DEF Arrive
<1>2. Len(history) \in Nat /\ DOMAIN history = 1..Len(history)
  BY <1>t
<1>3. /\ history' \in Seq(Listing) /\ Len(history') = 1 + Len(history)
      /\ \A i \in 1..(1 + Len(history)) : history'[i] = IF i <= 1 THEN <<l>>[i] ELSE history[i - 1]
  BY <1>t, <1>1, ConcatProperties
<1>4. DOMAIN history' = 1..(Len(history) + 1) /\ history'[1] = l
  BY <1>2, <1>3
<1>5. \A i \in 1..Len(history) : history'[i + 1] = history[i]
  BY <1>2, <1>3
<1>6. \A m \in Held : m \in Listing /\ m # l
  BY <1>t, <1>2 DEF Held
<1>7. \A m \in Held : appliedAt'[m] = appliedAt[m]
  BY <1>1, <1>6, <1>t
<1>8. l \in Held'
  BY <1>2, <1>4 DEF Held
<1>9. ASSUME NEW m \in Held  PROVE m \in Held'
  <2>1. PICK i \in DOMAIN history : m = history[i]
    BY DEF Held
  <2>2. i + 1 \in DOMAIN history' /\ history'[i + 1] = m
    BY <2>1, <1>2, <1>4, <1>5
  <2>3. QED  BY <2>2 DEF Held
<1>10. QED  BY <1>1, <1>3, <1>4, <1>5, <1>7, <1>8, <1>9

(***************************************************************************)
(* Types.                                                                  *)
(***************************************************************************)

ScanRecord == [pc : {"idle", "page", "select", "decide", "task"},
               page : Nat \ {0}, last : Nat \ {0},
               seen : SUBSET Listing, complete : BOOLEAN, from : Time,
               present : SUBSET Listing, rows : SUBSET (Own \X BOOLEAN),
               cur : Own \cup {Nobody}, verdict : Verdict]

QueueOK ==
    /\ app \in [Own -> {"none", "verifying", "submitted", "failed"}]
    /\ attempt \in [Own -> Time]
    /\ task \in [Own -> {"pending", "leased", "verifying", "succeeded"}]

LEMMA TypeParts ==
    VerificationTypeOK <=> /\ history \in Seq(Listing) /\ appliedAt \in [Listing -> Time]
                           /\ now \in Time /\ QueueOK /\ scan \in [Scanner -> ScanRecord]
                           /\ clicks \in [Own -> 0..MaxClicks] /\ torn \subseteq Own
                           /\ \A s \in Scanner : scan[s].pc = "task" => scan[s].cur \in Own
BY DEF VerificationTypeOK, QueueOK, ScanRecord

LEMMA TypeInit == Init => VerificationTypeOK
<1> SUFFICES ASSUME Init  PROVE VerificationTypeOK
  OBVIOUS
<1>1. 0 \in Time /\ 0 \in 0..MaxClicks
  BY VerificationAssumption DEF Time
<1>2. NoScan \in ScanRecord
  BY <1>1 DEF NoScan, ScanRecord, Verdict
<1>3. scan \in [Scanner -> ScanRecord] /\ \A s \in Scanner : scan[s].pc = "idle"
  BY <1>2 DEF Init, NoScan
<1>4. QueueOK
  BY <1>1 DEF Init, QueueOK
<1>5. history \in Seq(Listing)
  BY DEF Init
<1>6. QED  BY <1>1, <1>3, <1>4, <1>5, TypeParts DEF Init

LEMMA ArriveType ==
    ASSUME VerificationTypeOK, NEW l \in Listing, Arrive(l)
    PROVE  history' \in Seq(Listing) /\ appliedAt' \in [Listing -> Time]
<1>t. history \in Seq(Listing) /\ appliedAt \in [Listing -> Time] /\ now \in Time
  BY TypeParts
<1>1. CASE l \in Held
  BY <1>1, <1>t DEF Arrive, board
<1>2. CASE l \notin Held
  <2>1. history' \in Seq(Listing) /\ appliedAt' = [appliedAt EXCEPT ![l] = now]
    BY <1>2, Arrival
  <2>2. QED  BY <2>1, <1>t
<1>3. QED  BY <1>1, <1>2

LEMMA HeldType == VerificationTypeOK => Held \subseteq Listing /\ \A p \in Nat : Page(p) \subseteq Held
BY DEF VerificationTypeOK, Held, Page

LEMMA ScanType ==
    ASSUME VerificationTypeOK, NEW s \in Scanner, ScanNext(s)
    PROVE  scan' \in [Scanner -> ScanRecord]
<1>t. /\ scan \in [Scanner -> ScanRecord] /\ scan[s] \in ScanRecord /\ now \in Time
      /\ attempt \in [Own -> Time] /\ 0 \in Time
  BY TypeParts, VerificationAssumption DEF QueueOK, Time
<1>r. scan[s].page \in Nat \ {0} /\ scan[s].last \in Nat \ {0}
  BY <1>t DEF ScanRecord
<1>h. Held \subseteq Listing /\ Page(scan[s].page) \subseteq Listing
  BY <1>r, HeldType
<1>n. NoScan \in ScanRecord
  BY <1>t DEF NoScan, ScanRecord, Verdict
<1>1. CASE ScanBegin(s)
  <2>1. [NoScan EXCEPT !.pc = "page", !.from = now, !.present = Held] \in ScanRecord
    BY <1>n, <1>t, <1>h DEF ScanRecord
  <2>2. QED  BY <1>1, <2>1, <1>t DEF ScanBegin
<1>2. ASSUME NEW rows \in SUBSET Listing, NEW complete \in BOOLEAN, NEW last \in Nat \ {0},
             NEW pc \in {"select", "page"},
             scan' = [scan EXCEPT ![s].seen = scan[s].seen \cup rows, ![s].complete = complete,
                                  ![s].pc = pc, ![s].last = last, ![s].page = scan[s].page + 1]
      PROVE  scan' \in [Scanner -> ScanRecord]
  <2> DEFINE seen == scan[s].seen \cup rows
             page == scan[s].page + 1
  <2>1. seen \in SUBSET Listing /\ page \in Nat \ {0}
    BY <1>t, <1>r DEF ScanRecord
  <2>2. scan' = [scan EXCEPT ![s].seen = seen, ![s].complete = complete,
                             ![s].pc = pc, ![s].last = last, ![s].page = page]
    BY <1>2
  <2> HIDE DEF seen, page
  <2>3. scan' = [scan EXCEPT ![s] = [scan[s] EXCEPT !.seen = seen, !.complete = complete,
                                                    !.pc = pc, !.last = last, !.page = page]]
    BY <2>2, <1>t
  <2>4. [scan[s] EXCEPT !.seen = seen, !.complete = complete, !.pc = pc, !.last = last, !.page = page]
           \in ScanRecord
    BY <2>1, <1>t, <1>r DEF ScanRecord
  <2>5. QED  BY <2>3, <2>4, <1>t
<1>3. CASE ExtensionPage(s)
  <2> DEFINE p == scan[s].page
             kept == {l \in Page(p) : InWindow(DayOf(l), scan[s].from)}
             reached == \E l \in Page(p) : DayOf(l) + Window <= scan[s].from
             complete == reached \/ p >= LastPage
             pc == IF complete \/ p = MaxPages THEN "select" ELSE "page"
  <2>1. /\ kept \in SUBSET Listing /\ complete \in BOOLEAN /\ pc \in {"select", "page"}
        /\ scan' = [scan EXCEPT ![s].seen = scan[s].seen \cup kept, ![s].complete = complete,
                                ![s].pc = pc, ![s].page = scan[s].page + 1]
    BY <1>3, <1>h, <1>t DEF ExtensionPage, TakePage
  <2> HIDE DEF p, kept, reached, complete, pc
  <2> DEFINE seen == scan[s].seen \cup kept
             page == scan[s].page + 1
  <2>2. seen \in SUBSET Listing /\ page \in Nat \ {0}
    BY <2>1, <1>t, <1>r DEF ScanRecord
  <2>3. scan' = [scan EXCEPT ![s].seen = seen, ![s].complete = complete, ![s].pc = pc, ![s].page = page]
    BY <2>1
  <2> HIDE DEF seen, page
  <2>4. scan' = [scan EXCEPT ![s] = [scan[s] EXCEPT !.seen = seen, !.complete = complete,
                                                    !.pc = pc, !.page = page]]
    BY <2>3, <1>t
  <2>5. [scan[s] EXCEPT !.seen = seen, !.complete = complete, !.pc = pc, !.page = page] \in ScanRecord
    BY <2>1, <2>2, <1>t DEF ScanRecord
  <2>6. QED  BY <2>4, <2>5, <1>t
<1>4. CASE VaultPage(s)
  <2> DEFINE p == scan[s].page
             rows == Page(p)
             last == IF p > 1 THEN scan[s].last
                     ELSE IF LastPage < MaxPages THEN LastPage ELSE MaxPages
             pastWindow == rows # {} /\ \A l \in rows : ~InWindow(DayOf(l), now)
             empty == p > 1 /\ rows = {}
             complete == ~empty /\ (pastWindow \/ p = last)
             pc == IF empty \/ pastWindow \/ p = last THEN "select" ELSE "page"
  <2>1. scan' = [scan EXCEPT ![s].seen = scan[s].seen \cup rows, ![s].complete = complete,
                             ![s].pc = pc, ![s].last = last, ![s].page = scan[s].page + 1]
    BY <1>4, <1>t DEF VaultPage
  <2>2. rows \in SUBSET Listing /\ complete \in BOOLEAN /\ pc \in {"select", "page"} /\ last \in Nat \ {0}
    BY <1>h, <1>r, LastPageType, VerificationAssumption
  <2> HIDE DEF p, rows, last, pastWindow, empty, complete, pc
  <2>3. QED  BY <2>1, <2>2, <1>2
<1>5. CASE ScanStops(s)
  <2>1. [scan[s] EXCEPT !.pc = "select"] \in ScanRecord
    BY <1>t DEF ScanRecord
  <2>2. QED  BY <1>5, <2>1, <1>t DEF ScanStops
<1>6. CASE SelectVerifying(s)
  <2> DEFINE rows == {<<l, InWindow(attempt[l], now)>> : l \in {k \in Own : app[k] = "verifying"}}
  <2>1. rows \subseteq Own \X BOOLEAN
    <3>1. \A l \in Own : InWindow(attempt[l], now) \in BOOLEAN
      BY DEF InWindow
    <3>2. ASSUME NEW x \in rows  PROVE x \in Own \X BOOLEAN
      <4>1. PICK l \in Own : x = <<l, InWindow(attempt[l], now)>>
        OBVIOUS
      <4>2. QED  BY <3>1, <4>1
    <3>3. QED  BY <3>2
  <2>2. scan' = [scan EXCEPT ![s] = [scan[s] EXCEPT !.pc = "decide", !.rows = rows]]
    BY <1>6, <1>t DEF SelectVerifying
  <2> HIDE DEF rows
  <2>3. [scan[s] EXCEPT !.pc = "decide", !.rows = rows] \in ScanRecord
    BY <2>1, <1>t DEF ScanRecord
  <2>4. QED  BY <2>2, <2>3, <1>t
<1>7. ASSUME NEW r \in scan[s].rows, Unresolved(s, r) \/ WriteApplication(s, r)
      PROVE  scan' \in [Scanner -> ScanRecord]
  <2>1. Rest(s, r) \subseteq Own \X BOOLEAN /\ r[1] \in Own
    BY <1>t DEF ScanRecord, Rest
  <2>2. CASE Unresolved(s, r)
    <3>1. [scan[s] EXCEPT !.rows = Rest(s, r)] \in ScanRecord
      BY <2>1, <1>t DEF ScanRecord
    <3>2. QED  BY <2>2, <3>1, <1>t DEF Unresolved
  <2>3. CASE WriteApplication(s, r)
    <3> DEFINE v == Classify(s, r[1], r[2])
               w == [scan[s] EXCEPT !.rows = Rest(s, r), !.pc = "task", !.cur = r[1], !.verdict = v]
    <3>1. v \in Verdict /\ scan' = [scan EXCEPT ![s] = w]
      BY <2>3, <1>t DEF WriteApplication, Verdict, Classify
    <3> HIDE DEF v
    <3>2. w \in ScanRecord
      BY <2>1, <3>1, <1>t DEF ScanRecord
    <3>3. QED  BY <3>1, <3>2, <1>t
  <2>4. QED  BY <1>7, <2>2, <2>3
<1>8. CASE WriteTask(s)
  <2>1. [scan[s] EXCEPT !.pc = "decide", !.cur = Nobody] \in ScanRecord
    BY <1>t DEF ScanRecord
  <2>2. scan' = [scan EXCEPT ![s] = [scan[s] EXCEPT !.pc = "decide", !.cur = Nobody]]
    BY <1>8, <1>t DEF WriteTask
  <2>3. QED  BY <2>1, <2>2, <1>t
<1>9. CASE ScanEnd(s) \/ ScanFails(s)
  BY <1>9, <1>n, <1>t DEF ScanEnd, ScanFails
<1>10. QED  BY <1>1, <1>3, <1>4, <1>5, <1>6, <1>7, <1>8, <1>9 DEF ScanNext

(***************************************************************************)
(* What a step makes of its scan.                                          *)
(***************************************************************************)

Reached(s) == \E l \in Page(scan[s].page) : DayOf(l) + Window <= scan[s].from
Kept(s) == {l \in Page(scan[s].page) : InWindow(DayOf(l), scan[s].from)}

LEMMA ExtensionPageFields ==
    ASSUME VerificationTypeOK, NEW s \in Scanner, ExtensionPage(s)
    PROVE  /\ s \in Extension /\ scan[s].pc = "page" /\ scan'[s].pc \in {"page", "select"}
           /\ scan'[s].seen = scan[s].seen \cup Kept(s)
           /\ scan'[s].complete <=> Reached(s) \/ scan[s].page >= LastPage
           /\ scan'[s].pc = "page" => ~scan'[s].complete
           /\ scan'[s].page = scan[s].page + 1 /\ scan'[s].from = scan[s].from
           /\ scan'[s].present = scan[s].present
<1> DEFINE complete == Reached(s) \/ scan[s].page >= LastPage
           kept == Kept(s)
           pc == IF complete \/ scan[s].page = MaxPages THEN "select" ELSE "page"
           page == scan[s].page + 1
           seen == scan[s].seen \cup kept
<1>t. scan \in [Scanner -> ScanRecord] /\ scan[s] \in ScanRecord
  BY TypeParts
<1>1. /\ complete \in BOOLEAN /\ pc \in {"page", "select"} /\ (pc = "page" => ~complete)
      /\ complete <=> Reached(s) \/ scan[s].page >= LastPage
      /\ seen = scan[s].seen \cup kept /\ page = scan[s].page + 1
  OBVIOUS
<1>2. /\ scan' = [scan EXCEPT ![s].seen = seen, ![s].complete = complete, ![s].pc = pc, ![s].page = page]
      /\ s \in Extension /\ scan[s].pc = "page"
  BY <1>t DEF ExtensionPage, TakePage, Kept, Reached
<1> HIDE DEF complete, kept, pc, page, seen
<1>3. /\ scan'[s].seen = seen /\ scan'[s].complete = complete /\ scan'[s].pc = pc /\ scan'[s].page = page
      /\ scan'[s].from = scan[s].from /\ scan'[s].present = scan[s].present
  BY <1>2, <1>t DEF ScanRecord
<1>4. QED  BY <1>1, <1>2, <1>3 DEF kept

FirstLast == IF LastPage < MaxPages THEN LastPage ELSE MaxPages
LastOf(s) == IF scan[s].page > 1 THEN scan[s].last ELSE FirstLast
PastWindow(s) == /\ Page(scan[s].page) # {}
                 /\ \A l \in Page(scan[s].page) : ~InWindow(DayOf(l), now)

LEMMA VaultPageFields ==
    ASSUME VerificationTypeOK, NEW s \in Scanner, VaultPage(s)
    PROVE  /\ s \in Vault /\ scan[s].pc = "page" /\ scan'[s].pc \in {"page", "select"}
           /\ scan'[s].seen = scan[s].seen \cup Page(scan[s].page)
           /\ scan'[s].complete => PastWindow(s) \/ scan[s].page = LastOf(s)
           /\ scan'[s].pc = "page" => ~scan'[s].complete
           /\ scan'[s].page = scan[s].page + 1 /\ scan'[s].last = LastOf(s)
           /\ scan'[s].present = scan[s].present
<1> DEFINE empty == scan[s].page > 1 /\ Page(scan[s].page) = {}
           complete == ~empty /\ (PastWindow(s) \/ scan[s].page = LastOf(s))
           pc == IF empty \/ PastWindow(s) \/ scan[s].page = LastOf(s) THEN "select" ELSE "page"
           page == scan[s].page + 1
           seen == scan[s].seen \cup Page(scan[s].page)
           last == LastOf(s)
<1>t. scan \in [Scanner -> ScanRecord] /\ scan[s] \in ScanRecord
  BY TypeParts
<1>1. /\ complete \in BOOLEAN /\ pc \in {"page", "select"} /\ (pc = "page" => ~complete)
      /\ complete => PastWindow(s) \/ scan[s].page = LastOf(s)
      /\ seen = scan[s].seen \cup Page(scan[s].page) /\ page = scan[s].page + 1
      /\ last = LastOf(s)
  OBVIOUS
<1>2. /\ scan' = [scan EXCEPT ![s].seen = seen, ![s].complete = complete, ![s].pc = pc, ![s].last = last,
                              ![s].page = page]
      /\ s \in Vault /\ scan[s].pc = "page"
  BY <1>t DEF VaultPage, PastWindow, LastOf, FirstLast
<1> HIDE DEF complete, pc, page, seen, last, empty
<1>3. /\ scan'[s].seen = seen /\ scan'[s].complete = complete /\ scan'[s].pc = pc /\ scan'[s].page = page
      /\ scan'[s].last = last /\ scan'[s].present = scan[s].present
  BY <1>2, <1>t DEF ScanRecord
<1>4. QED  BY <1>1, <1>2, <1>3

LEMMA BeginFields ==
    ASSUME VerificationTypeOK, NEW s \in Scanner, ScanBegin(s)
    PROVE  /\ scan[s].pc = "idle" /\ scan'[s].pc = "page" /\ scan'[s].page = 1 /\ scan'[s].seen = {}
           /\ ~scan'[s].complete /\ scan'[s].from = now /\ scan'[s].present = Held
<1>1. scan[s].pc = "idle" /\ scan'[s] = [NoScan EXCEPT !.pc = "page", !.from = now, !.present = Held]
  BY TypeParts DEF ScanBegin
<1>2. QED  BY <1>1 DEF NoScan

LEMMA EndFields ==
    ASSUME VerificationTypeOK, NEW s \in Scanner, ScanEnd(s) \/ ScanFails(s)
    PROVE  scan'[s].pc = "idle"
<1>1. scan'[s] = NoScan
  BY TypeParts DEF ScanEnd, ScanFails
<1>2. QED  BY <1>1 DEF NoScan

\* The steps after the pages keep what was read.
LEMMA LaterFields ==
    ASSUME VerificationTypeOK, NEW s \in Scanner,
           \/ ScanStops(s) \/ SelectVerifying(s) \/ WriteTask(s)
           \/ \E r \in scan[s].rows : Unresolved(s, r) \/ WriteApplication(s, r)
    PROVE  /\ Scanned(s)' /\ (scan[s].pc = "page" \/ Scanned(s))
           /\ scan'[s].seen = scan[s].seen /\ scan'[s].complete = scan[s].complete
           /\ scan'[s].from = scan[s].from /\ scan'[s].present = scan[s].present
<1>t. scan \in [Scanner -> ScanRecord] /\ scan[s] \in ScanRecord
  BY TypeParts
<1>1. CASE ScanStops(s)
  BY <1>1, <1>t DEF ScanStops, Scanned, ScanRecord
<1>2. CASE SelectVerifying(s)
  BY <1>2, <1>t DEF SelectVerifying, Scanned, ScanRecord
<1>3. CASE WriteTask(s)
  BY <1>3, <1>t DEF WriteTask, Scanned, ScanRecord
<1>4. ASSUME NEW r \in scan[s].rows, Unresolved(s, r)
      PROVE  /\ Scanned(s)' /\ (scan[s].pc = "page" \/ Scanned(s))
             /\ scan'[s].seen = scan[s].seen /\ scan'[s].complete = scan[s].complete
             /\ scan'[s].from = scan[s].from /\ scan'[s].present = scan[s].present
  BY <1>4, <1>t DEF Unresolved, Scanned, ScanRecord
<1>5. ASSUME NEW r \in scan[s].rows, WriteApplication(s, r)
      PROVE  /\ Scanned(s)' /\ (scan[s].pc = "page" \/ Scanned(s))
             /\ scan'[s].seen = scan[s].seen /\ scan'[s].complete = scan[s].complete
             /\ scan'[s].from = scan[s].from /\ scan'[s].present = scan[s].present
  BY <1>5, <1>t DEF WriteApplication, Scanned, ScanRecord
<1>6. QED  BY <1>1, <1>2, <1>3, <1>4, <1>5

\* The other scans stay where they are.
LEMMA OneScan ==
    ASSUME VerificationTypeOK, NEW s \in Scanner, ScanNext(s)
    PROVE  \A z \in Scanner \ {s} : scan'[z] = scan[z]
BY TypeParts DEF ScanNext, ScanBegin, ExtensionPage, TakePage, VaultPage, ScanStops, SelectVerifying,
            Unresolved, WriteApplication, WriteTask, ScanEnd, ScanFails

(***************************************************************************)
(* Types are kept.                                                         *)
(***************************************************************************)

LEMMA TypeStep ==
    ASSUME VerificationTypeOK, [Next]_vars
    PROVE  VerificationTypeOK'
<1>t. /\ history \in Seq(Listing) /\ appliedAt \in [Listing -> Time] /\ now \in Time /\ QueueOK
      /\ scan \in [Scanner -> ScanRecord] /\ clicks \in [Own -> 0..MaxClicks] /\ torn \subseteq Own
      /\ \A z \in Scanner : scan[z].pc = "task" => scan[z].cur \in Own
  BY TypeParts
<1>g. ASSUME history' \in Seq(Listing), appliedAt' \in [Listing -> Time], now' \in Time, QueueOK',
             scan' \in [Scanner -> ScanRecord], clicks' \in [Own -> 0..MaxClicks], torn' \subseteq Own,
             \A z \in Scanner : scan'[z].pc = "task" => scan'[z].cur \in Own
      PROVE  VerificationTypeOK'
  BY <1>g DEF VerificationTypeOK, QueueOK, ScanRecord
<1>q. ASSUME UNCHANGED queue  PROVE QueueOK'
  BY <1>q, <1>t DEF queue, QueueOK
<1>1. ASSUME NEW l \in Listing, ApplyByHand(l)  PROVE VerificationTypeOK'
  <2>1. history' \in Seq(Listing) /\ appliedAt' \in [Listing -> Time]
    BY <1>1, ArriveType DEF ApplyByHand
  <2>2. QED  BY <2>1, <1>1, <1>g, <1>q, <1>t DEF ApplyByHand
<1>2. ASSUME NEW l \in Own, NEW reached \in BOOLEAN, Click(l, reached)  PROVE VerificationTypeOK'
  <2>1. l \in Listing
    BY VerificationAssumption
  <2>2. history' \in Seq(Listing) /\ appliedAt' \in [Listing -> Time]
    BY <2>1, <1>2, <1>t, ArriveType DEF Click, board
  <2>3. clicks' \in [Own -> 0..MaxClicks]
    <3>1. clicks[l] \in 0..MaxClicks /\ clicks[l] < MaxClicks /\ clicks' = [clicks EXCEPT ![l] = clicks[l] + 1]
      BY <1>2, <1>t DEF Click
    <3>2. clicks[l] + 1 \in 0..MaxClicks
      BY <3>1, VerificationAssumption
    <3>3. QED  BY <3>1, <3>2, <1>t
  <2>4. QueueOK'
    BY <1>2, <1>t DEF Click, QueueOK
  <2>5. now' = now /\ scan' = scan /\ torn' = torn
    BY <1>2 DEF Click
  <2>6. QED  BY <2>2, <2>3, <2>4, <2>5, <1>g, <1>t
<1>3. ASSUME NEW l \in Own, NEW status \in {"verifying", "submitted"}, Record(l, status)
      PROVE  VerificationTypeOK'
  <2>1. QueueOK'
    BY <1>3, <1>t DEF Record, QueueOK
  <2>2. torn' \subseteq Own
    BY <1>3, <1>t DEF Record
  <2>3. history' = history /\ appliedAt' = appliedAt /\ now' = now /\ scan' = scan /\ clicks' = clicks
    BY <1>3 DEF Record, board
  <2>4. QED  BY <2>1, <2>2, <2>3, <1>g, <1>t
<1>4. ASSUME NEW s \in Scanner, ScanNext(s)  PROVE VerificationTypeOK'
  <2>1. scan' \in [Scanner -> ScanRecord]
    BY <1>4, ScanType
  <2>2. history' = history /\ appliedAt' = appliedAt /\ now' = now /\ clicks' = clicks
    BY <1>4 DEF ScanNext, ScanBegin, ExtensionPage, VaultPage, ScanStops, SelectVerifying, Unresolved,
                WriteApplication, WriteTask, ScanEnd, ScanFails, board
  <2>w. scan[s] \in ScanRecord
    BY <1>t
  <2>3. QueueOK'
    <3>1. CASE \E r \in scan[s].rows : WriteApplication(s, r)
      <4>1. PICK r \in scan[s].rows : WriteApplication(s, r)
        BY <3>1
      <4>2. r[1] \in Own
        BY <2>w DEF ScanRecord
      <4>3. QED  BY <4>1, <4>2, <1>t DEF WriteApplication, QueueOK
    <3>2. CASE WriteTask(s)
      BY <3>2, <1>t DEF WriteTask, QueueOK
    <3>3. CASE UNCHANGED queue
      BY <3>3, <1>q
    <3>4. QED
      BY <1>4, <3>1, <3>2, <3>3 DEF ScanNext, ScanBegin, ExtensionPage, VaultPage, ScanStops,
                SelectVerifying, Unresolved, ScanEnd, ScanFails
  <2>4. torn' \subseteq Own
    <3>1. CASE \E r \in scan[s].rows : WriteApplication(s, r)
      <4>1. PICK r \in scan[s].rows : WriteApplication(s, r)
        BY <3>1
      <4>2. r[1] \in Own
        BY <2>w DEF ScanRecord
      <4>3. torn' \subseteq torn \cup {r[1]}
        BY <4>1 DEF WriteApplication
      <4>4. QED  BY <4>2, <4>3, <1>t
    <3>2. CASE ScanFails(s)
      BY <3>2, <1>t DEF ScanFails
    <3>3. CASE torn' = torn
      BY <3>3, <1>t
    <3>4. QED
      BY <1>4, <3>1, <3>2, <3>3 DEF ScanNext, ScanBegin, ExtensionPage, VaultPage, ScanStops,
                SelectVerifying, Unresolved, WriteTask, ScanEnd
  <2>5. \A z \in Scanner : scan'[z].pc = "task" => scan'[z].cur \in Own
    <3>1. \A z \in Scanner \ {s} : scan'[z] = scan[z]
      BY <1>4, OneScan
    <3>2. CASE \E r \in scan[s].rows : WriteApplication(s, r)
      <4>1. PICK r \in scan[s].rows : WriteApplication(s, r)
        BY <3>2
      <4>2. r[1] \in Own
        BY <2>w DEF ScanRecord
      <4>3. scan'[s].cur = r[1]
        BY <4>1, <1>t DEF WriteApplication, ScanRecord
      <4>4. QED  BY <3>1, <4>2, <4>3, <1>t
    <3>3. CASE scan'[s].pc # "task" \/ (scan'[s].pc = scan[s].pc /\ scan'[s].cur = scan[s].cur)
      BY <3>1, <3>3, <1>t
    <3>4. \/ \E r \in scan[s].rows : WriteApplication(s, r)
          \/ scan'[s].pc # "task" \/ (scan'[s].pc = scan[s].pc /\ scan'[s].cur = scan[s].cur)
      <4>1. CASE ScanBegin(s) \/ ScanStops(s) \/ SelectVerifying(s) \/ WriteTask(s) \/ ScanEnd(s) \/ ScanFails(s)
        <5>1. CASE ScanBegin(s) \/ ScanEnd(s) \/ ScanFails(s)
          BY <5>1, BeginFields, EndFields
        <5>2. CASE ScanStops(s) \/ SelectVerifying(s) \/ WriteTask(s)
          BY <5>2, <1>t DEF ScanStops, SelectVerifying, WriteTask, ScanRecord
        <5>3. QED  BY <4>1, <5>1, <5>2
      <4>2. CASE \E r \in scan[s].rows : Unresolved(s, r)
        BY <4>2, <1>t DEF Unresolved, ScanRecord
      <4>3. CASE ExtensionPage(s) \/ VaultPage(s)
        BY <4>3, ExtensionPageFields, VaultPageFields
      <4>4. QED  BY <1>4, <4>1, <4>2, <4>3 DEF ScanNext
    <3>5. QED  BY <3>2, <3>3, <3>4
  <2>6. QED  BY <2>1, <2>2, <2>3, <2>4, <2>5, <1>g, <1>t
<1>5. ASSUME Tick  PROVE VerificationTypeOK'
  <2>1. now' \in Time
    BY <1>5, <1>t, VerificationAssumption DEF Tick, Time
  <2>2. QED  BY <2>1, <1>5, <1>g, <1>q, <1>t DEF Tick, board
<1>6. ASSUME UNCHANGED vars  PROVE VerificationTypeOK'
  BY <1>6, <1>g, <1>q, <1>t DEF vars, board
<1>7. QED  BY <1>1, <1>2, <1>3, <1>4, <1>5, <1>6 DEF Next

LEMMA TypeAlways == Spec => []VerificationTypeOK
<1>1. Init => VerificationTypeOK
  BY TypeInit
<1>2. VerificationTypeOK /\ [Next]_vars => VerificationTypeOK'
  BY TypeStep
<1>3. QED  BY <1>1, <1>2, PTL DEF Spec

\* The variables keep their types (see JobinjaVerification).
THEOREM VerificationTypeCorrect == Spec => []VerificationTypeOK
BY TypeAlways

(***************************************************************************)
(* What a scan has read.                                                   *)
(***************************************************************************)

\* The history is in the order of arrival, newest first.
OrderInv ==
    \A i, j \in DOMAIN history :
        /\ appliedAt[history[i]] <= now
        /\ i <= j => appliedAt[history[j]] <= appliedAt[history[i]]

\* A browser's scan has seen what it must of the pages before the one it is at.
ExtensionInv(s) ==
    /\ scan[s].pc = "page" =>
         /\ ~scan[s].complete
         /\ \A i \in DOMAIN history :
               i <= (scan[s].page - 1) * PageSize /\ history[i] \in scan[s].present
                   /\ DayOf(history[i]) + Window > scan[s].from
               => history[i] \in scan[s].seen
    /\ Scanned(s) /\ scan[s].complete =>
         \A l \in scan[s].present : DayOf(l) + Window > scan[s].from => l \in scan[s].seen

\* A server's scan has seen all of them, as long as nothing arrives.
VaultInv(s) ==
    Held = scan[s].present =>
      /\ scan[s].pc = "page" =>
           /\ ~scan[s].complete
           /\ \A i \in DOMAIN history : i <= (scan[s].page - 1) * PageSize => history[i] \in scan[s].seen
           /\ scan[s].page > 1 => scan[s].last = FirstLast
      /\ Scanned(s) /\ scan[s].complete /\ Len(history) <= MaxPages * PageSize =>
           \A l \in Held : InWindow(DayOf(l), now) => l \in scan[s].seen

ScanInv(s) ==
    /\ scan[s].pc # "idle" => scan[s].present \subseteq Held
    /\ s \in Extension => ExtensionInv(s)
    /\ s \in Vault => VaultInv(s)

ReadInv == VerificationTypeOK /\ OrderInv /\ \A s \in Scanner : ScanInv(s)

LEMMA ReadInit == Init => ReadInv
<1> SUFFICES ASSUME Init  PROVE ReadInv
  OBVIOUS
<1>1. \A s \in Scanner : scan[s].pc = "idle"
  BY DEF Init, NoScan
<1>2. OrderInv
  BY DEF Init, OrderInv
<1>3. QED  BY <1>1, <1>2, TypeInit DEF ReadInv, ScanInv, ExtensionInv, VaultInv, Scanned

\* A history that grows at its front stays in order.
LEMMA OrderStep ==
    ASSUME VerificationTypeOK, OrderInv, VerificationTypeOK', now <= now',
           \/ UNCHANGED board
           \/ now' = now /\ \E l \in Listing \ Held : Arrive(l)
    PROVE  OrderInv'
<1>t. /\ history \in Seq(Listing) /\ appliedAt \in [Listing -> Time] /\ now \in Time /\ now' \in Time
      /\ Time \subseteq Nat /\ Len(history) \in Nat /\ DOMAIN history = 1..Len(history)
  BY TypeParts, VerificationAssumption DEF VerificationTypeOK, Time
<1>e. \A i \in 1..Len(history) : appliedAt[history[i]] \in Nat
  <2>1. ASSUME NEW i \in 1..Len(history)  PROVE appliedAt[history[i]] \in Nat
    <3>1. history[i] \in Listing
      BY <1>t, ElementOfSeq
    <3>2. QED  BY <3>1, <1>t
  <2>2. QED  BY <2>1
<1>n. now \in Nat /\ now' \in Nat
  BY <1>t
<1>1. CASE UNCHANGED board
  BY <1>1, <1>e, <1>n, <1>t DEF OrderInv, board
<1>2. ASSUME now' = now, NEW l \in Listing \ Held, Arrive(l)  PROVE OrderInv'
  <2>1. /\ DOMAIN history' = 1..(Len(history) + 1) /\ history'[1] = l
        /\ \A i \in 1..Len(history) : history'[i + 1] = history[i]
        /\ appliedAt' = [appliedAt EXCEPT ![l] = now]
        /\ \A m \in Held : appliedAt'[m] = appliedAt[m]
    BY <1>2, Arrival
  <2>2. appliedAt'[history'[1]] = now
    BY <2>1, <1>t
  <2>3. \A i \in 1..Len(history) : appliedAt'[history'[i + 1]] = appliedAt[history[i]]
    BY <2>1, <1>t DEF Held
  <2>4. \A i \in 1..(Len(history) + 1) : i = 1 \/ (i - 1 \in 1..Len(history) /\ i = (i - 1) + 1)
    BY <1>t
  <2>5. \A i \in DOMAIN history' : appliedAt'[history'[i]] =
                                  IF i = 1 THEN now ELSE appliedAt[history[i - 1]]
    BY <2>1, <2>2, <2>3, <2>4
  <2> DEFINE n == Len(history)
             a == [i \in 1..n |-> appliedAt[history[i]]]
             b == [i \in 1..(n + 1) |-> appliedAt'[history'[i]]]
  <2>6. /\ a \in [1..n -> Nat] /\ n \in Nat /\ now \in Nat
        /\ \A i \in 1..n : a[i] <= now
        /\ \A i, j \in 1..n : i <= j => a[j] <= a[i]
        /\ \A i \in 1..(n + 1) : b[i] = IF i = 1 THEN now ELSE a[i - 1]
    <3>1. a \in [1..n -> Nat]
      BY <1>e
    <3>2. \A i, j \in 1..n : a[i] <= now /\ (i <= j => a[j] <= a[i])
      BY <1>t DEF OrderInv
    <3>3. \A i \in 1..(n + 1) : b[i] = IF i = 1 THEN now ELSE a[i - 1]
      BY <2>1, <2>4, <2>5
    <3>4. QED  BY <3>1, <3>2, <3>3, <1>n, <1>t
  <2>8. DOMAIN history' = 1..(n + 1) /\ \A i \in 1..(n + 1) : appliedAt'[history'[i]] = b[i]
    BY <2>1
  <2> HIDE DEF n, a, b
  <2>9. ASSUME NEW i \in 1..(n + 1), NEW j \in 1..(n + 1)
        PROVE  b[i] <= now /\ (i <= j => b[j] <= b[i])
    <3>1. i = 1 \/ i - 1 \in 1..n
      BY <2>6
    <3>2. j = 1 \/ j - 1 \in 1..n
      BY <2>6
    <3>3. QED  BY <3>1, <3>2, <2>6
  <2>7. QED  BY <2>8, <2>9, <1>2 DEF OrderInv
<1>3. QED  BY <1>1, <1>2

\* Numbers of the history.
LEMMA HistoryFacts ==
    ASSUME VerificationTypeOK
    PROVE  /\ Len(history) \in Nat /\ DOMAIN history = 1..Len(history)
           /\ \A i \in DOMAIN history : history[i] \in Held
           /\ \A m \in Held : m \in Listing /\ appliedAt[m] \in Nat /\ DayOf(m) \in Nat
           /\ now \in Nat /\ Window \in Nat
<1>1. history \in Seq(Listing) /\ appliedAt \in [Listing -> Time] /\ now \in Time
  BY TypeParts
<1>2. Len(history) \in Nat /\ DOMAIN history = 1..Len(history)
  BY <1>1
<1>3. \A i \in DOMAIN history : history[i] \in Held /\ history[i] \in Listing
  BY <1>1, <1>2, ElementOfSeq DEF Held
<1>4. Time \subseteq Nat
  BY VerificationAssumption DEF Time
<1>5. ASSUME NEW m \in Held  PROVE m \in Listing /\ appliedAt[m] \in Nat /\ DayOf(m) \in Nat
  <2>1. m \in Listing
    BY <1>3 DEF Held
  <2>2. appliedAt[m] \in Nat
    BY <2>1, <1>1, <1>4
  <2>3. Day(appliedAt[m]) \in Nat
    BY <2>2, DayIsMonotone
  <2>4. QED  BY <2>1, <2>2, <2>3 DEF DayOf
<1>6. QED  BY <1>1, <1>2, <1>3, <1>4, <1>5, VerificationAssumption

\* An application further down the history is not of a later day.
LEMMA OlderBelow ==
    ASSUME VerificationTypeOK, OrderInv, NEW i \in DOMAIN history, NEW j \in DOMAIN history, i <= j
    PROVE  DayOf(history[j]) <= DayOf(history[i])
<1>1. appliedAt[history[j]] <= appliedAt[history[i]]
  BY DEF OrderInv
<1>2. appliedAt[history[j]] \in Nat /\ appliedAt[history[i]] \in Nat
  BY HistoryFacts
<1>3. Day(appliedAt[history[j]]) <= Day(appliedAt[history[i]])
  BY <1>1, <1>2, DayIsMonotone
<1>4. QED  BY <1>3 DEF DayOf

\* A scan that is not the one that moves keeps what it knows, whatever arrives and
\* however late it gets.
LEMMA ScanStill ==
    ASSUME ReadInv, NEW s \in Scanner, scan'[s] = scan[s], now <= now', now' \in Nat,
           \/ UNCHANGED board
           \/ now' = now /\ \E l \in Listing \ Held : Arrive(l)
    PROVE  ScanInv(s)'
<1>t. VerificationTypeOK /\ ScanInv(s) /\ scan[s] \in ScanRecord
  BY TypeParts DEF ReadInv
<1>h. /\ Len(history) \in Nat /\ DOMAIN history = 1..Len(history)
      /\ \A i \in DOMAIN history : history[i] \in Held
      /\ \A m \in Held : m \in Listing /\ appliedAt[m] \in Nat /\ DayOf(m) \in Nat
      /\ now \in Nat /\ Window \in Nat
  BY <1>t, HistoryFacts
<1>1. CASE UNCHANGED board
  <2>1. /\ history' = history /\ Held' = Held /\ LastPage' = LastPage
        /\ \A m : DayOf(m)' = DayOf(m)
    BY <1>1 DEF board, Held, LastPage, DayOf
  <2>2. \A m \in Held : InWindow(DayOf(m), now') => InWindow(DayOf(m), now)
    BY <1>h DEF InWindow
  <2>3. Scanned(s)' <=> Scanned(s)
    BY DEF Scanned
  <2>4. s \in Extension => ExtensionInv(s)'
    BY <2>1, <2>3, <1>t DEF ScanInv, ExtensionInv
  <2>5. s \in Vault => VaultInv(s)'
    <3>1. FirstLast' = FirstLast
      BY <2>1 DEF FirstLast
    <3>2. \A m \in Held : InWindow(DayOf(m), now)' => InWindow(DayOf(m), now)
      BY <2>1, <2>2 DEF InWindow
    <3>3. QED  BY <2>1, <2>3, <3>1, <3>2, <1>t DEF ScanInv, VaultInv
  <2>6. QED  BY <2>1, <2>4, <2>5, <1>t DEF ScanInv
<1>2. ASSUME now' = now, NEW l \in Listing \ Held, Arrive(l)  PROVE ScanInv(s)'
  <2>1. /\ DOMAIN history' = 1..(Len(history) + 1) /\ history'[1] = l
        /\ \A i \in 1..Len(history) : history'[i + 1] = history[i]
        /\ \A m \in Held : appliedAt'[m] = appliedAt[m]
        /\ l \in Held' /\ Held \subseteq Held'
    BY <1>2, <1>t, Arrival
  <2>2. CASE scan[s].pc = "idle"
    BY <2>2 DEF ScanInv, ExtensionInv, VaultInv, Scanned
  <2>3. CASE scan[s].pc # "idle"
    <3>1. scan[s].present \subseteq Held
      BY <2>3, <1>t DEF ScanInv
    <3>2. \A m \in Held : DayOf(m)' = DayOf(m)
      BY <2>1 DEF DayOf
    <3>3. s \in Vault => VaultInv(s)'
      <4>1. Held' # scan'[s].present
        BY <2>1, <3>1
      <4>2. QED  BY <4>1 DEF VaultInv
    <3>4. ASSUME s \in Extension  PROVE ExtensionInv(s)'
      <4>0. ExtensionInv(s)
        BY <3>4, <1>t DEF ScanInv
      <4>1. ASSUME scan[s].pc = "page", NEW i \in DOMAIN history',
                   i <= (scan[s].page - 1) * PageSize, history'[i] \in scan[s].present,
                   Day(appliedAt'[history'[i]]) + Window > scan[s].from
            PROVE  history'[i] \in scan[s].seen
        <5>1. i # 1
          BY <4>1, <2>1, <3>1
        <5>2. i - 1 \in 1..Len(history) /\ i = (i - 1) + 1
          BY <5>1, <4>1, <2>1, <1>h
        <5>3. history'[i] = history[i - 1]
          BY <5>2, <2>1
        <5>4. (scan[s].page - 1) * PageSize \in Int
          BY <1>t, VerificationAssumption DEF ScanRecord
        <5>5. i - 1 <= (scan[s].page - 1) * PageSize
          BY <5>2, <5>4, <4>1
        <5>6. DayOf(history[i - 1]) + Window > scan[s].from
          <6>1. appliedAt'[history'[i]] = appliedAt[history[i - 1]]
            BY <5>2, <5>3, <2>1, <1>h
          <6>2. QED  BY <6>1, <4>1 DEF DayOf
        <5>7. QED  BY <4>0, <4>1, <5>2, <5>3, <5>5, <5>6, <1>h DEF ExtensionInv
      <4>2. Scanned(s)' /\ scan'[s].complete =>
               \A m \in scan'[s].present : DayOf(m)' + Window > scan'[s].from => m \in scan'[s].seen
        BY <4>0, <3>1, <3>2 DEF ExtensionInv, Scanned
      <4>3. scan'[s].pc = "page" => ~scan'[s].complete
        BY <4>0 DEF ExtensionInv
      <4>4. QED  BY <4>1, <4>2, <4>3 DEF ExtensionInv, DayOf
    <3>5. QED  BY <2>1, <3>1, <3>3, <3>4 DEF ScanInv
  <2>4. QED  BY <2>2, <2>3
<1>3. QED  BY <1>1, <1>2

\* What lies beyond a page, and what a page and those before it hold.
LEMMA PageFacts ==
    ASSUME VerificationTypeOK, NEW p \in Nat \ {0}
    PROVE  /\ (p - 1) * PageSize \in Nat /\ p * PageSize \in Nat
           /\ \A i \in DOMAIN history : i <= p * PageSize => i <= (p - 1) * PageSize \/ history[i] \in Page(p)
           /\ \A l \in Page(p) : \E j \in DOMAIN history : l = history[j] /\ j <= p * PageSize
           /\ p >= LastPage => \A i \in DOMAIN history : i <= p * PageSize
<1>h. Len(history) \in Nat /\ DOMAIN history = 1..Len(history)
  BY HistoryFacts
<1>1. (p - 1) * PageSize \in Nat /\ p * PageSize \in Nat
  BY VerificationAssumption
<1>2. ASSUME NEW i \in DOMAIN history, i <= p * PageSize, ~(i <= (p - 1) * PageSize)
      PROVE  history[i] \in Page(p)
  <2>1. (p - 1) * PageSize < i
    BY <1>1, <1>2, <1>h
  <2>2. QED  BY <2>1, <1>2 DEF Page
<1>3. \A l \in Page(p) : \E j \in DOMAIN history : l = history[j] /\ j <= p * PageSize
  BY DEF Page
<1>4. ASSUME p >= LastPage, NEW i \in DOMAIN history  PROVE i <= p * PageSize
  <2>1. history # <<>>
    BY <1>4, <1>h
  <2>2. p >= (Len(history) + PageSize - 1) \div PageSize
    BY <2>1, <1>4 DEF LastPage
  <2>3. Len(history) <= p * PageSize
    BY <2>2, <1>h, LastPageHoldsAll, VerificationAssumption
  <2>4. QED  BY <2>3, <1>1, <1>4, <1>h
<1>5. QED  BY <1>1, <1>2, <1>3, <1>4

\* The step of a scan, on a history that stays.
LEMMA ScanSelf ==
    ASSUME ReadInv, NEW s \in Scanner, ScanNext(s)
    PROVE  ScanInv(s)'
<1>t. VerificationTypeOK /\ OrderInv /\ ScanInv(s) /\ scan[s] \in ScanRecord
  BY TypeParts DEF ReadInv
<1>h. /\ Len(history) \in Nat /\ DOMAIN history = 1..Len(history)
      /\ \A i \in DOMAIN history : history[i] \in Held
      /\ \A m \in Held : m \in Listing /\ appliedAt[m] \in Nat /\ DayOf(m) \in Nat
      /\ now \in Nat /\ Window \in Nat
  BY <1>t, HistoryFacts
<1>u. history' = history /\ appliedAt' = appliedAt /\ now' = now
  BY DEF ScanNext, ScanBegin, ExtensionPage, VaultPage, ScanStops, SelectVerifying, Unresolved,
         WriteApplication, WriteTask, ScanEnd, ScanFails, board
<1>v. /\ Held' = Held /\ LastPage' = LastPage /\ FirstLast' = FirstLast
      /\ \A m : DayOf(m)' = DayOf(m)
  BY <1>u DEF Held, LastPage, FirstLast, DayOf
<1>p. scan[s].page \in Nat \ {0} /\ scan[s].from \in Nat
  BY <1>t, VerificationAssumption DEF ScanRecord, Time
<1>1. CASE ScanBegin(s)
  <2>1. /\ scan'[s].pc = "page" /\ scan'[s].page = 1 /\ ~scan'[s].complete /\ scan'[s].present = Held
    BY <1>1, <1>t, BeginFields
  <2>2. \A i \in DOMAIN history' : ~(i <= (scan'[s].page - 1) * PageSize)
    BY <2>1, <1>h, <1>u, VerificationAssumption
  <2>3. QED  BY <2>1, <2>2, <1>v DEF ScanInv, ExtensionInv, VaultInv, Scanned
<1>2. CASE ScanEnd(s) \/ ScanFails(s)
  <2>1. scan'[s].pc = "idle"
    BY <1>2, <1>t, EndFields
  <2>2. QED  BY <2>1 DEF ScanInv, ExtensionInv, VaultInv, Scanned
<1>3. CASE \/ ScanStops(s) \/ SelectVerifying(s) \/ WriteTask(s)
           \/ \E r \in scan[s].rows : Unresolved(s, r) \/ WriteApplication(s, r)
  <2>1. /\ Scanned(s)' /\ (scan[s].pc = "page" \/ Scanned(s))
        /\ scan'[s].seen = scan[s].seen /\ scan'[s].complete = scan[s].complete
        /\ scan'[s].from = scan[s].from /\ scan'[s].present = scan[s].present
    BY <1>3, <1>t, LaterFields
  <2>2. scan'[s].pc # "page" /\ scan[s].pc # "idle"
    BY <2>1 DEF Scanned
  <2>3. s \in Extension => ExtensionInv(s)'
    BY <2>1, <2>2, <1>t, <1>v DEF ScanInv, ExtensionInv
  <2>4. s \in Vault => VaultInv(s)'
    BY <2>1, <2>2, <1>t, <1>u, <1>v DEF ScanInv, VaultInv, InWindow
  <2>5. QED  BY <2>1, <2>2, <2>3, <2>4, <1>t, <1>v DEF ScanInv
<1>4. CASE ExtensionPage(s)
  <2> DEFINE p == scan[s].page
  <2>1. /\ s \in Extension /\ scan[s].pc = "page" /\ scan'[s].pc \in {"page", "select"}
        /\ scan'[s].seen = scan[s].seen \cup Kept(s)
        /\ scan'[s].complete <=> Reached(s) \/ p >= LastPage
        /\ scan'[s].pc = "page" => ~scan'[s].complete
        /\ scan'[s].page = p + 1 /\ scan'[s].from = scan[s].from
        /\ scan'[s].present = scan[s].present
    BY <1>4, <1>t, ExtensionPageFields
  <2>2. s \notin Vault /\ scan[s].present \subseteq Held /\ ExtensionInv(s)
    BY <2>1, <1>t, VerificationAssumption DEF ScanInv
  <2>3. /\ (p - 1) * PageSize \in Nat /\ p * PageSize \in Nat
        /\ \A i \in DOMAIN history : i <= p * PageSize => i <= (p - 1) * PageSize \/ history[i] \in Page(p)
        /\ \A l \in Page(p) : \E j \in DOMAIN history : l = history[j] /\ j <= p * PageSize
        /\ p >= LastPage => \A i \in DOMAIN history : i <= p * PageSize
    BY <1>p, <1>t, PageFacts
  <2>4. ASSUME NEW i \in DOMAIN history, i <= p * PageSize, history[i] \in scan[s].present,
               DayOf(history[i]) + Window > scan[s].from
        PROVE  history[i] \in scan'[s].seen
    <3>1. CASE i <= (p - 1) * PageSize
      BY <3>1, <2>1, <2>2, <2>4 DEF ExtensionInv
    <3>2. CASE history[i] \in Page(p)
      <4>1. InWindow(DayOf(history[i]), scan[s].from)
        BY <2>4, <1>h, <1>p DEF InWindow
      <4>2. QED  BY <3>2, <4>1, <2>1 DEF Kept
    <3>3. QED  BY <2>3, <2>4, <3>1, <3>2
  <2>5. ASSUME scan'[s].complete, NEW m \in scan[s].present, DayOf(m) + Window > scan[s].from
        PROVE  m \in scan'[s].seen
    <3>1. PICK i \in DOMAIN history : m = history[i]
      BY <2>2 DEF Held
    <3>2. CASE p >= LastPage
      BY <3>1, <3>2, <2>3, <2>4, <2>5
    <3>3. CASE Reached(s)
      <4>1. PICK l \in Page(p) : DayOf(l) + Window <= scan[s].from
        BY <3>3 DEF Reached
      <4>2. PICK j \in DOMAIN history : l = history[j] /\ j <= p * PageSize
        BY <2>3
      <4>3. ~(j <= i)
        <5>1. DayOf(history[i]) \in Nat /\ DayOf(history[j]) \in Nat
          BY <1>h
        <5>2. j <= i => DayOf(history[i]) <= DayOf(history[j])
          BY <1>t, OlderBelow
        <5>3. QED  BY <5>1, <5>2, <4>1, <4>2, <3>1, <2>5, <1>h, <1>p
      <4>4. i <= p * PageSize
        BY <4>2, <4>3, <2>3, <1>h
      <4>5. QED  BY <3>1, <4>4, <2>4, <2>5
    <3>4. QED  BY <3>2, <3>3, <2>1, <2>5
  <2>6. (scan'[s].page - 1) * PageSize = p * PageSize
    BY <2>1, <1>p
  <2>7. ExtensionInv(s)'
    BY <2>1, <2>4, <2>5, <2>6, <1>u, <1>v DEF ExtensionInv, Scanned
  <2>8. QED  BY <2>1, <2>2, <2>7, <1>v DEF ScanInv
<1>5. CASE VaultPage(s)
  <2> DEFINE p == scan[s].page
  <2>1. /\ s \in Vault /\ scan[s].pc = "page" /\ scan'[s].pc \in {"page", "select"}
        /\ scan'[s].seen = scan[s].seen \cup Page(p)
        /\ scan'[s].complete => PastWindow(s) \/ p = LastOf(s)
        /\ scan'[s].pc = "page" => ~scan'[s].complete
        /\ scan'[s].page = p + 1 /\ scan'[s].last = LastOf(s)
        /\ scan'[s].present = scan[s].present
    BY <1>5, <1>t, VaultPageFields
  <2>2. s \notin Extension /\ scan[s].present \subseteq Held /\ VaultInv(s)
    BY <2>1, <1>t, VerificationAssumption DEF ScanInv
  <2>3. /\ (p - 1) * PageSize \in Nat /\ p * PageSize \in Nat
        /\ \A i \in DOMAIN history : i <= p * PageSize => i <= (p - 1) * PageSize \/ history[i] \in Page(p)
        /\ \A l \in Page(p) : \E j \in DOMAIN history : l = history[j] /\ j <= p * PageSize
        /\ p >= LastPage => \A i \in DOMAIN history : i <= p * PageSize
    BY <1>p, <1>t, PageFacts
  <2>4. SUFFICES ASSUME Held = scan[s].present  PROVE VaultInv(s)'
    BY <2>1, <2>2, <1>v DEF ScanInv, VaultInv
  <2>5. LastOf(s) = FirstLast
    BY <2>1, <2>2, <2>4 DEF VaultInv, LastOf
  <2>6. ASSUME NEW i \in DOMAIN history, i <= p * PageSize  PROVE history[i] \in scan'[s].seen
    BY <2>1, <2>2, <2>3, <2>4, <2>6 DEF VaultInv
  <2>7. ASSUME scan'[s].complete, Len(history) <= MaxPages * PageSize, NEW m \in Held, InWindow(DayOf(m), now)
        PROVE  m \in scan'[s].seen
    <3>1. PICK i \in DOMAIN history : m = history[i]
      BY DEF Held
    <3>2. CASE PastWindow(s)
      <4>1. PICK l \in Page(p) : ~InWindow(DayOf(l), now)
        BY <3>2 DEF PastWindow
      <4>2. PICK j \in DOMAIN history : l = history[j] /\ j <= p * PageSize
        BY <2>3
      <4>3. ~(j <= i)
        <5>1. DayOf(history[i]) \in Nat /\ DayOf(history[j]) \in Nat
          BY <1>h
        <5>2. j <= i => DayOf(history[i]) <= DayOf(history[j])
          BY <1>t, OlderBelow
        <5>3. QED  BY <5>1, <5>2, <4>1, <4>2, <3>1, <2>7, <1>h DEF InWindow
      <4>4. i <= p * PageSize
        BY <4>2, <4>3, <2>3, <1>h
      <4>5. QED  BY <3>1, <4>4, <2>6
    <3>3. CASE p = FirstLast
      <4>1. i <= p * PageSize
        <5>1. CASE p >= LastPage
          BY <5>1, <2>3
        <5>2. CASE p = MaxPages
          BY <5>2, <2>3, <2>7, <1>h
        <5>3. p = LastPage \/ p = MaxPages
          BY <3>3 DEF FirstLast
        <5>4. QED  BY <5>1, <5>2, <5>3, <1>p
      <4>2. QED  BY <3>1, <4>1, <2>6
    <3>4. QED  BY <3>2, <3>3, <2>1, <2>5, <2>7
  <2>8. (scan'[s].page - 1) * PageSize = p * PageSize
    BY <2>1, <1>p
  <2>9. /\ scan'[s].pc = "page" =>
             /\ ~scan'[s].complete
             /\ \A i \in DOMAIN history : i <= (scan'[s].page - 1) * PageSize => history[i] \in scan'[s].seen
             /\ scan'[s].last = FirstLast
        /\ scan'[s].complete /\ Len(history) <= MaxPages * PageSize =>
             \A l \in Held : InWindow(DayOf(l), now) => l \in scan'[s].seen
    BY <2>1, <2>5, <2>6, <2>7, <2>8
  <2>10. QED  BY <2>9, <1>u, <1>v DEF VaultInv, InWindow
<1>6. QED  BY <1>1, <1>2, <1>3, <1>4, <1>5 DEF ScanNext

LEMMA ReadStep ==
    ASSUME ReadInv, [Next]_vars
    PROVE  ReadInv'
<1>t. VerificationTypeOK /\ VerificationTypeOK' /\ OrderInv
  BY TypeStep DEF ReadInv
<1>n. now \in Nat /\ now' \in Nat
  BY <1>t, VerificationAssumption DEF VerificationTypeOK, Time
<1>1. ASSUME scan' = scan, now <= now',
             \/ UNCHANGED board
             \/ now' = now /\ \E l \in Listing \ Held : Arrive(l)
      PROVE  ReadInv'
  <2>1. OrderInv'
    BY <1>1, <1>t, OrderStep
  <2>2. \A s \in Scanner : ScanInv(s)'
    BY <1>1, <1>n, ScanStill
  <2>3. QED  BY <2>1, <2>2, <1>t DEF ReadInv
<1>2. ASSUME NEW s \in Scanner, ScanNext(s)  PROVE ReadInv'
  <2>1. now' = now /\ UNCHANGED board
    BY <1>2 DEF ScanNext, ScanBegin, ExtensionPage, VaultPage, ScanStops, SelectVerifying, Unresolved,
                WriteApplication, WriteTask, ScanEnd, ScanFails
  <2>2. OrderInv'
    BY <2>1, <1>n, <1>t, OrderStep
  <2>3. ASSUME NEW z \in Scanner  PROVE ScanInv(z)'
    <3>1. CASE z = s
      BY <3>1, <1>2, ScanSelf
    <3>2. CASE z # s
      <4>1. scan'[z] = scan[z]
        BY <3>2, <1>2, <1>t, OneScan
      <4>2. QED  BY <4>1, <2>1, <1>n, ScanStill
    <3>3. QED  BY <3>1, <3>2
  <2>4. QED  BY <2>2, <2>3, <1>t DEF ReadInv
<1>3. ASSUME NEW l \in Listing, ApplyByHand(l)  PROVE ReadInv'
  BY <1>1, <1>3, <1>n DEF ApplyByHand
<1>4. ASSUME NEW l \in Own, NEW reached \in BOOLEAN, Click(l, reached)  PROVE ReadInv'
  <2>1. l \in Listing /\ now' = now /\ scan' = scan
    BY <1>4, VerificationAssumption DEF Click
  <2>2. CASE UNCHANGED board
    BY <2>1, <2>2, <1>1, <1>n
  <2>3. CASE Arrive(l) /\ l \notin Held
    BY <2>1, <2>3, <1>1, <1>n
  <2>4. QED  BY <1>4, <2>2, <2>3 DEF Click, Arrive
<1>5. ASSUME NEW l \in Own, NEW status \in {"verifying", "submitted"}, Record(l, status)  PROVE ReadInv'
  BY <1>1, <1>5, <1>n DEF Record
<1>6. ASSUME Tick  PROVE ReadInv'
  BY <1>1, <1>6, <1>n DEF Tick
<1>7. ASSUME UNCHANGED vars  PROVE ReadInv'
  BY <1>1, <1>7, <1>n DEF vars
<1>8. QED  BY <1>2, <1>3, <1>4, <1>5, <1>6, <1>7 DEF Next

LEMMA ReadAlways == Spec => []ReadInv
<1>1. Init => ReadInv
  BY ReadInit
<1>2. ReadInv /\ [Next]_vars => ReadInv'
  BY ReadStep
<1>3. QED  BY <1>1, <1>2, PTL DEF Spec

\* A complete scan of the browser has seen every application that was there when it
\* began and whose day lies after the cutoff.
THEOREM CompleteScanAlways == Spec => []CompleteScanCoversDays
<1>1. ReadInv => CompleteScanCoversDays
  BY DEF ReadInv, ScanInv, ExtensionInv, CompleteScanCoversDays, Scanner
<1>2. QED  BY <1>1, ReadAlways, PTL

\* A complete scan of the server has seen every application of the window, if none
\* arrived meanwhile and the history is within the pages it may read.
THEOREM VaultScanAlways == Spec => []VaultCoversQuietHistory
<1>1. ReadInv => VaultCoversQuietHistory
  BY DEF ReadInv, ScanInv, VaultInv, VaultCoversQuietHistory, Scanner
<1>2. QED  BY <1>1, ReadAlways, PTL

\* A negative answer for an application the board holds is given only if that
\* application came after the scan had begun, or on the day of the cutoff.
THEOREM NegativeExcusedAlways == Spec => NegativeExcused
<1> DEFINE Excused(s, l) == /\ scan[s].pc = "decide" /\ scan'[s].pc = "task"
                            /\ scan'[s].cur = l /\ scan'[s].verdict = "retryable"
                            /\ l \in Held
                            => l \notin scan[s].present \/ DayOf(l) + Window <= scan[s].from
<1>1. ASSUME ReadInv, [Next]_vars, NEW s \in Extension, NEW l \in Own  PROVE Excused(s, l)
  <2> SUFFICES ASSUME scan[s].pc = "decide", scan'[s].pc = "task", scan'[s].cur = l,
                      scan'[s].verdict = "retryable", l \in Held, l \in scan[s].present
               PROVE  DayOf(l) + Window <= scan[s].from
    OBVIOUS
  <2>t. /\ VerificationTypeOK /\ s \in Scanner /\ scan \in [Scanner -> ScanRecord]
        /\ scan[s] \in ScanRecord
    BY <1>1, TypeParts DEF ReadInv, Scanner
  <2>1. PICK z \in Scanner : ScanNext(z)
    <3>1. scan'[s] # scan[s]
      OBVIOUS
    <3>2. QED  BY <3>1, <1>1 DEF Next, vars, ApplyByHand, Click, Record, Tick
  <2>2. z = s
    <3>1. z # s => scan'[s] = scan[s]
      BY <2>t, <2>1, OneScan
    <3>2. QED  BY <3>1
  <2>3. PICK r \in scan[s].rows : WriteApplication(s, r)
    <3>1. ScanNext(s)
      BY <2>1, <2>2
    <3>2. ~ScanBegin(s) /\ ~ScanEnd(s) /\ ~ScanFails(s)
      BY <2>t, BeginFields, EndFields
    <3>3. ~ExtensionPage(s) /\ ~VaultPage(s) /\ ~ScanStops(s) /\ ~SelectVerifying(s) /\ ~WriteTask(s)
      BY DEF ExtensionPage, VaultPage, ScanStops, SelectVerifying, WriteTask
    <3>4. \A r \in scan[s].rows : ~Unresolved(s, r)
      BY <2>t DEF Unresolved, ScanRecord
    <3>5. QED  BY <3>1, <3>2, <3>3, <3>4 DEF ScanNext
  <2>4. r[1] = l /\ Classify(s, l, r[2]) = "retryable"
    BY <2>3, <2>t DEF WriteApplication, ScanRecord
  <2>5. l \notin scan[s].seen /\ scan[s].complete
    BY <2>4 DEF Classify
  <2>6. ExtensionInv(s) /\ Scanned(s)
    BY <1>1, <2>t DEF ReadInv, ScanInv, Scanned
  <2>7. ~(DayOf(l) + Window > scan[s].from)
    BY <2>5, <2>6 DEF ExtensionInv
  <2>8. DayOf(l) \in Nat /\ Window \in Nat /\ scan[s].from \in Nat
    BY <2>t, HistoryFacts, VerificationAssumption DEF ScanRecord, Time
  <2>9. QED  BY <2>7, <2>8
<1>2. ReadInv /\ [Next]_vars => [\A s \in Extension, l \in Own : Excused(s, l)]_vars
  BY <1>1
<1>3. QED  BY <1>2, ReadAlways, PTL DEF Spec, NegativeExcused

(***************************************************************************)
(* An application and its task.                                            *)
(***************************************************************************)

OnTask(s, l) == scan[s].pc = "task" /\ scan[s].cur = l

Agree(l) ==
    CASE app[l] = "submitted" -> task[l] = "succeeded"
      [] app[l] = "verifying" -> task[l] = "verifying"
      [] OTHER -> task[l] \in {"pending", "leased"}

\* Between its two writes a reconciliation has the listing to itself, and has written
\* its verdict.
TaskInv(l) ==
    l \notin torn =>
      /\ \A s, z \in Scanner : OnTask(s, l) /\ OnTask(z, l) => s = z
      /\ \A s \in Scanner : OnTask(s, l) =>
           app[l] = IF scan[s].verdict = "confirmed" THEN "submitted" ELSE "failed"
      /\ (\A s \in Scanner : ~OnTask(s, l)) => Agree(l)

StoryInv == VerificationTypeOK /\ \A l \in Own : TaskInv(l)

\* A step that leaves a listing's rows alone, and the scans that are at them.
LEMMA Uninvolved ==
    ASSUME NEW l \in Own, TaskInv(l), app'[l] = app[l], task'[l] = task[l], torn \subseteq torn',
           \A s \in Scanner : /\ scan'[s].pc = "task" /\ scan'[s].cur = l <=> OnTask(s, l)
                              /\ OnTask(s, l) => scan'[s].verdict = scan[s].verdict
    PROVE  TaskInv(l)'
<1>1. Agree(l)' <=> Agree(l)
  BY DEF Agree
<1>2. SUFFICES ASSUME l \notin torn'  PROVE TaskInv(l)'
  BY DEF TaskInv
<1>3. l \notin torn
  BY <1>2
<1>8. /\ \A s, z \in Scanner : OnTask(s, l) /\ OnTask(z, l) => s = z
      /\ \A s \in Scanner : OnTask(s, l) =>
           app[l] = IF scan[s].verdict = "confirmed" THEN "submitted" ELSE "failed"
      /\ (\A s \in Scanner : ~OnTask(s, l)) => Agree(l)
  BY <1>3 DEF TaskInv
<1>9. ASSUME NEW s \in Scanner
      PROVE  /\ OnTask(s, l)' <=> OnTask(s, l)
             /\ OnTask(s, l) => scan'[s].verdict = scan[s].verdict
  <2>1. scan'[s].pc = "task" /\ scan'[s].cur = l <=> OnTask(s, l)
    OBVIOUS
  <2>2. OnTask(s, l) => scan'[s].verdict = scan[s].verdict
    OBVIOUS
  <2>3. OnTask(s, l)' <=> scan'[s].pc = "task" /\ scan'[s].cur = l
    BY DEF OnTask
  <2>4. QED  BY <2>1, <2>2, <2>3
<1>4. \A s, z \in Scanner : OnTask(s, l)' /\ OnTask(z, l)' => s = z
  BY <1>8, <1>9
<1>5. \A s \in Scanner : OnTask(s, l)' =>
         app'[l] = IF scan'[s].verdict = "confirmed" THEN "submitted" ELSE "failed"
  BY <1>8, <1>9
<1>6. (\A s \in Scanner : ~OnTask(s, l)') => Agree(l)'
  BY <1>1, <1>8, <1>9
<1>7. QED  BY <1>4, <1>5, <1>6 DEF TaskInv

LEMMA StoryStep ==
    ASSUME StoryInv, [Next]_vars
    PROVE  StoryInv'
<1>t. /\ VerificationTypeOK /\ VerificationTypeOK' /\ scan \in [Scanner -> ScanRecord]
      /\ app \in [Own -> {"none", "verifying", "submitted", "failed"}]
      /\ task \in [Own -> {"pending", "leased", "verifying", "succeeded"}]
  BY TypeStep, TypeParts DEF StoryInv, QueueOK
<1>i. \A l \in Own : TaskInv(l)
  BY DEF StoryInv
<1>g. ASSUME \A l \in Own : TaskInv(l)'  PROVE StoryInv'
  BY <1>g, <1>t DEF StoryInv
<1>s. ASSUME scan' = scan, NEW l \in Own, app'[l] = app[l], task'[l] = task[l], torn \subseteq torn'
      PROVE  TaskInv(l)'
  <2>1. \A s \in Scanner : scan'[s].pc = "task" /\ scan'[s].cur = l <=> OnTask(s, l)
    BY <1>s DEF OnTask
  <2>2. QED  BY <2>1, <1>s, <1>i, Uninvolved
<1>1. CASE Tick \/ UNCHANGED vars \/ \E l \in Listing : ApplyByHand(l)
  <2>1. scan' = scan /\ app' = app /\ task' = task /\ torn' = torn
    BY <1>1 DEF Tick, vars, queue, ApplyByHand
  <2>2. QED  BY <2>1, <1>s, <1>g
<1>2. ASSUME NEW l \in Own, NEW reached \in BOOLEAN, Click(l, reached)  PROVE StoryInv'
  <2>1. /\ scan' = scan /\ app' = app /\ torn' = torn /\ task[l] = "pending"
        /\ task'[l] = "leased" /\ \A m \in Own \ {l} : task'[m] = task[m]
    BY <1>2, <1>t DEF Click
  <2>2. TaskInv(l)'
    <3>1. TaskInv(l) /\ \A s \in Scanner : OnTask(s, l)' <=> OnTask(s, l)
      BY <2>1, <1>i DEF OnTask
    <3>2. Agree(l) => Agree(l)'
      BY <2>1 DEF Agree
    <3>3. QED  BY <2>1, <3>1, <3>2 DEF TaskInv
  <2>3. \A m \in Own \ {l} : TaskInv(m)'
    BY <2>1, <1>s
  <2>4. QED  BY <2>2, <2>3, <1>g
<1>3. ASSUME NEW l \in Own, NEW status \in {"verifying", "submitted"}, Record(l, status)  PROVE StoryInv'
  <2>1. /\ scan' = scan /\ app'[l] = status /\ torn \subseteq torn'
        /\ task'[l] = IF status = "submitted" THEN "succeeded" ELSE "verifying"
        /\ \A m \in Own \ {l} : task'[m] = task[m] /\ app'[m] = app[m]
        /\ (\E s \in Scanner : scan[s].pc = "task" /\ scan[s].cur = l) => l \in torn'
    BY <1>3, <1>t DEF Record
  <2>2. TaskInv(l)'
    <3>1. l \notin torn' => \A s \in Scanner : ~OnTask(s, l)'
      BY <2>1 DEF OnTask
    <3>2. Agree(l)'
      BY <2>1 DEF Agree
    <3>3. QED  BY <3>1, <3>2 DEF TaskInv
  <2>3. \A m \in Own \ {l} : TaskInv(m)'
    BY <2>1, <1>s
  <2>4. QED  BY <2>2, <2>3, <1>g
<1>4. ASSUME NEW s \in Scanner, ScanNext(s)  PROVE StoryInv'
  <2>o. \A z \in Scanner \ {s} : scan'[z] = scan[z]
    BY <1>4, <1>t, OneScan
  <2>w. scan[s] \in ScanRecord
    BY <1>t
  <2>a. ASSUME NEW m \in Own, app'[m] = app[m], task'[m] = task[m], torn \subseteq torn',
               ~OnTask(s, m), ~OnTask(s, m)'
        PROVE  TaskInv(m)'
    <3>1. \A z \in Scanner : /\ scan'[z].pc = "task" /\ scan'[z].cur = m <=> OnTask(z, m)
                             /\ OnTask(z, m) => scan'[z].verdict = scan[z].verdict
      BY <2>o, <2>a DEF OnTask
    <3>2. QED  BY <3>1, <2>a, <1>i, Uninvolved
  <2>1. ASSUME NEW r \in scan[s].rows, WriteApplication(s, r)  PROVE StoryInv'
    <3> DEFINE l == r[1]
               v == Classify(s, l, r[2])
    <3>1. l \in Own
      BY <2>w DEF ScanRecord
    <3>2. /\ app' = [app EXCEPT ![l] = IF v = "confirmed" THEN "submitted" ELSE "failed"]
          /\ scan' = [scan EXCEPT ![s].rows = Rest(s, r), ![s].pc = "task", ![s].cur = l, ![s].verdict = v]
          /\ torn' = IF task[l] # "verifying" \/ \E o \in Scanner : scan[o].pc = "task" /\ scan[o].cur = l
                     THEN torn \cup {l} ELSE torn
          /\ task' = task /\ scan[s].pc = "decide"
      BY <2>1, <1>t DEF WriteApplication
    <3> HIDE DEF l, v
    <3>3. scan'[s].pc = "task" /\ scan'[s].cur = l /\ scan'[s].verdict = v
      BY <3>2, <2>w, <1>t DEF ScanRecord
    <3>4. TaskInv(l)'
      <4> SUFFICES ASSUME l \notin torn'  PROVE TaskInv(l)'
        BY DEF TaskInv
      <4>1. \A o \in Scanner : ~OnTask(o, l)
        BY <3>2 DEF OnTask
      <4>2. \A o \in Scanner : OnTask(o, l)' => o = s
        BY <4>1, <2>o DEF OnTask
      <4>3. app'[l] = IF scan'[s].verdict = "confirmed" THEN "submitted" ELSE "failed"
        BY <3>1, <3>2, <3>3, <1>t
      <4>4. OnTask(s, l)'
        BY <3>3 DEF OnTask
      <4>5. QED  BY <4>2, <4>3, <4>4 DEF TaskInv
    <3>5. ASSUME NEW m \in Own \ {l}  PROVE TaskInv(m)'
      <4>1. ~OnTask(s, m) /\ ~OnTask(s, m)'
        BY <3>2, <3>3 DEF OnTask
      <4>2. QED  BY <4>1, <3>1, <3>2, <2>a, <1>t
    <3>6. QED  BY <3>4, <3>5, <1>g
  <2>2. CASE WriteTask(s)
    <3>0. scan[s].cur \in Own /\ scan[s].pc = "task"
      BY <2>2, <1>t, TypeParts DEF WriteTask
    <3>1. PICK l \in Own : l = scan[s].cur
      BY <3>0
    <3>2. /\ task' = [task EXCEPT ![l] = IF scan[s].verdict = "confirmed" THEN "succeeded" ELSE "pending"]
          /\ app' = app /\ torn' = torn /\ scan'[s].pc = "decide"
      BY <2>2, <3>1, <2>w, <1>t DEF WriteTask, ScanRecord
    <3>3. TaskInv(l)'
      <4> SUFFICES ASSUME l \notin torn  PROVE TaskInv(l)'
        BY <3>2 DEF TaskInv
      <4>1. OnTask(s, l) /\ TaskInv(l)
        BY <3>0, <3>1, <1>i DEF OnTask
      <4>2. \A o \in Scanner : ~OnTask(o, l)'
        BY <4>1, <3>2, <2>o DEF OnTask, TaskInv
      <4>3. Agree(l)'
        <5>1. app'[l] = IF scan[s].verdict = "confirmed" THEN "submitted" ELSE "failed"
          BY <4>1, <3>2 DEF TaskInv
        <5>2. task'[l] = IF scan[s].verdict = "confirmed" THEN "succeeded" ELSE "pending"
          BY <3>1, <3>2, <1>t
        <5>3. QED  BY <5>1, <5>2 DEF Agree
      <4>4. QED  BY <4>2, <4>3 DEF TaskInv
    <3>4. ASSUME NEW m \in Own \ {l}  PROVE TaskInv(m)'
      <4>1. ~OnTask(s, m) /\ ~OnTask(s, m)'
        BY <3>1, <3>2 DEF OnTask
      <4>2. QED  BY <4>1, <3>1, <3>2, <2>a, <1>t
    <3>5. QED  BY <3>3, <3>4, <1>g
  <2>3. CASE ScanFails(s)
    <3>1. /\ app' = app /\ task' = task /\ torn \subseteq torn' /\ scan'[s].pc = "idle"
          /\ scan[s].pc = "task" => scan[s].cur \in torn'
      BY <2>3, <1>t, EndFields DEF ScanFails, queue
    <3>2. ASSUME NEW m \in Own  PROVE TaskInv(m)'
      <4>1. CASE OnTask(s, m)
        BY <4>1, <3>1 DEF OnTask, TaskInv
      <4>2. CASE ~OnTask(s, m)
        BY <4>2, <3>1, <2>a DEF OnTask
      <4>3. QED  BY <4>1, <4>2
    <3>3. QED  BY <3>2, <1>g
  <2>4. CASE \/ ScanBegin(s) \/ ExtensionPage(s) \/ VaultPage(s) \/ ScanStops(s) \/ SelectVerifying(s)
             \/ ScanEnd(s) \/ \E r \in scan[s].rows : Unresolved(s, r)
    <3>1. app' = app /\ task' = task /\ torn' = torn /\ scan[s].pc # "task"
      BY <2>4 DEF ScanBegin, ExtensionPage, VaultPage, ScanStops, SelectVerifying, ScanEnd, Unresolved, queue
    <3>2. scan'[s].pc # "task"
      <4>1. CASE ScanBegin(s) \/ ScanEnd(s)
        BY <4>1, <1>t, BeginFields, EndFields
      <4>2. CASE ExtensionPage(s) \/ VaultPage(s)
        BY <4>2, <1>t, ExtensionPageFields, VaultPageFields
      <4>3. CASE ScanStops(s) \/ SelectVerifying(s)
        BY <4>3, <2>w, <1>t DEF ScanStops, SelectVerifying, ScanRecord
      <4>4. CASE \E r \in scan[s].rows : Unresolved(s, r)
        BY <4>4, <2>w, <1>t DEF Unresolved, ScanRecord
      <4>5. QED  BY <2>4, <4>1, <4>2, <4>3, <4>4
    <3>3. QED  BY <3>1, <3>2, <2>a, <1>g DEF OnTask
  <2>5. QED  BY <1>4, <2>1, <2>2, <2>3, <2>4 DEF ScanNext
<1>5. QED  BY <1>1, <1>2, <1>3, <1>4 DEF Next

\* An application and its task tell the same story, unless a failure or another
\* writer split the two writes of a reconciliation.
THEOREM StoryAlways == Spec => []ApplicationMatchesTask
<1>1. Init => StoryInv
  <2>1. ASSUME Init, NEW l \in Own  PROVE TaskInv(l)
    <3>1. \A s \in Scanner : scan[s].pc = "idle"
      BY <2>1 DEF Init, NoScan
    <3>2. app[l] = "none" /\ task[l] = "pending"
      BY <2>1 DEF Init
    <3>3. QED  BY <3>1, <3>2 DEF TaskInv, OnTask, Agree
  <2>2. QED  BY <2>1, TypeInit DEF StoryInv
<1>2. StoryInv /\ [Next]_vars => StoryInv'
  BY StoryStep
<1>3. StoryInv => ApplicationMatchesTask
  BY DEF StoryInv, TaskInv, OnTask, Agree, ApplicationMatchesTask
<1>4. QED  BY <1>1, <1>2, <1>3, PTL DEF Spec
=============================================================================
