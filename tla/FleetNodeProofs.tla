---------------------------- MODULE FleetNodeProofs ----------------------------
(***************************************************************************)
(* Proofs about a fleet node, for every set of commands, nodes, users and  *)
(* postings and whatever fails.  First its commands: their type invariant, *)
(* that reruns are excused, and that they implement the safety part of     *)
(* CommandDelivery.  Then its discovery: whose turn it is, what was sent,  *)
(* whom the scheduler attempts.  Last the node, which is both.             *)
(***************************************************************************)
EXTENDS FleetNode, FiniteSetTheorems, WellFoundedInduction, TLAPS

(***************************************************************************)
(* The batch of a node.                                                    *)
(***************************************************************************)

\* A set of numbers that is not empty has a least one.
LEMMA LeastNumber ==
    ASSUME NEW S \in SUBSET Nat, S # {}
    PROVE  \E i \in S : \A j \in S : i <= j
<1> DEFINE Less == {p \in Nat \X Nat : p[1] < p[2]}
<1>1. IsWellFoundedOn(Less, Nat)
  BY NatLessThanWellFounded DEF OpToRel
<1>2. \E i \in S : \A j \in S : <<j, i>> \notin Less
  BY <1>1, WFMin
<1>3. \A i, j \in S : <<j, i>> \notin Less => i <= j
  <2> TAKE i, j \in S
  <2>1. i \in Nat /\ j \in Nat
    OBVIOUS
  <2>2. j < i => <<j, i>> \in Less
    BY <2>1
  <2> QED  BY <2>1, <2>2
<1> HIDE DEF Less
<1> QED  BY <1>2, <1>3

\* A batch that is not empty has a command that was issued first, and the node
\* handles that one.
LEMMA CurrentInBatch ==
    ASSUME CommandsTypeOK, NEW n \in Node, batch[n] # {}
    PROVE  Current(n) \in batch[n]
<1> DEFINE S == {issuedAt[c] : c \in batch[n]}
<1>1. batch[n] \subseteq Command /\ issuedAt \in [Command -> Nat]
  BY DEF CommandsTypeOK
<1>2. S \in SUBSET Nat /\ S # {}
  BY <1>1
<1>3. PICK i \in S : \A j \in S : i <= j
  BY <1>2, LeastNumber
<1>4. \E c \in batch[n] : \A d \in batch[n] : issuedAt[c] <= issuedAt[d]
  BY <1>3
<1> QED  BY <1>4 DEF Current

(***************************************************************************)
(* Types.                                                                  *)
(***************************************************************************)

AckStatus == {"acked", "done", "failed"}

\* An acknowledgement, recorded, lost or late, keeps the types.
LEMMA SafeAckType ==
    ASSUME CommandsTypeOK, NEW c \in Command, NEW s \in AckStatus, SafeAck(c, s)
    PROVE  /\ status' \in [Command -> Status]
           /\ late' \subseteq Command \X AckStatus
           /\ closed' \subseteq Command
           /\ losses' \in Nat /\ losses' <= MaxLosses
<1> USE CommandAssumption
<1>1. CASE Acknowledge(c, s) /\ UNCHANGED <<late, losses>>
  BY <1>1 DEF CommandsTypeOK, Acknowledge, AckStatus, Status
<1>2. CASE /\ losses < MaxLosses /\ losses' = losses + 1
           /\ late' \in {late, late \cup {<<c, s>>}}
           /\ UNCHANGED <<status, closed>>
  BY <1>2 DEF CommandsTypeOK, AckStatus
<1> QED  BY <1>1, <1>2 DEF SafeAck

\* Every step keeps the type invariant.
LEMMA CommandsTypeStep ==
    ASSUME CommandsTypeOK, [CommandsNext]_commandVars
    PROVE  CommandsTypeOK'
<1> USE CommandAssumption
<1>1. ASSUME NEW c \in Command, IssueCommand(c)  PROVE CommandsTypeOK'
  BY <1>1 DEF CommandsTypeOK, IssueCommand, issueVars, Status
<1>2. ASSUME NEW c \in Command, NEW s \in AckStatus, LateAck(c, s)  PROVE CommandsTypeOK'
  BY <1>2 DEF CommandsTypeOK, LateAck, Acknowledge, issueVars, AckStatus, Status
<1>3. ASSUME NEW n \in Node, Poll(n)  PROVE CommandsTypeOK'
  <2>1. Polled(n) \subseteq Command
    BY DEF Polled
  <2> QED  BY <1>3, <2>1 DEF CommandsTypeOK, Poll, issueVars, Step
<1>4. ASSUME NEW n \in Node, Take(n)  PROVE CommandsTypeOK'
  <2>1. batch[n] # {} /\ Current(n) \in Command
    BY <1>4, CurrentInBatch DEF CommandsTypeOK, Take
  <2>2. /\ status' \in [Command -> Status] /\ late' \subseteq Command \X AckStatus
        /\ closed' \subseteq Command /\ losses' \in Nat /\ losses' <= MaxLosses
    BY <1>4, <2>1, SafeAckType DEF Take, AckStatus
  <2> QED  BY <1>4, <2>1, <2>2 DEF CommandsTypeOK, Take, issueVars, Step, AckStatus
<1>5. ASSUME NEW n \in Node, RunCommand(n)  PROVE CommandsTypeOK'
  <2>1. batch[n] # {} /\ Current(n) \in Command
    BY <1>5, CurrentInBatch DEF CommandsTypeOK, RunCommand
  <2>2. ran' \subseteq Command /\ untaken' \in [Command -> Nat] /\ reruns' \in [Command -> Nat]
    <3>1. ran' = ran \cup {Current(n)}
      BY <1>5 DEF RunCommand
    <3>2. untaken' = [untaken EXCEPT ![Current(n)] = @ + 1] \/ untaken' = untaken
      BY <1>5 DEF RunCommand
    <3>3. reruns' = [reruns EXCEPT ![Current(n)] = @ + 1] \/ reruns' = reruns
      BY <1>5 DEF RunCommand
    <3>4. ran \subseteq Command /\ untaken \in [Command -> Nat] /\ reruns \in [Command -> Nat]
      BY DEF CommandsTypeOK
    <3> QED  BY <2>1, <3>1, <3>2, <3>3, <3>4
  <2>3. /\ batch' \in [Node -> SUBSET Command] /\ step' \in [Node -> Step]
        /\ \A m \in Node : step'[m] = "idle" <=> batch'[m] = {}
    <3>1. CASE step' = [step EXCEPT ![n] = "report done"] /\ UNCHANGED batch
      BY <2>1, <3>1 DEF CommandsTypeOK, Step
    <3>2. CASE step' = [step EXCEPT ![n] = "report failed"] /\ UNCHANGED batch
      BY <2>1, <3>2 DEF CommandsTypeOK, Step
    <3>3. CASE Restarts(n)
      BY <3>3 DEF CommandsTypeOK, Restarts, Step
    <3> QED  BY <1>5, <3>1, <3>2, <3>3 DEF RunCommand
  <2> QED  BY <1>5, <2>2, <2>3 DEF CommandsTypeOK, RunCommand, issueVars
<1>6. ASSUME NEW n \in Node, ReportOutcome(n)  PROVE CommandsTypeOK'
  <2>1. batch[n] # {} /\ Current(n) \in Command
    BY <1>6, CurrentInBatch DEF CommandsTypeOK, ReportOutcome
  <2>2. /\ status' \in [Command -> Status] /\ late' \subseteq Command \X AckStatus
        /\ closed' \subseteq Command /\ losses' \in Nat /\ losses' <= MaxLosses
    BY <1>6, <2>1, SafeAckType DEF ReportOutcome, AckStatus
  <2>3. /\ batch' \in [Node -> SUBSET Command] /\ step' \in [Node -> Step]
        /\ \A m \in Node : step'[m] = "idle" <=> batch'[m] = {}
    <3>1. CASE Restarts(n)
      BY <3>1 DEF CommandsTypeOK, Restarts, Step
    <3>2. CASE /\ batch' = [batch EXCEPT ![n] = batch[n] \ {Current(n)}]
               /\ step' = [step EXCEPT ![n] = IF batch[n] \ {Current(n)} = {} THEN "idle" ELSE "take"]
      BY <3>2 DEF CommandsTypeOK, Step
    <3> QED  BY <1>6, <3>1, <3>2 DEF ReportOutcome, AfterReport
  <2> QED  BY <1>6, <2>2, <2>3 DEF CommandsTypeOK, ReportOutcome, issueVars, AckStatus
<1>7. ASSUME NEW n \in Node, NodeDies(n)  PROVE CommandsTypeOK'
  <2>1. /\ batch' \in [Node -> SUBSET Command] /\ step' \in [Node -> Step]
        /\ \A m \in Node : step'[m] = "idle" <=> batch'[m] = {}
    BY <1>7 DEF CommandsTypeOK, NodeDies, Restarts, Step
  <2>2. deaths' \in Nat /\ deaths' <= MaxDeaths
    BY <1>7 DEF CommandsTypeOK, NodeDies
  <2> QED  BY <1>7, <2>1, <2>2 DEF CommandsTypeOK, NodeDies, issueVars
<1>8. CASE UNCHANGED commandVars
  BY <1>8 DEF CommandsTypeOK, commandVars, issueVars
<1> QED
  BY <1>1, <1>2, <1>3, <1>4, <1>5, <1>6, <1>7, <1>8 DEF CommandsNext, CommandPhase, AckStatus

\* The rows of worker_commands, the batches and the acknowledgements under way keep
\* their types, and a node is idle exactly when its batch is empty.
THEOREM CommandsType == CommandsSpec => []CommandsTypeOK
<1>1. CommandsInit => CommandsTypeOK
  BY CommandAssumption DEF CommandsInit, CommandsTypeOK, Status, Step
<1> QED  BY <1>1, CommandsTypeStep, PTL DEF CommandsSpec

(***************************************************************************)
(* What the history of a command says about its rows and batches.          *)
(***************************************************************************)

Reporting(n) == step[n] \in {"report done", "report failed"}

\* The command waits in a batch for its run.
ToRun(c) == \E n \in Node : c \in batch[n] /\ ~(Reporting(n) /\ c = Current(n))

\* Commands in a batch or in a late acknowledgement were issued; what is reported was
\* run.
TracksRows ==
    /\ \A n \in Node, c \in Command : c \in batch[n] => status[c] # "none" /\ NodeOf[c] = n
    /\ \A c \in Command, s \in AckStatus : <<c, s>> \in late => status[c] # "none" /\ (s # "acked" => c \in ran)
    /\ \A n \in Node : Reporting(n) => Current(n) \in ran
    /\ \A c \in ran : status[c] # "none"

\* Each run so far was excused, and one excuse is left over for a command that is yet
\* to be run again.
TracksRuns ==
    \A c \in Command :
        /\ reruns[c] <= untaken[c]
        /\ c \notin ran => reruns[c] = 0
        /\ c \in ran /\ (status[c] = "pending" \/ ToRun(c)) => reruns[c] < untaken[c]

CommandsInv == CommandsTypeOK /\ TracksRows /\ TracksRuns

\* A node's current command is the same as long as its batch is, and what the batch
\* holds keeps its issue number.
LEMMA SameCurrent ==
    ASSUME NEW n \in Node, batch'[n] = batch[n],
           \A c \in batch[n] : issuedAt'[c] = issuedAt[c]
    PROVE  Current(n)' = Current(n)
<1>1. \A c \in batch[n] : (\A d \in batch[n] : issuedAt[c] <= issuedAt[d])
                          <=> (\A d \in batch[n] : issuedAt'[c] <= issuedAt'[d])
  OBVIOUS
<1>2. (CHOOSE c \in batch[n] : \A d \in batch[n] : issuedAt[c] <= issuedAt[d])
      = (CHOOSE c \in batch[n] : \A d \in batch[n] : issuedAt'[c] <= issuedAt'[d])
  BY <1>1, Zenon
<1> QED  BY <1>2 DEF Current

\* An acknowledgement changes only the row of its command, to its own status.
LEMMA SafeAckRow ==
    ASSUME CommandsTypeOK, NEW c \in Command, NEW s \in AckStatus, SafeAck(c, s)
    PROVE  /\ \A d \in Command : status'[d] = status[d] \/ (d = c /\ status'[d] = s)
           /\ late' \subseteq late \cup {<<c, s>>}
<1>1. CASE Acknowledge(c, s) /\ UNCHANGED <<late, losses>>
  BY <1>1 DEF CommandsTypeOK, Acknowledge
<1>2. CASE late' \in {late, late \cup {<<c, s>>}} /\ UNCHANGED status
  BY <1>2
<1> QED  BY <1>1, <1>2 DEF SafeAck

\* A step of the control plane or of a node keeps rows, batches and history together.
LEMMA TracksRowsStep ==
    ASSUME CommandsTypeOK, TracksRows, [CommandsNext]_commandVars
    PROVE  TracksRows'
<1>t. /\ status \in [Command -> Status] /\ batch \in [Node -> SUBSET Command]
      /\ step \in [Node -> Step] /\ issuedAt \in [Command -> Nat] /\ ran \subseteq Command
      /\ late \subseteq Command \X AckStatus
      /\ \A n \in Node : step[n] = "idle" <=> batch[n] = {}
  BY DEF CommandsTypeOK, AckStatus
<1>1. ASSUME NEW c \in Command, IssueCommand(c)  PROVE TracksRows'
  <2>1. \A n \in Node : c \notin batch[n]
    BY <1>1, <1>t DEF TracksRows, IssueCommand
  <2>2. \A n \in Node : Current(n)' = Current(n)
    <3> TAKE n \in Node
    <3>1. batch'[n] = batch[n] /\ \A d \in batch[n] : issuedAt'[d] = issuedAt[d]
      BY <1>1, <1>t, <2>1 DEF IssueCommand
    <3> QED  BY <3>1, SameCurrent
  <2>3. \A d \in Command : status[d] # "none" => status'[d] # "none"
    BY <1>1, <1>t DEF IssueCommand
  <2>4. UNCHANGED <<batch, step, ran, late>>
    BY <1>1 DEF IssueCommand
  <2>5. \A m \in Node : Reporting(m)' <=> Reporting(m)
    BY <2>4 DEF Reporting
  <2>6. \A d \in ran' : status'[d] # "none"
    BY <2>3, <2>4, <1>t DEF TracksRows
  <2> QED  BY <2>2, <2>3, <2>4, <2>5, <2>6, <1>t DEF TracksRows
<1>2. ASSUME NEW c \in Command, NEW s \in AckStatus, LateAck(c, s)  PROVE TracksRows'
  <2>1. \A n \in Node : Current(n)' = Current(n)
    BY <1>2, SameCurrent DEF LateAck, issueVars
  <2>2. \A d \in Command : status[d] # "none" => status'[d] # "none"
    BY <1>2, <1>t DEF LateAck, Acknowledge, AckStatus
  <2>3. UNCHANGED <<batch, step, ran>> /\ late' \subseteq late
    BY <1>2 DEF LateAck
  <2>4. \A m \in Node : Reporting(m)' <=> Reporting(m)
    BY <2>3 DEF Reporting
  <2>5. \A d \in ran' : status'[d] # "none"
    BY <2>2, <2>3, <1>t DEF TracksRows
  <2> QED  BY <2>1, <2>2, <2>3, <2>4, <2>5, <1>t DEF TracksRows
<1>3. ASSUME NEW n \in Node, Poll(n)  PROVE TracksRows'
  <2>1. \A m \in Node \ {n} : Current(m)' = Current(m)
    <3> TAKE m \in Node \ {n}
    <3>1. batch'[m] = batch[m] /\ UNCHANGED issuedAt
      BY <1>3, <1>t DEF Poll, issueVars
    <3> QED  BY <3>1, SameCurrent
  <2>2. ~Reporting(n)' /\ \A m \in Node \ {n} : Reporting(m)' <=> Reporting(m)
    BY <1>3, <1>t DEF Poll, Reporting
  <2>3. \A m \in Node, d \in Command : d \in batch'[m] => status'[d] # "none" /\ NodeOf[d] = m
    BY <1>3, <1>t DEF Poll, Polled, Pollable, TracksRows
  <2> QED  BY <1>3, <2>1, <2>2, <2>3 DEF TracksRows, Poll
<1>4. ASSUME NEW n \in Node, Take(n)  PROVE TracksRows'
  <2>1. Current(n) \in batch[n] /\ Current(n) \in Command
    BY <1>4, <1>t, CurrentInBatch DEF Take
  <2>2. SafeAck(Current(n), "acked") /\ "acked" \in AckStatus
    BY <1>4 DEF Take, AckStatus
  <2>3. /\ \A d \in Command : status'[d] = status[d] \/ status'[d] = "acked"
        /\ late' \subseteq late \cup {<<Current(n), "acked">>}
    BY <2>1, <2>2, SafeAckRow
  <2>4. \A m \in Node : Current(m)' = Current(m)
    BY <1>4, SameCurrent DEF Take, issueVars
  <2>5. status'[Current(n)] # "none" /\ \A d \in Command : status[d] # "none" => status'[d] # "none"
    BY <2>1, <2>3, <1>t DEF TracksRows
  <2>6. \A m \in Node : Reporting(m)' => Reporting(m)
    BY <1>4, <1>t DEF Take, Reporting
  <2>7. UNCHANGED <<batch, ran>>
    BY <1>4 DEF Take
  <2>8. \A d \in ran' : status'[d] # "none"
    BY <2>5, <2>7, <1>t DEF TracksRows
  <2> QED  BY <2>3, <2>4, <2>5, <2>6, <2>7, <2>8, <1>t DEF TracksRows
<1>5. ASSUME NEW n \in Node, RunCommand(n)  PROVE TracksRows'
  <2>1. \A m \in Node : batch'[m] = batch[m] \/ batch'[m] = {}
    BY <1>5, <1>t DEF RunCommand, Restarts
  <2>2. \A m \in Node : batch'[m] = batch[m] => Current(m)' = Current(m)
    BY <1>5, SameCurrent DEF RunCommand, issueVars
  <2>3. \A m \in Node : Reporting(m)' => batch'[m] = batch[m] /\ (m = n \/ Reporting(m))
    <3>1. CASE UNCHANGED batch /\ \E s \in {"report done", "report failed"} : step' = [step EXCEPT ![n] = s]
      BY <3>1, <1>t DEF Reporting
    <3>2. CASE Restarts(n)
      BY <3>2, <1>t DEF Reporting, Restarts
    <3> QED  BY <1>5, <3>1, <3>2 DEF RunCommand
  <2>4. ran' = ran \cup {Current(n)} /\ UNCHANGED <<status, late>>
    BY <1>5 DEF RunCommand
  <2>5. Current(n) \in batch[n] /\ Current(n) \in Command
    BY <1>5, <1>t, CurrentInBatch DEF RunCommand
  <2>6. \A d \in ran' : status'[d] # "none"
    BY <2>4, <2>5, <1>t DEF TracksRows
  <2>7. \A m \in Node, d \in Command : d \in batch'[m] => status'[d] # "none" /\ NodeOf[d] = m
    BY <2>1, <2>4 DEF TracksRows
  <2>8. \A m \in Node : Reporting(m)' => Current(m)' \in ran'
    BY <2>2, <2>3, <2>4 DEF TracksRows
  <2>9. \A d \in Command, s \in AckStatus :
          <<d, s>> \in late' => status'[d] # "none" /\ (s # "acked" => d \in ran')
    BY <2>4 DEF TracksRows
  <2> QED  BY <2>6, <2>7, <2>8, <2>9 DEF TracksRows
<1>6. ASSUME NEW n \in Node, ReportOutcome(n)  PROVE TracksRows'
  <2>1. Current(n) \in batch[n] /\ Current(n) \in Command /\ Current(n) \in ran
    BY <1>6, <1>t, CurrentInBatch DEF ReportOutcome, TracksRows, Reporting
  <2> DEFINE s == IF step[n] = "report done" THEN "done" ELSE "failed"
  <2>2. SafeAck(Current(n), s) /\ s \in AckStatus /\ s # "none"
    BY <1>6 DEF ReportOutcome, AckStatus
  <2>3. /\ \A d \in Command : status'[d] = status[d] \/ status'[d] = s
        /\ late' \subseteq late \cup {<<Current(n), s>>}
    BY <2>1, <2>2, SafeAckRow
  <2>4. status'[Current(n)] # "none" /\ \A d \in Command : status[d] # "none" => status'[d] # "none"
    BY <2>1, <2>2, <2>3 DEF TracksRows
  <2>5. \A m \in Node : batch'[m] \subseteq batch[m] /\ (m # n => batch'[m] = batch[m] /\ step'[m] = step[m])
    <3>1. CASE Restarts(n)
      BY <3>1, <1>t DEF Restarts
    <3>2. CASE /\ batch' = [batch EXCEPT ![n] = batch[n] \ {Current(n)}]
               /\ step' = [step EXCEPT ![n] = IF batch[n] \ {Current(n)} = {} THEN "idle" ELSE "take"]
      BY <3>2, <1>t
    <3> QED  BY <1>6, <3>1, <3>2 DEF ReportOutcome, AfterReport
  <2>6. ~Reporting(n)'
    BY <1>6, <1>t DEF ReportOutcome, AfterReport, Restarts, Reporting
  <2>7. \A m \in Node \ {n} : Current(m)' = Current(m)
    BY <1>6, <2>5, SameCurrent DEF ReportOutcome, issueVars
  <2>8. UNCHANGED ran
    BY <1>6 DEF ReportOutcome
  <2>9. \A m \in Node : Reporting(m)' => m # n /\ Reporting(m)
    BY <2>5, <2>6 DEF Reporting
  <2> HIDE DEF s
  <2>10. \A m \in Node, c \in Command : c \in batch'[m] => status'[c] # "none" /\ NodeOf[c] = m
    BY <2>4, <2>5 DEF TracksRows
  <2>11. \A c \in Command, a \in AckStatus :
           <<c, a>> \in late' => status'[c] # "none" /\ (a # "acked" => c \in ran')
    BY <2>1, <2>3, <2>4, <2>8 DEF TracksRows
  <2>12. \A m \in Node : Reporting(m)' => Current(m)' \in ran'
    BY <2>7, <2>8, <2>9 DEF TracksRows
  <2>13. \A c \in ran' : status'[c] # "none"
    BY <2>4, <2>8, <1>t DEF TracksRows
  <2> QED  BY <2>10, <2>11, <2>12, <2>13 DEF TracksRows
<1>7. ASSUME NEW n \in Node, NodeDies(n)  PROVE TracksRows'
  <2>1. \A m \in Node \ {n} : batch'[m] = batch[m] /\ step'[m] = step[m] /\ UNCHANGED issuedAt
    BY <1>7, <1>t DEF NodeDies, Restarts, issueVars
  <2>2. batch'[n] = {} /\ ~Reporting(n)'
    BY <1>7, <1>t DEF NodeDies, Restarts, Reporting
  <2>3. \A m \in Node \ {n} : Current(m)' = Current(m)
    BY <2>1, SameCurrent
  <2> QED  BY <1>7, <2>1, <2>2, <2>3 DEF TracksRows, NodeDies, Reporting
<1>8. CASE UNCHANGED commandVars
  <2>1. \A m \in Node : Current(m)' = Current(m)
    BY <1>8, SameCurrent DEF commandVars, issueVars
  <2> QED  BY <1>8, <2>1 DEF TracksRows, Reporting, commandVars
<1> QED
  BY <1>1, <1>2, <1>3, <1>4, <1>5, <1>6, <1>7, <1>8 DEF CommandsNext, CommandPhase, AckStatus

\* A step that runs nothing keeps the excuses, if it makes no command wait that did not.
LEMMA ExcusesKept ==
    ASSUME TracksRuns, UNCHANGED <<ran, untaken, reruns>>,
           \A c \in Command : c \in ran /\ (status'[c] = "pending" \/ ToRun(c)')
                                => status[c] = "pending" \/ ToRun(c)
    PROVE  TracksRuns'
BY DEF TracksRuns

\* A step keeps the account of runs and excuses.
LEMMA TracksRunsStep ==
    ASSUME CommandsTypeOK, TracksRows, TracksRuns, [CommandsNext]_commandVars
    PROVE  TracksRuns'
<1>t. /\ status \in [Command -> Status] /\ batch \in [Node -> SUBSET Command]
      /\ step \in [Node -> Step] /\ issuedAt \in [Command -> Nat] /\ ran \subseteq Command
      /\ untaken \in [Command -> Nat] /\ reruns \in [Command -> Nat]
      /\ \A n \in Node : step[n] = "idle" <=> batch[n] = {}
  BY DEF CommandsTypeOK
<1>1. ASSUME NEW c \in Command, IssueCommand(c)  PROVE TracksRuns'
  <2>1. \A n \in Node : c \notin batch[n]
    BY <1>1, <1>t DEF TracksRows, IssueCommand
  <2>2. \A n \in Node : Current(n)' = Current(n)
    <3> TAKE n \in Node
    <3>1. batch'[n] = batch[n] /\ \A d \in batch[n] : issuedAt'[d] = issuedAt[d]
      BY <1>1, <1>t, <2>1 DEF IssueCommand
    <3> QED  BY <3>1, SameCurrent
  <2>3. \A d \in Command : ToRun(d)' => ToRun(d)
    BY <1>1, <2>2 DEF IssueCommand, ToRun, Reporting
  <2>4. \A d \in ran : status'[d] = status[d]
    BY <1>1, <1>t DEF IssueCommand, TracksRows
  <2> QED  BY <1>1, <2>3, <2>4, ExcusesKept DEF IssueCommand
<1>2. ASSUME NEW c \in Command, NEW s \in AckStatus, LateAck(c, s)  PROVE TracksRuns'
  <2>1. \A n \in Node : Current(n)' = Current(n)
    BY <1>2, SameCurrent DEF LateAck, issueVars
  <2>2. \A d \in Command : ToRun(d)' => ToRun(d)
    BY <1>2, <2>1 DEF LateAck, ToRun, Reporting
  <2>3. \A d \in Command : status'[d] = "pending" => status[d] = "pending"
    BY <1>2, <1>t DEF LateAck, Acknowledge, AckStatus
  <2> QED  BY <1>2, <2>2, <2>3, ExcusesKept DEF LateAck
<1>3. ASSUME NEW n \in Node, Poll(n)  PROVE TracksRuns'
  <2>1. \A m \in Node \ {n} : batch'[m] = batch[m] /\ step'[m] = step[m] /\ UNCHANGED issuedAt
    BY <1>3, <1>t DEF Poll, issueVars
  <2>2. \A m \in Node \ {n} : Current(m)' = Current(m)
    BY <2>1, SameCurrent
  <2>3. batch'[n] = Polled(n) /\ UNCHANGED status
    BY <1>3, <1>t DEF Poll
  <2>4. \A d \in Command : ToRun(d)' => ToRun(d) \/ status[d] = "pending"
    BY <2>1, <2>2, <2>3 DEF ToRun, Reporting, Polled, Pollable
  <2> QED  BY <1>3, <2>3, <2>4, ExcusesKept DEF Poll
<1>4. ASSUME NEW n \in Node, Take(n)  PROVE TracksRuns'
  <2>1. Current(n) \in Command
    BY <1>4, <1>t, CurrentInBatch DEF Take
  <2>2. SafeAck(Current(n), "acked") /\ "acked" \in AckStatus
    BY <1>4 DEF Take, AckStatus
  <2>3. \A d \in Command : status'[d] = "pending" => status[d] = "pending"
    BY <2>1, <2>2, SafeAckRow
  <2>4. \A m \in Node : Current(m)' = Current(m)
    BY <1>4, SameCurrent DEF Take, issueVars
  <2>5. \A m \in Node : Reporting(m)' <=> Reporting(m)
    BY <1>4, <1>t DEF Take, Reporting
  <2>6. \A d \in Command : ToRun(d)' => ToRun(d)
    BY <1>4, <2>4, <2>5 DEF Take, ToRun
  <2> QED  BY <1>4, <2>3, <2>6, ExcusesKept DEF Take
<1>5. ASSUME NEW n \in Node, RunCommand(n)  PROVE TracksRuns'
  <2> PICK c \in batch[n] : c = Current(n)
    BY <1>5, <1>t, CurrentInBatch DEF RunCommand
  <2>1. c \in batch[n] /\ c \in Command /\ step[n] = "run"
    BY <1>5, <1>t DEF RunCommand
  <2>2. ToRun(c)
    BY <2>1 DEF ToRun, Reporting
  <2>3. /\ ran' = ran \cup {c} /\ UNCHANGED status
        /\ untaken' = IF status[c] = "pending" THEN [untaken EXCEPT ![c] = @ + 1] ELSE untaken
        /\ reruns' = IF c \in ran THEN [reruns EXCEPT ![c] = @ + 1] ELSE reruns
    BY <1>5 DEF RunCommand
  <2>4. \A m \in Node \ {n} : batch'[m] = batch[m] /\ step'[m] = step[m] /\ UNCHANGED issuedAt
    BY <1>5, <1>t DEF RunCommand, Restarts, issueVars
  <2>5. \A m \in Node \ {n} : Current(m)' = Current(m) /\ c \notin batch[m]
    BY <2>1, <2>4, SameCurrent DEF TracksRows
  <2>6. batch'[n] = {} \/ (batch'[n] = batch[n] /\ Reporting(n)' /\ Current(n)' = c)
    <3>1. CASE UNCHANGED batch /\ \E s \in {"report done", "report failed"} : step' = [step EXCEPT ![n] = s]
      <4>1. Current(n)' = c
        BY <1>5, <3>1, SameCurrent DEF RunCommand, issueVars
      <4> QED  BY <3>1, <1>t, <4>1 DEF Reporting
    <3>2. CASE Restarts(n)
      BY <3>2, <1>t DEF Restarts
    <3> QED  BY <1>5, <3>1, <3>2 DEF RunCommand
  <2>7. ~ToRun(c)'
    <3>1. \A m \in Node \ {n} : c \notin batch'[m]
      BY <2>4, <2>5
    <3>2. ~(c \in batch'[n] /\ ~(Reporting(n)' /\ c = Current(n)'))
      BY <2>6
    <3> QED  BY <3>1, <3>2 DEF ToRun
  <2>8. \A d \in Command \ {c} : ToRun(d)' => ToRun(d)
    <3>1. ASSUME NEW d \in Command \ {c}, NEW m \in Node,
                 d \in batch'[m], ~(Reporting(m)' /\ d = Current(m)')
          PROVE  ToRun(d)
      <4>1. CASE m = n
        BY <4>1, <3>1, <2>1, <2>6 DEF ToRun, Reporting
      <4>2. CASE m # n
        BY <4>2, <3>1, <2>4, <2>5 DEF ToRun, Reporting
      <4> QED  BY <4>1, <4>2
    <3> QED  BY <3>1 DEF ToRun
  <2>9. ASSUME NEW d \in Command \ {c}
        PROVE  /\ reruns'[d] <= untaken'[d]
               /\ d \notin ran' => reruns'[d] = 0
               /\ d \in ran' /\ (status'[d] = "pending" \/ ToRun(d)') => reruns'[d] < untaken'[d]
    <3>1. reruns'[d] = reruns[d] /\ untaken'[d] = untaken[d] /\ (d \in ran' <=> d \in ran)
      BY <2>3, <1>t
    <3> QED  BY <3>1, <2>3, <2>8 DEF TracksRuns
  <2>10. /\ reruns'[c] <= untaken'[c] /\ c \in ran'
         /\ status'[c] = "pending" => reruns'[c] < untaken'[c]
    <3>1. reruns[c] \in Nat /\ untaken[c] \in Nat
      BY <1>t, <2>1
    <3>2. untaken'[c] = IF status[c] = "pending" THEN untaken[c] + 1 ELSE untaken[c]
      BY <2>3, <1>t, <2>1
    <3>3. CASE c \in ran
      <4>1. reruns'[c] = reruns[c] + 1
        BY <3>3, <2>3, <1>t, <2>1
      <4>2. reruns[c] < untaken[c]
        BY <3>3, <2>1, <2>2 DEF TracksRuns
      <4> QED  BY <3>1, <3>2, <4>1, <4>2, <2>3
    <3>4. CASE c \notin ran
      <4>1. reruns'[c] = 0
        BY <3>4, <2>3, <2>1 DEF TracksRuns
      <4> QED  BY <3>1, <3>2, <4>1, <2>3
    <3> QED  BY <3>3, <3>4
  <2> QED  BY <2>1, <2>7, <2>9, <2>10 DEF TracksRuns
<1>6. ASSUME NEW n \in Node, ReportOutcome(n)  PROVE TracksRuns'
  <2>1. Current(n) \in Command /\ Reporting(n)
    BY <1>6, <1>t, CurrentInBatch DEF ReportOutcome, Reporting
  <2>2. \E s \in AckStatus : SafeAck(Current(n), s)
    BY <1>6 DEF ReportOutcome, AckStatus
  <2>3. \A d \in Command : status'[d] = "pending" => status[d] = "pending"
    BY <2>1, <2>2, SafeAckRow DEF AckStatus
  <2>4. /\ batch'[n] \subseteq batch[n] \ {Current(n)}
        /\ \A m \in Node \ {n} : batch'[m] = batch[m] /\ step'[m] = step[m]
    <3>1. CASE Restarts(n)
      BY <3>1, <1>t DEF Restarts
    <3>2. CASE /\ batch' = [batch EXCEPT ![n] = batch[n] \ {Current(n)}]
               /\ step' = [step EXCEPT ![n] = IF batch[n] \ {Current(n)} = {} THEN "idle" ELSE "take"]
      BY <3>2, <1>t
    <3> QED  BY <1>6, <3>1, <3>2 DEF ReportOutcome, AfterReport
  <2>5. \A m \in Node \ {n} : Current(m)' = Current(m)
    BY <1>6, <2>4, SameCurrent DEF ReportOutcome, issueVars
  <2>6. \A d \in Command : ToRun(d)' => ToRun(d)
    BY <2>4, <2>5 DEF ToRun, Reporting
  <2> QED  BY <1>6, <2>3, <2>6, ExcusesKept DEF ReportOutcome
<1>7. ASSUME NEW n \in Node, NodeDies(n)  PROVE TracksRuns'
  <2>1. \A m \in Node \ {n} : batch'[m] = batch[m] /\ step'[m] = step[m] /\ UNCHANGED issuedAt
    BY <1>7, <1>t DEF NodeDies, Restarts, issueVars
  <2>2. batch'[n] = {}
    BY <1>7, <1>t DEF NodeDies, Restarts
  <2>3. \A m \in Node \ {n} : Current(m)' = Current(m)
    BY <2>1, SameCurrent
  <2>4. \A d \in Command : ToRun(d)' => ToRun(d)
    BY <2>1, <2>2, <2>3 DEF ToRun, Reporting
  <2> QED  BY <1>7, <2>4, ExcusesKept DEF NodeDies
<1>8. CASE UNCHANGED commandVars
  <2>1. \A m \in Node : Current(m)' = Current(m)
    BY <1>8, SameCurrent DEF commandVars, issueVars
  <2>2. \A d \in Command : ToRun(d)' => ToRun(d)
    BY <1>8, <2>1 DEF ToRun, Reporting, commandVars
  <2> QED  BY <1>8, <2>2, ExcusesKept DEF commandVars
<1> QED
  BY <1>1, <1>2, <1>3, <1>4, <1>5, <1>6, <1>7, <1>8 DEF CommandsNext, CommandPhase, AckStatus

\* What the commands' specification says of steps, without fairness.
CommandsSafety == CommandsInit /\ [][CommandsNext]_commandVars

LEMMA SpecIsSafe == CommandsSpec => CommandsSafety
BY PTL DEF CommandsSpec, CommandsSafety

\* The invariant holds of every behaviour.
LEMMA CommandsInvariant == CommandsSafety => []CommandsInv
<1>1. CommandsInit => CommandsInv
  <2> SUFFICES ASSUME CommandsInit  PROVE CommandsInv
    OBVIOUS
  <2>1. CommandsTypeOK
    BY CommandAssumption DEF CommandsInit, CommandsTypeOK, Status, Step
  <2>2. TracksRows
    BY DEF CommandsInit, TracksRows, Reporting
  <2>3. TracksRuns
    <3>1. ran = {} /\ \A c \in Command : reruns[c] = 0 /\ untaken[c] = 0
      BY DEF CommandsInit
    <3>2. 0 <= 0
      BY SMT
    <3>3. \A c \in Command : reruns[c] <= untaken[c]
      BY <3>1, <3>2, Zenon
    <3> QED  BY <3>1, <3>3, Zenon DEF TracksRuns
  <2> QED  BY <2>1, <2>2, <2>3 DEF CommandsInv
<1>2. CommandsInv /\ [CommandsNext]_commandVars => CommandsInv'
  BY CommandsTypeStep, TracksRowsStep, TracksRunsStep DEF CommandsInv
<1> QED  BY <1>1, <1>2, PTL DEF CommandsSafety

\* A node runs a command again only when the acknowledgement of an earlier run did not
\* arrive, whatever is lost, late or restarted.
THEOREM RunsExcused == CommandsSpec => []RerunExcused
<1>1. CommandsInv => RerunExcused
  BY DEF CommandsInv, TracksRuns, RerunExcused
<1> QED  BY <1>1, SpecIsSafe, CommandsInvariant, PTL

(***************************************************************************)
(* The command channel implements what it promises: the part of            *)
(* Delivery!Spec that says what a step may do.                             *)
(***************************************************************************)

Phase(c) == CASE status[c] = "none" -> "none"
              [] status[c] = "pending" -> "waiting"
              [] OTHER -> "answered"

\* The steps of CommandDelivery in terms of the phases of the rows.
DeliveryVars == <<[c \in Command |-> Phase(c)], ran, closed>>

\* An acknowledgement is an answer, of a command that was run if it says so.
LEMMA AcknowledgeAnswers ==
    ASSUME CommandsTypeOK, NEW c \in Command, NEW s \in AckStatus, Acknowledge(c, s),
           status[c] # "none", s # "acked" => c \in ran, UNCHANGED ran
    PROVE  Delivery!Answer(c)
<1>1. status \in [Command -> Status] /\ status' = [status EXCEPT ![c] = s] /\ s \notin {"none", "pending"}
  BY DEF CommandsTypeOK, Acknowledge, AckStatus
<1>2. Phase(c) # "none"
  BY DEF Phase
<1>3. \A d \in Command : Phase(d)' = IF d = c THEN "answered" ELSE Phase(d)
  BY <1>1 DEF Phase
<1>4. [d \in Command |-> Phase(d)]' = [[d \in Command |-> Phase(d)] EXCEPT ![c] = "answered"]
  BY <1>3
<1>5. UNCHANGED closed \/ (c \in ran /\ closed' = closed \cup {c})
  BY DEF Acknowledge, AckStatus
<1> QED  BY <1>2, <1>4, <1>5 DEF Delivery!Answer, Phase

\* An acknowledgement that is recorded, lost or late is an answer or nothing.
LEMMA SafeAckAnswers ==
    ASSUME CommandsTypeOK, NEW c \in Command, NEW s \in AckStatus, SafeAck(c, s),
           status[c] # "none", s # "acked" => c \in ran, UNCHANGED ran
    PROVE  Delivery!Answer(c) \/ UNCHANGED DeliveryVars
<1>1. CASE Acknowledge(c, s)
  BY <1>1, AcknowledgeAnswers
<1>2. CASE UNCHANGED <<status, closed>>
  BY <1>2 DEF DeliveryVars, Phase
<1> QED  BY <1>1, <1>2 DEF SafeAck

\* Every step of the rows and nodes is a step of the promise, or none.
LEMMA DeliveryStep ==
    ASSUME CommandsTypeOK, TracksRows, [CommandsNext]_commandVars
    PROVE  Delivery!Next \/ UNCHANGED DeliveryVars
<1>t. \A n \in Node : step[n] # "idle" => Current(n) \in Command /\ status[Current(n)] # "none"
  <2> TAKE n \in Node
  <2>1. CASE step[n] # "idle"
    <3>1. batch[n] # {} /\ batch[n] \subseteq Command
      BY <2>1 DEF CommandsTypeOK
    <3>2. Current(n) \in batch[n]
      BY <3>1, CurrentInBatch
    <3> QED  BY <3>1, <3>2 DEF TracksRows
  <2> QED  BY <2>1
<1>1. ASSUME NEW c \in Command, IssueCommand(c)  PROVE Delivery!Next
  <2>1. \A d \in Command : Phase(d)' = IF d = c THEN "waiting" ELSE Phase(d)
    BY <1>1 DEF CommandsTypeOK, IssueCommand, Phase
  <2>2. [d \in Command |-> Phase(d)]' = [[d \in Command |-> Phase(d)] EXCEPT ![c] = "waiting"]
    BY <2>1
  <2>3. Phase(c) = "none" /\ UNCHANGED <<ran, closed>>
    BY <1>1 DEF IssueCommand, Phase
  <2>4. Delivery!Issue(c)
    BY <2>2, <2>3 DEF Delivery!Issue, Phase
  <2> QED  BY <2>4 DEF Delivery!Next
<1>2. ASSUME NEW c \in Command, NEW s \in AckStatus, LateAck(c, s)  PROVE Delivery!Next
  <2>1. Acknowledge(c, s) /\ UNCHANGED ran /\ <<c, s>> \in late
    BY <1>2 DEF LateAck
  <2>2. status[c] # "none" /\ (s # "acked" => c \in ran)
    BY <2>1 DEF TracksRows
  <2>3. Delivery!Answer(c)
    BY <2>1, <2>2, AcknowledgeAnswers
  <2> QED  BY <2>3 DEF Delivery!Next
<1>3. ASSUME NEW n \in Node, Poll(n) \/ NodeDies(n)  PROVE UNCHANGED DeliveryVars
  BY <1>3 DEF Poll, NodeDies, DeliveryVars, Phase
<1>4. ASSUME NEW n \in Node, Take(n)  PROVE Delivery!Next \/ UNCHANGED DeliveryVars
  <2>1. PICK c \in Command : c = Current(n) /\ status[c] # "none"
    BY <1>4, <1>t DEF Take
  <2>2. SafeAck(c, "acked") /\ UNCHANGED ran /\ "acked" \in AckStatus
    BY <1>4, <2>1 DEF Take, AckStatus
  <2>3. Delivery!Answer(c) \/ UNCHANGED DeliveryVars
    BY <2>1, <2>2, SafeAckAnswers
  <2> QED  BY <2>3 DEF Delivery!Next
<1>5. ASSUME NEW n \in Node, RunCommand(n)  PROVE Delivery!Next
  <2>1. Current(n) \in Command /\ status[Current(n)] # "none"
    BY <1>5, <1>t DEF RunCommand
  <2>2. ran' = ran \cup {Current(n)} /\ UNCHANGED <<status, closed>>
    BY <1>5 DEF RunCommand
  <2>3. Delivery!Run(Current(n))
    BY <2>1, <2>2 DEF Delivery!Run
  <2> QED  BY <2>1, <2>3 DEF Delivery!Next
<1>6. ASSUME NEW n \in Node, ReportOutcome(n)  PROVE Delivery!Next \/ UNCHANGED DeliveryVars
  <2>1. PICK c \in Command : c = Current(n) /\ status[c] # "none" /\ c \in ran
    BY <1>6, <1>t DEF ReportOutcome, TracksRows, Reporting
  <2>2. PICK s \in AckStatus : SafeAck(c, s)
    BY <1>6, <2>1 DEF ReportOutcome, AckStatus
  <2>3. UNCHANGED ran
    BY <1>6 DEF ReportOutcome
  <2>4. Delivery!Answer(c) \/ UNCHANGED DeliveryVars
    BY <2>1, <2>2, <2>3, SafeAckAnswers
  <2> QED  BY <2>4 DEF Delivery!Next
<1>7. CASE UNCHANGED commandVars
  BY <1>7 DEF commandVars, DeliveryVars, Phase
<1> QED
  BY <1>1, <1>2, <1>3, <1>4, <1>5, <1>6, <1>7 DEF CommandsNext, CommandPhase, AckStatus

\* What an administrator sees of the rows and the nodes' runs is a behaviour of the
\* promise: no answered command waits again, and done or failed is said only of a
\* command that was run.
LEMMA CommandsDeliver == CommandsSafety => Delivery!Init /\ [][Delivery!Next]_(Delivery!vars)
<1>1. CommandsInit => Delivery!Init
  BY DEF CommandsInit, Delivery!Init
<1>2. CommandsInv /\ [CommandsNext]_commandVars => [Delivery!Next]_(Delivery!vars)
  BY DeliveryStep DEF CommandsInv, DeliveryVars, Delivery!vars, Phase
<1> QED  BY <1>1, <1>2, CommandsInvariant, PTL DEF CommandsSafety

\* The same for the specification with its fairness: the safety part of what Delivered
\* says of it.
THEOREM CommandsImplementDelivery == CommandsSpec => Delivery!Init /\ [][Delivery!Next]_(Delivery!vars)
BY SpecIsSafe, CommandsDeliver, PTL

(***************************************************************************)
(* Discovery: the inductive invariant and types.                           *)
(***************************************************************************)

\* The process is replaced, by a crash (RunnerDies) or by a command of its node.
Restart(n) == RunnerRestarts(n) /\ (Mishap \/ UNCHANGED mishaps)

\* What may happen to the memory of the discovery loop: a step of discovery, or a restart.
DiscoveryStep == DiscoveryNext \/ \E n \in Runner : Restart(n)

\* Discovery without its fairness, with whatever restarts: as DiscoverySpec has it, and as
\* the nodes do.
DiscoverySafety == DiscoveryInit /\ [][DiscoveryStep]_discoveryVars

\* The step of a pass says what goes with it.
PassInv ==
    \A n \in Runner :
        /\ pass[n].step # "submit" => pass[n].user = Nobody /\ found[n] = {}
        /\ pass[n].step = "submit" => pass[n].user \in granted[n]
        /\ pass[n].step # "ask" => asking[n] = {}
        /\ pass[n].step = "idle" => granted[n] = {}

\* A user who is with a node is not due, unless the pass has kept the user too long.
TurnInv == \A n \in Runner : \A u \in granted[n] \ slow : since[u] < Interval

\* What the scheduler read is what it has attempted and what is left, and it is closed:
\* nobody it read outside had waited longer than somebody inside.
CronInv ==
    /\ cron.step = "idle" => cron.attempted = {}
    /\ cron.step # "loop" => cron.left = {}
    /\ cron.step = "loop" => \A u \in cron.left \cup cron.attempted :
                                 cron.order[u] \subseteq cron.left \cup cron.attempted
    /\ LongestWaitFirst

\* Nobody is before himself, directly or by way of others.
StrictOrder(before) ==
    /\ \A u \in User : u \notin before[u]
    /\ \A u, v, w \in User : u \in before[v] /\ v \in before[w] => u \in before[w]

\* An order by timestamps: strict, and who is not behind one user is ahead of whoever is.
TimeOrder(before) ==
    /\ StrictOrder(before)
    /\ \A u, v, w \in User : u \in before[v] => u \in before[w] \/ w \in before[v]

\* The order of the users and the time since their last turns come from one timestamp.
OrderInv ==
    /\ TimeOrder(ahead) /\ StrictOrder(cron.order)
    /\ \A u, v \in User : u \in ahead[v] => since[v] <= since[u]

DiscoveryInv ==
    DiscoveryTypeOK /\ PassInv /\ TurnInv /\ TurnNotShared /\ SentWasDelivered /\ CronInv /\ OrderInv

\* A stamp keeps the types.
LEMMA StampType ==
    ASSUME DiscoveryTypeOK, NEW S \in SUBSET User, Stamp(S)
    PROVE  ahead' \in [User -> SUBSET User] /\ since' \in [User -> 0..Interval]
BY DiscoveryAssumption DEF DiscoveryTypeOK, Stamp

\* So does a pass that goes on.
LEMMA PassType ==
    ASSUME DiscoveryTypeOK, NEW n \in Runner, NEW s \in PassStep,
           pass' = [pass EXCEPT ![n].step = s] \/ pass' = [pass EXCEPT ![n] = IdlePass]
    PROVE  pass' \in [Runner -> [step : PassStep, user : User \cup {Nobody}]]
<1>1. pass[n] \in [step : PassStep, user : User \cup {Nobody}]
  BY DEF DiscoveryTypeOK
<1>2. [pass[n] EXCEPT !.step = s] \in [step : PassStep, user : User \cup {Nobody}]
  BY <1>1
<1>3. IdlePass \in [step : PassStep, user : User \cup {Nobody}]
  BY DEF IdlePass, PassStep
<1>4. pass' = [pass EXCEPT ![n] = [pass[n] EXCEPT !.step = s]] \/ pass' = [pass EXCEPT ![n] = IdlePass]
  BY DEF DiscoveryTypeOK
<1> QED  BY <1>2, <1>3, <1>4 DEF DiscoveryTypeOK

\* And the bounded number of mishaps.
LEMMA MishapType ==
    ASSUME DiscoveryTypeOK, Mishap \/ UNCHANGED mishaps
    PROVE  mishaps' \in 0..MaxMishaps
BY DiscoveryAssumption DEF DiscoveryTypeOK, Mishap

\* Pages that are read are published ones.
LEMMA PagesType ==
    ASSUME DiscoveryTypeOK, NEW n \in Runner, NEW read \in Reads(n), NEW kept \in SUBSET read,
           ReadPages(n, read, kept)
    PROVE  seen' \in [Runner -> SUBSET published] /\ feed' \in [Runner -> SUBSET published]
<1>1. read \subseteq published /\ kept \subseteq published
  BY DEF Reads, Unread
<1> QED  BY <1>1 DEF DiscoveryTypeOK, ReadPages

\* Every step keeps the type invariant.
LEMMA DiscoveryTypeStep ==
    ASSUME DiscoveryTypeOK, [DiscoveryStep]_discoveryVars
    PROVE  DiscoveryTypeOK'
<1> USE DiscoveryAssumption
<1>1. ASSUME NEW n \in Runner, Ask(n)  PROVE DiscoveryTypeOK'
  <2>1. pass' \in [Runner -> [step : PassStep, user : User \cup {Nobody}]]
    BY <1>1, PassType DEF Ask, PassStep
  <2>2. asking' \in [Runner -> SUBSET User] /\ asked' \subseteq Runner
    BY <1>1 DEF DiscoveryTypeOK, Ask
  <2> QED  BY <1>1, <2>1, <2>2 DEF DiscoveryTypeOK, Ask
<1>2. ASSUME NEW n \in Runner, NEW u \in User, Examine(n, u)  PROVE DiscoveryTypeOK'
  <2>1. ahead' \in [User -> SUBSET User] /\ since' \in [User -> 0..Interval]
    <3>1. Stamp({u}) \/ PassedOver(u)
      BY <1>2 DEF Examine
    <3>2. CASE Stamp({u})
      BY <3>2, StampType
    <3>3. CASE PassedOver(u)
      BY <3>3 DEF PassedOver, DiscoveryTypeOK
    <3> QED  BY <3>1, <3>2, <3>3
  <2>2. granted' \in [Runner -> SUBSET User] /\ mishaps' \in 0..MaxMishaps
    <3>1. \/ granted' = [granted EXCEPT ![n] = @ \cup {u}] /\ UNCHANGED mishaps
          \/ Mishap /\ UNCHANGED granted
          \/ UNCHANGED <<granted, mishaps>>
      BY <1>2 DEF Examine
    <3>2. granted' \in [Runner -> SUBSET User]
      <4>1. granted' = [granted EXCEPT ![n] = @ \cup {u}] \/ granted' = granted
        BY <3>1
      <4>2. granted \in [Runner -> SUBSET User]
        BY DEF DiscoveryTypeOK
      <4> QED  BY <4>1, <4>2
    <3>3. Mishap \/ UNCHANGED mishaps
      BY <3>1
    <3> QED  BY <3>2, <3>3, MishapType
  <2> QED  BY <1>2, <2>1, <2>2 DEF DiscoveryTypeOK, Examine
<1>3. ASSUME NEW n \in Runner, Answer(n)  PROVE DiscoveryTypeOK'
  <2>1. pass' \in [Runner -> [step : PassStep, user : User \cup {Nobody}]]
    BY <1>3, PassType DEF Answer, PassStep
  <2>2. granted' \in [Runner -> SUBSET User] /\ mishaps' \in 0..MaxMishaps
    BY <1>3, MishapType DEF DiscoveryTypeOK, Answer
  <2> QED  BY <1>3, <2>1, <2>2 DEF DiscoveryTypeOK, Answer, SlowEnds
<1>4. ASSUME NEW n \in Runner, Refresh(n)  PROVE DiscoveryTypeOK'
  <2>1. pass' \in [Runner -> [step : PassStep, user : User \cup {Nobody}]]
    <3>1. pass' = [pass EXCEPT ![n].step = "search"] \/ pass' = [pass EXCEPT ![n] = IdlePass]
      BY <1>4 DEF Refresh, SearchNext, PassFails
    <3> QED  BY <3>1, PassType DEF PassStep
  <2>2. granted' \in [Runner -> SUBSET User] /\ cooling' \subseteq Runner
    <3>1. granted' = granted \/ granted' = [granted EXCEPT ![n] = {}]
      BY <1>4 DEF Refresh, SearchNext, PassFails
    <3>2. cooling' \in {cooling, cooling \cup {n}}
      BY <1>4 DEF Refresh
    <3> QED  BY <3>1, <3>2 DEF DiscoveryTypeOK
  <2>3. mishaps' \in 0..MaxMishaps
    <3>1. Mishap \/ UNCHANGED mishaps
      BY <1>4 DEF Refresh
    <3> QED  BY <3>1, MishapType
  <2>4. seen' \in [Runner -> SUBSET published] /\ feed' \in [Runner -> SUBSET published]
    <3>1. \/ UNCHANGED <<seen, feed>>
          \/ \E read \in Reads(n) : \E kept \in SUBSET read : ReadPages(n, read, kept)
      BY <1>4 DEF Refresh
    <3> QED  BY <3>1, PagesType DEF DiscoveryTypeOK
  <2> QED  BY <1>4, <2>1, <2>2, <2>3, <2>4 DEF DiscoveryTypeOK, Refresh, SlowEnds
<1>5. ASSUME NEW n \in Runner, NEW u \in User, Search(n, u)  PROVE DiscoveryTypeOK'
  <2>1. PICK matches \in SUBSET Matched(n, u) :
          found' = [found EXCEPT ![n] = matches] /\ MarkSent(n, u, matches)
    BY <1>5 DEF Search, UpTo
  <2>2. matches \subseteq Posting
    BY <2>1 DEF DiscoveryTypeOK, Matched
  <2>3. sent' \in [Runner -> [User -> SUBSET Posting]] /\ found' \in [Runner -> SUBSET Posting]
    BY <2>1, <2>2 DEF DiscoveryTypeOK, MarkSent
  <2>4. pass' \in [Runner -> [step : PassStep, user : User \cup {Nobody}]]
    BY <1>5 DEF DiscoveryTypeOK, Search, PassStep
  <2> QED  BY <1>5, <2>3, <2>4 DEF DiscoveryTypeOK, Search
<1>6. ASSUME NEW n \in Runner, Submit(n)  PROVE DiscoveryTypeOK'
  <2> DEFINE u == pass[n].user
  <2>0. found[n] \subseteq Posting /\ offered \in [User -> SUBSET Posting] /\ lost \in [User -> SUBSET Posting]
    BY DEF DiscoveryTypeOK
  <2>1. offered' \in [User -> SUBSET Posting] /\ lost' \in [User -> SUBSET Posting] /\ mishaps' \in 0..MaxMishaps
    <3>1. offered' = [offered EXCEPT ![u] = @ \cup found[n]] \/ offered' = offered
      BY <1>6 DEF Submit
    <3>2. lost' = [lost EXCEPT ![u] = @ \cup found[n]] \/ lost' = lost
      BY <1>6 DEF Submit
    <3>3. Mishap \/ UNCHANGED mishaps
      BY <1>6 DEF Submit
    <3> HIDE DEF u
    <3>4. offered' \in [User -> SUBSET Posting]
      BY <2>0, <3>1
    <3>5. lost' \in [User -> SUBSET Posting]
      BY <2>0, <3>2
    <3> QED  BY <3>3, <3>4, <3>5, MishapType
  <2>2. /\ granted' \in [Runner -> SUBSET User] /\ found' \in [Runner -> SUBSET Posting]
        /\ pass' \in [Runner -> [step : PassStep, user : User \cup {Nobody}]]
    BY <1>6 DEF DiscoveryTypeOK, Submit, IdlePass, PassStep
  <2> QED  BY <1>6, <2>1, <2>2 DEF DiscoveryTypeOK, Submit, SlowEnds
<1>7. ASSUME CronRun \/ CronDies  PROVE DiscoveryTypeOK'
  <2>1. CASE CronBegins
    <3>1. PICK front \in SUBSET listed :
            cron' = [step |-> "loop", left |-> front, attempted |-> {},
                     order |-> [u \in User |-> ahead[u] \cap listed]]
      BY <2>1 DEF CronBegins, UpTo
    <3> QED  BY <2>1, <3>1 DEF DiscoveryTypeOK, CronBegins
  <2>2. ASSUME NEW u \in User, CronUser(u)  PROVE DiscoveryTypeOK'
    BY <2>2 DEF DiscoveryTypeOK, CronUser, Attempted
  <2>3. CASE CronStops
    BY <2>3 DEF DiscoveryTypeOK, CronStops
  <2>4. CASE CronMarks
    <3>1. ahead' \in [User -> SUBSET User] /\ since' \in [User -> 0..Interval] /\ mishaps' \in 0..MaxMishaps
      <4>1. cron.attempted \in SUBSET User
        BY DEF DiscoveryTypeOK
      <4>2. CASE Stamp(cron.attempted) /\ UNCHANGED mishaps
        BY <4>1, <4>2, StampType DEF DiscoveryTypeOK
      <4>3. CASE Mishap /\ UNCHANGED <<ahead, since>>
        BY <4>3 DEF Mishap, DiscoveryTypeOK
      <4> QED  BY <2>4, <4>2, <4>3 DEF CronMarks
    <3> QED  BY <2>4, <3>1 DEF DiscoveryTypeOK, CronMarks, CronIdle, NobodyAhead
  <2>5. CASE CronDies
    BY <2>5 DEF DiscoveryTypeOK, CronDies, CronIdle, NobodyAhead, Mishap
  <2> QED  BY <1>7, <2>1, <2>2, <2>3, <2>4, <2>5 DEF CronRun
<1>8. ASSUME NEW u \in User, Toggle(u)  PROVE DiscoveryTypeOK'
  BY <1>8 DEF DiscoveryTypeOK, Toggle, Flipped, Mishap
<1>9. ASSUME NEW p \in Posting, Publish(p)  PROVE DiscoveryTypeOK'
  BY <1>9 DEF DiscoveryTypeOK, Publish
<1>10. ASSUME NEW n \in Runner, CoolsDown(n)  PROVE DiscoveryTypeOK'
  BY <1>10 DEF DiscoveryTypeOK, CoolsDown
<1>11. CASE Minutes
  <2>1. since' \in [User -> 0..Interval] /\ clock' \in 0..CronPeriod
    BY <1>11 DEF DiscoveryTypeOK, Minutes
  <2>2. slow' \subseteq User
    BY <1>11 DEF DiscoveryTypeOK, Minutes, InPass
  <2> QED  BY <1>11, <2>1, <2>2 DEF DiscoveryTypeOK, Minutes
<1>12. ASSUME NEW n \in Runner, Restart(n)  PROVE DiscoveryTypeOK'
  <2>1. mishaps' \in 0..MaxMishaps
    BY <1>12, MishapType DEF Restart
  <2> QED
    BY <1>12, <2>1 DEF DiscoveryTypeOK, Restart, RunnerRestarts, ForgetSent, SlowEnds, IdlePass, PassStep
<1>13. CASE UNCHANGED discoveryVars
  BY <1>13 DEF DiscoveryTypeOK, discoveryVars
<1>14. ASSUME NEW n \in Runner, CatalogReads(n)  PROVE DiscoveryTypeOK'
  <2>1. PICK read \in Reads(n) : \E kept \in SUBSET read : ReadPages(n, read, kept)
    BY <1>14 DEF CatalogReads
  <2>2. seen' \in [Runner -> SUBSET published] /\ feed' \in [Runner -> SUBSET published]
    BY <2>1, PagesType
  <2>3. mishaps' \in 0..MaxMishaps /\ cooling' \subseteq Runner
    <3>1. (Mishap \/ UNCHANGED mishaps) /\ cooling' \in {cooling, cooling \cup {n}}
      BY <1>14 DEF CatalogReads
    <3> QED  BY <3>1, MishapType DEF DiscoveryTypeOK
  <2> QED  BY <1>14, <2>2, <2>3 DEF DiscoveryTypeOK, CatalogReads
<1> QED
  BY <1>1, <1>2, <1>3, <1>4, <1>5, <1>6, <1>7, <1>8, <1>9, <1>10, <1>11, <1>12, <1>13, <1>14
  DEF DiscoveryStep, DiscoveryNext, UserPass

(***************************************************************************)
(* Turns.                                                                  *)
(***************************************************************************)

\* A step keeps the story of the passes.
LEMMA PassStepKept ==
    ASSUME DiscoveryTypeOK, PassInv, [DiscoveryStep]_discoveryVars
    PROVE  PassInv'
<1>t. /\ pass \in [Runner -> [step : PassStep, user : User \cup {Nobody}]]
      /\ granted \in [Runner -> SUBSET User] /\ asking \in [Runner -> SUBSET User]
      /\ found \in [Runner -> SUBSET Posting]
  BY DEF DiscoveryTypeOK
<1>1. ASSUME NEW n \in Runner, Ask(n)  PROVE PassInv'
  BY <1>1, <1>t DEF PassInv, Ask
<1>2. ASSUME NEW n \in Runner, NEW u \in User, Examine(n, u)  PROVE PassInv'
  <2>1. granted' = [granted EXCEPT ![n] = @ \cup {u}] \/ granted' = granted
    BY <1>2 DEF Examine
  <2>2. \A m \in Runner : pass[m].step # "ask" => granted'[m] = granted[m]
    BY <1>2, <2>1, <1>t DEF Examine
  <2>3. \A m \in Runner : pass[m].step # "ask" => asking'[m] = asking[m]
    BY <1>2, <1>t DEF Examine
  <2> QED  BY <1>2, <2>2, <2>3 DEF PassInv, Examine
<1>3. ASSUME NEW n \in Runner, Answer(n)  PROVE PassInv'
  BY <1>3, <1>t DEF PassInv, Answer, IdlePass
<1>4. ASSUME NEW n \in Runner, Refresh(n)  PROVE PassInv'
  <2>1. \/ pass' = [pass EXCEPT ![n].step = "search"] /\ UNCHANGED granted
        \/ pass' = [pass EXCEPT ![n] = IdlePass] /\ granted' = [granted EXCEPT ![n] = {}]
    BY <1>4 DEF Refresh, SearchNext, PassFails
  <2>2. pass[n].step = "refresh" /\ UNCHANGED <<asking, found>>
    BY <1>4 DEF Refresh
  <2>3. CASE pass' = [pass EXCEPT ![n].step = "search"] /\ UNCHANGED granted
    BY <2>2, <2>3, <1>t DEF PassInv
  <2>4. CASE pass' = [pass EXCEPT ![n] = IdlePass] /\ granted' = [granted EXCEPT ![n] = {}]
    BY <2>2, <2>4, <1>t DEF PassInv, IdlePass
  <2> QED  BY <2>1, <2>3, <2>4
<1>5. ASSUME NEW n \in Runner, NEW u \in User, Search(n, u)  PROVE PassInv'
  <2>1. \E matches \in SUBSET Posting : found' = [found EXCEPT ![n] = matches]
    BY <1>5 DEF Search, UpTo, Matched, DiscoveryTypeOK
  <2> QED  BY <1>5, <2>1, <1>t DEF PassInv, Search
<1>6. ASSUME NEW n \in Runner, Submit(n)  PROVE PassInv'
  BY <1>6, <1>t DEF PassInv, Submit, IdlePass
<1>7. ASSUME NEW n \in Runner, Restart(n)  PROVE PassInv'
  BY <1>7, <1>t DEF PassInv, Restart, RunnerRestarts, IdlePass
<1>8. CASE UNCHANGED <<pass, granted, asking, found>>
  BY <1>8 DEF PassInv
<1>9. CASE \/ CronRun \/ CronDies \/ Minutes \/ UNCHANGED discoveryVars
           \/ \E u \in User : Toggle(u)
           \/ \E p \in Posting : Publish(p)
           \/ \E n \in Runner : CoolsDown(n) \/ CatalogReads(n)
  BY <1>8, <1>9 DEF CronRun, CronBegins, CronUser, CronStops, CronMarks, CronDies, Minutes, Toggle,
                    Publish, CoolsDown, CatalogReads, discoveryVars
<1> QED
  BY <1>1, <1>2, <1>3, <1>4, <1>5, <1>6, <1>7, <1>9 DEF DiscoveryStep, DiscoveryNext, UserPass

\* A step that gives nobody a new turn, and lets no user be late who was not or has no
\* turn any more, keeps what is said of turns.
LEMMA TurnsKept ==
    ASSUME DiscoveryTypeOK, TurnInv, TurnNotShared,
           \A n \in Runner : granted'[n] \subseteq granted[n],
           \A n \in Runner : \A u \in granted'[n] : u \in slow => u \in slow',
           \A n \in Runner : \A u \in granted'[n] \ slow' : since'[u] \in {0, since[u]} \/ since'[u] < Interval
    PROVE  TurnInv' /\ TurnNotShared'
<1>1. TurnInv'
  BY DiscoveryAssumption DEF TurnInv
<1>2. TurnNotShared'
  BY DEF TurnNotShared
<1> QED  BY <1>1, <1>2

\* A stamp makes nobody due.
LEMMA StampNotDue ==
    ASSUME DiscoveryTypeOK, NEW S \in SUBSET User, Stamp(S)
    PROVE  \A u \in User : since'[u] \in {0, since[u]}
BY DiscoveryAssumption DEF DiscoveryTypeOK, Stamp

\* A step keeps the turns apart.
LEMMA TurnsStep ==
    ASSUME DiscoveryTypeOK, TurnInv, TurnNotShared, [DiscoveryStep]_discoveryVars
    PROVE  TurnInv' /\ TurnNotShared'
<1>t. /\ granted \in [Runner -> SUBSET User] /\ since \in [User -> 0..Interval]
      /\ slow \subseteq User /\ Interval \in Nat \ {0}
      /\ \A n \in Runner : granted[n] \subseteq User
  BY DiscoveryAssumption DEF DiscoveryTypeOK
<1>1. ASSUME NEW n \in Runner, NEW u \in User, Examine(n, u)  PROVE TurnInv' /\ TurnNotShared'
  <2>1. UNCHANGED slow
    BY <1>1 DEF Examine
  <2>2. CASE UNCHANGED granted
    <3>1. \A v \in User : since'[v] \in {0, since[v]}
      <4>1. CASE Stamp({u})
        BY <4>1, StampNotDue
      <4>2. CASE PassedOver(u)
        BY <4>2, <1>t DEF PassedOver
      <4> QED  BY <1>1, <4>1, <4>2 DEF Examine
    <3> QED  BY <2>1, <2>2, <3>1, <1>t, TurnsKept
  <2>3. CASE TurnIsDue(u) /\ Stamp({u}) /\ granted' = [granted EXCEPT ![n] = @ \cup {u}]
    <3>1. since[u] = Interval /\ since'[u] = 0 /\ \A v \in User \ {u} : since'[v] = since[v]
      BY <2>3, <1>t DEF TurnIsDue, Stamp
    <3>2. \A m \in Runner : u \in granted[m] => u \in slow
      BY <3>1, <1>t DEF TurnInv
    <3>3. \A m \in Runner : granted'[m] = IF m = n THEN granted[m] \cup {u} ELSE granted[m]
      BY <2>3, <1>t
    <3>4. TurnInv'
      <4>1. ASSUME NEW m \in Runner, NEW v \in granted'[m], v \notin slow'  PROVE since'[v] < Interval
        <5>1. CASE v = u
          BY <5>1, <3>1, <1>t
        <5>2. CASE v # u
          <6>1. v \in granted[m] /\ v \in User /\ v \notin slow
            BY <5>2, <4>1, <2>1, <3>3, <1>t
          <6>2. since[v] < Interval
            BY <6>1 DEF TurnInv
          <6> QED  BY <5>2, <6>1, <6>2, <3>1
        <5> QED  BY <5>1, <5>2
      <4> QED  BY <4>1 DEF TurnInv
    <3>5. TurnNotShared'
      BY <2>1, <3>2, <3>3 DEF TurnNotShared
    <3> QED  BY <3>4, <3>5
  <2> QED  BY <1>1, <2>2, <2>3 DEF Examine
<1>2. ASSUME NEW n \in Runner, Answer(n) \/ Refresh(n) \/ Submit(n) \/ Restart(n)
      PROVE  TurnInv' /\ TurnNotShared'
  <2>1. \A m \in Runner : granted'[m] \subseteq granted[m]
    <3>1. \E S \in SUBSET granted[n] : granted' = [granted EXCEPT ![n] = S]
      <4>1. granted = [granted EXCEPT ![n] = granted[n]]
        BY <1>t
      <4> QED  BY <1>2, <4>1 DEF Answer, Refresh, SearchNext, PassFails, Submit, Restart, RunnerRestarts
    <3> QED  BY <3>1, <1>t
  <2>2. UNCHANGED since /\ SlowEnds
    BY <1>2 DEF Answer, Refresh, Submit, Restart, RunnerRestarts
  <2>3. \A m \in Runner : \A u \in granted'[m] : u \in slow => u \in slow'
    BY <2>2 DEF SlowEnds
  <2> QED  BY <2>1, <2>2, <2>3, <1>t, TurnsKept
<1>3. CASE CronMarks
  <2>1. UNCHANGED <<granted, slow>>
    BY <1>3 DEF CronMarks
  <2>2. cron.attempted \in SUBSET User
    BY DEF DiscoveryTypeOK
  <2>3. \A u \in User : since'[u] \in {0, since[u]}
    BY <1>3, <2>2, <1>t, StampNotDue DEF CronMarks
  <2> QED  BY <2>1, <2>3, <1>t, TurnsKept
<1>4. CASE Minutes
  <2>1. UNCHANGED granted /\ slow' = slow \cup {u \in InPass : since[u] = Interval - 1}
    BY <1>4 DEF Minutes
  <2>2. \A n \in Runner : \A u \in granted[n] \ slow' : since'[u] < Interval
    <3>1. SUFFICES ASSUME NEW n \in Runner, NEW u \in granted[n], u \notin slow'  PROVE since'[u] < Interval
      OBVIOUS
    <3>2. u \in User /\ since[u] \in 0..Interval /\ u \in InPass
      BY <1>t DEF InPass
    <3>3. u \notin slow /\ since[u] # Interval - 1
      BY <2>1, <3>1, <3>2
    <3>4. since[u] < Interval
      BY <3>3 DEF TurnInv
    <3>5. since'[u] = since[u] + 1
      BY <1>4, <3>2, <3>4 DEF Minutes
    <3> QED  BY <3>2, <3>3, <3>4, <3>5, <1>t
  <2> QED  BY <2>1, <2>2, TurnsKept
<1>5. CASE UNCHANGED <<granted, since, slow>>
  BY <1>5, <1>t, TurnsKept
<1>6. CASE \/ CronBegins \/ CronStops \/ CronDies \/ UNCHANGED discoveryVars
           \/ \E u \in User : Toggle(u) \/ CronUser(u) \/ \E n \in Runner : Search(n, u)
           \/ \E p \in Posting : Publish(p)
           \/ \E n \in Runner : CoolsDown(n) \/ CatalogReads(n) \/ Ask(n)
  BY <1>5, <1>6 DEF CronBegins, CronUser, CronStops, CronDies, Toggle, Publish, CoolsDown, CatalogReads, Ask,
                    Search, discoveryVars
<1> QED
  BY <1>1, <1>2, <1>3, <1>4, <1>6 DEF DiscoveryStep, DiscoveryNext, UserPass, CronRun

(***************************************************************************)
(* What was sent.                                                          *)
(***************************************************************************)

\* A step that sends nothing, ends no submission and takes nothing back keeps the
\* accounts.
LEMMA AccountsKept ==
    ASSUME SentWasDelivered, UNCHANGED <<sent, found>>,
           \A u \in User : offered[u] \subseteq offered'[u] /\ lost[u] \subseteq lost'[u],
           \A n \in Runner : pass'[n].user = pass[n].user \/ found[n] = {}
    PROVE  SentWasDelivered'
BY DEF SentWasDelivered

\* A step keeps the accounts.
LEMMA SentStep ==
    ASSUME DiscoveryTypeOK, PassInv, SentWasDelivered, [DiscoveryStep]_discoveryVars
    PROVE  SentWasDelivered'
<1>t. /\ pass \in [Runner -> [step : PassStep, user : User \cup {Nobody}]]
      /\ found \in [Runner -> SUBSET Posting] /\ sent \in [Runner -> [User -> SUBSET Posting]]
      /\ offered \in [User -> SUBSET Posting] /\ lost \in [User -> SUBSET Posting]
      /\ Nobody \notin User
  BY DiscoveryAssumption DEF DiscoveryTypeOK
<1>1. ASSUME NEW n \in Runner, Ask(n) \/ Answer(n) \/ Refresh(n)  PROVE SentWasDelivered'
  <2>1. /\ UNCHANGED <<sent, found, offered, lost>>
        /\ pass[n].step # "submit"
    BY <1>1 DEF Ask, Answer, Refresh
  <2>2. \A m \in Runner \ {n} : pass'[m] = pass[m]
    BY <1>1, <1>t DEF Ask, Answer, Refresh, SearchNext, PassFails
  <2>3. found[n] = {}
    BY <2>1 DEF PassInv
  <2> QED  BY <2>1, <2>2, <2>3, AccountsKept
<1>2. ASSUME NEW n \in Runner, NEW u \in User, Search(n, u)  PROVE SentWasDelivered'
  <2>0. PICK matches \in SUBSET Posting :
          found' = [found EXCEPT ![n] = matches] /\ MarkSent(n, u, matches)
    BY <1>2 DEF Search, UpTo, Matched, DiscoveryTypeOK
  <2>1. /\ UNCHANGED <<offered, lost>>
        /\ \A m \in Runner \ {n} : found'[m] = found[m] /\ pass'[m] = pass[m] /\ sent'[m] = sent[m]
        /\ pass'[n] = [step |-> "submit", user |-> u]
        /\ \A v \in User : sent'[n][v] = IF v = u THEN sent[n][v] \cup found'[n] ELSE sent[n][v]
    BY <1>2, <2>0, <1>t DEF Search, MarkSent
  <2>2. pass[n].user = Nobody /\ found[n] = {}
    BY <1>2 DEF Search, PassInv
  <2>3. ASSUME NEW v \in User
        PROVE  sent'[n][v] \subseteq offered'[v] \cup lost'[v] \cup (IF pass'[n].user = v THEN found'[n] ELSE {})
    <3>1. sent[n][v] \subseteq offered[v] \cup lost[v]
      BY <2>2 DEF SentWasDelivered
    <3>2. pass'[n].user = u
      BY <2>1
    <3> QED  BY <2>1, <3>1, <3>2
  <2> QED  BY <2>1, <2>3 DEF SentWasDelivered
<1>3. ASSUME NEW n \in Runner, Submit(n)  PROVE SentWasDelivered'
  <2>1. PICK u \in User : u = pass[n].user
    BY <1>3, <1>t DEF Submit, PassInv, DiscoveryTypeOK
  <2>2. /\ UNCHANGED sent
        /\ \A m \in Runner \ {n} : found'[m] = found[m] /\ pass'[m] = pass[m]
        /\ found'[n] = {}
    BY <1>3, <1>t DEF Submit
  <2>3. /\ \A v \in User : offered[v] \subseteq offered'[v] /\ lost[v] \subseteq lost'[v]
        /\ found[n] \subseteq offered'[u] \cup lost'[u]
    <3>1. CASE offered' = [offered EXCEPT ![u] = @ \cup found[n]] /\ UNCHANGED lost
      BY <3>1, <1>t
    <3>2. CASE lost' = [lost EXCEPT ![u] = @ \cup found[n]] /\ UNCHANGED offered
      BY <3>2, <1>t
    <3> QED  BY <1>3, <2>1, <3>1, <3>2 DEF Submit
  <2>4. ASSUME NEW v \in User  PROVE sent'[n][v] \subseteq offered'[v] \cup lost'[v]
    <3>1. sent[n][v] \subseteq offered[v] \cup lost[v] \cup (IF u = v THEN found[n] ELSE {})
      BY <2>1 DEF SentWasDelivered
    <3> QED  BY <2>2, <2>3, <3>1
  <2>5. ASSUME NEW m \in Runner \ {n}, NEW v \in User
        PROVE  sent'[m][v] \subseteq offered'[v] \cup lost'[v] \cup (IF pass'[m].user = v THEN found'[m] ELSE {})
    <3>1. sent[m][v] \subseteq offered[v] \cup lost[v] \cup (IF pass[m].user = v THEN found[m] ELSE {})
      BY DEF SentWasDelivered
    <3> QED  BY <2>2, <2>3, <3>1
  <2> QED  BY <2>4, <2>5 DEF SentWasDelivered
<1>4. ASSUME NEW n \in Runner, Restart(n)  PROVE SentWasDelivered'
  <2>1. \A v \in User : sent'[n][v] = {}
    BY <1>4, <1>t DEF Restart, RunnerRestarts, ForgetSent
  <2>2. \A m \in Runner \ {n} : sent'[m] = sent[m] /\ found'[m] = found[m] /\ pass'[m] = pass[m]
    BY <1>4, <1>t DEF Restart, RunnerRestarts, ForgetSent
  <2>3. UNCHANGED <<offered, lost>>
    BY <1>4 DEF Restart, RunnerRestarts
  <2> QED  BY <2>1, <2>2, <2>3 DEF SentWasDelivered
<1>5. CASE UNCHANGED <<sent, found, offered, lost, pass>>
  BY <1>5, AccountsKept
<1>6. CASE \/ CronRun \/ CronDies \/ Minutes \/ UNCHANGED discoveryVars
           \/ \E u \in User : Toggle(u) \/ \E n \in Runner : Examine(n, u)
           \/ \E p \in Posting : Publish(p)
           \/ \E n \in Runner : CoolsDown(n) \/ CatalogReads(n)
  BY <1>5, <1>6 DEF CronRun, CronBegins, CronUser, CronStops, CronMarks, CronDies, Minutes, Toggle,
                    Examine, Publish, CoolsDown, CatalogReads, discoveryVars
<1> QED
  BY <1>1, <1>2, <1>3, <1>4, <1>6 DEF DiscoveryStep, DiscoveryNext, UserPass

(***************************************************************************)
(* The scheduler.                                                          *)
(***************************************************************************)

\* A step keeps the scheduler's list closed.
LEMMA CronStep ==
    ASSUME DiscoveryTypeOK, CronInv, [DiscoveryStep]_discoveryVars
    PROVE  CronInv'
<1>t. cron \in [step : {"idle", "loop", "mark"}, left : SUBSET User,
                order : [User -> SUBSET User], attempted : SUBSET User]
  BY DEF DiscoveryTypeOK
<1>1. CASE CronBegins
  <2>1. PICK front \in SUBSET listed :
          /\ FirstInLine(front)
          /\ cron' = [step |-> "loop", left |-> front, attempted |-> {},
                      order |-> [u \in User |-> ahead[u] \cap listed]]
    BY <1>1 DEF CronBegins, UpTo
  <2>2. front \subseteq User
    BY <2>1 DEF DiscoveryTypeOK
  <2> QED  BY <2>1, <2>2 DEF CronInv, FirstInLine, LongestWaitFirst
<1>2. ASSUME NEW u \in User, CronUser(u)  PROVE CronInv'
  <2>1. /\ cron.step = "loop" /\ cron'.step = "loop" /\ u \in cron.left
        /\ cron'.left = cron.left \ {u} /\ cron'.attempted = cron.attempted \cup {u}
        /\ cron'.order = cron.order
    BY <1>2, <1>t DEF CronUser, Attempted
  <2>2. cron.order[u] \cap cron.left = {}
    BY <1>2 DEF CronUser
  <2>3. cron'.left \cup cron'.attempted = cron.left \cup cron.attempted
    BY <2>1
  <2>4. cron.order[u] \subseteq cron.attempted
    BY <2>1, <2>2 DEF CronInv
  <2> QED  BY <2>1, <2>3, <2>4 DEF CronInv, LongestWaitFirst
<1>3. CASE CronStops
  <2>1. cron'.step = "mark" /\ cron'.left = {} /\ cron'.attempted = cron.attempted /\ cron'.order = cron.order
    BY <1>3, <1>t DEF CronStops
  <2>2. cron.step = "loop" /\ (cron.left = {} \/ cron.attempted # {})
    BY <1>3 DEF CronStops
  <2> QED  BY <2>1, <2>2 DEF CronInv, LongestWaitFirst
<1>4. CASE cron' = CronIdle
  BY <1>4 DEF CronInv, LongestWaitFirst, CronIdle
<1>5. CASE UNCHANGED cron
  BY <1>5 DEF CronInv, LongestWaitFirst
<1>6. CASE \/ CronMarks \/ CronDies \/ Minutes \/ UNCHANGED discoveryVars
           \/ \E u \in User : Toggle(u)
           \/ \E p \in Posting : Publish(p)
           \/ \E n \in Runner : CoolsDown(n) \/ CatalogReads(n) \/ UserPass(n) \/ Restart(n)
  BY <1>4, <1>5, <1>6 DEF CronMarks, CronDies, Minutes, Toggle, Publish, CoolsDown, CatalogReads, UserPass, Ask,
                          Examine, Answer, Refresh, Search, Submit, Restart, RunnerRestarts, discoveryVars
<1> QED
  BY <1>1, <1>2, <1>3, <1>6 DEF DiscoveryStep, DiscoveryNext, CronRun

(***************************************************************************)
(* The order of the users.                                                 *)
(***************************************************************************)

\* A stamp leaves an order by timestamps, to which the ages still agree, and nobody
\* loses the lead over another user but by going to the end of the line.
LEMMA StampOrder ==
    ASSUME DiscoveryTypeOK, OrderInv, NEW S \in SUBSET User, Stamp(S)
    PROVE  /\ TimeOrder(ahead')
           /\ \A u, v \in User : u \in ahead'[v] => since'[v] <= since'[u]
           /\ \A u, v \in User : u \in ahead[v] => u \in ahead'[v] \/ \A w \in User : u \notin ahead'[w]
<1>1. \A u, v \in User : u \in ahead'[v] <=> u \notin S /\ (v \in S \/ u \in ahead[v])
  BY DEF Stamp, DiscoveryTypeOK
<1>2. \A u \in User : since'[u] = IF u \in S THEN 0 ELSE since[u]
  BY DEF Stamp
<1>3. \A u \in User : since[u] \in Nat
  BY DiscoveryAssumption DEF DiscoveryTypeOK
<1>4. \A u \in User : u \notin ahead'[u]
  BY <1>1 DEF OrderInv, TimeOrder, StrictOrder
<1>5. \A u, v, w \in User : u \in ahead'[v] /\ v \in ahead'[w] => u \in ahead'[w]
  BY <1>1 DEF OrderInv, TimeOrder, StrictOrder
<1>6. \A u, v, w \in User : u \in ahead'[v] => u \in ahead'[w] \/ w \in ahead'[v]
  BY <1>1 DEF OrderInv, TimeOrder, StrictOrder
<1>7. \A u, v \in User : u \in ahead'[v] => since'[v] <= since'[u]
  BY <1>1, <1>2, <1>3 DEF OrderInv
<1>8. \A u, v \in User : u \in ahead[v] => u \in ahead'[v] \/ \A w \in User : u \notin ahead'[w]
  BY <1>1
<1> QED  BY <1>4, <1>5, <1>6, <1>7, <1>8 DEF TimeOrder, StrictOrder

\* What a step does to the timestamps: it stamps some users, or time passes, or nothing.
LEMMA StampsOnly ==
    ASSUME DiscoveryTypeOK, [DiscoveryStep]_discoveryVars
    PROVE  \/ \E S \in SUBSET User : Stamp(S)
           \/ Minutes
           \/ UNCHANGED <<ahead, since>>
<1>1. ASSUME NEW n \in Runner, NEW u \in User, Examine(n, u)  PROVE Stamp({u}) \/ UNCHANGED <<ahead, since>>
  BY <1>1 DEF Examine, PassedOver
<1>2. CASE CronMarks
  <2>1. cron.attempted \in SUBSET User
    BY DEF DiscoveryTypeOK
  <2> QED  BY <1>2, <2>1 DEF CronMarks
<1>3. CASE \/ CronBegins \/ CronStops \/ CronDies \/ UNCHANGED discoveryVars
           \/ \E u \in User : Toggle(u) \/ CronUser(u) \/ \E n \in Runner : Search(n, u)
           \/ \E p \in Posting : Publish(p)
           \/ \E n \in Runner : \/ CoolsDown(n) \/ CatalogReads(n) \/ Ask(n) \/ Answer(n) \/ Refresh(n)
                                \/ Submit(n) \/ Restart(n)
  BY <1>3 DEF CronBegins, CronStops, CronDies, CronUser, Toggle, Publish, CoolsDown, CatalogReads, Ask, Answer, Refresh,
              Search, Submit, Restart, RunnerRestarts, discoveryVars
<1> QED
  BY <1>1, <1>2, <1>3 DEF DiscoveryStep, DiscoveryNext, UserPass, CronRun

\* The order the scheduler works with is the one it read, of those it read, or none.
LEMMA OrderRead ==
    ASSUME DiscoveryTypeOK, [DiscoveryStep]_discoveryVars
    PROVE  cron'.order \in {cron.order, NobodyAhead, [u \in User |-> ahead[u] \cap listed]}
<1>t. cron \in [step : {"idle", "loop", "mark"}, left : SUBSET User,
                order : [User -> SUBSET User], attempted : SUBSET User]
  BY DEF DiscoveryTypeOK
<1>1. CASE CronBegins
  BY <1>1 DEF CronBegins
<1>2. CASE CronStops \/ \E u \in User : CronUser(u)
  BY <1>2, <1>t DEF CronStops, CronUser
<1>3. CASE CronMarks \/ CronDies
  BY <1>3 DEF CronMarks, CronDies, CronIdle
<1>4. CASE \/ Minutes \/ UNCHANGED discoveryVars
           \/ \E u \in User : Toggle(u)
           \/ \E p \in Posting : Publish(p)
           \/ \E n \in Runner : CoolsDown(n) \/ CatalogReads(n) \/ UserPass(n) \/ Restart(n)
  BY <1>4 DEF Minutes, Toggle, Publish, CoolsDown, CatalogReads, UserPass, Ask, Examine, Answer, Refresh, Search,
              Submit, Restart, RunnerRestarts, discoveryVars
<1> QED
  BY <1>1, <1>2, <1>3, <1>4 DEF DiscoveryStep, DiscoveryNext, CronRun

\* Before anybody was stamped nobody is ahead.
LEMMA NobodyAheadOrder == TimeOrder(NobodyAhead)
BY DEF TimeOrder, StrictOrder, NobodyAhead

\* A step keeps the order.
LEMMA OrderStep ==
    ASSUME DiscoveryTypeOK, OrderInv, [DiscoveryStep]_discoveryVars
    PROVE  OrderInv'
<1>1. StrictOrder(cron'.order)
  <2>1. StrictOrder([u \in User |-> ahead[u] \cap listed])
    BY DEF OrderInv, TimeOrder, StrictOrder, DiscoveryTypeOK
  <2> QED  BY <2>1, OrderRead, NobodyAheadOrder DEF OrderInv, TimeOrder
<1>2. TimeOrder(ahead') /\ \A u, v \in User : u \in ahead'[v] => since'[v] <= since'[u]
  <2>1. ASSUME NEW S \in SUBSET User, Stamp(S)
        PROVE  TimeOrder(ahead') /\ \A u, v \in User : u \in ahead'[v] => since'[v] <= since'[u]
    BY <2>1, StampOrder
  <2>2. CASE Minutes
    <3>1. UNCHANGED ahead /\ since' = [u \in User |-> IF since[u] < Interval THEN since[u] + 1 ELSE Interval]
      BY <2>2 DEF Minutes
    <3>2. \A u \in User : since[u] \in 0..Interval
      BY DEF DiscoveryTypeOK
    <3> QED  BY <3>1, <3>2, DiscoveryAssumption DEF OrderInv
  <2>3. CASE UNCHANGED <<ahead, since>>
    BY <2>3 DEF OrderInv
  <2> QED  BY <2>1, <2>2, <2>3, StampsOnly
<1> QED  BY <1>1, <1>2 DEF OrderInv

\* The invariant holds at the start and is kept.
LEMMA DiscoveryInitInv == DiscoveryInit => DiscoveryInv
<1> SUFFICES ASSUME DiscoveryInit  PROVE DiscoveryInv
  OBVIOUS
<1> USE DiscoveryAssumption
<1>1. DiscoveryTypeOK
  BY DEF DiscoveryInit, DiscoveryTypeOK, IdlePass, PassStep, CronIdle, NobodyAhead
<1>2. PassInv
  BY DEF DiscoveryInit, PassInv, IdlePass
<1>3. TurnInv /\ TurnNotShared /\ SentWasDelivered
  BY DEF DiscoveryInit, TurnInv, TurnNotShared, SentWasDelivered
<1>4. CronInv
  BY DEF DiscoveryInit, CronInv, CronIdle, LongestWaitFirst
<1>5. OrderInv
  BY NobodyAheadOrder DEF DiscoveryInit, OrderInv, TimeOrder, CronIdle, NobodyAhead
<1> QED  BY <1>1, <1>2, <1>3, <1>4, <1>5 DEF DiscoveryInv

LEMMA DiscoveryInvStep == DiscoveryInv /\ [DiscoveryStep]_discoveryVars => DiscoveryInv'
BY DiscoveryTypeStep, PassStepKept, TurnsStep, SentStep, CronStep, OrderStep DEF DiscoveryInv

(***************************************************************************)
(* The node.                                                               *)
(***************************************************************************)

\* A step of the node is a step of its commands and a step of its discovery loop, or
\* leaves them alone.
LEMMA FleetStepParts ==
    ASSUME [FleetNext]_fleetVars
    PROVE  [CommandsNext]_commandVars /\ [DiscoveryStep]_discoveryVars
<1>1. ASSUME NEW n \in Node, CommandLoop(n)
      PROVE  CommandsNext /\ [DiscoveryStep]_discoveryVars
  BY <1>1, OneProcess DEF CommandLoop, CommandsNext, DiscoveryStep, Restart
<1>2. CASE ControlPlane
  BY <1>2 DEF ControlPlane, CommandsNext
<1>3. CASE DiscoveryLoop
  BY <1>3 DEF DiscoveryLoop, DiscoveryStep
<1>4. CASE UNCHANGED fleetVars
  BY <1>4 DEF fleetVars
<1> QED  BY <1>1, <1>2, <1>3, <1>4 DEF FleetNext

\* The fleet runs its commands as FleetCommands says, and searches as FleetDiscovery says
\* but for restarts: neither loop adds behaviour to the other.
THEOREM FleetImplementsParts ==
    FleetSpec => CommandsInit /\ [][CommandsNext]_commandVars /\ DiscoverySafety
<1>1. FleetInit => CommandsInit /\ DiscoveryInit
  BY DEF FleetInit
<1>2. [FleetNext]_fleetVars => [CommandsNext]_commandVars /\ [DiscoveryStep]_discoveryVars
  BY FleetStepParts
<1> QED  BY <1>1, <1>2, PTL DEF FleetSpec, DiscoverySafety

\* What is shown of DiscoverySafety holds of discovery alone and in the fleet.
LEMMA SearchIsSafe == DiscoverySpec \/ FleetSpec => DiscoverySafety
<1>1. [DiscoveryNext \/ \E n \in Runner : RunnerDies(n)]_discoveryVars => [DiscoveryStep]_discoveryVars
  BY DEF DiscoveryStep, RunnerDies, Restart
<1>2. DiscoverySpec => DiscoverySafety
  BY <1>1, PTL DEF DiscoverySpec, DiscoverySafety
<1> QED  BY <1>2, FleetImplementsParts

\* What was shown of the commands is true of a node that searches at the same time.
THEOREM FleetRunsCommands ==
    FleetSpec => /\ [](CommandsTypeOK /\ RerunExcused)
                 /\ Delivery!Init /\ [][Delivery!Next]_(Delivery!vars)
<1>1. FleetSpec => CommandsSafety
  BY FleetImplementsParts DEF CommandsSafety
<1>2. CommandsInv => CommandsTypeOK /\ RerunExcused
  BY DEF CommandsInv, TracksRuns, RerunExcused
<1> QED  BY <1>1, <1>2, CommandsInvariant, CommandsDeliver, PTL

LEMMA DiscoveryInvariant == DiscoverySafety => []DiscoveryInv
BY DiscoveryInitInv, DiscoveryInvStep, PTL DEF DiscoverySafety

\* Users, turns, passes, windows and records keep their types.
THEOREM DiscoveryTypeCorrect == DiscoverySpec \/ FleetSpec => []DiscoveryTypeOK
<1>1. DiscoveryInv => DiscoveryTypeOK
  BY DEF DiscoveryInv
<1> QED  BY <1>1, DiscoveryInvariant, SearchIsSafe, PTL

\* Two nodes have the turn of one user only if one of them has kept the user past the
\* interval.
THEOREM TurnNotSharedAlways == DiscoverySpec \/ FleetSpec => []TurnNotShared
<1>1. DiscoveryInv => TurnNotShared
  BY DEF DiscoveryInv
<1> QED  BY <1>1, DiscoveryInvariant, SearchIsSafe, PTL

\* What a node counts as handed to a user, the server has, or its submission failed, or
\* is going on.
THEOREM SentWasDeliveredAlways == DiscoverySpec \/ FleetSpec => []SentWasDelivered
<1>1. DiscoveryInv => SentWasDelivered
  BY DEF DiscoveryInv
<1> QED  BY <1>1, DiscoveryInvariant, SearchIsSafe, PTL

\* A run of the scheduler attempts nobody before those who had waited longer.
THEOREM LongestWaitFirstAlways == DiscoverySpec \/ FleetSpec => []LongestWaitFirst
<1>1. DiscoveryInv => LongestWaitFirst
  BY DEF DiscoveryInv, CronInv
<1> QED  BY <1>1, DiscoveryInvariant, SearchIsSafe, PTL

(***************************************************************************)
(* Nobody is starved, as far as a step can say it: a run finds somebody to *)
(* attempt, and gets everybody who was not attempted further to the front; *)
(* and nothing else but a turn of one's own takes a place away.            *)
(***************************************************************************)

\* Users left to attempt, among whom there is one whom nobody left precedes.
FindsNext ==
    cron.step = "loop" /\ cron.left # {} => \E u \in cron.left : cron.order[u] \cap cron.left = {}

LEMMA NextFound == DiscoveryInv => FindsNext
<1> SUFFICES ASSUME DiscoveryInv, cron.left # {}
             PROVE  \E u \in cron.left : cron.order[u] \cap cron.left = {}
  BY DEF FindsNext
<1> DEFINE Before(u) == Cardinality(cron.order[u])
           Counts == {Before(u) : u \in cron.left}
<1>t. cron.left \subseteq User /\ \A u \in User : cron.order[u] \subseteq User
  BY DEF DiscoveryInv, DiscoveryTypeOK
<1>1. \A u \in User : IsFiniteSet(cron.order[u]) /\ Before(u) \in Nat
  BY <1>t, DiscoveryAssumption, FS_Subset, FS_CardinalityType
<1>2. Counts \in SUBSET Nat /\ Counts # {}
  BY <1>1, <1>t
<1>3. PICK u \in cron.left : \A v \in cron.left : Before(u) <= Before(v)
  <2> HIDE DEF Before
  <2>1. \E i \in Counts : \A j \in Counts : i <= j
    BY <1>2, LeastNumber
  <2> QED  BY <2>1
<1>4. ASSUME NEW v \in cron.order[u] \cap cron.left  PROVE FALSE
  <2>1. cron.order[v] \subseteq cron.order[u] /\ v \notin cron.order[v] /\ v \in User /\ u \in User
    BY <1>t DEF DiscoveryInv, OrderInv, StrictOrder
  <2>2. cron.order[v] # cron.order[u]
    BY <2>1
  <2>3. Before(v) < Before(u)
    BY <2>1, <2>2, <1>1, FS_Subset
  <2> QED  BY <2>1, <2>3, <1>1, <1>3
<1> QED  BY <1>4

\* The scheduler is never at a loss whom to attempt next: the order it read has no cycle.
THEOREM SchedulerFindsNext == DiscoverySpec \/ FleetSpec => []FindsNext
BY NextFound, DiscoveryInvariant, SearchIsSafe, PTL

\* A user loses the lead over another one only by going to the end of the line.
KeepsLead ==
    [][\A u, v \in User : u \in ahead[v] => u \in ahead'[v] \/ \A w \in User : u \notin ahead'[w]]_discoveryVars

THEOREM LeadIsKept == DiscoverySpec \/ FleetSpec => KeepsLead
<1>1. DiscoveryInv /\ [DiscoveryStep]_discoveryVars
      => [\A u, v \in User : u \in ahead[v] => u \in ahead'[v] \/ \A w \in User : u \notin ahead'[w]]_discoveryVars
  <2> SUFFICES ASSUME DiscoveryInv, [DiscoveryStep]_discoveryVars, NEW u \in User, NEW v \in User, u \in ahead[v]
               PROVE  u \in ahead'[v] \/ \A w \in User : u \notin ahead'[w]
    OBVIOUS
  <2>1. ASSUME NEW S \in SUBSET User, Stamp(S)
        PROVE  u \in ahead'[v] \/ \A w \in User : u \notin ahead'[w]
    BY <2>1, StampOrder DEF DiscoveryInv
  <2>2. CASE Minutes \/ UNCHANGED <<ahead, since>>
    BY <2>2 DEF Minutes
  <2> QED  BY <2>1, <2>2, StampsOnly DEF DiscoveryInv
<1> QED  BY <1>1, DiscoveryInvariant, SearchIsSafe, PTL DEF KeepsLead, DiscoverySafety

\* A run that attempted somebody and could record it leaves everybody it did not attempt
\* ahead of somebody whom that user was not ahead of in the list the run read.
MakesWay ==
    [][CronMarks /\ cron.attempted # {} /\ Stamp(cron.attempted)
       => \A u \in User \ cron.attempted :
             \E w \in cron.attempted : u \notin cron.order[w] /\ u \in ahead'[w]]_discoveryVars

THEOREM RunsMakeWay == DiscoverySpec \/ FleetSpec => MakesWay
<1>1. ASSUME DiscoveryInv, cron.attempted # {}, Stamp(cron.attempted), NEW u \in User \ cron.attempted
      PROVE  \E w \in cron.attempted : u \notin cron.order[w] /\ u \in ahead'[w]
  <2>1. PICK w \in cron.attempted : w \in User
    BY <1>1 DEF DiscoveryInv, DiscoveryTypeOK
  <2>2. u \notin cron.order[w]
    BY <1>1 DEF DiscoveryInv, CronInv, LongestWaitFirst
  <2>3. u \in ahead'[w]
    BY <1>1, <2>1 DEF Stamp
  <2> QED  BY <2>2, <2>3
<1>2. DiscoveryInv /\ [DiscoveryStep]_discoveryVars
      => [CronMarks /\ cron.attempted # {} /\ Stamp(cron.attempted)
          => \A u \in User \ cron.attempted :
                \E w \in cron.attempted : u \notin cron.order[w] /\ u \in ahead'[w]]_discoveryVars
  BY <1>1
<1> QED  BY <1>2, DiscoveryInvariant, SearchIsSafe, PTL DEF MakesWay, DiscoverySafety
=============================================================================
