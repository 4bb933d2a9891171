---------------------------- MODULE FleetDiscovery ----------------------------
(***************************************************************************)
(* Discovery around the clock: the control plane gives out turns           *)
(* (lib/fleet/discovery.ts), the nodes search for the users they were      *)
(* given (worker/src/lib/discovery/runner.ts, jobvision.ts), and the       *)
(* server's own scheduler (lib/apply/discovery-scheduler.ts) rotates over  *)
(* the same users.  Both stamp user_server_auto_apply.last_discovery_at.   *)
(*                                                                         *)
(* Of the boards, JobVision is the one with memory: a node keeps a window  *)
(* of postings and a record of what it handed to whom, both in memory.     *)
(***************************************************************************)
EXTENDS Integers, FiniteSets

CONSTANTS
    User,
    Nobody,
    Runner,         \* fleet nodes
    AssignedTo,     \* the users of each node
    Posting,        \* JobVision postings
    PagesPerRun,    \* jobvisionPagesPerRun
    MaxListings,    \* maxListingsPerBoard
    Interval,       \* FLEET_DISCOVERY_INTERVAL_MINUTES (15), in ticks
    Limit,          \* DEFAULT_DISCOVERY_BATCH
    CronPeriod,     \* of the host's cron (every 10 minutes), in ticks
    MaxMishaps      \* bound of the model: requests that go wrong, failed writes, dead
                    \* schedulers, and changes of a user's gates

ASSUME DiscoveryAssumption ==
    /\ Nobody \notin User /\ IsFiniteSet(User)
    /\ AssignedTo \in [Runner -> SUBSET User]
    /\ PagesPerRun \in Nat \ {0} /\ MaxListings \in Nat \ {0}
    /\ Interval \in Nat \ {0} /\ Limit \in Nat \ {0}
    /\ CronPeriod \in Nat \ {0}
    /\ MaxMishaps \in Nat

VARIABLES
    ahead,      \* of each user: the users whose last_discovery_at is earlier
    since,      \* ticks since last_discovery_at; Interval when it is due
    open,       \* users whose gates are open
    listed,     \* users the scheduler reads: toggle on, a site connected
    asking,     \* of each node's request: assigned users not looked at yet
    granted,    \* of each node: users whose turn it has and has not searched
    pass,       \* of each node: how far its user pass is
    asked,      \* nodes that asked for turns since the last tick
    found,      \* of each node: postings matched for the user being searched
    published,  \* postings in JobVision's sitemap
    seen,       \* of each node: postings whose page it has read
    feed,       \* of each node: those it retained, the JobVision window
    cooling,    \* nodes that leave JobVision alone after it pushed back
    sent,       \* of each node: postings handed to each user
    offered,    \* postings the server has taken in for each user
    cron,       \* the scheduler's run: step, users left and the order it read them
                \* in, users attempted
    clock,      \* ticks since the scheduler's last run began
    slow,       \* history: users whose next turn came while a pass still had them
    lost,       \* history: postings whose submission failed, for each user
    mishaps     \* history: failures and changes of gates

discoveryVars == <<ahead, since, open, listed, asking, granted, pass, asked, found, published, seen, feed, cooling,
                   sent, offered, cron, clock, slow, lost, mishaps>>

PassStep == {"idle", "ask", "refresh", "search", "submit"}
NobodyAhead == [u \in User |-> {}]
CronIdle == [step |-> "idle", left |-> {}, order |-> NobodyAhead, attempted |-> {}]

DiscoveryTypeOK ==
    /\ ahead \in [User -> SUBSET User]
    /\ since \in [User -> 0..Interval]
    /\ open \subseteq User /\ listed \subseteq User
    /\ asking \in [Runner -> SUBSET User] /\ granted \in [Runner -> SUBSET User]
    /\ pass \in [Runner -> [step : PassStep, user : User \cup {Nobody}]]
    /\ asked \subseteq Runner
    /\ found \in [Runner -> SUBSET Posting]
    /\ seen \in [Runner -> SUBSET published] /\ feed \in [Runner -> SUBSET published]
    /\ published \subseteq Posting /\ cooling \subseteq Runner
    /\ sent \in [Runner -> [User -> SUBSET Posting]]
    /\ offered \in [User -> SUBSET Posting] /\ lost \in [User -> SUBSET Posting]
    /\ cron \in [step : {"idle", "loop", "mark"}, left : SUBSET User,
                order : [User -> SUBSET User], attempted : SUBSET User]
    /\ clock \in 0..CronPeriod
    /\ slow \subseteq User
    /\ mishaps \in 0..MaxMishaps

IdlePass == [step |-> "idle", user |-> Nobody]

\* Nobody has been searched yet (last_discovery_at is NULL).
DiscoveryInit ==
    /\ ahead = NobodyAhead
    /\ since = [u \in User |-> Interval]
    /\ open = User /\ listed = User
    /\ asking = [n \in Runner |-> {}] /\ granted = [n \in Runner |-> {}]
    /\ pass = [n \in Runner |-> IdlePass] /\ asked = {}
    /\ found = [n \in Runner |-> {}] /\ seen = [n \in Runner |-> {}]
    /\ feed = [n \in Runner |-> {}] /\ published = {} /\ cooling = {}
    /\ sent = [n \in Runner |-> [u \in User |-> {}]]
    /\ offered = [u \in User |-> {}] /\ lost = [u \in User |-> {}]
    /\ cron = CronIdle /\ clock = 0
    /\ slow = {}
    /\ mishaps = 0

---------------------------------------------------------------------------
(* Turns.                                                                  *)

\* last_discovery_at := now() for all of S: they are behind the others, in no order.
Stamp(S) ==
    /\ ahead' = [u \in User |-> IF u \in S THEN User \ S ELSE ahead[u] \ S]
    /\ since' = [u \in User |-> IF u \in S THEN 0 ELSE since[u]]

\* The history's part: a user whom no pass has any more is not late.
SlowEnds == slow' = {u \in slow : \E n \in Runner : u \in granted'[n]}

Mishap == mishaps < MaxMishaps /\ mishaps' = mishaps + 1

\* GET /api/fleet/discovery: the users assigned to the node, one by one.
Ask(n) ==
    /\ pass[n].step = "idle" /\ n \notin asked
    /\ pass' = [pass EXCEPT ![n].step = "ask"]
    /\ asking' = [asking EXCEPT ![n] = AssignedTo[n]]
    /\ asked' = asked \cup {n}
    /\ UNCHANGED <<ahead, since, open, listed, granted, found, published, seen, feed, cooling, sent, offered, cron, clock, slow, lost, mishaps>>

\* Slip: the turn is looked up first, and stamped whatever it has become.
TurnIsDueAnyway(u) == TRUE

\* The UPDATE's own condition: no turn within the interval.
TurnIsDue(u) == since[u] = Interval

\* A user who does not get a turn keeps the place in line.
PassedOver(u) == UNCHANGED <<ahead, since>>

\* Gates first; a user whose turn it is gets stamped by the statement that asks, and is
\* dropped after all if JobVision's labels cannot be had.
Examine(n, u) ==
    /\ pass[n].step = "ask" /\ u \in asking[n]
    /\ asking' = [asking EXCEPT ![n] = @ \ {u}]
    /\ IF u \in open /\ TurnIsDue(u)
       THEN /\ Stamp({u})
            /\ \/ granted' = [granted EXCEPT ![n] = @ \cup {u}] /\ UNCHANGED mishaps
               \/ Mishap /\ UNCHANGED granted
       ELSE PassedOver(u) /\ UNCHANGED <<granted, mishaps>>
    /\ UNCHANGED <<open, listed, pass, asked, found, published, seen, feed, cooling, sent, offered, cron, clock, slow, lost>>

\* The users are handed over, or the answer is lost and their turns with it; without a
\* user the pass is over.
Answer(n) ==
    /\ pass[n].step = "ask" /\ asking[n] = {}
    /\ \/ /\ pass' = [pass EXCEPT ![n].step = IF granted[n] = {} THEN "idle" ELSE "refresh"]
          /\ UNCHANGED <<granted, mishaps>>
       \/ /\ Mishap
          /\ pass' = [pass EXCEPT ![n] = IdlePass]
          /\ granted' = [granted EXCEPT ![n] = {}]
    /\ SlowEnds
    /\ UNCHANGED <<ahead, since, open, listed, asked, asking, found, published, seen, feed, cooling, sent, offered, cron, clock, lost>>

---------------------------------------------------------------------------
(* A node's user pass.                                                     *)

Unread(n) == published \ seen[n]

\* Pages are read newest first, up to a cap and a deadline, and an unreachable one is
\* passed over: which of the unread ones is left open.
Reads(n) == {S \in SUBSET Unread(n) : Cardinality(S) <= PagesPerRun}

\* A page that was read is not read again, even if it held no posting: only those in
\* kept enter the window.
ReadPages(n, read, kept) ==
    /\ seen' = [seen EXCEPT ![n] = @ \cup read]
    /\ feed' = [feed EXCEPT ![n] = @ \cup kept]

SearchNext(n) == pass' = [pass EXCEPT ![n].step = "search"] /\ UNCHANGED granted

\* The pass ends, and the turns of its users with it.
PassFails(n) ==
    /\ pass' = [pass EXCEPT ![n] = IdlePass]
    /\ granted' = [granted EXCEPT ![n] = {}]

\* The window takes in postings it has not read.  When JobVision pushes back the board is
\* left alone for a while; when the sitemap or a page cannot be had it is not; and either
\* way the pass goes on with the window it has.  It ends if the catalog does not take
\* the new postings.
Refresh(n) ==
    /\ pass[n].step = "refresh"
    /\ IF n \in cooling THEN SearchNext(n) /\ UNCHANGED <<seen, feed, cooling, mishaps>>
       ELSE \E read \in Reads(n) : \E kept \in SUBSET read :
              /\ ReadPages(n, read, kept)
              /\ \/ /\ kept = read /\ (read = {} => Unread(n) = {})
                    /\ SearchNext(n) /\ UNCHANGED <<cooling, mishaps>>
                 \/ Mishap /\ SearchNext(n) /\ cooling' \in {cooling, cooling \cup {n}}
                 \/ Mishap /\ kept # {} /\ PassFails(n) /\ UNCHANGED cooling
    /\ SlowEnds
    /\ UNCHANGED <<ahead, since, open, listed, asking, asked, found, published, sent, offered, cron, clock, lost>>

\* The catalog pass, a loop of its own, reads into the same window.
CatalogReads(n) ==
    /\ n \notin cooling
    /\ \E read \in Reads(n) \ {{}} : \E kept \in SUBSET read :
          /\ ReadPages(n, read, kept)
          /\ \/ kept = read /\ UNCHANGED <<cooling, mishaps>>
             \/ Mishap /\ cooling' \in {cooling, cooling \cup {n}}
    /\ UNCHANGED <<ahead, since, open, listed, asking, granted, pass, asked, found, published, sent, offered, cron, clock, slow, lost>>

\* "JobVision ids already handed to each user, so the window is not resent": they are
\* noted before they are submitted.
MarkSent(n, u, S) == sent' = [sent EXCEPT ![n][u] = @ \cup S]

\* searchBoard: the retained window against what the user was given before.
Matched(n, u) == IF n \in cooling THEN {} ELSE feed[n] \ sent[n][u]

\* As many of S as a limit allows: all of it, or the limit.
UpTo(limit, S) ==
    {T \in SUBSET S : Cardinality(T) = IF limit < Cardinality(S) THEN limit ELSE Cardinality(S)}

Search(n, u) ==
    /\ pass[n].step = "search" /\ u \in granted[n]
    /\ \E matches \in UpTo(MaxListings, Matched(n, u)) :
          /\ found' = [found EXCEPT ![n] = matches]
          /\ MarkSent(n, u, matches)
    /\ pass' = [pass EXCEPT ![n] = [step |-> "submit", user |-> u]]
    /\ UNCHANGED <<ahead, since, open, listed, asked, asking, granted, published, seen, feed, cooling, offered, cron, clock, slow, lost, mishaps>>

\* The listings are queued for the user; a failure is logged, and the next user's turn
\* comes.
Submit(n) ==
    /\ pass[n].step = "submit"
    /\ LET u == pass[n].user
       IN  /\ \/ /\ offered' = [offered EXCEPT ![u] = @ \cup found[n]]
                 /\ UNCHANGED <<lost, mishaps>>
              \/ /\ found[n] # {} /\ Mishap
                 /\ lost' = [lost EXCEPT ![u] = @ \cup found[n]]
                 /\ UNCHANGED offered
           /\ granted' = [granted EXCEPT ![n] = @ \ {u}]
           /\ pass' = [pass EXCEPT ![n] = IF granted[n] = {u} THEN IdlePass
                                          ELSE [step |-> "search", user |-> Nobody]]
           /\ found' = [found EXCEPT ![n] = {}]
           /\ SlowEnds
    /\ UNCHANGED <<ahead, since, open, listed, asked, asking, published, seen, feed, cooling, sent, cron, clock>>

\* Slip: what was handed over is remembered across restarts.
ForgetSentNot(n) == UNCHANGED sent

\* "After a restart it rebuilds the window, and idempotent ingest absorbs anything sent
\* twice."
ForgetSent(n) == sent' = [sent EXCEPT ![n] = [u \in User |-> {}]]

\* The process is replaced; the rest of its request to the server is not carried out.
RunnerRestarts(n) ==
    /\ asking' = [asking EXCEPT ![n] = {}] /\ granted' = [granted EXCEPT ![n] = {}]
    /\ pass' = [pass EXCEPT ![n] = IdlePass]
    /\ found' = [found EXCEPT ![n] = {}]
    /\ seen' = [seen EXCEPT ![n] = {}] /\ feed' = [feed EXCEPT ![n] = {}] /\ cooling' = cooling \ {n}
    /\ asked' = asked \ {n}
    /\ ForgetSent(n)
    /\ SlowEnds
    /\ UNCHANGED <<ahead, since, open, listed, published, offered, cron, clock, lost>>

\* A crash, a deploy; FleetNode has the commands that do it too.
RunnerDies(n) == Mishap /\ RunnerRestarts(n)

---------------------------------------------------------------------------
(* The scheduler, under its lock.                                          *)

\* Slip: those who were searched last come first.
LastInLine(batch) == \A u \in batch : \A v \in listed : u \in ahead[v] => v \in batch

\* ORDER BY last_discovery_at ASC NULLS FIRST: nobody listed outside has waited longer.
FirstInLine(batch) == \A u \in batch : ahead[u] \cap listed \subseteq batch

\* listEligibleForServerDiscovery: those who waited longest, up to the limit.
CronBegins ==
    /\ cron.step = "idle" /\ clock = CronPeriod
    /\ clock' = 0
    /\ \E batch \in UpTo(Limit, listed) :
          /\ FirstInLine(batch)
          /\ cron' = [step |-> "loop", left |-> batch, attempted |-> {},
                      order |-> [u \in User |-> ahead[u] \cap listed]]
    /\ UNCHANGED <<ahead, since, open, listed, asking, granted, pass, asked, found, published, seen, feed, cooling, sent, offered, slow, lost, mishaps>>

\* Slip: a user who is turned away is not marked.
AttemptedIfOpen(u) == {u} \cap open

\* "every attempt, successful or refused, sends the user to the end of the line".
Attempted(u) == {u}

\* The next user in the order read: gates, then runFilterApply, which belongs to
\* QueueMembership.
CronUser(u) ==
    /\ cron.step = "loop"
    /\ u \in cron.left /\ cron.order[u] \cap cron.left = {}
    /\ cron' = [cron EXCEPT !.left = @ \ {u}, !.attempted = @ \cup Attempted(u)]
    /\ UNCHANGED <<ahead, since, open, listed, asking, granted, pass, asked, found, published, seen, feed, cooling, sent, offered, clock, slow, lost, mishaps>>

\* The list is done, or the time budget is spent.
CronStops ==
    /\ cron.step = "loop"
    /\ cron.left = {} \/ cron.attempted # {}
    /\ cron' = [cron EXCEPT !.step = "mark", !.left = {}]
    /\ UNCHANGED <<ahead, since, open, listed, asking, granted, pass, asked, found, published, seen, feed, cooling, sent, offered, clock, slow, lost, mishaps>>

\* markAttempted for all of them at once; its failure is swallowed.
CronMarks ==
    /\ cron.step = "mark"
    /\ cron' = CronIdle
    /\ \/ Stamp(cron.attempted) /\ UNCHANGED mishaps
       \/ Mishap /\ UNCHANGED <<ahead, since>>
    /\ UNCHANGED <<open, listed, asking, granted, pass, asked, found, published, seen, feed, cooling, sent, offered, clock, slow, lost>>

\* The run is cut off by its platform before it has marked anybody.
CronDies ==
    /\ cron.step # "idle"
    /\ Mishap
    /\ cron' = CronIdle
    /\ UNCHANGED <<ahead, since, open, listed, asking, granted, pass, asked, found, published, seen, feed, cooling, sent, offered, clock, slow, lost>>

---------------------------------------------------------------------------
(* The user's gates and time.                                              *)

\* A browser takes the queue or leaves it, the plan, the quota, a pause; the last connected
\* site; or the toggle, which counts for both.
Flipped(u, S) == IF u \in S THEN S \ {u} ELSE S \cup {u}

Toggle(u) ==
    /\ Mishap
    /\ open' \in {open, Flipped(u, open)} /\ listed' \in {listed, Flipped(u, listed)}
    /\ UNCHANGED <<ahead, since, asking, granted, pass, asked, found, published, seen, feed, cooling, sent, offered, cron, clock, slow, lost>>

\* JobVision lists a posting.
Publish(p) ==
    /\ p \notin published
    /\ published' = published \cup {p}
    /\ UNCHANGED <<ahead, since, open, listed, asking, granted, pass, asked, found, seen, feed, cooling, sent, offered, cron, clock, slow, lost, mishaps>>

\* Slip: the board is left alone for good.
CoolsDownNever(n) == FALSE /\ UNCHANGED discoveryVars

\* boardCooldownMs is over.
CoolsDown(n) ==
    /\ n \in cooling
    /\ cooling' = cooling \ {n}
    /\ UNCHANGED <<ahead, since, open, listed, asking, granted, pass, asked, found, published, seen, feed, sent, offered, cron, clock, slow, lost, mishaps>>

InPass == UNION {granted[n] : n \in Runner}

\* The cron is punctual and its run is over within a tick (DEFAULT_DISCOVERY_BUDGET_MS);
\* a node without a pass asks in every tick (KARJOO_DISCOVERY_INTERVAL_SEC), and is
\* answered; a pass may take any time.
Minutes ==
    /\ clock < CronPeriod /\ cron.step = "idle"
    /\ \A n \in Runner : pass[n].step # "ask" /\ (pass[n].step = "idle" => n \in asked)
    /\ asked' = {}
    /\ clock' = clock + 1
    /\ since' = [u \in User |-> IF since[u] < Interval THEN since[u] + 1 ELSE Interval]
    /\ slow' = slow \cup {u \in InPass : since[u] = Interval - 1}
    /\ UNCHANGED <<ahead, open, listed, asking, granted, pass, found, published, seen, feed, cooling, sent, offered, cron, lost, mishaps>>

UserPass(n) ==
    \/ Ask(n) \/ Answer(n) \/ Refresh(n) \/ Submit(n)
    \/ \E u \in User : Examine(n, u) \/ Search(n, u)

CronRun == CronBegins \/ (\E u \in User : CronUser(u)) \/ CronStops \/ CronMarks

DiscoveryNext ==
    \/ \E n \in Runner : UserPass(n)
    \/ CronRun \/ CronDies
    \/ \E u \in User : Toggle(u)
    \/ \E p \in Posting : Publish(p)
    \/ \E n \in Runner : CoolsDown(n) \/ CatalogReads(n)
    \/ Minutes

\* Nodes and the cron go round, and time passes.
DiscoveryFairness ==
    /\ \A n \in Runner : WF_discoveryVars(UserPass(n)) /\ WF_discoveryVars(CoolsDown(n))
    /\ WF_discoveryVars(CronRun)
    /\ WF_discoveryVars(Minutes)

DiscoverySpec ==
    /\ DiscoveryInit /\ [][DiscoveryNext \/ \E n \in Runner : RunnerDies(n)]_discoveryVars
    /\ DiscoveryFairness

---------------------------------------------------------------------------
(* Properties.                                                             *)

\* "Two nodes, or two requests at once, never both get true": two nodes have the same
\* user only if one of them has kept the user past the interval.
TurnNotShared ==
    \A m, n \in Runner : m # n => granted[m] \cap granted[n] \subseteq slow

\* What a node counts as handed to a user, and is not just handing over, the server
\* has, unless the submission failed: such postings the node does not offer again.
SentWasDelivered ==
    \A n \in Runner, u \in User :
        sent[n][u] \subseteq offered[u] \cup lost[u]
                             \cup (IF pass[n].user = u THEN found[n] ELSE {})

\* "ORDER BY last_discovery_at": a run of the scheduler attempts nobody before those who
\* had waited longer when it read the list, however the nodes take their turns meanwhile.
LongestWaitFirst ==
    \A u \in cron.attempted : cron.order[u] \subseteq cron.attempted

\* "so that a user who is always refused does not lock the front of the line": every
\* user the scheduler reads is attempted by it, or has a turn on a node, again and again.
EveryUserComesUp ==
    \A u \in User : []<>(u \in cron.attempted \/ u \in InPass \/ u \notin listed)

\* The user's turn comes while a pass of the node has others: by the time it is over the
\* scheduler may have taken the turn.
DueWhileBusy(u) ==
    since[u] = Interval /\ \E n \in Runner : u \in AssignedTo[n] \ granted[n] /\ granted[n] # {}

\* The scheduler can be back at a user before the interval is over: with everybody it
\* reads in one line, it may come to the same user again after so many of its runs.
RunsApart == IF Limit < Cardinality(listed) THEN Cardinality(listed) \div Limit ELSE 1

CronCrowdsOut == RunsApart * CronPeriod <= Interval

Assigned == UNION {AssignedTo[n] : n \in Runner}

\* A node of the user has read the posting's page in vain, and does not read it again.
ReadInVain(u, p) == \E n \in Runner : u \in AssignedTo[n] /\ p \in seen[n] \ feed[n]

\* What may come of a posting: it is offered to the user, or its one submission failed,
\* or its page was read in vain; or the user's gates are closed, the node is busy with
\* others, or the scheduler leaves the nodes no turn.
Settled(u, p) ==
    \/ p \in offered[u] \cup lost[u] \/ ReadInVain(u, p)
    \/ u \notin open \/ DueWhileBusy(u) \/ CronCrowdsOut

\* "RETAIN every fresh posting it has read ... a user whose turn fell between two passes":
\* a posting is offered to every user of the nodes in the end, whoever's pass read it,
\* with the exceptions above.
PostingReachesUser == \A u \in Assigned, p \in Posting : p \in published ~> Settled(u, p)

\* "The node now runs the same search ... without a break" (fleet/discovery.ts): a user of
\* a node whose gates are open is searched by it again and again, unless it is busy with
\* others.  The constants of the repository do not keep that promise (see the README).
NodesSearchToo ==
    \A u \in Assigned : []<>(u \in InPass \/ u \notin open \/ DueWhileBusy(u))
=============================================================================
