---------------------------- MODULE HostHealth -----------------------------
(***************************************************************************)
(* Reachability of the monitored hosts: the SSH poll cycle                 *)
(* (tasks/host_poller.py) and the once-a-minute heartbeat check            *)
(* (tasks/host_health_watchdog.py), two processes that write the same      *)
(* Monitored Host documents.                                               *)
(*                                                                         *)
(* A heartbeat check reads all hosts at once and then decides about them   *)
(* one by one from what it read.  Time is left out: nothing bounds the     *)
(* length of a cycle against heartbeat_timeout_seconds, so a last_seen may *)
(* go stale at any moment.                                                 *)
(***************************************************************************)
EXTENDS AlertLog, FiniteSets

CONSTANTS
    Hosts,    \* Monitored Host documents
    Benches,  \* those that run a Frappe bench, and so report its scheduler
    None      \* not a reading

Ages == {"never", "fresh", "stale"}

\* The fields check_host_heartbeats reads; "seen" is whether last_seen is recent.
Reading == [online: BOOLEAN, seen: BOOLEAN, sched: Ages, overdue: BOOLEAN]

ASSUME HostAssumption == Benches \subseteq Hosts /\ None \notin Reading

VARIABLES
    polling,     \* SSH polling is switched on
    host,        \* the Monitored Host documents
    bastion,     \* SSH Settings: bastion_failure_streak, bastion_unreachable
    log,         \* Host Unreachable rows
    schedLog,    \* Scheduler Stalled rows
    bastionLog,  \* Warpgate Unreachable rows
    cycle,       \* the poll cycle: hosts it tries, those it waits for, and whether
                 \*   every result so far was a failure at Warpgate
    pass         \* the heartbeat check: what it read of each host it has still to
                 \*   decide about

vars == <<polling, host, bastion, log, schedLog, bastionLog, cycle, pass>>

\* last_poll_kind: a configuration error, a connection to Warpgate that failed,
\* or anything else, success included, which nothing tells apart.
Kinds == {"config", "bastion", "other"}

HostDoc == [enabled: BOOLEAN, kind: Kinds, online: BOOLEAN, seen: Ages,
            sched: Ages, overdue: BOOLEAN]

\* The type invariant.
TypeOK ==
    /\ polling \in BOOLEAN
    /\ host \in [Hosts -> HostDoc]
    /\ bastion \in [streak: 0..Checks, down: BOOLEAN]
    /\ log \in [Hosts -> Rows] /\ schedLog \in [Hosts -> Rows] /\ bastionLog \in Rows
    /\ cycle \in [on: BOOLEAN, tried: SUBSET Hosts, todo: SUBSET Hosts, only: BOOLEAN]
    /\ pass \in [Hosts -> Reading \cup {None}]

Idle == [on |-> FALSE, tried |-> {}, todo |-> {}, only |-> TRUE]

NewHost == [enabled |-> FALSE, kind |-> "other", online |-> FALSE, seen |-> "never",
            sched |-> "never", overdue |-> FALSE]

Init ==
    /\ polling = FALSE
    /\ host = [h \in Hosts |-> NewHost]
    /\ bastion = [streak |-> 0, down |-> FALSE]
    /\ log = [h \in Hosts |-> NoRows] /\ schedLog = log /\ bastionLog = NoRows
    /\ cycle = Idle
    /\ pass = [h \in Hosts |-> None]

-----------------------------------------------------------------------------
\* The poll cycle.

Enabled == {h \in Hosts : host[h].enabled}

\* poll_all_hosts: every enabled host whose target resolves is tried; one whose
\* target does not is recorded as a configuration error, unless resolving it
\* raises something else.
BeginCycle ==
    /\ polling /\ ~cycle.on /\ Enabled # {}
    /\ \E bad \in SUBSET Enabled, skipped \in SUBSET Enabled :
          /\ bad \cap skipped = {}
          /\ host' = [h \in Hosts |-> IF h \in bad THEN [host[h] EXCEPT !.kind = "config"] ELSE host[h]]
          /\ LET targets == Enabled \ (bad \cup skipped)
             IN  cycle' = [on |-> TRUE, tried |-> targets, todo |-> targets, only |-> TRUE]
    /\ UNCHANGED <<polling, bastion, log, schedLog, bastionLog, pass>>

\* There is no usable private key: every host fails and the cycle is over.
NoKey ==
    /\ polling /\ ~cycle.on /\ Enabled # {}
    /\ host' = [h \in Hosts |-> IF h \in Enabled THEN [host[h] EXCEPT !.kind = "other"] ELSE host[h]]
    /\ UNCHANGED <<polling, bastion, log, schedLog, bastionLog, cycle, pass>>

\* Mutant: one failure at Warpgate is held against it whatever the others do.
CountedAny(h, atBastion) ==
    /\ h \in cycle.todo
    /\ cycle' = [cycle EXCEPT !.todo = @ \ {h}, !.only = @ \/ atBastion]

\* A result arrives and is counted.
Counted(h, atBastion) ==
    /\ h \in cycle.todo
    /\ cycle' = [cycle EXCEPT !.todo = @ \ {h}, !.only = @ /\ atBastion]

\* The scheduler run a report brings: it may be an old one, and a host without
\* a bench, or whose bench reports none, brings none.
ReportedRun(h) == {host[h].sched} \cup (IF h \in Benches THEN {"fresh", "stale"} ELSE {})

\* Mutant: process_status leaves is_online to the heartbeat check.
HostAnswersOnlySeen(h) ==
    /\ Counted(h, FALSE)
    /\ host' = [host EXCEPT ![h].kind = "other", ![h].seen = "fresh"]
    /\ UNCHANGED <<polling, bastion, log, schedLog, bastionLog, pass>>

\* process_status commits last_seen and is_online before anything else of the
\* report is stored; if storing the rest fails, last_poll_kind stays as it was.
HostAnswers(h) ==
    /\ Counted(h, FALSE)
    /\ \E kind \in {"other", host[h].kind}, run \in ReportedRun(h) :
          host' = [host EXCEPT ![h].kind = kind, ![h].online = TRUE,
                               ![h].seen = "fresh", ![h].sched = run]
    /\ UNCHANGED <<polling, bastion, log, schedLog, bastionLog, pass>>

\* The report cannot be stored, or the poll raised something unforeseen.
ReportLost(h) ==
    /\ Counted(h, FALSE)
    /\ UNCHANGED <<polling, host, bastion, log, schedLog, bastionLog, pass>>

\* _record_failure, for an error of either scope.
HostFails(h, atBastion) ==
    /\ Counted(h, atBastion)
    /\ host' = [host EXCEPT ![h].kind = IF atBastion THEN "bastion" ELSE "other"]
    /\ UNCHANGED <<polling, bastion, log, schedLog, bastionLog, pass>>

\* The streak of cycles in which everything tried failed at Warpgate.
Streak(only) == IF only THEN Longer(bastion.streak) ELSE 0

\* update_bastion_state at the end of a cycle that tried something.
EndCycle ==
    /\ cycle.on /\ cycle.todo = {}
    /\ cycle' = Idle
    /\ IF cycle.tried = {} THEN UNCHANGED <<bastion, bastionLog>>
       ELSE LET down == cycle.only /\ Streak(cycle.only) >= Checks
            IN  /\ bastion' = [streak |-> Streak(cycle.only), down |-> down]
                /\ bastionLog' = HandleTransition(bastion.down, down, bastionLog, TRUE)
    /\ UNCHANGED <<polling, host, log, schedLog, pass>>

\* The worker is killed, or an exception ends the cycle.
CycleDies ==
    /\ cycle.on
    /\ cycle' = Idle
    /\ UNCHANGED <<polling, host, bastion, log, schedLog, bastionLog, pass>>

-----------------------------------------------------------------------------
\* The heartbeat check.

\* check_host_heartbeats reads what it decides from, once.
PassBegins ==
    /\ \A h \in Hosts : pass[h] = None
    /\ polling /\ ~bastion.down
    /\ \E h \in Enabled : host[h].kind # "config"
    /\ pass' = [h \in Hosts |->
          IF host[h].enabled /\ host[h].kind # "config"
          THEN [online |-> host[h].online, seen |-> host[h].seen = "fresh",
                sched |-> host[h].sched, overdue |-> host[h].overdue]
          ELSE None]
    /\ UNCHANGED <<polling, host, bastion, log, schedLog, bastionLog, cycle>>

\* Mutant: without _handle_transition's self-healing branch.
UnreachableOnEdge(h) == HandleEdgeOnly(~pass[h].online, ~pass[h].seen, log[h], TRUE)

\* The Host Unreachable rows after the check.
Unreachable(h) == HandleTransition(~pass[h].online, ~pass[h].seen, log[h], TRUE)

\* is_online after the check: written only if it differs from what was read.
OnlineFlag(h) == IF pass[h].seen # pass[h].online THEN pass[h].seen ELSE host[h].online

\* _check_one_host, with what was read when the pass began.  A scheduler that
\* never ran is not overdue.
CheckHost(h) ==
    /\ pass[h] # None
    /\ LET was == pass[h]
           overdue == was.sched = "stale"
       IN  /\ host' = [host EXCEPT
                 ![h].online = OnlineFlag(h),
                 ![h].overdue = IF was.sched # "never" /\ overdue # was.overdue THEN overdue ELSE @]
           /\ schedLog' = [schedLog EXCEPT ![h] =
                 IF was.sched = "never" THEN @ ELSE HandleTransition(was.overdue, overdue, @, TRUE)]
    /\ log' = [log EXCEPT ![h] = Unreachable(h)]
    /\ pass' = [pass EXCEPT ![h] = None]
    /\ UNCHANGED <<polling, bastion, bastionLog, cycle>>

\* The check of one host raises and is rolled back.
CheckRaises(h) ==
    /\ pass[h] # None
    /\ pass' = [pass EXCEPT ![h] = None]
    /\ UNCHANGED <<polling, host, bastion, log, schedLog, bastionLog, cycle>>

-----------------------------------------------------------------------------
\* Time and the administrator.

SeenGoesStale(h) ==
    /\ host[h].seen = "fresh"
    /\ host' = [host EXCEPT ![h].seen = "stale"]
    /\ UNCHANGED <<polling, bastion, log, schedLog, bastionLog, cycle, pass>>

SchedulerGoesStale(h) ==
    /\ host[h].sched = "fresh"
    /\ host' = [host EXCEPT ![h].sched = "stale"]
    /\ UNCHANGED <<polling, bastion, log, schedLog, bastionLog, cycle, pass>>

ToggleHost(h) ==
    /\ host' = [host EXCEPT ![h].enabled = ~@]
    /\ UNCHANGED <<polling, bastion, log, schedLog, bastionLog, cycle, pass>>

TogglePolling ==
    /\ polling' = ~polling
    /\ UNCHANGED <<host, bastion, log, schedLog, bastionLog, cycle, pass>>

Result(h) == HostAnswers(h) \/ ReportLost(h) \/ \E b \in BOOLEAN : HostFails(h, b)

Next ==
    \/ BeginCycle \/ NoKey \/ EndCycle \/ CycleDies \/ PassBegins \/ TogglePolling
    \/ \E h \in Hosts : \/ Result(h) \/ CheckHost(h) \/ CheckRaises(h)
                        \/ SeenGoesStale(h) \/ ToggleHost(h)
    \/ \E h \in Benches : SchedulerGoesStale(h)

Spec == Init /\ [][Next]_vars

\* The scheduler keeps starting heartbeat checks, and the check of a host does
\* not fail for ever.
Fairness ==
    /\ WF_vars(PassBegins)
    /\ \A h \in Hosts : /\ WF_vars(CheckHost(h) \/ CheckRaises(h))
                        /\ SF_vars(CheckHost(h))

FairSpec == Spec /\ Fairness

-----------------------------------------------------------------------------
\* Properties.

\* A host that once answered and is shown offline has an open Host
\* Unreachable alert, however polls and heartbeat checks interleave
\* (process_status and _check_one_host both write is_online).
OfflineIsAnnounced ==
    \A h \in Hosts : host[h].seen # "never" /\ ~host[h].online => HasOpenAlert(log[h])

\* Warpgate is declared down by a cycle in which every host that was tried
\* failed there, in whatever order the threads' results arrived, and one
\* alert is open exactly while it is down (poll_all_hosts,
\* update_bastion_state).
BastionIncidentIsConfirmed ==
    [][/\ bastionLog.open = IF bastion.down THEN 1 ELSE 0
       /\ ~bastion.down /\ bastion'.down => \A h \in cycle.tried : host[h].kind = "bastion"]_vars

\* Recipients are told of a recovery, of Warpgate, a host or its scheduler,
\* only after they were told of the problem (_handle_transition, with flags
\* that another process may have changed since they were read).
RecoveriesArePaired ==
    /\ bastionLog.told # "false recovery"
    /\ \A h \in Hosts : log[h].told # "false recovery" /\ schedLog[h].told # "false recovery"

\* A polled host that stays silent has an open alert again and again, also
\* when some checks fail, unless Warpgate is down (check_host_heartbeats).
SilentIsAnnounced ==
    \A h \in Hosts :
        <>[](/\ polling /\ ~bastion.down /\ host[h].enabled
             /\ host[h].kind # "config" /\ host[h].seen # "fresh")
        => []<>HasOpenAlert(log[h])

\* "resolve_alert is called once the poller observes that the condition has
\* cleared": a host that keeps answering has no open alert in the end.
AnsweringIsResolved ==
    \A h \in Hosts :
        <>[](/\ polling /\ ~bastion.down /\ host[h].enabled
             /\ host[h].kind # "config" /\ host[h].seen = "fresh")
        => <>[](~HasOpenAlert(log[h]))

-----------------------------------------------------------------------------
\* The inductive invariant behind the safety properties.

\* The rows of Warpgate are in step with its flag.
WarpgateRowIsCurrent ==
    /\ bastionLog.open = IF bastion.down THEN 1 ELSE 0
    /\ bastionLog.told = IF bastion.down THEN "problem" ELSE "fine"

\* An open row of a host, or a set overdue flag, means that recipients were
\* told last of the problem.
HostRowsAreCurrent ==
    \A h \in Hosts : /\ HasOpenAlert(log[h]) => log[h].told = "problem"
                     /\ host[h].overdue => schedLog[h].told = "problem"

\* What a pass has read and still relies on: only the pass itself changes the
\* overdue flag, and a recovery it is about to announce follows an alert.
ReadingsHold ==
    \A h \in Hosts : pass[h] # None =>
        /\ pass[h].overdue = host[h].overdue
        /\ pass[h].seen /\ ~pass[h].online => log[h].told = "problem"

\* As long as a cycle counts against Warpgate, every result was a failure there.
ResultsHold ==
    cycle.on /\ cycle.only => \A h \in cycle.tried \ cycle.todo : host[h].kind = "bastion"

IInv ==
    /\ TypeOK /\ OfflineIsAnnounced /\ RecoveriesArePaired
    /\ WarpgateRowIsCurrent /\ HostRowsAreCurrent /\ ReadingsHold /\ ResultsHold
=============================================================================
