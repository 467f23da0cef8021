-------------------------- MODULE UptimeConsensus --------------------------
(***************************************************************************)
(* Site Down alerting for one site_name (tasks/uptime_kuma_poller.py): the *)
(* poll cycle over the Uptime Kuma instances, the vote of the site's       *)
(* sibling documents, and the alert it raises or clears.                   *)
(*                                                                         *)
(* is_critical is committed in the middle of _reconcile_site_criticality,  *)
(* the Alert Log rows only by the next commit of the job; "log" is what    *)
(* the job sees, "saved" what is committed.  A notification that has been  *)
(* sent is not taken back by a rollback.                                   *)
(***************************************************************************)
EXTENDS AlertLog, Sequences, FiniteSets

CONSTANTS
    Instances,   \* Uptime Kuma Instance documents
    Switchable,  \* bound: those whose enabled flag a user changes
    Docs,        \* names of the site's Uptime Site documents; numbers for their order
    InstanceOf,  \* the instance each document belongs to
    Window       \* alert_window_checks

ASSUME UptimeAssumption ==
    /\ Docs \subseteq Int
    /\ \A S \in SUBSET Docs : S # {} => \E d \in S : \A e \in S : d <= e
    /\ Switchable \subseteq Instances
    /\ InstanceOf \in [Docs -> Instances]
    /\ Window \in Nat \ {0}

VARIABLES
    enabled,    \* the enabled instances
    doc,        \* Uptime Site documents
    checks,     \* last Window rows of each document's Uptime Check Log that
                \*   were not in maintenance, oldest first; TRUE is up
    fresh,      \* how many of them count: the newest, those written since the
                \*   last maintenance window ended
    window,     \* no window to look back on, one active, or one ended
    phase,      \* of the poll loop
    todo,       \* instances the current cycle has still to poll
    log,        \* unresolved Site Down rows of each document, as the job sees them
    saved,      \* the same, as committed
    told,       \* what recipients were last told about the site
    disturbed   \* history: an announcement was cut off, or the set of siblings
                \*   changed during an incident

vars == <<enabled, doc, checks, fresh, window, phase, todo, log, saved, told, disturbed>>

Counts == [Docs -> 0..MaxOpen]

\* The type invariant.
TypeOK ==
    /\ enabled \in SUBSET Instances
    /\ doc \in [Docs -> [state: {"none", "live", "deleted"}, active: BOOLEAN, critical: BOOLEAN]]
    /\ checks \in [Docs -> Seq(BOOLEAN)] /\ \A d \in Docs : Len(checks[d]) <= Window
    /\ fresh \in [Docs -> 0..Window] /\ \A d \in Docs : fresh[d] <= Len(checks[d])
    /\ window \in {"none", "active", "ended"}
    /\ phase \in {"sleeping", "polling", "reconciled", "stopped"}
    /\ todo \in SUBSET Instances
    /\ log \in Counts /\ saved \in Counts
    /\ told \in {"fine", "problem", "false recovery"}
    /\ disturbed \in BOOLEAN

Init ==
    /\ enabled = Instances
    /\ doc = [d \in Docs |-> [state |-> "none", active |-> FALSE, critical |-> FALSE]]
    /\ checks = [d \in Docs |-> <<>>]
    /\ fresh = [d \in Docs |-> 0]
    /\ window = "none"
    /\ phase = "sleeping"
    /\ todo = {}
    /\ log = [d \in Docs |-> 0] /\ saved = log
    /\ told = "fine"
    /\ disturbed = FALSE

-----------------------------------------------------------------------------
\* The vote.

\* siblings, ordered by name; the alert is about the first of them.
Siblings == {d \in Docs : doc[d].state = "live"}

First == CHOOSE d \in Siblings : \A e \in Siblings : d <= e

\* The last Window rows that _instance_verdict reads: those since "since".
Counted(d) == SubSeq(checks[d], Len(checks[d]) - fresh[d] + 1, Len(checks[d]))

\* _instance_verdict: None until there is a full window of rows, then whether
\* more than half of them are down.
Verdict(d) ==
    LET rows == Counted(d)
        down == Cardinality({n \in DOMAIN rows : ~rows[n]})
    IN  IF Len(rows) < Window THEN "none"
        ELSE IF 2 * down > Window THEN "down" ELSE "up"

\* The active siblings that have a verdict.
Voters == {d \in Siblings : doc[d].active /\ Verdict(d) # "none"}

\* Mutant: a paused or undecided sibling counts as a vote for "up".
ConsensusOfAll == Siblings # {} /\ \A d \in Siblings : d \in Voters /\ Verdict(d) = "down"

\* total_votes > 0 and down_votes = total_votes.
Consensus == Voters # {} /\ \A d \in Voters : Verdict(d) = "down"

-----------------------------------------------------------------------------
\* The poll loop.

\* poll_all_instances begins.
BeginCycle ==
    /\ phase \in {"sleeping", "reconciled"}
    /\ phase' = "polling"
    /\ todo' = enabled
    /\ UNCHANGED <<enabled, doc, checks, fresh, window, log, saved, told, disturbed>>

\* One instance's answer about the site is recorded for its documents, except
\* that rows inside a maintenance window never count.
RecordCheck(i, up) ==
    LET On == {d \in Siblings : InstanceOf[d] = i}
    IN  IF window = "active" THEN UNCHANGED <<checks, fresh>>
        ELSE /\ checks' = [d \in Docs |->
                 IF d \notin On THEN checks[d]
                 ELSE IF Len(checks[d]) < Window THEN Append(checks[d], up)
                 ELSE Append(Tail(checks[d]), up)]
             /\ fresh' = [d \in Docs |-> IF d \in On /\ fresh[d] < Window
                                         THEN fresh[d] + 1 ELSE fresh[d]]

\* _poll_instance gets an Up or Down reading; its commit saves the log too.
PollInstance(i) ==
    /\ i \in todo /\ todo' = todo \ {i}
    /\ \E up \in BOOLEAN : RecordCheck(i, up)
    /\ saved' = log
    /\ UNCHANGED <<enabled, doc, window, phase, log, told, disturbed>>

\* The instance cannot be reached, or has no Up or Down reading of the site.
PollNoReading(i) ==
    /\ i \in todo /\ todo' = todo \ {i}
    /\ saved' = log
    /\ UNCHANGED <<enabled, doc, checks, fresh, window, phase, log, told, disturbed>>

\* The instance was polled less than poll_interval_seconds ago.
PollSkipped(i) ==
    /\ i \in todo /\ todo' = todo \ {i}
    /\ UNCHANGED <<enabled, doc, checks, fresh, window, phase, log, saved, told, disturbed>>

\* Any other exception rolls back whatever was not committed.  After one in
\* the auto-import the instance is still polled.
PollRaises(i) ==
    /\ i \in todo /\ todo' \in {todo, todo \ {i}}
    /\ log' = saved
    /\ disturbed' = (disturbed \/ log # saved)
    /\ UNCHANGED <<enabled, doc, checks, fresh, window, phase, saved, told>>

\* With no instance enabled the loop ends after the cycle.
AfterCycle == IF enabled = {} THEN "stopped" ELSE "reconciled"

\* Mutant: only the sibling the alert is about is updated.
SetFirstCritical(is) == [doc EXCEPT ![First].critical = is]

\* Every sibling's is_critical.
SetCritical(is) == [d \in Docs |-> IF d \in Siblings THEN [doc[d] EXCEPT !.critical = is] ELSE doc[d]]

\* _reconcile_site_criticality, to its end.  A change of is_critical is
\* committed, with the rows of earlier cycles, before the new row is written.
Reconcile ==
    /\ phase = "polling" /\ todo = {}
    /\ phase' = AfterCycle
    /\ IF window = "active" \/ Siblings = {}
       THEN /\ UNCHANGED <<doc, log, told>>
            /\ saved' = IF enabled = {} THEN log ELSE saved
       ELSE LET was == doc[First].critical
                is == Consensus
                rows == HandleTransition(was, is, [open |-> log[First], told |-> told], TRUE)
            IN  /\ doc' = IF is # was THEN SetCritical(is) ELSE doc
                /\ log' = [log EXCEPT ![First] = rows.open]
                /\ told' = rows.told
                /\ saved' = IF enabled = {} THEN log' ELSE IF is # was THEN log ELSE saved
    /\ UNCHANGED <<enabled, checks, fresh, window, todo, disturbed>>

\* _reconcile_site_criticality is cut off after the commit of is_critical and
\* before _handle_transition has written its row.
ReconcileCutOff ==
    /\ phase = "polling" /\ todo = {}
    /\ window # "active" /\ Siblings # {} /\ Consensus # doc[First].critical
    /\ phase' = "sleeping"
    /\ doc' = SetCritical(Consensus)
    /\ saved' = log
    /\ disturbed' = TRUE
    /\ UNCHANGED <<enabled, checks, fresh, window, todo, log, told>>

\* The worker is killed, or an exception ends the cycle: what was not
\* committed is lost.
CycleDies ==
    /\ phase # "stopped"
    /\ phase' = "sleeping" /\ todo' = {}
    /\ log' = saved
    /\ disturbed' = (disturbed \/ log # saved)
    /\ UNCHANGED <<enabled, doc, checks, fresh, window, saved, told>>

\* A run of the loop ends normally and its job commits; the next one follows.
RunEnds ==
    /\ phase = "reconciled"
    /\ phase' = "sleeping" /\ saved' = log
    /\ UNCHANGED <<enabled, doc, checks, fresh, window, todo, log, told, disturbed>>

\* ensure_uptime_poller_running once an instance is enabled again.
Restart ==
    /\ phase = "stopped" /\ enabled # {}
    /\ phase' = "sleeping"
    /\ UNCHANGED <<enabled, doc, checks, fresh, window, todo, log, saved, told, disturbed>>

-----------------------------------------------------------------------------
\* Requests of users, and time.

Incident == \E d \in Docs : log[d] > 0 \/ (d \in Siblings /\ doc[d].critical)

\* A document is created by add_site, an import or the sync of missing sites.
CreateDoc(d) ==
    /\ doc[d].state = "none"
    /\ \E active \in BOOLEAN :
          doc' = [doc EXCEPT ![d] = [state |-> "live", active |-> active, critical |-> FALSE]]
    /\ disturbed' = (disturbed \/ Incident)
    /\ UNCHANGED <<enabled, checks, fresh, window, phase, todo, log, saved, told>>

\* delete_site, one sibling at a time: each may fail by itself.  A document goes
\* with its check history, its rows in the Alert Log stay; the last document
\* takes the maintenance windows with it.
DeleteDoc(d) ==
    /\ doc[d].state = "live"
    /\ doc' = [doc EXCEPT ![d] = [state |-> "deleted", active |-> FALSE, critical |-> FALSE]]
    /\ checks' = [checks EXCEPT ![d] = <<>>]
    /\ window' = IF Siblings = {d} THEN "none" ELSE window
    /\ fresh' = [fresh EXCEPT ![d] = 0]
    /\ disturbed' = (disturbed \/ Incident)
    /\ UNCHANGED <<enabled, phase, todo, log, saved, told>>

\* pause_site and resume_site, one sibling at a time: each may fail by itself.
SetActive(d) ==
    /\ doc[d].state = "live"
    /\ doc' = [doc EXCEPT ![d].active = ~@]
    /\ UNCHANGED <<enabled, checks, fresh, window, phase, todo, log, saved, told, disturbed>>

ToggleInstance(i) ==
    /\ i \in Switchable
    /\ enabled' = IF i \in enabled THEN enabled \ {i} ELSE enabled \cup {i}
    /\ UNCHANGED <<doc, checks, fresh, window, phase, todo, log, saved, told, disturbed>>

WindowStarts ==
    /\ window # "active" /\ Siblings # {}
    /\ window' = "active"
    /\ UNCHANGED <<enabled, doc, checks, fresh, phase, todo, log, saved, told, disturbed>>

\* From now on only checks after the end of the window count.
WindowEnds ==
    /\ window = "active"
    /\ window' = "ended"
    /\ fresh' = [d \in Docs |-> 0]
    /\ UNCHANGED <<enabled, doc, checks, phase, todo, log, saved, told, disturbed>>

\* The window is deleted or disabled, or ended more than _SEARCH_DAYS ago:
\* last_window_end finds none, and older checks count again.
WindowForgotten ==
    /\ window # "none"
    /\ window' = "none"
    /\ fresh' = [d \in Docs |-> Len(checks[d])]
    /\ UNCHANGED <<enabled, doc, checks, phase, todo, log, saved, told, disturbed>>

Environment ==
    \/ \E d \in Docs : CreateDoc(d) \/ DeleteDoc(d) \/ SetActive(d)
    \/ \E i \in Instances : ToggleInstance(i)
    \/ WindowStarts \/ WindowEnds \/ WindowForgotten

Poll(i) == PollInstance(i) \/ PollNoReading(i) \/ PollSkipped(i) \/ PollRaises(i)

Next ==
    \/ BeginCycle \/ Reconcile \/ ReconcileCutOff \/ CycleDies \/ RunEnds \/ Restart
    \/ \E i \in Instances : Poll(i)
    \/ Environment

Spec == Init /\ [][Next]_vars

\* Cycles keep beginning (PollLoop); a worker may be killed any number of
\* times, but of the cycles that begin again and again one polls its last
\* instance, and of those again and again one reconciles.
Fairness ==
    /\ WF_vars(BeginCycle) /\ WF_vars(Restart)
    /\ []<>(phase = "polling") => []<>(phase = "polling" /\ todo = {})
    /\ SF_vars(Reconcile)

FairSpec == Spec /\ Fairness

-----------------------------------------------------------------------------
\* Properties.

\* As long as no announcement was cut off and no sibling came or went during
\* an incident: all siblings carry the same is_critical, exactly one row is
\* open while it is set and none otherwise, and recipients have been told so;
\* through votes, pauses, maintenance windows and failed polls
\* (_reconcile_site_criticality and uptime_kuma_poller.py:49-53; the docstring
\* of uptime_monitor/api.py says that each instance keeps its own independent
\* is_critical, which the code does not do).
IncidentTracksSite ==
    ~disturbed =>
        /\ \A d, e \in Siblings : doc[d].critical = doc[e].critical
        /\ \A d \in Docs : log[d] = IF d \in Siblings /\ d = First /\ doc[d].critical THEN 1 ELSE 0
        /\ told = IF \E d \in Siblings : doc[d].critical THEN "problem" ELSE "fine"

\* However a row was lost, the next reconciliation that ends leaves no
\* critical site without an open alert (_handle_transition's self-healing).
ReconcileAnnounces ==
    [][phase = "polling" /\ phase' = "reconciled" /\ window # "active" /\ Siblings # {}
       => (doc'[First].critical => log'[First] > 0)]_vars

\* A site that some instance keeps seeing down, and none that has a verdict
\* sees up, has an open alert again and again, whatever polls fail, cycles die
\* and rows are rolled back in between, and whatever undecided or paused
\* siblings it has (poll_all_instances, _reconcile_site_criticality).
DownIsAnnounced ==
    <>[](/\ window # "active" /\ enabled # {}
         /\ \E d \in Siblings : doc[d].active /\ Verdict(d) = "down"
         /\ \A d \in Siblings : doc[d].active => Verdict(d) # "up")
    => []<>(Siblings # {} /\ log[First] > 0)

\* "Planned downtime: no state change, no alert.  An incident already open
\* stays open and recovers normally once the site is back": after a window, a
\* site nobody paused is announced as back up only when some check that counts
\* saw it up (_reconcile_site_criticality).
RecoveryMeansUp ==
    [][/\ told = "problem" /\ told' = "fine"
       /\ window = "ended" /\ \A d \in Siblings : doc[d].active
       => \E d \in Siblings : \E n \in DOMAIN Counted(d) : Counted(d)[n]]_vars
=============================================================================
