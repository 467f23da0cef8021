------------------------- MODULE HostHealthProofs --------------------------
(***************************************************************************)
(* Reachability alerts, for any number of hosts and any                    *)
(* confirmation_checks: polls and heartbeat checks interleave freely.      *)
(***************************************************************************)
EXTENDS HostHealth, AlertLogProofs, TLAPS

-----------------------------------------------------------------------------
\* Types.

\* The fields of a host document.
LEMMA HostFields ==
    ASSUME TypeOK, NEW h \in Hosts
    PROVE  /\ host[h].enabled \in BOOLEAN /\ host[h].kind \in Kinds
           /\ host[h].online \in BOOLEAN /\ host[h].seen \in Ages
           /\ host[h].sched \in Ages /\ host[h].overdue \in BOOLEAN
BY DEF TypeOK, HostDoc

\* The fields of what a pass has read.
LEMMA ReadingFields ==
    ASSUME TypeOK, NEW h \in Hosts, pass[h] # None
    PROVE  /\ pass[h].online \in BOOLEAN /\ pass[h].seen \in BOOLEAN
           /\ pass[h].sched \in Ages /\ pass[h].overdue \in BOOLEAN
<1>1. pass[h] \in Reading
  BY DEF TypeOK
<1>. QED  BY <1>1 DEF Reading

\* The fields of the cycle and of the Warpgate state.
LEMMA CycleFields ==
    ASSUME TypeOK
    PROVE  /\ cycle.on \in BOOLEAN /\ cycle.only \in BOOLEAN
           /\ cycle.tried \in SUBSET Hosts /\ cycle.todo \in SUBSET Hosts
           /\ bastion.streak \in 0..Checks /\ bastion.down \in BOOLEAN
BY DEF TypeOK

\* The streak stays within confirmation_checks.
LEMMA StreakType ==
    ASSUME TypeOK, NEW only \in BOOLEAN
    PROVE  Streak(only) \in 0..Checks
BY CycleFields, Bounds DEF Streak, Longer

-----------------------------------------------------------------------------
\* The parts of the invariant that a step of the poller may touch.

\* Warpgate's rows after a cycle that tried something.
LEMMA BastionStep ==
    ASSUME IInv, NEW down \in BOOLEAN,
           bastionLog' = HandleTransition(bastion.down, down, bastionLog, TRUE)
    PROVE  /\ bastionLog' \in Rows
           /\ bastionLog'.open = IF down THEN 1 ELSE 0
           /\ bastionLog'.told = IF down THEN "problem" ELSE "fine"
<1>1. bastion.down \in BOOLEAN /\ bastionLog \in Rows
  BY CycleFields DEF IInv, TypeOK
<1>2. /\ bastionLog.open = IF bastion.down THEN 1 ELSE 0
      /\ bastionLog.told = IF bastion.down THEN "problem" ELSE "fine"
  BY DEF IInv, WarpgateRowIsCurrent
<1>3. bastionLog' \in Rows
  BY <1>1, HandleTransitionType
<1>. QED  BY <1>1, <1>2, <1>3, TransitionTracks

\* A step that leaves the rows, Warpgate and the pass alone, and of the hosts
\* only what the invariant does not speak of.
LEMMA PollerStep ==
    ASSUME IInv, UNCHANGED <<bastion, log, schedLog, bastionLog, pass>>,
           polling' \in BOOLEAN, host' \in [Hosts -> HostDoc],
           cycle' \in [on: BOOLEAN, tried: SUBSET Hosts, todo: SUBSET Hosts, only: BOOLEAN],
           \A h \in Hosts : /\ host'[h].overdue = host[h].overdue
                            /\ \/ host'[h].online = TRUE
                               \/ /\ host'[h].online = host[h].online
                                  /\ host'[h].seen # "never" => host[h].seen # "never",
           ResultsHold'
    PROVE  IInv'
<1>1. TypeOK'
  BY DEF IInv, TypeOK
<1>2. OfflineIsAnnounced'
  BY DEF IInv, OfflineIsAnnounced
<1>3. RecoveriesArePaired'
  BY DEF IInv, RecoveriesArePaired
<1>4. WarpgateRowIsCurrent' /\ HostRowsAreCurrent'
  BY DEF IInv, WarpgateRowIsCurrent, HostRowsAreCurrent
<1>5. ReadingsHold'
  BY DEF IInv, ReadingsHold
<1>. QED  BY <1>1, <1>2, <1>3, <1>4, <1>5 DEF IInv

\* One result of the cycle.
LEMMA ResultStep ==
    ASSUME IInv, NEW h \in Hosts, Result(h)
    PROVE  IInv'
<1>. USE DEF IInv
<1>1. host \in [Hosts -> HostDoc] /\ polling \in BOOLEAN
  BY DEF TypeOK
<1>2. PICK at \in BOOLEAN :
        /\ h \in cycle.todo
        /\ cycle' = [cycle EXCEPT !.todo = @ \ {h}, !.only = @ /\ at]
        /\ at => host' = [host EXCEPT ![h].kind = "bastion"]
  BY DEF Result, HostAnswers, ReportLost, HostFails, Counted
<1>3. /\ cycle' \in [on: BOOLEAN, tried: SUBSET Hosts, todo: SUBSET Hosts, only: BOOLEAN]
      /\ cycle'.on = cycle.on /\ cycle'.tried = cycle.tried
      /\ cycle'.todo = cycle.todo \ {h} /\ cycle'.only = (cycle.only /\ at)
  BY <1>2 DEF TypeOK
<1>4. UNCHANGED <<polling, bastion, log, schedLog, bastionLog, pass>>
  BY DEF Result, HostAnswers, ReportLost, HostFails
<1>5. /\ host' \in [Hosts -> HostDoc]
      /\ \A g \in Hosts : /\ host'[g].overdue = host[g].overdue
                          /\ \/ host'[g].online = TRUE
                             \/ /\ host'[g].online = host[g].online
                                /\ host'[g].seen # "never" => host[g].seen # "never"
  <2>1. CASE HostAnswers(h)
    <3>1. PICK kind \in {"other", host[h].kind}, run \in ReportedRun(h) :
            host' = [host EXCEPT ![h].kind = kind, ![h].online = TRUE,
                                 ![h].seen = "fresh", ![h].sched = run]
      BY <2>1 DEF HostAnswers
    <3>2. kind \in Kinds /\ run \in Ages
      BY HostFields DEF ReportedRun, Kinds, Ages
    <3>. DEFINE new == [host[h] EXCEPT !.kind = kind, !.online = TRUE, !.seen = "fresh", !.sched = run]
    <3>3. host[h] \in HostDoc
      BY <1>1
    <3>4. new \in HostDoc /\ new.online = TRUE /\ new.overdue = host[h].overdue
      BY <3>2, <3>3 DEF HostDoc, Ages
    <3>5. host' = [host EXCEPT ![h] = new]
      BY <1>1, <3>1, <3>3 DEF HostDoc
    <3>. HIDE DEF new
    <3>. QED  BY <1>1, <3>4, <3>5
  <2>2. CASE ReportLost(h)
    BY <1>1, <2>2 DEF ReportLost
  <2>3. ASSUME NEW b \in BOOLEAN, HostFails(h, b)
        PROVE  <1>5!1 /\ <1>5!2
    BY <1>1, <2>3 DEF HostFails, HostDoc, Kinds
  <2>. QED  BY <2>1, <2>2, <2>3 DEF Result
<1>6. ResultsHold'
  <2>. SUFFICES ASSUME cycle'.on, cycle'.only, NEW g \in cycle'.tried \ cycle'.todo
                PROVE  host'[g].kind = "bastion"
    BY DEF ResultsHold
  <2>1. host' = [host EXCEPT ![h].kind = "bastion"] /\ cycle.on /\ cycle.only
    BY <1>2, <1>3
  <2>2. g \in cycle.tried /\ (g = h \/ g \notin cycle.todo) /\ g \in Hosts
    BY <1>3 DEF TypeOK
  <2>3. g # h => host[g].kind = "bastion"
    BY <2>1, <2>2 DEF ResultsHold
  <2>. QED  BY <1>1, <2>1, <2>2, <2>3 DEF HostDoc
<1>. QED  BY <1>1, <1>3, <1>4, <1>5, <1>6, PollerStep

-----------------------------------------------------------------------------
\* The heartbeat check.

\* A check decides from an old reading, but what it writes keeps flag and rows
\* of the host together.
LEMMA CheckOnline ==
    ASSUME IInv, NEW h \in Hosts, pass[h] # None
    PROVE  /\ Unreachable(h) \in Rows /\ Unreachable(h).told # "false recovery"
           /\ HasOpenAlert(Unreachable(h)) => Unreachable(h).told = "problem"
           /\ OnlineFlag(h) \in BOOLEAN
           /\ host[h].seen # "never" /\ ~OnlineFlag(h) => HasOpenAlert(Unreachable(h))
<1>. DEFINE was == ~pass[h].online
            is == ~pass[h].seen
<1>1. pass[h].online \in BOOLEAN /\ pass[h].seen \in BOOLEAN
  BY ReadingFields DEF IInv
<1>2. was \in BOOLEAN /\ is \in BOOLEAN
  OBVIOUS
<1>3. log[h] \in Rows /\ host[h].online \in BOOLEAN
  BY HostFields DEF IInv, TypeOK
<1>4. log[h].told # "false recovery" /\ (HasOpenAlert(log[h]) => log[h].told = "problem")
  BY DEF IInv, RecoveriesArePaired, HostRowsAreCurrent
<1>5. host[h].seen # "never" /\ ~host[h].online => HasOpenAlert(log[h])
  BY DEF IInv, OfflineIsAnnounced
<1>6. was /\ ~is => log[h].told = "problem"
  BY DEF IInv, ReadingsHold
<1>7. Unreachable(h) = HandleTransition(was, is, log[h], TRUE)
  BY DEF Unreachable
<1>8. /\ OnlineFlag(h) \in BOOLEAN
      /\ ~is /\ was => OnlineFlag(h)
      /\ ~is /\ ~was => OnlineFlag(h) = host[h].online
  BY <1>1, <1>3 DEF OnlineFlag
<1>. HIDE DEF was, is
<1>9. Unreachable(h) \in Rows
  BY <1>2, <1>3, <1>7, HandleTransitionType
<1>10. Unreachable(h).told # "false recovery"
  <2>1. CASE was /\ ~is
    <3>1. Unreachable(h) = DispatchRecovery(ResolveAlert(log[h]))
      BY <1>7, <2>1 DEF HandleTransition
    <3>2. DispatchRecovery(ResolveAlert(log[h])).told = "fine"
      BY <1>6, <2>1 DEF DispatchRecovery, ResolveAlert
    <3>. QED  BY <3>1, <3>2
  <2>2. CASE ~(was /\ ~is)
    <3>1. Unreachable(h) \in {DispatchAlert(log[h]), log[h]}
      BY <1>2, <1>7, <2>2, Zenon DEF HandleTransition
    <3>2. DispatchAlert(log[h]).told = "problem"
      BY DEF DispatchAlert
    <3>. QED  BY <1>4, <3>1, <3>2
  <2>. QED  BY <2>1, <2>2
<1>11. /\ is => HasOpenAlert(Unreachable(h))
       /\ HasOpenAlert(Unreachable(h)) => Unreachable(h).told = "problem"
       /\ ~is /\ ~was => Unreachable(h) = log[h]
  BY <1>2, <1>3, <1>4, <1>7, TransitionAnnounces, Zenon
<1>12. OnlineFlag(h) \in BOOLEAN
  BY <1>8
<1>13. host[h].seen # "never" /\ ~OnlineFlag(h) => HasOpenAlert(Unreachable(h))
  <2>1. CASE is
    BY <2>1, <1>11
  <2>2. CASE ~is /\ was
    BY <2>2, <1>8
  <2>3. CASE ~is /\ ~was
    <3>1. OnlineFlag(h) = host[h].online /\ Unreachable(h) = log[h]
      BY <2>3, <1>8, <1>11
    <3>. QED  BY <3>1, <1>5
  <2>. QED  BY <1>2, <2>1, <2>2, <2>3
<1>. QED  BY <1>9, <1>10, <1>11, <1>12, <1>13

\* The same for the scheduler of its bench, whose flag nobody else writes.
LEMMA CheckScheduler ==
    ASSUME IInv, NEW h \in Hosts, CheckHost(h)
    PROVE  /\ schedLog' \in [Hosts -> Rows]
           /\ schedLog'[h].told # "false recovery"
           /\ host'[h].overdue => schedLog'[h].told = "problem"
           /\ \A g \in Hosts \ {h} : schedLog'[g] = schedLog[g]
<1>. DEFINE was == pass[h].overdue
            is == pass[h].sched = "stale"
            new == IF pass[h].sched = "never" THEN schedLog[h]
                   ELSE HandleTransition(was, is, schedLog[h], TRUE)
<1>0. pass[h] # None
  BY DEF CheckHost
<1>1. was \in BOOLEAN /\ is \in BOOLEAN
  BY <1>0, ReadingFields DEF IInv
<1>2. schedLog \in [Hosts -> Rows] /\ host \in [Hosts -> HostDoc]
  BY DEF IInv, TypeOK
<1>3. schedLog[h].told # "false recovery" /\ (host[h].overdue => schedLog[h].told = "problem")
  BY DEF IInv, RecoveriesArePaired, HostRowsAreCurrent
<1>4. was = host[h].overdue
  BY <1>0 DEF IInv, ReadingsHold
<1>5. schedLog' = [schedLog EXCEPT ![h] = new]
  BY DEF CheckHost
<1>6. host'[h].overdue = IF pass[h].sched # "never" /\ is # was THEN is ELSE host[h].overdue
  BY <1>2 DEF CheckHost, HostDoc
<1>. HIDE DEF was, is
<1>7. CASE pass[h].sched = "never"
  BY <1>2, <1>3, <1>5, <1>6, <1>7
<1>8. CASE pass[h].sched # "never"
  <2>1. /\ HandleTransition(was, is, schedLog[h], TRUE) \in Rows
        /\ HandleTransition(was, is, schedLog[h], TRUE).told # "false recovery"
        /\ is => HandleTransition(was, is, schedLog[h], TRUE).told = "problem"
    BY <1>1, <1>2, <1>3, <1>4, HandleTransitionType, HandleTransitionTold
  <2>2. new = HandleTransition(was, is, schedLog[h], TRUE)
    BY <1>8
  <2>. HIDE DEF new
  <2>3. host'[h].overdue = is
    BY <1>4, <1>6, <1>8
  <2>. QED  BY <1>2, <1>5, <2>1, <2>2, <2>3
<1>. QED  BY <1>7, <1>8

\* _check_one_host preserves the invariant.
LEMMA CheckHostStep ==
    ASSUME IInv, NEW h \in Hosts, CheckHost(h)
    PROVE  IInv'
<1>0. pass[h] # None /\ pass' = [pass EXCEPT ![h] = None] /\ log' = [log EXCEPT ![h] = Unreachable(h)]
  BY DEF CheckHost
<1>1. UNCHANGED <<polling, bastion, bastionLog, cycle>>
  BY DEF CheckHost
<1>2. /\ host \in [Hosts -> HostDoc] /\ log \in [Hosts -> Rows]
      /\ pass \in [Hosts -> Reading \cup {None}]
  BY DEF IInv, TypeOK
<1>3. /\ host' \in [Hosts -> HostDoc] /\ host'[h].online = OnlineFlag(h)
      /\ \A g \in Hosts : host'[g].kind = host[g].kind /\ host'[g].seen = host[g].seen
      /\ \A g \in Hosts \ {h} : host'[g] = host[g]
  <2>. DEFINE over == IF pass[h].sched # "never" /\ (pass[h].sched = "stale") # pass[h].overdue
                      THEN pass[h].sched = "stale" ELSE host[h].overdue
              new == [host[h] EXCEPT !.online = OnlineFlag(h), !.overdue = over]
  <2>1. host[h] \in HostDoc /\ OnlineFlag(h) \in BOOLEAN
    BY <1>0, <1>2, CheckOnline
  <2>2. over \in BOOLEAN
    BY HostFields DEF IInv
  <2>3. host' = [host EXCEPT ![h].online = OnlineFlag(h), ![h].overdue = over]
    BY <1>2 DEF CheckHost, HostDoc
  <2>. HIDE DEF over
  <2>4. host' = [host EXCEPT ![h] = new]
    BY <1>2, <2>1, <2>3 DEF HostDoc
  <2>5. /\ new \in HostDoc /\ new.online = OnlineFlag(h)
        /\ new.kind = host[h].kind /\ new.seen = host[h].seen
    BY <2>1, <2>2 DEF HostDoc
  <2>. HIDE DEF new
  <2>. QED  BY <1>2, <2>4, <2>5
<1>4. \A g \in Hosts \ {h} : log'[g] = log[g] /\ pass'[g] = pass[g]
  BY <1>0, <1>2
<1>5. log'[h] = Unreachable(h) /\ pass'[h] = None
  BY <1>0, <1>2
<1>6. TypeOK'
  <2>1. log' \in [Hosts -> Rows] /\ pass' \in [Hosts -> Reading \cup {None}]
    BY <1>0, <1>2, CheckOnline
  <2>. QED  BY <1>1, <1>3, <2>1, CheckScheduler DEF IInv, TypeOK
<1>7. OfflineIsAnnounced'
  <2>. SUFFICES ASSUME NEW g \in Hosts, host'[g].seen # "never", ~host'[g].online
                PROVE  HasOpenAlert(log'[g])
    BY DEF OfflineIsAnnounced
  <2>1. CASE g = h
    BY <1>0, <1>3, <1>5, <2>1, CheckOnline
  <2>2. CASE g # h
    BY <1>3, <1>4, <2>2 DEF IInv, OfflineIsAnnounced
  <2>. QED  BY <2>1, <2>2
<1>8. RecoveriesArePaired'
  <2>1. bastionLog'.told # "false recovery"
    BY <1>1 DEF IInv, RecoveriesArePaired
  <2>2. \A g \in Hosts \ {h} : log'[g].told # "false recovery" /\ schedLog'[g].told # "false recovery"
    BY <1>4, CheckScheduler DEF IInv, RecoveriesArePaired
  <2>3. log'[h].told # "false recovery" /\ schedLog'[h].told # "false recovery"
    BY <1>0, <1>5, CheckOnline, CheckScheduler
  <2>. QED  BY <2>1, <2>2, <2>3 DEF RecoveriesArePaired
<1>9. WarpgateRowIsCurrent' /\ HostRowsAreCurrent'
  <2>1. WarpgateRowIsCurrent'
    BY <1>1 DEF IInv, WarpgateRowIsCurrent
  <2>2. \A g \in Hosts \ {h} : /\ HasOpenAlert(log'[g]) => log'[g].told = "problem"
                               /\ host'[g].overdue => schedLog'[g].told = "problem"
    BY <1>3, <1>4, CheckScheduler DEF IInv, HostRowsAreCurrent
  <2>3. /\ HasOpenAlert(log'[h]) => log'[h].told = "problem"
        /\ host'[h].overdue => schedLog'[h].told = "problem"
    BY <1>0, <1>5, CheckOnline, CheckScheduler
  <2>. QED  BY <2>1, <2>2, <2>3 DEF HostRowsAreCurrent
<1>10. ReadingsHold'
  BY <1>3, <1>4, <1>5 DEF IInv, ReadingsHold
<1>11. ResultsHold'
  <2>1. \A g \in cycle.tried : g \in Hosts
    BY CycleFields DEF IInv
  <2>. QED  BY <1>1, <1>3, <2>1 DEF IInv, ResultsHold
<1>. QED  BY <1>6, <1>7, <1>8, <1>9, <1>10, <1>11 DEF IInv

\* A pass begins: what it reads is what the documents say now.
LEMMA PassBeginsStep ==
    ASSUME IInv, PassBegins
    PROVE  IInv'
<1>1. UNCHANGED <<polling, host, bastion, log, schedLog, bastionLog, cycle>>
  BY DEF PassBegins
<1>2. \A h \in Hosts : pass'[h] \in Reading \cup {None}
  BY HostFields DEF PassBegins, IInv, Reading
<1>3. pass' \in [Hosts -> Reading \cup {None}]
  BY <1>2 DEF PassBegins
<1>4. \A h \in Hosts : pass'[h] # None =>
        /\ pass'[h].overdue = host[h].overdue /\ pass'[h].online = host[h].online
        /\ pass'[h].seen = (host[h].seen = "fresh")
  BY DEF PassBegins
<1>5. ReadingsHold'
  <2>. SUFFICES ASSUME NEW h \in Hosts, pass'[h] # None, pass'[h].seen, ~pass'[h].online
                PROVE  log[h].told = "problem"
    BY <1>1, <1>4 DEF ReadingsHold
  <2>1. host[h].seen # "never" /\ ~host[h].online
    BY <1>4
  <2>2. HasOpenAlert(log[h])
    BY <2>1 DEF IInv, OfflineIsAnnounced
  <2>. QED  BY <2>2 DEF IInv, HostRowsAreCurrent
<1>6. TypeOK' /\ OfflineIsAnnounced' /\ RecoveriesArePaired' /\ WarpgateRowIsCurrent'
      /\ HostRowsAreCurrent' /\ ResultsHold'
  BY <1>1, <1>3 DEF IInv, TypeOK, OfflineIsAnnounced, RecoveriesArePaired, WarpgateRowIsCurrent,
                    HostRowsAreCurrent, ResultsHold
<1>. QED  BY <1>5, <1>6 DEF IInv

\* A check that raises only gives up what the pass had read.
LEMMA CheckRaisesStep ==
    ASSUME IInv, NEW h \in Hosts, CheckRaises(h)
    PROVE  IInv'
<1>1. /\ UNCHANGED <<polling, host, bastion, log, schedLog, bastionLog, cycle>>
      /\ pass' = [pass EXCEPT ![h] = None]
  BY DEF CheckRaises
<1>2. pass \in [Hosts -> Reading \cup {None}]
  BY DEF IInv, TypeOK
<1>3. ReadingsHold'
  BY <1>1, <1>2 DEF IInv, ReadingsHold
<1>4. pass' \in [Hosts -> Reading \cup {None}]
  BY <1>1, <1>2
<1>5. TypeOK' /\ OfflineIsAnnounced' /\ RecoveriesArePaired' /\ WarpgateRowIsCurrent'
      /\ HostRowsAreCurrent' /\ ResultsHold'
  BY <1>1, <1>4 DEF IInv, TypeOK, OfflineIsAnnounced, RecoveriesArePaired, WarpgateRowIsCurrent,
                    HostRowsAreCurrent, ResultsHold
<1>. QED  BY <1>3, <1>5 DEF IInv

-----------------------------------------------------------------------------
\* The cycle as a whole.

\* Documents whose last_poll_kind alone is rewritten.
LEMMA KindsStep ==
    ASSUME IInv, NEW some \in SUBSET Hosts, NEW kind \in Kinds,
           host' = [h \in Hosts |-> IF h \in some THEN [host[h] EXCEPT !.kind = kind] ELSE host[h]]
    PROVE  /\ host' \in [Hosts -> HostDoc]
           /\ \A h \in Hosts : /\ host'[h].overdue = host[h].overdue
                               /\ host'[h].online = host[h].online
                               /\ host'[h].seen = host[h].seen
<1>1. \A h \in Hosts : host[h] \in HostDoc
  BY DEF IInv, TypeOK
<1>2. \A h \in Hosts : /\ host'[h] \in HostDoc
                       /\ host'[h].overdue = host[h].overdue
                       /\ host'[h].online = host[h].online
                       /\ host'[h].seen = host[h].seen
  BY <1>1 DEF HostDoc
<1>. QED  BY <1>2

\* A cycle begins with no result: nothing is held for or against Warpgate.
LEMMA BeginCycleStep ==
    ASSUME IInv, BeginCycle
    PROVE  IInv'
<1>1. PICK bad \in SUBSET Enabled, skipped \in SUBSET Enabled :
        /\ host' = [h \in Hosts |-> IF h \in bad THEN [host[h] EXCEPT !.kind = "config"] ELSE host[h]]
        /\ cycle' = [on |-> TRUE, tried |-> Enabled \ (bad \cup skipped),
                     todo |-> Enabled \ (bad \cup skipped), only |-> TRUE]
  BY DEF BeginCycle
<1>2. bad \in SUBSET Hosts /\ "config" \in Kinds
  BY DEF Enabled, Kinds
<1>3. cycle' \in [on: BOOLEAN, tried: SUBSET Hosts, todo: SUBSET Hosts, only: BOOLEAN]
  BY <1>1 DEF Enabled
<1>4. ResultsHold'
  BY <1>1 DEF ResultsHold
<1>5. UNCHANGED <<polling, bastion, log, schedLog, bastionLog, pass>> /\ polling' \in BOOLEAN
  BY DEF BeginCycle, IInv, TypeOK
<1>. QED  BY <1>1, <1>2, <1>3, <1>4, <1>5, KindsStep, PollerStep

\* Without a key no cycle is under way, so nothing is counted.
LEMMA NoKeyStep ==
    ASSUME IInv, NoKey
    PROVE  IInv'
<1>1. /\ host' = [h \in Hosts |-> IF h \in Enabled THEN [host[h] EXCEPT !.kind = "other"] ELSE host[h]]
      /\ UNCHANGED <<polling, bastion, log, schedLog, bastionLog, cycle, pass>>
  BY DEF NoKey
<1>2. Enabled \in SUBSET Hosts /\ "other" \in Kinds
  BY DEF Enabled, Kinds
<1>3. polling' \in BOOLEAN
      /\ cycle' \in [on: BOOLEAN, tried: SUBSET Hosts, todo: SUBSET Hosts, only: BOOLEAN]
  BY <1>1 DEF IInv, TypeOK
<1>4. ResultsHold'
  BY <1>1 DEF NoKey, ResultsHold
<1>. QED  BY <1>1, <1>2, <1>3, <1>4, KindsStep, PollerStep

\* update_bastion_state keeps flag and alert of Warpgate together.
LEMMA EndCycleStep ==
    ASSUME IInv, EndCycle
    PROVE  IInv'
<1>1. UNCHANGED <<polling, host, log, schedLog, pass>> /\ cycle' = Idle
  BY DEF EndCycle
<1>2. /\ bastion' \in [streak: 0..Checks, down: BOOLEAN] /\ bastionLog' \in Rows
      /\ WarpgateRowIsCurrent'
  <2>1. CASE cycle.tried = {}
    BY <2>1 DEF EndCycle, IInv, TypeOK, WarpgateRowIsCurrent
  <2>2. CASE cycle.tried # {}
    <3>. DEFINE down == cycle.only /\ Streak(cycle.only) >= Checks
    <3>1. /\ bastion' = [streak |-> Streak(cycle.only), down |-> down]
          /\ bastionLog' = HandleTransition(bastion.down, down, bastionLog, TRUE)
      BY <2>2 DEF EndCycle
    <3>2. down \in BOOLEAN
      OBVIOUS
    <3>3. Streak(cycle.only) \in 0..Checks
      BY CycleFields, StreakType DEF IInv
    <3>. HIDE DEF down
    <3>4. bastion' \in [streak: 0..Checks, down: BOOLEAN] /\ bastion'.down = down
      BY <3>1, <3>2, <3>3
    <3>. QED  BY <3>1, <3>2, <3>4, BastionStep DEF WarpgateRowIsCurrent
  <2>. QED  BY <2>1, <2>2
<1>3. cycle' \in [on: BOOLEAN, tried: SUBSET Hosts, todo: SUBSET Hosts, only: BOOLEAN] /\ ResultsHold'
  BY <1>1 DEF Idle, ResultsHold
<1>4. TypeOK'
  BY <1>1, <1>2, <1>3 DEF IInv, TypeOK
<1>5. RecoveriesArePaired'
  <2>1. bastionLog'.told # "false recovery"
    BY <1>2 DEF WarpgateRowIsCurrent
  <2>. QED  BY <1>1, <2>1 DEF IInv, RecoveriesArePaired
<1>6. OfflineIsAnnounced' /\ HostRowsAreCurrent' /\ ReadingsHold'
  BY <1>1 DEF IInv, OfflineIsAnnounced, HostRowsAreCurrent, ReadingsHold
<1>. QED  BY <1>2, <1>3, <1>4, <1>5, <1>6 DEF IInv

\* A cycle that dies counts for nothing.
LEMMA CycleDiesStep ==
    ASSUME IInv, CycleDies
    PROVE  IInv'
<1>1. UNCHANGED <<polling, host, bastion, log, schedLog, bastionLog, pass>> /\ cycle' = Idle
  BY DEF CycleDies
<1>2. cycle' \in [on: BOOLEAN, tried: SUBSET Hosts, todo: SUBSET Hosts, only: BOOLEAN] /\ ResultsHold'
  BY <1>1 DEF Idle, ResultsHold
<1>3. polling' \in BOOLEAN /\ host' \in [Hosts -> HostDoc]
  BY <1>1 DEF IInv, TypeOK
<1>. QED  BY <1>1, <1>2, <1>3, PollerStep

\* Time passes, or the administrator acts on one host.
LEMMA DocumentStep ==
    ASSUME IInv, NEW h \in Hosts, SeenGoesStale(h) \/ SchedulerGoesStale(h) \/ ToggleHost(h)
    PROVE  IInv'
<1>1. UNCHANGED <<polling, bastion, log, schedLog, bastionLog, cycle, pass>>
  BY DEF SeenGoesStale, SchedulerGoesStale, ToggleHost
<1>2. host \in [Hosts -> HostDoc]
  BY DEF IInv, TypeOK
<1>3. /\ host' \in [Hosts -> HostDoc]
      /\ \A g \in Hosts : /\ host'[g].overdue = host[g].overdue
                          /\ host'[g].online = host[g].online
                          /\ host'[g].seen # "never" => host[g].seen # "never"
                          /\ host'[g].kind = host[g].kind
  <2>1. CASE SeenGoesStale(h)
    BY <1>2, <2>1 DEF SeenGoesStale, HostDoc, Ages
  <2>2. CASE SchedulerGoesStale(h)
    BY <1>2, <2>2 DEF SchedulerGoesStale, HostDoc, Ages
  <2>3. CASE ToggleHost(h)
    BY <1>2, <2>3 DEF ToggleHost, HostDoc
  <2>. QED  BY <2>1, <2>2, <2>3
<1>4. /\ polling' \in BOOLEAN
      /\ cycle' \in [on: BOOLEAN, tried: SUBSET Hosts, todo: SUBSET Hosts, only: BOOLEAN]
  BY <1>1 DEF IInv, TypeOK
<1>5. ResultsHold'
  <2>1. cycle.tried \in SUBSET Hosts
    BY CycleFields DEF IInv
  <2>. QED  BY <1>1, <1>3, <2>1 DEF IInv, ResultsHold
<1>. QED  BY <1>1, <1>3, <1>4, <1>5, PollerStep

\* SSH polling is switched on or off, or nothing happens.
LEMMA OtherStep ==
    ASSUME IInv, TogglePolling \/ UNCHANGED vars
    PROVE  IInv'
<1>1. UNCHANGED <<host, bastion, log, schedLog, bastionLog, cycle, pass>> /\ polling' \in BOOLEAN
  BY DEF TogglePolling, vars, IInv, TypeOK
<1>2. /\ host' \in [Hosts -> HostDoc] /\ ResultsHold'
      /\ cycle' \in [on: BOOLEAN, tried: SUBSET Hosts, todo: SUBSET Hosts, only: BOOLEAN]
  BY <1>1 DEF IInv, TypeOK, ResultsHold
<1>. QED  BY <1>1, <1>2, PollerStep

-----------------------------------------------------------------------------
\* The theorems.

\* Before the first poll nothing has been read, counted or announced.
LEMMA InitIInv == Init => IInv
<1>. SUFFICES ASSUME Init  PROVE  IInv
  OBVIOUS
<1>1. NoRows \in Rows /\ NoRows.open = 0 /\ NoRows.told = "fine"
  <2>1. 0 \in 0..MaxOpen
    BY Bounds
  <2>. QED  BY <2>1 DEF NoRows, Rows
<1>2. bastion \in [streak: 0..Checks, down: BOOLEAN]
  BY Bounds DEF Init
<1>3. TypeOK
  BY <1>1, <1>2 DEF Init, TypeOK, Idle, NewHost, HostDoc, Kinds, Ages
<1>4. OfflineIsAnnounced /\ ReadingsHold /\ ResultsHold
  BY DEF Init, NewHost, Idle, OfflineIsAnnounced, ReadingsHold, ResultsHold
<1>5. \A h \in Hosts : /\ log[h] = NoRows /\ schedLog[h] = NoRows
                       /\ ~host[h].overdue /\ ~HasOpenAlert(log[h])
  BY <1>1 DEF Init, NewHost, HasOpenAlert
<1>6. WarpgateRowIsCurrent /\ HostRowsAreCurrent /\ RecoveriesArePaired
  BY <1>1, <1>5 DEF Init, WarpgateRowIsCurrent, HostRowsAreCurrent, RecoveriesArePaired
<1>. QED  BY <1>3, <1>4, <1>6 DEF IInv

\* IInv is inductive: every step of the poll cycle, of the heartbeat check and
\* of the administrator preserves it.
THEOREM InductiveInvariant == Spec => []IInv
<1>1. ASSUME IInv, [Next]_vars  PROVE  IInv'
  BY <1>1, BeginCycleStep, NoKeyStep, EndCycleStep, CycleDiesStep, PassBeginsStep, ResultStep,
     CheckHostStep, CheckRaisesStep, DocumentStep, OtherStep, HostAssumption DEF Next
<1>. QED  BY InitIInv, <1>1, PTL DEF Spec

\* The documents, rows and readings keep their types.
THEOREM TypeCorrect == Spec => []TypeOK
<1>1. IInv => TypeOK
  BY DEF IInv
<1>. QED  BY <1>1, InductiveInvariant, PTL

\* A host that once answered and is shown offline has an open Host
\* Unreachable alert, for any number of hosts.
THEOREM OfflineHostsAreAnnounced == Spec => []OfflineIsAnnounced
<1>1. IInv => OfflineIsAnnounced
  BY DEF IInv
<1>. QED  BY <1>1, InductiveInvariant, PTL

\* No recovery of Warpgate, a host or a scheduler is announced that no alert
\* preceded, although the heartbeat check decides from an old reading.
THEOREM RecoveriesFollowAlerts == Spec => []RecoveriesArePaired
<1>1. IInv => RecoveriesArePaired
  BY DEF IInv
<1>. QED  BY <1>1, InductiveInvariant, PTL

\* Warpgate goes down only at the end of a cycle in which every host that was
\* tried failed there, and has one open alert exactly while it is down.
THEOREM WarpgateDownIsConfirmed == Spec => BastionIncidentIsConfirmed
<1>. DEFINE Row == bastionLog.open = IF bastion.down THEN 1 ELSE 0
            Confirmed == ~bastion.down /\ bastion'.down => \A h \in cycle.tried : host[h].kind = "bastion"
<1>1. IInv => Row
  BY DEF IInv, WarpgateRowIsCurrent
<1>2. ASSUME IInv, [Next]_vars  PROVE  Confirmed
  <2>. SUFFICES ASSUME ~bastion.down, bastion'.down
                PROVE  \A h \in cycle.tried : host[h].kind = "bastion"
    OBVIOUS
  <2>1. EndCycle
    <3>1. CASE BeginCycle \/ NoKey \/ CycleDies \/ PassBegins \/ TogglePolling \/ UNCHANGED vars
      BY <3>1 DEF BeginCycle, NoKey, CycleDies, PassBegins, TogglePolling, vars
    <3>2. ASSUME NEW h \in Hosts, Result(h)  PROVE  bastion' = bastion
      BY <3>2 DEF Result, HostAnswers, ReportLost, HostFails
    <3>3. ASSUME NEW h \in Hosts, CheckHost(h) \/ CheckRaises(h)  PROVE  bastion' = bastion
      BY <3>3 DEF CheckHost, CheckRaises
    <3>4. ASSUME NEW h \in Hosts, SeenGoesStale(h) \/ SchedulerGoesStale(h) \/ ToggleHost(h)
          PROVE  bastion' = bastion
      BY <3>4 DEF SeenGoesStale, SchedulerGoesStale, ToggleHost
    <3>. QED  BY <1>2, <3>1, <3>2, <3>3, <3>4, HostAssumption DEF Next
  <2>2. cycle.on /\ cycle.todo = {} /\ cycle.only
    <3>1. cycle.tried # {}
      BY <2>1 DEF EndCycle
    <3>2. bastion' = [streak |-> Streak(cycle.only),
                      down |-> cycle.only /\ Streak(cycle.only) >= Checks]
      BY <2>1, <3>1 DEF EndCycle
    <3>3. bastion'.down = (cycle.only /\ Streak(cycle.only) >= Checks)
      BY <3>2, Zenon
    <3>. QED  BY <2>1, <3>3, Zenon DEF EndCycle
  <2>. QED  BY <1>2, <2>2 DEF IInv, ResultsHold
<1>3. IInv /\ [Next]_vars => [Row /\ Confirmed]_vars
  BY <1>1, <1>2
<1>. QED  BY <1>3, InductiveInvariant, PTL DEF Spec, BastionIncidentIsConfirmed
=============================================================================
