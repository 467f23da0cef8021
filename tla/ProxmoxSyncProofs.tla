------------------------- MODULE ProxmoxSyncProofs -------------------------
(***************************************************************************)
(* What ProxmoxSync promises about its alerts, for any fleet: any number   *)
(* of PVE hosts, backup servers, guests and stores, and any                *)
(* confirmation_checks.                                                    *)
(***************************************************************************)
EXTENDS ProxmoxSync, AlertLogProofs, TLAPS

-----------------------------------------------------------------------------
\* One sync.

\* What a server's answer may hold, whatever stage the sync reached.
LEMMA AnswerFields ==
    ASSUME NEW s \in Servers, NEW a \in Answer(s)
    PROVE  /\ a.reached \in {"down", "host", "guests", "stores", "all"}
           /\ a.level \in Levels
           /\ a.items \in [ItemsOf(s) -> Levels \cup {"gone"}]
           /\ a.fresh \in BOOLEAN
           /\ a.due \in [GuestsOf(s) -> {"overdue", "exempt", "recent", "off"}]
<1>1. /\ a.reached \in Stages(s) /\ a.level \in HostLevels
      /\ a.items \in [ItemsOf(s) -> Levels \cup {"gone"}]
      /\ a.fresh \in BOOLEAN
      /\ a.due \in [GuestsOf(s) -> {"overdue", "exempt", "recent"}] \cup {Unchecked(s)}
  BY DEF Answer
<1>2. a.reached \in {"down", "host", "guests", "stores", "all"}
  BY <1>1 DEF Stages
<1>3. a.level \in Levels
  BY <1>1, ProxmoxAssumption
<1>4. a.due \in [GuestsOf(s) -> {"overdue", "exempt", "recent", "off"}]
  BY <1>1 DEF Unchecked
<1>. QED  BY <1>1, <1>2, <1>3, <1>4

\* The host's CPU/RAM verdict is a Boolean even when the server was not reached.
LEMMA ResourceCriticalType ==
    ASSUME NEW s \in Servers, NEW a \in Answer(s), server[s] \in ServerDoc
    PROVE  ResourceCritical(s, a) \in BOOLEAN
<1>1. server[s].critical \in BOOLEAN
  BY DEF ServerDoc
<1>2. IsCritical(HostStreak(s, a)) \in BOOLEAN
  BY DEF IsCritical
<1>. QED  BY <1>1, <1>2, Zenon DEF ResourceCritical

\* sync_server saves a well-typed Proxmox Server.
LEMMA NewServerType ==
    ASSUME TypeOK, NEW s \in Servers, NEW a \in Answer(s)
    PROVE  NewServer(s, a) \in ServerDoc
<1>1. server[s] \in ServerDoc
  BY DEF TypeOK
<1>2. HostStreak(s, a) \in Streaks
  BY <1>1, AnswerFields, TrackSeverityType DEF HostStreak, ServerDoc
<1>3. ResourceCritical(s, a) \in BOOLEAN
  BY <1>1, ResourceCriticalType
<1>4. BackupCritical(s, a) \in BOOLEAN
  BY <1>1, AnswerFields DEF BackupCritical, ServerDoc
<1>5. NewServer(s, a).status \in {"Online", "Warning", "Critical", "Offline"}
  BY DEF NewServer
<1>6. (IF a.reached = "down" THEN server[s].level ELSE a.level) \in Levels
  BY <1>1, AnswerFields DEF ServerDoc
<1>. QED  BY <1>2, <1>3, <1>4, <1>5, <1>6 DEF NewServer, ServerDoc

\* The Backup Failure rows stay paired with backup_critical: at most one is open,
\* only while it is set, and a recovery follows an alert.
LEMMA BackupRowsFacts ==
    ASSUME NEW s \in Servers, NEW new \in ServerDoc, NEW r \in Rows, server[s] \in ServerDoc,
           r.told # "false recovery", server[s].backupCritical => r.told = "problem",
           r.open <= 1, r.open = 1 => server[s].backupCritical
    PROVE  /\ BackupRows(s, new, r) \in Rows
           /\ BackupRows(s, new, r).told # "false recovery"
           /\ new.backupCritical => BackupRows(s, new, r).told = "problem"
           /\ BackupRows(s, new, r).open <= 1
           /\ BackupRows(s, new, r).open = 1 => new.backupCritical
<1>. DEFINE was == server[s].backupCritical
            is == new.backupCritical
<1>1. was \in BOOLEAN /\ is \in BOOLEAN
  BY DEF ServerDoc
<1>2. BackupRows(s, new, r) =
        IF is /\ was THEN r ELSE HandleTransition(was, is, r, TRUE)
  BY <1>1, Zenon DEF BackupRows, HandleTransition
<1>. HIDE DEF was, is
<1>3. /\ HandleTransition(was, is, r, TRUE) \in Rows
      /\ HandleTransition(was, is, r, TRUE).told # "false recovery"
      /\ is => HandleTransition(was, is, r, TRUE).told = "problem"
  BY <1>1, HandleTransitionType, HandleTransitionTold DEF was
<1>4. /\ HandleTransition(was, is, r, TRUE).open <= 1
      /\ HandleTransition(was, is, r, TRUE).open = 1 => is
  BY <1>1, HandleTransitionOpen DEF was
<1>5. is /\ was => r.told = "problem"
  BY DEF was
<1>6. CASE is /\ was
  BY <1>1, <1>2, <1>5, <1>6 DEF was, is
<1>7. CASE ~(is /\ was)
  BY <1>1, <1>2, <1>3, <1>4, <1>7 DEF is
<1>. QED  BY <1>6, <1>7

\* The rows of the server that was synced.
LEMMA NewServerLogFacts ==
    ASSUME IInv, NEW s \in Servers, NEW a \in Answer(s)
    PROVE  /\ NewServerLog(s, a) \in [ServerAlerts -> Rows]
           /\ NewServerLog(s, a)["Backup Failure"].told # "false recovery"
           /\ NewServer(s, a).backupCritical => NewServerLog(s, a)["Backup Failure"].told = "problem"
           /\ NewServerLog(s, a)["Server Offline"].open <= 1
           /\ NewServerLog(s, a)["Server Offline"].open = 1 => NewServer(s, a).status = "Offline"
           /\ NewServerLog(s, a)["Backup Failure"].open <= 1
           /\ NewServerLog(s, a)["Backup Failure"].open = 1 => NewServer(s, a).backupCritical
<1>. DEFINE new == NewServer(s, a)
            log == serverLog[s]
<1>1. new \in ServerDoc /\ server[s] \in ServerDoc
  BY NewServerType DEF IInv, TypeOK
<1>2. /\ log["Critical Resource"] \in Rows /\ log["Resource Warning"] \in Rows
      /\ log["Server Offline"] \in Rows /\ log["Backup Failure"] \in Rows
  BY DEF IInv, TypeOK, ServerAlerts
<1>3. /\ (server[s].level = "crit") \in BOOLEAN
      /\ (server[s].status = "Warning") \in BOOLEAN /\ (new.status = "Warning") \in BOOLEAN
      /\ (server[s].status = "Offline") \in BOOLEAN /\ (new.status = "Offline") \in BOOLEAN
  OBVIOUS
<1>4. ResourceCritical(s, a) \in BOOLEAN
  BY <1>1, ResourceCriticalType
<1>. DEFINE cr == HandleTransition(server[s].level = "crit", ResourceCritical(s, a), log["Critical Resource"], TRUE)
            rw == HandleTransition(server[s].status = "Warning", new.status = "Warning", log["Resource Warning"], FALSE)
            so == HandleTransition(server[s].status = "Offline", new.status = "Offline", log["Server Offline"], TRUE)
            bf == BackupRows(s, new, log["Backup Failure"])
<1>5. /\ NewServerLog(s, a)["Critical Resource"] = cr
      /\ NewServerLog(s, a)["Resource Warning"] = rw
      /\ NewServerLog(s, a)["Server Offline"] = so
      /\ NewServerLog(s, a)["Backup Failure"] = bf
      /\ DOMAIN NewServerLog(s, a) = ServerAlerts
      /\ NewServerLog(s, a) = [t \in ServerAlerts |-> NewServerLog(s, a)[t]]
  BY DEF NewServerLog, ServerAlerts
<1>6. cr \in Rows
  BY <1>2, <1>3, <1>4, HandleTransitionType
<1>7. rw \in Rows
  BY <1>2, <1>3, HandleTransitionType
<1>8. so \in Rows
  BY <1>2, <1>3, HandleTransitionType
<1>9. so.open <= 1 /\ (so.open = 1 => new.status = "Offline")
  <2>1. /\ log["Server Offline"].open <= 1
        /\ log["Server Offline"].open = 1 => server[s].status = "Offline"
    BY DEF IInv, HostIncidentsAreCurrent
  <2>. QED  BY <1>2, <1>3, <2>1, HandleTransitionOpen
<1>10. /\ bf \in Rows /\ bf.told # "false recovery"
       /\ new.backupCritical => bf.told = "problem"
       /\ bf.open <= 1 /\ (bf.open = 1 => new.backupCritical)
  <2>1. /\ log["Backup Failure"].told # "false recovery"
        /\ server[s].backupCritical => log["Backup Failure"].told = "problem"
    BY DEF IInv, RecoveriesArePaired, FlagsAreAnnounced
  <2>2. /\ log["Backup Failure"].open <= 1
        /\ log["Backup Failure"].open = 1 => server[s].backupCritical
    BY DEF IInv, HostIncidentsAreCurrent
  <2>. HIDE DEF new, log
  <2>. QED  BY <1>1, <1>2, <2>1, <2>2, BackupRowsFacts
<1>. HIDE DEF cr, rw, so, bf, new
<1>11. NewServerLog(s, a) \in [ServerAlerts -> Rows]
  <2>1. \A t \in ServerAlerts : NewServerLog(s, a)[t] \in Rows
    BY <1>5, <1>6, <1>7, <1>8, <1>10 DEF ServerAlerts
  <2>. QED  BY <1>5, <2>1, Zenon
<1>. QED  BY <1>5, <1>9, <1>10, <1>11 DEF new

\* The document and the rows of an item the sync dealt with.
LEMMA UpsertedType ==
    ASSUME TypeOK, NEW i \in Items, NEW level \in Levels
    PROVE  Upserted(i, level) \in ItemDoc
<1>1. item[i].streak \in Streaks
  BY DEF TypeOK, ItemDoc
<1>2. TrackSeverity(item[i].streak, level) \in Streaks
  BY <1>1, TrackSeverityType
<1>3. \A st : IsCritical(st) \in BOOLEAN /\ IsWarning(st) \in BOOLEAN
  BY DEF IsCritical, IsWarning
<1>. QED  BY <1>2, <1>3 DEF Upserted, ItemDoc

\* _check_guest_backups announces a recovery only for an alert that is open.
LEMMA GuestBackupFacts ==
    ASSUME NEW s \in Servers, NEW a \in Answer(s), NEW i \in GuestsOf(s), NEW r \in Rows,
           r.told # "false recovery", HasOpenAlert(r) => r.told = "problem"
    PROVE  /\ GuestBackupRows(a, i, r) \in Rows
           /\ GuestBackupRows(a, i, r).told # "false recovery"
           /\ HasOpenAlert(GuestBackupRows(a, i, r)) => GuestBackupRows(a, i, r).told = "problem"
<1>1. DispatchAlert(r) \in Rows /\ ResolveAlert(r) \in Rows
  BY RowOperators
<1>2. DispatchRecovery(ResolveAlert(r)) \in Rows
  BY <1>1, RowOperators
<1>3. /\ DispatchAlert(r).told = "problem" /\ ResolveAlert(r).told = r.told
      /\ HasOpenAlert(r) => DispatchRecovery(ResolveAlert(r)).told = "fine"
      /\ ~HasOpenAlert(ResolveAlert(r)) /\ ~HasOpenAlert(DispatchRecovery(ResolveAlert(r)))
  <2>1. DispatchAlert(r).told = "problem" /\ ResolveAlert(r).told = r.told
    BY DEF DispatchAlert, ResolveAlert
  <2>2. ResolveAlert(r).open = 0 /\ DispatchRecovery(ResolveAlert(r)).open = 0
    BY DEF ResolveAlert, DispatchRecovery
  <2>3. r.told = "problem" => DispatchRecovery(ResolveAlert(r)).told = "fine"
    BY DEF ResolveAlert, DispatchRecovery
  <2>4. ~HasOpenAlert(ResolveAlert(r)) /\ ~HasOpenAlert(DispatchRecovery(ResolveAlert(r)))
    BY <2>2, NoneOpen
  <2>. QED  BY <2>1, <2>3, <2>4
<1>4. CASE a.due[i] = "overdue"
  BY <1>1, <1>3, <1>4 DEF GuestBackupRows
<1>5. CASE a.due[i] = "exempt"
  BY <1>1, <1>3, <1>5 DEF GuestBackupRows
<1>6. CASE a.due[i] = "recent"
  BY <1>2, <1>3, <1>6 DEF GuestBackupRows
<1>7. CASE a.due[i] \notin {"overdue", "exempt", "recent"}
  BY <1>7 DEF GuestBackupRows
<1>. QED  BY <1>4, <1>5, <1>6, <1>7

\* A guest or store the sync went through, or did not reach, keeps the invariant.
LEMMA NewItemFacts ==
    ASSUME IInv, NEW s \in Servers, NEW a \in Answer(s), NEW done \in SUBSET ItemsOf(s),
           NEW i \in ItemsOf(s)
    PROVE  /\ NewItem(s, a, done, i) \in ItemDoc
           /\ NewItemLog(s, a, done, i) \in [ItemAlerts -> Rows]
           /\ \A t \in ItemAlerts : NewItemLog(s, a, done, i)[t].told # "false recovery"
           /\ NewItem(s, a, done, i).critical =>
                NewItemLog(s, a, done, i)["Critical Resource"].told = "problem"
           /\ HasOpenAlert(NewItemLog(s, a, done, i)["Backup Overdue"]) =>
                NewItemLog(s, a, done, i)["Backup Overdue"].told = "problem"
<1>. DEFINE log == itemLog[i]
            new == Upserted(i, a.items[i])
<1>1. i \in Items /\ item[i] \in ItemDoc /\ log \in [ItemAlerts -> Rows]
  BY DEF IInv, TypeOK, ItemsOf
<1>2. /\ \A t \in ItemAlerts : log[t].told # "false recovery"
      /\ item[i].critical => log["Critical Resource"].told = "problem"
      /\ HasOpenAlert(log["Backup Overdue"]) => log["Backup Overdue"].told = "problem"
  BY <1>1 DEF IInv, RecoveriesArePaired, FlagsAreAnnounced
<1>3. NoItem \in ItemDoc /\ NoItem.critical = FALSE
  BY AlertLogAssumption DEF NoItem, ItemDoc, NoStreak, Streaks
<1>4. CASE i \notin done
  BY <1>1, <1>2, <1>4 DEF NewItem, NewItemLog
<1>5. CASE i \in done /\ a.items[i] = "gone"
  BY <1>1, <1>2, <1>3, <1>5 DEF NewItem, NewItemLog
<1>6. CASE i \in done /\ a.items[i] # "gone"
  <2>1. a.items[i] \in Levels
    BY <1>6, AnswerFields
  <2>2. new \in ItemDoc
    BY <1>1, <2>1, UpsertedType DEF IInv
  <2>3. NewItem(s, a, done, i) = new
    BY <1>6 DEF NewItem
  <2>4. /\ item[i].critical \in BOOLEAN /\ item[i].warning \in BOOLEAN
        /\ new.critical \in BOOLEAN /\ new.warning \in BOOLEAN
    BY <1>1, <2>2 DEF ItemDoc
  <2>. HIDE DEF new
  <2>. DEFINE cr == HandleTransition(item[i].critical, new.critical, log["Critical Resource"], TRUE)
              rw == HandleTransition(item[i].warning, new.warning, log["Resource Warning"], FALSE)
              bo == IF i \in Guests /\ a.reached = "all"
                    THEN GuestBackupRows(a, i, log["Backup Overdue"]) ELSE log["Backup Overdue"]
  <2>5. /\ NewItemLog(s, a, done, i)["Critical Resource"] = cr
        /\ NewItemLog(s, a, done, i)["Resource Warning"] = rw
        /\ NewItemLog(s, a, done, i)["Backup Overdue"] = bo
        /\ DOMAIN NewItemLog(s, a, done, i) = ItemAlerts
        /\ NewItemLog(s, a, done, i) = [t \in ItemAlerts |-> NewItemLog(s, a, done, i)[t]]
    BY <1>6 DEF NewItemLog, ItemAlerts, new
  <2>6. /\ log["Critical Resource"] \in Rows /\ log["Resource Warning"] \in Rows
        /\ log["Backup Overdue"] \in Rows
        /\ log["Critical Resource"].told # "false recovery"
        /\ log["Resource Warning"].told # "false recovery"
        /\ log["Backup Overdue"].told # "false recovery"
    BY <1>1, <1>2 DEF ItemAlerts
  <2>. HIDE DEF log
  <2>7. cr \in Rows /\ cr.told # "false recovery" /\ (new.critical => cr.told = "problem")
    BY <1>2, <2>4, <2>6, HandleTransitionType, HandleTransitionTold
  <2>8. rw \in Rows /\ rw.told # "false recovery"
    BY <2>4, <2>6, HandleTransitionType, HandleTransitionSilent
  <2>9. /\ bo \in Rows /\ bo.told # "false recovery"
        /\ HasOpenAlert(bo) => bo.told = "problem"
    <3>1. CASE i \in Guests /\ a.reached = "all"
      <4>1. i \in GuestsOf(s)
        BY <3>1 DEF GuestsOf, ItemsOf
      <4>. QED  BY <1>2, <2>6, <3>1, <4>1, GuestBackupFacts
    <3>2. CASE ~(i \in Guests /\ a.reached = "all")
      BY <1>2, <2>6, <3>2
    <3>. QED  BY <3>1, <3>2
  <2>. HIDE DEF cr, rw, bo
  <2>10. \A t \in ItemAlerts : /\ NewItemLog(s, a, done, i)[t] \in Rows
                               /\ NewItemLog(s, a, done, i)[t].told # "false recovery"
    BY <2>5, <2>7, <2>8, <2>9 DEF ItemAlerts
  <2>11. NewItemLog(s, a, done, i) \in [ItemAlerts -> Rows]
    BY <2>5, <2>10, Zenon
  <2>. QED  BY <2>2, <2>3, <2>5, <2>7, <2>9, <2>10, <2>11
<1>. QED  BY <1>4, <1>5, <1>6

-----------------------------------------------------------------------------
\* The steps.

\* The history of readings keeps its type.
LEMMA RememberType ==
    ASSUME TypeOK, NEW s \in Servers, NEW a \in Answer(s), NEW done \in SUBSET ItemsOf(s)
    PROVE  Remember(s, a, done) \in [Items -> Seq(Levels)]
<1>. SUFFICES ASSUME NEW i \in Items
              PROVE  Remember(s, a, done)[i] \in Seq(Levels)
  BY DEF Remember
<1>1. seen[i] \in Seq(Levels)
  BY DEF TypeOK
<1>2. CASE i \in done /\ a.items[i] # "gone"
  <2>1. a.items[i] \in Levels
    BY <1>2, AnswerFields
  <2>. DEFINE h == Append(seen[i], a.items[i])
  <2>2. h \in Seq(Levels) /\ h # <<>>
    BY <1>1, <2>1
  <2>. QED  BY <1>2, <2>2 DEF Remember
<1>. QED  BY <1>1, <1>2 DEF Remember

\* The same for all rows of an item ...
LEMMA ResolvedItemFacts ==
    ASSUME NEW off \in SUBSET Servers, NEW i \in Items, itemLog[i] \in [ItemAlerts -> Rows]
    PROVE  /\ ResolvedItemLog(off)[i] \in [ItemAlerts -> Rows]
           /\ \A t \in ItemAlerts : ResolvedItemLog(off)[i][t].told = itemLog[i][t].told
           /\ \A t \in ItemAlerts : HasOpenAlert(ResolvedItemLog(off)[i][t]) => HasOpenAlert(itemLog[i][t])
<1>1. \A t \in ItemAlerts : /\ ResolveAlert(itemLog[i][t]) \in Rows
                            /\ ResolveAlert(itemLog[i][t]).told = itemLog[i][t].told
                            /\ ~HasOpenAlert(ResolveAlert(itemLog[i][t]))
  BY ResolveFacts
<1>2. \/ ResolvedItemLog(off)[i] = itemLog[i]
      \/ ResolvedItemLog(off)[i] = [t \in ItemAlerts |-> ResolveAlert(itemLog[i][t])]
  BY DEF ResolvedItemLog
<1>. QED  BY <1>1, <1>2

\* ... and of a server.
LEMMA ResolvedServerFacts ==
    ASSUME NEW off \in SUBSET Servers, NEW s \in Servers, serverLog[s] \in [ServerAlerts -> Rows]
    PROVE  /\ ResolvedServerLog(off)[s] \in [ServerAlerts -> Rows]
           /\ \A t \in ServerAlerts : /\ ResolvedServerLog(off)[s][t].told = serverLog[s][t].told
                                      /\ \/ ResolvedServerLog(off)[s][t].open = 0
                                         \/ ResolvedServerLog(off)[s][t].open = serverLog[s][t].open
<1>1. \A t \in ServerAlerts : /\ ResolveAlert(serverLog[s][t]) \in Rows
                              /\ ResolveAlert(serverLog[s][t]).told = serverLog[s][t].told
                              /\ ResolveAlert(serverLog[s][t]).open = 0
  BY ResolveFacts
<1>2. \/ ResolvedServerLog(off)[s] = serverLog[s]
      \/ ResolvedServerLog(off)[s] = [t \in ServerAlerts |-> ResolveAlert(serverLog[s][t])]
  BY DEF ResolvedServerLog
<1>. QED  BY <1>1, <1>2

\* ... and so keep the invariant of the items and servers they are about.
LEMMA ResolvedItemKeeps ==
    ASSUME IInv, NEW off \in SUBSET Servers, NEW i \in Items
    PROVE  LET log == ResolvedItemLog(off)[i]
           IN  /\ log \in [ItemAlerts -> Rows]
               /\ \A t \in ItemAlerts : log[t].told # "false recovery"
               /\ item[i].critical => log["Critical Resource"].told = "problem"
               /\ HasOpenAlert(log["Backup Overdue"]) => log["Backup Overdue"].told = "problem"
<1>1. itemLog[i] \in [ItemAlerts -> Rows]
  BY DEF IInv, TypeOK
<1>2. /\ \A t \in ItemAlerts : itemLog[i][t].told # "false recovery"
      /\ item[i].critical => itemLog[i]["Critical Resource"].told = "problem"
      /\ HasOpenAlert(itemLog[i]["Backup Overdue"]) => itemLog[i]["Backup Overdue"].told = "problem"
  BY DEF IInv, RecoveriesArePaired, FlagsAreAnnounced
<1>3. "Critical Resource" \in ItemAlerts /\ "Backup Overdue" \in ItemAlerts
  BY DEF ItemAlerts
<1>. QED  BY <1>1, <1>2, <1>3, ResolvedItemFacts

\* Resolving rows keeps a bound on how many are open.
LEMMA AtMostAsOpen ==
    ASSUME NEW new \in Int, NEW old \in Int, NEW p \in BOOLEAN,
           old <= 1, old = 1 => p, new = 0 \/ new = old
    PROVE  new <= 1 /\ (new = 1 => p)
OBVIOUS

LEMMA ResolvedServerKeeps ==
    ASSUME IInv, NEW off \in SUBSET Servers, NEW s \in Servers
    PROVE  LET log == ResolvedServerLog(off)[s]
           IN  /\ server[s] \in ServerDoc /\ log \in [ServerAlerts -> Rows]
               /\ log["Backup Failure"].told # "false recovery"
               /\ server[s].backupCritical => log["Backup Failure"].told = "problem"
               /\ log["Server Offline"].open <= 1
               /\ log["Server Offline"].open = 1 => server[s].status = "Offline"
               /\ log["Backup Failure"].open <= 1
               /\ log["Backup Failure"].open = 1 => server[s].backupCritical
<1>1. server[s] \in ServerDoc /\ serverLog[s] \in [ServerAlerts -> Rows]
  BY DEF IInv, TypeOK
<1>2. /\ serverLog[s]["Backup Failure"].told # "false recovery"
      /\ server[s].backupCritical => serverLog[s]["Backup Failure"].told = "problem"
  BY DEF IInv, RecoveriesArePaired, FlagsAreAnnounced
<1>3. /\ serverLog[s]["Server Offline"].open <= 1
      /\ serverLog[s]["Server Offline"].open = 1 => server[s].status = "Offline"
      /\ serverLog[s]["Backup Failure"].open <= 1
      /\ serverLog[s]["Backup Failure"].open = 1 => server[s].backupCritical
  BY DEF IInv, HostIncidentsAreCurrent
<1>4. "Server Offline" \in ServerAlerts /\ "Backup Failure" \in ServerAlerts
  BY DEF ServerAlerts
<1>5. \A t \in ServerAlerts :
        /\ ResolvedServerLog(off)[s][t].told = serverLog[s][t].told
        /\ \/ ResolvedServerLog(off)[s][t].open = 0
           \/ ResolvedServerLog(off)[s][t].open = serverLog[s][t].open
  BY <1>1, ResolvedServerFacts
<1>6. ResolvedServerLog(off)[s] \in [ServerAlerts -> Rows]
  BY <1>1, ResolvedServerFacts
<1>. DEFINE log == ResolvedServerLog(off)[s]
<1>7. /\ log["Backup Failure"].told = serverLog[s]["Backup Failure"].told
      /\ log["Backup Failure"].open = 0 \/ log["Backup Failure"].open = serverLog[s]["Backup Failure"].open
      /\ log["Server Offline"].open = 0 \/ log["Server Offline"].open = serverLog[s]["Server Offline"].open
  BY <1>4, <1>5
<1>. HIDE DEF log
<1>8. log["Server Offline"].open <= 1 /\ (log["Server Offline"].open = 1 => server[s].status = "Offline")
  <2>1. log["Server Offline"].open \in Int /\ serverLog[s]["Server Offline"].open \in Int
    BY <1>1, <1>4, <1>6, OpenIsInt DEF log
  <2>. QED  BY <1>3, <1>7, <2>1, AtMostAsOpen
<1>9. log["Backup Failure"].open <= 1 /\ (log["Backup Failure"].open = 1 => server[s].backupCritical)
  <2>1. log["Backup Failure"].open \in Int /\ serverLog[s]["Backup Failure"].open \in Int
    BY <1>1, <1>4, <1>6, OpenIsInt DEF log
  <2>2. server[s].backupCritical \in BOOLEAN
    BY <1>1 DEF ServerDoc
  <2>. QED  BY <1>3, <1>7, <2>1, <2>2, AtMostAsOpen
<1>. QED  BY <1>1, <1>2, <1>6, <1>7, <1>8, <1>9 DEF log

\* A sync that commits preserves the invariant, whatever it answered and
\* whichever disabled servers were resolved along with it.
LEMMA SyncCommittedStep ==
    ASSUME IInv, NEW s \in Servers, NEW off \in SUBSET Servers, SyncCommitted(s, off),
           enabled' \in [Servers -> BOOLEAN], todo' \in SUBSET Servers
    PROVE  IInv'
<1>1. PICK a \in Answer(s), done \in SUBSET ItemsOf(s) :
        /\ server' = [server EXCEPT ![s] = NewServer(s, a)]
        /\ serverLog' = [ResolvedServerLog(off) EXCEPT ![s] = NewServerLog(s, a)]
        /\ item' = [i \in Items |-> IF HostOf[i] = s THEN NewItem(s, a, done, i) ELSE item[i]]
        /\ itemLog' = [i \in Items |-> IF HostOf[i] = s THEN NewItemLog(s, a, done, i)
                                       ELSE ResolvedItemLog(off)[i]]
        /\ seen' = Remember(s, a, done)
        /\ synced' = s
  BY DEF SyncCommitted
<1>2. \A i \in Items :
        /\ item'[i] \in ItemDoc /\ itemLog'[i] \in [ItemAlerts -> Rows]
        /\ \A t \in ItemAlerts : itemLog'[i][t].told # "false recovery"
        /\ item'[i].critical => itemLog'[i]["Critical Resource"].told = "problem"
        /\ HasOpenAlert(itemLog'[i]["Backup Overdue"]) => itemLog'[i]["Backup Overdue"].told = "problem"
  <2>. TAKE i \in Items
  <2>1. CASE HostOf[i] = s
    <3>1. i \in ItemsOf(s) /\ item'[i] = NewItem(s, a, done, i)
          /\ itemLog'[i] = NewItemLog(s, a, done, i)
      BY <1>1, <2>1 DEF ItemsOf
    <3>2. /\ NewItem(s, a, done, i) \in ItemDoc
          /\ NewItemLog(s, a, done, i) \in [ItemAlerts -> Rows]
          /\ \A t \in ItemAlerts : NewItemLog(s, a, done, i)[t].told # "false recovery"
          /\ NewItem(s, a, done, i).critical =>
               NewItemLog(s, a, done, i)["Critical Resource"].told = "problem"
          /\ HasOpenAlert(NewItemLog(s, a, done, i)["Backup Overdue"]) =>
               NewItemLog(s, a, done, i)["Backup Overdue"].told = "problem"
      BY <3>1, NewItemFacts
    <3>. QED  BY <3>1, <3>2
  <2>2. CASE HostOf[i] # s
    <3>1. item'[i] = item[i] /\ itemLog'[i] = ResolvedItemLog(off)[i]
      BY <1>1, <2>2
    <3>2. /\ item[i] \in ItemDoc /\ itemLog[i] \in [ItemAlerts -> Rows]
          /\ \A t \in ItemAlerts : itemLog[i][t].told # "false recovery"
          /\ item[i].critical => itemLog[i]["Critical Resource"].told = "problem"
          /\ HasOpenAlert(itemLog[i]["Backup Overdue"]) => itemLog[i]["Backup Overdue"].told = "problem"
      BY DEF IInv, TypeOK, RecoveriesArePaired, FlagsAreAnnounced
    <3>. QED  BY <3>1, <3>2, ResolvedItemKeeps
  <2>. QED  BY <2>1, <2>2
<1>3. \A x \in Servers :
        /\ server'[x] \in ServerDoc /\ serverLog'[x] \in [ServerAlerts -> Rows]
        /\ serverLog'[x]["Backup Failure"].told # "false recovery"
        /\ server'[x].backupCritical => serverLog'[x]["Backup Failure"].told = "problem"
        /\ serverLog'[x]["Server Offline"].open <= 1
        /\ serverLog'[x]["Server Offline"].open = 1 => server'[x].status = "Offline"
        /\ serverLog'[x]["Backup Failure"].open <= 1
        /\ serverLog'[x]["Backup Failure"].open = 1 => server'[x].backupCritical
  <2>. TAKE x \in Servers
  <2>0. server \in [Servers -> ServerDoc] /\ ResolvedServerLog(off) = [y \in Servers |-> ResolvedServerLog(off)[y]]
    BY DEF IInv, TypeOK, ResolvedServerLog
  <2>1. CASE x = s
    <3>1. server'[x] = NewServer(s, a) /\ serverLog'[x] = NewServerLog(s, a)
      BY <1>1, <2>0, <2>1
    <3>2. NewServer(s, a) \in ServerDoc
      BY NewServerType DEF IInv
    <3>. QED  BY <3>1, <3>2, NewServerLogFacts
  <2>2. CASE x # s
    <3>1. server'[x] = server[x] /\ serverLog'[x] = ResolvedServerLog(off)[x]
      BY <1>1, <2>0, <2>2
    <3>2. QED  BY <3>1, ResolvedServerKeeps
  <2>. QED  BY <2>1, <2>2
<1>4. TypeOK'
  <2>1. server' \in [Servers -> ServerDoc] /\ serverLog' \in [Servers -> [ServerAlerts -> Rows]]
    <3>1. server' = [x \in Servers |-> server'[x]] /\ serverLog' = [x \in Servers |-> serverLog'[x]]
      BY <1>1 DEF IInv, TypeOK, ResolvedServerLog
    <3>. QED  BY <1>3, <3>1
  <2>2. item' \in [Items -> ItemDoc] /\ itemLog' \in [Items -> [ItemAlerts -> Rows]]
    <3>1. item' = [i \in Items |-> item'[i]] /\ itemLog' = [i \in Items |-> itemLog'[i]]
      BY <1>1
    <3>. QED  BY <1>2, <3>1
  <2>3. seen' \in [Items -> Seq(Levels)]
    BY <1>1, RememberType DEF IInv
  <2>. QED  BY <1>1, <2>1, <2>2, <2>3 DEF TypeOK
<1>5. FlagsAreAnnounced' /\ RecoveriesArePaired'
  BY <1>2, <1>3 DEF FlagsAreAnnounced, RecoveriesArePaired
<1>6. HostIncidentsAreCurrent'
  BY <1>3 DEF HostIncidentsAreCurrent
<1>. QED  BY <1>4, <1>5, <1>6 DEF IInv

\* The invariant that carries the theorems below.
THEOREM InductiveInvariant == Spec => []IInv
<1>1. Init => IInv
  <2>. SUFFICES ASSUME Init PROVE IInv
    OBVIOUS
  <2>1. NoRows \in Rows /\ NoRows.told = "fine" /\ NoRows.open = 0
    BY Bounds DEF Rows, NoRows
  <2>2. NoStreak \in Streaks
    BY Bounds DEF NoStreak, Streaks
  <2>3. NoItem \in ItemDoc /\ NoItem.critical = FALSE
    BY <2>2 DEF NoItem, ItemDoc
  <2>4. TypeOK
    BY <2>1, <2>2, <2>3 DEF Init, TypeOK, ServerDoc, Levels
  <2>5. \A s \in Servers : ~server[s].backupCritical /\ \A t \in ServerAlerts : serverLog[s][t] = NoRows
    BY DEF Init
  <2>6. \A i \in Items : item[i] = NoItem /\ \A t \in ItemAlerts : itemLog[i][t] = NoRows
    BY DEF Init
  <2>9. \A s \in Servers : /\ serverLog[s]["Backup Failure"] = NoRows
                           /\ serverLog[s]["Server Offline"] = NoRows
    BY <2>5 DEF ServerAlerts
  <2>10. /\ \A i \in Items : itemLog[i]["Backup Overdue"] = NoRows
         /\ ~HasOpenAlert(NoRows)
    BY <2>1, <2>6, NoneOpen DEF ItemAlerts
  <2>7. FlagsAreAnnounced /\ RecoveriesArePaired
    <3>1. FlagsAreAnnounced
      BY <2>3, <2>5, <2>6, <2>10 DEF FlagsAreAnnounced
    <3>. QED  BY <2>1, <2>6, <2>9, <3>1 DEF RecoveriesArePaired
  <2>8. HostIncidentsAreCurrent
    <3>1. \A s \in Servers : serverLog[s]["Backup Failure"].open = 0 /\ serverLog[s]["Server Offline"].open = 0
      BY <2>1, <2>9
    <3>2. \A s \in Servers :
            /\ serverLog[s]["Server Offline"].open <= 1
            /\ serverLog[s]["Server Offline"].open = 1 => server[s].status = "Offline"
            /\ serverLog[s]["Backup Failure"].open <= 1
            /\ serverLog[s]["Backup Failure"].open = 1 => server[s].backupCritical
      <4>1. \A n : n = 0 => n <= 1 /\ n # 1
        OBVIOUS
      <4>. QED  BY <3>1, <4>1, Zenon
    <3>. QED  BY <3>2 DEF HostIncidentsAreCurrent
  <2>. QED  BY <2>4, <2>7, <2>8 DEF IInv
<1>2. IInv /\ [Next]_vars => IInv'
  <2>. SUFFICES ASSUME IInv, [Next]_vars PROVE IInv'
    OBVIOUS
  <2>0. Disabled \in SUBSET Servers /\ todo \in SUBSET Servers /\ enabled \in [Servers -> BOOLEAN]
    BY DEF Disabled, IInv, TypeOK
  <2>1. ASSUME NEW s \in Servers, FirstSync(s) PROVE IInv'
    BY <2>0, <2>1, SyncCommittedStep DEF FirstSync
  <2>2. ASSUME NEW s \in Servers, LaterSync(s) PROVE IInv'
    BY <2>0, <2>2, SyncCommittedStep DEF LaterSync
  <2>3. ASSUME NEW s \in Servers, SyncNow(s) PROVE IInv'
    BY <2>0, <2>3, SyncCommittedStep DEF SyncNow
  <2>4. ASSUME UNCHANGED <<server, item, serverLog, itemLog, seen>>,
               enabled' \in [Servers -> BOOLEAN], todo' \in SUBSET Servers,
               synced' \in Servers \cup {NoServer}
        PROVE  IInv'
    BY <2>4 DEF IInv, TypeOK, FlagsAreAnnounced, RecoveriesArePaired, HostIncidentsAreCurrent
  <2>5. ASSUME NEW s \in Servers, FirstSyncRolledBack(s) \/ LaterSyncRolledBack(s) PROVE IInv'
    BY <2>0, <2>4, <2>5 DEF FirstSyncRolledBack, LaterSyncRolledBack
  <2>6. ASSUME NEW s \in Servers, ToggleEnabled(s) PROVE IInv'
    <3>1. enabled' \in [Servers -> BOOLEAN]
      BY <2>0, <2>6, Zenon DEF ToggleEnabled
    <3>. QED  BY <2>0, <2>4, <2>6, <3>1 DEF ToggleEnabled
  <2>7. ASSUME NothingEnabled PROVE IInv'
    <3>1. \A x \in Servers :
            /\ serverLog'[x] \in [ServerAlerts -> Rows]
            /\ serverLog'[x]["Backup Failure"].told # "false recovery"
            /\ server'[x].backupCritical => serverLog'[x]["Backup Failure"].told = "problem"
            /\ serverLog'[x]["Server Offline"].open <= 1
            /\ serverLog'[x]["Server Offline"].open = 1 => server'[x].status = "Offline"
            /\ serverLog'[x]["Backup Failure"].open <= 1
            /\ serverLog'[x]["Backup Failure"].open = 1 => server'[x].backupCritical
      BY <2>7, ResolvedServerKeeps DEF NothingEnabled
    <3>2. \A i \in Items :
            /\ itemLog'[i] \in [ItemAlerts -> Rows]
            /\ \A t \in ItemAlerts : itemLog'[i][t].told # "false recovery"
            /\ item'[i].critical => itemLog'[i]["Critical Resource"].told = "problem"
            /\ HasOpenAlert(itemLog'[i]["Backup Overdue"]) => itemLog'[i]["Backup Overdue"].told = "problem"
      BY <2>7, ResolvedItemKeeps DEF NothingEnabled
    <3>3. /\ serverLog' = [x \in Servers |-> serverLog'[x]]
          /\ itemLog' = [i \in Items |-> itemLog'[i]]
      BY <2>7 DEF NothingEnabled, ResolvedServerLog, ResolvedItemLog
    <3>4. /\ serverLog' \in [Servers -> [ServerAlerts -> Rows]]
          /\ itemLog' \in [Items -> [ItemAlerts -> Rows]]
      BY <3>1, <3>2, <3>3
    <3>5. TypeOK'
      BY <2>7, <3>4 DEF IInv, TypeOK, NothingEnabled
    <3>6. FlagsAreAnnounced' /\ RecoveriesArePaired'
      BY <3>1, <3>2 DEF FlagsAreAnnounced, RecoveriesArePaired
    <3>7. HostIncidentsAreCurrent'
      BY <3>1 DEF HostIncidentsAreCurrent
    <3>. QED  BY <3>5, <3>6, <3>7 DEF IInv
  <2>8. CASE UNCHANGED vars
    BY <2>0, <2>4, <2>8 DEF vars, IInv, TypeOK
  <2>. QED  BY <2>1, <2>2, <2>3, <2>5, <2>6, <2>7, <2>8 DEF Next
<1>. QED  BY <1>1, <1>2, PTL DEF Spec

\* A recovery of a guest, a store or a host's backups is only ever announced
\* after an alert, in any fleet and through any mix of failed, rolled-back and
\* manual syncs (dispatch_recovery, _upsert_guest, _upsert_datastore,
\* _handle_backup_task_result, _check_guest_backups).
THEOREM RecoveriesFollowAlerts == Spec => []RecoveriesArePaired
<1>1. IInv => RecoveriesArePaired
  BY DEF IInv
<1>. QED  BY <1>1, InductiveInvariant, PTL

\* An unresolved Server Offline or Backup Failure row is the only one of its
\* kind and its condition still holds, in any fleet (sync_server,
\* _handle_backup_task_result, _resolve_disabled_server_alerts).
THEOREM OpenHostIncidentsAreReal == Spec => []HostIncidentsAreCurrent
<1>1. IInv => HostIncidentsAreCurrent
  BY DEF IInv
<1>. QED  BY <1>1, InductiveInvariant, PTL

\* Type correctness: the documents and the log rows of every server, guest and
\* store stay of their types, the streaks within Checks.
THEOREM TypeCorrect == Spec => []TypeOK
<1>1. IInv => TypeOK
  BY DEF IInv
<1>. QED  BY <1>1, InductiveInvariant, PTL

-----------------------------------------------------------------------------
\* Flags and readings.

\* A reading joins the history and pushes the oldest one out of a full one.
Joined(h, x) == IF Len(Append(h, x)) > Checks THEN Tail(Append(h, x)) ELSE Append(h, x)

\* n is the number of readings in S at the end of the history.
EndsWith(h, n, S) ==
    /\ n <= Len(h)
    /\ \A j \in 1..Len(h) : j > Len(h) - n => h[j] \in S
    /\ n < Len(h) => h[Len(h) - n] \notin S

LEMMA JoinedFacts ==
    ASSUME NEW h \in Seq(Levels), Len(h) <= Checks, NEW x \in Levels
    PROVE  LET m == Joined(h, x)
               k == IF Len(h) < Checks THEN 0 ELSE 1
           IN  /\ m \in Seq(Levels)
               /\ Len(m) = Len(h) + 1 - k /\ Len(m) <= Checks
               /\ m[Len(m)] = x
               /\ \A j \in 1..(Len(m) - 1) : m[j] = h[j + k]
<1>. DEFINE g == Append(h, x)
<1>1. g \in Seq(Levels) /\ Len(g) = Len(h) + 1 /\ Len(h) \in Nat
  OBVIOUS
<1>2. g[Len(h) + 1] = x /\ \A j \in 1..Len(h) : g[j] = h[j]
  OBVIOUS
<1>3. Joined(h, x) = IF Len(g) > Checks THEN Tail(g) ELSE g
  BY DEF Joined
<1>. HIDE DEF g
<1>4. CASE Len(h) < Checks
  <2>1. Joined(h, x) = g
    BY <1>1, <1>3, <1>4, Bounds
  <2>2. Len(h) + 1 <= Checks /\ Len(h) + 1 - 0 = Len(h) + 1 /\ Len(h) + 1 - 1 = Len(h)
        /\ \A j \in 1..Len(h) : j + 0 = j
    BY <1>1, <1>4, Bounds
  <2>. QED  BY <1>1, <1>2, <1>4, <2>1, <2>2
<1>5. CASE ~(Len(h) < Checks)
  <2>1. Joined(h, x) = Tail(g) /\ Len(h) = Checks /\ g # <<>>
    BY <1>1, <1>3, <1>5, Bounds
  <2>2. Tail(g) \in Seq(Levels) /\ Len(Tail(g)) = Len(h)
    BY <1>1, <2>1
  <2>3. \A j \in 1..Len(Tail(g)) : Tail(g)[j] = g[j + 1]
    BY <1>1, <2>1
  <2>4. Len(h) \in 1..Len(h) /\ \A j \in 1..(Len(h) - 1) : j \in 1..Len(h) /\ j + 1 \in 1..Len(h)
    BY <1>1, <2>1, Bounds
  <2>. QED  BY <1>1, <1>2, <1>5, <2>1, <2>2, <2>3, <2>4
<1>. QED  BY <1>4, <1>5

\* Counting a reading and remembering it keeps the two in step.
LEMMA CountTracks ==
    ASSUME NEW h \in Seq(Levels), Len(h) <= Checks, NEW x \in Levels, NEW S,
           NEW n \in 0..Checks, EndsWith(h, n, S)
    PROVE  EndsWith(Joined(h, x), IF x \in S THEN Longer(n) ELSE 0, S)
<1>. DEFINE m == Joined(h, x)
            k == IF Len(h) < Checks THEN 0 ELSE 1
<1>1. Len(h) \in Nat /\ Checks \in Nat /\ Checks > 0 /\ n \in Nat /\ n <= Checks /\ n <= Len(h)
  BY Bounds DEF EndsWith
<1>2. /\ Len(m) = Len(h) + 1 - k /\ m[Len(m)] = x /\ Len(m) <= Checks
      /\ \A j \in 1..(Len(m) - 1) : m[j] = h[j + k]
  BY JoinedFacts
<1>. HIDE DEF m
<1>3. CASE x \notin S
  <2>1. Len(m) \in Nat /\ Len(m) > 0
    BY <1>1, <1>2
  <2>2. EndsWith(m, 0, S)
    BY <1>2, <1>3, <2>1 DEF EndsWith
  <2>. QED  BY <1>3, <2>2 DEF m
<1>4. CASE x \in S
  <2>. DEFINE c == Longer(n)
  <2>1. c = IF n < Checks THEN n + 1 ELSE Checks
    BY DEF Longer
  <2>. HIDE DEF c
  <2>2. Len(m) \in 1..Checks /\ c \in 1..Len(m)
    BY <1>1, <1>2, <2>1
  <2>3. ASSUME NEW j \in 1..Len(m), j > Len(m) - c PROVE m[j] \in S
    <3>1. CASE j = Len(m)
      BY <3>1, <1>2, <1>4
    <3>2. CASE j # Len(m)
      <4>1. j \in 1..(Len(m) - 1) /\ j + k \in 1..Len(h) /\ j + k > Len(h) - n
        BY <3>2, <2>3, <2>1, <2>2, <1>1, <1>2
      <4>. QED  BY <4>1, <1>2 DEF EndsWith
    <3>. QED  BY <3>1, <3>2
  <2>4. ASSUME c < Len(m) PROVE m[Len(m) - c] \notin S
    <3>. DEFINE j == Len(m) - c
    <3>1. n < Len(h) /\ j \in 1..(Len(m) - 1) /\ j + k = Len(h) - n
      BY <2>4, <2>1, <2>2, <1>1, <1>2
    <3>. QED  BY <3>1, <1>2 DEF EndsWith
  <2>5. EndsWith(m, c, S)
    <3>1. c <= Len(m)
      BY <2>2
    <3>. QED  BY <2>3, <2>4, <3>1 DEF EndsWith
  <2>. QED  BY <1>4, <2>5 DEF m, c
<1>. QED  BY <1>3, <1>4

\* The streak is full exactly when the last Checks readings are all in S.
LEMMA FullStreak ==
    ASSUME NEW h \in Seq(Levels), Len(h) <= Checks, NEW S,
           NEW n \in 0..Checks, EndsWith(h, n, S)
    PROVE  n >= Checks <=> Len(h) = Checks /\ \A j \in 1..Checks : h[j] \in S
<1>1. Len(h) \in Nat /\ Checks \in Nat /\ Checks > 0 /\ n \in Nat /\ n <= Checks /\ n <= Len(h)
  BY Bounds DEF EndsWith
<1>2. ASSUME n >= Checks PROVE Len(h) = Checks /\ \A j \in 1..Checks : h[j] \in S
  <2>1. n = Checks /\ Len(h) = Checks
    BY <1>1, <1>2
  <2>2. \A j \in 1..Checks : j > Checks - n
    BY <1>1, <2>1
  <2>. QED  BY <2>1, <2>2 DEF EndsWith
<1>3. ASSUME Len(h) = Checks, \A j \in 1..Checks : h[j] \in S PROVE n >= Checks
  <2>. SUFFICES ASSUME n < Checks PROVE FALSE
    BY <1>1
  <2>1. Checks - n \in 1..Checks
    BY <1>1
  <2>. QED  BY <1>3, <2>1 DEF EndsWith
<1>. QED  BY <1>2, <1>3

\* The streaks of a document are the ends of its history, and its flags say
\* which of them are full.
FlagsCount(x, h) ==
    /\ Len(h) <= Checks
    /\ EndsWith(h, x.streak.critical, {"crit"})
    /\ EndsWith(h, x.streak.warning, {"warn", "crit"})
    /\ x.critical <=> IsCritical(x.streak)
    /\ x.warning <=> IsWarning(x.streak)

LEMMA NoItemCounts == FlagsCount(NoItem, <<>>)
<1>1. NoItem.streak.critical = 0 /\ NoItem.streak.warning = 0 /\ NoItem.streak = NoStreak
      /\ NoItem.critical = FALSE /\ NoItem.warning = FALSE
  BY DEF NoItem, NoStreak
<1>2. Len(<<>>) = 0 /\ 0 <= Checks /\ ~(0 >= Checks) /\ 0 <= 0 /\ ~(0 < 0)
  BY Bounds
<1>3. \A S : EndsWith(<<>>, 0, S)
  BY <1>2 DEF EndsWith
<1>4. ~IsCritical(NoStreak) /\ ~IsWarning(NoStreak)
  BY <1>2 DEF IsCritical, IsWarning, NoStreak
<1>. QED  BY <1>1, <1>2, <1>3, <1>4 DEF FlagsCount

\* A reading that is stored keeps them in step (_upsert_guest, _upsert_datastore).
LEMMA UpsertedCounts ==
    ASSUME TypeOK, NEW i \in Items, FlagsCount(item[i], seen[i]), NEW level \in Levels
    PROVE  FlagsCount(Upserted(i, level), Joined(seen[i], level))
<1>. DEFINE st == item[i].streak
            new == TrackSeverity(st, level)
            h == seen[i]
<1>1. item[i] \in ItemDoc /\ h \in Seq(Levels)
  BY DEF TypeOK
<1>2. st \in Streaks
  BY <1>1 DEF ItemDoc
<1>3. st.critical \in 0..Checks /\ st.warning \in 0..Checks
  BY <1>2 DEF Streaks
<1>4. /\ new.critical = IF level \in {"crit"} THEN Longer(st.critical) ELSE 0
      /\ new.warning = IF level \in {"warn", "crit"} THEN Longer(st.warning) ELSE 0
  BY DEF TrackSeverity, Levels
<1>5. /\ Len(h) <= Checks
      /\ EndsWith(h, st.critical, {"crit"}) /\ EndsWith(h, st.warning, {"warn", "crit"})
  BY DEF FlagsCount
<1>6. /\ Upserted(i, level).streak = new
      /\ Upserted(i, level).critical = IsCritical(new)
      /\ Upserted(i, level).warning = IsWarning(new)
  BY DEF Upserted
<1>. HIDE DEF st, new, h
<1>7. EndsWith(Joined(h, level), new.critical, {"crit"})
  BY <1>1, <1>3, <1>4, <1>5, CountTracks
<1>8. EndsWith(Joined(h, level), new.warning, {"warn", "crit"})
  BY <1>1, <1>3, <1>4, <1>5, CountTracks
<1>9. Len(Joined(h, level)) <= Checks
  BY <1>1, <1>5, JoinedFacts
<1>10. FlagsCount(Upserted(i, level), Joined(h, level))
  BY <1>6, <1>7, <1>8, <1>9 DEF FlagsCount
<1>. QED  BY <1>10 DEF h

FlagsFollowReadings == \A i \in Items : FlagsCount(item[i], seen[i])

\* A committed sync stores an item's reading, deletes it with its history, or
\* leaves it alone.
LEMMA SyncFlagsFollow ==
    ASSUME TypeOK, FlagsFollowReadings, NEW s \in Servers, NEW off, SyncCommitted(s, off)
    PROVE  FlagsFollowReadings'
<1>1. PICK a \in Answer(s), done \in SUBSET ItemsOf(s) :
        /\ item' = [i \in Items |-> IF HostOf[i] = s THEN NewItem(s, a, done, i) ELSE item[i]]
        /\ seen' = Remember(s, a, done)
  BY DEF SyncCommitted
<1>2. ASSUME NEW i \in Items PROVE FlagsCount(item'[i], seen'[i])
  <2>0. FlagsCount(item[i], seen[i])
    BY DEF FlagsFollowReadings
  <2>1. CASE i \notin done
    <3>1. item'[i] = item[i] /\ seen'[i] = seen[i]
      BY <1>1, <2>1 DEF NewItem, Remember
    <3>. QED  BY <2>0, <3>1
  <2>2. CASE i \in done
    <3>0. i \in ItemsOf(s) /\ HostOf[i] = s
      BY <2>2 DEF ItemsOf
    <3>1. CASE a.items[i] = "gone" /\ s \in Pbs
      <4>1. item'[i] = item[i] /\ seen'[i] = seen[i]
        BY <1>1, <2>2, <3>0, <3>1 DEF NewItem, Remember
      <4>. QED  BY <2>0, <4>1
    <3>2. CASE a.items[i] = "gone" /\ s \notin Pbs
      <4>1. item'[i] = NoItem /\ seen'[i] = <<>>
        BY <1>1, <2>2, <3>0, <3>2 DEF NewItem, Remember
      <4>. QED  BY <4>1, NoItemCounts
    <3>3. CASE a.items[i] # "gone"
      <4>1. a.items[i] \in Levels
        BY <3>0, <3>3, AnswerFields
      <4>2. item'[i] = Upserted(i, a.items[i]) /\ seen'[i] = Joined(seen[i], a.items[i])
        BY <1>1, <2>2, <3>0, <3>3 DEF NewItem, Remember, Joined
      <4>. QED  BY <2>0, <4>1, <4>2, UpsertedCounts
    <3>. QED  BY <3>1, <3>2, <3>3
  <2>. QED  BY <2>1, <2>2
<1>. QED  BY <1>2 DEF FlagsFollowReadings

\* A guest or store is flagged exactly when its last Checks stored readings
\* all stayed at or above the line, for any fleet and any confirmation_checks:
\* polls that fail, break off or roll back neither lengthen nor restart a
\* streak (_track_severity through _upsert_guest and _upsert_datastore).
THEOREM FlaggedMeansConfirmed == Spec => []FlaggedWhenConfirmed
<1>1. Init => FlagsFollowReadings
  BY NoItemCounts DEF Init, FlagsFollowReadings
<1>2. TypeOK /\ FlagsFollowReadings /\ [Next]_vars => FlagsFollowReadings'
  <2>. SUFFICES ASSUME TypeOK, FlagsFollowReadings, [Next]_vars PROVE FlagsFollowReadings'
    OBVIOUS
  <2>1. ASSUME NEW s \in Servers, FirstSync(s) \/ LaterSync(s) \/ SyncNow(s)
        PROVE  FlagsFollowReadings'
    BY <2>1, SyncFlagsFollow DEF FirstSync, LaterSync, SyncNow
  <2>2. ASSUME UNCHANGED <<item, seen>> PROVE FlagsFollowReadings'
    BY <2>2 DEF FlagsFollowReadings
  <2>3. ASSUME NEW s \in Servers, FirstSyncRolledBack(s) \/ LaterSyncRolledBack(s) \/ ToggleEnabled(s)
        PROVE  FlagsFollowReadings'
    BY <2>2, <2>3 DEF FirstSyncRolledBack, LaterSyncRolledBack, ToggleEnabled
  <2>4. CASE NothingEnabled \/ UNCHANGED vars
    BY <2>2, <2>4 DEF NothingEnabled, vars
  <2>. QED  BY <2>1, <2>3, <2>4 DEF Next
<1>3. TypeOK /\ FlagsFollowReadings => FlaggedWhenConfirmed
  <2>. SUFFICES ASSUME TypeOK, FlagsFollowReadings, NEW i \in Items
                PROVE  /\ item[i].critical <=> AllSeen(i, {"crit"})
                       /\ item[i].warning <=> AllSeen(i, {"warn", "crit"}) /\ ~AllSeen(i, {"crit"})
    BY DEF FlaggedWhenConfirmed
  <2>. DEFINE st == item[i].streak
  <2>1. item[i] \in ItemDoc /\ seen[i] \in Seq(Levels)
    BY DEF TypeOK
  <2>2. st.critical \in 0..Checks /\ st.warning \in 0..Checks
    BY <2>1 DEF ItemDoc, Streaks
  <2>3. /\ Len(seen[i]) <= Checks
        /\ EndsWith(seen[i], st.critical, {"crit"}) /\ EndsWith(seen[i], st.warning, {"warn", "crit"})
        /\ item[i].critical <=> IsCritical(st)
        /\ item[i].warning <=> IsWarning(st)
    BY DEF FlagsFollowReadings, FlagsCount
  <2>. HIDE DEF st
  <2>4. st.critical >= Checks <=> AllSeen(i, {"crit"})
    BY <2>1, <2>2, <2>3, FullStreak DEF AllSeen
  <2>5. st.warning >= Checks <=> AllSeen(i, {"warn", "crit"})
    BY <2>1, <2>2, <2>3, FullStreak DEF AllSeen
  <2>. QED  BY <2>3, <2>4, <2>5 DEF IsCritical, IsWarning
<1>. QED  BY <1>1, <1>2, <1>3, TypeCorrect, PTL DEF Spec

-----------------------------------------------------------------------------
\* What a committed sync has announced.

\* A condition that is on after a transition has an open alert, whether or not
\* its end would be announced.
LEMMA TransitionOpens ==
    ASSUME NEW r \in Rows, NEW was \in BOOLEAN, NEW is \in BOOLEAN, NEW tells \in BOOLEAN, is
    PROVE  HasOpenAlert(HandleTransition(was, is, r, tells))
<1>0. r.open \in 0..MaxOpen
  BY RowFields
<1>1. DispatchAlert(r).open > 0
  BY <1>0, Bounds DEF DispatchAlert
<1>2. HasOpenAlert(DispatchAlert(r))
  BY <1>1 DEF HasOpenAlert
<1>. QED  BY <1>2, Zenon DEF HandleTransition

\* The server's own rows: an unreachable host has its alert.
LEMMA OfflineIsOpen ==
    ASSUME TypeOK, NEW s \in Servers, NEW a \in Answer(s), NewServer(s, a).status = "Offline"
    PROVE  HasOpenAlert(NewServerLog(s, a)["Server Offline"])
<1>. DEFINE was == server[s].status = "Offline"
            is == NewServer(s, a).status = "Offline"
            r == serverLog[s]["Server Offline"]
<1>1. r \in Rows
  BY DEF TypeOK, ServerAlerts
<1>2. NewServerLog(s, a)["Server Offline"] = HandleTransition(was, is, r, TRUE)
  BY DEF NewServerLog, ServerAlerts
<1>3. was \in BOOLEAN /\ is \in BOOLEAN /\ is
  OBVIOUS
<1>. HIDE DEF was, is, r
<1>. QED  BY <1>1, <1>2, <1>3, TransitionOpens

\* The rows of an item of a PVE host that answered everything.
LEMMA FlagsAreOpen ==
    ASSUME TypeOK, NEW s \in Servers, s \notin Pbs, NEW a \in Answer(s),
           NEW done \in SUBSET ItemsOf(s), NEW i \in done
    PROVE  /\ NewItem(s, a, done, i).critical =>
                HasOpenAlert(NewItemLog(s, a, done, i)["Critical Resource"])
           /\ NewItem(s, a, done, i).warning =>
                HasOpenAlert(NewItemLog(s, a, done, i)["Resource Warning"])
<1>1. i \in Items /\ i \in ItemsOf(s)
  BY DEF ItemsOf
<1>2. CASE a.items[i] = "gone"
  <2>1. NewItem(s, a, done, i) = NoItem
    BY <1>2 DEF NewItem
  <2>2. ~NoItem.critical /\ ~NoItem.warning
    BY DEF NoItem
  <2>. QED  BY <2>1, <2>2
<1>3. CASE a.items[i] # "gone"
  <2>. DEFINE new == Upserted(i, a.items[i])
              c == itemLog[i]["Critical Resource"]
              w == itemLog[i]["Resource Warning"]
  <2>1. a.items[i] \in Levels
    BY <1>1, <1>3, AnswerFields
  <2>2. new \in ItemDoc /\ item[i] \in ItemDoc
    BY <1>1, <2>1, UpsertedType DEF TypeOK
  <2>3. c \in Rows /\ w \in Rows
    <3>1. itemLog[i] \in [ItemAlerts -> Rows]
      BY <1>1 DEF TypeOK
    <3>2. "Critical Resource" \in ItemAlerts /\ "Resource Warning" \in ItemAlerts
      BY DEF ItemAlerts
    <3>. QED  BY <3>1, <3>2
  <2>4. /\ item[i].critical \in BOOLEAN /\ item[i].warning \in BOOLEAN
        /\ new.critical \in BOOLEAN /\ new.warning \in BOOLEAN
    BY <2>2 DEF ItemDoc
  <2>5. NewItem(s, a, done, i) = new
    BY <1>3 DEF NewItem
  <2>6. /\ NewItemLog(s, a, done, i)["Critical Resource"] =
             HandleTransition(item[i].critical, new.critical, c, TRUE)
        /\ NewItemLog(s, a, done, i)["Resource Warning"] =
             HandleTransition(item[i].warning, new.warning, w, FALSE)
    BY <1>3 DEF NewItemLog, ItemAlerts
  <2>. HIDE DEF new, c, w
  <2>7. new.critical => HasOpenAlert(HandleTransition(item[i].critical, new.critical, c, TRUE))
    BY <2>3, <2>4, TransitionOpens
  <2>8. new.warning => HasOpenAlert(HandleTransition(item[i].warning, new.warning, w, FALSE))
    BY <2>3, <2>4, TransitionOpens
  <2>. QED  BY <2>5, <2>6, <2>7, <2>8
<1>. QED  BY <1>2, <1>3

\* A committed sync leaves its server's problems announced.
LEMMA SyncAnnounces ==
    ASSUME TypeOK, NEW s \in Servers, NEW off, SyncCommitted(s, off)
    PROVE  SyncAnnouncesProblems'
<1>1. PICK a \in Answer(s), done \in SUBSET ItemsOf(s) :
        /\ Stored(s, a, done)
        /\ server' = [server EXCEPT ![s] = NewServer(s, a)]
        /\ serverLog' = [ResolvedServerLog(off) EXCEPT ![s] = NewServerLog(s, a)]
        /\ item' = [i \in Items |-> IF HostOf[i] = s THEN NewItem(s, a, done, i) ELSE item[i]]
        /\ itemLog' = [i \in Items |-> IF HostOf[i] = s THEN NewItemLog(s, a, done, i)
                                       ELSE ResolvedItemLog(off)[i]]
        /\ synced' = s
  BY DEF SyncCommitted
<1>2. server'[s] = NewServer(s, a)
  BY <1>1 DEF TypeOK
<1>3. serverLog'[s] = NewServerLog(s, a)
  BY <1>1 DEF ResolvedServerLog
<1>4. ASSUME server'[s].status = "Offline" PROVE HasOpenAlert(serverLog'[s]["Server Offline"])
  BY <1>2, <1>3, <1>4, OfflineIsOpen
<1>5. ASSUME s \notin Pbs, server'[s].status # "Offline", NEW i \in ItemsOf(s)
      PROVE  /\ item'[i].critical => HasOpenAlert(itemLog'[i]["Critical Resource"])
             /\ item'[i].warning => HasOpenAlert(itemLog'[i]["Resource Warning"])
  <2>1. a.reached = "all"
    BY <1>2, <1>5 DEF NewServer
  <2>2. i \in done
    BY <1>1, <1>5, <2>1 DEF Stored
  <2>3. i \in Items /\ HostOf[i] = s
    BY DEF ItemsOf
  <2>4. item'[i] = NewItem(s, a, done, i) /\ itemLog'[i] = NewItemLog(s, a, done, i)
    BY <1>1, <2>3
  <2>. QED  BY <1>5, <2>2, <2>4, FlagsAreOpen
<1>6. ItemsOf(s)' = ItemsOf(s)
  BY DEF ItemsOf
<1>. QED  BY <1>1, <1>4, <1>5, <1>6 DEF SyncAnnouncesProblems

\* No complete sync leaves a flagged guest or pool without an open alert and no
\* failed one an unreachable host, in any fleet and however the rows were
\* resolved or rolled back before it (_handle_transition, has_open_alert,
\* _resolve_disabled_server_alerts).
THEOREM SyncsAnnounceProblems == Spec => []SyncAnnouncesProblems
<1>1. Init => SyncAnnouncesProblems
  BY ProxmoxAssumption DEF Init, SyncAnnouncesProblems
<1>2. TypeOK /\ SyncAnnouncesProblems /\ [Next]_vars => SyncAnnouncesProblems'
  <2>. SUFFICES ASSUME TypeOK, SyncAnnouncesProblems, [Next]_vars PROVE SyncAnnouncesProblems'
    OBVIOUS
  <2>1. ASSUME NEW s \in Servers, FirstSync(s) \/ LaterSync(s) \/ SyncNow(s)
        PROVE  SyncAnnouncesProblems'
    BY <2>1, SyncAnnounces DEF FirstSync, LaterSync, SyncNow
  <2>2. ASSUME synced' = NoServer PROVE SyncAnnouncesProblems'
    BY <2>2, ProxmoxAssumption DEF SyncAnnouncesProblems
  <2>3. ASSUME NEW s \in Servers, FirstSyncRolledBack(s) \/ LaterSyncRolledBack(s) \/ ToggleEnabled(s)
        PROVE  SyncAnnouncesProblems'
    BY <2>2, <2>3 DEF FirstSyncRolledBack, LaterSyncRolledBack, ToggleEnabled
  <2>4. CASE NothingEnabled
    BY <2>2, <2>4 DEF NothingEnabled
  <2>5. CASE UNCHANGED vars
    BY <2>5 DEF vars, SyncAnnouncesProblems, ItemsOf
  <2>. QED  BY <2>1, <2>3, <2>4, <2>5 DEF Next
<1>. QED  BY <1>1, <1>2, TypeCorrect, PTL DEF Spec
=============================================================================
