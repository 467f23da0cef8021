---------------------------- MODULE ProxmoxSync ----------------------------
(***************************************************************************)
(* One poll cycle after another over the enabled Proxmox servers           *)
(* (tasks/poller.py): sync_all_servers, sync_server, the upserts of guests *)
(* and storage and the host-wide backup check, with every alert they raise *)
(* and resolve.  A server's sync is one database transaction, so it is one *)
(* action; what can happen inside it (the API failing at any stage, an     *)
(* exception that rolls everything back) is a choice of that action.       *)
(***************************************************************************)
EXTENDS AlertLog, Sequences

CONSTANTS
    Servers,     \* Proxmox Server documents
    Pbs,         \* those of server_type "PBS"
    Guests,      \* VM/CT slots (server, vmid)
    Stores,      \* storage pools and datastores
    HostOf,      \* the server each guest or store belongs to
    HostLevels,  \* the host readings the API may report
    NoServer     \* no sync has just been committed

Items == Guests \cup Stores

ASSUME ProxmoxAssumption ==
    /\ Pbs \subseteq Servers /\ NoServer \notin Servers
    /\ Guests \cap Stores = {}
    /\ HostOf \in [Items -> Servers]
    /\ HostLevels \subseteq Levels

ItemsOf(s) == {i \in Items : HostOf[i] = s}
GuestsOf(s) == {i \in Guests : HostOf[i] = s}

ServerAlerts == {"Critical Resource", "Resource Warning", "Server Offline", "Backup Failure"}
ItemAlerts == {"Critical Resource", "Resource Warning", "Backup Overdue"}

VARIABLES
    enabled,    \* Proxmox Server.enabled
    server,     \* the monitoring fields of each Proxmox Server
    item,       \* Proxmox Guest and Proxmox Datastore documents
    serverLog,  \* Alert Log rows about a server
    itemLog,    \* Alert Log rows about a guest or store
    todo,       \* server_names still to be synced in the current cycle
    synced,     \* history: the server whose sync the last step committed
    seen        \* history: each item's latest readings, newest last

vars == <<enabled, server, item, serverLog, itemLog, todo, synced, seen>>

ServerDoc == [status: {"Online", "Warning", "Critical", "Offline"}, level: Levels,
              streak: Streaks, critical: BOOLEAN, backupCritical: BOOLEAN]
ItemDoc == [exists: BOOLEAN, streak: Streaks, critical: BOOLEAN, warning: BOOLEAN]

NoItem == [exists |-> FALSE, streak |-> NoStreak, critical |-> FALSE, warning |-> FALSE]

\* The type invariant.
TypeOK ==
    /\ enabled \in [Servers -> BOOLEAN]
    /\ server \in [Servers -> ServerDoc]
    /\ item \in [Items -> ItemDoc]
    /\ serverLog \in [Servers -> [ServerAlerts -> Rows]]
    /\ itemLog \in [Items -> [ItemAlerts -> Rows]]
    /\ todo \in SUBSET Servers
    /\ synced \in Servers \cup {NoServer}
    /\ seen \in [Items -> Seq(Levels)]

\* A server is created enabled, "Offline" and with no reading.
Init ==
    /\ enabled = [s \in Servers |-> TRUE]
    /\ server = [s \in Servers |->
                   [status |-> "Offline", level |-> "low", streak |-> NoStreak,
                    critical |-> FALSE, backupCritical |-> FALSE]]
    /\ item = [i \in Items |-> NoItem]
    /\ serverLog = [s \in Servers |-> [t \in ServerAlerts |-> NoRows]]
    /\ itemLog = [i \in Items |-> [t \in ItemAlerts |-> NoRows]]
    /\ todo = {}
    /\ synced = NoServer
    /\ seen = [i \in Items |-> <<>>]

-----------------------------------------------------------------------------
\* What one sync of server s computes.  An API answer is a record
\*   reached  the last stage that was completed before a ProxmoxAPIError
\*            ("down": none; "all": there was no error),
\*   level    the host's own reading,
\*   items    each item's reading, or "gone" when it is no longer reported,
\*   fresh    some backup task succeeded within BACKUP_OVERDUE_HOURS,
\*   due      how _check_guest_backups judges each guest: "exempt" ones are
\*            stopped, tagged or too young, "off" is backup_overdue_hours = 0.
\* The last two are only looked at when the sync gets that far.

Stages(s) == IF s \in Pbs THEN {"down", "host", "all"}
             ELSE {"down", "host", "guests", "stores", "all"}

Unchecked(s) == [g \in GuestsOf(s) |-> "off"]

Answer(s) ==
    {a \in [reached: Stages(s), level: HostLevels,
            items: [ItemsOf(s) -> Levels \cup {"gone"}], fresh: BOOLEAN,
            due: [GuestsOf(s) -> {"overdue", "exempt", "recent"}] \cup {Unchecked(s)}] :
        a.reached # "all" => a.fresh /\ a.due = Unchecked(s)}

\* Which items the stages dealt with.  The stage that failed may have stored
\* any of the items it still found, but has not come to its clean-up; listing
\* the storage of a PVE host is a single call.
Stored(s, a, done) ==
    CASE a.reached = "down"   -> done = {}
      [] a.reached = "host"   -> done \subseteq {i \in ItemsOf(s) : a.items[i] # "gone"}
                                 /\ (s \notin Pbs => done \subseteq Guests)
      [] a.reached = "guests" -> done = GuestsOf(s)
      [] OTHER                -> done = ItemsOf(s)

\* _upsert_guest / _upsert_datastore.
Upserted(i, level) ==
    LET st == TrackSeverity(item[i].streak, level)
    IN  [exists |-> TRUE, streak |-> st, critical |-> IsCritical(st), warning |-> IsWarning(st)]

\* An item is deleted by the clean-up that ends its stage.  PBS datastores
\* have no clean-up: one that is not reported is left as it was.
NewItem(s, a, done, i) ==
    IF i \notin done THEN item[i]
    ELSE IF a.items[i] # "gone" THEN Upserted(i, a.items[i])
    ELSE IF s \in Pbs THEN item[i] ELSE NoItem

\* Mutant: says "backed up again" although nothing was open.
GuestBackupAlwaysRecovers(a, i, r) ==
    CASE a.due[i] = "overdue" /\ ~HasOpenAlert(r) -> DispatchAlert(r)
      [] a.due[i] = "exempt" /\ HasOpenAlert(r)   -> ResolveAlert(r)
      [] a.due[i] = "recent"                      -> DispatchRecovery(ResolveAlert(r))
      [] OTHER -> r

\* _check_guest_backups, which looks at the open rows instead of a flag.
GuestBackupRows(a, i, r) ==
    CASE a.due[i] = "overdue" /\ ~HasOpenAlert(r) -> DispatchAlert(r)
      [] a.due[i] = "exempt" /\ HasOpenAlert(r)   -> ResolveAlert(r)
      [] a.due[i] = "recent" /\ HasOpenAlert(r)   -> DispatchRecovery(ResolveAlert(r))
      [] OTHER -> r

\* The rows of an item after the sync.  Deleting the item leaves them alone.
NewItemLog(s, a, done, i) ==
    IF i \notin done \/ a.items[i] = "gone" THEN itemLog[i]
    ELSE LET new == Upserted(i, a.items[i])
         IN  [t \in ItemAlerts |->
                CASE t = "Critical Resource" ->
                       HandleTransition(item[i].critical, new.critical, itemLog[i][t], TRUE)
                  [] t = "Resource Warning" ->
                       HandleTransition(item[i].warning, new.warning, itemLog[i][t], FALSE)
                  [] t = "Backup Overdue" ->
                       IF i \in Guests /\ a.reached = "all"
                       THEN GuestBackupRows(a, i, itemLog[i][t]) ELSE itemLog[i][t]]

\* _apply_host_status, then the except and finally clauses of sync_server.
HostStreak(s, a) ==
    IF a.reached = "down" THEN server[s].streak ELSE TrackSeverity(server[s].streak, a.level)

\* What the finally clause captures as new_resource_critical.
ResourceCritical(s, a) ==
    IF a.reached = "down" THEN server[s].critical ELSE IsCritical(HostStreak(s, a))

\* _handle_backup_task_result: only reached on a PVE host that answered everything.
BackupCritical(s, a) ==
    IF a.reached = "all" /\ s \notin Pbs THEN ~a.fresh ELSE server[s].backupCritical

NewServer(s, a) ==
    [status |-> IF a.reached # "all" THEN "Offline"
                ELSE IF IsCritical(HostStreak(s, a)) THEN "Critical"
                ELSE IF IsWarning(HostStreak(s, a)) THEN "Warning" ELSE "Online",
     level |-> IF a.reached = "down" THEN server[s].level ELSE a.level,
     streak |-> HostStreak(s, a),
     critical |-> ResourceCritical(s, a) \/ (s \notin Pbs /\ BackupCritical(s, a)),
     backupCritical |-> BackupCritical(s, a)]

\* Mutant: alerts in every cycle that finds the backups overdue.
BackupRowsEveryCycle(s, new, r) ==
    IF new.backupCritical THEN DispatchAlert(r)
    ELSE IF server[s].backupCritical THEN DispatchRecovery(ResolveAlert(r))
    ELSE r

\* _handle_backup_task_result's own edge trigger, without self-healing.
BackupRows(s, new, r) ==
    IF new.backupCritical /\ ~server[s].backupCritical THEN DispatchAlert(r)
    ELSE IF server[s].backupCritical /\ ~new.backupCritical
         THEN DispatchRecovery(ResolveAlert(r))
    ELSE r

\* The three transitions at the end of sync_server and the backup check's.
NewServerLog(s, a) ==
    LET old == server[s]
        new == NewServer(s, a)
    IN  [t \in ServerAlerts |->
           CASE t = "Critical Resource" ->
                  HandleTransition(old.level = "crit", ResourceCritical(s, a), serverLog[s][t], TRUE)
             [] t = "Resource Warning" ->
                  HandleTransition(old.status = "Warning", new.status = "Warning", serverLog[s][t], FALSE)
             [] t = "Server Offline" ->
                  HandleTransition(old.status = "Offline", new.status = "Offline", serverLog[s][t], TRUE)
             [] t = "Backup Failure" -> BackupRows(s, new, serverLog[s][t])]

\* Mutant: only the Server Offline alert of a disabled server is closed.
ResolvedOfflineOnly(off) ==
    [s \in Servers |-> IF s \in off
                       THEN [serverLog[s] EXCEPT !["Server Offline"] = ResolveAlert(@)]
                       ELSE serverLog[s]]

\* _resolve_disabled_server_alerts: every open alert of a server in "off" and
\* of the guests and stores it still has is resolved.
ResolvedServerLog(off) ==
    [s \in Servers |-> IF s \in off
                       THEN [t \in ServerAlerts |-> ResolveAlert(serverLog[s][t])]
                       ELSE serverLog[s]]
ResolvedItemLog(off) ==
    [i \in Items |-> IF HostOf[i] \in off /\ item[i].exists
                     THEN [t \in ItemAlerts |-> ResolveAlert(itemLog[i][t])]
                     ELSE itemLog[i]]

Remember(s, a, done) ==
    [i \in Items |->
        IF i \notin done \/ (a.items[i] = "gone" /\ s \in Pbs) THEN seen[i]
        ELSE IF a.items[i] = "gone" THEN <<>>
        ELSE LET h == Append(seen[i], a.items[i])
             IN  IF Len(h) > Checks THEN Tail(h) ELSE h]

\* sync_server(s) and the commit after it, in a transaction that has already
\* resolved the alerts of the servers in "off".
SyncCommitted(s, off) ==
    \E a \in Answer(s) : \E done \in SUBSET ItemsOf(s) :
        /\ Stored(s, a, done)
        /\ server' = [server EXCEPT ![s] = NewServer(s, a)]
        /\ serverLog' = [ResolvedServerLog(off) EXCEPT ![s] = NewServerLog(s, a)]
        /\ item' = [i \in Items |-> IF HostOf[i] = s THEN NewItem(s, a, done, i) ELSE item[i]]
        /\ itemLog' = [i \in Items |-> IF HostOf[i] = s THEN NewItemLog(s, a, done, i)
                                       ELSE ResolvedItemLog(off)[i]]
        /\ seen' = Remember(s, a, done)
        /\ synced' = s

Disabled == {s \in Servers : ~enabled[s]}

-----------------------------------------------------------------------------
\* Actions.

\* The first server of a cycle shares its transaction with
\* _resolve_disabled_server_alerts; the list of servers is read once.
FirstSync(s) ==
    /\ todo = {} /\ enabled[s]
    /\ SyncCommitted(s, Disabled)
    /\ todo' = (Servers \ Disabled) \ {s}
    /\ UNCHANGED enabled

\* The exception handler of sync_all_servers: rolling back the first server
\* also takes back the resolution of the disabled servers' alerts.
FirstSyncRolledBack(s) ==
    /\ todo = {} /\ enabled[s]
    /\ todo' = (Servers \ Disabled) \ {s}
    /\ synced' = NoServer
    /\ UNCHANGED <<enabled, server, item, serverLog, itemLog, seen>>

\* A later server of the cycle, which may have been disabled since.
LaterSync(s) ==
    /\ s \in todo
    /\ SyncCommitted(s, {})
    /\ todo' = todo \ {s}
    /\ UNCHANGED enabled

LaterSyncRolledBack(s) ==
    /\ s \in todo
    /\ todo' = todo \ {s}
    /\ synced' = NoServer
    /\ UNCHANGED <<enabled, server, item, serverLog, itemLog, seen>>

\* A cycle with no enabled server commits nothing by itself; what it resolved
\* is committed when the job ends.
NothingEnabled ==
    /\ todo = {} /\ Disabled = Servers
    /\ serverLog' = ResolvedServerLog(Servers)
    /\ itemLog' = ResolvedItemLog(Servers)
    /\ synced' = NoServer
    /\ UNCHANGED <<enabled, server, item, todo, seen>>

\* The "Test Connection & Sync Now" button, on any server, in its own request.
SyncNow(s) ==
    /\ SyncCommitted(s, {})
    /\ UNCHANGED <<enabled, todo>>

\* An administrator enables or disables a server.
ToggleEnabled(s) ==
    /\ enabled' = [enabled EXCEPT ![s] = ~@]
    /\ synced' = NoServer
    /\ UNCHANGED <<server, item, serverLog, itemLog, todo, seen>>

Next ==
    \/ \E s \in Servers : \/ FirstSync(s) \/ FirstSyncRolledBack(s)
                          \/ LaterSync(s) \/ LaterSyncRolledBack(s)
                          \/ SyncNow(s) \/ ToggleEnabled(s)
    \/ NothingEnabled

Spec == Init /\ [][Next]_vars

\* The loop goes on cycling, and the first sync of a cycle does not roll back
\* for ever.
Fairness ==
    /\ SF_vars(NothingEnabled \/ \E s \in Servers : FirstSync(s))
    /\ WF_vars(\E s \in Servers : LaterSync(s) \/ LaterSyncRolledBack(s))

FairSpec == Spec /\ Fairness

-----------------------------------------------------------------------------
\* Properties.

AllSeen(i, S) == Len(seen[i]) = Checks /\ \A n \in 1..Checks : seen[i][n] \in S

\* A guest or store is flagged exactly when its last Checks readings, failed
\* and rolled-back polls not counted, all stayed at or above the line
\* (_track_severity through _upsert_guest and _upsert_datastore).
FlaggedWhenConfirmed ==
    \A i \in Items : item[i].exists =>
        /\ item[i].critical <=> AllSeen(i, {"crit"})
        /\ item[i].warning <=> AllSeen(i, {"warn", "crit"}) /\ ~AllSeen(i, {"crit"})

\* No complete sync leaves a flagged guest or pool without an open alert, and
\* no failed one an unreachable host, although disabling a server silently resolves them all
\* (_handle_transition's self-healing, has_open_alert).
SyncAnnouncesProblems ==
    \A s \in Servers : synced = s =>
        /\ server[s].status = "Offline" => HasOpenAlert(serverLog[s]["Server Offline"])
        /\ s \notin Pbs /\ server[s].status # "Offline" => \A i \in ItemsOf(s) :
              /\ item[i].critical => HasOpenAlert(itemLog[i]["Critical Resource"])
              /\ item[i].warning => HasOpenAlert(itemLog[i]["Resource Warning"])

\* A recovery of a guest, a store or a host's backups is only ever announced
\* after an alert, across disabling, deletion and rolled-back syncs
\* (dispatch_recovery: "once a previously critical condition has cleared").
RecoveriesArePaired ==
    /\ \A i \in Items : \A t \in ItemAlerts : itemLog[i][t].told # "false recovery"
    /\ \A s \in Servers : serverLog[s]["Backup Failure"].told # "false recovery"

\* An open Server Offline or Backup Failure row always has its condition
\* behind it, and there is never more than one (sync_server,
\* _handle_backup_task_result).
HostIncidentsAreCurrent ==
    \A s \in Servers :
        LET offline == serverLog[s]["Server Offline"].open
            backup == serverLog[s]["Backup Failure"].open
        IN  /\ offline <= 1 /\ (offline = 1 => server[s].status = "Offline")
            /\ backup <= 1 /\ (backup = 1 => server[s].backupCritical)

NothingOpen(s) ==
    /\ \A t \in ServerAlerts : ~HasOpenAlert(serverLog[s][t])
    /\ \A i \in ItemsOf(s) : item[i].exists =>
          \A t \in ItemAlerts : ~HasOpenAlert(itemLog[i][t])

\* The alerts of a server that stays disabled are closed again and again, even
\* if it was in the middle of a cycle or is synced by hand
\* (_resolve_disabled_server_alerts).
DisabledAlertsClose ==
    \A s \in Servers : <>[](~enabled[s]) => []<>NothingOpen(s)

\* The strengthening that makes the safety properties inductive: a flag that
\* can end in a recovery has been announced.
FlagsAreAnnounced ==
    /\ \A i \in Items :
          /\ item[i].critical => itemLog[i]["Critical Resource"].told = "problem"
          /\ HasOpenAlert(itemLog[i]["Backup Overdue"]) => itemLog[i]["Backup Overdue"].told = "problem"
    /\ \A s \in Servers :
          server[s].backupCritical => serverLog[s]["Backup Failure"].told = "problem"

IInv == TypeOK /\ FlagsAreAnnounced /\ RecoveriesArePaired /\ HostIncidentsAreCurrent

\* What poller.py's docstrings promise of a host's own resource alert and
\* sync_server does not deliver: a recovery only after an alert ...
HostRecoveriesArePaired ==
    \A s \in Servers : serverLog[s]["Critical Resource"].told # "false recovery"

\* ... and one row per incident.
OneRowPerResourceIncident ==
    \A s \in Servers : serverLog[s]["Critical Resource"].open <= 1
=============================================================================
