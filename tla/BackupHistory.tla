---------------------------- MODULE BackupHistory ----------------------------
(***************************************************************************)
(* The backup history of one PVE host (tasks/poller.py): vzdump tasks of   *)
(* one guest or of many, whose results are read from the task list or from *)
(* the text of a log, and the snapshots of a Backup Server that fill gaps. *)
(***************************************************************************)
EXTENDS Integers, Sequences, Functions, FiniteSetsExt

CONSTANTS
    Vmids,       \* the ids of the host's guests
    Shared,      \* the ones that some other host of the fleet uses too
    Zones,       \* offsets a host's local time may have from the epoch's
    TaskLimit,   \* tasks asked for in one sync (200)
    MaxTasks,    \* bound on vzdump tasks
    MaxClock     \* bound on the clock

ASSUME BackupAssumption ==
    /\ Vmids \subseteq Nat \ {0}
    /\ Zones \subseteq Int
    /\ TaskLimit \in Nat

VARIABLES
    zone,        \* the time zone of the host
    now,         \* the clock
    tasks,       \* the host's vzdump tasks, oldest first: of one guest or Bulk, the
                 \* log, when the first guest's backup began (0: not yet), and for
                 \* each guest done, how, when, and the time of the snapshot it
                 \* left on a Backup Server (0: none)
    known,       \* guests with a Proxmox Guest document
    last,        \* [Vmids -> last_successful_backup, 0 if empty]
    history,     \* the Proxmox Backup Log rows
    read         \* observer: ended tasks a sync has listed and could read

backupVars == <<zone, now, tasks, known, last, history, read>>

\* A task of many guests; no vmid is 0.
Bulk == 0

-----------------------------------------------------------------------------
\* The text of a bulk job's log, times in the host's own zone.

Line(kind, v, t) == [kind |-> kind, vmid |-> v, at |-> t]

\* The lines that the host writes about one guest.
Section(v, began, result, ended) ==
    <<Line("start", v, 0), Line("began", v, began + zone)>>
    \o CASE result = "ok"     -> <<Line("finished", v, 0), Line("at", v, ended + zone)>>
         [] result = "failed" -> <<Line("failed", v, 0)>>
         [] result = "cut"    -> <<>>

\* _detect_log_timezone_offset
LogTimezoneOffset(lines, task) ==
    LET begun == {n \in DOMAIN lines : lines[n].kind = "began"}
    IN IF begun = {} THEN 0 ELSE lines[Min(begun)].at - task.start

\* Mutant: the log's times are taken as they are printed.
PrintedTime(lines, n, fallback, offset) ==
    IF n < Len(lines) /\ lines[n + 1].kind = "at" THEN lines[n + 1].at ELSE fallback

\* The line after "Finished Backup of VM" says when.
FinishedAt(lines, n, fallback, offset) ==
    IF n < Len(lines) /\ lines[n + 1].kind = "at" THEN lines[n + 1].at - offset ELSE fallback

\* Lines that close the section of their guest, if it is the one that is open.
Closes(line) == line.kind \in {"failed", "finished"}

\* current_vmid at line n is the guest of line m: no later section has begun,
\* and its own has not been closed.
OpenAt(lines, m, n) ==
    /\ lines[m].kind = "start"
    /\ \A k \in (m + 1)..(n - 1) :
          /\ lines[k].kind # "start"
          /\ ~(Closes(lines[k]) /\ lines[k].vmid = lines[m].vmid)

\* The lines at which a result is found.
ResultLines(lines) ==
    {n \in DOMAIN lines : Closes(lines[n]) /\ \E m \in 1..(n - 1) :
        lines[m].vmid = lines[n].vmid /\ OpenAt(lines, m, n)}

\* _parse_bulk_backup_log
ParseBulkBackupLog(lines, fallback, offset) ==
    {[vmid |-> lines[n].vmid, ok |-> lines[n].kind = "finished",
      at |-> IF lines[n].kind = "finished" THEN FinishedAt(lines, n, fallback, offset) ELSE fallback] :
     n \in ResultLines(lines)}

-----------------------------------------------------------------------------
\* _sync_pve_backups

\* nth: one more than the rows that have the upid already.  guest: the document
\* it is linked to, "gone" once that has been deleted (the link stays).
BackupRow(upid, e, guest) ==
    [upid |-> upid, nth |-> 1 + Cardinality({x \in history : x.upid = upid}),
     vmid |-> e.vmid, guest |-> guest, ok |-> e.ok, at |-> e.at]

\* _match_guest_by_vmid
MatchGuest(v) == IF v \in known THEN "here" ELSE "none"

Exists(upid) == \E x \in history : x.upid = upid

RecordSingle(i) ==
    LET r == tasks[i].done[1] IN
    IF Exists(<<"task", i>>) THEN {}
    ELSE {BackupRow(<<"task", i>>, [vmid |-> r.vmid, ok |-> r.result = "ok", at |-> tasks[i].end], MatchGuest(r.vmid))}

\* entries of _record_bulk_backup_job.
Results(task) == ParseBulkBackupLog(task.log, task.end, LogTimezoneOffset(task.log, task))

\* Mutant: a job counts as recorded when any guest of it has a row.
RecordBulkOnce(i, unreadable) ==
    IF (\E x \in history, r \in Range(tasks[i].done) : x.vmid = r.vmid) THEN {}
    ELSE {BackupRow(<<"task", i, e.vmid>>, e, MatchGuest(e.vmid)) : e \in Results(tasks[i])}

\* Any row of the job is proof that its whole log was parsed; a log that
\* cannot be read is tried again in the next cycle.
RecordBulk(i, unreadable) ==
    IF (\E v \in Vmids : Exists(<<"task", i, v>>)) \/ i \in unreadable THEN {}
    ELSE {BackupRow(<<"task", i, e.vmid>>, e, MatchGuest(e.vmid)) : e \in Results(tasks[i])}

\* list_vzdump_tasks: the newest TaskLimit tasks.
ListedTasks == {i \in DOMAIN tasks : i > Len(tasks) - TaskLimit}

Ended == {i \in ListedTasks : tasks[i].end > 0}

\* _create_backup_log and _bump_last_successful_backup: only ever forward.
InsertRows(new) ==
    /\ history' = history \cup new
    /\ last' = [v \in Vmids |->
         Max({last[v]} \cup {e.at : e \in {x \in new : x.ok /\ x.vmid = v /\ x.guest = "here"}})]

SyncBackups(unreadable) ==
    /\ InsertRows(UNION {IF tasks[i].of = Bulk THEN RecordBulk(i, unreadable) ELSE RecordSingle(i) : i \in Ended})
    /\ read' = read \cup (Ended \ unreadable)
    /\ UNCHANGED <<zone, now, tasks, known>>

-----------------------------------------------------------------------------
\* _backfill_pbs_snapshots: the latest snapshot of each vmid, linked when one
\* guest of the whole fleet has that vmid.

Snapshots(v) == {r.snap : r \in {x \in UNION {Range(tasks[i].done) : i \in DOMAIN tasks} : x.vmid = v}} \ {0}

UnambiguousGuest(v) ==
    CASE v \in known /\ v \notin Shared -> "here"
      [] v \in Shared /\ v \notin known -> "there"
      [] OTHER -> "none"

BackfillSnapshots(v) ==
    /\ Snapshots(v) # {}
    /\ LET latest == Max(Snapshots(v)) IN
       /\ ~Exists(<<"pbs", v, latest>>)
       /\ InsertRows({BackupRow(<<"pbs", v, latest>>, [vmid |-> v, ok |-> TRUE, at |-> latest], UnambiguousGuest(v))})
    /\ UNCHANGED <<zone, now, tasks, known, read>>

-----------------------------------------------------------------------------
\* The Proxmox host.

StartTask(of) ==
    /\ Len(tasks) < MaxTasks /\ now < MaxClock
    /\ now' = now + 1
    /\ tasks' = Append(tasks, [of |-> of, start |-> now', began |-> 0, end |-> 0, done |-> <<>>, log |-> <<>>])
    /\ UNCHANGED <<zone, known, last, history, read>>

\* The guests of a task are backed up one after the other.  The first one
\* begins when vzdump is ready, which can be long after the task was started:
\* it waits for its lock while another task is at work.
BeganAt(task) == IF task.done = <<>> THEN task.start..now ELSE {task.done[Len(task.done)].at}

\* A guest's backup ends, and with it the task of a single guest or one that
\* is cut short.
GuestDone(i, v, began, result, remote) ==
    /\ tasks[i].end = 0 /\ now < MaxClock
    /\ tasks[i].of \in {Bulk, v} /\ began \in BeganAt(tasks[i])
    /\ \A r \in Range(tasks[i].done) : r.vmid # v
    /\ now' = now + 1
    /\ tasks' = [tasks EXCEPT
         ![i].log = @ \o Section(v, began, result, now'),
         ![i].began = IF tasks[i].done = <<>> THEN began ELSE @,
         ![i].done = Append(@, [vmid |-> v, result |-> result, at |-> now', snap |-> IF remote THEN now ELSE 0]),
         ![i].end = IF tasks[i].of = v \/ result = "cut" THEN now' ELSE 0]
    /\ UNCHANGED <<zone, known, last, history, read>>

EndBulk(i) ==
    /\ tasks[i].of = Bulk /\ tasks[i].end = 0 /\ tasks[i].done # <<>>
    /\ tasks' = [tasks EXCEPT ![i].end = now]
    /\ UNCHANGED <<zone, now, known, last, history, read>>

\* _sync_guests finds a new guest, or one is gone.
CreateGuest(v) ==
    /\ v \notin known
    /\ known' = known \cup {v}
    /\ last' = [last EXCEPT ![v] = 0]
    /\ UNCHANGED <<zone, now, tasks, history, read>>

DeleteGuest(v) ==
    /\ v \in known
    /\ known' = known \ {v}
    /\ last' = [last EXCEPT ![v] = 0]
    /\ history' = {IF x.vmid = v /\ x.guest = "here" THEN [x EXCEPT !.guest = "gone"] ELSE x : x \in history}
    /\ UNCHANGED <<zone, now, tasks, read>>

BackupInit ==
    /\ zone \in Zones
    /\ now = 0 /\ tasks = <<>> /\ known = {}
    /\ last = [v \in Vmids |-> 0]
    /\ history = {}
    /\ read = {}

BackupNext ==
    \/ \E unreadable \in SUBSET Ended : SyncBackups(unreadable)
    \/ \E of \in Vmids \cup {Bulk} : StartTask(of)
    \/ \E i \in DOMAIN tasks, v \in Vmids : \E began \in BeganAt(tasks[i]), result \in {"ok", "failed", "cut"} :
          \E remote \in {FALSE, result = "ok"} : GuestDone(i, v, began, result, remote)
    \/ \E i \in DOMAIN tasks : EndBulk(i)
    \/ \E v \in Vmids : CreateGuest(v) \/ DeleteGuest(v) \/ BackfillSnapshots(v)

BackupSpec == BackupInit /\ [][BackupNext]_backupVars

-----------------------------------------------------------------------------
\* How long a job waited before its first guest.
Waited(task) == IF task.of = Bulk THEN task.began - task.start ELSE 0

\* The Backups tab tells the truth as far as the log lets it: a row says what
\* became of that guest in that task, at the time it did, whatever zone the
\* host prints its times in; only, what a bulk job waited before its first guest
\* is taken for part of the zone, and all its times are that much early.  No
\* result is recorded twice; and last_successful_backup is the newest success
\* recorded for the guest since its document exists, in whatever order tasks
\* and snapshots are recorded.
HistoryIsExact ==
    /\ \A x \in history : x.upid[1] = "task" =>
          \E r \in Range(tasks[x.upid[2]].done) :
             /\ r.vmid = x.vmid
             /\ x.ok = (r.result = "ok")
             /\ x.ok => x.at = r.at - Waited(tasks[x.upid[2]])
    /\ \A x \in history : x.nth = 1
    /\ \A v \in known :
          last[v] = Max({0} \cup {x.at : x \in {y \in history : y.ok /\ y.vmid = v /\ y.guest = "here"}})

\* Once a sync has listed an ended task and could read its log, no result of
\* it is missing, whatever was recorded of its guests before: every guest of
\* a bulk job has its row, but for the one a cut log never got to the end of.
FinishedBackupsAreRecorded ==
    \A i \in read : \A r \in Range(tasks[i].done) : r.result # "cut" =>
       Exists(IF tasks[i].of = Bulk THEN <<"task", i, r.vmid>> ELSE <<"task", i>>)
=============================================================================
