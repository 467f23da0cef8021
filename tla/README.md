# AlfaEdge Pulse in TLA+

AlfaEdge Pulse is a Frappe app that watches a fleet: Proxmox VE and PBS servers
over their API, web sites through Uptime Kuma, and Linux hosts over SSH through
a Warpgate bastion. Background loops poll, write documents, and turn what they
see into alerts with a row in the Proxmox Alert Log, an e-mail and a recovery
message. What users rely on is the pairing of the two: a problem is announced
once, stays announced while it lasts, and is cleared when it is over. That
pairing is spread over several processes, transactions and flags, and it is
what this project models.

All source paths below are relative to `src/alfaedge_pulse/`.

## The system

| Part | State | Operations | Module |
|---|---|---|---|
| Poll loop life cycle (`tasks/jobs.py`, the loop functions of `tasks/poller.py`, `tasks/host_poller.py`, `tasks/uptime_kuma_poller.py`) | two RQ job ids per loop, heartbeat key, on/off switch | watchdog pass, stale-job deletion, bounded run, hand-off, stop on SIGTERM | `PollLoop` |
| Incident bookkeeping (`alerts/dispatch.py`, `_handle_transition` and `_track_severity` of `tasks/poller.py`) | unresolved rows per document and alert type, streaks | alert, resolve, recover, edge trigger, two-phase severity | `AlertLog` |
| Proxmox fleet sync (`tasks/poller.py`) | Proxmox Server, guest and storage documents | `sync_all_servers`, `sync_server`, upserts, host-wide and per-guest backups, resolving disabled servers | `ProxmoxSync` |
| Uptime monitoring (`tasks/uptime_kuma_poller.py`) | Uptime Site siblings, check log, maintenance windows | poll an instance, vote, reconcile | `UptimeConsensus` |
| Host reachability (`tasks/host_poller.py`, `tasks/host_health_watchdog.py`, part of `host_health/ingest.py`) | Monitored Host documents, Warpgate streak and flag | parallel poll cycle, heartbeat check | `HostHealth` |
| Host report ingest (`host_health/ingest.py`) | services, bench, jobs, load, swap and mounts of a host, with flags and streaks | the rest of `process_status`, `process_resources` | `HostIngest` |
| Performance samples (`host_health/ingest.py`, the counters of `host_health/collector/collect.py`) | last stored sample per series, configuration snapshots | `_store_*_sample(s)`, snapshot | `MetricRates` |
| Alert batches and digests (`alerts/resource_batch.py`, `alerts/digest.py`) | batch marker, windows over rows | two-minute batch, three daily digests | `AlertDelivery` |
| Uptime Kuma fan-out (`uptime_monitor/api.py`) | one sibling document and one monitor per instance | add, delete, import, fill gaps | `UptimeFanout` |
| Maintenance calendar (`uptime_monitor/maintenance.py`) | maintenance windows | active now, ended before, next start | `MaintenanceCalendar` |
| Backup history (`tasks/poller.py`) | Proxmox Backup Log, `last_successful_backup` | record tasks, parse bulk logs, backfill from PBS | `BackupHistory` |
| Server deletion (`proxmox_fleet_monitor/server_deletion.py`) | archive with a status, records of the server | request, job, archive, delete | `ServerDeletion`, `ArchivedDeletion` |
| LLM usage sync (`tasks/bifrost_sync.py`) | checkpoint, usage rows | page through the gateway's log, look up stuck rows | `BifrostSync` |
| Log monitor (`tasks/log_monitor.py`, `log_monitor/api.py`) | recurring errors and their rows | `run_check`, ignore, resolve, rename | `LogMonitor` |
| Site discovery (`site_discovery/sync.py`) | Instance Site rows | daily merge of NPM, Cloudflare and agent | `SiteDiscovery` |

`PROJECT.json` lists the remaining parts (diagnosis, dashboard, read APIs, weekly
reports, resource history, installation) with the reason why each is left out.

How they interact. The scheduler starts a watchdog every minute; the watchdog
starts the loops; a loop runs poll cycles and hands over to its successor. The
cycles write documents and call the incident bookkeeping. The heartbeat check is
a second process that writes the same Monitored Host documents as the SSH loop.
"Sync Now" runs next to the Proxmox loop. Users enable, disable, pause, create
and delete underneath all of them. Other jobs run beside the loops: the batch and the
digests read the rows the loops wrote, by their time stamp; the deletion of a server
removes documents that the loops, the site discovery and users may be writing; the fan-out shares the poll loop of the
uptime monitor; the rest touch documents of their own. Frappe commits per job or where the code says
so, and mails that have been sent are not taken back by a rollback.

What is hard, and so what the properties are about: two job lookups that are not
atomic; jobs left behind by dead workers; decisions from readings that have been
overtaken; commits in the middle of a handler; alert rows and flags that are
changed by different code paths; exceptions that roll back part of a cycle; rows that
are visible later than their time stamp; answers of other systems that are lost after
they have acted; counters that restart; lists that are cut short.
`PROJECT.json` lists each hazard at its line, with the property that covers it or
the reason why none does.

## Modules

**PollLoop.** One loop, its two job ids (`_loop_job_ids`), the RQ workers and the
watchdog. `job` and `age` are what RQ reports; `worker` is what is really running;
they part company when a worker is killed (`WorkerKilled`) and the job stays
"started". The watchdog pass (`start_loop_if_needed`) is five actions because it
talks to Redis between them: `WatchdogBegins` reads the heartbeat, `ReadJob` and
`DeleteJob` are `clear_stale_job` for each id, `CheckJob` is the lookup of each id,
`StartLoop` the enqueue. `BeginCycle`, `EndCycle`, `HandOff`, `StopRequested` and
`ReturnDisabled` are the body of the loop functions; `switch` says where the loop
looks at its switch, which is the only difference between the three loops.
Time passes with `Tick`; ages are counters. `frappe.enqueue` with `deduplicate`
is external and taken as one step.

**AlertLog.** Operators only. The rows of a (document, alert type) pair are the
number of unresolved ones and what recipients were told last; a recovery that no
alert preceded is recorded as "false recovery". `HandleTransition` is the edge
trigger with self-healing, `TrackSeverity` the two streaks. The count of open rows
is capped by `MaxOpen`.

**ProxmoxSync.** The sync of a server is one transaction and one action; an
`Answer` says how far the API got and what it reported, so every stage at which a
sync can stop early is a choice of the action. The first sync of a cycle shares its
transaction with the resolution of disabled servers' alerts, hence `FirstSync` and
`LaterSync`, each with a variant that is rolled back. `SyncNow` is the button.
`seen` (history) keeps the last readings of an item and `synced` the server just
committed; both are only read by properties.

**UptimeConsensus.** One site name, its sibling documents and the instances.
`log` is what the running job sees and `saved` what is committed, since the
reconciliation commits `is_critical` before the row is written; `ReconcileCutOff`
is a worker killed there, `CycleDies` a rollback of the uncommitted row, also of
the previous cycle's. `checks` are the last `Window` rows outside maintenance and
`fresh` how many of them are newer than the last window's end. `disturbed`
(history) is set when an announcement was cut off or a sibling came or went during
an incident.

**HostHealth.** The poll cycle (`BeginCycle`, one result per host in any order,
`EndCycle`) next to the heartbeat check (`PassBegins` reads all hosts, `CheckHost`
decides about one of them from what was read). `last_seen` is "never", "fresh" or
"stale" and may go stale at any moment; no clock relates the length of a cycle to
`heartbeat_timeout_seconds`, so both orders are explored.

**HostIngest.** The other sections of a host's report. A row that raises is caught
without a rollback, so `outcome` says how far it got: stored and announced, flag
stored but the alert not reached, or nothing. A bench report is one row with three
alerts and two job lists (`ReportBench`, `BenchRaisesEarly`, `BenchRaisesLate`).
`Watch` is a flag with its streak, its rows and the readings that led to it. A mount
that is missing from a report that stored another one is pruned: its document goes, and
`left` remembers that its Alert Log row stays open (`ingest.py:783-789` deletes the
document and nothing else). Documents have random names, so the mount point starts from
nothing when it comes back. The four sections share nothing and a behaviour follows one (`carries`).

**MetricRates.** Counters of one kind of series: events happen (`Event`), the machine
or the server restarts (`Reset`), time passes, samples are stored. `total` is what
really happened and `reported` what stored rows say; the two meet in
`EventsNeverOvercounted`. Devices that are idle or crowded out of the top list leave
no sample, and the next difference spans the gap.

**AlertDelivery.** A row is stamped when it is inserted and becomes visible when its
transaction ends. `BatchStart` moves the marker, `BatchSend` reads; `LoseMarker` is a
flushed Redis. The window begins at the marker, however old it is, and the look-back
counts only without one. The digests are windows over the same rows.

**ServerDeletion** and **ArchivedDeletion.** The web request in three steps (check,
archive, enqueue), the job in its two transactions, failures and kills, and everybody
else who writes. `SyncCommits` is a sync that is still running or was started by hand,
or of a server that was enabled again; it saves the server before it commits, which
raises when that is gone. The others (`WriteBegins`, `WriteCommits`: host reports, site
discovery, backfill, users) look up what their record is about and commit later,
possibly after the deletion. `Collect` finds guests and sites by the name of the server,
also when there is none any more, so a second job that was queued meanwhile can delete
what the first left over. `ArchivedDeletion` is what that amounts to: all the server had
goes in one step, together with the server; leftovers may go in a later one; and nothing
goes that is not in a completed archive from that step on. `Promise` instantiates it
with the server's records and the completed archives' files; `DeletionIsAtomic` is the
refinement. Records that other code deletes by itself (guests that left their host, ended
jobs, rows beyond retention) are not followed.

**BackupHistory.** vzdump tasks of one guest or of many. A task carries its log: the
host appends a section per guest, with times in its own zone. `ParseBulkBackupLog`
reads it back: the code's loop with its `current_vmid` is stated by positions, a line
closes the section of its guest if that is the one that is open (`OpenAt`).
`BackfillSnapshots` adds what a Backup Server shows. A bulk job may wait, for its lock or
for a slow start, before it prints its first "Backup started at" (`BeganAt`). The code
takes that line for the task's start (`LogTimezoneOffset`), so the wait ends up in the
offset and all times of the job are early by it (`Waited`); `HistoryIsExact` states the
error exactly and finds no other.

**BifrostSync.** The gateway is live while its log is paged through (`LogRequest`,
`FinishRequest`). `PullPage` is one page with its commits, `Reconcile` the second pull
for stuck rows, `SyncAborts` an exception anywhere.

**LogMonitor.** The check reads (`ReadErrors`), ClickHouse answers, and it applies its
decisions (`ApplyCheck`) to documents that users may have changed: `doc.save` refuses
a document saved meanwhile, `set_value` does not.

**UptimeFanout.** One site on several instances. A request walks over them in one
transaction and calls Kuma as it goes, so a call may be refused, may lose its answer,
and the request may die; the poll loop imports unknown monitors and creates missing
ones. Kuma itself is external.

**MaintenanceCalendar.** Pure: occurrences are searched for in a few days around the
moment, and `CalendarIsExact` compares the three answers with a definition over all
days.

**SiteDiscovery.** One domain, as `Resolve` decides it from what was fetched, and what
`RunSync` keeps when a source did not answer. `OwnersKeepTheirRows` says from the
outside, in terms of what the sources really list, when a row may change its owner.

The `MC*` modules give the constants their values and add no behaviour. Five of them
(`MCPolling`, `MCProxmoxGuests`, `MCReports`, `MCJobs`, `MCEventually`) put together components that share no state:
`subject` names the one that a behaviour follows while the others stand still, so
their state spaces add up rather than multiply, and nothing is lost because no action
of one reads a variable of another. Components that do interact are composed in one
module: the loop and the watchdog, the sync and the bookkeeping, the poll cycle and
the heartbeat check, the deletion and the writers, user requests and the importer.

Operators marked "Mutant" are deliberate faults; no specification uses them. They show
that each property notices the kind of mistake it is about.

## Runs

Every run takes at most about two and a half minutes with two TLC workers. Each module caps only
what the code leaves unbounded: open rows (`MaxOpen`), queue wait (`MaxQueueWait`),
length of a watchdog pass (`PassBound`), who may be switched (`Switchable`), clocks
(`MaxTime`, `MaxClock`, `MaxMinutes`), and how many events, tasks, logs, monitors or
requests there are (`MaxEvents`, `MaxTasks`, `MaxLogs`, `MaxMonitors`, `MaxRequests`).

| Run | Instance | Shows |
|---|---|---|
| `polling` | loop: 2 workers, `MaxLoop` 5 < `JobTimeout` 7 < `StaleAge` 10, pass and queue wait up to 4; sync: a PVE host and a PBS in one cycle; 267 k states | `AtMostOnePoller`, `DeletesOnlyDeadJobs`, `KeepsPolling`, `StopsWhenDisabled`; `HostIncidentsAreCurrent`, `DisabledAlertsClose` |
| `proxmox_guests` | sync: 1 PVE host, 1 guest, 2 confirmation checks; backups: 2 guests, one with a vmid that another host uses too, either of 2 time zones, 2 tasks of which a sync lists one; 575 k states | `TypeOK`, `FlaggedWhenConfirmed`, `SyncAnnouncesProblems`, `RecoveriesArePaired`; `HistoryIsExact`, `FinishedBackupsAreRecorded` |
| `uptime` | 2 siblings on 2 instances, a window of 1 check, both instances switchable; 600 k states | `IncidentTracksSite`, `ReconcileAnnounces`, `DownIsAnnounced` |
| `host_reach` | 2 hosts, symmetric; 2.2 M states | `OfflineIsAnnounced`, `BastionIncidentIsConfirmed` |
| `eventually` | 1 host with a bench; 1 site on 2 Kuma instances with up to 2 monitors each and a user's request; 48 k states | `RecoveriesArePaired`, `SilentIsAnnounced`; `OrphansAreAdopted`, `InstancesCatchUp` |
| `reports` | 1 service, 2 mounts, 2 jobs with a list cap of 1, 2 devices of which 1 is stored; 104 k states | `FlagsAreConfirmed`, `StoredFlagsAreAnnounced`, `OpenAlertsAreCurrent`, `JobRowsMirrorReport`, `MountsAreNeverWiped`; `EventsNeverOvercounted`, `SnapshotIsCurrent` |
| `jobs` | see below; the two requests symmetric; 1.2 M states | one or two properties of each component |
| `host_recovery`, `host_incident`, `uptime_recovery`, `unreachable_open`, `batch_backlog` | small instances | what the repository's text says and the code does not do, see Findings |

`jobs` covers six components. One alert over a day and a half with all three
digests and a batch that can look back 2 ticks (`TimelyAlertsAreBatched`, `BatchedOnce`,
`DayIsRecapped`). Two requests to delete one server, with a sync and one transaction of
each other kind of writer under way (`AllOrNothing`, `DeletionIsAtomic`). Three logs, one
per page, at most two pages (`PromptLogsAreCopied`, `StuckLogsAreReconciled`). Two errors
of which the query returns one (`ErrorIncidentsMatchBoard`). Two NPMs and Cloudflare
(`LiveMeansPointedTo`, `OwnersKeepTheirRows`). Any one or two windows in a calendar with
two ticks a day and two days a week (`CalendarIsExact`).
It does not check for deadlock: clocks and budgets are bounded, and a finished job
stops.

Why the bounds are enough. Two workers are what a loop and its successor need, and
the constants of `polling` keep the code's order (run < RQ timeout < stale age)
with room for a pass that overlaps a hand-off. Two confirmation checks are the
smallest number for which a single spike and a confirmed one differ. A PBS next to a
PVE host is what it takes for one server's rollback to undo another's resolution.
With one check a window is empty or full, so the half-window line is not exercised; two
siblings can agree, disagree, be undecided and change places as the first (the theorem
for `IncidentTracksSite` holds for longer windows). Two hosts can give Warpgate a mixed result. Two instances
let a request fail on one and succeed on the other. A list cap, page limit, group
limit and task limit of one below what there is makes each of them cut something off.
Two ticks a day are the fewest for which a window can lie within a day or cross
midnight. The theorems remove these bounds for the properties they cover.

The storage pools of `ProxmoxSync` share every operator with the guests except for
the backup check. They are covered by the theorems; the runs have a guest only, and
the sync of `MCProxmoxGuests.cfg` with a pool in its place (`Guests = {}`,
`Stores = {pool}`) passes as well, in 20 000 states.

## Fairness

- `PollLoop` (`LoopFairness`): time passes, the cron keeps firing the watchdog (`hooks.py`), a live
  run takes its next step. Nothing obliges a kill, a SIGTERM or a user.
- `ProxmoxSync`: cycles keep coming (this is what `KeepsPolling` shows). The first
  sync of a cycle does not fail for ever: strong fairness, because it can be rolled
  back any number of times. A server that raises in each and every cycle would in
  fact keep the alerts of disabled servers open; that is the assumption.
- `UptimeConsensus`: cycles begin again and the loop comes back after a death;
  among infinitely many cycles infinitely many poll their last instance, and
  infinitely many of those reconcile. Polls need not succeed.
- `HostHealth`: heartbeat checks keep starting, every check that was begun ends,
  and the check of one host does not raise for ever. Poll cycles have no fairness.
- `UptimeFanout`: the poll loop does not stand still and keeps coming to every
  instance that is enabled (`ListMonitors`), and if it visits one for ever not every
  visit fails (`VisitEnds`). Requests of users have no fairness: one may hang or die
  anywhere.
- The other modules have safety properties only and no fairness.

## What is proved

Every safety property that a passing run checks, invariants and action properties
alike, is also a theorem that TLAPS checks for every value of the constants that
satisfies the named assumptions. The proofs follow one pattern: an inductive invariant
with one step per action, and from it the named properties.

- `PollLoopProofs` — `TypeCorrect`, `OnePollerAtMost`, `OnlyDeadJobsDeleted`, from
  `TimingAssumption` (run < RQ timeout < stale age, pass < run, queue wait < stale
  age). That two loops never poll is not inductive: one has to know that a run is the
  one RQ reports under its id and has RQ's age (`RunsAreStarted`, `OneRunPerId`), that
  only one id is live, queued jobs included (`OneLiveId`), and, for a pass between its
  two lookups, that a run it missed under the first id is younger than the pass and
  cannot have handed off (`UnseenRunsAreYoung`), so that the second id stays free
  (`SecondIdStaysFree`). The deletion is safe because its decision implies a job older
  than any run (`DeleteIsDead`, `QueuedIsRecent`).
- `AlertLogProofs` — lemmas on the operators: types, what an edge trigger leaves
  behind, when it can announce a false recovery.
- `ProxmoxSyncProofs` — `TypeCorrect`, `RecoveriesFollowAlerts`,
  `OpenHostIncidentsAreReal`, for any fleet and any `confirmation_checks`; the
  strengthening is `FlagsAreAnnounced`: a flag that can end in a recovery has been
  announced. `FlaggedMeansConfirmed` needs the streaks tied to what was read
  (`FlagsFollowReadings`: a streak of n stands for n readings at the end of the
  history, `EndsWith`). `SyncsAnnounceProblems` is an action property: the rows a sync
  leaves behind, from the lemmas on one edge trigger.
- `UptimeConsensusProofs` — `TypeCorrect`, `IncidentsTrackSites`, and the action
  property `ReconcileAlwaysAnnounces`, for any siblings, instances and window.
- `HostHealthProofs` — `TypeCorrect`, `OfflineHostsAreAnnounced`,
  `RecoveriesFollowAlerts`, `WarpgateDownIsConfirmed`, for any hosts. The heart is
  `ReadingsHold`: what a heartbeat check has read and still acts upon is either
  unchanged or harmless if it has changed; `ResultsHold` does the same for the
  results of a cycle that are already in, and `WarpgateRowIsCurrent` and
  `HostRowsAreCurrent` tie rows to flags.
- `ServerDeletionProofs` — `DeletionImplementsPromise`, the refinement, for any set of
  requests. `StepsArePromised` maps every step to a step of `ArchivedDeletion` or a
  stutter; it needs `DeletionInv`: a job works for a request that is
  through, and its archive is not completed before the job commits (`ArchiveIsOpen`);
  what the server had is there as a whole or not at all (`OwnedTogether`); and the plan
  of a job goes stale only by records the server did not have, so that everything it had
  and still has is in it (`PlanHolds`). The writers, late commits included, keep both
  because they only add (`WritesAdd`). `DeletionIsAllOrNothing` says the same of the time
  before the first deletion completes.
- `ReportsProofs` — for `HostIngest`: `FlagsConfirmed`, `StoredFlagsAnnounced`,
  `OpenAlertsCurrent`, `JobRowsMirrored`, `MountsStay`. `IngestInv` says of every
  service, bench alert and mount that its streak counts the bad readings at the end of
  its history (`StreakCounts`), what holds even when a report broke off
  (`WatchStands`) and what holds after one that was stored (`WatchHolds`,
  `WatchIsExact`). For `MetricRates`: `NeverOvercounted` and `SnapshotsAreCurrent`; the
  strengthening is `GainIsReal`: the stored counts and what the counter gained since the
  latest sample are together no more than what happened, also across a reset that
  nobody noticed.
- `JobsProofs` — six components (those of `jobs` but the deletion, and the backup history).
  - `IncidentsMatchBoard`: `ReadIsConsistent` says what the snapshot of a check under
    way still means after users have changed documents.
  - `TimelyBatched`, `NeverBatchedTwice`, `DaysAreRecapped`: every row behind the start
    of the window of the batch under way was in a batch, came late, or lies before a
    lost marker (`NothingLeftBehind`), and what was in one lies behind
    (`SweptLieBehind`).
  - `PromptCopied`, `StuckReconciled`: new requests shift the pages while they are
    read, so the invariant speaks of the place of a row in the list (`PulledUpToOffset`,
    `ReconciledUpToOffset`) and of the last row seen (`PulledUpToLast`).
  - `CalendarExact`: an occurrence that contains, ended before or follows the moment
    lies within the days that are searched, for any lengths of day and week.
  - `LivePointedTo`, `OwnersKeepRows`: `Resolve` claims no more than the fetched
    records say, and a kept row was decided earlier; an owner that was fetched, still
    lists the domain and is pointed to, or is alone, is chosen again
    (`ResolveKeepsOwner`).
  - `BackupHistoryExact`, `ReadBackupsRecorded`: the log of a task tells what became of
    its guests (`LogTells`), which appending a section preserves (`GuestDoneHolds`), so
    the parser finds the host's zone plus what the job waited (`BeganFirst`,
    `OffsetHasZone`), true results (`ResultTells`) and
    all of them (`ResultsComplete`). That any row of a job may stand for the whole job is
    `JobsAreWhole`; that a task never changes after it has ended is why rows stay true
    (`EndedTasksStay`).

  Where an argument needs induction over the naturals it is by a least or greatest
  member (`LeastNatural`, `GreatestNatural`).

Only model-checked: the liveness properties (`KeepsPolling`, `StopsWhenDisabled`,
`DisabledAlertsClose`, `DownIsAnnounced`, `SilentIsAnnounced`, `OrphansAreAdopted`,
`InstancesCatchUp`), which need fairness and are out of this prover's reach.

## Findings

1. `host_recovery`: a single unconfirmed host reading above the critical line is
   followed by a recovery message although nothing was announced; `sync_server`
   compares the old raw reading with the new confirmed flag (`tasks/poller.py:317`).
2. `host_incident`: a host with overdue backups that goes offline gets one more
   Critical Resource row every cycle, because the saved `is_critical` already
   contains the backup condition (`tasks/poller.py:342`).
3. `uptime_recovery`: the end of a maintenance window empties every verdict, which
   is announced as "back up" (`tasks/uptime_kuma_poller.py:397`).
4. `unreachable_open`: `process_status` sets `is_online` itself, so the heartbeat
   check never sees the transition that resolves the Host Unreachable alert
   (`host_health/ingest.py:94`).
5. `batch_backlog`: after a gap the batch reads everything since its old marker; the
   look-back that, by its comment, caps the backlog also "after a gap (e.g. the scheduler
   was down)" counts only when there is no marker (`alerts/resource_batch.py:36-38` and
   `:53-55`).

`PROJECT.json` quotes the lines of the repository that say otherwise. The README of
the repository also disagrees with itself on whether a Backup Failure has a recovery
message (`README.md:44` and `README.md:296-306`); no run is built on that.

Met while modelling, without a run of their own; the properties are stated so that
they hold and say what they leave out:

- `uptime_monitor/api.py:19-21` says "Each instance still keeps its own independent
  `current_status`/`is_critical`/check history"; the code, and
  `tasks/uptime_kuma_poller.py:49-53`, keep every sibling at the same `is_critical`, "a
  per-site fact, not a per-instance one". `IncidentTracksSite` is about the latter.
- `tasks/poller.py:846-848` says that measuring the offset from the first "Backup started
  at" line against the task's `starttime` "is correct for whatever timezone the host
  actually has". It is, for a job that starts its first guest at once; otherwise all
  times of the job are early by what it waited.
- A mount that is pruned while its alert is open leaves the Alert Log row unresolved for
  ever: `_delete_stale_resource_mounts` (`host_health/ingest.py:783-789`) only deletes the
  document. `OpenAlertsAreCurrent` is about documents that are there.
- The rows of the performance tables and the alerts on Resource Mounts stay behind when
  a server is deleted, although `_delete` says that everything that links to the
  records is in the plan. `enabled` is checked when the deletion is requested, not when
  the job runs, so a server that was enabled again meanwhile is deleted, and what its sync or another
  writer adds between `_collect` and `_delete` stays behind without it. A job that is
  killed leaves its archive "Running", which refuses every later request for the server
  (`proxmox_fleet_monitor/server_deletion.py`).
- An alert whose transaction ends after its batch has read the rows is in no batch
  (`alerts/dispatch.py:89`, `alerts/resource_batch.py:59`).
- An error that the query leaves out because of its group limit counts as recovered
  (`tasks/log_monitor.py:121`).
- After a deletion whose answer was lost, a document is left whose monitor is gone, and
  nothing removes it (`uptime_monitor/api.py:415`).
- `site_discovery/sync.py:22-25` says "only a fully successful view of a source can
  remove what that source used to report". That holds for rows that name an NPM, which
  is what `OwnersKeepTheirRows` states; Ambiguous and Direct DNS rows are decided anew,
  or deleted, from what did answer (`site_discovery/sync.py:459`).
- A snapshot on a Backup Server is linked to another host's guest when that is the only
  known one with its vmid (`tasks/poller.py`, `_backfill_pbs_snapshots`).
- A missing Redis hit ratio is stored as 0 and counts as a bad sample, although the
  comments ask for consecutive bad ones (`host_health/diagnosis.py:42-43`) and for rows
  that all have the figure (`:369`).

## Not modelled

- Channels, recipients and wording of notifications, grouping and layout of batches
  and digests. A failed send does not change the rows.
- Messages of a Proxmox sync that is rolled back afterwards: the model treats them
  as not sent.
- `_check_poller_stall` and the fallback of `poller_queue` to the long queue.
- `frappe.enqueue`'s own check-then-enqueue, and queues blocked longer than the
  stale age.
- Clock time in `HostHealth`, SSH host keys and the connection pool.
- The diagnosis (`host_health/diagnosis.py`): threshold rules over stored samples,
  computed when a page is opened. They keep no state and nothing else depends on them; a
  property of a rule would repeat its comparison. Top processes; the text the collector
  prints.
- `update_site`, pause and resume on Kuma, which use the loop of the fan-out with a
  savepoint per instance; purging of old rows; `_replace_hosted_sites`, a replacement
  of child rows.
- Weekly AI reports, resource history, read APIs and API clients, installation and the
  dashboard: no state that a later step of the program decides from.

## Plan

1. `UptimeFanout` has liveness properties only; the safety part of them (what a request
   that is refused or loses its answer leaves behind) can be stated and proved.
2. `update_site` and pause in `UptimeFanout`; `_check_poller_stall` in `PollLoop`.
3. An abstract specification of an incident (announced, open, resolved) that the poll
   components implement, proved next to the refinement of the deletion.
