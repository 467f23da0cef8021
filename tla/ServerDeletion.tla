--------------------------- MODULE ServerDeletion ---------------------------
(***************************************************************************)
(* Deleting a disabled Proxmox Server with everything that hangs on it     *)
(* (proxmox_fleet_monitor/server_deletion.py): web requests that queue the *)
(* deletion, one background job that archives and deletes in a single      *)
(* transaction, and the processes that go on writing meanwhile.            *)
(*                                                                         *)
(* Only records that nothing but the deletion removes are followed: not a  *)
(* guest that has left its host, an active job that ended, or rows beyond  *)
(* their retention, which other code deletes at any time.                  *)
(***************************************************************************)
EXTENDS Integers

CONSTANTS
    Requests   \* calls of request_server_deletion, each with its archive

VARIABLES
    enabled,   \* Proxmox Server.enabled
    recs,      \* the records of the server: <<kind, 0>> were there at first,
               \* <<kind, 1>> are written later
    inflight,  \* kinds for which a transaction is under way elsewhere
    request,   \* [Requests -> progress of the web request]
    status,    \* [Requests -> status of its Proxmox Server Archive, or "none"]
    file,      \* [Requests -> the records its archive file holds, history tables
               \* as a count and a period only]
    job        \* the background job under the server's job_id

deletionVars == <<enabled, recs, inflight, request, status, file, job>>

\* What links to the server, by how it is found: itself; what sync_server
\* writes and the server or a guest is named in (guests, datastores, backups,
\* history, alerts on these); other rows that name the server (sites, NPM
\* Instance, backfilled history); Monitored Hosts, by their guest; what names a
\* host (services, jobs, mounts, metrics, alerts on host and services); and
\* what names a host but is not looked for (memory, disk I/O, MariaDB and Redis
\* tables, alerts on a Resource Mount).
Kinds == {"server", "guest", "site", "host", "host row", "unlisted row"}

\* What names a record of a kind, and has to be there for one to be written.
Owner(kind) ==
    CASE kind \in {"guest", "site"}            -> <<"server", 0>>
      [] kind = "host"                         -> <<"guest", 0>>
      [] kind \in {"host row", "unlisted row"} -> <<"host", 0>>

\* Written by jobs and requests that do not touch the server: the host poller,
\* the site discovery, the backfill, users who add a host.
Independent == {"site", "host", "host row", "unlisted row"}

NoJob == [phase |-> "none", archive |-> "none", plan |-> {}]

There == <<"server", 0>> \in recs

-----------------------------------------------------------------------------
\* request_server_deletion, in the three steps other processes can see.

InProgress == {q \in Requests : status[q] \in {"Queued", "Running"}}

CheckRequest(r) ==
    /\ request[r] = "idle" /\ There /\ ~enabled
    /\ InProgress = {}
    /\ request' = [request EXCEPT ![r] = "checked"]
    /\ UNCHANGED <<enabled, recs, inflight, status, file, job>>

InsertArchive(r) ==
    /\ request[r] = "checked"
    /\ status' = [status EXCEPT ![r] = "Queued"]
    /\ request' = [request EXCEPT ![r] = "inserted"]
    /\ UNCHANGED <<enabled, recs, inflight, file, job>>

\* frappe.enqueue drops the call while a job with the same id is queued or
\* has not ended.
Enqueue(r) ==
    /\ request[r] = "inserted"
    /\ job' = IF job.phase = "none" THEN [NoJob EXCEPT !.phase = "queued", !.archive = r] ELSE job
    /\ request' = [request EXCEPT ![r] = "done"]
    /\ UNCHANGED <<enabled, recs, inflight, status, file>>

-----------------------------------------------------------------------------
\* run_server_deletion

JobStart ==
    /\ job.phase = "queued"
    /\ status' = [status EXCEPT ![job.archive] = "Running"]
    /\ job' = [job EXCEPT !.phase = "running"]
    /\ UNCHANGED <<enabled, recs, inflight, request, file>>

\* _collect looks for guests and sites by the name of the server, whether or
\* not there still is one, for hosts by the guests it has found, and for the
\* rows of these hosts.
Collect(S) ==
    {x \in S : /\ x[1] # "unlisted row"
               /\ x[1] \in {"host", "host row"} => <<"guest", 0>> \in S
               /\ x[1] = "host row" => <<"host", 0>> \in S}

JobCollect ==
    /\ job.phase = "running"
    /\ job' = [job EXCEPT !.phase = "collected", !.plan = Collect(recs)]
    /\ UNCHANGED <<enabled, recs, inflight, request, status, file>>

\* Mutant: deletes what is there now, not what was archived.
DeleteCurrent(S, plan) == S \ Collect(S)

\* _delete works off the plan the archive was built from.
Delete(S, plan) == S \ plan

\* _build_archive, _attach_archive, _delete and the status, one transaction.
JobCommit ==
    /\ job.phase = "collected"
    /\ file' = [file EXCEPT ![job.archive] = job.plan]
    /\ recs' = Delete(recs, job.plan)
    /\ status' = [status EXCEPT ![job.archive] = "Completed"]
    /\ job' = [job EXCEPT !.phase = "ended"]
    /\ UNCHANGED <<enabled, inflight, request>>

\* Mutant: the deletes that were done before the failure stay.
JobFailsHalfway ==
    /\ job.phase \in {"running", "collected"}
    /\ recs' = {x \in recs : x \notin job.plan \/ x[1] = "server"}
    /\ status' = [status EXCEPT ![job.archive] = "Failed"]
    /\ job' = [job EXCEPT !.phase = "ended"]
    /\ UNCHANGED <<enabled, inflight, request, file>>

\* Anything raises: rolled back, and the archive is marked Failed.
JobFails ==
    /\ job.phase \in {"running", "collected"}
    /\ status' = [status EXCEPT ![job.archive] = "Failed"]
    /\ job' = [job EXCEPT !.phase = "ended"]
    /\ UNCHANGED <<enabled, recs, inflight, request, file>>

\* The worker is killed or the job times out: its transaction is undone and
\* nothing is left that would change the status.
JobKilled ==
    /\ job.phase \in {"queued", "running", "collected"}
    /\ job' = NoJob
    /\ UNCHANGED <<enabled, recs, inflight, request, status, file>>

\* The worker gives the job id back some time after the last commit.
JobGone ==
    /\ job.phase = "ended"
    /\ job' = NoJob
    /\ UNCHANGED <<enabled, recs, inflight, request, status, file>>

-----------------------------------------------------------------------------
\* The rest of the system.

\* A user switches the server on or off.
Switch ==
    /\ There
    /\ enabled' = ~enabled
    /\ UNCHANGED <<recs, inflight, request, status, file, job>>

\* sync_server commits what it found, for a server that was enabled when the
\* cycle began or for "Sync Now", which does not ask.  It saves the server
\* before it commits, which raises when the server is gone.
SyncCommits ==
    /\ There
    /\ recs' = recs \cup {<<"guest", 1>>}
    /\ UNCHANGED <<enabled, inflight, request, status, file, job>>

\* Another process has looked up what its record is about, and commits the
\* record some time later: nothing makes it look again.
WriteBegins(kind) ==
    /\ Owner(kind) \in recs
    /\ inflight' = inflight \cup {kind}
    /\ UNCHANGED <<enabled, recs, request, status, file, job>>

WriteCommits(kind) ==
    /\ kind \in inflight
    /\ recs' = recs \cup {<<kind, 1>>}
    /\ inflight' = inflight \ {kind}
    /\ UNCHANGED <<enabled, request, status, file, job>>

DeletionInit ==
    /\ enabled \in BOOLEAN
    /\ recs = Kinds \X {0} /\ inflight = {}
    /\ request = [r \in Requests |-> "idle"]
    /\ status = [r \in Requests |-> "none"]
    /\ file = [r \in Requests |-> {}]
    /\ job = NoJob

DeletionNext ==
    \/ \E r \in Requests : CheckRequest(r) \/ InsertArchive(r) \/ Enqueue(r)
    \/ JobStart \/ JobCollect \/ JobCommit \/ JobFails \/ JobKilled \/ JobGone
    \/ Switch \/ SyncCommits
    \/ \E kind \in Independent : WriteBegins(kind) \/ WriteCommits(kind)

DeletionSpec == DeletionInit /\ [][DeletionNext]_deletionVars

-----------------------------------------------------------------------------
Record == Kinds \X {0, 1}

\* What the completed archives hold.
Archived == {x \in Record : \E r \in Requests : status[r] = "Completed" /\ x \in file[r]}

\* What the server had from the start, as far as _collect looks for it.
Owned == (Kinds \ {"unlisted row"}) \X {0}

Promise == INSTANCE ArchivedDeletion WITH
    Root <- <<"server", 0>>, Owned <- Owned, Record <- Record, records <- recs, archive <- Archived

\* "Before anything is deleted, a Proxmox Server Archive record is written":
\* the requests, the jobs and their failures implement the promise.  What the
\* server had goes in one step, together with the server and into a completed
\* archive, and no record disappears that is not in one, whatever is written
\* between collecting and deleting or commits when the server is gone, and
\* however often the job fails, is killed or is asked for.
DeletionIsAtomic == Promise!ArchivedSpec

\* "If anything fails, the whole deletion is rolled back": until a deletion
\* has completed every record is there, through failures, kills and retries;
\* and once one has, the server itself is gone.
AllOrNothing ==
    IF \E r \in Requests : status[r] = "Completed"
    THEN ~There
    ELSE Kinds \X {0} \subseteq recs
=============================================================================
