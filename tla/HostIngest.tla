----------------------------- MODULE HostIngest -----------------------------
(***************************************************************************)
(* One host's reports as host_health/ingest.py stores them: services,      *)
(* bench workers and jobs, load and swap, disk mounts.  A report row that  *)
(* raises is caught and skipped without a rollback, so it can stop after   *)
(* some of its writes; what escapes process_status or process_resources is *)
(* rolled back by _store_report.                                           *)
(*                                                                         *)
(* The four sections share no state, so a behaviour follows one of them    *)
(* (carries): the sum of the sections is checked, not their product.       *)
(***************************************************************************)
EXTENDS AlertLog, Sequences, FiniteSets

CONSTANTS
    Services,         \* the services configured for the host
    Mounts,           \* the mount points it has had
    Jobs,             \* RQ job ids
    FailedThreshold,  \* failed_job_critical_threshold
    ListCap           \* MAX_FAILED_JOBS_PER_QUEUE

ASSUME IngestAssumption ==
    /\ IsFiniteSet(Jobs)
    /\ FailedThreshold \in Nat \ {0}
    /\ ListCap \in Nat

VARIABLES
    carries,  \* the section this behaviour is about
    service,  \* [Services -> Watch], Service Status Log
    watch,    \* [HostAlerts -> Watch], the flags of Monitored Host and the
              \* streaks of the newest Worker Health / Resource Metric row
    failed,   \* [Jobs -> {"none", "open", "resolved"}], Frappe Failed Job Log
    active,   \* the Frappe Active Job rows
    mirror,   \* the jobs of the last bench report that was stored in full
    mount,    \* [Mounts -> Mount], Resource Mount
    left      \* whether an alert of a pruned Resource Mount is unresolved

ingestVars == <<carries, service, watch, failed, active, mirror, mount, left>>

BenchAlerts == {"Worker Degraded", "Failed Job Threshold", "Long Running Job"}

HostAlerts == BenchAlerts \cup {"High Load Average", "High Swap Usage"}

\* What is kept for one alert of one document.  The last two fields are
\* observers: the latest readings that were stored, and whether the latest
\* one was acted upon ("stored"), was skipped, or stopped between the flag
\* and the alert ("broke").  lost: such a stop swallowed a resolution.
Watch ==
    [streak: 0..Checks, on: BOOLEAN, rows: Rows,
     hist: UNION {[1..n -> BOOLEAN] : n \in 0..Checks},
     last: {"stored", "skipped", "broke"}, lost: BOOLEAN]

NewWatch ==
    [streak |-> 0, on |-> FALSE, rows |-> NoRows, hist |-> <<>>, last |-> "skipped", lost |-> FALSE]

\* The document of a mount point, if there is one.  The documents have random
\* names, so no alert passes from one that was pruned to the next.
Mount == [there: BOOLEAN, streak: Streaks, critical: Watch, warning: Watch]

NewMount ==
    [there |-> FALSE, streak |-> NoStreak, critical |-> NewWatch, warning |-> NewWatch]

-----------------------------------------------------------------------------
\* What the collector can report.

\* collect_services: a systemctl call that fails or times out leaves the state
\* "unknown", which counts as down like every state but "active".
CollectServices == [Services -> {"active", "not active", "raises"}]

\* collect_bench: the failed count is the whole registry, the list stops at
\* the cap of a queue and leaves out the jobs that can no longer be fetched.
CollectBench ==
    {b \in [orphans: BOOLEAN, registry: SUBSET Jobs, listed: SUBSET Jobs,
            running: SUBSET Jobs, long: SUBSET Jobs] :
        /\ b.listed \subseteq b.registry /\ Cardinality(b.listed) <= ListCap
        /\ b.long \subseteq b.running /\ b.running \cap b.registry = {}}

\* collect_load and collect_swap: a host may have no swap.
CollectMetrics == [load: Levels, swap: Levels \cup {"none"}]

\* collect_disks: a mount whose statvfs fails is left out.
CollectDisks == [Mounts -> Levels \cup {"absent"}]

-----------------------------------------------------------------------------
\* Storing a reading.

Remember(hist, bad) ==
    IF Len(hist) < Checks THEN Append(hist, bad) ELSE Append(Tail(hist), bad)

\* Mutant: a good reading does not restart the streak.
CountWithoutReset(n, bad) == IF bad THEN Longer(n) ELSE n

\* The streak of _upsert_service and of the three bench counters.
CountBad(n, bad) == IF bad THEN Longer(n) ELSE 0

\* Mutant: an alert is dispatched, but never resolved.
FlagOnlyAlerts(w, on, tells, outcome) ==
    [w EXCEPT !.on = on, !.last = outcome,
              !.rows = IF on THEN HandleTransition(w.on, on, @, tells) ELSE @]

\* The flag is written, then _handle_transition runs, unless it broke off.
Flag(w, on, tells, outcome) ==
    [w EXCEPT !.on = on,
              !.rows = IF outcome = "broke" THEN @ ELSE HandleTransition(w.on, on, @, tells),
              !.last = outcome,
              !.lost = IF outcome = "broke" THEN @ \/ (HasOpenAlert(w.rows) /\ ~on)
                       ELSE @ /\ (w.on = on)]

Evaluate(w, bad, streak, on, tells, outcome) ==
    Flag([w EXCEPT !.streak = streak, !.hist = Remember(@, bad)], on, tells, outcome)

Skip(w) == [w EXCEPT !.last = "skipped"]

\* _upsert_service
UpsertService(w, state, outcome) ==
    IF state = "raises" THEN Skip(w)
    ELSE LET bad == state # "active"
             n   == CountBad(w.streak, bad)
         IN  Evaluate(w, bad, n, n >= Checks, TRUE, outcome)

\* process_status with services
ReportServices ==
    /\ carries = "services"
    /\ \E states \in CollectServices, outcome \in [Services -> {"stored", "broke"}] :
          service' = [s \in Services |-> UpsertService(service[s], states[s], outcome[s])]
    /\ UNCHANGED <<carries, watch, failed, active, mirror, mount, left>>

-----------------------------------------------------------------------------
\* process_status with benches; the collector reports at most one.

BenchReading(b, a) ==
    CASE a = "Worker Degraded"      -> b.orphans
      [] a = "Failed Job Threshold" -> Cardinality(b.registry) >= FailedThreshold
      [] a = "Long Running Job"     -> b.long # {}

\* Mutant: a row that dropped out of the list stays open.
KeepMissingFailedJobs(rows, listed) ==
    [j \in Jobs |-> IF j \in listed THEN "open" ELSE rows[j]]

\* _upsert_failed_job and _resolve_missing_failed_jobs
StoreFailedJobs(rows, listed) ==
    [j \in Jobs |-> IF j \in listed THEN "open"
                    ELSE IF rows[j] = "open" THEN "resolved" ELSE rows[j]]

\* _upsert_active_job and _delete_stale_active_jobs
StoreActiveJobs(rows, running) == (rows \cup running) \ (rows \ running)

\* _process_bench for one counter, and the flag that process_status computes
\* from the benches that were processed.
StoreBenchAlert(a, b, stored) ==
    LET n == CountBad(watch[a].streak, BenchReading(b, a))
    IN  IF stored THEN Evaluate(watch[a], BenchReading(b, a), n, n >= Checks, TRUE, "stored")
        ELSE Flag(watch[a], FALSE, TRUE, "skipped")

ReportBench ==
    /\ carries = "bench"
    /\ \E b \in CollectBench :
          /\ watch' = [a \in HostAlerts |->
                         IF a \in BenchAlerts THEN StoreBenchAlert(a, b, TRUE) ELSE watch[a]]
          /\ failed' = StoreFailedJobs(failed, b.listed)
          /\ active' = StoreActiveJobs(active, b.running)
          /\ mirror' = b.listed \cup b.running
    /\ UNCHANGED <<carries, service, mount, left>>

\* The bench row raises while its active jobs are stored, before its Worker
\* Health Log row: no bench was processed, so every bench flag is cleared.
BenchRaisesEarly ==
    /\ carries = "bench"
    /\ \E b \in CollectBench, some \in SUBSET Jobs :
          /\ some \subseteq b.running
          /\ watch' = [a \in HostAlerts |->
                         IF a \in BenchAlerts THEN StoreBenchAlert(a, b, FALSE) ELSE watch[a]]
          /\ active' = active \cup some
          /\ mirror' = {}
    /\ UNCHANGED <<carries, service, failed, mount, left>>

\* ... or while its failed jobs are stored, after the log row with the streaks.
BenchRaisesLate ==
    /\ carries = "bench"
    /\ \E b \in CollectBench, some \in SUBSET Jobs :
          /\ some \subseteq b.listed
          /\ watch' = [a \in HostAlerts |->
                IF a \in BenchAlerts
                THEN [StoreBenchAlert(a, b, FALSE) EXCEPT
                        !.streak = CountBad(@, BenchReading(b, a)),
                        !.hist = Remember(@, BenchReading(b, a))]
                ELSE watch[a]]
          /\ failed' = [j \in Jobs |-> IF j \in some THEN "open" ELSE failed[j]]
          /\ active' = StoreActiveJobs(active, b.running)
          /\ mirror' = {}
    /\ UNCHANGED <<carries, service, mount, left>>

-----------------------------------------------------------------------------
\* process_resources

\* _upsert_resource_metrics: without swap the alert is off and the streak
\* keeps its value.
StoreSwap(w, level, outcome) ==
    IF level = "none" THEN [Flag(w, FALSE, TRUE, outcome) EXCEPT
                              !.last = IF outcome = "broke" THEN "broke" ELSE "skipped"]
    ELSE LET n == CountBad(w.streak, level = "crit")
         IN  Evaluate(w, level = "crit", n, n >= Checks, TRUE, outcome)

\* Load and swap are one try block: a transition that raises for the load
\* leaves the swap transition out as well.
ReportMetrics ==
    /\ carries = "metrics"
    /\ \E m \in CollectMetrics, told \in {0, 1, 2} :
          LET n == CountBad(watch["High Load Average"].streak, m.load = "crit")
          IN  watch' = [watch EXCEPT
                !["High Load Average"] =
                    Evaluate(@, m.load = "crit", n, n >= Checks, TRUE,
                             IF told >= 1 THEN "stored" ELSE "broke"),
                !["High Swap Usage"] =
                    StoreSwap(@, m.swap, IF told = 2 THEN "stored" ELSE "broke")]
    /\ UNCHANGED <<carries, service, failed, active, mirror, mount, left>>

\* _upsert_resource_mount; "half": it broke off between its two transitions.
UpsertMount(m, level, outcome) ==
    LET st == TrackSeverity(m.streak, level)
        first == IF outcome = "half" THEN "stored" ELSE outcome
        rest  == IF outcome = "half" THEN "broke" ELSE outcome
    IN  [there    |-> TRUE,
         streak   |-> st,
         critical |-> Evaluate(m.critical, level = "crit", st.critical, IsCritical(st), TRUE, first),
         warning  |-> Evaluate(m.warning, level # "low", st.warning, IsWarning(st), FALSE, rest)]

\* Mutant: prunes whatever the report does not list, an empty list included.
PruneAlways(stored, m) == m \notin stored

\* _delete_stale_resource_mounts, and the test in front of it.
Stale(stored, m) == stored # {} /\ m \notin stored

\* ... deletes the document; the alert rows of it stay as they are.
LeavesOpen(m) == HasOpenAlert(m.critical.rows) \/ HasOpenAlert(m.warning.rows)

\* How far the rows of a report get.  One that raises before it stores
\* anything counts as absent.
RowOutcomes(level) ==
    {o \in [Mounts -> {"stored", "half", "broke"}] :
        \A m \in Mounts : level[m] = "absent" => o[m] = "stored"}

\* A mount that broke off is not among the mounts seen: it is pruned when
\* another one was stored.
ReportDisks ==
    /\ carries = "disks"
    /\ \E level \in CollectDisks : \E outcome \in RowOutcomes(level) :
          LET stored == {m \in Mounts : level[m] # "absent" /\ outcome[m] = "stored"}
              next == [m \in Mounts |->
                         IF level[m] # "absent" THEN UpsertMount(mount[m], level[m], outcome[m])
                         ELSE mount[m]]
          IN  /\ mount' = [m \in Mounts |-> IF Stale(stored, m) THEN NewMount ELSE next[m]]
              /\ left' = (left \/ \E m \in Mounts : Stale(stored, m) /\ LeavesOpen(next[m]))
    /\ UNCHANGED <<carries, service, watch, failed, active, mirror>>

-----------------------------------------------------------------------------
IngestInit ==
    /\ carries \in {"services", "bench", "metrics", "disks"}
    /\ service = [s \in Services |-> NewWatch]
    /\ watch = [a \in HostAlerts |-> NewWatch]
    /\ failed = [j \in Jobs |-> "none"]
    /\ active = {} /\ mirror = {}
    /\ mount = [m \in Mounts |-> NewMount]
    /\ left = FALSE

IngestNext ==
    \/ ReportServices
    \/ ReportBench
    \/ BenchRaisesEarly
    \/ BenchRaisesLate
    \/ ReportMetrics
    \/ ReportDisks

IngestSpec == IngestInit /\ [][IngestNext]_ingestVars

-----------------------------------------------------------------------------
Watches ==
    {service[s] : s \in Services} \cup {watch[a] : a \in HostAlerts}
        \cup {mount[m].critical : m \in Mounts} \cup {mount[m].warning : m \in Mounts}

AllBad(hist) == Len(hist) = Checks /\ \A i \in 1..Checks : hist[i]

\* confirmation_checks as the settings promise it: a flag is up only when the
\* last Checks readings that were evaluated were all bad, and it is up when
\* they were and the latest report was stored.  The streaks are spread over a
\* live row, the newest log row and the mount document, and a skipped row, a
\* report without swap or a pruned mount must not disturb the count.
FlagsAreConfirmed ==
    /\ \A w \in Watches : w.on => AllBad(w.hist)
    /\ \A w \in {service[s] : s \in Services} \cup {watch[a] : a \in HostAlerts}
                   \cup {mount[m].critical : m \in Mounts} :
          w.last = "stored" => (w.on <=> AllBad(w.hist))
    /\ \A m \in Mounts : ~(mount[m].critical.on /\ mount[m].warning.on)

\* Self-healing: once a report has been stored to the end, every flag that is
\* up has an unresolved alert, whatever an earlier report that broke off
\* between the flag and the alert left behind.
StoredFlagsAreAnnounced ==
    \A w \in Watches : w.last = "stored" /\ w.on => HasOpenAlert(w.rows) /\ w.rows.told = "problem"

\* An unresolved alert of a document that is there belongs to a flag that is
\* up, except after a report that broke off between clearing the flag and
\* resolving the alert: a mount point that comes back after its document was
\* pruned starts from nothing, it inherits no alert, and a report that skips
\* the row or has no swap leaves none behind.  What a pruned document left
\* unresolved is not covered: no later report looks at it.
OpenAlertsAreCurrent ==
    \A w \in Watches : HasOpenAlert(w.rows) => w.on \/ w.lost

\* Failed and active job rows agree with the last bench report that was stored
\* in full, whatever a bench row that raised half-way had left.
JobRowsMirrorReport ==
    watch["Worker Degraded"].last = "stored"
        => {j \in Jobs : failed[j] = "open"} \cup active = mirror

\* No report, an empty disk list included, wipes every mount of a host.
MountsAreNeverWiped ==
    [][(\E m \in Mounts : mount[m].there) => \E m \in Mounts : mount'[m].there]_ingestVars
=============================================================================
