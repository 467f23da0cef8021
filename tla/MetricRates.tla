----------------------------- MODULE MetricRates -----------------------------
(***************************************************************************)
(* Cumulative counters turned into figures against the previous stored     *)
(* sample (host_health/ingest.py): memory, MariaDB, Redis and block        *)
(* devices, and the MariaDB configuration snapshots.  Counters restart     *)
(* with the machine or the server, polls are missed or come too close, and *)
(* idle or crowded-out devices leave no sample behind.                     *)
(*                                                                         *)
(* A behaviour follows one kind of series; kinds share no state.           *)
(***************************************************************************)
EXTENDS Integers, FiniteSets

CONSTANTS
    Devices,    \* block devices the host reports
    MaxStored,  \* MAX_IO_DEVICES_STORED
    MinGap,     \* MIN_RATE_GAP_SECONDS, in ticks
    MaxGap,     \* MAX_RATE_GAP_SECONDS, in ticks; the look-back of the devices
    Configs,    \* values of the server's variables
    NoHash,     \* a report or a snapshot without the variables
    MaxEvents,  \* bound on the events of a series
    MaxUptime   \* uptimes are not told apart beyond this

ASSUME RatesAssumption ==
    /\ MinGap \in Nat /\ MaxGap \in Nat /\ MaxStored \in Nat
    /\ MaxEvents \in Nat /\ MaxUptime \in Nat
    /\ IsFiniteSet(Devices) /\ Devices # {}
    /\ NoHash \notin Configs

VARIABLES
    kind,      \* the kind of series followed, one of MetricKinds
    uptime,    \* of the machine or the server
    count,     \* [Devices -> Nat], the counters as the host shows them
    total,     \* [Devices -> Nat], the events that really happened
    reported,  \* [Devices -> Nat], the events that stored rows account for
    prev,      \* [Devices -> the latest stored sample, known or not]
    age,       \* [Devices -> ticks since that sample]
    config,    \* the server's variables now
    snapshot,  \* the hash and age of the latest MariaDB Config Snapshot
    answered   \* whether the latest report carried the variables of now

counterVars == <<uptime, count, total, reported, prev, age>>
ratesVars == <<kind, counterVars, config, snapshot, answered>>

\* A memory, MariaDB or Redis series has one counter: the first "device".
Single == CHOOSE d \in Devices : TRUE
Series == IF kind = "disks" THEN Devices ELSE {Single}

MetricKinds == {"memory", "mariadb", "redis", "disks", "snapshots"}

\* counted: the row holds the counter; the column of one that was missing
\* from the report stays empty.
NoSample == [known |-> FALSE, counted |-> FALSE, count |-> 0, uptime |-> 0]

LeastOf(a, b) == IF a < b THEN a ELSE b

-----------------------------------------------------------------------------
\* The host.

Event ==
    /\ kind # "snapshots"
    /\ \E d \in Series :
          /\ total[d] < MaxEvents
          /\ count' = [count EXCEPT ![d] = @ + 1]
          /\ total' = [total EXCEPT ![d] = @ + 1]
    /\ UNCHANGED <<kind, uptime, reported, prev, age, config, snapshot, answered>>

Tick ==
    /\ kind # "snapshots"
    /\ uptime' = LeastOf(uptime + 1, MaxUptime)
    /\ age' = [d \in Devices |-> IF d \in Series THEN LeastOf(age[d] + 1, MaxGap + 1) ELSE age[d]]
    /\ UNCHANGED <<kind, count, total, reported, prev, config, snapshot, answered>>

\* A reboot, a server restart, or counters reset while the server stays up
\* (FLUSH STATUS, CONFIG RESETSTAT, a device that is attached again).
Reset ==
    /\ kind # "snapshots"
    /\ \E up \in {0, uptime} : uptime' = up
    /\ count' = [d \in Devices |-> 0]
    /\ UNCHANGED <<kind, total, reported, prev, age, config, snapshot, answered>>

-----------------------------------------------------------------------------
\* What one run of the collector reports.

\* collect_counters, collect_cgroup: each key only when the kernel shows it.
CollectCounters == BOOLEAN

\* collect_redis: an instance that cannot be asked has no "info".
CollectRedis == BOOLEAN

\* collect_mariadb: no site's login works, or the variables as they are.
CollectMariadb == {config, NoHash}

\* mariadb_data_sizes: only asked for by a slow-tier run.
MariadbDataSizes == BOOLEAN

\* collect_io: devices come and go; one that was never used is left out.
CollectIo == {S \in SUBSET Devices : \A d \in S : count[d] > 0}

-----------------------------------------------------------------------------
\* The figures.

\* Mutant: a counter that went backwards is counted from zero and the gap of
\* the previous sample is not looked at; so is a sample that does not exist.
DeltaFromZero(d) == IF count[d] >= prev[d].count THEN count[d] - prev[d].count ELSE prev[d].count

\* _counter_delta: no figure when the counter went backwards or is unknown.
CounterDelta(d) ==
    IF prev[d].counted /\ count[d] >= prev[d].count THEN count[d] - prev[d].count ELSE -1

\* _gap_seconds
GapUsable(d) == prev[d].known /\ MinGap <= age[d] /\ age[d] <= MaxGap

\* The restart check of _store_mariadb_sample and _store_redis_sample; a
\* stored uptime of 0 counts as unknown.  Memory and disks have none.
Restarted(d) ==
    kind \in {"mariadb", "redis"} /\ prev[d].known /\ prev[d].uptime # 0 /\ uptime < prev[d].uptime

HasRate(d) == GapUsable(d) /\ ~Restarted(d) /\ CounterDelta(d) >= 0

Sample(d, counted) ==
    [known |-> TRUE, counted |-> counted, count |-> IF counted THEN count[d] ELSE 0, uptime |-> uptime]

StoreSamples(samples, counted) ==
    /\ reported' = [d \in Devices |->
                      IF d \in samples /\ counted /\ HasRate(d) THEN reported[d] + CounterDelta(d)
                      ELSE reported[d]]
    /\ prev' = [d \in Devices |-> IF d \in samples THEN Sample(d, counted) ELSE prev[d]]
    /\ age' = [d \in Devices |-> IF d \in samples THEN 0 ELSE age[d]]
    /\ UNCHANGED <<kind, uptime, count, total, config, snapshot, answered>>

\* process_performance, _store_memory_sample: a row whatever it has to say.
StoreMemorySample ==
    /\ kind = "memory"
    /\ \E counted \in CollectCounters : StoreSamples({Single}, counted)

\* process_mariadb, _store_mariadb_sample
StoreMariadbSample ==
    /\ kind = "mariadb"
    /\ \E counted \in BOOLEAN : StoreSamples({Single}, counted)

\* process_redis, _store_redis_sample: no row for an instance that is down.
StoreRedisSample ==
    /\ kind = "redis"
    /\ \E info \in CollectRedis : StoreSamples(IF info THEN {Single} ELSE {}, TRUE)

\* S holds the n largest of T by weight.
Busiest(S, T, n, weight) ==
    /\ S \subseteq T /\ Cardinality(S) = LeastOf(n, Cardinality(T))
    /\ \A x \in S, y \in T \ S : weight[x] >= weight[y]

\* _store_io_samples: the busiest devices with figures first, idle ones not
\* at all, and what is new or was reset in the room that is left.
StoreIoSamples ==
    /\ kind = "disks"
    /\ \E here \in CollectIo :
          LET rated == {d \in here : HasRate(d) /\ CounterDelta(d) > 0}
              first == {d \in here : ~HasRate(d)}
          IN  \E R \in SUBSET rated, F \in SUBSET first :
                 /\ Busiest(R, rated, MaxStored, [d \in rated |-> CounterDelta(d)])
                 /\ Busiest(F, first, MaxStored - Cardinality(R), count)
                 /\ StoreSamples(R \cup F, TRUE)

-----------------------------------------------------------------------------
\* MariaDB configuration snapshots.

ChangeConfig ==
    /\ kind = "snapshots"
    /\ \E c \in Configs : config' = c
    /\ answered' = FALSE
    /\ UNCHANGED <<kind, counterVars, snapshot>>

\* Mutant: compares with nothing but the age of the snapshot.
SnapshotByAge(variables, data) == data /\ snapshot.due

\* The conditions of _store_mariadb_snapshot: a setting changed, or sizes were
\* read and the hour is over.
SnapshotNeeded(variables, data) ==
    \/ variables # NoHash /\ snapshot.hash # variables
    \/ data /\ snapshot.due

\* process_mariadb: the variables or the sizes may be missing from a report.
\* due: there is no snapshot yet, or the latest one is an hour old.
StoreSnapshot ==
    /\ kind = "snapshots"
    /\ \E variables \in CollectMariadb, data \in MariadbDataSizes :
          /\ variables # NoHash \/ data
          /\ snapshot' = IF SnapshotNeeded(variables, data)
                         THEN [hash |-> variables, due |-> FALSE] ELSE snapshot
          /\ answered' = (variables # NoHash)
    /\ UNCHANGED <<kind, counterVars, config>>

HourPasses ==
    /\ kind = "snapshots"
    /\ snapshot' = [snapshot EXCEPT !.due = TRUE]
    /\ UNCHANGED <<kind, counterVars, config, answered>>

-----------------------------------------------------------------------------
RatesInit ==
    /\ kind \in MetricKinds
    /\ uptime = 0
    /\ count = [d \in Devices |-> 0] /\ total = [d \in Devices |-> 0]
    /\ reported = [d \in Devices |-> 0]
    /\ prev = [d \in Devices |-> NoSample]
    /\ age = [d \in Devices |-> 0]
    /\ config \in Configs
    /\ snapshot = [hash |-> NoHash, due |-> TRUE]
    /\ answered = FALSE

RatesNext ==
    \/ Event \/ Tick \/ Reset
    \/ StoreMemorySample \/ StoreMariadbSample \/ StoreRedisSample \/ StoreIoSamples
    \/ ChangeConfig \/ StoreSnapshot \/ HourPasses

RatesSpec == RatesInit /\ [][RatesNext]_ratesVars

-----------------------------------------------------------------------------
\* "never produces a wrong spike" (process_performance): the stored rows never
\* account for more events than there were, over any sequence of resets that
\* the checks notice or miss, missed polls, and samples that were not kept.
EventsNeverOvercounted == \A d \in Devices : reported[d] <= total[d]

\* After a report that carried the variables, the latest snapshot shows them,
\* also when a setting was changed back or a size-only snapshot lies between.
SnapshotIsCurrent == answered => snapshot.hash = config
=============================================================================
