----------------------------- MODULE BifrostSync -----------------------------
(***************************************************************************)
(* tasks/bifrost_sync.py: the incremental copy of Bifrost's request logs.  *)
(* Bifrost is live: a request is logged some time after it started, as     *)
(* "processing", and changes to its final status in place, also while the  *)
(* job pages through the list.  One sync at a time runs (the fixed job id).*)
(***************************************************************************)
EXTENDS Integers, FiniteSets

CONSTANTS
    MaxLogs,    \* bound: Bifrost's requests are 1..MaxLogs
    Overlap,    \* CHECKPOINT_OVERLAP_MINUTES
    Backfill,   \* initial_backfill_days
    MinAge,     \* PROCESSING_MIN_AGE
    MaxAge,     \* PROCESSING_MAX_AGE
    PageLimit,  \* PAGE_LIMIT
    MaxPages,   \* MAX_PAGES
    MaxMinutes  \* bound on the clock

ASSUME BifrostAssumption ==
    /\ MaxLogs \in Nat /\ Overlap \in Nat /\ Backfill \in Nat /\ MinAge \in Nat /\ MaxAge \in Nat
    /\ PageLimit \in Nat \ {0} /\ MaxPages \in Nat \ {0} /\ MaxMinutes \in Nat

VARIABLES
    minute,   \* the time now
    log,      \* [1..MaxLogs -> a request at Bifrost]
    copy,     \* [1..MaxLogs -> status of the LLM Usage Log row, "none", or
              \* "raised": there is none because its upsert raised]
    through,  \* last_synced_through, or Never
    sync,     \* the sync under way
    floor     \* observer: the start of the first window that was synced

bifrostVars == <<minute, log, copy, through, sync, floor>>

LogIds == 1..MaxLogs
Never == -(Backfill + 1)  \* no time that occurs

NoLog == [state |-> "none", at |-> 0, late |-> FALSE]
NoSync == [phase |-> "idle", start |-> 0, checkpoint |-> 0, from |-> 0, offset |-> 0, pages |-> 0,
           last |-> Never, drained |-> FALSE, open |-> {}]

-----------------------------------------------------------------------------
\* Bifrost.

\* /api/logs lists a request some time after it started, so the list does not
\* grow at its end only.  late: it came after the overlap that is meant for
\* this delay (an observer, no field of Bifrost's).
LogRequest ==
    /\ \E l \in LogIds, at \in 0..minute, s \in {"processing", "final"} :
          /\ log[l].state = "none" /\ \A k \in 1..(l - 1) : log[k].state # "none"
          /\ log' = [log EXCEPT ![l] = [state |-> s, at |-> at, late |-> minute - at > Overlap]]
    /\ UNCHANGED <<minute, copy, through, sync, floor>>

FinishRequest ==
    /\ \E l \in LogIds :
          /\ log[l].state = "processing"
          /\ log' = [log EXCEPT ![l].state = "final"]
    /\ UNCHANGED <<minute, copy, through, sync, floor>>

PassMinute ==
    /\ minute < MaxMinutes
    /\ minute' = minute + 1
    /\ UNCHANGED <<log, copy, through, sync, floor>>

-----------------------------------------------------------------------------
\* run_sync_now

\* Mutant: the window starts exactly at the checkpoint.
NoOverlap(checkpoint) == checkpoint

WindowFrom(checkpoint) == checkpoint - Overlap

Checkpoint == IF through = Never THEN minute - Backfill ELSE through

\* _run_sync up to the first page; the throttle of sync_bifrost_logs only
\* spaces the runs, and Sync Now skips it.
StartSync ==
    /\ sync.phase = "idle"
    /\ sync' = [NoSync EXCEPT !.phase = "pull", !.start = minute,
                               !.checkpoint = Checkpoint, !.from = WindowFrom(Checkpoint)]
    /\ UNCHANGED <<minute, log, copy, through, floor>>

\* The logs /api/logs lists for the window, oldest first, and one page of it.
Listed == {l \in LogIds : log[l].state # "none"
                        /\ sync.from <= log[l].at /\ log[l].at < sync.start}

Before(k, l) == log[k].at < log[l].at \/ (log[k].at = log[l].at /\ k <= l)

LogPage == {l \in Listed : Cardinality({k \in Listed : Before(k, l)}) \in (sync.offset + 1)..(sync.offset + PageLimit)}

LastOf(S, otherwise) == IF S = {} THEN otherwise ELSE log[CHOOSE l \in S : \A k \in S : log[k].at <= log[l].at].at

\* The list is drained on an empty page or when the offset reaches the total.
Drained(offset) == LogPage = {} \/ offset >= Cardinality(Listed)

\* _pull_and_upsert, one page.  A row may raise and is skipped; rows are
\* committed page by page.
PullPage ==
    /\ sync.phase \in {"pull", "reconcile"}
    /\ \E bad \in SUBSET LogPage :
          LET good   == LogPage \ bad
              offset == sync.offset + Cardinality(LogPage)
              pages  == sync.pages + 1
              done   == Drained(offset)
          IN  /\ copy' = [l \in LogIds |-> IF l \in good THEN log[l].state
                                     ELSE IF l \in bad /\ copy[l] = "none" THEN "raised" ELSE copy[l]]
              /\ sync' = [sync EXCEPT
                   !.offset = offset, !.pages = pages,
                   !.last = IF sync.phase = "pull" THEN LastOf(good, @) ELSE @,
                   !.drained = IF sync.phase = "pull" THEN done ELSE @,
                   !.open = IF done \/ pages < MaxPages THEN @ \ bad ELSE {},
                   !.phase = IF ~done /\ pages < MaxPages THEN @
                             ELSE IF @ = "pull" THEN "pulled" ELSE "reconciled"]
    /\ UNCHANGED <<minute, log, through, floor>>

\* Rows that were copied while processing and are old enough, not too old.
Stuck == {l \in LogIds : copy[l] = "processing" /\ log[l].at < sync.start - MinAge /\ log[l].at > sync.start - MaxAge}

\* Mutant: only the newest stuck row is looked for.
FromNewest(S) == log[CHOOSE l \in S : \A k \in S : log[k].at <= log[l].at].at

FromOldest(S) == log[CHOOSE l \in S : \A k \in S : log[l].at <= log[k].at].at

\* _reconcile_open_processing: the window from the oldest stuck row is pulled
\* again.  open: observer, the stuck rows that are already final at Bifrost;
\* the pull owes them unless MAX_PAGES cuts it off.
Reconcile ==
    /\ sync.phase = "pulled"
    /\ sync' = IF Stuck = {} THEN [sync EXCEPT !.phase = "reconciled", !.open = {}]
               ELSE [sync EXCEPT !.phase = "reconcile", !.offset = 0, !.pages = 0,
                                 !.from = FromOldest(Stuck),
                                 !.open = {l \in Stuck : log[l].state = "final"}]
    /\ UNCHANGED <<minute, log, copy, through, floor>>

\* The new checkpoint: past what was pulled, not past what was cut off.
Advance ==
    IF sync.drained THEN sync.start ELSE IF sync.last # Never THEN sync.last ELSE sync.checkpoint

FinishSync ==
    /\ sync.phase = "reconciled"
    /\ through' = Advance
    /\ sync' = NoSync
    /\ floor' = IF through = Never THEN WindowFrom(sync.checkpoint) ELSE floor
    /\ UNCHANGED <<minute, log, copy>>

\* A call to Bifrost fails, or the worker dies: the checkpoint stays, the
\* pages that were committed stay too.
SyncAborts ==
    /\ sync.phase # "idle"
    /\ sync' = NoSync
    /\ UNCHANGED <<minute, log, copy, through, floor>>

-----------------------------------------------------------------------------
BifrostInit ==
    /\ minute = 0
    /\ log = [l \in LogIds |-> NoLog]
    /\ copy = [l \in LogIds |-> "none"]
    /\ through = Never /\ sync = NoSync /\ floor = 0

BifrostNext ==
    \/ LogRequest \/ FinishRequest \/ PassMinute
    \/ StartSync \/ PullPage \/ Reconcile \/ FinishSync \/ SyncAborts

BifrostSpec == BifrostInit /\ [][BifrostNext]_bifrostVars

-----------------------------------------------------------------------------
\* The overlap "closes that gap": a request of the synced period that Bifrost shows within the
\* overlap of its start, and whose row could be stored, has been copied by the
\* time the next window begins behind it, through aborted syncs, cut-off
\* lists and rows that appear between two pages.
PromptLogsAreCopied ==
    \A l \in LogIds :
        /\ sync.phase = "idle" /\ through # Never
        /\ log[l].state # "none"
        /\ ~log[l].late
        /\ floor <= log[l].at /\ log[l].at < WindowFrom(through)
        => copy[l] # "none"

\* Every stuck row that was final when the reconciliation began is final in
\* the copy when a drained reconciliation ends, however late it became so.
StuckLogsAreReconciled ==
    sync.phase = "reconciled" => \A l \in sync.open : copy[l] = "final"
=============================================================================
