------------------------------ MODULE PollLoop ------------------------------
(***************************************************************************)
(* The life cycle of one always-on poll loop (Proxmox, Uptime Kuma or SSH  *)
(* hosts): the once-a-minute watchdog that starts it, the bounded run that *)
(* hands over to its successor under the other of two job ids, RQ's own    *)
(* bookkeeping of those two jobs, and the workers that execute them.       *)
(* tasks/jobs.py, and the loop functions of tasks/poller.py,               *)
(* tasks/host_poller.py and tasks/uptime_kuma_poller.py.                   *)
(*                                                                         *)
(* Time is discrete: Tick lets one unit pass.  Ages and TTLs are counters  *)
(* moved by Tick, so no absolute clock is needed.                          *)
(***************************************************************************)
EXTENDS Naturals

CONSTANTS
    Workers,        \* RQ worker processes that serve the loops' queue
    MaxLoop,        \* MAX_LOOP_SECONDS: one run's own bound
    JobTimeout,     \* MAX_LOOP_SECONDS + 120: RQ kills a longer run
    StaleAge,       \* STALE_JOB_SECONDS: MAX_LOOP_SECONDS + 300
    HeartbeatTtl,   \* max(interval * 4, 60), the heartbeat key's expiry
    PassBound,      \* longest watchdog pass (its own RQ job is killed at 300s)
    MaxQueueWait,   \* longest wait of a queued job for a free worker
    Idle            \* a worker that is executing no loop

ASSUME TimingAssumption ==
    /\ MaxLoop \in Nat /\ JobTimeout \in Nat /\ StaleAge \in Nat
    /\ HeartbeatTtl \in Nat \ {0} /\ PassBound \in Nat /\ MaxQueueWait \in Nat
    /\ MaxLoop < JobTimeout
    /\ JobTimeout < StaleAge
    /\ PassBound < MaxLoop
    /\ MaxQueueWait < StaleAge

\* _loop_job_ids: the two ids a loop alternates between.
Ids == {"a", "b"}

ASSUME IdleAssumption == Idle \notin [id: Ids, phase: {"top", "cycle", "over"}, ran: Nat]

VARIABLES
    switch,   \* which loop this is: "none" Proxmox, "before" hosts, "after" Uptime
    turnedOn, \* the loop's own on/off switch (_enabled, _any_instance_enabled)
    job,      \* what RQ reports for each id; "none" is absent, finished or failed
    age,      \* time since the job's started_at, or enqueued_at while queued
    worker,   \* what each worker process executes
    hb,       \* time left of the heartbeat cache key, 0 when it has expired
    wd        \* the watchdog pass in progress

loopVars == <<switch, turnedOn, job, age, worker, hb, wd>>

Switches == {"none", "before", "after"}
WdSteps == {"idle", "read", "delete", "check", "start"}

Run == [id: Ids, phase: {"top", "cycle", "over"}, ran: 0..JobTimeout]

\* The type invariant.
LoopTypeOK ==
    /\ switch \in Switches
    /\ turnedOn \in BOOLEAN
    /\ job \in [Ids -> {"none", "queued", "started"}]
    /\ age \in [Ids -> 0..StaleAge]
    /\ worker \in [Workers -> Run \cup {Idle}]
    /\ hb \in 0..HeartbeatTtl
    /\ wd \in [at: WdSteps, id: Ids, took: 0..PassBound]

Other(id) == IF id = "a" THEN "b" ELSE "a"

Busy(w) == worker[w] # Idle

\* The worker is between the first and the last cycle of a run.
Polling(w) == Busy(w) /\ worker[w].phase \in {"top", "cycle"}

NoPass == [at |-> "idle", id |-> "a", took |-> 0]

LoopInit ==
    /\ switch \in Switches
    /\ turnedOn \in (IF switch = "none" THEN {TRUE} ELSE BOOLEAN)
    /\ job = [i \in Ids |-> "none"]
    /\ age = [i \in Ids |-> 0]
    /\ worker = [w \in Workers |-> Idle]
    /\ hb = 0
    /\ wd = NoPass

-----------------------------------------------------------------------------
\* RQ and frappe.enqueue.

\* frappe.enqueue(job_id=id, deduplicate=True): refused, without a word to
\* the caller, while that id is queued or started.
Enqueue(id) ==
    IF job[id] = "none"
    THEN /\ job' = [job EXCEPT ![id] = "queued"]
         /\ age' = [age EXCEPT ![id] = 0]
    ELSE UNCHANGED <<job, age>>

\* A free worker takes a queued job and enters the loop function.
StartJob(w, id) ==
    /\ ~Busy(w)
    /\ job[id] = "queued"
    /\ job' = [job EXCEPT ![id] = "started"]
    /\ age' = [age EXCEPT ![id] = 0]
    /\ worker' = [worker EXCEPT ![w] = [id |-> id, phase |-> "top", ran |-> 0]]
    /\ UNCHANGED <<switch, turnedOn, hb, wd>>

\* The loop function has returned: RQ records its job as finished.
JobFinished(w) ==
    /\ Busy(w) /\ worker[w].phase = "over"
    /\ job' = [job EXCEPT ![worker[w].id] = "none"]
    /\ worker' = [worker EXCEPT ![w] = Idle]
    /\ UNCHANGED <<switch, turnedOn, age, hb, wd>>

\* RQ's own timeout ends a run whose last cycle never returned: the job is
\* failed, and the loop function's last statement is not reached.
JobTimedOut(w) ==
    /\ Polling(w) /\ worker[w].ran >= JobTimeout
    /\ job' = [job EXCEPT ![worker[w].id] = "none"]
    /\ worker' = [worker EXCEPT ![w] = Idle]
    /\ UNCHANGED <<switch, turnedOn, age, hb, wd>>

\* The worker process is killed (a deploy's supervisorctl restart): its job
\* stays recorded as started with nothing behind it.
WorkerKilled(w) ==
    /\ Busy(w)
    /\ worker' = [worker EXCEPT ![w] = Idle]
    /\ UNCHANGED <<switch, turnedOn, job, age, hb, wd>>

-----------------------------------------------------------------------------
\* The loop functions.

SetPhase(w, p) == worker' = [worker EXCEPT ![w].phase = p]

\* Mutant: the loop does not look at its switch.
BeginCycleUnswitched(w) ==
    /\ Busy(w) /\ worker[w].phase = "top"
    /\ worker[w].ran < MaxLoop
    /\ hb' = HeartbeatTtl
    /\ SetPhase(w, "cycle")
    /\ UNCHANGED <<switch, turnedOn, job, age, wd>>

\* Top of the while loop, time left and switched on: refresh the heartbeat
\* and run a cycle.  Only the SSH loop looks at its switch here.
BeginCycle(w) ==
    /\ Busy(w) /\ worker[w].phase = "top"
    /\ worker[w].ran < MaxLoop
    /\ switch = "before" => turnedOn
    /\ hb' = HeartbeatTtl
    /\ SetPhase(w, "cycle")
    /\ UNCHANGED <<switch, turnedOn, job, age, wd>>

\* The SSH loop returns as soon as it finds polling switched off; a return
\* inside the loop skips the hand-off.
ReturnDisabled(w) ==
    /\ Busy(w) /\ worker[w].phase = "top"
    /\ worker[w].ran < MaxLoop
    /\ switch = "before" /\ ~turnedOn
    /\ SetPhase(w, "over")
    /\ UNCHANGED <<switch, turnedOn, job, age, hb, wd>>

\* hand_off_loop: the successor runs under the id this run does not use.
Successor(id) == Other(id)

\* The cycle and its sleep are over: back to the top of the loop.  The
\* Uptime loop first breaks out when no instance is enabled, and still
\* hands off if its time is up.
EndCycle(w) ==
    /\ Busy(w) /\ worker[w].phase = "cycle"
    /\ IF switch = "after" /\ ~turnedOn
       THEN /\ SetPhase(w, "over")
            /\ IF worker[w].ran >= MaxLoop
               THEN Enqueue(Successor(worker[w].id))
               ELSE UNCHANGED <<job, age>>
       ELSE SetPhase(w, "top") /\ UNCHANGED <<job, age>>
    /\ UNCHANGED <<switch, turnedOn, hb, wd>>

\* The while condition fails on time: hand off, then return.
HandOff(w) ==
    /\ Busy(w) /\ worker[w].phase = "top"
    /\ worker[w].ran >= MaxLoop
    /\ SetPhase(w, "over")
    /\ Enqueue(Successor(worker[w].id))
    /\ UNCHANGED <<switch, turnedOn, hb, wd>>

\* SIGTERM reached the job: it leaves the loop without handing off.
StopRequested(w) ==
    /\ Polling(w)
    /\ SetPhase(w, "over")
    /\ UNCHANGED <<switch, turnedOn, job, age, hb, wd>>

-----------------------------------------------------------------------------
\* The watchdog: start_loop_if_needed, one cache or RQ call per step.

\* ensure_*_running: nothing to do while switched off or while the
\* heartbeat is fresh.
WatchdogBegins ==
    /\ wd.at = "idle"
    /\ turnedOn /\ hb = 0
    /\ wd' = [NoPass EXCEPT !.at = "read"]
    /\ UNCHANGED <<switch, turnedOn, job, age, worker, hb>>

\* Where a pass goes after it is done with one id's stale check.
AfterStaleCheck(id) ==
    IF id = "a" THEN [wd EXCEPT !.at = "read", !.id = "b"]
                ELSE [wd EXCEPT !.at = "check", !.id = "a"]

\* Mutant: an age that a running loop does reach.
StaleAtLoopBound(id) == job[id] # "none" /\ age[id] >= MaxLoop

\* Mutant: only queued jobs are looked at, so a killed worker's job stays.
StaleOnlyQueued(id) == job[id] = "queued" /\ age[id] >= StaleAge

\* clear_stale_job's test on what RQ reports.
Stale(id) == job[id] # "none" /\ age[id] >= StaleAge

\* clear_stale_job: get_job, then the decision on the fetched copy.
ReadJob ==
    /\ wd.at = "read"
    /\ wd' = IF Stale(wd.id) THEN [wd EXCEPT !.at = "delete"]
                             ELSE AfterStaleCheck(wd.id)
    /\ UNCHANGED <<switch, turnedOn, job, age, worker, hb>>

\* clear_stale_job: job.delete(), whatever has become of the job since.
DeleteJob ==
    /\ wd.at = "delete"
    /\ job' = [job EXCEPT ![wd.id] = "none"]
    /\ wd' = AfterStaleCheck(wd.id)
    /\ UNCHANGED <<switch, turnedOn, age, worker, hb>>

\* Mutant: only the first id is looked up.
AfterFirstIdCheck ==
    IF job[wd.id] # "none" THEN NoPass ELSE [wd EXCEPT !.at = "start"]

\* any(is_job_enqueued(one) ...): the first id found ends the pass.
AfterJobCheck ==
    IF job[wd.id] # "none" THEN NoPass
    ELSE IF wd.id = "a" THEN [wd EXCEPT !.id = "b"]
    ELSE [wd EXCEPT !.at = "start"]

CheckJob ==
    /\ wd.at = "check"
    /\ wd' = AfterJobCheck
    /\ UNCHANGED <<switch, turnedOn, job, age, worker, hb>>

\* Start the loop, always under the first id.
StartLoop ==
    /\ wd.at = "start"
    /\ Enqueue("a")
    /\ wd' = NoPass
    /\ UNCHANGED <<switch, turnedOn, worker, hb>>

Watchdog == WatchdogBegins \/ ReadJob \/ DeleteJob \/ CheckJob \/ StartLoop

-----------------------------------------------------------------------------
\* The environment.

\* An administrator turns the loop's switch.
Toggle ==
    /\ switch # "none"
    /\ turnedOn' = ~turnedOn
    /\ UNCHANGED <<switch, job, age, worker, hb, wd>>

\* RQ's death penalty: no run outlives the job's timeout.
TimeoutEnforced == \A w \in Workers : Busy(w) => worker[w].ran < JobTimeout

\* One unit of time passes.  It cannot pass over a deadline: a run past its
\* timeout has been killed, a watchdog pass past its bound too, a queued job
\* has been taken up, and the top of the loop takes no time.
Tick ==
    /\ \A w \in Workers : Polling(w) => worker[w].phase = "cycle"
    /\ TimeoutEnforced
    /\ wd.at # "idle" => wd.took < PassBound
    /\ \A i \in Ids : job[i] = "queued" => age[i] < MaxQueueWait
    /\ age' = [i \in Ids |-> IF job[i] # "none" /\ age[i] < StaleAge
                             THEN age[i] + 1 ELSE age[i]]
    /\ worker' = [w \in Workers |->
                    IF Busy(w) THEN [worker[w] EXCEPT !.ran = @ + 1] ELSE Idle]
    /\ hb' = IF hb > 0 THEN hb - 1 ELSE 0
    /\ wd' = IF wd.at = "idle" THEN wd ELSE [wd EXCEPT !.took = @ + 1]
    /\ UNCHANGED <<switch, turnedOn, job>>

RunStep(w) ==
    \/ \E id \in Ids : StartJob(w, id)
    \/ BeginCycle(w) \/ ReturnDisabled(w) \/ EndCycle(w) \/ HandOff(w)
    \/ JobFinished(w) \/ JobTimedOut(w)

LoopNext ==
    \/ \E w \in Workers : RunStep(w) \/ WorkerKilled(w) \/ StopRequested(w)
    \/ Watchdog
    \/ Toggle
    \/ Tick

LoopSpec == LoopInit /\ [][LoopNext]_loopVars

\* Time passes, the cron keeps firing the watchdog, and a worker takes its
\* next step.  Nothing obliges a kill, a SIGTERM or the administrator.
LoopFairness ==
    /\ WF_loopVars(Tick)
    /\ WF_loopVars(Watchdog)
    /\ \A w \in Workers : WF_loopVars(RunStep(w))

FairLoopSpec == LoopSpec /\ LoopFairness

-----------------------------------------------------------------------------
\* Properties.

\* At most one loop is ever polling, whatever interleaving of watchdog pass,
\* hand-off, kill and slow cycle (jobs.start_loop_if_needed, hand_off_loop).
\* A second one would poll every server twice and race on every alert.
AtMostOnePoller ==
    \A v, w \in Workers : Polling(v) /\ Polling(w) => v = w

\* A job that the watchdog is about to delete has no live run behind it and
\* is not waiting for a worker: "an age no real run could reach"
\* (jobs.clear_stale_job).
DeletesOnlyDeadJobs ==
    wd.at = "delete" =>
        /\ job[wd.id] # "queued"
        /\ \A w \in Workers : Busy(w) => worker[w].id # wd.id

\* A loop that is switched on never stops for good, however often workers
\* are killed and whatever dead job is left on either id
\* (ensure_poller_running as the safety net of hand_off_loop).
KeepsPolling == []<>(~turnedOn \/ \E w \in Workers : Polling(w))

\* Once SSH polling is switched off for good its workers are given back
\* (host_poller.run_host_poll_loop's early return), although the hand-off
\* itself never looks at the switch.
StopsWhenDisabled ==
    switch = "before" /\ <>[](~turnedOn) => <>[](\A w \in Workers : ~Polling(w))

-----------------------------------------------------------------------------
\* What makes AtMostOnePoller inductive.

\* A run is the one RQ reports, and RQ's age of it is its running time.
RunsAreStarted ==
    \A w \in Workers : Busy(w) =>
        /\ job[worker[w].id] = "started"
        /\ age[worker[w].id] = worker[w].ran

OneRunPerId ==
    \A v, w \in Workers :
        Busy(v) /\ Busy(w) /\ worker[v].id = worker[w].id => v = w

\* The id is about to poll or polling.
Live(id) ==
    \/ job[id] = "queued"
    \/ \E w \in Workers : Polling(w) /\ worker[w].id = id

OneLiveId == ~(Live("a") /\ Live("b"))

QueuedIsRecent == \A i \in Ids : job[i] = "queued" => age[i] <= MaxQueueWait

DeleteIsDead ==
    wd.at = "delete" =>
        /\ job[wd.id] = "started"
        /\ \A w \in Workers : Busy(w) => worker[w].id # wd.id

\* A run under the first id that the pass did not see is younger than the
\* pass, so it cannot have handed off to the second id yet.
UnseenRunsAreYoung ==
    (wd.at = "check" /\ wd.id = "b") \/ wd.at = "start" =>
        \A w \in Workers : Busy(w) /\ worker[w].id = "a" => worker[w].ran <= wd.took

SecondIdStaysFree == wd.at = "start" => job["b"] = "none"

LoopInv ==
    /\ LoopTypeOK
    /\ RunsAreStarted
    /\ OneRunPerId
    /\ OneLiveId
    /\ QueuedIsRecent
    /\ DeleteIsDead
    /\ UnseenRunsAreYoung
    /\ SecondIdStaysFree
=============================================================================
