--------------------------- MODULE PollLoopProofs ---------------------------
(***************************************************************************)
(* PollLoop's safety for every number of workers and every timing that     *)
(* satisfies TimingAssumption: LoopInv is inductive and gives AtMostOnePoller *)
(* and DeletesOnlyDeadJobs.                                                *)
(***************************************************************************)
EXTENDS PollLoop, TLAPS

\* The two ids and what the hand-off does to them.
LEMMA OtherId ==
    ASSUME NEW id \in Ids
    PROVE  Other(id) \in Ids /\ Other(id) # id /\ Successor(id) = Other(id)
BY DEF Ids, Other, Successor

\* A worker's entry is either Idle or a run, and no run equals Idle.
LEMMA RunIsBusy ==
    ASSUME NEW r \in Run
    PROVE  r # Idle
BY IdleAssumption, TimingAssumption DEF Run

\* The invariant holds before the first job.
LEMMA InitLoopInv == LoopInit => LoopInv
<1> SUFFICES ASSUME LoopInit PROVE LoopInv
  OBVIOUS
<1> USE TimingAssumption
<1>1. turnedOn \in BOOLEAN /\ switch \in Switches
  BY Zenon DEF LoopInit
<1>2. wd \in [at: WdSteps, id: Ids, took: 0..PassBound] /\ wd.at = "idle"
  BY DEF LoopInit, NoPass, WdSteps, Ids
<1>3. LoopTypeOK
  BY <1>1, <1>2 DEF LoopInit, LoopTypeOK
<1>4. \A w \in Workers : ~Busy(w)
  BY DEF LoopInit, Busy
<1>5. RunsAreStarted /\ OneRunPerId /\ DeleteIsDead /\ UnseenRunsAreYoung
      /\ SecondIdStaysFree
  BY <1>2, <1>4 DEF RunsAreStarted, OneRunPerId, DeleteIsDead,
     UnseenRunsAreYoung, SecondIdStaysFree
<1>6. OneLiveId /\ QueuedIsRecent
  BY <1>4 DEF LoopInit, OneLiveId, Live, QueuedIsRecent, Polling, Ids
<1> QED
  BY <1>3, <1>5, <1>6 DEF LoopInv

-----------------------------------------------------------------------------
\* Each action preserves the inductive invariant.

\* A worker takes a job off the queue.
LEMMA StartJobLoopInv ==
    ASSUME LoopInv, NEW w \in Workers, NEW id \in Ids, StartJob(w, id)
    PROVE  LoopInv'
<1> USE TimingAssumption
<1> DEFINE r == [id |-> id, phase |-> "top", ran |-> 0]
<1>1. r \in Run
  BY DEF Run
<1>2. r # Idle
  BY <1>1, RunIsBusy
<1>3. worker'[w] = r /\ \A v \in Workers \ {w} : worker'[v] = worker[v]
  BY DEF StartJob, LoopInv, LoopTypeOK
<1>4. LoopTypeOK'
  BY <1>1 DEF StartJob, LoopInv, LoopTypeOK, Ids
<1>5. RunsAreStarted'
  BY <1>2, <1>3 DEF StartJob, LoopInv, LoopTypeOK, RunsAreStarted, Busy, Run
<1>6. \A v \in Workers : Busy(v) => worker[v].id # id
  BY DEF StartJob, LoopInv, RunsAreStarted
<1>7. OneRunPerId'
  BY <1>3, <1>6 DEF LoopInv, OneRunPerId, Busy
<1>8. OneLiveId'
  BY <1>2, <1>3, <1>6 DEF StartJob, LoopInv, LoopTypeOK, OneLiveId, Live, Polling, Busy, Ids
<1>9. QueuedIsRecent' /\ DeleteIsDead' /\ SecondIdStaysFree'
  BY <1>3, <1>6 DEF StartJob, LoopInv, LoopTypeOK, QueuedIsRecent, DeleteIsDead,
     SecondIdStaysFree, Busy, Ids
<1>10. UnseenRunsAreYoung'
  BY <1>3 DEF StartJob, LoopInv, LoopTypeOK, UnseenRunsAreYoung, Busy
<1> QED
  BY <1>4, <1>5, <1>7, <1>8, <1>9, <1>10 DEF LoopInv

\* The three ways in which a worker stops executing a run.  A kill leaves the
\* job as RQ last saw it; the other two take it off the record.
LEMMA WorkerGoesIdle ==
    ASSUME LoopInv, NEW w \in Workers, Busy(w),
           worker' = [worker EXCEPT ![w] = Idle],
           UNCHANGED <<switch, turnedOn, age, hb, wd>>,
           \/ UNCHANGED job
           \/ job' = [job EXCEPT ![worker[w].id] = "none"]
    PROVE  LoopInv'
<1> USE TimingAssumption
<1>1. worker'[w] = Idle /\ \A v \in Workers \ {w} : worker'[v] = worker[v]
  BY DEF LoopInv, LoopTypeOK
<1>2. worker[w].id \in Ids
  BY DEF LoopInv, LoopTypeOK, Busy, Run
<1>3. LoopTypeOK'
  BY <1>2 DEF LoopInv, LoopTypeOK, Ids
<1>4. RunsAreStarted'
  BY <1>1, <1>2 DEF LoopInv, LoopTypeOK, RunsAreStarted, OneRunPerId, Busy, Run
<1>5. OneRunPerId'
  BY <1>1 DEF LoopInv, OneRunPerId, Busy
<1>6. \A i \in Ids : Live(i)' => Live(i)
  BY <1>1, <1>2 DEF LoopInv, LoopTypeOK, Live, Polling, Busy
<1>7. OneLiveId' /\ QueuedIsRecent'
  BY <1>2, <1>6 DEF LoopInv, LoopTypeOK, OneLiveId, QueuedIsRecent, Ids
<1>8. DeleteIsDead'
  BY <1>1, <1>2 DEF LoopInv, LoopTypeOK, DeleteIsDead, Busy
<1>9. UnseenRunsAreYoung' /\ SecondIdStaysFree'
  BY <1>1, <1>2 DEF LoopInv, LoopTypeOK, UnseenRunsAreYoung, SecondIdStaysFree, Busy, Ids
<1> QED
  BY <1>3, <1>4, <1>5, <1>7, <1>8, <1>9 DEF LoopInv

\* A run moves to another phase and may, from a polling phase and only when
\* its time is up, queue its successor on the way out.
LEMMA PhaseChange ==
    ASSUME LoopInv, NEW w \in Workers, Polling(w),
           NEW p \in {"top", "cycle", "over"},
           worker' = [worker EXCEPT ![w].phase = p],
           UNCHANGED <<switch, turnedOn, wd>>,
           hb' \in 0..HeartbeatTtl,
           \/ UNCHANGED <<job, age>>
           \/ /\ p = "over"
              /\ worker[w].ran >= MaxLoop
              /\ Enqueue(Successor(worker[w].id))
    PROVE  LoopInv'
<1> USE TimingAssumption
<1> DEFINE i == worker[w].id
<1>1. worker[w] \in Run /\ i \in Ids /\ Other(i) \in Ids /\ Other(i) # i
      /\ Successor(i) = Other(i)
  BY OtherId DEF LoopInv, LoopTypeOK, Polling, Busy, Run
<1>2. /\ worker'[w] \in Run
      /\ worker'[w].id = i /\ worker'[w].ran = worker[w].ran
      /\ worker'[w].phase = p
      /\ \A v \in Workers \ {w} : worker'[v] = worker[v]
  BY <1>1 DEF LoopInv, LoopTypeOK, Run
<1>3. Busy(w) /\ Busy(w)'
  BY <1>1, <1>2, RunIsBusy DEF Busy
<1>4. \/ UNCHANGED <<job, age>>
      \/ /\ p = "over" /\ worker[w].ran >= MaxLoop
         /\ job[Other(i)] = "none"
         /\ job' = [job EXCEPT ![Other(i)] = "queued"]
         /\ age' = [age EXCEPT ![Other(i)] = 0]
  BY <1>1 DEF Enqueue
<1>5. LoopTypeOK'
  <2>1. worker' \in [Workers -> Run \cup {Idle}]
    BY <1>2 DEF LoopInv, LoopTypeOK
  <2>2. job' \in [Ids -> {"none", "queued", "started"}] /\ age' \in [Ids -> 0..StaleAge]
    BY <1>1, <1>4 DEF LoopInv, LoopTypeOK
  <2> QED
    BY <2>1, <2>2 DEF LoopInv, LoopTypeOK
<1>6. RunsAreStarted'
  BY <1>1, <1>2, <1>3, <1>4 DEF LoopInv, LoopTypeOK, RunsAreStarted, Busy, Run
<1>7. OneRunPerId'
  BY <1>2, <1>3 DEF LoopInv, OneRunPerId, Busy
<1>8. OneLiveId'
  <2>1. CASE UNCHANGED <<job, age>>
    <3>1. \A j \in Ids : Live(j)' => Live(j)
      BY <2>1, <1>2, <1>3 DEF Live, Polling, Busy
    <3> QED
      BY <3>1 DEF LoopInv, OneLiveId, Ids
  <2>2. CASE /\ p = "over"
             /\ job[Other(i)] = "none"
             /\ job' = [job EXCEPT ![Other(i)] = "queued"]
    <3>1. job'[i] = "started"
      BY <1>1, <1>3, <2>2 DEF LoopInv, LoopTypeOK, RunsAreStarted
    <3>2. \A v \in Workers : Polling(v)' => worker'[v].id # i
      BY <1>2, <1>3, <2>2 DEF LoopInv, OneRunPerId, Polling, Busy
    <3>3. ~Live(i)'
      BY <3>1, <3>2 DEF Live
    <3> QED
      BY <1>1, <3>3 DEF OneLiveId, Ids
  <2> QED
    BY <1>4, <2>1, <2>2
<1>9. QueuedIsRecent'
  BY <1>1, <1>4 DEF LoopInv, LoopTypeOK, QueuedIsRecent
<1>10. DeleteIsDead'
  BY <1>1, <1>2, <1>3, <1>4 DEF LoopInv, LoopTypeOK, DeleteIsDead, Busy
<1>11. UnseenRunsAreYoung'
  BY <1>2, <1>3 DEF LoopInv, UnseenRunsAreYoung, Busy
<1>12. SecondIdStaysFree'
  <2> SUFFICES ASSUME wd.at = "start" PROVE job'["b"] = "none"
    BY DEF SecondIdStaysFree
  <2>1. job["b"] = "none"
    BY DEF LoopInv, SecondIdStaysFree
  <2>2. i = "a" => worker[w].ran <= wd.took
    BY <1>3 DEF LoopInv, UnseenRunsAreYoung
  <2>3. wd.took \in Nat /\ wd.took <= PassBound /\ worker[w].ran \in Nat
    BY <1>1 DEF LoopInv, LoopTypeOK, Run
  <2>4. i = "a" => worker[w].ran < MaxLoop
    BY <2>2, <2>3
  <2>5. worker[w].ran >= MaxLoop => Other(i) = "a"
    BY <1>1, <2>3, <2>4 DEF Ids, Other
  <2> QED
    BY <1>1, <1>4, <2>1, <2>5 DEF LoopInv, LoopTypeOK, Ids
<1> QED
  BY <1>5, <1>6, <1>7, <1>8, <1>9, <1>10, <1>11, <1>12 DEF LoopInv

-----------------------------------------------------------------------------
\* The watchdog's steps.

\* Each step of a watchdog pass.
LEMMA WatchdogLoopInv ==
    ASSUME LoopInv, Watchdog
    PROVE  LoopInv'
<1> USE TimingAssumption DEF LoopInv
<1>1. wd.id \in Ids /\ wd.took \in 0..PassBound
      /\ wd \in [at: WdSteps, id: Ids, took: 0..PassBound]
  BY DEF LoopTypeOK
<1>2. NoPass \in [at: WdSteps, id: Ids, took: 0..PassBound] /\ NoPass.at = "idle"
  BY DEF NoPass, WdSteps, Ids
<1>3. /\ AfterStaleCheck(wd.id) \in [at: WdSteps, id: Ids, took: 0..PassBound]
      /\ AfterStaleCheck(wd.id).at \in {"read", "check"}
      /\ AfterStaleCheck(wd.id).at = "check" => AfterStaleCheck(wd.id).id = "a"
  BY <1>1 DEF AfterStaleCheck, WdSteps, Ids
<1>4. ASSUME UNCHANGED <<switch, turnedOn, job, age, worker, hb>>
      PROVE  /\ RunsAreStarted' /\ OneRunPerId' /\ OneLiveId' /\ QueuedIsRecent'
             /\ wd' \in [at: WdSteps, id: Ids, took: 0..PassBound] => LoopTypeOK'
  BY <1>4 DEF LoopTypeOK, RunsAreStarted, OneRunPerId, OneLiveId, Live,
     QueuedIsRecent, Busy, Polling
<1>5. CASE WatchdogBegins
  <2>1. wd' \in [at: WdSteps, id: Ids, took: 0..PassBound] /\ wd'.at = "read"
    BY <1>2, <1>5 DEF WatchdogBegins, NoPass, WdSteps
  <2>2. DeleteIsDead' /\ UnseenRunsAreYoung' /\ SecondIdStaysFree'
    BY <2>1 DEF DeleteIsDead, UnseenRunsAreYoung, SecondIdStaysFree
  <2> QED
    BY <1>4, <1>5, <2>1, <2>2 DEF WatchdogBegins
<1>6. CASE ReadJob
  <2>1. CASE Stale(wd.id)
    <3>1. wd' = [wd EXCEPT !.at = "delete"]
      BY <1>6, <2>1 DEF ReadJob
    <3>2. /\ wd' \in [at: WdSteps, id: Ids, took: 0..PassBound]
          /\ wd'.at = "delete" /\ wd'.id = wd.id
      BY <1>1, <3>1 DEF WdSteps
    <3>3. job[wd.id] = "started"
      BY <1>1, <2>1 DEF Stale, LoopTypeOK, QueuedIsRecent
    <3>4. \A w \in Workers : Busy(w) => worker[w].id # wd.id
      BY <1>1, <2>1 DEF Stale, LoopTypeOK, RunsAreStarted, Busy, Run
    <3>5. DeleteIsDead' /\ UnseenRunsAreYoung' /\ SecondIdStaysFree'
      BY <1>6, <3>2, <3>3, <3>4 DEF ReadJob, DeleteIsDead, UnseenRunsAreYoung,
         SecondIdStaysFree, Busy
    <3> QED
      BY <1>4, <1>6, <3>2, <3>5 DEF ReadJob
  <2>2. CASE ~Stale(wd.id)
    <3>1. wd' = AfterStaleCheck(wd.id)
      BY <1>6, <2>2 DEF ReadJob
    <3>2. DeleteIsDead' /\ UnseenRunsAreYoung' /\ SecondIdStaysFree'
      BY <1>3, <3>1 DEF DeleteIsDead, UnseenRunsAreYoung, SecondIdStaysFree
    <3> QED
      BY <1>3, <1>4, <1>6, <3>1, <3>2 DEF ReadJob
  <2> QED
    BY <2>1, <2>2
<1>7. CASE DeleteJob
  <2>1. /\ wd' = AfterStaleCheck(wd.id)
        /\ job' = [job EXCEPT ![wd.id] = "none"]
        /\ UNCHANGED <<switch, turnedOn, age, worker, hb>>
    BY <1>7 DEF DeleteJob
  <2>2. \A w \in Workers : Busy(w) => worker[w].id # wd.id
    BY <1>7 DEF DeleteJob, DeleteIsDead
  <2>3. LoopTypeOK'
    BY <1>1, <1>3, <2>1 DEF LoopTypeOK
  <2>4. RunsAreStarted' /\ OneRunPerId'
    BY <1>1, <2>1, <2>2 DEF LoopTypeOK, RunsAreStarted, OneRunPerId, Busy, Run
  <2>5. \A i \in Ids : Live(i)' => Live(i)
    BY <1>1, <2>1 DEF LoopTypeOK, Live, Polling, Busy
  <2>6. OneLiveId' /\ QueuedIsRecent'
    BY <1>1, <2>1, <2>5 DEF LoopTypeOK, OneLiveId, QueuedIsRecent, Ids
  <2>7. DeleteIsDead' /\ UnseenRunsAreYoung' /\ SecondIdStaysFree'
    BY <1>3, <2>1 DEF DeleteIsDead, UnseenRunsAreYoung, SecondIdStaysFree
  <2> QED
    BY <2>3, <2>4, <2>6, <2>7
<1>8. CASE CheckJob
  <2>0. UNCHANGED <<switch, turnedOn, job, age, worker, hb>> /\ wd' = AfterJobCheck
    BY <1>8 DEF CheckJob
  <2>1. CASE job[wd.id] # "none"
    <3>1. wd' = NoPass
      BY <2>0, <2>1 DEF AfterJobCheck
    <3>2. DeleteIsDead' /\ UnseenRunsAreYoung' /\ SecondIdStaysFree'
      BY <1>2, <3>1 DEF DeleteIsDead, UnseenRunsAreYoung, SecondIdStaysFree
    <3> QED
      BY <1>2, <1>4, <2>0, <3>1, <3>2
  <2>2. CASE job[wd.id] = "none" /\ wd.id = "a"
    <3>1. wd' = [wd EXCEPT !.id = "b"]
      BY <2>0, <2>2 DEF AfterJobCheck
    <3>2. /\ wd' \in [at: WdSteps, id: Ids, took: 0..PassBound]
          /\ wd'.at = "check" /\ wd'.id = "b"
      BY <1>1, <1>8, <3>1 DEF CheckJob, Ids
    <3>3. \A w \in Workers : Busy(w) => worker[w].id # "a"
      BY <2>2 DEF RunsAreStarted
    <3>4. DeleteIsDead' /\ UnseenRunsAreYoung' /\ SecondIdStaysFree'
      BY <2>0, <3>2, <3>3 DEF DeleteIsDead, UnseenRunsAreYoung, SecondIdStaysFree, Busy
    <3> QED
      BY <1>4, <2>0, <3>2, <3>4
  <2>3. CASE job[wd.id] = "none" /\ wd.id # "a"
    <3>1. wd' = [wd EXCEPT !.at = "start"]
      BY <2>0, <2>3 DEF AfterJobCheck
    <3>2. /\ wd' \in [at: WdSteps, id: Ids, took: 0..PassBound]
          /\ wd'.at = "start" /\ wd.id = "b" /\ wd'.took = wd.took
      BY <1>1, <2>3, <3>1 DEF WdSteps, Ids
    <3>3. UnseenRunsAreYoung'
      BY <1>8, <2>0, <3>2 DEF CheckJob, UnseenRunsAreYoung, Busy
    <3>4. DeleteIsDead' /\ SecondIdStaysFree'
      BY <2>0, <2>3, <3>2 DEF DeleteIsDead, SecondIdStaysFree
    <3> QED
      BY <1>4, <2>0, <3>2, <3>3, <3>4
  <2> QED
    BY <2>1, <2>2, <2>3
<1>9. CASE StartLoop
  <2>1. /\ wd.at = "start" /\ wd' = NoPass
        /\ UNCHANGED <<switch, turnedOn, worker, hb>>
        /\ \/ UNCHANGED <<job, age>>
           \/ /\ job["a"] = "none"
              /\ job' = [job EXCEPT !["a"] = "queued"]
              /\ age' = [age EXCEPT !["a"] = 0]
    BY <1>9 DEF StartLoop, Enqueue
  <2>2. LoopTypeOK'
    BY <1>2, <2>1 DEF LoopTypeOK, Ids
  <2>3. RunsAreStarted' /\ OneRunPerId'
    BY <2>1 DEF LoopTypeOK, RunsAreStarted, OneRunPerId, Busy, Run, Ids
  <2>4. job["b"] = "none" /\ job'["b"] = "none"
    BY <2>1 DEF LoopTypeOK, SecondIdStaysFree, Ids
  <2>5. ~Live("b")'
    BY <2>1, <2>4 DEF RunsAreStarted, Live, Polling, Busy
  <2>6. OneLiveId' /\ QueuedIsRecent'
    BY <2>1, <2>5 DEF LoopTypeOK, OneLiveId, QueuedIsRecent, Ids
  <2>7. DeleteIsDead' /\ UnseenRunsAreYoung' /\ SecondIdStaysFree'
    BY <1>2, <2>1 DEF DeleteIsDead, UnseenRunsAreYoung, SecondIdStaysFree
  <2> QED
    BY <2>2, <2>3, <2>6, <2>7
<1> QED
  BY <1>5, <1>6, <1>7, <1>8, <1>9 DEF Watchdog

-----------------------------------------------------------------------------
\* Time and the administrator.

\* A minute passes for the jobs, the runs, the heartbeat and the pass.
LEMMA TickLoopInv ==
    ASSUME LoopInv, Tick
    PROVE  LoopInv'
<1> USE TimingAssumption
<1>1. /\ \A w \in Workers : Busy(w) => worker[w] \in Run
      /\ wd \in [at: WdSteps, id: Ids, took: 0..PassBound]
  BY DEF LoopInv, LoopTypeOK, Busy
<1>2. \A w \in Workers : Busy(w) =>
        /\ worker'[w] \in Run
        /\ worker'[w].id = worker[w].id
        /\ worker'[w].phase = worker[w].phase
        /\ worker'[w].ran = worker[w].ran + 1
  <2> SUFFICES ASSUME NEW w \in Workers, Busy(w)
               PROVE  /\ worker'[w] \in Run
                      /\ worker'[w].id = worker[w].id
                      /\ worker'[w].phase = worker[w].phase
                      /\ worker'[w].ran = worker[w].ran + 1
    OBVIOUS
  <2>1. worker'[w] = [worker[w] EXCEPT !.ran = @ + 1]
    BY DEF Tick
  <2>2. worker[w] \in Run /\ worker[w].ran < JobTimeout
    BY <1>1 DEF Tick, TimeoutEnforced
  <2> QED
    BY <2>1, <2>2 DEF Run
<1>3. \A w \in Workers : (Busy(w)' <=> Busy(w)) /\ (Polling(w)' <=> Polling(w))
  <2>1. \A w \in Workers : Busy(w) => Busy(w)'
    BY <1>2, RunIsBusy DEF Busy
  <2>2. \A w \in Workers : ~Busy(w) => ~Busy(w)'
    BY DEF Tick, Busy
  <2> QED
    BY <1>2, <2>1, <2>2 DEF Polling
<1>4. worker' \in [Workers -> Run \cup {Idle}]
  <2>1. worker' = [w \in Workers |-> worker'[w]]
    BY DEF Tick
  <2>2. \A w \in Workers : worker'[w] \in Run \cup {Idle}
    BY <1>2, <1>3 DEF Busy
  <2> QED
    BY <2>1, <2>2
<1>5. /\ wd' \in [at: WdSteps, id: Ids, took: 0..PassBound]
      /\ wd'.at = wd.at /\ wd'.id = wd.id
      /\ wd.at # "idle" => wd'.took = wd.took + 1
  BY <1>1 DEF Tick
<1>6. /\ age' \in [Ids -> 0..StaleAge]
      /\ \A i \in Ids : age[i] < StaleAge /\ job[i] # "none" => age'[i] = age[i] + 1
      /\ job' = job
  BY DEF Tick, LoopInv, LoopTypeOK
<1>7. LoopTypeOK'
  BY <1>4, <1>5, <1>6 DEF Tick, LoopInv, LoopTypeOK
<1>8. RunsAreStarted'
  <2> SUFFICES ASSUME NEW w \in Workers, Busy(w)
               PROVE  /\ job'[worker'[w].id] = "started"
                      /\ age'[worker'[w].id] = worker'[w].ran
    BY <1>3 DEF RunsAreStarted
  <2>1. /\ worker[w].id \in Ids /\ worker[w].ran \in Nat /\ worker[w].ran <= JobTimeout
        /\ job[worker[w].id] = "started" /\ age[worker[w].id] = worker[w].ran
    BY <1>1 DEF LoopInv, RunsAreStarted, Run
  <2>2. age[worker[w].id] < StaleAge
    BY <2>1
  <2> QED
    BY <1>2, <1>6, <2>1, <2>2
<1>9. OneRunPerId'
  BY <1>2, <1>3 DEF LoopInv, OneRunPerId
<1>10. \A i \in Ids : Live(i)' => Live(i)
  BY <1>2, <1>3, <1>6 DEF Live, Polling
<1>11. OneLiveId'
  BY <1>10 DEF LoopInv, OneLiveId, Ids
<1>12. QueuedIsRecent'
  BY <1>6 DEF Tick, LoopInv, LoopTypeOK, QueuedIsRecent
<1>13. DeleteIsDead' /\ SecondIdStaysFree'
  BY <1>2, <1>3, <1>5, <1>6 DEF LoopInv, DeleteIsDead, SecondIdStaysFree
<1>14. UnseenRunsAreYoung'
  <2> SUFFICES ASSUME (wd.at = "check" /\ wd.id = "b") \/ wd.at = "start",
                      NEW w \in Workers, Busy(w), worker[w].id = "a"
               PROVE  worker'[w].ran <= wd'.took
    BY <1>2, <1>3, <1>5 DEF UnseenRunsAreYoung
  <2>1. worker[w].ran <= wd.took /\ worker[w].ran \in Nat /\ wd.took \in Nat
    BY <1>1 DEF LoopInv, UnseenRunsAreYoung, Run
  <2> QED
    BY <1>2, <1>5, <2>1
<1> QED
  BY <1>7, <1>8, <1>9, <1>11, <1>12, <1>13, <1>14 DEF LoopInv

\* Nothing happens.
LEMMA UnchangedLoopInv ==
    ASSUME LoopInv, UNCHANGED <<switch, job, age, worker, hb, wd>>, turnedOn' \in BOOLEAN
    PROVE  LoopInv'
<1>1. LoopTypeOK'
  BY DEF LoopInv, LoopTypeOK
<1>2. RunsAreStarted' /\ OneRunPerId' /\ OneLiveId'
  BY DEF LoopInv, RunsAreStarted, OneRunPerId, OneLiveId, Live, Busy, Polling
<1>3. QueuedIsRecent' /\ DeleteIsDead' /\ UnseenRunsAreYoung' /\ SecondIdStaysFree'
  BY DEF LoopInv, QueuedIsRecent, DeleteIsDead, UnseenRunsAreYoung,
     SecondIdStaysFree, Busy
<1> QED
  BY <1>1, <1>2, <1>3 DEF LoopInv

\* One step of a worker, RQ's steps on its behalf included.
LEMMA WorkerStepLoopInv ==
    ASSUME LoopInv, NEW w \in Workers,
           RunStep(w) \/ WorkerKilled(w) \/ StopRequested(w)
    PROVE  LoopInv'
<1> USE TimingAssumption
<1>1. ASSUME NEW id \in Ids, StartJob(w, id) PROVE LoopInv'
  BY <1>1, StartJobLoopInv
<1>2. CASE BeginCycle(w)
  <2>1. hb' \in 0..HeartbeatTtl
    BY <1>2 DEF BeginCycle
  <2> QED
    BY <1>2, <2>1, PhaseChange DEF BeginCycle, SetPhase, Polling
<1>3. CASE ReturnDisabled(w)
  <2>1. hb' \in 0..HeartbeatTtl
    BY <1>3 DEF ReturnDisabled, LoopInv, LoopTypeOK
  <2> QED
    BY <1>3, <2>1, PhaseChange DEF ReturnDisabled, SetPhase, Polling
<1>4. CASE EndCycle(w)
  <2>1. hb' \in 0..HeartbeatTtl
    BY <1>4 DEF EndCycle, LoopInv, LoopTypeOK
  <2>2. Polling(w) /\ UNCHANGED <<switch, turnedOn, wd>>
    BY <1>4 DEF EndCycle, Polling
  <2>3. CASE switch = "after" /\ ~turnedOn
    BY <1>4, <2>1, <2>2, <2>3, PhaseChange DEF EndCycle, SetPhase
  <2>4. CASE ~(switch = "after" /\ ~turnedOn)
    BY <1>4, <2>1, <2>2, <2>4, PhaseChange DEF EndCycle, SetPhase
  <2> QED
    BY <2>3, <2>4
<1>5. CASE HandOff(w)
  <2>1. hb' \in 0..HeartbeatTtl
    BY <1>5 DEF HandOff, LoopInv, LoopTypeOK
  <2> QED
    BY <1>5, <2>1, PhaseChange DEF HandOff, SetPhase, Polling
<1>6. CASE JobFinished(w)
  BY <1>6, WorkerGoesIdle DEF JobFinished
<1>7. CASE JobTimedOut(w)
  BY <1>7, WorkerGoesIdle DEF JobTimedOut, Polling
<1>8. CASE WorkerKilled(w)
  BY <1>8, WorkerGoesIdle DEF WorkerKilled
<1>9. CASE StopRequested(w)
  <2>1. hb' \in 0..HeartbeatTtl
    BY <1>9 DEF StopRequested, LoopInv, LoopTypeOK
  <2> QED
    BY <1>9, <2>1, PhaseChange DEF StopRequested, SetPhase
<1> QED
  BY <1>1, <1>2, <1>3, <1>4, <1>5, <1>6, <1>7, <1>8, <1>9 DEF RunStep

\* Every step preserves the invariant.
LEMMA NextLoopInv == LoopInv /\ [LoopNext]_loopVars => LoopInv'
<1> SUFFICES ASSUME LoopInv, [LoopNext]_loopVars PROVE LoopInv'
  OBVIOUS
<1>1. CASE \E w \in Workers : RunStep(w) \/ WorkerKilled(w) \/ StopRequested(w)
  BY <1>1, WorkerStepLoopInv
<1>2. CASE Watchdog
  BY <1>2, WatchdogLoopInv
<1>3. CASE Toggle
  <2>1. turnedOn' \in BOOLEAN
    BY <1>3, Zenon DEF Toggle
  <2> QED
    BY <1>3, <2>1, UnchangedLoopInv DEF Toggle
<1>4. CASE Tick
  BY <1>4, TickLoopInv
<1>5. CASE UNCHANGED loopVars
  <2>1. turnedOn' \in BOOLEAN
    BY <1>5 DEF loopVars, LoopInv, LoopTypeOK
  <2> QED
    BY <1>5, <2>1, UnchangedLoopInv DEF loopVars
<1> QED
  BY <1>1, <1>2, <1>3, <1>4, <1>5 DEF LoopNext

-----------------------------------------------------------------------------
\* The invariant that carries both safety properties of the loops' life
\* cycle (jobs.py and the three run_*_loop functions).
THEOREM InductiveInvariant == LoopSpec => []LoopInv
BY InitLoopInv, NextLoopInv, PTL DEF LoopSpec

\* The variables of the loop life cycle stay in their types; in particular
\* no run outlives RQ's timeout.
THEOREM TypeCorrect == LoopSpec => []LoopTypeOK
<1>1. LoopInv => LoopTypeOK
  BY DEF LoopInv
<1> QED
  BY <1>1, InductiveInvariant, PTL

\* For any number of workers, and any timing in which a run is bounded below
\* RQ's timeout, that timeout below the stale age and a watchdog pass below
\* the run's bound, two loops never poll at the same time.
THEOREM OnePollerAtMost == LoopSpec => []AtMostOnePoller
<1>1. LoopInv => AtMostOnePoller
  <2> SUFFICES ASSUME LoopInv, NEW v \in Workers, NEW w \in Workers,
                      Polling(v), Polling(w)
               PROVE  v = w
    BY DEF AtMostOnePoller
  <2>1. worker[v].id \in Ids /\ worker[w].id \in Ids
    BY DEF LoopInv, LoopTypeOK, Polling, Busy, Run
  <2>2. Live(worker[v].id) /\ Live(worker[w].id)
    BY DEF Live
  <2>3. worker[v].id = worker[w].id
    BY <2>1, <2>2 DEF LoopInv, OneLiveId, Ids
  <2> QED
    BY <2>3 DEF LoopInv, OneRunPerId, Polling
<1> QED
  BY <1>1, InductiveInvariant, PTL

\* clear_stale_job never takes away a job that is waiting or running, under
\* the same assumptions and a queue wait shorter than the stale age.
THEOREM OnlyDeadJobsDeleted == LoopSpec => []DeletesOnlyDeadJobs
<1>1. LoopInv => DeletesOnlyDeadJobs
  BY DEF LoopInv, DeleteIsDead, DeletesOnlyDeadJobs
<1> QED
  BY <1>1, InductiveInvariant, PTL
=============================================================================
