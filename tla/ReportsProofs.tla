--------------------------- MODULE ReportsProofs ---------------------------
(***************************************************************************)
(* What HostIngest and MetricRates keep true of a watch's stored reports,   *)
(* for any services, mounts, jobs and devices and any confirmation_checks. *)
(***************************************************************************)
EXTENDS HostIngest, MetricRates, AlertLogProofs, FiniteSetTheorems

-----------------------------------------------------------------------------
\* One watch.

Hists == UNION {[1..n -> BOOLEAN] : n \in 0..Checks}

Outcomes == {"stored", "skipped", "broke"}

\* The streak is the number of bad readings at the end of the history.
StreakCounts(n, hist) ==
    /\ n <= Len(hist)
    /\ \A i \in 1..Len(hist) : i > Len(hist) - n => hist[i]
    /\ n < Checks /\ n < Len(hist) => ~hist[Len(hist) - n]

\* What a watch keeps true even in the middle of a report: an open alert was
\* announced, and it belongs to a flag that is up or was left behind by a
\* report that broke off.
WatchStands(w) ==
    /\ w \in Watch
    /\ StreakCounts(w.streak, w.hist)
    /\ HasOpenAlert(w.rows) => w.rows.told = "problem"
    /\ HasOpenAlert(w.rows) => w.on \/ w.lost

\* After a report, a flag is up only on a full streak; and when the report was
\* stored to the end, a flag that is up has its alert.
WatchHolds(w) ==
    /\ WatchStands(w)
    /\ w.on => w.streak = Checks
    /\ w.last = "stored" /\ w.on => HasOpenAlert(w.rows)

\* ... and outside the warnings of mounts the flag of a stored report says
\* exactly whether the streak is full.
WatchIsExact(w) == w.last = "stored" => (w.on <=> w.streak = Checks)

WatchIsGood(w) == WatchHolds(w) /\ WatchIsExact(w)

\* A history is a sequence of at most Checks readings.
LEMMA HistFacts ==
    ASSUME NEW h \in Hists
    PROVE  h \in Seq(BOOLEAN) /\ Len(h) \in 0..Checks
<1>1. PICK n \in 0..Checks : h \in [1..n -> BOOLEAN]
  BY DEF Hists
<1>2. n \in Nat
  BY <1>1, Bounds
<1>. QED  BY <1>1, <1>2

LEMMA SeqIsHist ==
    ASSUME NEW h \in Seq(BOOLEAN), Len(h) \in 0..Checks
    PROVE  h \in Hists
<1>1. h \in [1..Len(h) -> BOOLEAN]
  OBVIOUS
<1>. QED  BY <1>1 DEF Hists

\* A reading pushes the oldest one out of a full history.
LEMMA RememberFacts ==
    ASSUME NEW h \in Hists, NEW bad \in BOOLEAN
    PROVE  LET m == Remember(h, bad)
               k == IF Len(h) < Checks THEN 0 ELSE 1
           IN  /\ m \in Hists
               /\ Len(m) = Len(h) + 1 - k
               /\ m[Len(m)] = bad
               /\ \A i \in 1..(Len(m) - 1) : m[i] = h[i + k]
<1>1. h \in Seq(BOOLEAN) /\ Len(h) \in 0..Checks
  BY HistFacts
<1>2. CASE Len(h) < Checks
  <2>1. Remember(h, bad) = Append(h, bad)
    BY <1>2 DEF Remember
  <2>2. Append(h, bad) \in Seq(BOOLEAN) /\ Len(Append(h, bad)) = Len(h) + 1
    BY <1>1
  <2>7. Len(Append(h, bad)) \in 0..Checks
    BY <2>2, <1>1, <1>2, Bounds
  <2>3. Append(h, bad) \in Hists
    BY <2>2, <2>7, SeqIsHist
  <2>4. Append(h, bad)[Len(h) + 1] = bad
    BY <1>1
  <2>5. \A i \in 1..Len(h) : Append(h, bad)[i] = h[i]
    BY <1>1
  <2>6. Len(h) + 1 - 0 = Len(h) + 1 /\ \A i \in 1..Len(h) : i + 0 = i
    BY <1>1
  <2>. QED  BY <1>1, <1>2, <2>1, <2>2, <2>3, <2>4, <2>5, <2>6
<1>3. CASE ~(Len(h) < Checks)
  <2>1. Remember(h, bad) = Append(Tail(h), bad)
    BY <1>3 DEF Remember
  <2>2. h # <<>> /\ Len(h) = Checks
    BY <1>1, <1>3, Bounds
  <2>3. Tail(h) \in Seq(BOOLEAN) /\ Len(Tail(h)) = Len(h) - 1
    BY <1>1, <2>2
  <2>4. \A i \in 1..Len(Tail(h)) : Tail(h)[i] = h[i + 1]
    BY <1>1, <2>2
  <2>5. Append(Tail(h), bad) \in Seq(BOOLEAN) /\ Len(Append(Tail(h), bad)) = Len(h)
    BY <2>3, <1>1
  <2>6. Append(Tail(h), bad) \in Hists
    BY <2>5, <1>1, SeqIsHist
  <2>. QED  BY <1>1, <1>3, <2>1, <2>3, <2>4, <2>5, <2>6
<1>. QED  BY <1>2, <1>3

\* Counting a reading and remembering it keeps the two in step.
LEMMA CountTracks ==
    ASSUME NEW h \in Hists, NEW bad \in BOOLEAN, NEW n \in 0..Checks, StreakCounts(n, h)
    PROVE  /\ CountBad(n, bad) \in 0..Checks
           /\ StreakCounts(CountBad(n, bad), Remember(h, bad))
<1>. DEFINE m == Remember(h, bad)
            k == IF Len(h) < Checks THEN 0 ELSE 1
<1>1. Len(h) \in 0..Checks /\ Checks \in Nat /\ Checks > 0
  BY HistFacts, Bounds
<1>2. /\ Len(m) = Len(h) + 1 - k /\ m[Len(m)] = bad
      /\ \A i \in 1..(Len(m) - 1) : m[i] = h[i + k]
  BY RememberFacts
<1>. HIDE DEF m
<1>3. CASE ~bad
  <2>1. CountBad(n, bad) = 0 /\ Len(m) \in Nat /\ Len(m) > 0
    BY <1>1, <1>2, <1>3 DEF CountBad
  <2>. QED  BY <1>1, <1>2, <1>3, <2>1 DEF StreakCounts, m
<1>4. CASE bad
  <2>1. CountBad(n, bad) = IF n < Checks THEN n + 1 ELSE Checks
    BY <1>4 DEF CountBad, Longer
  <2>2. CountBad(n, bad) \in 0..Checks
    BY <1>1, <2>1
  <2>3. Len(m) \in 1..Checks /\ CountBad(n, bad) <= Len(m)
    BY <1>1, <1>2, <2>1 DEF StreakCounts
  <2>4. ASSUME NEW i \in 1..Len(m), i > Len(m) - CountBad(n, bad) PROVE m[i]
    <3>1. CASE i = Len(m)
      BY <3>1, <1>2, <1>4
    <3>2. CASE i # Len(m)
      <4>1. i \in 1..(Len(m) - 1) /\ i + k \in 1..Len(h) /\ i + k > Len(h) - n
        BY <3>2, <2>4, <2>1, <2>3, <1>1, <1>2
      <4>. QED  BY <4>1, <1>2 DEF StreakCounts
    <3>. QED  BY <3>1, <3>2
  <2>5. ASSUME CountBad(n, bad) < Checks, CountBad(n, bad) < Len(m) PROVE ~m[Len(m) - CountBad(n, bad)]
    <3>. DEFINE j == Len(m) - CountBad(n, bad)
    <3>1. n < Checks /\ n < Len(h) /\ j \in 1..(Len(m) - 1) /\ j + k = Len(h) - n
      BY <2>5, <2>1, <2>3, <1>1, <1>2
    <3>. QED  BY <3>1, <1>2 DEF StreakCounts
  <2>. QED  BY <2>2, <2>3, <2>4, <2>5 DEF StreakCounts, m
<1>. QED  BY <1>3, <1>4

\* A full streak is a history of bad readings only.
LEMMA FullStreak ==
    ASSUME NEW h \in Hists, NEW n \in 0..Checks, StreakCounts(n, h)
    PROVE  n = Checks <=> AllBad(h)
BY HistFacts, Bounds DEF StreakCounts, AllBad
-----------------------------------------------------------------------------
\* Storing a reading in a watch.

LEMMA WatchFields ==
    ASSUME NEW w \in Watch
    PROVE  /\ w.streak \in 0..Checks /\ w.on \in BOOLEAN /\ w.rows \in Rows
           /\ w.hist \in Hists /\ w.last \in Outcomes /\ w.lost \in BOOLEAN
BY DEF Watch, Hists, Outcomes

LEMMA NewWatchHolds == WatchHolds(NewWatch) /\ WatchIsExact(NewWatch)
<1>0. 0 \in 0..MaxOpen
  BY Bounds
<1>1. NoRows \in Rows /\ NoRows.open = 0
  BY <1>0, MakeRow DEF NoRows
<1>2. <<>> \in Hists /\ 0 \in 0..Checks
  <2>1. <<>> \in Seq(BOOLEAN) /\ Len(<<>>) = 0 /\ 0 \in 0..Checks
    BY Bounds
  <2>. QED  BY <2>1, SeqIsHist
<1>3. NewWatch \in Watch
  BY <1>1, <1>2 DEF NewWatch, Watch, Hists
<1>4. StreakCounts(0, <<>>)
  BY DEF StreakCounts
<1>5. ~HasOpenAlert(NoRows)
  BY <1>1, NoneOpen
<1>. QED  BY <1>3, <1>4, <1>5 DEF NewWatch, WatchStands, WatchHolds, WatchIsExact

\* The fields that Flag sets, and those it leaves alone.
LEMMA FlagFields ==
    ASSUME NEW w \in Watch, NEW on \in BOOLEAN, NEW tells \in BOOLEAN, NEW outcome \in Outcomes,
           NEW f, f = Flag(w, on, tells, outcome)
    PROVE  /\ f \in Watch
           /\ f.streak = w.streak /\ f.hist = w.hist /\ f.on = on /\ f.last = outcome
           /\ f.rows = IF outcome = "broke" THEN w.rows ELSE HandleTransition(w.on, on, w.rows, tells)
           /\ f.lost = IF outcome = "broke" THEN w.lost \/ (HasOpenAlert(w.rows) /\ ~on)
                       ELSE w.lost /\ (w.on = on)
<1>. DEFINE r == IF outcome = "broke" THEN w.rows ELSE HandleTransition(w.on, on, w.rows, tells)
            l == IF outcome = "broke" THEN w.lost \/ (HasOpenAlert(w.rows) /\ ~on)
                 ELSE w.lost /\ (w.on = on)
<1>1. r \in Rows
  BY WatchFields, HandleTransitionType
<1>2. l \in BOOLEAN
  BY WatchFields
<1>3. f = [w EXCEPT !.on = on, !.rows = r, !.last = outcome, !.lost = l]
  BY DEF Flag
<1>. HIDE DEF r, l
<1>4. /\ f \in Watch
      /\ f.streak = w.streak /\ f.hist = w.hist /\ f.on = on /\ f.last = outcome
      /\ f.rows = r /\ f.lost = l
  BY <1>1, <1>2, <1>3 DEF Watch, Outcomes
<1>. QED  BY <1>4 DEF r, l

\* An open alert was announced, before as well as after a transition.
LEMMA OpenIsTold ==
    ASSUME NEW r \in Rows, NEW was \in BOOLEAN, NEW is \in BOOLEAN, NEW tells \in BOOLEAN,
           HasOpenAlert(r) => r.told = "problem"
    PROVE  LET n == HandleTransition(was, is, r, tells)
           IN  /\ HasOpenAlert(n) => n.told = "problem"
               /\ is => HasOpenAlert(n)
               /\ HasOpenAlert(n) => is \/ (~was /\ HasOpenAlert(r))
<1>0. r.open \in 0..MaxOpen
  BY RowFields
<1>1. DispatchAlert(r).open > 0 /\ DispatchAlert(r).told = "problem"
  BY <1>0, Bounds DEF DispatchAlert
<1>2. HasOpenAlert(DispatchAlert(r))
  BY <1>1 DEF HasOpenAlert
<1>3. ResolveAlert(r).open = 0 /\ DispatchRecovery(ResolveAlert(r)).open = 0
  BY DEF DispatchRecovery, ResolveAlert
<1>4. ~HasOpenAlert(ResolveAlert(r)) /\ ~HasOpenAlert(DispatchRecovery(ResolveAlert(r)))
  BY <1>3 DEF HasOpenAlert
<1>. QED  BY <1>1, <1>2, <1>4, Zenon DEF HandleTransition

\* A flag that is written together with its alert, or without it, keeps the
\* watch in order, provided it goes up on a full streak only.
LEMMA FlagHolds ==
    ASSUME NEW w, WatchStands(w), NEW on \in BOOLEAN, NEW tells \in BOOLEAN, NEW outcome \in Outcomes,
           on => w.streak = Checks
    PROVE  /\ WatchHolds(Flag(w, on, tells, outcome))
           /\ Flag(w, on, tells, outcome).on <=> on
           /\ Flag(w, on, tells, outcome).last = outcome
           /\ Flag(w, on, tells, outcome).streak = w.streak
<1>. DEFINE f == Flag(w, on, tells, outcome)
            n == HandleTransition(w.on, on, w.rows, tells)
<1>1. w \in Watch
  BY DEF WatchStands
<1>2. /\ f \in Watch
      /\ f.streak = w.streak /\ f.hist = w.hist /\ f.on = on /\ f.last = outcome
      /\ f.rows = IF outcome = "broke" THEN w.rows ELSE n
      /\ f.lost = IF outcome = "broke" THEN w.lost \/ (HasOpenAlert(w.rows) /\ ~on)
                  ELSE w.lost /\ (w.on = on)
  BY <1>1, FlagFields
<1>3. /\ HasOpenAlert(n) => n.told = "problem"
      /\ on => HasOpenAlert(n)
      /\ HasOpenAlert(n) => on \/ (~w.on /\ HasOpenAlert(w.rows))
  BY <1>1, WatchFields, OpenIsTold DEF WatchStands
<1>. HIDE DEF f, n
<1>4. StreakCounts(f.streak, f.hist) /\ (f.on => f.streak = Checks)
  BY <1>2 DEF WatchStands
<1>5. f.last = "stored" /\ f.on => HasOpenAlert(f.rows)
  BY <1>2, <1>3
<1>6. HasOpenAlert(f.rows) => f.rows.told = "problem"
  BY <1>2, <1>3 DEF WatchStands
<1>7. HasOpenAlert(f.rows) => f.on \/ f.lost
  BY <1>1, <1>2, <1>3, WatchFields, Zenon DEF WatchStands
<1>. QED  BY <1>2, <1>4, <1>5, <1>6, <1>7 DEF WatchStands, WatchHolds, f

\* A reading enters the history together with its streak.
LEMMA CountStands ==
    ASSUME NEW w, WatchStands(w), NEW bad \in BOOLEAN
    PROVE  WatchStands([w EXCEPT !.streak = CountBad(@, bad), !.hist = Remember(@, bad)])
<1>. DEFINE c == [w EXCEPT !.streak = CountBad(@, bad), !.hist = Remember(@, bad)]
<1>1. w \in Watch
  BY DEF WatchStands
<1>2. w.streak \in 0..Checks /\ w.hist \in Hists
  BY <1>1, WatchFields
<1>3. /\ CountBad(w.streak, bad) \in 0..Checks
      /\ StreakCounts(CountBad(w.streak, bad), Remember(w.hist, bad))
      /\ Remember(w.hist, bad) \in Hists
  BY <1>2, CountTracks, RememberFacts DEF WatchStands
<1>4. /\ c \in Watch /\ c.on = w.on /\ c.rows = w.rows /\ c.last = w.last /\ c.lost = w.lost
      /\ c.streak = CountBad(w.streak, bad) /\ c.hist = Remember(w.hist, bad)
  BY <1>1, <1>3 DEF Watch, Hists
<1>. HIDE DEF c
<1>. QED  BY <1>3, <1>4 DEF WatchStands, c

\* Storing a reading and the flag that follows from it.
LEMMA EvaluateHolds ==
    ASSUME NEW w, WatchStands(w), NEW bad \in BOOLEAN, NEW on \in BOOLEAN, NEW tells \in BOOLEAN,
           NEW outcome \in Outcomes, on => CountBad(w.streak, bad) = Checks
    PROVE  /\ WatchHolds(Evaluate(w, bad, CountBad(w.streak, bad), on, tells, outcome))
           /\ Evaluate(w, bad, CountBad(w.streak, bad), on, tells, outcome).on <=> on
           /\ Evaluate(w, bad, CountBad(w.streak, bad), on, tells, outcome).last = outcome
           /\ Evaluate(w, bad, CountBad(w.streak, bad), on, tells, outcome).streak
                = CountBad(w.streak, bad)
<1>. DEFINE c == [w EXCEPT !.streak = CountBad(@, bad), !.hist = Remember(@, bad)]
<1>1. WatchStands(c) /\ c \in Watch
  BY CountStands DEF WatchStands
<1>2. c.streak = CountBad(w.streak, bad)
  BY DEF WatchStands, Watch
<1>3. Evaluate(w, bad, CountBad(w.streak, bad), on, tells, outcome) = Flag(c, on, tells, outcome)
  BY DEF Evaluate
<1>. HIDE DEF c
<1>. QED  BY <1>1, <1>2, <1>3, FlagHolds

\* ... when the flag says whether the streak is full.
LEMMA ExactHolds ==
    ASSUME NEW w, WatchStands(w), NEW bad \in BOOLEAN, NEW on \in BOOLEAN, NEW tells \in BOOLEAN,
           NEW outcome \in Outcomes, on <=> CountBad(w.streak, bad) = Checks
    PROVE  /\ WatchIsGood(Evaluate(w, bad, CountBad(w.streak, bad), on, tells, outcome))
           /\ Evaluate(w, bad, CountBad(w.streak, bad), on, tells, outcome).last = outcome
           /\ Evaluate(w, bad, CountBad(w.streak, bad), on, tells, outcome).streak
                = CountBad(w.streak, bad)
BY EvaluateHolds DEF WatchIsGood, WatchIsExact

LEMMA CountedHolds ==
    ASSUME NEW w, WatchStands(w), NEW bad \in BOOLEAN, NEW outcome \in Outcomes
    PROVE  /\ WatchIsGood(Evaluate(w, bad, CountBad(w.streak, bad), CountBad(w.streak, bad) >= Checks, TRUE, outcome))
           /\ Evaluate(w, bad, CountBad(w.streak, bad), CountBad(w.streak, bad) >= Checks, TRUE, outcome).last = outcome
           /\ Evaluate(w, bad, CountBad(w.streak, bad), CountBad(w.streak, bad) >= Checks, TRUE, outcome).streak
                = CountBad(w.streak, bad)
<1>1. CountBad(w.streak, bad) \in 0..Checks
  BY WatchFields, CountTracks DEF WatchStands
<1>2. (CountBad(w.streak, bad) >= Checks) \in BOOLEAN /\ TRUE \in BOOLEAN
  BY <1>1, Bounds
<1>3. CountBad(w.streak, bad) >= Checks <=> CountBad(w.streak, bad) = Checks
  BY <1>1, Bounds
<1>4. WatchIsGood(Evaluate(w, bad, CountBad(w.streak, bad), CountBad(w.streak, bad) >= Checks, TRUE, outcome))
  BY <1>2, <1>3, ExactHolds, Zenon
<1>5. Evaluate(w, bad, CountBad(w.streak, bad), CountBad(w.streak, bad) >= Checks, TRUE, outcome).last = outcome
  BY DEF WatchStands, Watch, Evaluate, Flag
<1>6. Evaluate(w, bad, CountBad(w.streak, bad), CountBad(w.streak, bad) >= Checks, TRUE, outcome).streak
        = CountBad(w.streak, bad)
  BY DEF WatchStands, Watch, Evaluate, Flag
<1>. QED  BY <1>4, <1>5, <1>6, Zenon

\* A row that was skipped changes nothing but that.
LEMMA SkipHolds ==
    ASSUME NEW w, WatchHolds(w)
    PROVE  WatchHolds(Skip(w)) /\ WatchIsExact(Skip(w))
<1>1. w \in Watch
  BY DEF WatchHolds, WatchStands
<1>2. LET k == Skip(w)
      IN  /\ k \in Watch /\ k.streak = w.streak /\ k.hist = w.hist /\ k.on = w.on
          /\ k.rows = w.rows /\ k.lost = w.lost /\ k.last = "skipped"
  BY <1>1 DEF Watch, Skip
<1>. QED  BY <1>2 DEF WatchHolds, WatchStands, WatchIsExact

-----------------------------------------------------------------------------
\* HostIngest

\* A mount keeps the streaks of both of its alerts in one document.
MountHolds(m) ==
    /\ m.streak \in Streaks
    /\ WatchIsGood(m.critical) /\ m.critical.streak = m.streak.critical
    /\ WatchHolds(m.warning) /\ m.warning.streak = m.streak.warning
    /\ ~(m.critical.on /\ m.warning.on)

IngestInv ==
    /\ \A s \in Services : WatchIsGood(service[s])
    /\ DOMAIN watch = HostAlerts /\ \A a \in HostAlerts : WatchIsGood(watch[a])
    /\ \A m \in Mounts : MountHolds(mount[m])
    /\ JobRowsMirrorReport

LEMMA ServicesStep ==
    ASSUME IngestInv, ReportServices
    PROVE  IngestInv'
<1>1. PICK states \in CollectServices, outcome \in [Services -> {"stored", "broke"}] :
         service' = [s \in Services |-> UpsertService(service[s], states[s], outcome[s])]
  BY DEF ReportServices
<1>2. ASSUME NEW s \in Services PROVE WatchIsGood(service'[s])
  <2>1. service'[s] = UpsertService(service[s], states[s], outcome[s])
    BY <1>1
  <2>2. WatchIsGood(service[s]) /\ WatchStands(service[s])
    BY DEF IngestInv, WatchIsGood, WatchHolds
  <2>3. CASE states[s] = "raises"
    BY <2>1, <2>2, <2>3, SkipHolds DEF UpsertService, WatchIsGood
  <2>4. CASE states[s] # "raises"
    <3>. DEFINE bad == states[s] # "active"
                n == CountBad(service[s].streak, bad)
    <3>1. outcome[s] \in Outcomes /\ bad \in BOOLEAN
      BY DEF Outcomes
    <3>2. service'[s] = Evaluate(service[s], bad, n, n >= Checks, TRUE, outcome[s])
      BY <2>1, <2>4 DEF UpsertService
    <3>3. WatchIsGood(Evaluate(service[s], bad, n, n >= Checks, TRUE, outcome[s]))
      BY <2>2, <3>1, CountedHolds, Zenon
    <3>. QED  BY <3>2, <3>3, Zenon
  <2>. QED  BY <2>3, <2>4
<1>. QED  BY <1>2 DEF IngestInv, ReportServices, JobRowsMirrorReport

\* A flag that is cleared because there is no reading for it.
LEMMA ClearedHolds ==
    ASSUME NEW w, WatchStands(w), NEW outcome \in Outcomes
    PROVE  /\ WatchHolds(Flag(w, FALSE, TRUE, outcome))
           /\ ~Flag(w, FALSE, TRUE, outcome).on
           /\ Flag(w, FALSE, TRUE, outcome).last = outcome
           /\ Flag(w, FALSE, TRUE, outcome).streak = w.streak
<1>1. TRUE \in BOOLEAN /\ FALSE \in BOOLEAN
  OBVIOUS
<1>. QED  BY <1>1, FlagHolds, Zenon

\* ... after the row with the streaks had been stored.
LEMMA ClearedAfterCount ==
    ASSUME NEW w, WatchHolds(w), ~w.on, w.last = "skipped", NEW bad \in BOOLEAN
    PROVE  LET c == [w EXCEPT !.streak = CountBad(@, bad), !.hist = Remember(@, bad)]
           IN  WatchIsGood(c) /\ c.last = "skipped"
<1>. DEFINE c == [w EXCEPT !.streak = CountBad(@, bad), !.hist = Remember(@, bad)]
<1>1. WatchStands(w) /\ w \in Watch
  BY DEF WatchIsGood, WatchHolds, WatchStands
<1>2. WatchStands(c)
  BY <1>1, CountStands
<1>3. ~c.on /\ c.last = "skipped"
  BY <1>1 DEF Watch
<1>. QED  BY <1>2, <1>3 DEF WatchIsGood, WatchHolds, WatchIsExact

LEMMA BenchFacts ==
    ASSUME NEW b \in CollectBench, NEW a \in BenchAlerts
    PROVE  BenchReading(b, a) \in BOOLEAN /\ b.listed \subseteq Jobs /\ b.running \subseteq Jobs
<1>1. b.orphans \in BOOLEAN /\ b.listed \subseteq Jobs /\ b.running \subseteq Jobs
  BY DEF CollectBench
<1>2. CASE a = "Worker Degraded"
  BY <1>1, <1>2 DEF BenchReading
<1>3. CASE a = "Failed Job Threshold"
  <2>1. b.registry \subseteq Jobs
    BY DEF CollectBench
  <2>2. Cardinality(b.registry) \in Nat
    BY <2>1, IngestAssumption, FS_Subset, FS_CardinalityType
  <2>3. (Cardinality(b.registry) >= FailedThreshold) \in BOOLEAN
    BY <2>2, IngestAssumption
  <2>. QED  BY <1>1, <1>3, <2>3 DEF BenchReading
<1>4. CASE a = "Long Running Job"
  BY <1>1, <1>4 DEF BenchReading
<1>. QED  BY <1>1, <1>2, <1>3, <1>4 DEF BenchAlerts

\* What a bench row leaves in one watch: stored, or not.
LEMMA StoredBenchHolds ==
    ASSUME IngestInv, NEW b \in CollectBench, NEW a \in BenchAlerts
    PROVE  WatchIsGood(StoreBenchAlert(a, b, TRUE)) /\ StoreBenchAlert(a, b, TRUE).last = "stored"
<1>1. WatchStands(watch[a]) /\ "stored" \in Outcomes /\ BenchReading(b, a) \in BOOLEAN
  BY BenchFacts DEF IngestInv, WatchIsGood, WatchHolds, HostAlerts, Outcomes
<1>. DEFINE n == CountBad(watch[a].streak, BenchReading(b, a))
<1>2. StoreBenchAlert(a, b, TRUE)
        = Evaluate(watch[a], BenchReading(b, a), n, n >= Checks, TRUE, "stored")
  BY DEF StoreBenchAlert
<1>3. /\ WatchIsGood(Evaluate(watch[a], BenchReading(b, a), n, n >= Checks, TRUE, "stored"))
      /\ Evaluate(watch[a], BenchReading(b, a), n, n >= Checks, TRUE, "stored").last = "stored"
  BY <1>1, CountedHolds, Zenon
<1>. QED  BY <1>2, <1>3, Zenon

LEMMA ClearedBenchHolds ==
    ASSUME IngestInv, NEW b \in CollectBench, NEW a \in BenchAlerts
    PROVE  /\ WatchIsGood(StoreBenchAlert(a, b, FALSE))
           /\ ~StoreBenchAlert(a, b, FALSE).on /\ StoreBenchAlert(a, b, FALSE).last = "skipped"
<1>1. WatchStands(watch[a]) /\ "skipped" \in Outcomes
  BY DEF IngestInv, WatchIsGood, WatchHolds, HostAlerts, Outcomes
<1>2. StoreBenchAlert(a, b, FALSE) = Flag(watch[a], FALSE, TRUE, "skipped")
  BY DEF StoreBenchAlert
<1>. DEFINE f == StoreBenchAlert(a, b, FALSE)
<1>3. WatchHolds(f) /\ ~f.on /\ f.last = "skipped"
  BY <1>1, <1>2, ClearedHolds, Zenon
<1>. HIDE DEF f
<1>. QED  BY <1>3 DEF WatchIsGood, WatchIsExact, f

\* The job rows of a bench row that was stored in full are those of the report.
LEMMA JobRowsStored ==
    ASSUME NEW listed \in SUBSET Jobs, NEW running \in SUBSET Jobs, NEW F, NEW A
    PROVE  /\ {j \in Jobs : StoreFailedJobs(F, listed)[j] = "open"} = listed
           /\ StoreActiveJobs(A, running) = running
<1>1. {j \in Jobs : StoreFailedJobs(F, listed)[j] = "open"} = listed
  BY DEF StoreFailedJobs
<1>2. StoreActiveJobs(A, running) = running
  BY DEF StoreActiveJobs
<1>. QED  BY <1>1, <1>2

LEMMA BenchStep ==
    ASSUME IngestInv, ReportBench
    PROVE  IngestInv'
<1>1. PICK b \in CollectBench :
        /\ watch' = [a \in HostAlerts |->
                        IF a \in BenchAlerts THEN StoreBenchAlert(a, b, TRUE) ELSE watch[a]]
        /\ failed' = StoreFailedJobs(failed, b.listed)
        /\ active' = StoreActiveJobs(active, b.running)
        /\ mirror' = b.listed \cup b.running
  BY DEF ReportBench
<1>2. ASSUME NEW a \in HostAlerts PROVE WatchIsGood(watch'[a])
  <2>1. CASE a \in BenchAlerts
    <3>1. watch'[a] = StoreBenchAlert(a, b, TRUE)
      BY <1>1, <2>1
    <3>. QED  BY <2>1, <3>1, StoredBenchHolds
  <2>2. CASE a \notin BenchAlerts
    BY <1>1, <2>2 DEF IngestInv
  <2>. QED  BY <2>1, <2>2
<1>3. {j \in Jobs : failed'[j] = "open"} \cup active' = mirror'
  <2>1. b.listed \subseteq Jobs /\ b.running \subseteq Jobs
    BY DEF CollectBench
  <2>2. {j \in Jobs : StoreFailedJobs(failed, b.listed)[j] = "open"} = b.listed
    BY <2>1, JobRowsStored
  <2>3. StoreActiveJobs(active, b.running) = b.running
    BY <2>1, JobRowsStored
  <2>. QED  BY <1>1, <2>2, <2>3
<1>4. DOMAIN watch' = HostAlerts /\ UNCHANGED <<service, mount>>
  BY <1>1 DEF ReportBench
<1>. QED  BY <1>2, <1>3, <1>4 DEF IngestInv, JobRowsMirrorReport

LEMMA BenchRaisesStep ==
    ASSUME IngestInv, BenchRaisesEarly \/ BenchRaisesLate
    PROVE  IngestInv'
<1>1. ASSUME NEW a \in HostAlerts
      PROVE  WatchIsGood(watch'[a]) /\ (a \in BenchAlerts => watch'[a].last = "skipped")
  <2>1. CASE BenchRaisesEarly
    <3>1. PICK b \in CollectBench :
            watch' = [x \in HostAlerts |->
                        IF x \in BenchAlerts THEN StoreBenchAlert(x, b, FALSE) ELSE watch[x]]
      BY <2>1 DEF BenchRaisesEarly
    <3>2. CASE a \in BenchAlerts
      <4>1. watch'[a] = StoreBenchAlert(a, b, FALSE)
        BY <3>1, <3>2
      <4>. QED  BY <3>2, <4>1, ClearedBenchHolds
    <3>3. CASE a \notin BenchAlerts
      BY <3>1, <3>3 DEF IngestInv
    <3>. QED  BY <3>2, <3>3
  <2>2. CASE BenchRaisesLate
    <3>1. PICK b \in CollectBench :
            watch' = [x \in HostAlerts |->
                IF x \in BenchAlerts
                THEN [StoreBenchAlert(x, b, FALSE) EXCEPT
                        !.streak = CountBad(@, BenchReading(b, x)),
                        !.hist = Remember(@, BenchReading(b, x))]
                ELSE watch[x]]
      BY <2>2 DEF BenchRaisesLate
    <3>2. CASE a \in BenchAlerts
      <4>. DEFINE f == StoreBenchAlert(a, b, FALSE)
                  c == [f EXCEPT !.streak = CountBad(@, BenchReading(b, a)),
                                 !.hist = Remember(@, BenchReading(b, a))]
      <4>1. watch'[a] = c
        BY <3>1, <3>2
      <4>2. /\ WatchHolds(f) /\ ~f.on /\ f.last = "skipped" /\ BenchReading(b, a) \in BOOLEAN
        BY <3>2, ClearedBenchHolds, BenchFacts DEF WatchIsGood
      <4>. HIDE DEF f
      <4>3. WatchIsGood(c) /\ c.last = "skipped"
        BY <4>2, ClearedAfterCount
      <4>. QED  BY <4>1, <4>3
    <3>3. CASE a \notin BenchAlerts
      BY <3>1, <3>3 DEF IngestInv
    <3>. QED  BY <3>2, <3>3
  <2>. QED  BY <2>1, <2>2
<1>2. DOMAIN watch' = HostAlerts /\ UNCHANGED <<service, mount>>
  BY DEF BenchRaisesEarly, BenchRaisesLate
<1>3. watch'["Worker Degraded"].last # "stored"
  BY <1>1 DEF HostAlerts, BenchAlerts
<1>. QED  BY <1>1, <1>2, <1>3 DEF IngestInv, JobRowsMirrorReport

\* A host without swap: the flag is cleared, whether or not the alert was
\* reached.
LEMMA NoSwapHolds ==
    ASSUME NEW w, WatchStands(w), NEW outcome \in {"stored", "broke"}
    PROVE  WatchIsGood(StoreSwap(w, "none", outcome))
<1>. DEFINE f == Flag(w, FALSE, TRUE, outcome)
            t == [f EXCEPT !.last = IF outcome = "broke" THEN "broke" ELSE "skipped"]
<1>1. WatchHolds(f) /\ ~f.on
  BY ClearedHolds, Zenon DEF Outcomes
<1>2. StoreSwap(w, "none", outcome) = t
  BY DEF StoreSwap
<1>. HIDE DEF f
<1>3. f \in Watch
  BY <1>1 DEF WatchHolds, WatchStands
<1>4. /\ t \in Watch /\ t.last # "stored" /\ t.on = f.on /\ t.streak = f.streak
      /\ t.hist = f.hist /\ t.rows = f.rows /\ t.lost = f.lost
  BY <1>3 DEF Watch
<1>. HIDE DEF t
<1>5. WatchIsGood(t)
  BY <1>1, <1>4 DEF WatchHolds, WatchStands, WatchIsGood, WatchIsExact
<1>. QED  BY <1>2, <1>5

LEMMA MetricsStep ==
    ASSUME IngestInv, ReportMetrics
    PROVE  IngestInv'
<1>. DEFINE L == "High Load Average"
            S == "High Swap Usage"
<1>1. PICK m \in CollectMetrics, told \in {0, 1, 2} :
        LET n == CountBad(watch[L].streak, m.load = "crit")
        IN  watch' = [watch EXCEPT
                ![L] = Evaluate(@, m.load = "crit", n, n >= Checks, TRUE,
                                IF told >= 1 THEN "stored" ELSE "broke"),
                ![S] = StoreSwap(@, m.swap, IF told = 2 THEN "stored" ELSE "broke")]
  BY DEF ReportMetrics
<1>. DEFINE n == CountBad(watch[L].streak, m.load = "crit")
            ol == IF told >= 1 THEN "stored" ELSE "broke"
            os == IF told = 2 THEN "stored" ELSE "broke"
<1>2. ol \in {"stored", "broke"} /\ os \in {"stored", "broke"} /\ ol \in Outcomes /\ os \in Outcomes
  BY DEF Outcomes
<1>3. L \in HostAlerts /\ S \in HostAlerts /\ DOMAIN watch = HostAlerts
  BY DEF HostAlerts, IngestInv
<1>4. /\ watch'[L] = Evaluate(watch[L], m.load = "crit", n, n >= Checks, TRUE, ol)
      /\ watch'[S] = StoreSwap(watch[S], m.swap, os)
      /\ \A a \in HostAlerts \ {L, S} : watch'[a] = watch[a]
      /\ DOMAIN watch' = HostAlerts
  BY <1>1, <1>3
<1>. HIDE DEF ol, os
<1>5. WatchStands(watch[L]) /\ WatchStands(watch[S])
  BY <1>3 DEF IngestInv, WatchIsGood, WatchHolds
<1>6. (m.load = "crit") \in BOOLEAN /\ (m.swap = "crit") \in BOOLEAN
  OBVIOUS
<1>7. WatchIsGood(Evaluate(watch[L], m.load = "crit", n, n >= Checks, TRUE, ol))
  BY <1>2, <1>5, <1>6, CountedHolds, Zenon
<1>8. WatchIsGood(StoreSwap(watch[S], m.swap, os))
  <2>1. CASE m.swap = "none"
    BY <1>2, <1>5, <2>1, NoSwapHolds
  <2>2. CASE m.swap # "none"
    <3>. DEFINE k == CountBad(watch[S].streak, m.swap = "crit")
    <3>1. StoreSwap(watch[S], m.swap, os) = Evaluate(watch[S], m.swap = "crit", k, k >= Checks, TRUE, os)
      BY <2>2 DEF StoreSwap
    <3>2. WatchIsGood(Evaluate(watch[S], m.swap = "crit", k, k >= Checks, TRUE, os))
      BY <1>2, <1>5, <1>6, CountedHolds, Zenon
    <3>. QED  BY <3>1, <3>2, Zenon
  <2>. QED  BY <2>1, <2>2
<1>9. ASSUME NEW a \in HostAlerts PROVE WatchIsGood(watch'[a])
  <2>1. CASE a = L
    BY <2>1, <1>4, <1>7, Zenon
  <2>2. CASE a = S
    BY <2>2, <1>4, <1>8, Zenon
  <2>3. CASE a \notin {L, S}
    BY <2>3, <1>4 DEF IngestInv
  <2>. QED  BY <2>1, <2>2, <2>3
<1>10. watch'["Worker Degraded"] = watch["Worker Degraded"]
  BY <1>4 DEF HostAlerts, BenchAlerts
<1>. QED  BY <1>4, <1>9, <1>10 DEF IngestInv, JobRowsMirrorReport, ReportMetrics

\* A mount counts its readings against two lines, as its watches do.
LEMMA TrackIsCount ==
    ASSUME NEW st \in Streaks, NEW level \in Levels
    PROVE  /\ TrackSeverity(st, level).critical = CountBad(st.critical, level = "crit")
           /\ TrackSeverity(st, level).warning = CountBad(st.warning, level # "low")
           /\ TrackSeverity(st, level) \in Streaks
BY TrackSeverityType DEF TrackSeverity, CountBad

LEMMA MountStored ==
    ASSUME NEW m, MountHolds(m), NEW level \in Levels, NEW outcome \in {"stored", "half", "broke"}
    PROVE  MountHolds(UpsertMount(m, level, outcome)) /\ UpsertMount(m, level, outcome).there
<1>. DEFINE st == TrackSeverity(m.streak, level)
            first == IF outcome = "half" THEN "stored" ELSE outcome
            rest == IF outcome = "half" THEN "broke" ELSE outcome
            c == Evaluate(m.critical, level = "crit", st.critical, IsCritical(st), TRUE, first)
            w == Evaluate(m.warning, level # "low", st.warning, IsWarning(st), FALSE, rest)
<1>1. UpsertMount(m, level, outcome)
        = [there |-> TRUE, streak |-> st, critical |-> c, warning |-> w]
  BY DEF UpsertMount
<1>2. first \in Outcomes /\ rest \in Outcomes
  BY DEF Outcomes
<1>3. /\ st \in Streaks
      /\ st.critical = CountBad(m.critical.streak, level = "crit")
      /\ st.warning = CountBad(m.warning.streak, level # "low")
  BY TrackIsCount DEF MountHolds
<1>4. st.critical \in 0..Checks /\ st.warning \in 0..Checks
  BY <1>3 DEF Streaks
<1>5. /\ IsCritical(st) \in BOOLEAN /\ IsWarning(st) \in BOOLEAN /\ TRUE \in BOOLEAN /\ FALSE \in BOOLEAN
      /\ (level = "crit") \in BOOLEAN /\ (level # "low") \in BOOLEAN
      /\ IsCritical(st) <=> st.critical = Checks
      /\ IsWarning(st) => st.warning = Checks
      /\ ~(IsCritical(st) /\ IsWarning(st))
  BY <1>4, Bounds DEF IsCritical, IsWarning
<1>6. WatchStands(m.critical) /\ WatchStands(m.warning) /\ m.critical \in Watch /\ m.warning \in Watch
  BY DEF MountHolds, WatchIsGood, WatchHolds, WatchStands
<1>. HIDE DEF st, first, rest
<1>7. c.streak = st.critical /\ (c.on <=> IsCritical(st))
  BY <1>6 DEF Watch, Evaluate, Flag
<1>8. w.streak = st.warning /\ (w.on <=> IsWarning(st))
  BY <1>6 DEF Watch, Evaluate, Flag
<1>9. WatchIsGood(c)
  <2>1. IsCritical(st) <=> CountBad(m.critical.streak, level = "crit") = Checks
    BY <1>3, <1>5
  <2>2. WatchIsGood(Evaluate(m.critical, level = "crit", CountBad(m.critical.streak, level = "crit"),
                             IsCritical(st), TRUE, first))
    BY <1>2, <1>5, <1>6, <2>1, ExactHolds, Zenon
  <2>. QED  BY <1>3, <2>2, Zenon
<1>10. WatchHolds(w)
  <2>1. IsWarning(st) => CountBad(m.warning.streak, level # "low") = Checks
    BY <1>3, <1>5
  <2>2. WatchHolds(Evaluate(m.warning, level # "low", CountBad(m.warning.streak, level # "low"),
                            IsWarning(st), FALSE, rest))
    BY <1>2, <1>5, <1>6, <2>1, EvaluateHolds, Zenon
  <2>. QED  BY <1>3, <2>2, Zenon
<1>. HIDE DEF c, w
<1>. QED  BY <1>1, <1>3, <1>5, <1>7, <1>8, <1>9, <1>10 DEF MountHolds

LEMMA NewMountHolds == MountHolds(NewMount)
<1>1. 0 \in 0..Checks
  BY Bounds
<1>2. NoStreak \in Streaks /\ NoStreak.critical = 0 /\ NoStreak.warning = 0
  BY <1>1 DEF NoStreak, Streaks
<1>3. NewWatch.streak = 0 /\ ~NewWatch.on
  BY DEF NewWatch
<1>. QED  BY <1>2, <1>3, NewWatchHolds DEF NewMount, MountHolds, WatchIsGood

LEMMA DisksStep ==
    ASSUME IngestInv, ReportDisks
    PROVE  IngestInv'
<1>1. PICK level \in CollectDisks, outcome \in [Mounts -> {"stored", "half", "broke"}] :
        LET stored == {m \in Mounts : level[m] # "absent" /\ outcome[m] = "stored"}
        IN  mount' = [m \in Mounts |->
               IF Stale(stored, m) THEN NewMount
               ELSE IF level[m] # "absent" THEN UpsertMount(mount[m], level[m], outcome[m])
               ELSE mount[m]]
  BY DEF ReportDisks, RowOutcomes
<1>2. ASSUME NEW m \in Mounts PROVE MountHolds(mount'[m])
  <2>1. CASE mount'[m] = NewMount
    BY <2>1, NewMountHolds
  <2>2. CASE mount'[m] = mount[m]
    BY <2>2 DEF IngestInv
  <2>3. CASE /\ level[m] # "absent"
             /\ mount'[m] = UpsertMount(mount[m], level[m], outcome[m])
    <3>1. level[m] \in Levels /\ outcome[m] \in {"stored", "half", "broke"} /\ MountHolds(mount[m])
      BY <2>3 DEF CollectDisks, IngestInv
    <3>. QED  BY <2>3, <3>1, MountStored
  <2>. QED  BY <1>1, <2>1, <2>2, <2>3
<1>. QED  BY <1>2 DEF IngestInv, ReportDisks, JobRowsMirrorReport

LEMMA IngestInitially == IngestInit => IngestInv
<1>. SUFFICES ASSUME IngestInit PROVE IngestInv
  OBVIOUS
<1>1. /\ \A s \in Services : service[s] = NewWatch
      /\ DOMAIN watch = HostAlerts /\ \A a \in HostAlerts : watch[a] = NewWatch
      /\ \A m \in Mounts : mount[m] = NewMount
  BY DEF IngestInit
<1>2. watch["Worker Degraded"].last # "stored"
  <2>1. watch["Worker Degraded"] = NewWatch
    BY <1>1 DEF HostAlerts, BenchAlerts
  <2>2. NewWatch.last = "skipped"
    BY DEF NewWatch
  <2>. QED  BY <2>1, <2>2
<1>. QED  BY <1>1, <1>2, NewWatchHolds, NewMountHolds DEF IngestInv, WatchIsGood, JobRowsMirrorReport

\* IngestInv is inductive: each of the four sections keeps its watches, its
\* mounts and its job rows in order, also when a row raises or breaks off.
THEOREM IngestInvariant == IngestSpec => []IngestInv
<1>1. ASSUME IngestInv, [IngestNext]_ingestVars PROVE IngestInv'
  <2>1. CASE UNCHANGED ingestVars
    BY <1>1, <2>1 DEF ingestVars, IngestInv, JobRowsMirrorReport
  <2>. QED
    BY <1>1, <2>1, ServicesStep, BenchStep, BenchRaisesStep, MetricsStep, DisksStep DEF IngestNext
<1>. QED  BY <1>1, IngestInitially, PTL DEF IngestSpec

LEMMA WatchesHold == IngestInv => \A w \in Watches : WatchHolds(w)
BY DEF IngestInv, Watches, MountHolds, WatchIsGood

LEMMA StreaksAreHistories ==
    ASSUME NEW w, WatchHolds(w)
    PROVE  /\ w.on => AllBad(w.hist)
           /\ WatchIsExact(w) => (w.last = "stored" => (w.on <=> AllBad(w.hist)))
<1>1. w \in Watch /\ w.streak \in 0..Checks /\ w.hist \in Hists /\ StreakCounts(w.streak, w.hist)
  BY WatchFields DEF WatchHolds, WatchStands
<1>2. w.streak = Checks <=> AllBad(w.hist)
  BY <1>1, FullStreak
<1>. QED  BY <1>2 DEF WatchHolds, WatchIsExact

\* FlagsAreConfirmed for any services, mounts and confirmation_checks: a flag
\* of host_health/ingest.py is up exactly on Checks bad readings in a row,
\* wherever the streak is kept and whatever rows were skipped or cut short.
THEOREM FlagsConfirmed == IngestSpec => []FlagsAreConfirmed
<1>1. IngestInv => FlagsAreConfirmed
  <2>. SUFFICES ASSUME IngestInv PROVE FlagsAreConfirmed
    OBVIOUS
  <2>1. \A w \in Watches : w.on => AllBad(w.hist)
    BY WatchesHold, StreaksAreHistories
  <2>2. \A w \in {service[s] : s \in Services} \cup {watch[a] : a \in HostAlerts}
                   \cup {mount[m].critical : m \in Mounts} : WatchHolds(w) /\ WatchIsExact(w)
    BY DEF IngestInv, MountHolds, WatchIsGood
  <2>3. \A m \in Mounts : ~(mount[m].critical.on /\ mount[m].warning.on)
    BY DEF IngestInv, MountHolds
  <2>. QED  BY <2>1, <2>2, <2>3, StreaksAreHistories DEF FlagsAreConfirmed
<1>. QED  BY <1>1, IngestInvariant, PTL

\* StoredFlagsAreAnnounced: the self-healing branch of _handle_transition is
\* enough to announce every flag that a stored report leaves up.
THEOREM StoredFlagsAnnounced == IngestSpec => []StoredFlagsAreAnnounced
<1>1. IngestInv => StoredFlagsAreAnnounced
  BY WatchesHold DEF StoredFlagsAreAnnounced, WatchHolds, WatchStands
<1>. QED  BY <1>1, IngestInvariant, PTL

\* OpenAlertsAreCurrent: no open alert without its flag, but for the reports
\* that broke off between the two.
THEOREM OpenAlertsCurrent == IngestSpec => []OpenAlertsAreCurrent
<1>1. IngestInv => OpenAlertsAreCurrent
  BY WatchesHold DEF OpenAlertsAreCurrent, WatchHolds, WatchStands
<1>. QED  BY <1>1, IngestInvariant, PTL

\* JobRowsMirrorReport for any jobs and any list cap.
THEOREM JobRowsMirrored == IngestSpec => []JobRowsMirrorReport
<1>1. IngestInv => JobRowsMirrorReport
  BY DEF IngestInv
<1>. QED  BY <1>1, IngestInvariant, PTL

\* MountsAreNeverWiped: _delete_stale_resource_mounts runs only when some
\* mount of the report was stored.
THEOREM MountsStay == IngestSpec => MountsAreNeverWiped
<1>1. ASSUME IngestInv, [IngestNext]_ingestVars, NEW x \in Mounts, mount[x].there
      PROVE  \E m \in Mounts : mount'[m].there
  <2>1. CASE ReportDisks
    <3>1. PICK level \in CollectDisks, outcome \in [Mounts -> {"stored", "half", "broke"}] :
            LET stored == {m \in Mounts : level[m] # "absent" /\ outcome[m] = "stored"}
            IN  mount' = [m \in Mounts |->
                   IF Stale(stored, m) THEN NewMount
                   ELSE IF level[m] # "absent" THEN UpsertMount(mount[m], level[m], outcome[m])
                   ELSE mount[m]]
      BY <2>1 DEF ReportDisks, RowOutcomes
    <3>. DEFINE row(m) == level[m] # "absent"
                stored == {m \in Mounts : level[m] # "absent" /\ outcome[m] = "stored"}
    <3>2. ASSUME NEW m \in Mounts, row(m), ~Stale(stored, m) PROVE mount'[m].there
      <4>1. mount'[m] = UpsertMount(mount[m], level[m], outcome[m])
        BY <3>1, <3>2
      <4>. QED  BY <4>1 DEF UpsertMount
    <3>3. CASE stored = {}
      <4>1. ~Stale(stored, x)
        BY <3>3 DEF Stale
      <4>2. CASE row(x)
        BY <3>2, <4>1, <4>2
      <4>3. CASE ~row(x)
        BY <1>1, <3>1, <4>1, <4>3
      <4>. QED  BY <4>2, <4>3
    <3>4. CASE stored # {}
      <4>1. PICK m \in stored : TRUE
        BY <3>4
      <4>2. ~Stale(stored, m)
        BY <4>1 DEF Stale
      <4>. QED  BY <3>2, <4>1, <4>2
    <3>. QED  BY <3>3, <3>4
  <2>2. CASE UNCHANGED mount
    BY <1>1, <2>2
  <2>. QED
    BY <1>1, <2>1, <2>2 DEF IngestNext, ingestVars, ReportServices, ReportBench, BenchRaisesEarly,
                            BenchRaisesLate, ReportMetrics
<1>2. IngestInv /\ [IngestNext]_ingestVars
        => [(\E m \in Mounts : mount[m].there) => \E m \in Mounts : mount'[m].there]_ingestVars
  BY <1>1
<1>. QED  BY <1>2, IngestInvariant, PTL DEF IngestSpec, MountsAreNeverWiped

-----------------------------------------------------------------------------
\* MetricRates

Samples == [known: BOOLEAN, counted: BOOLEAN, count: Nat, uptime: Nat]

RatesTypes ==
    /\ kind \in MetricKinds
    /\ uptime \in Nat
    /\ count \in [Devices -> Nat] /\ total \in [Devices -> Nat] /\ reported \in [Devices -> Nat]
    /\ prev \in [Devices -> Samples] /\ age \in [Devices -> Nat]
    /\ config \in Configs
    /\ snapshot \in [hash: Configs \cup {NoHash}, due: BOOLEAN]

\* What the stored rows account for and what the counter has gained since the
\* latest one are together no more than what happened.  A reset can only
\* lower the second part, also one that is not noticed because the counter
\* has overtaken its old value since.
GainIsReal ==
    \A d \in Devices :
        prev[d].counted => reported[d] + (count[d] - prev[d].count) <= total[d]

RatesInv == RatesTypes /\ EventsNeverOvercounted /\ GainIsReal /\ SnapshotIsCurrent

LEMMA SeriesAreDevices == Single \in Devices /\ Series \subseteq Devices
BY RatesAssumption DEF Single, Series

LEMMA HostStep ==
    ASSUME RatesInv, Event \/ Tick \/ Reset
    PROVE  RatesInv'
<1>. USE DEF RatesInv, RatesTypes, EventsNeverOvercounted, GainIsReal, SnapshotIsCurrent
<1>1. CASE Event
  <2>1. PICK d \in Series : /\ count' = [count EXCEPT ![d] = @ + 1]
                            /\ total' = [total EXCEPT ![d] = @ + 1]
    BY <1>1 DEF Event
  <2>2. d \in Devices
    BY SeriesAreDevices
  <2>3. UNCHANGED <<kind, uptime, reported, prev, age, config, snapshot, answered>>
    BY <1>1 DEF Event
  <2>4. RatesTypes'
    BY <2>1, <2>2, <2>3
  <2>5. ASSUME NEW e \in Devices
        PROVE  /\ reported'[e] <= total'[e]
               /\ prev'[e].counted => reported'[e] + (count'[e] - prev'[e].count) <= total'[e]
    <3>1. \/ count'[e] = count[e] + 1 /\ total'[e] = total[e] + 1
          \/ count'[e] = count[e] /\ total'[e] = total[e]
      BY <2>1, <2>2
    <3>2. prev[e].count \in Nat
      BY DEF Samples
    <3>. QED  BY <2>3, <3>1, <3>2
  <2>. QED  BY <2>3, <2>4, <2>5
<1>2. CASE Tick
  <2>1. uptime' \in Nat /\ age' \in [Devices -> Nat]
    BY <1>2, RatesAssumption DEF Tick, LeastOf
  <2>. QED  BY <1>2, <2>1 DEF Tick
<1>3. CASE Reset
  <2>1. count' = [d \in Devices |-> 0] /\ uptime' \in Nat
    BY <1>3 DEF Reset
  <2>2. UNCHANGED <<kind, total, reported, prev, age, config, snapshot, answered>>
    BY <1>3 DEF Reset
  <2>3. ASSUME NEW d \in Devices PROVE reported'[d] + (count'[d] - prev'[d].count) <= total'[d]
    <3>1. prev[d].count \in Nat
      BY DEF Samples
    <3>. QED  BY <2>1, <2>2, <3>1
  <2>. QED  BY <2>1, <2>2, <2>3
<1>. QED  BY <1>1, <1>2, <1>3

LEMMA StoreStep ==
    ASSUME RatesInv, NEW samples \in SUBSET Devices, NEW counted \in BOOLEAN,
           StoreSamples(samples, counted)
    PROVE  RatesInv'
<1>. USE DEF RatesInv, RatesTypes
<1>1. UNCHANGED <<kind, uptime, count, total, config, snapshot, answered>>
  BY DEF StoreSamples
<1>2. ASSUME NEW d \in Devices
      PROVE  /\ prev[d] \in Samples /\ prev'[d] \in Samples
             /\ reported'[d] \in Nat /\ reported'[d] <= total[d]
             /\ prev'[d].counted => reported'[d] + (count[d] - prev'[d].count) <= total[d]
  <2>0. prev[d] \in Samples /\ prev[d].count \in Nat /\ count[d] \in Nat /\ uptime \in Nat
    BY DEF Samples
  <2>1. CASE d \notin samples
    BY <2>0, <2>1 DEF StoreSamples, EventsNeverOvercounted, GainIsReal
  <2>2. CASE d \in samples
    <3>1. prev'[d] = Sample(d, counted)
      BY <2>2 DEF StoreSamples
    <3>2. /\ Sample(d, counted) \in Samples
          /\ Sample(d, counted).counted = counted
          /\ counted => Sample(d, counted).count = count[d]
      BY <2>0 DEF Sample, Samples
    <3>3. CASE counted /\ HasRate(d)
      <4>1. reported'[d] = reported[d] + CounterDelta(d)
        BY <2>2, <3>3 DEF StoreSamples
      <4>2. CounterDelta(d) = count[d] - prev[d].count /\ prev[d].counted /\ CounterDelta(d) \in Nat
        BY <2>0, <3>3 DEF HasRate, CounterDelta
      <4>. QED  BY <2>0, <3>1, <3>2, <4>1, <4>2 DEF GainIsReal
    <3>4. CASE ~(counted /\ HasRate(d))
      <4>1. reported'[d] = reported[d]
        BY <2>2, <3>4 DEF StoreSamples
      <4>. QED  BY <2>0, <3>1, <3>2, <4>1 DEF EventsNeverOvercounted
    <3>. QED  BY <3>3, <3>4
  <2>. QED  BY <2>1, <2>2
<1>3. /\ prev' \in [Devices -> Samples] /\ reported' \in [Devices -> Nat]
      /\ age' \in [Devices -> Nat]
  <2>1. age' \in [Devices -> Nat]
    BY DEF StoreSamples
  <2>2. DOMAIN prev' = Devices /\ DOMAIN reported' = Devices
    BY DEF StoreSamples
  <2>3. prev' = [d \in Devices |-> prev'[d]] /\ reported' = [d \in Devices |-> reported'[d]]
    BY DEF StoreSamples
  <2>. QED  BY <1>2, <2>1, <2>3
<1>. QED  BY <1>1, <1>2, <1>3 DEF EventsNeverOvercounted, GainIsReal, SnapshotIsCurrent

LEMMA SnapshotStep ==
    ASSUME RatesInv, ChangeConfig \/ StoreSnapshot \/ HourPasses
    PROVE  RatesInv'
<1>. USE DEF RatesInv
<1>1. CASE ChangeConfig
  BY <1>1 DEF ChangeConfig, counterVars, RatesTypes, EventsNeverOvercounted, GainIsReal, SnapshotIsCurrent
<1>2. CASE StoreSnapshot
  <2>1. UNCHANGED <<kind, counterVars, config>>
    BY <1>2 DEF StoreSnapshot
  <2>2. PICK variables \in CollectMariadb, data \in MariadbDataSizes :
          /\ snapshot' = IF SnapshotNeeded(variables, data)
                         THEN [hash |-> variables, due |-> FALSE] ELSE snapshot
          /\ answered' = (variables # NoHash)
    BY <1>2 DEF StoreSnapshot
  <2>4. snapshot' \in [hash: Configs \cup {NoHash}, due: BOOLEAN]
    BY <2>2 DEF CollectMariadb, RatesTypes
  <2>3. ASSUME answered' PROVE snapshot'.hash = config
    <3>1. variables = config /\ variables # NoHash
      BY <2>2, <2>3 DEF CollectMariadb
    <3>2. CASE SnapshotNeeded(variables, data)
      BY <2>2, <3>1, <3>2
    <3>3. CASE ~SnapshotNeeded(variables, data)
      BY <2>2, <3>1, <3>3 DEF SnapshotNeeded
    <3>. QED  BY <3>2, <3>3
  <2>. QED
    BY <2>1, <2>3, <2>4 DEF counterVars, RatesTypes, EventsNeverOvercounted, GainIsReal, SnapshotIsCurrent
<1>3. CASE HourPasses
  <2>1. UNCHANGED <<kind, counterVars, config, answered>>
    BY <1>3 DEF HourPasses
  <2>2. snapshot' \in [hash: Configs \cup {NoHash}, due: BOOLEAN] /\ snapshot'.hash = snapshot.hash
    BY <1>3 DEF HourPasses, RatesTypes
  <2>. QED
    BY <2>1, <2>2 DEF counterVars, RatesTypes, EventsNeverOvercounted, GainIsReal, SnapshotIsCurrent
<1>. QED  BY <1>1, <1>2, <1>3

\* RatesInv is inductive.
THEOREM RatesInvariant == RatesSpec => []RatesInv
<1>1. RatesInit => RatesInv
  <2>. SUFFICES ASSUME RatesInit PROVE RatesInv
    OBVIOUS
  <2>1. NoSample \in Samples /\ ~NoSample.counted
    BY DEF NoSample, Samples
  <2>2. \A d \in Devices : prev[d] = NoSample /\ reported[d] = 0 /\ total[d] = 0
    BY DEF RatesInit
  <2>3. RatesTypes
    BY <2>1 DEF RatesInit, RatesTypes
  <2>4. GainIsReal /\ EventsNeverOvercounted
    BY <2>1, <2>2 DEF GainIsReal, EventsNeverOvercounted
  <2>. QED  BY <2>3, <2>4 DEF RatesInv, RatesInit, SnapshotIsCurrent
<1>2. ASSUME RatesInv, [RatesNext]_ratesVars PROVE RatesInv'
  <2>1. CASE Event \/ Tick \/ Reset
    BY <1>2, <2>1, HostStep
  <2>2. CASE StoreMemorySample \/ StoreMariadbSample \/ StoreRedisSample
    <3>1. PICK samples \in SUBSET Devices, counted \in BOOLEAN : StoreSamples(samples, counted)
      BY <2>2, SeriesAreDevices DEF StoreMemorySample, StoreMariadbSample, StoreRedisSample,
                                    CollectCounters, CollectRedis
    <3>. QED  BY <1>2, <3>1, StoreStep
  <2>3. CASE StoreIoSamples
    <3>1. PICK here \in CollectIo : \E R \in SUBSET here, F \in SUBSET here : StoreSamples(R \cup F, TRUE)
      BY <2>3, Zenon DEF StoreIoSamples
    <3>3. PICK R \in SUBSET here, F \in SUBSET here : StoreSamples(R \cup F, TRUE)
      BY <3>1
    <3>2. PICK samples \in SUBSET Devices, counted \in BOOLEAN : StoreSamples(samples, counted)
      <4>1. R \cup F \in SUBSET Devices /\ TRUE \in BOOLEAN
        BY DEF CollectIo
      <4>. QED  BY <3>3, <4>1, Zenon
    <3>. QED  BY <1>2, <3>2, StoreStep
  <2>4. CASE ChangeConfig \/ StoreSnapshot \/ HourPasses
    BY <1>2, <2>4, SnapshotStep
  <2>5. CASE UNCHANGED ratesVars
    BY <1>2, <2>5 DEF ratesVars, counterVars, RatesInv, RatesTypes, EventsNeverOvercounted, GainIsReal,
                      SnapshotIsCurrent
  <2>. QED  BY <1>2, <2>1, <2>2, <2>3, <2>4, <2>5 DEF RatesNext
<1>. QED  BY <1>1, <1>2, PTL DEF RatesSpec

\* EventsNeverOvercounted for any devices, gaps and caps: no sequence of resets,
\* missed polls and samples that were not kept makes _counter_delta account
\* for an event that did not happen, or for one twice.
THEOREM NeverOvercounted == RatesSpec => []EventsNeverOvercounted
<1>1. RatesInv => EventsNeverOvercounted
  BY DEF RatesInv
<1>. QED  BY <1>1, RatesInvariant, PTL

\* SnapshotIsCurrent for any settings (_store_mariadb_snapshot).
THEOREM SnapshotsAreCurrent == RatesSpec => []SnapshotIsCurrent
<1>1. RatesInv => SnapshotIsCurrent
  BY DEF RatesInv
<1>. QED  BY <1>1, RatesInvariant, PTL
=============================================================================
