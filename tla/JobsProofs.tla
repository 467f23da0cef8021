----------------------------- MODULE JobsProofs -----------------------------
(***************************************************************************)
(* Proofs about the jobs that run beside the poll loops (the log monitor,  *)
(* the alert batches and digests, the LLM usage sync, site discovery), the *)
(* maintenance calendar and the backup history.                            *)
(***************************************************************************)
EXTENDS LogMonitor, AlertDelivery, BifrostSync, SiteDiscovery, MaintenanceCalendar, BackupHistory,
        AlertLogProofs, FiniteSetTheorems

-----------------------------------------------------------------------------
\* Naturals.

\* A non-empty set of naturals has a least member.
LEMMA LeastNatural ==
    ASSUME NEW T \in SUBSET Nat, T # {}
    PROVE  \E x \in T : \A y \in T : x <= y
<1>1. PICK x \in T : \A y \in T : ~(<<y, x>> \in OpToRel(<, Nat))
  BY NatLessThanWellFounded, WFMin
<1>2. ASSUME NEW y \in T PROVE x <= y
  <2>1. <<y, x>> \in Nat \X Nat /\ <<y,x>>[1] = y /\ <<y,x>>[2] = x
    OBVIOUS
  <2>2. ~(y < x)
    BY <1>1, <2>1 DEF OpToRel
  <2>. QED  BY <2>2
<1>. QED  BY <1>2

\* ... and a non-empty finite one a greatest.
LEMMA GreatestNatural ==
    ASSUME NEW n \in Nat, NEW T \in SUBSET (0..n), T # {}
    PROVE  \E x \in T : \A y \in T : y <= x
<1>. DEFINE U == {n - x : x \in T}
<1>0. \A x \in T : x \in Nat /\ n - x \in Nat
  OBVIOUS
<1>1. U \in SUBSET Nat /\ U # {}
  BY <1>0
<1>2. PICK u \in U : \A v \in U : u <= v
  BY <1>1, LeastNatural
<1>3. PICK x \in T : u = n - x
  OBVIOUS
<1>4. ASSUME NEW y \in T PROVE y <= x
  <2>1. n - y \in U
    OBVIOUS
  <2>2. u <= n - y
    BY <1>2, <2>1
  <2>. QED  BY <1>0, <1>3, <2>2
<1>. QED  BY <1>4

-----------------------------------------------------------------------------
\* LogMonitor.

SnapTypes(e, r) == e \in [Signatures -> Errors] /\ r \in [Signatures -> Rows]

\* An incident is open exactly while the error is critical; the second part,
\* that an ignored error is never critical, is what lets a user take the flag
\* back without an incident appearing out of nothing.
Matches(e, r) == (HasOpenAlert(r) <=> e.critical) /\ ~(e.ignored /\ e.critical)

\* What a check that is under way has read: it was consistent, it is what the
\* tables still hold for errors nobody touched, and the query left out what
\* was ignored at that time.
ReadIsConsistent ==
    check.phase = "read" =>
        /\ SnapTypes(check.error, check.rows)
        /\ check.breaching \subseteq Signatures
        /\ \A s \in Signatures :
              /\ Matches(check.error[s], check.rows[s])
              /\ s \notin check.touched => check.error[s] = error[s] /\ check.rows[s] = errRows[s]
              /\ s \in check.breaching => ~check.error[s].ignored

LogInv ==
    /\ SnapTypes(error, errRows)
    /\ \A s \in Signatures : Matches(error[s], errRows[s])
    /\ ReadIsConsistent

\* What happens at ClickHouse leaves the tables and the check alone.
LEMMA LogUnchanged ==
    ASSUME LogInv, UNCHANGED <<error, errRows, check>>
    PROVE  LogInv'
BY DEF LogInv, SnapTypes, ReadIsConsistent

\* The row operators, as far as an open incident goes.
LEMMA OpenAfter ==
    ASSUME NEW r \in Rows
    PROVE  /\ HasOpenAlert(DispatchAlert(r))
           /\ ~HasOpenAlert(ResolveAlert(r))
           /\ ~HasOpenAlert(DispatchRecovery(ResolveAlert(r)))
<1>1. r.open \in 0..MaxOpen
  BY RowFields
<1>2. DispatchAlert(r).open > 0
  BY <1>1, Bounds DEF DispatchAlert
<1>3. ResolveAlert(r).open = 0 /\ DispatchRecovery(ResolveAlert(r)).open = 0
  BY DEF ResolveAlert, DispatchRecovery
<1>. QED  BY <1>2, <1>3 DEF HasOpenAlert

\* One signature changes under a user's hands, to an error and rows that
\* match again, and the check that is under way has it marked as touched.
LEMMA TouchStep ==
    ASSUME LogInv, NEW s \in Signatures, NEW e \in Errors, NEW r \in Rows, Matches(e, r),
           error' = [error EXCEPT ![s] = e], errRows' = [errRows EXCEPT ![s] = r], Touch(s)
    PROVE  LogInv'
<1>1. SnapTypes(error, errRows)' /\ \A t \in Signatures : Matches(error'[t], errRows'[t])
  BY DEF LogInv, SnapTypes
<1>2. ASSUME check'.phase = "read"
      PROVE  /\ check.phase = "read" /\ check'.error = check.error /\ check'.rows = check.rows
             /\ check'.breaching = check.breaching /\ check'.touched = check.touched \cup {s}
  BY <1>2 DEF Touch, LogInv, ReadIsConsistent, NoCheck
<1>3. \A t \in Signatures : t # s => error'[t] = error[t] /\ errRows'[t] = errRows[t]
  BY DEF LogInv, SnapTypes
<1>4. ReadIsConsistent'
  <2>. SUFFICES ASSUME check'.phase = "read" PROVE ReadIsConsistent'
    BY DEF ReadIsConsistent
  <2>. QED  BY <1>2, <1>3 DEF LogInv, ReadIsConsistent, SnapTypes
<1>. QED  BY <1>1, <1>4 DEF LogInv

\* resolve_error and set_error_ignored.
LEMMA ResolveStep ==
    ASSUME LogInv, NEW s \in Signatures, ResolveError(s)
    PROVE  LogInv'
<1>. DEFINE e == [error[s] EXCEPT !.critical = FALSE]
            r == IF HasOpenAlert(errRows[s]) THEN DispatchRecovery(ResolveAlert(errRows[s])) ELSE errRows[s]
<1>1. error[s] \in Errors /\ errRows[s] \in Rows
  BY DEF LogInv, SnapTypes
<1>2. e \in Errors /\ ~e.critical
  BY <1>1 DEF Errors
<1>3. r \in Rows
  <2>1. ResolveAlert(errRows[s]) \in Rows
    BY <1>1, RowOperators
  <2>. QED  BY <1>1, <2>1, RowOperators
<1>4. ~HasOpenAlert(r)
  BY <1>1, OpenAfter
<1>5. Matches(e, r)
  BY <1>2, <1>4 DEF Matches
<1>6. error' = [error EXCEPT ![s] = e] /\ errRows' = [errRows EXCEPT ![s] = r] /\ Touch(s)
  BY DEF ResolveError, LogInv, SnapTypes
<1>. HIDE DEF e, r
<1>. QED  BY <1>2, <1>3, <1>5, <1>6, TouchStep

LEMMA IgnoreStep ==
    ASSUME LogInv, NEW s \in Signatures, NEW ignored \in BOOLEAN, SetErrorIgnored(s, ignored)
    PROVE  LogInv'
<1>. DEFINE e == IF ignored THEN [critical |-> FALSE, ignored |-> TRUE]
                 ELSE [error[s] EXCEPT !.ignored = FALSE]
            r == IF ignored THEN ResolveAlert(errRows[s]) ELSE errRows[s]
<1>1. error[s] \in Errors /\ errRows[s] \in Rows /\ Matches(error[s], errRows[s])
  BY DEF LogInv, SnapTypes
<1>2. e \in Errors
  BY <1>1 DEF Errors
<1>3. r \in Rows
  BY <1>1, RowOperators
<1>4. Matches(e, r)
  BY <1>1, OpenAfter DEF Matches, Errors
<1>5. error' = [error EXCEPT ![s] = e] /\ errRows' = [errRows EXCEPT ![s] = r] /\ Touch(s)
  BY DEF SetErrorIgnored, LogInv, SnapTypes
<1>. HIDE DEF e, r
<1>. QED  BY <1>2, <1>3, <1>4, <1>5, TouchStep

\* The query starts a check from consistent tables.
LEMMA ReadStep ==
    ASSUME LogInv, ReadErrors
    PROVE  LogInv'
<1>1. PICK B \in SUBSET Over :
        check' = [phase |-> "read", error |-> error, rows |-> errRows,
                  over |-> Over, breaching |-> B, touched |-> {}]
  BY DEF ReadErrors
<1>2. error' = error /\ errRows' = errRows
  BY DEF ReadErrors
<1>3. /\ check'.error = error /\ check'.rows = errRows
      /\ check'.breaching = B /\ check'.touched = {}
  BY <1>1
<1>4. \A s \in B : s \in Signatures /\ ~error[s].ignored
  BY DEF Over
<1>. QED  BY <1>2, <1>3, <1>4 DEF LogInv, SnapTypes, ReadIsConsistent

\* run_check writes what it decided from its snapshot over the tables as they
\* are now.  A breaching error is one nobody touched, or doc.save raises; a
\* recovering one may have been touched, but closing it fits whatever the
\* user made of it.
LEMMA ApplyStep ==
    ASSUME LogInv, ApplyCheck
    PROVE  LogInv'
<1>1. ReadIsConsistent'
  BY DEF ApplyCheck, NoCheck, ReadIsConsistent
<1>2. ASSUME NEW s \in Signatures
      PROVE  error'[s] \in Errors /\ errRows'[s] \in Rows /\ Matches(error'[s], errRows'[s])
  <2>1. error[s] \in Errors /\ errRows[s] \in Rows /\ Matches(error[s], errRows[s])
    BY DEF LogInv, SnapTypes
  <2>2. check.error[s] \in Errors /\ check.rows[s] \in Rows /\ Matches(check.error[s], check.rows[s])
    BY DEF LogInv, ReadIsConsistent, ApplyCheck, SnapTypes
  <2>3. CASE s \in check.breaching
    <3>1. check.error[s] = error[s] /\ check.rows[s] = errRows[s] /\ ~error[s].ignored
      BY <2>3 DEF ApplyCheck, SaveClashes, LogInv, ReadIsConsistent
    <3>2. error'[s] = [error[s] EXCEPT !.critical = TRUE]
      BY <2>3 DEF ApplyCheck
    <3>3. errRows'[s] = IF NeedsAlert(s) THEN DispatchAlert(errRows[s])
                        ELSE IF Recovers(s) /\ HasOpenAlert(check.rows[s])
                             THEN DispatchRecovery(ResolveAlert(errRows[s])) ELSE errRows[s]
      BY <2>3 DEF ApplyCheck
    <3>4. ~Recovers(s)
      BY <2>3 DEF Recovers
    <3>5. error'[s] \in Errors /\ error'[s].critical /\ ~error'[s].ignored
      BY <2>1, <3>1, <3>2 DEF Errors
    <3>6. errRows'[s] \in Rows /\ HasOpenAlert(errRows'[s])
      BY <2>1, <3>1, <3>3, <3>4, RowOperators, OpenAfter DEF NeedsAlert
    <3>. QED  BY <3>5, <3>6 DEF Matches
  <2>4. CASE s \notin check.breaching /\ Recovers(s)
    <3>1. HasOpenAlert(check.rows[s])
      BY <2>2, <2>4 DEF Recovers, Matches
    <3>2. error'[s] = [error[s] EXCEPT !.critical = FALSE]
      BY <2>4 DEF ApplyCheck
    <3>3. errRows'[s] = DispatchRecovery(ResolveAlert(errRows[s]))
      BY <2>4, <3>1 DEF ApplyCheck
    <3>4. error'[s] \in Errors /\ ~error'[s].critical
      BY <2>1, <3>2 DEF Errors
    <3>5. ResolveAlert(errRows[s]) \in Rows
      BY <2>1, RowOperators
    <3>6. errRows'[s] \in Rows /\ ~HasOpenAlert(errRows'[s])
      BY <2>1, <3>3, <3>5, RowOperators, OpenAfter
    <3>. QED  BY <3>4, <3>6 DEF Matches
  <2>5. CASE s \notin check.breaching /\ ~Recovers(s)
    BY <2>1, <2>5 DEF ApplyCheck
  <2>. QED  BY <2>3, <2>4, <2>5
<1>3. /\ error' = [s \in Signatures |-> error'[s]]
      /\ errRows' = [s \in Signatures |-> errRows'[s]]
  BY DEF ApplyCheck
<1>4. SnapTypes(error, errRows)'
  BY <1>2, <1>3 DEF SnapTypes
<1>. QED  BY <1>1, <1>2, <1>4 DEF LogInv

\* LogInv is inductive.
THEOREM LogInvariant == LogSpec => []LogInv
<1>1. LogInit => LogInv
  <2>. SUFFICES ASSUME LogInit PROVE LogInv
    OBVIOUS
  <2>1. NoRows \in Rows /\ ~HasOpenAlert(NoRows)
    BY Bounds DEF NoRows, Rows, HasOpenAlert
  <2>2. [critical |-> FALSE, ignored |-> FALSE] \in Errors
    BY DEF Errors
  <2>3. \A s \in Signatures : Matches(error[s], errRows[s])
    BY <2>1 DEF LogInit, Matches
  <2>4. SnapTypes(error, errRows)
    BY <2>1, <2>2 DEF LogInit, SnapTypes
  <2>5. ReadIsConsistent
    BY DEF LogInit, NoCheck, ReadIsConsistent
  <2>. QED  BY <2>3, <2>4, <2>5 DEF LogInv
<1>2. ASSUME LogInv, [LogNext]_logVars PROVE LogInv'
  <2>1. ASSUME NEW s \in Signatures, ErrorOccurs(s) \/ ErrorAges(s) PROVE LogInv'
    BY <1>2, <2>1, LogUnchanged DEF ErrorOccurs, ErrorAges
  <2>2. ASSUME NEW s \in Signatures, NEW t \in Signatures, SaveSiteAlias(s, t) PROVE LogInv'
    BY <1>2, <2>2, LogUnchanged DEF SaveSiteAlias
  <2>3. ASSUME NEW s \in Signatures, ResolveError(s) PROVE LogInv'
    BY <1>2, <2>3, ResolveStep
  <2>4. ASSUME NEW s \in Signatures, NEW ignored \in BOOLEAN, SetErrorIgnored(s, ignored) PROVE LogInv'
    BY <1>2, <2>4, IgnoreStep
  <2>5. CASE ReadErrors
    BY <1>2, <2>5, ReadStep
  <2>6. CASE ApplyCheck
    BY <1>2, <2>6, ApplyStep
  <2>7. CASE CheckFails
    BY <1>2, <2>7 DEF CheckFails, NoCheck, LogInv, SnapTypes, ReadIsConsistent
  <2>8. CASE UNCHANGED logVars
    BY <1>2, <2>8, LogUnchanged DEF logVars
  <2>. QED  BY <1>2, <2>1, <2>2, <2>3, <2>4, <2>5, <2>6, <2>7, <2>8 DEF LogNext
<1>. QED  BY <1>1, <1>2, PTL DEF LogSpec

\* ErrorIncidentsMatchBoard for any signatures, threshold and group limit,
\* through every interleaving of run_check with resolve_error and
\* set_error_ignored.
THEOREM IncidentsMatchBoard == LogSpec => []ErrorIncidentsMatchBoard
<1>1. LogInv => ErrorIncidentsMatchBoard
  BY DEF LogInv, Matches, ErrorIncidentsMatchBoard
<1>. QED  BY <1>1, LogInvariant, PTL

-----------------------------------------------------------------------------
\* AlertDelivery.

DeliveryTypes ==
    /\ clock \in 0..MaxTime
    /\ row \in [Alerts -> Row]
    /\ marker \in Int /\ NoMarker <= marker /\ marker <= clock
    /\ batch \in [phase: {"idle", "window"}, start: Int, end: Int]
    /\ gapStart \in Int /\ wiped \in BOOLEAN

\* The window of the batch under way ends where the marker is, unless Redis
\* lost it meanwhile.
WindowEndsAtMarker ==
    batch.phase = "window" =>
        /\ batch.start <= batch.end
        /\ marker = batch.end \/ (marker = NoMarker /\ wiped)

\* The stamps below this have had their window: it has been read, or (while a
\* batch is under way) it was read before the one of that batch began.
Behind == IF batch.phase = "window" THEN batch.start ELSE marker

NothingLeftBehind ==
    \A a \in Alerts :
        /\ row[a].kind = "batched" /\ row[a].state = "committed" /\ row[a].stamp < Behind
        /\ batch.phase = "window" \/ marker # NoMarker
        => row[a].swept > 0 \/ row[a].late \/ row[a].stamp < gapStart

\* A row that a batch had lies behind; only committed rows were in one.
SweptLieBehind ==
    \A a \in Alerts : row[a].swept > 0 =>
        row[a].state = "committed" /\ (wiped \/ row[a].stamp <= Behind)

DeliveryInv == DeliveryTypes /\ WindowEndsAtMarker /\ NothingLeftBehind /\ SweptLieBehind

LEMMA DeliveryBounds == Lookback \in Nat /\ MaxTime \in Nat /\ DayLength \in Nat /\ DayLength > 0
BY DeliveryAssumption

LEMMA RowParts ==
    ASSUME NEW r \in Row
    PROVE  /\ r.stamp \in 0..MaxTime /\ r.late \in BOOLEAN
           /\ r.swept \in Nat /\ r.digested \in Nat /\ r.mailed \in Nat
BY DEF Row

LEMMA NoRowType ==
    ASSUME NEW k \in {"batched", "digest"}
    PROVE  NoRow(k) \in Row
<1>1. 0 \in 0..MaxTime
  BY DeliveryBounds
<1>. QED  BY <1>1 DEF NoRow, Row

\* A step of one row; the others, the clock and the batch stand still.
LEMMA OneRowStep ==
    ASSUME DeliveryInv, NEW a \in Alerts, NEW r \in Row, row' = [row EXCEPT ![a] = r],
           UNCHANGED <<clock, marker, batch, wiped, gapStart>>,
           r.state = "committed" => r.late \/ ~(r.stamp < Behind) \/ ~(batch.phase = "window" \/ marker # NoMarker),
           r.swept = 0
    PROVE  DeliveryInv'
<1>1. row'[a] = r /\ \A b \in Alerts : b # a => row'[b] = row[b]
  BY DEF DeliveryInv, DeliveryTypes
<1>2. DeliveryTypes' /\ WindowEndsAtMarker'
  BY DEF DeliveryInv, DeliveryTypes, WindowEndsAtMarker
<1>3. Behind' = Behind
  BY DEF Behind
<1>4. NothingLeftBehind'
  BY <1>1, <1>3 DEF DeliveryInv, NothingLeftBehind
<1>5. SweptLieBehind'
  BY <1>1, <1>3 DEF DeliveryInv, SweptLieBehind
<1>. QED  BY <1>2, <1>4, <1>5 DEF DeliveryInv

LEMMA LogAlertStep ==
    ASSUME DeliveryInv, NEW a \in Alerts, LogAlert(a)
    PROVE  DeliveryInv'
<1>. DEFINE r == [row[a] EXCEPT !.state = "pending", !.stamp = clock]
<1>1. row[a] \in Row /\ clock \in 0..MaxTime
  BY DEF DeliveryInv, DeliveryTypes
<1>2. r \in Row /\ r.state = "pending" /\ r.swept = row[a].swept
  BY <1>1 DEF Row
<1>3. row[a].swept = 0
  BY <1>1, RowParts DEF DeliveryInv, SweptLieBehind, LogAlert
<1>4. row' = [row EXCEPT ![a] = r] /\ UNCHANGED <<clock, marker, batch, wiped, gapStart>>
  BY <1>1 DEF LogAlert, DeliveryInv, DeliveryTypes
<1>. HIDE DEF r
<1>. QED  BY <1>2, <1>3, <1>4, OneRowStep

LEMMA EndTransactionStep ==
    ASSUME DeliveryInv, NEW a \in Alerts, EndTransaction(a)
    PROVE  DeliveryInv'
<1>. DEFINE done == [row[a] EXCEPT !.state = "committed", !.late = row[a].stamp < Behind]
<1>1. row[a] \in Row
  BY DEF DeliveryInv, DeliveryTypes
<1>2. row[a].swept = 0
  BY <1>1, RowParts DEF DeliveryInv, SweptLieBehind, EndTransaction
<1>3. UNCHANGED <<clock, marker, batch, wiped, gapStart>>
  BY DEF EndTransaction
<1>4. CASE row' = [row EXCEPT ![a] = done]
  <2>1. (row[a].stamp < Behind) \in BOOLEAN
    OBVIOUS
  <2>2. done \in Row
    BY <1>1, <2>1 DEF Row
  <2>3. /\ done.stamp = row[a].stamp /\ done.swept = row[a].swept
        /\ done.late <=> row[a].stamp < Behind
    BY <1>1 DEF Row
  <2>. HIDE DEF done
  <2>. QED  BY <1>2, <1>3, <1>4, <2>2, <2>3, OneRowStep
<1>5. CASE row' = [row EXCEPT ![a] = NoRow(row[a].kind)]
  <2>1. NoRow(row[a].kind) \in Row
    BY <1>1, NoRowType DEF Row
  <2>2. NoRow(row[a].kind).state = "none" /\ NoRow(row[a].kind).swept = 0
    BY DEF NoRow
  <2>. QED  BY <1>3, <1>5, <2>1, <2>2, OneRowStep
<1>6. row' = [row EXCEPT ![a] = done] \/ row' = [row EXCEPT ![a] = NoRow(row[a].kind)]
  BY <1>1 DEF EndTransaction, Behind, DeliveryInv, DeliveryTypes
<1>. QED  BY <1>4, <1>5, <1>6

\* send_resource_alert_batch moves the marker: what lay behind it lies behind
\* the start of the window, and without a marker the observer notes the gap.
LEMMA BatchStartStep ==
    ASSUME DeliveryInv, BatchStart
    PROVE  DeliveryInv'
<1>1. /\ batch.phase = "idle" /\ marker < clock /\ row' = row /\ clock' = clock /\ wiped' = wiped
      /\ marker' = clock /\ gapStart' = IF marker = NoMarker THEN WindowStart ELSE gapStart
  BY DEF BatchStart
<1>2. /\ batch' = [phase |-> "window", start |-> WindowStart, end |-> clock]
      /\ batch'.phase = "window" /\ batch'.start = WindowStart /\ batch'.end = clock
  BY DEF BatchStart
<1>3. /\ WindowStart \in Int /\ WindowStart <= clock
      /\ marker # NoMarker => WindowStart = marker
  BY <1>1, DeliveryBounds DEF WindowStart, DeliveryInv, DeliveryTypes
<1>4. Behind = marker /\ Behind' = WindowStart
  BY <1>1, <1>2 DEF Behind
<1>5. \A a \in Alerts : row[a] \in Row /\ row[a].stamp \in Nat
  BY RowParts DEF DeliveryInv, DeliveryTypes
<1>6. DeliveryTypes'
  BY <1>1, <1>2, <1>3 DEF DeliveryInv, DeliveryTypes, NoMarker
<1>7. WindowEndsAtMarker'
  BY <1>1, <1>2, <1>3 DEF WindowEndsAtMarker
<1>8. NothingLeftBehind'
  BY <1>1, <1>3, <1>4 DEF DeliveryInv, NothingLeftBehind
<1>9. SweptLieBehind'
  BY <1>1, <1>3, <1>4, <1>5 DEF DeliveryInv, SweptLieBehind, NoMarker
<1>. QED  BY <1>6, <1>7, <1>8, <1>9 DEF DeliveryInv

\* The rows of a window are swept, and with that everything behind its end.
LEMMA BatchSendStep ==
    ASSUME DeliveryInv, BatchSend
    PROVE  DeliveryInv'
<1>1. batch.phase = "window" /\ batch'.phase = "idle" /\ UNCHANGED <<clock, marker, wiped, gapStart>>
  BY DEF BatchSend, Idle
<1>2. PICK ok \in BOOLEAN :
        row' = [a \in Alerts |->
            IF row[a].kind = "batched" /\ InWindow(row[a], batch.start, batch.end)
            THEN [row[a] EXCEPT !.swept = @ + 1, !.mailed = IF ok THEN @ + 1 ELSE @]
            ELSE row[a]]
  BY DEF BatchSend
<1>3. /\ batch.start \in Int /\ batch.end \in Int /\ batch.start <= batch.end
      /\ marker = batch.end \/ (marker = NoMarker /\ wiped)
  BY <1>1 DEF DeliveryInv, DeliveryTypes, WindowEndsAtMarker
<1>4. ASSUME NEW a \in Alerts
      PROVE  /\ row'[a] \in Row /\ row[a] \in Row
             /\ row'[a].kind = row[a].kind /\ row'[a].state = row[a].state
             /\ row'[a].stamp = row[a].stamp /\ row'[a].late = row[a].late
             /\ IF row[a].kind = "batched" /\ InWindow(row[a], batch.start, batch.end)
                THEN row'[a].swept = row[a].swept + 1 ELSE row'[a] = row[a]
  <2>1. row[a] \in Row /\ row[a].mailed \in Nat /\ row[a].swept \in Nat
    BY RowParts DEF DeliveryInv, DeliveryTypes
  <2>2. CASE row[a].kind = "batched" /\ InWindow(row[a], batch.start, batch.end)
    <3>. DEFINE n == row[a].swept + 1
                m == IF ok THEN row[a].mailed + 1 ELSE row[a].mailed
    <3>1. n \in Nat /\ m \in Nat
      BY <2>1
    <3>2. row'[a] = [row[a] EXCEPT !.swept = n, !.mailed = m]
      BY <1>2, <2>2
    <3>. HIDE DEF n, m
    <3>3. row'[a] \in Row /\ row'[a].swept = n
      BY <2>1, <3>1, <3>2 DEF Row
    <3>4. /\ row'[a].kind = row[a].kind /\ row'[a].state = row[a].state
          /\ row'[a].stamp = row[a].stamp /\ row'[a].late = row[a].late
      BY <2>1, <3>2 DEF Row
    <3>. QED  BY <2>1, <2>2, <3>3, <3>4 DEF n
  <2>3. CASE ~(row[a].kind = "batched" /\ InWindow(row[a], batch.start, batch.end))
    BY <1>2, <2>1, <2>3
  <2>. QED  BY <2>2, <2>3
<1>5. Behind = batch.start /\ Behind' = marker
  BY <1>1 DEF Behind
<1>6. \A a \in Alerts : row[a].stamp \in Nat /\ row[a].swept \in Nat
  BY <1>4, RowParts
<1>7. DeliveryTypes'
  <2>1. row' = [a \in Alerts |-> row'[a]]
    BY <1>2
  <2>2. row' \in [Alerts -> Row]
    BY <1>4, <2>1
  <2>3. Idle \in [phase: {"idle", "window"}, start: Int, end: Int]
    BY DEF Idle
  <2>4. batch' = Idle
    BY DEF BatchSend
  <2>. QED  BY <1>1, <2>2, <2>3, <2>4 DEF DeliveryInv, DeliveryTypes
<1>8. WindowEndsAtMarker'
  BY <1>1 DEF WindowEndsAtMarker
<1>9. NothingLeftBehind'
  <2>. SUFFICES ASSUME NEW a \in Alerts, row'[a].kind = "batched", row'[a].state = "committed",
                       row'[a].stamp < marker, marker # NoMarker
                PROVE  row'[a].swept > 0 \/ row'[a].late \/ row'[a].stamp < gapStart
    BY <1>1, <1>5 DEF NothingLeftBehind
  <2>1. marker = batch.end
    BY <1>3
  <2>2. CASE row[a].stamp < batch.start
    BY <1>1, <1>4, <1>5, <1>6, <2>2 DEF DeliveryInv, NothingLeftBehind
  <2>3. CASE ~(row[a].stamp < batch.start)
    <3>1. row[a].kind = "batched" /\ InWindow(row[a], batch.start, batch.end)
      BY <1>3, <1>4, <1>6, <2>1, <2>3 DEF InWindow
    <3>. QED  BY <1>4, <1>6, <3>1
  <2>. QED  BY <2>2, <2>3
<1>10. SweptLieBehind'
  <2>. SUFFICES ASSUME NEW a \in Alerts, row'[a].swept > 0
                PROVE  row'[a].state = "committed" /\ (wiped \/ row'[a].stamp <= marker)
    BY <1>1, <1>5 DEF SweptLieBehind
  <2>1. CASE row[a].kind = "batched" /\ InWindow(row[a], batch.start, batch.end)
    BY <1>3, <1>4, <2>1 DEF InWindow
  <2>2. CASE ~(row[a].kind = "batched" /\ InWindow(row[a], batch.start, batch.end))
    <3>1. row[a].state = "committed" /\ (wiped \/ row[a].stamp <= batch.start)
      BY <1>4, <1>5, <2>2 DEF DeliveryInv, SweptLieBehind
    <3>. QED  BY <1>3, <1>4, <1>6, <2>2, <3>1
  <2>. QED  BY <2>1, <2>2
<1>. QED  BY <1>7, <1>8, <1>9, <1>10 DEF DeliveryInv

\* Without its marker nothing is behind an idle batch; one that is under way
\* goes on.
LEMMA LoseMarkerStep ==
    ASSUME DeliveryInv, LoseMarker
    PROVE  DeliveryInv'
<1>1. marker' = NoMarker /\ wiped' = TRUE /\ UNCHANGED <<clock, row, batch, gapStart>>
  BY DEF LoseMarker
<1>2. batch.phase = "window" => Behind' = Behind
  BY <1>1 DEF Behind
<1>3. DeliveryTypes'
  BY <1>1 DEF DeliveryInv, DeliveryTypes, NoMarker
<1>4. WindowEndsAtMarker'
  BY <1>1 DEF DeliveryInv, WindowEndsAtMarker
<1>5. NothingLeftBehind'
  BY <1>1, <1>2 DEF DeliveryInv, NothingLeftBehind
<1>6. SweptLieBehind'
  BY <1>1 DEF DeliveryInv, SweptLieBehind
<1>. QED  BY <1>3, <1>4, <1>5, <1>6 DEF DeliveryInv

\* A digest changes nothing that the batch looks at, and counts its rows.
LEMMA DigestRows ==
    ASSUME DeliveryInv, NEW from, NEW to, SendHealthDigest(from, to), NEW a \in Alerts
    PROVE  /\ row'[a] \in Row
           /\ row'[a].kind = row[a].kind /\ row'[a].state = row[a].state
           /\ row'[a].stamp = row[a].stamp /\ row'[a].late = row[a].late /\ row'[a].swept = row[a].swept
           /\ row[a].kind = "digest" /\ InWindow(row[a], from, to) => row'[a].digested > row[a].digested
<1>1. row[a] \in Row /\ row[a].digested \in Nat
  BY RowParts DEF DeliveryInv, DeliveryTypes
<1>2. CASE row[a].kind = "digest" /\ InWindow(row[a], from, to)
  <2>1. row'[a] = [row[a] EXCEPT !.digested = @ + 1]
    BY <1>2 DEF SendHealthDigest
  <2>. QED  BY <1>1, <2>1 DEF Row
<1>3. CASE ~(row[a].kind = "digest" /\ InWindow(row[a], from, to))
  <2>1. row'[a] = row[a]
    BY <1>3 DEF SendHealthDigest
  <2>. QED  BY <1>1, <1>3, <2>1
<1>. QED  BY <1>2, <1>3

LEMMA DigestStep ==
    ASSUME DeliveryInv, NEW from, NEW to, SendHealthDigest(from, to)
    PROVE  DeliveryInv'
<1>1. UNCHANGED <<clock, marker, batch, wiped, gapStart>>
  BY DEF SendHealthDigest
<1>2. row' = [a \in Alerts |-> row'[a]]
  BY DEF SendHealthDigest
<1>3. \A a \in Alerts :
        /\ row'[a] \in Row
        /\ row'[a].kind = row[a].kind /\ row'[a].state = row[a].state
        /\ row'[a].stamp = row[a].stamp /\ row'[a].late = row[a].late /\ row'[a].swept = row[a].swept
  BY DigestRows
<1>4. row' \in [Alerts -> Row]
  BY <1>2, <1>3
<1>5. DeliveryTypes'
  BY <1>1, <1>4 DEF DeliveryInv, DeliveryTypes
<1>6. WindowEndsAtMarker' /\ Behind' = Behind
  BY <1>1 DEF DeliveryInv, WindowEndsAtMarker, Behind
<1>7. NothingLeftBehind'
  BY <1>1, <1>3, <1>6 DEF DeliveryInv, NothingLeftBehind
<1>8. SweptLieBehind'
  BY <1>1, <1>3, <1>6 DEF DeliveryInv, SweptLieBehind
<1>. QED  BY <1>5, <1>6, <1>7, <1>8 DEF DeliveryInv

LEMMA DeliveryInitially == DeliveryInit => DeliveryInv
<1>. SUFFICES ASSUME DeliveryInit PROVE DeliveryInv
  OBVIOUS
<1>1. \A a \in Alerts : row[a] \in Row /\ row[a].state = "none" /\ row[a].swept = 0
  <2>1. NoRow("batched") \in Row /\ NoRow("digest") \in Row
    BY NoRowType
  <2>2. /\ NoRow("batched").state = "none" /\ NoRow("batched").swept = 0
        /\ NoRow("digest").state = "none" /\ NoRow("digest").swept = 0
    BY DEF NoRow
  <2>3. \A a \in Alerts : row[a] \in {NoRow("batched"), NoRow("digest")}
    BY DEF DeliveryInit
  <2>. QED  BY <2>1, <2>2, <2>3
<1>2. row \in [Alerts -> Row]
  <2>1. row = [a \in Alerts |-> row[a]]
    BY DEF DeliveryInit
  <2>. QED  BY <1>1, <2>1
<1>3. Idle \in [phase: {"idle", "window"}, start: Int, end: Int] /\ Idle.phase = "idle"
  BY DEF Idle
<1>4. DeliveryTypes
  <2>1. clock = 0 /\ marker = -1 /\ batch = Idle /\ wiped = FALSE /\ gapStart = 0
    BY DEF DeliveryInit, NoMarker
  <2>2. clock \in 0..MaxTime
    BY <2>1, DeliveryBounds
  <2>3. marker \in Int /\ NoMarker <= marker /\ marker <= clock
    BY <2>1 DEF NoMarker
  <2>4. gapStart \in Int
    BY <2>1
  <2>5. wiped \in BOOLEAN
    BY <2>1, Zenon
  <2>. QED  BY <1>2, <1>3, <2>1, <2>2, <2>3, <2>4, <2>5 DEF DeliveryTypes
<1>. QED
  BY <1>1, <1>3, <1>4 DEF DeliveryInit, DeliveryInv, WindowEndsAtMarker, NothingLeftBehind, SweptLieBehind

\* DeliveryInv is inductive.
LEMMA DeliveryStep == DeliveryInv /\ [DeliveryNext]_deliveryVars => DeliveryInv'
<1>. SUFFICES ASSUME DeliveryInv, [DeliveryNext]_deliveryVars PROVE DeliveryInv'
  OBVIOUS
<1>1. CASE PassTime
  <2>1. clock' \in 0..MaxTime /\ clock <= clock' /\ UNCHANGED <<row, marker, batch, wiped, gapStart>>
    BY <1>1, DeliveryBounds DEF PassTime, DeliveryInv, DeliveryTypes
  <2>2. DeliveryTypes' /\ WindowEndsAtMarker' /\ Behind' = Behind
    BY <2>1 DEF DeliveryInv, DeliveryTypes, WindowEndsAtMarker, Behind
  <2>. QED  BY <2>1, <2>2 DEF DeliveryInv, NothingLeftBehind, SweptLieBehind
<1>2. ASSUME NEW a \in Alerts, LogAlert(a) PROVE DeliveryInv'
  BY <1>2, LogAlertStep
<1>3. ASSUME NEW a \in Alerts, EndTransaction(a) PROVE DeliveryInv'
  BY <1>3, EndTransactionStep
<1>4. CASE BatchStart
  BY <1>4, BatchStartStep
<1>5. CASE BatchSend
  BY <1>5, BatchSendStep
<1>6. CASE LoseMarker
  BY <1>6, LoseMarkerStep
<1>7. CASE SendMorning \/ SendMidday \/ SendEvening
  BY <1>7, DigestStep DEF SendMorning, SendMidday, SendEvening
<1>8. CASE UNCHANGED deliveryVars
  <2>1. UNCHANGED <<clock, row, marker, batch, wiped, gapStart>>
    BY <1>8 DEF deliveryVars
  <2>. QED
    BY <2>1 DEF DeliveryInv, DeliveryTypes, WindowEndsAtMarker, Behind, NothingLeftBehind, SweptLieBehind
<1>. QED  BY <1>1, <1>2, <1>3, <1>4, <1>5, <1>6, <1>7, <1>8 DEF DeliveryNext

\* DeliveryInv is inductive.
THEOREM DeliveryInvariant == DeliverySpec => []DeliveryInv
BY DeliveryInitially, DeliveryStep, PTL DEF DeliverySpec

\* TimelyAlertsAreBatched for any alerts, look-back and hours: moving the
\* marker before the rows are read loses no row that was committed in time.
THEOREM TimelyBatched == DeliverySpec => []TimelyAlertsAreBatched
<1>1. DeliveryInv => TimelyAlertsAreBatched
  BY DEF DeliveryInv, NothingLeftBehind, Behind, TimelyAlertsAreBatched, Covered
<1>. QED  BY <1>1, DeliveryInvariant, PTL

\* BatchedOnce for the same: two windows share their border and no more, so
\* a failed send is not repeated either.
THEOREM NeverBatchedTwice == DeliverySpec => BatchedOnce
<1>1. ASSUME DeliveryInv, [DeliveryNext]_deliveryVars, NEW a \in Alerts,
             row'[a].swept > row[a].swept, row[a].swept > 0
      PROVE  wiped \/ row[a].stamp = batch.start
  <2>1. row[a] \in Row /\ row[a].swept \in Nat /\ row[a].stamp \in Nat
    BY <1>1, RowParts DEF DeliveryInv, DeliveryTypes
  <2>2. row[a].state = "committed" /\ (wiped \/ row[a].stamp <= Behind)
    BY <1>1 DEF DeliveryInv, SweptLieBehind
  <2>3. ASSUME row'[a] = row[a] PROVE FALSE
    BY <1>1, <2>1, <2>3
  <2>4. CASE BatchSend
    <3>1. batch.phase = "window" /\ batch.start \in Int
      BY <1>1, <2>4 DEF BatchSend, DeliveryInv, DeliveryTypes
    <3>2. InWindow(row[a], batch.start, batch.end)
      BY <2>3, <2>4 DEF BatchSend
    <3>. QED  BY <2>1, <2>2, <3>1, <3>2 DEF InWindow, Behind
  <2>5. ASSUME NEW b \in Alerts, LogAlert(b) \/ EndTransaction(b) PROVE FALSE
    <3>1. b = a
      BY <1>1, <2>3, <2>5 DEF LogAlert, EndTransaction, DeliveryInv, DeliveryTypes
    <3>. QED  BY <2>2, <2>5, <3>1 DEF LogAlert, EndTransaction
  <2>6. ASSUME SendMorning \/ SendMidday \/ SendEvening PROVE FALSE
    <3>1. row'[a].swept = row[a].swept
      BY <1>1, <2>6, DigestRows DEF SendMorning, SendMidday, SendEvening
    <3>. QED  BY <1>1, <2>1, <3>1
  <2>7. ASSUME PassTime \/ BatchStart \/ LoseMarker \/ UNCHANGED deliveryVars PROVE FALSE
    BY <2>3, <2>7 DEF PassTime, BatchStart, LoseMarker, deliveryVars
  <2>. QED  BY <1>1, <2>4, <2>5, <2>6, <2>7 DEF DeliveryNext
<1>2. DeliveryInv /\ [DeliveryNext]_deliveryVars =>
        [\A a \in Alerts : row'[a].swept > row[a].swept /\ row[a].swept > 0
            => wiped \/ row[a].stamp = batch.start]_deliveryVars
  BY <1>1
<1>. QED  BY <1>2, DeliveryInvariant, PTL DEF DeliverySpec, BatchedOnce

\* The day of a time is the one that holds it.
LEMMA DayHolds ==
    ASSUME NEW t \in Int
    PROVE  DayStart(t) \in Int /\ DayStart(t) <= t /\ t < DayStart(t) + DayLength
<1>1. DayLength \in Nat \ {0}
  BY DeliveryAssumption
<1>. QED  BY <1>1 DEF DayStart

\* DayIsRecapped for any hours and any length of the day: from midnight to
\* midnight, both included, is at least the calendar day of every row.
THEOREM DaysAreRecapped == DeliverySpec => DayIsRecapped
<1>1. ASSUME DeliveryInv, [DeliveryNext]_deliveryVars, day' # day, NEW a \in Alerts,
             row[a].kind = "digest", row[a].state = "committed", DayStart(row[a].stamp) = day'
      PROVE  row'[a].digested > row[a].digested
  <2>1. SendMorning
    BY <1>1 DEF DeliveryNext, PassTime, LogAlert, EndTransaction, BatchStart, BatchSend, LoseMarker,
                SendMidday, SendEvening, deliveryVars
  <2>2. row[a].stamp \in Int /\ clock \in Int
    BY <1>1, RowParts DEF DeliveryInv, DeliveryTypes
  <2>3. /\ DayStart(clock) \in Int /\ day' \in Int /\ DayLength \in Nat
        /\ day' <= row[a].stamp /\ row[a].stamp < day' + DayLength
    BY <1>1, <2>2, DayHolds, DeliveryBounds
  <2>4. /\ day' = DayStart(clock) - DayLength
        /\ SendHealthDigest(DayStart(clock) - DayLength, DayStart(clock))
    BY <2>1 DEF SendMorning
  <2>5. InWindow(row[a], DayStart(clock) - DayLength, DayStart(clock))
    BY <1>1, <2>2, <2>3, <2>4 DEF InWindow
  <2>. QED  BY <1>1, <2>4, <2>5, DigestRows
<1>2. DeliveryInv /\ [DeliveryNext]_deliveryVars =>
        [day' # day => \A a \in Alerts :
            (row[a].kind = "digest" /\ row[a].state = "committed" /\ DayStart(row[a].stamp) = day')
                => row'[a].digested > row[a].digested]_deliveryVars
  BY <1>1
<1>. QED  BY <1>2, DeliveryInvariant, PTL DEF DeliverySpec, DayIsRecapped

-----------------------------------------------------------------------------
\* BifrostSync: the list that is paged through.

LogEntries == [state: {"none", "processing", "final"}, at: Nat, late: BOOLEAN]

LogType == log \in [LogIds -> LogEntries]

\* The place of a request in the list that Bifrost pages through.
Place(l) == Cardinality({k \in Listed : Before(k, l)})

LEMMA BifrostBounds ==
    /\ MaxLogs \in Nat /\ Overlap \in Nat /\ Backfill \in Nat /\ MinAge \in Nat /\ MaxAge \in Nat
    /\ PageLimit \in Nat /\ PageLimit > 0 /\ MaxMinutes \in Nat
BY BifrostAssumption

\* Every set of requests is finite.
LEMMA RequestSets ==
    ASSUME NEW S \in SUBSET LogIds
    PROVE  IsFiniteSet(S) /\ Cardinality(S) \in Nat
<1>1. IsFiniteSet(LogIds)
  BY BifrostBounds, FS_Interval DEF LogIds
<1>. QED  BY <1>1, FS_Subset, FS_CardinalityType

\* Before is a total order.
LEMMA BeforeOrders ==
    ASSUME LogType
    PROVE  /\ \A k \in LogIds : Before(k, k)
           /\ \A k, l \in LogIds : Before(k, l) \/ Before(l, k)
           /\ \A k, l \in LogIds : Before(k, l) /\ Before(l, k) => k = l
           /\ \A j, k, l \in LogIds : Before(j, k) /\ Before(k, l) => Before(j, l)
<1>1. \A k \in LogIds : log[k].at \in Nat /\ k \in Nat
  BY BifrostBounds DEF LogType, LogEntries, LogIds
<1>. QED  BY <1>1 DEF Before

LEMMA PlaceBounds ==
    ASSUME LogType, NEW l \in Listed
    PROVE  Place(l) \in 1..Cardinality(Listed)
<1>. DEFINE U == {k \in Listed : Before(k, l)}
<1>1. Listed \in SUBSET LogIds /\ U \in SUBSET LogIds /\ U \in SUBSET Listed
  BY DEF Listed
<1>2. l \in U
  BY <1>1, BeforeOrders
<1>3. IsFiniteSet(U) /\ Cardinality(U) \in Nat /\ IsFiniteSet(Listed) /\ Cardinality(Listed) \in Nat
  BY <1>1, RequestSets
<1>4. Cardinality(U) <= Cardinality(Listed)
  BY <1>1, <1>3, FS_Subset
<1>5. Cardinality(U) # 0
  BY <1>2, <1>3, FS_EmptySet
<1>. QED  BY <1>3, <1>4, <1>5 DEF Place

LEMMA PlaceOrders ==
    ASSUME LogType, NEW k \in Listed, NEW l \in Listed, Before(k, l), k # l
    PROVE  Place(k) < Place(l)
<1>. DEFINE U == {j \in Listed : Before(j, k)}
            V == {j \in Listed : Before(j, l)}
<1>1. Listed \in SUBSET LogIds /\ U \in SUBSET LogIds /\ V \in SUBSET LogIds
  BY DEF Listed
<1>2. U \in SUBSET V
  BY <1>1, BeforeOrders
<1>3. l \in V /\ l \notin U
  BY <1>1, BeforeOrders
<1>4. /\ IsFiniteSet(V) /\ Cardinality(V) \in Nat /\ Cardinality(U) \in Nat
  BY <1>1, RequestSets
<1>5. Cardinality(U) <= Cardinality(V) /\ Cardinality(V) # Cardinality(U)
  BY <1>2, <1>3, <1>4, FS_Subset
<1>. QED  BY <1>4, <1>5 DEF Place

\* Places number the list: there is one request at each.
LEMMA PlacesAreTaken ==
    ASSUME LogType, NEW n \in 1..Cardinality(Listed)
    PROVE  \E l \in Listed : Place(l) = n
<1>. DEFINE f == [l \in Listed |-> Place(l)]
            N == 1..Cardinality(Listed)
<1>1. Listed \in SUBSET LogIds
  BY DEF Listed
<1>2. IsFiniteSet(Listed) /\ Cardinality(Listed) \in Nat
  BY <1>1, RequestSets
<1>3. f \in [Listed -> N]
  BY PlaceBounds
<1>4. ASSUME NEW k \in Listed, NEW l \in Listed, f[k] = f[l] PROVE k = l
  <2>1. Place(k) = Place(l) /\ Place(k) \in Nat /\ Place(l) \in Nat
    BY <1>2, <1>4, PlaceBounds
  <2>2. Before(k, l) \/ Before(l, k)
    BY <1>1, BeforeOrders
  <2>. QED  BY <2>1, <2>2, PlaceOrders
<1>5. f \in Injection(Listed, N)
  BY <1>3, <1>4 DEF Injection, IsInjective
<1>6. IsFiniteSet(N) /\ Cardinality(N) = Cardinality(Listed)
  BY <1>2, FS_Interval
<1>7. f \in Surjection(Listed, N)
  BY <1>5, <1>6, FS_Injection
<1>. QED  BY <1>7 DEF Surjection

\* A page holds at most PageLimit requests.
LEMMA PageSize ==
    ASSUME LogType, sync.offset \in Nat
    PROVE  Cardinality(LogPage) \in 0..PageLimit
<1>. DEFINE f == [l \in LogPage |-> Place(l)]
            N == (sync.offset + 1)..(sync.offset + PageLimit)
<1>1. LogPage \in SUBSET LogIds /\ LogPage \in SUBSET Listed /\ Listed \in SUBSET LogIds
  BY DEF Listed, LogPage
<1>2. IsFiniteSet(LogPage) /\ Cardinality(LogPage) \in Nat /\ Cardinality(Listed) \in Nat
  BY <1>1, RequestSets
<1>3. f \in [LogPage -> N]
  BY DEF LogPage, Place
<1>4. ASSUME NEW k \in LogPage, NEW l \in LogPage, f[k] = f[l] PROVE k = l
  <2>1. Place(k) = Place(l) /\ Place(k) \in Nat /\ Place(l) \in Nat
    BY <1>1, <1>2, <1>4, PlaceBounds
  <2>2. Before(k, l) \/ Before(l, k)
    BY <1>1, BeforeOrders
  <2>. QED  BY <1>1, <2>1, <2>2, PlaceOrders
<1>5. f \in Injection(LogPage, N)
  BY <1>3, <1>4 DEF Injection, IsInjective
<1>6. IsFiniteSet(N) /\ Cardinality(N) = PageLimit
  <2>. DEFINE a == sync.offset + 1
              b == sync.offset + PageLimit
  <2>1. a \in Int /\ b \in Int /\ ~(a > b) /\ b - a + 1 = PageLimit
    BY BifrostBounds
  <2>. HIDE DEF a, b
  <2>2. IsFiniteSet(a..b) /\ Cardinality(a..b) = PageLimit
    BY <2>1, FS_Interval
  <2>. QED  BY <2>2 DEF a, b
<1>7. Cardinality(LogPage) <= Cardinality(N)
  BY <1>5, <1>6, FS_Injection
<1>. QED  BY <1>2, <1>6, <1>7, BifrostBounds

\* What a page leaves behind: the requests up to the new offset were behind
\* the old one or are on the page, so were all before one that is on it, and a
\* list that counts as drained has no others.
LEMMA PageCovers ==
    ASSUME LogType, sync.offset \in Nat, NEW l \in Listed
    PROVE  LET left == Place(l) <= sync.offset \/ l \in LogPage
               offset == sync.offset + Cardinality(LogPage)
           IN  /\ Place(l) <= offset => left
               /\ \A m \in LogPage : log[l].at < log[m].at => left
               /\ Drained(offset) => left
<1>1. LogPage \in SUBSET Listed /\ Listed \in SUBSET LogIds
  BY DEF Listed, LogPage
<1>2. Cardinality(Listed) \in Nat /\ Place(l) \in 1..Cardinality(Listed)
  BY <1>1, RequestSets, PlaceBounds
<1>3. Cardinality(LogPage) \in 0..PageLimit
  BY PageSize
<1>4. ASSUME Place(l) <= sync.offset + PageLimit PROVE Place(l) <= sync.offset \/ l \in LogPage
  BY <1>2, <1>4, BifrostBounds DEF LogPage, Place
<1>5. ASSUME Place(l) <= sync.offset + Cardinality(LogPage) PROVE Place(l) <= sync.offset \/ l \in LogPage
  BY <1>2, <1>3, <1>4, <1>5, BifrostBounds
<1>6. ASSUME NEW m \in LogPage, log[l].at < log[m].at PROVE Place(l) <= sync.offset \/ l \in LogPage
  <2>1. log[l].at \in Nat /\ log[m].at \in Nat
    BY <1>1 DEF LogType, LogEntries
  <2>2. Before(l, m) /\ l # m
    BY <1>6, <2>1 DEF Before
  <2>3. Place(l) < Place(m)
    BY <1>1, <2>2, PlaceOrders
  <2>4. Place(m) \in (sync.offset + 1)..(sync.offset + PageLimit)
    BY DEF LogPage, Place
  <2>. QED  BY <1>2, <1>4, <2>3, <2>4, BifrostBounds
<1>7. ASSUME LogPage = {} PROVE Place(l) <= sync.offset
  <2>. SUFFICES ASSUME ~(Place(l) <= sync.offset) PROVE FALSE
    OBVIOUS
  <2>1. sync.offset + 1 \in 1..Cardinality(Listed)
    BY <1>2
  <2>2. PICK k \in Listed : Place(k) = sync.offset + 1
    BY <2>1, PlacesAreTaken
  <2>3. k \in LogPage
    BY <2>2, BifrostBounds DEF LogPage, Place
  <2>. QED  BY <1>7, <2>3
<1>8. ASSUME sync.offset + Cardinality(LogPage) >= Cardinality(Listed)
      PROVE  Place(l) <= sync.offset \/ l \in LogPage
  BY <1>2, <1>3, <1>5, <1>8, BifrostBounds
<1>. QED  BY <1>5, <1>6, <1>7, <1>8 DEF Drained

\* LastOf a set of requests is the start of one of them.
LEMMA LastIsOne ==
    ASSUME LogType, NEW S \in SUBSET LogIds, S # {}, NEW o,
           NEW n \in Nat, \A l \in LogIds : log[l].at <= n
    PROVE  \E m \in S : LastOf(S, o) = log[m].at
<1>. DEFINE T == {log[l].at : l \in S}
<1>1. \A l \in S : log[l].at \in 0..n
  BY DEF LogType, LogEntries
<1>2. PICK x \in T : \A y \in T : y <= x
  <2>1. T \in SUBSET (0..n) /\ T # {}
    BY <1>1
  <2>. HIDE DEF T
  <2>. QED  BY <2>1, GreatestNatural
<1>3. PICK m \in S : x = log[m].at
  OBVIOUS
<1>4. \A k \in S : log[k].at <= log[m].at
  BY <1>2, <1>3
<1>. QED  BY <1>4 DEF LastOf

\* FromOldest of a set of requests is the least of their starts.
LEMMA OldestIsLeast ==
    ASSUME LogType, NEW S \in SUBSET LogIds, S # {}
    PROVE  FromOldest(S) \in Nat /\ \A l \in S : FromOldest(S) <= log[l].at
<1>. DEFINE T == {log[l].at : l \in S}
<1>1. \A l \in S : log[l].at \in Nat
  BY DEF LogType, LogEntries
<1>2. PICK x \in T : \A y \in T : x <= y
  <2>1. T \in SUBSET Nat /\ T # {}
    BY <1>1
  <2>. HIDE DEF T
  <2>. QED  BY <2>1, LeastNatural
<1>3. PICK m \in S : x = log[m].at
  OBVIOUS
<1>4. \A k \in S : log[m].at <= log[k].at
  BY <1>2, <1>3
<1>. QED  BY <1>1, <1>4 DEF FromOldest

-----------------------------------------------------------------------------
\* BifrostSync: the invariant.

Syncs == [phase: {"idle", "pull", "pulled", "reconcile", "reconciled"}, start: Int, checkpoint: Int,
          from: Int, offset: Nat, pages: Nat, last: Int, drained: BOOLEAN, open: SUBSET LogIds]

BifrostTypes ==
    /\ minute \in 0..MaxMinutes
    /\ LogType
    /\ copy \in [LogIds -> {"none", "raised", "processing", "final"}]
    /\ through \in Int /\ floor \in Int
    /\ sync \in Syncs

\* Nothing lies ahead of the clock.
BehindClock ==
    /\ through <= minute
    /\ \A l \in LogIds : log[l].at <= minute
    /\ sync.phase # "idle" =>
          /\ sync.start <= minute /\ sync.checkpoint <= sync.start
          /\ sync.last # Never => sync.last <= sync.start
          /\ through # Never => sync.checkpoint = through

\* What the checkpoint says is copied.  It holds during a sync as well.
CopiedBehindCheckpoint ==
    through # Never => \A l \in LogIds :
        log[l].state # "none" /\ ~log[l].late /\ floor <= log[l].at /\ log[l].at < WindowFrom(through)
            => copy[l] # "none"

\* The requests of the window that were listed before the sync began, because
\* Bifrost was prompt with them.
Prompt(l) ==
    /\ log[l].state # "none" /\ ~log[l].late
    /\ WindowFrom(sync.checkpoint) <= log[l].at /\ log[l].at < WindowFrom(sync.start)

\* The pull has dealt with the prompt requests up to its offset, wherever new
\* rows have pushed them since, and with those that lie before the last row.
PulledUpToOffset ==
    sync.phase = "pull" =>
        /\ sync.from = WindowFrom(sync.checkpoint)
        /\ \A l \in LogIds : Prompt(l)
              /\ (Place(l) <= sync.offset \/ (sync.last # Never /\ log[l].at < sync.last))
                  => copy[l] # "none"

PulledUpToLast ==
    sync.phase \in {"pulled", "reconcile", "reconciled"} =>
        \A l \in LogIds : Prompt(l)
            /\ (sync.drained \/ (sync.last # Never /\ log[l].at < sync.last))
                => copy[l] # "none"

\* The same for the second pull and the rows that it owes.
ReconciledUpToOffset ==
    /\ sync.phase \in {"reconcile", "reconciled"} => \A l \in sync.open : log[l].state = "final"
    /\ sync.phase = "reconcile" => \A l \in sync.open :
          /\ l \in Listed
          /\ Place(l) <= sync.offset => copy[l] = "final"
    /\ sync.phase = "reconciled" => \A l \in sync.open : copy[l] = "final"

BifrostInv ==
    /\ BifrostTypes /\ BehindClock /\ CopiedBehindCheckpoint
    /\ PulledUpToOffset /\ PulledUpToLast /\ ReconciledUpToOffset

LEMMA SyncFields ==
    ASSUME sync \in Syncs
    PROVE  /\ sync.start \in Int /\ sync.checkpoint \in Int /\ sync.from \in Int /\ sync.offset \in Nat
           /\ sync.pages \in Nat /\ sync.last \in Int /\ sync.drained \in BOOLEAN
           /\ sync.open \in SUBSET LogIds
BY DEF Syncs

LEMMA RequestFields ==
    ASSUME LogType, NEW l \in LogIds
    PROVE  log[l].at \in Nat /\ log[l].late \in BOOLEAN
BY DEF LogType, LogEntries

\* A new row pushes others back, never forward.
LEMMA PlacesGrow ==
    ASSUME LogType, LogType', UNCHANGED sync, NEW l \in LogIds,
           log[l].state = "none", \A k \in LogIds : k # l => log'[k] = log[k],
           NEW m \in LogIds, m # l
    PROVE  /\ m \in Listed <=> m \in Listed'
           /\ Place(m) \in Nat /\ Place(m)' \in Nat /\ Place(m) <= Place(m)'
<1>. DEFINE U == {k \in Listed : Before(k, m)}
            V == {k \in Listed' : Before(k, m)'}
<1>1. \A k \in Listed : k # l /\ k \in LogIds /\ k \in Listed'
  BY DEF Listed
<1>2. m \in Listed <=> m \in Listed'
  BY DEF Listed
<1>3. \A k \in Listed : Before(k, m) <=> Before(k, m)'
  BY <1>1 DEF Before
<1>4. U \in SUBSET V
  BY <1>1, <1>3
<1>5. U \in SUBSET LogIds /\ V \in SUBSET LogIds
  BY DEF Listed, LogIds
<1>6. Cardinality(U) \in Nat /\ Cardinality(V) \in Nat /\ IsFiniteSet(V)
  BY <1>5, RequestSets
<1>7. Cardinality(U) <= Cardinality(V)
  BY <1>4, <1>6, FS_Subset
<1>8. Place(m) = Cardinality(U) /\ Place(m)' = Cardinality(V)
  BY DEF Place, LogIds
<1>. QED  BY <1>2, <1>6, <1>7, <1>8

\* Bifrost lists a request: one that is prompt began within the overlap.
LEMMA LogRequestStep ==
    ASSUME BifrostInv, LogRequest
    PROVE  BifrostInv'
<1>. USE DEF BifrostInv
<1>1. PICK l \in LogIds, at \in 0..minute, st \in {"processing", "final"} :
        /\ log[l].state = "none"
        /\ log' = [log EXCEPT ![l] = [state |-> st, at |-> at, late |-> minute - at > Overlap]]
  BY DEF LogRequest
<1>2. UNCHANGED <<minute, copy, through, sync, floor>>
  BY DEF LogRequest
<1>3. [state |-> st, at |-> at, late |-> minute - at > Overlap] \in LogEntries
  <2>1. at \in Nat /\ (minute - at > Overlap) \in BOOLEAN
    BY DEF BifrostTypes
  <2>. QED  BY <2>1 DEF LogEntries
<1>4. /\ \A k \in LogIds : k # l => log'[k] = log[k]
      /\ log'[l].at = at /\ log'[l].state = st
      /\ log'[l].late <=> minute - at > Overlap
  BY <1>1 DEF BifrostTypes, LogType
<1>5. BifrostTypes'
  BY <1>1, <1>2, <1>3 DEF BifrostTypes, LogType
<1>6. BehindClock'
  <2>1. at <= minute
    BY DEF BifrostTypes
  <2>. QED  BY <1>2, <1>4, <2>1 DEF BehindClock, Never
<1>7. ASSUME NEW t \in Int, t <= minute, log'[l].at < WindowFrom(t), ~log'[l].late PROVE FALSE
  <2>1. minute \in Int /\ at \in Int
    BY DEF BifrostTypes
  <2>. QED  BY <1>4, <1>7, <2>1, BifrostBounds DEF WindowFrom
<1>8. ASSUME sync.phase # "idle" PROVE ~Prompt(l)'
  <2>1. sync.start \in Int /\ sync.start <= minute
    BY <1>8, SyncFields DEF BifrostTypes, BehindClock
  <2>. QED  BY <1>2, <1>7, <2>1 DEF Prompt, WindowFrom
<1>9. \A k \in LogIds : k # l => (Prompt(k)' <=> Prompt(k))
  BY <1>2, <1>4 DEF Prompt, WindowFrom
<1>10. CopiedBehindCheckpoint'
  <2>1. through \in Int /\ through <= minute
    BY DEF BifrostTypes, BehindClock
  <2>. QED  BY <1>2, <1>4, <1>7, <2>1 DEF CopiedBehindCheckpoint, Never, WindowFrom
<1>11. \A m \in LogIds : m # l => /\ m \in Listed <=> m \in Listed'
                                 /\ Place(m) \in Nat /\ Place(m)' \in Nat /\ Place(m) <= Place(m)'
  BY <1>1, <1>2, <1>4, <1>5, PlacesGrow DEF BifrostTypes
<1>12. sync.offset \in Nat
  BY SyncFields DEF BifrostTypes
<1>13. PulledUpToOffset'
  BY <1>2, <1>4, <1>8, <1>9, <1>11, <1>12 DEF PulledUpToOffset, Never, WindowFrom
<1>14. PulledUpToLast'
  BY <1>2, <1>4, <1>8, <1>9 DEF PulledUpToLast, Never
<1>15. ReconciledUpToOffset'
  <2>1. sync.phase \in {"reconcile", "reconciled"} => l \notin sync.open
    BY <1>1 DEF ReconciledUpToOffset
  <2>2. sync.open \in SUBSET LogIds
    BY SyncFields DEF BifrostTypes
  <2>. QED  BY <1>2, <1>4, <1>11, <1>12, <2>1, <2>2 DEF ReconciledUpToOffset
<1>. QED  BY <1>5, <1>6, <1>10, <1>13, <1>14, <1>15

\* A request that ends does not move in the list.
LEMMA FinishRequestStep ==
    ASSUME BifrostInv, FinishRequest
    PROVE  BifrostInv'
<1>. USE DEF BifrostInv
<1>1. PICK l \in LogIds : log[l].state = "processing" /\ log' = [log EXCEPT ![l].state = "final"]
  BY DEF FinishRequest
<1>2. UNCHANGED <<minute, copy, through, sync, floor>>
  BY DEF FinishRequest
<1>3. BifrostTypes'
  <2>1. [log[l] EXCEPT !.state = "final"] \in LogEntries
    BY DEF BifrostTypes, LogType, LogEntries
  <2>2. log' \in [LogIds -> LogEntries]
    BY <1>1, <2>1 DEF BifrostTypes, LogType
  <2>. QED  BY <1>2, <2>2 DEF BifrostTypes, LogType
<1>4. \A k \in LogIds : /\ log'[k].at = log[k].at /\ log'[k].late = log[k].late
                        /\ log'[k].state # "none" <=> log[k].state # "none"
                        /\ log[k].state = "final" => log'[k].state = "final"
  BY <1>1 DEF BifrostTypes, LogType, LogEntries
<1>5. Listed' = Listed
  BY <1>2, <1>4 DEF Listed, LogIds
<1>6. \A k, m \in LogIds : Before(k, m)' <=> Before(k, m)
  BY <1>4 DEF Before
<1>7. \A m \in LogIds : Place(m)' = Place(m)
  <2>. SUFFICES ASSUME NEW m \in LogIds PROVE Place(m)' = Place(m)
    OBVIOUS
  <2>1. {k \in Listed' : Before(k, m)'} = {k \in Listed : Before(k, m)}
    BY <1>5, <1>6 DEF Listed
  <2>. QED  BY <2>1 DEF Place
<1>8. \A m \in LogIds : Prompt(m)' <=> Prompt(m)
  BY <1>2, <1>4 DEF Prompt, WindowFrom
<1>9. sync.open \in SUBSET LogIds
  BY SyncFields DEF BifrostTypes
<1>10. BehindClock' /\ CopiedBehindCheckpoint'
  BY <1>2, <1>4 DEF BehindClock, CopiedBehindCheckpoint, Never, WindowFrom
<1>11. PulledUpToOffset' /\ PulledUpToLast'
  BY <1>2, <1>4, <1>7, <1>8 DEF PulledUpToOffset, PulledUpToLast, Never, WindowFrom
<1>12. ReconciledUpToOffset'
  BY <1>2, <1>4, <1>5, <1>7, <1>9 DEF ReconciledUpToOffset
<1>. QED  BY <1>3, <1>10, <1>11, <1>12

\* With the same log and the same window the list is the same.
LEMMA SameList ==
    ASSUME log' = log, sync'.from = sync.from, sync'.start = sync.start
    PROVE  /\ Listed' = Listed
           /\ \A l \in LogIds : Place(l)' = Place(l)
<1>1. Listed' = Listed
  BY DEF Listed, LogIds
<1>. QED  BY <1>1 DEF Place, Before

LEMMA PassMinuteStep ==
    ASSUME BifrostInv, PassMinute
    PROVE  BifrostInv'
<1>. USE DEF BifrostInv
<1>1. /\ minute \in 0..MaxMinutes /\ minute' \in 0..MaxMinutes /\ minute <= minute'
      /\ UNCHANGED <<log, copy, through, sync, floor>>
  BY BifrostBounds DEF PassMinute, BifrostTypes
<1>2. BifrostTypes'
  BY <1>1 DEF BifrostTypes, LogType
<1>3. BehindClock'
  <2>1. \A l \in LogIds : log[l].at \in Nat
    BY RequestFields DEF BifrostTypes
  <2>2. through \in Int /\ sync.start \in Int
    BY SyncFields DEF BifrostTypes
  <2>. QED  BY <1>1, <2>1, <2>2 DEF BehindClock, Never
<1>4. Listed' = Listed /\ \A l \in LogIds : Place(l)' = Place(l)
  BY <1>1, SameList
<1>5. \A l \in LogIds : Prompt(l)' <=> Prompt(l)
  BY <1>1 DEF Prompt, WindowFrom
<1>6. sync.open \in SUBSET LogIds
  BY SyncFields DEF BifrostTypes
<1>7. CopiedBehindCheckpoint' /\ PulledUpToLast'
  BY <1>1, <1>5 DEF CopiedBehindCheckpoint, PulledUpToLast, Never, WindowFrom
<1>8. PulledUpToOffset'
  BY <1>1, <1>4, <1>5 DEF PulledUpToOffset, Never, WindowFrom
<1>9. ReconciledUpToOffset'
  BY <1>1, <1>4, <1>6 DEF ReconciledUpToOffset
<1>. QED  BY <1>2, <1>3, <1>7, <1>8, <1>9

LEMMA NoSyncType == NoSync \in Syncs /\ NoSync.phase = "idle"
<1>1. Never \in Int
  BY BifrostBounds DEF Never
<1>. QED  BY <1>1 DEF NoSync, Syncs

\* A sync ends without moving the checkpoint.
LEMMA AbortStep ==
    ASSUME BifrostInv, SyncAborts
    PROVE  BifrostInv'
<1>1. sync' = NoSync /\ UNCHANGED <<minute, log, copy, through, floor>>
  BY DEF SyncAborts
<1>2. sync' \in Syncs /\ sync'.phase = "idle"
  BY <1>1, NoSyncType
<1>3. BifrostTypes'
  BY <1>1, <1>2 DEF BifrostInv, BifrostTypes, LogType
<1>. QED
  BY <1>1, <1>2, <1>3 DEF BifrostInv, BehindClock, CopiedBehindCheckpoint, PulledUpToOffset, PulledUpToLast,
                          ReconciledUpToOffset, Never, WindowFrom

LEMMA NoPlaceZero == LogType => \A l \in Listed : ~(Place(l) <= 0)
<1>. SUFFICES ASSUME LogType, NEW l \in Listed PROVE ~(Place(l) <= 0)
  OBVIOUS
<1>1. Place(l) \in 1..Cardinality(Listed)
  BY PlaceBounds
<1>. QED  BY <1>1

LEMMA NoPlaceZeroNext == LogType' => (\A l \in Listed : ~(Place(l) <= 0))'
BY NoPlaceZero, PTL

\* The list has no place 0, so a sync starts with nothing pulled.
LEMMA StartSyncStep ==
    ASSUME BifrostInv, StartSync
    PROVE  BifrostInv'
<1>1. /\ UNCHANGED <<minute, log, copy, through, floor>>
      /\ sync' = [NoSync EXCEPT !.phase = "pull", !.start = minute,
                                !.checkpoint = Checkpoint, !.from = WindowFrom(Checkpoint)]
  BY DEF StartSync
<1>2. /\ sync'.phase = "pull" /\ sync'.start = minute /\ sync'.checkpoint = Checkpoint
      /\ sync'.from = WindowFrom(Checkpoint) /\ sync'.offset = 0 /\ sync'.last = Never
  BY <1>1 DEF NoSync
<1>3. /\ minute \in Int /\ Checkpoint \in Int /\ WindowFrom(Checkpoint) \in Int /\ Checkpoint <= minute
      /\ through # Never => Checkpoint = through
  BY BifrostBounds DEF Checkpoint, WindowFrom, BifrostInv, BifrostTypes, BehindClock
<1>4. sync' \in Syncs
  BY <1>1, <1>3, NoSyncType DEF Syncs
<1>5. BifrostTypes'
  BY <1>1, <1>4 DEF BifrostInv, BifrostTypes, LogType
<1>6. BehindClock'
  BY <1>1, <1>2, <1>3 DEF BifrostInv, BehindClock, Never
<1>7. CopiedBehindCheckpoint'
  BY <1>1 DEF BifrostInv, CopiedBehindCheckpoint, Never, WindowFrom
<1>8. PulledUpToOffset'
  <2>1. ASSUME NEW l \in LogIds, Prompt(l)' PROVE ~(Place(l)' <= 0)
    <3>1. log'[l].at \in Int
      BY <1>1, RequestFields DEF BifrostInv, BifrostTypes
    <3>2. l \in Listed'
      BY <1>2, <1>3, <2>1, <3>1, BifrostBounds DEF Prompt, Listed, WindowFrom
    <3>3. LogType'
      BY <1>5 DEF BifrostTypes
    <3>. QED  BY <3>2, <3>3, NoPlaceZeroNext
  <2>. QED  BY <1>2, <2>1 DEF PulledUpToOffset, Never, WindowFrom
<1>9. PulledUpToLast' /\ ReconciledUpToOffset'
  BY <1>2 DEF PulledUpToLast, ReconciledUpToOffset
<1>. QED  BY <1>5, <1>6, <1>7, <1>8, <1>9 DEF BifrostInv

\* What one page does, without the page: "done" is whether the list counts as
\* drained, "bad" the row that raised.
PageResult(bad, good, offset, done) ==
    /\ bad \subseteq LogPage /\ good = LogPage \ bad /\ offset = sync.offset + Cardinality(LogPage)
    /\ done <=> Drained(offset)
    /\ copy' = [l \in LogIds |-> IF l \in good THEN log[l].state
                           ELSE IF l \in bad /\ copy[l] = "none" THEN "raised" ELSE copy[l]]
    /\ sync'.offset = offset /\ sync'.start = sync.start /\ sync'.from = sync.from
    /\ sync'.checkpoint = sync.checkpoint
    /\ sync'.last = IF sync.phase = "pull" THEN LastOf(good, sync.last) ELSE sync.last
    /\ sync'.drained <=> IF sync.phase = "pull" THEN done ELSE sync.drained
    /\ sync'.open \subseteq sync.open \ bad
    /\ \/ sync'.phase = sync.phase
       \/ sync.phase = "pull" /\ sync'.phase = "pulled"
       \/ sync.phase = "reconcile" /\ sync'.phase = "reconciled" /\ (done \/ sync'.open = {})

LEMMA PullPageResult ==
    ASSUME BifrostInv, PullPage
    PROVE  /\ sync' \in Syncs
           /\ \E bad, good \in SUBSET LogIds, offset \in Nat, done \in BOOLEAN : PageResult(bad, good, offset, done)
<1>1. PICK bad \in SUBSET LogPage :
        LET good   == LogPage \ bad
            offset == sync.offset + Cardinality(LogPage)
            pages  == sync.pages + 1
            done   == Drained(offset)
        IN  /\ copy' = [l \in LogIds |-> IF l \in good THEN log[l].state
                                   ELSE IF l \in bad /\ copy[l] = "none" THEN "raised" ELSE copy[l]]
            /\ sync' = [sync EXCEPT
                 !.offset = offset, !.pages = pages,
                 !.last = IF sync.phase = "pull" THEN LastOf(good, @) ELSE @,
                 !.drained = IF sync.phase = "pull" THEN done ELSE @,
                 !.open = IF done \/ pages < MaxPages THEN @ \ bad ELSE {},
                 !.phase = IF ~done /\ pages < MaxPages THEN @
                           ELSE IF @ = "pull" THEN "pulled" ELSE "reconciled"]
  BY DEF PullPage
<1>. DEFINE good   == LogPage \ bad
            offset == sync.offset + Cardinality(LogPage)
            pages  == sync.pages + 1
            done   == Drained(offset)
            lastRow   == IF sync.phase = "pull" THEN LastOf(good, sync.last) ELSE sync.last
            drn    == IF sync.phase = "pull" THEN done ELSE sync.drained
            open   == IF done \/ pages < MaxPages THEN sync.open \ bad ELSE {}
            phase  == IF ~done /\ pages < MaxPages THEN sync.phase
                      ELSE IF sync.phase = "pull" THEN "pulled" ELSE "reconciled"
<1>2. sync \in Syncs /\ LogType /\ sync.phase \in {"pull", "reconcile"}
  BY DEF PullPage, BifrostInv, BifrostTypes
<1>3. LogPage \in SUBSET LogIds /\ Cardinality(LogPage) \in Nat /\ sync.offset \in Nat
  <2>1. LogPage \in SUBSET LogIds
    BY DEF LogPage, Listed
  <2>. QED  BY <1>2, <2>1, RequestSets, SyncFields
<1>4. offset \in Nat /\ pages \in Nat
  BY <1>2, <1>3, SyncFields
<1>5. lastRow \in Int
  <2>1. CASE sync.phase = "pull" /\ good # {}
    <3>1. minute \in Nat /\ \A l \in LogIds : log[l].at <= minute
      BY BifrostBounds DEF BifrostInv, BifrostTypes, BehindClock
    <3>2. \E m \in good : LastOf(good, sync.last) = log[m].at
      BY <1>2, <1>3, <2>1, <3>1, LastIsOne
    <3>. QED  BY <1>2, <1>3, <2>1, <3>2, RequestFields
  <2>2. CASE sync.phase = "pull" /\ good = {}
    BY <1>2, <2>2, SyncFields DEF LastOf
  <2>3. CASE sync.phase # "pull"
    BY <1>2, <2>3, SyncFields
  <2>. QED  BY <2>1, <2>2, <2>3
<1>6. done \in BOOLEAN /\ drn \in BOOLEAN
  BY <1>2, SyncFields DEF Drained
<1>7. open \in SUBSET LogIds /\ open \subseteq sync.open \ bad
  BY <1>2, SyncFields
<1>8. phase \in {"pull", "pulled", "reconcile", "reconciled"}
  BY <1>2
<1>9. sync' = [sync EXCEPT !.offset = offset, !.pages = pages, !.last = lastRow, !.drained = drn,
                           !.open = open, !.phase = phase]
  BY <1>1, <1>2
<1>10. /\ phase = sync.phase \/ (sync.phase = "pull" /\ phase = "pulled")
          \/ (sync.phase = "reconcile" /\ phase = "reconciled")
       /\ phase = "reconciled" => done \/ open = {}
  BY <1>2
<1>. HIDE DEF offset, pages, done, lastRow, drn, open, phase
<1>11. /\ sync' \in Syncs
       /\ sync'.offset = offset /\ sync'.last = lastRow /\ sync'.open = open /\ sync'.phase = phase
       /\ sync'.start = sync.start /\ sync'.from = sync.from /\ sync'.checkpoint = sync.checkpoint
       /\ sync'.drained = drn
  BY <1>2, <1>4, <1>5, <1>6, <1>7, <1>8, <1>9 DEF Syncs
<1>12. PageResult(bad, good, offset, done)
  BY <1>1, <1>2, <1>7, <1>10, <1>11 DEF PageResult, offset, done, lastRow, drn
<1>. QED  BY <1>3, <1>4, <1>6, <1>11, <1>12

\* A page of either pull.
LEMMA PullPageStep ==
    ASSUME BifrostInv, PullPage
    PROVE  BifrostInv'
<1>1. PICK bad \in SUBSET LogIds, good \in SUBSET LogIds, offset \in Nat, done \in BOOLEAN :
        PageResult(bad, good, offset, done)
  BY PullPageResult
<1>2. UNCHANGED <<minute, log, through, floor>>
  BY DEF PullPage
<1>3. /\ sync \in Syncs /\ LogType /\ sync.phase \in {"pull", "reconcile"} /\ sync.offset \in Nat
      /\ sync.open \in SUBSET LogIds /\ sync.last \in Int /\ sync.start \in Int /\ sync.checkpoint \in Int
  BY SyncFields DEF PullPage, BifrostInv, BifrostTypes
<1>4. /\ sync' \in Syncs /\ sync'.start = sync.start /\ sync'.from = sync.from
      /\ sync'.checkpoint = sync.checkpoint /\ sync'.offset = offset
  BY <1>1, PullPageResult DEF PageResult
<1>5. \A l \in LogIds : /\ copy'[l] = IF l \in good THEN log[l].state
                               ELSE IF l \in bad /\ copy[l] = "none" THEN "raised" ELSE copy[l]
                        /\ copy[l] \in {"none", "raised", "processing", "final"}
                        /\ log[l].state \in {"none", "processing", "final"}
                        /\ log[l].at \in Nat
  BY <1>1 DEF PageResult, BifrostInv, BifrostTypes, LogType, LogEntries
<1>6. BifrostTypes'
  <2>1. copy' = [l \in LogIds |-> copy'[l]]
    BY <1>1 DEF PageResult
  <2>2. \A l \in LogIds : copy'[l] \in {"none", "raised", "processing", "final"}
    BY <1>5
  <2>3. copy' \in [LogIds -> {"none", "raised", "processing", "final"}]
    BY <2>1, <2>2
  <2>. QED  BY <1>2, <1>4, <2>3 DEF BifrostInv, BifrostTypes, LogType
<1>7. LogPage = good \cup bad /\ \A l \in LogPage : l \in Listed /\ log[l].state # "none"
  BY <1>1 DEF PageResult, LogPage, Listed
\* Every row of the page leaves a trace, and no trace is wiped.
<1>8. \A l \in LogIds : copy[l] # "none" \/ l \in LogPage => copy'[l] # "none"
  BY <1>5, <1>7
<1>9. ASSUME NEW l \in Listed
      PROVE  /\ Place(l) <= offset => Place(l) <= sync.offset \/ l \in LogPage
             /\ \A m \in LogPage : log[l].at < log[m].at => Place(l) <= sync.offset \/ l \in LogPage
             /\ done => Place(l) <= sync.offset \/ l \in LogPage
  BY <1>1, <1>3, PageCovers DEF PageResult
<1>10. Listed' = Listed /\ \A l \in LogIds : Place(l)' = Place(l)
  BY <1>2, <1>4, SameList
<1>11. \A l \in LogIds : Prompt(l)' <=> Prompt(l)
  BY <1>2, <1>4 DEF Prompt, WindowFrom
<1>12. CASE sync.phase = "pull"
  <2>1. sync'.phase \in {"pull", "pulled"} /\ (sync'.drained <=> done) /\ sync'.last = LastOf(good, sync.last)
    BY <1>1, <1>12 DEF PageResult
  <2>2. \/ sync'.last = sync.last
        \/ \E m \in good : sync'.last = log[m].at
    <3>1. CASE good = {}
      BY <2>1, <3>1 DEF LastOf
    <3>2. CASE good # {}
      <4>1. minute \in Nat /\ \A l \in LogIds : log[l].at <= minute
        BY BifrostBounds DEF BifrostInv, BifrostTypes, BehindClock
      <4>. QED  BY <1>3, <2>1, <3>2, <4>1, LastIsOne
    <3>. QED  BY <3>1, <3>2
  <2>3. BehindClock'
    <3>1. \A m \in good : log[m].at < sync.start
      BY <1>7 DEF Listed
    <3>2. sync'.last # Never => sync'.last <= sync.start
      BY <1>3, <1>5, <1>12, <2>2, <3>1 DEF BifrostInv, BehindClock
    <3>. QED  BY <1>2, <1>4, <1>12, <3>2 DEF BifrostInv, BehindClock, Never
  <2>4. ASSUME NEW l \in LogIds, Prompt(l),
               \/ Place(l) <= offset \/ done
               \/ sync'.last # Never /\ log[l].at < sync'.last
        PROVE  copy'[l] # "none"
    <3>1. l \in Listed
      <4>1. sync.from = WindowFrom(sync.checkpoint)
        BY <1>12 DEF BifrostInv, PulledUpToOffset
      <4>. QED  BY <1>3, <1>5, <2>4, <4>1, BifrostBounds DEF Prompt, Listed, WindowFrom
    <3>2. CASE Place(l) <= sync.offset \/ l \in LogPage
      BY <1>8, <1>12, <2>4, <3>2 DEF BifrostInv, PulledUpToOffset
    <3>3. CASE sync'.last = sync.last /\ sync'.last # Never /\ log[l].at < sync'.last
      BY <1>8, <1>12, <2>4, <3>3 DEF BifrostInv, PulledUpToOffset
    <3>4. CASE \E m \in good : log[l].at < log[m].at
      BY <1>7, <1>9, <3>1, <3>2, <3>4
    <3>. QED  BY <1>9, <2>2, <2>4, <3>1, <3>2, <3>3, <3>4
  <2>5. PulledUpToOffset'
    <3>1. sync.from = WindowFrom(sync.checkpoint)
      BY <1>12 DEF BifrostInv, PulledUpToOffset
    <3>. QED  BY <1>2, <1>4, <1>10, <1>11, <2>4, <3>1 DEF PulledUpToOffset, Never, WindowFrom
  <2>6. PulledUpToLast'
    BY <1>2, <1>11, <2>1, <2>4 DEF PulledUpToLast, Never
  <2>7. ReconciledUpToOffset'
    BY <2>1 DEF ReconciledUpToOffset
  <2>8. CopiedBehindCheckpoint'
    BY <1>2, <1>8 DEF BifrostInv, CopiedBehindCheckpoint, Never, WindowFrom
  <2>. QED  BY <1>6, <2>3, <2>5, <2>6, <2>7, <2>8 DEF BifrostInv
<1>13. CASE sync.phase = "reconcile"
  <2>1. /\ sync'.phase \in {"reconcile", "reconciled"} /\ sync'.last = sync.last
        /\ sync'.drained <=> sync.drained
        /\ sync'.phase = "reconciled" => done \/ sync'.open = {}
        /\ sync'.open \subseteq sync.open \ bad
    BY <1>1, <1>13 DEF PageResult
  <2>2. BehindClock'
    BY <1>2, <1>4, <1>13, <2>1 DEF BifrostInv, BehindClock, Never
  <2>3. PulledUpToLast'
    BY <1>2, <1>8, <1>11, <1>13, <2>1 DEF BifrostInv, PulledUpToLast, Never
  <2>4. ASSUME NEW l \in sync'.open
        PROVE  /\ l \in LogIds /\ log[l].state = "final" /\ l \in Listed
               /\ Place(l) <= offset \/ done => copy'[l] = "final"
    <3>1. l \in sync.open /\ l \notin bad
      BY <2>1
    <3>2. l \in LogIds /\ log[l].state = "final" /\ l \in Listed /\ (Place(l) <= sync.offset => copy[l] = "final")
      BY <1>3, <1>13, <3>1 DEF BifrostInv, ReconciledUpToOffset
    <3>3. ASSUME Place(l) <= sync.offset \/ l \in LogPage PROVE copy'[l] = "final"
      BY <1>5, <1>7, <3>1, <3>2, <3>3
    <3>. QED  BY <1>9, <3>2, <3>3
  <2>5. ReconciledUpToOffset'
    BY <1>2, <1>4, <1>10, <2>1, <2>4 DEF ReconciledUpToOffset
  <2>6. PulledUpToOffset'
    BY <2>1 DEF PulledUpToOffset
  <2>7. CopiedBehindCheckpoint'
    BY <1>2, <1>8 DEF BifrostInv, CopiedBehindCheckpoint, Never, WindowFrom
  <2>. QED  BY <1>6, <2>2, <2>3, <2>5, <2>6, <2>7 DEF BifrostInv
<1>. QED  BY <1>3, <1>12, <1>13

\* The second pull begins: its window reaches back to every stuck row.
LEMMA ReconcileStep ==
    ASSUME BifrostInv, Reconcile
    PROVE  BifrostInv'
<1>1. sync.phase = "pulled" /\ UNCHANGED <<minute, log, copy, through, floor>>
  BY DEF Reconcile
<1>2. /\ sync \in Syncs /\ LogType /\ sync.start \in Int
      /\ Stuck \in SUBSET LogIds
  BY SyncFields DEF BifrostInv, BifrostTypes, Stuck
<1>. DEFINE open == {l \in Stuck : log[l].state = "final"}
<1>3. \/ sync' = [sync EXCEPT !.phase = "reconciled", !.open = {}]
      \/ /\ Stuck # {}
         /\ sync' = [sync EXCEPT !.phase = "reconcile", !.offset = 0, !.pages = 0,
                                 !.from = FromOldest(Stuck), !.open = open]
  BY DEF Reconcile
<1>4. open \in SUBSET LogIds
  BY <1>2
<1>. HIDE DEF open
<1>5. /\ sync' \in Syncs
      /\ sync'.start = sync.start /\ sync'.checkpoint = sync.checkpoint /\ sync'.last = sync.last
      /\ sync'.drained = sync.drained /\ sync'.phase \in {"reconcile", "reconciled"}
      /\ sync'.phase = "reconciled" => sync'.open = {}
      /\ sync'.phase = "reconcile" => /\ Stuck # {} /\ sync'.offset = 0 /\ sync'.open = open
                                      /\ sync'.from = FromOldest(Stuck)
  <2>1. CASE sync' = [sync EXCEPT !.phase = "reconciled", !.open = {}]
    BY <1>2, <2>1 DEF Syncs
  <2>2. CASE /\ Stuck # {}
             /\ sync' = [sync EXCEPT !.phase = "reconcile", !.offset = 0, !.pages = 0,
                                     !.from = FromOldest(Stuck), !.open = open]
    <3>1. FromOldest(Stuck) \in Int
      BY <1>2, <2>2, OldestIsLeast
    <3>. QED  BY <1>2, <1>4, <2>2, <3>1 DEF Syncs
  <2>. QED  BY <1>3, <2>1, <2>2
<1>6. BifrostTypes'
  BY <1>1, <1>5 DEF BifrostInv, BifrostTypes, LogType
<1>7. BehindClock' /\ CopiedBehindCheckpoint' /\ PulledUpToOffset'
  BY <1>1, <1>5 DEF BifrostInv, BehindClock, CopiedBehindCheckpoint, PulledUpToOffset, Never, WindowFrom
<1>8. PulledUpToLast'
  BY <1>1, <1>5 DEF BifrostInv, PulledUpToLast, Prompt, Never, WindowFrom
<1>9. ReconciledUpToOffset'
  <2>1. ASSUME sync'.phase = "reconcile", NEW l \in open PROVE l \in Listed'
    <3>1. l \in Stuck /\ log[l].state = "final" /\ log[l].at \in Nat /\ l \in LogIds
      BY <1>2, RequestFields DEF open
    <3>2. FromOldest(Stuck) <= log[l].at
      BY <1>2, <1>5, <2>1, <3>1, OldestIsLeast
    <3>3. log[l].at < sync.start
      BY <1>2, <3>1, BifrostBounds DEF Stuck
    <3>. QED  BY <1>1, <1>5, <2>1, <3>1, <3>2, <3>3 DEF Listed, LogIds
  <2>2. LogType'
    BY <1>6 DEF BifrostTypes
  <2>. QED  BY <1>1, <1>5, <2>1, <2>2, NoPlaceZeroNext DEF ReconciledUpToOffset, open
<1>. QED  BY <1>6, <1>7, <1>8, <1>9 DEF BifrostInv

\* The checkpoint moves to where the pull has been.
LEMMA FinishSyncStep ==
    ASSUME BifrostInv, FinishSync
    PROVE  BifrostInv'
<1>1. /\ sync.phase = "reconciled" /\ through' = Advance /\ sync' = NoSync
      /\ floor' = (IF through = Never THEN WindowFrom(sync.checkpoint) ELSE floor)
      /\ UNCHANGED <<minute, log, copy>>
  BY DEF FinishSync
<1>2. sync' \in Syncs /\ sync'.phase = "idle"
  BY <1>1, NoSyncType
<1>3. /\ sync \in Syncs /\ sync.start \in Int /\ sync.checkpoint \in Int /\ sync.last \in Int
      /\ sync.drained \in BOOLEAN /\ LogType /\ minute \in Int /\ through \in Int /\ floor \in Int
  BY SyncFields DEF BifrostInv, BifrostTypes
<1>4. /\ sync.start <= minute /\ sync.checkpoint <= sync.start
      /\ sync.last # Never => sync.last <= sync.start
      /\ through # Never => sync.checkpoint = through
  BY <1>1 DEF BifrostInv, BehindClock
<1>5. Advance \in Int /\ Advance <= sync.start
  BY <1>3, <1>4 DEF Advance
<1>6. WindowFrom(sync.checkpoint) \in Int
  BY <1>3, BifrostBounds DEF WindowFrom
<1>7. BifrostTypes'
  BY <1>1, <1>2, <1>3, <1>5, <1>6 DEF BifrostInv, BifrostTypes, LogType
<1>8. BehindClock'
  BY <1>1, <1>2, <1>3, <1>4, <1>5 DEF BifrostInv, BehindClock
<1>9. CopiedBehindCheckpoint'
  <2>. SUFFICES ASSUME NEW l \in LogIds, log[l].state # "none", ~log[l].late,
                       floor' <= log[l].at, log[l].at < WindowFrom(Advance)
                PROVE  copy[l] # "none"
    BY <1>1 DEF CopiedBehindCheckpoint, Never, WindowFrom
  <2>1. log[l].at \in Int
    BY <1>3, RequestFields
  <2>2. CASE ~(WindowFrom(sync.checkpoint) <= log[l].at)
    <3>1. through # Never /\ sync.checkpoint = through /\ floor' = floor
      BY <1>1, <1>3, <1>4, <1>6, <2>1, <2>2
    <3>2. log[l].at < WindowFrom(through)
      BY <1>6, <2>1, <2>2, <3>1
    <3>. QED  BY <3>1, <3>2 DEF BifrostInv, CopiedBehindCheckpoint
  <2>3. CASE WindowFrom(sync.checkpoint) <= log[l].at
    <3>1. log[l].at < WindowFrom(sync.start)
      BY <1>3, <1>5, <2>1, BifrostBounds DEF WindowFrom
    <3>2. Prompt(l)
      BY <2>3, <3>1 DEF Prompt
    <3>3. sync.drained \/ (sync.last # Never /\ log[l].at < sync.last)
      BY <1>3, <2>1, <2>3, BifrostBounds DEF Advance, WindowFrom
    <3>. QED  BY <1>1, <3>2, <3>3 DEF BifrostInv, PulledUpToLast
  <2>. QED  BY <2>2, <2>3
<1>10. PulledUpToOffset' /\ PulledUpToLast' /\ ReconciledUpToOffset'
  BY <1>2 DEF PulledUpToOffset, PulledUpToLast, ReconciledUpToOffset
<1>. QED  BY <1>7, <1>8, <1>9, <1>10 DEF BifrostInv

\* BifrostInv is inductive.
THEOREM BifrostInvariant == BifrostSpec => []BifrostInv
<1>1. BifrostInit => BifrostInv
  <2>. SUFFICES ASSUME BifrostInit PROVE BifrostInv
    OBVIOUS
  <2>1. NoLog \in LogEntries /\ NoLog.state = "none" /\ NoLog.at = 0
    BY DEF NoLog, LogEntries
  <2>2. /\ minute = 0 /\ through = Never /\ Never \in Int /\ Never <= 0 /\ floor = 0
        /\ sync \in Syncs /\ sync.phase = "idle"
    BY BifrostBounds, NoSyncType DEF BifrostInit, Never
  <2>3. /\ log \in [LogIds -> LogEntries] /\ copy \in [LogIds -> {"none", "raised", "processing", "final"}]
        /\ \A l \in LogIds : log[l].at = 0
    BY <2>1 DEF BifrostInit
  <2>4. BifrostTypes
    BY <2>2, <2>3, BifrostBounds DEF BifrostTypes, LogType
  <2>. QED
    BY <2>2, <2>3, <2>4 DEF BifrostInv, BehindClock, CopiedBehindCheckpoint, PulledUpToOffset, PulledUpToLast,
                            ReconciledUpToOffset
<1>2. ASSUME BifrostInv, [BifrostNext]_bifrostVars PROVE BifrostInv'
  <2>1. CASE LogRequest
    BY <1>2, <2>1, LogRequestStep
  <2>2. CASE FinishRequest
    BY <1>2, <2>2, FinishRequestStep
  <2>3. CASE PassMinute
    BY <1>2, <2>3, PassMinuteStep
  <2>4. CASE StartSync
    BY <1>2, <2>4, StartSyncStep
  <2>5. CASE PullPage
    BY <1>2, <2>5, PullPageStep
  <2>6. CASE Reconcile
    BY <1>2, <2>6, ReconcileStep
  <2>7. CASE FinishSync
    BY <1>2, <2>7, FinishSyncStep
  <2>8. CASE SyncAborts
    BY <1>2, <2>8, AbortStep
  <2>9. CASE UNCHANGED bifrostVars
    <3>1. UNCHANGED <<minute, log, copy, through, sync, floor>>
      BY <2>9 DEF bifrostVars
    <3>2. Listed' = Listed /\ \A l \in LogIds : Place(l)' = Place(l)
      BY <3>1, SameList
    <3>3. \A l \in LogIds : Prompt(l)' <=> Prompt(l)
      BY <3>1 DEF Prompt, WindowFrom
    <3>4. sync.open \in SUBSET LogIds
      BY <1>2, SyncFields DEF BifrostInv, BifrostTypes
    <3>5. BifrostTypes' /\ BehindClock' /\ CopiedBehindCheckpoint' /\ PulledUpToLast'
      BY <1>2, <3>1, <3>3 DEF BifrostInv, BifrostTypes, LogType, BehindClock, CopiedBehindCheckpoint,
                              PulledUpToLast, Never, WindowFrom
    <3>6. PulledUpToOffset'
      BY <1>2, <3>1, <3>2, <3>3 DEF BifrostInv, PulledUpToOffset, Never, WindowFrom
    <3>7. ReconciledUpToOffset'
      BY <1>2, <3>1, <3>2, <3>4 DEF BifrostInv, ReconciledUpToOffset
    <3>. QED  BY <3>5, <3>6, <3>7 DEF BifrostInv
  <2>. QED  BY <1>2, <2>1, <2>2, <2>3, <2>4, <2>5, <2>6, <2>7, <2>8, <2>9 DEF BifrostNext
<1>. QED  BY <1>1, <1>2, PTL DEF BifrostSpec

\* PromptLogsAreCopied for any number of requests, any overlap and any page
\* sizes and limits: rows that Bifrost inserts between two pages push others
\* back and so cost a repetition, never an omission, and a cut-off or aborted
\* pull leaves the checkpoint behind what it did not see.
THEOREM PromptCopied == BifrostSpec => []PromptLogsAreCopied
<1>1. BifrostInv => PromptLogsAreCopied
  BY DEF BifrostInv, CopiedBehindCheckpoint, PromptLogsAreCopied
<1>. QED  BY <1>1, BifrostInvariant, PTL

\* StuckLogsAreReconciled for the same (_reconcile_open_processing).
THEOREM StuckReconciled == BifrostSpec => []StuckLogsAreReconciled
<1>1. BifrostInv => StuckLogsAreReconciled
  BY DEF BifrostInv, ReconciledUpToOffset, StuckLogsAreReconciled
<1>. QED  BY <1>1, BifrostInvariant, PTL

-----------------------------------------------------------------------------
\* MaintenanceCalendar.

CalendarInv ==
    /\ windows \subseteq Windows
    /\ moment \in (SearchDays * DayTicks)..(LastDay * DayTicks)

LEMMA CalendarBounds ==
    /\ DayTicks \in Nat /\ DayTicks > 0 /\ WeekDays \in Nat /\ WeekDays > 0
    /\ SearchDays \in Nat /\ SearchDays > WeekDays /\ LastDay \in Nat /\ LastDay >= SearchDays
BY CalendarAssumption

\* Division and remainder.
LEMMA DayOfHolds ==
    ASSUME NEW t \in Int
    PROVE  DayOf(t) \in Int /\ DayOf(t) * DayTicks <= t /\ t < DayOf(t) * DayTicks + DayTicks
<1>1. DayTicks \in Nat \ {0}
  BY CalendarBounds
<1>. QED  BY <1>1 DEF DayOf

LEMMA DaysOrder ==
    ASSUME NEW p \in Int, NEW q \in Int, p * DayTicks < q * DayTicks
    PROVE  p < q
<1>1. DayTicks \in Nat \ {0}
  BY CalendarBounds
<1>. QED  BY <1>1

LEMMA DaysMonotone ==
    ASSUME NEW p \in Int, NEW q \in Int, p <= q
    PROVE  p * DayTicks <= q * DayTicks
<1>1. DayTicks \in Nat \ {0}
  BY CalendarBounds
<1>. QED  BY <1>1

LEMMA DaysAdd ==
    ASSUME NEW p \in Int, NEW q \in Int
    PROVE  /\ p * DayTicks \in Int /\ (p + q) * DayTicks = p * DayTicks + q * DayTicks
           /\ (p + 1) * DayTicks = p * DayTicks + DayTicks
           /\ (p + 2) * DayTicks = p * DayTicks + DayTicks + DayTicks
BY CalendarBounds

LEMMA SameWeekday ==
    ASSUME NEW d \in Int, NEW q \in Int
    PROVE  (d + WeekDays * q) % WeekDays = d % WeekDays
<1>1. WeekDays \in Nat \ {0}
  BY CalendarBounds
<1>2. (d + WeekDays * q) \div WeekDays = (d \div WeekDays) + q
  BY <1>1
<1>3. d + WeekDays * q \in Int /\ (d \div WeekDays) \in Int
  BY <1>1
<1>4. ASSUME NEW x \in Int PROVE x % WeekDays = x - WeekDays * (x \div WeekDays)
  BY <1>1
<1>5. WeekDays * ((d \div WeekDays) + q) = WeekDays * (d \div WeekDays) + WeekDays * q
  BY <1>1, <1>3
<1>. DEFINE a == WeekDays * q
            b == WeekDays * (d \div WeekDays)
<1>6. a \in Int /\ b \in Int
  BY <1>1, <1>3
<1>7. (d + a) % WeekDays = (d + a) - WeekDays * ((d + a) \div WeekDays) /\ d % WeekDays = d - b
  BY <1>3, <1>4
<1>8. WeekDays * ((d + a) \div WeekDays) = b + a
  BY <1>2, <1>5
<1>. HIDE DEF a, b
<1>9. (d + a) % WeekDays = d % WeekDays
  BY <1>6, <1>7, <1>8
<1>. QED  BY <1>9 DEF a

LEMMA WindowParts ==
    ASSUME NEW w \in Windows
    PROVE  /\ w.from \in Int /\ w.to \in Int
           /\ w.kind = "once" => w.from < w.to
           /\ w.kind # "once" => w.from \in 0..(DayTicks - 1) /\ w.to \in 0..(DayTicks - 1)
<1>1. CASE w \in [kind: {"daily"}, days: {0..(WeekDays - 1)}, allDay: {FALSE}, from: Times, to: Times]
  BY <1>1, CalendarBounds DEF Times
<1>2. CASE w \in [kind: {"weekly"}, days: SUBSET (0..(WeekDays - 1)) \ {{}}, allDay: BOOLEAN, from: Times, to: Times]
  BY <1>2, CalendarBounds DEF Times
<1>3. CASE w \in {v \in [kind: {"once"}, days: {{}}, allDay: {FALSE},
                 from: 0..(LastDay * DayTicks), to: 0..(LastDay * DayTicks)] : v.from < v.to}
  BY <1>3, CalendarBounds
<1>. QED  BY <1>1, <1>2, <1>3 DEF Windows

\* An occurrence begins on its day and lasts a day at most.
LEMMA OnDaySpan ==
    ASSUME NEW w \in Windows, w.kind # "once", NEW d \in Int
    PROVE  /\ OnDay(w, d).from \in Int /\ OnDay(w, d).to \in Int
           /\ d * DayTicks <= OnDay(w, d).from /\ OnDay(w, d).from < d * DayTicks + DayTicks
           /\ OnDay(w, d).from < OnDay(w, d).to
           /\ OnDay(w, d).to < d * DayTicks + DayTicks + DayTicks
<1>. DEFINE m == d * DayTicks
            s == IF w.allDay THEN 0 ELSE w.from
            e == IF w.allDay THEN 0 ELSE w.to
<1>1. m \in Int /\ DayTicks \in Nat /\ DayTicks > 0
  BY CalendarBounds
<1>2. s \in 0..(DayTicks - 1) /\ e \in 0..(DayTicks - 1)
  BY <1>1, WindowParts
<1>3. OnDay(w, d) = [from |-> m + s, to |-> IF e > s THEN m + e ELSE m + DayTicks + e]
  BY DEF OnDay
<1>. HIDE DEF m, s, e
<1>4. OnDay(w, d).from = m + s /\ OnDay(w, d).to = IF e > s THEN m + e ELSE m + DayTicks + e
  BY <1>3
<1>5. m + s \in Int /\ (IF e > s THEN m + e ELSE m + DayTicks + e) \in Int
      /\ m <= m + s /\ m + s < m + DayTicks
      /\ m + s < (IF e > s THEN m + e ELSE m + DayTicks + e)
      /\ (IF e > s THEN m + e ELSE m + DayTicks + e) < m + DayTicks + DayTicks
  BY <1>1, <1>2
<1>. QED  BY <1>4, <1>5 DEF m

\* The days that occurrences looks at are those that matter.
LEMMA RepeatingReaches ==
    ASSUME NEW w \in Windows, w.kind # "once", NEW d \in Int, d % WeekDays \in w.days,
           NEW start \in Int, NEW end \in Int, OnDay(w, d).from < end, OnDay(w, d).to > start
    PROVE  OnDay(w, d) \in Repeating(w, start, end)
<1>3. DayOf(start) \in Int /\ DayOf(end) \in Int /\ d + 2 \in Int /\ DayOf(end) + 1 \in Int
  BY DayOfHolds
<1>. DEFINE p == DayOf(start) * DayTicks
            q == DayOf(end) * DayTicks
            m == d * DayTicks
            f == OnDay(w, d).from
            t == OnDay(w, d).to
<1>6. p \in Int /\ q \in Int /\ m \in Int /\ DayTicks \in Int
  BY <1>3, DaysAdd, CalendarBounds
<1>7. f \in Int /\ t \in Int /\ m <= f /\ t < m + DayTicks + DayTicks
  BY OnDaySpan
<1>8. p <= start /\ end < q + DayTicks
  BY DayOfHolds
<1>9. (d + 2) * DayTicks = m + DayTicks + DayTicks /\ (DayOf(end) + 1) * DayTicks = q + DayTicks
  BY <1>3, DaysAdd
<1>10. f < end /\ t > start
  OBVIOUS
<1>. HIDE DEF p, q, m, f, t
<1>11. p < m + DayTicks + DayTicks /\ m < q + DayTicks
  BY <1>6, <1>7, <1>8, <1>10
<1>1. DayOf(start) * DayTicks < (d + 2) * DayTicks
  BY <1>9, <1>11 DEF p
<1>2. d * DayTicks < (DayOf(end) + 1) * DayTicks
  BY <1>9, <1>11 DEF m
<1>4. DayOf(start) < d + 2 /\ d < DayOf(end) + 1
  BY <1>1, <1>2, <1>3, DaysOrder
<1>5. d \in (DayOf(start) - 1)..DayOf(end)
  BY <1>3, <1>4
<1>. QED  BY <1>5 DEF Repeating

\* ... and no others than the calendar has.
LEMMA RepeatingIsCalendar ==
    ASSUME NEW w \in Windows, w.kind # "once", NEW start \in Int, NEW end \in Int,
           0 <= start, end <= (LastDay + SearchDays) * DayTicks, NEW o \in Repeating(w, start, end)
    PROVE  o \in Calendar(w) /\ o.from < end /\ o.to > start
<1>1. PICK d \in (DayOf(start) - 1)..DayOf(end) : d % WeekDays \in w.days /\ o = OnDay(w, d)
  BY DEF Repeating
<1>2. o.from < end /\ o.to > start
  BY DEF Repeating
<1>3. DayOf(start) \in Int /\ DayOf(end) \in Int /\ d \in Int
  BY DayOfHolds
<1>4. 0 * DayTicks < (DayOf(start) + 1) * DayTicks
  <2>1. (DayOf(start) + 1) * DayTicks = DayOf(start) * DayTicks + DayTicks /\ DayOf(start) * DayTicks \in Int
    BY <1>3, DaysAdd
  <2>2. start < DayOf(start) * DayTicks + DayTicks
    BY DayOfHolds
  <2>3. 0 * DayTicks = 0 /\ DayTicks \in Int
    BY CalendarBounds
  <2>. QED  BY <2>1, <2>2, <2>3
<1>5. DayOf(end) * DayTicks < (LastDay + SearchDays + 1) * DayTicks
  <2>. DEFINE n == LastDay + SearchDays
  <2>1. n \in Int
    BY CalendarBounds
  <2>2. (n + 1) * DayTicks = n * DayTicks + DayTicks /\ n * DayTicks \in Int
    BY <2>1, DaysAdd
  <2>3. DayOf(end) * DayTicks <= end /\ end <= n * DayTicks /\ DayOf(end) * DayTicks \in Int
    BY <1>3, DayOfHolds, DaysAdd
  <2>. HIDE DEF n
  <2>4. DayOf(end) * DayTicks < (n + 1) * DayTicks
    BY <2>2, <2>3, CalendarBounds
  <2>. QED  BY <2>4 DEF n
<1>6. 0 < DayOf(start) + 1
  BY <1>3, <1>4, DaysOrder
<1>7. DayOf(end) < LastDay + SearchDays + 1
  <2>1. LastDay + SearchDays + 1 \in Int
    BY CalendarBounds
  <2>. QED  BY <1>3, <1>5, <2>1, DaysOrder
<1>8. d \in -WeekDays..(LastDay + SearchDays + WeekDays)
  BY <1>3, <1>6, <1>7, CalendarBounds
<1>. QED  BY <1>1, <1>2, <1>8 DEF Calendar

\* Where the calendar is asked about lies in the days that are bounded.
LEMMA MomentReach ==
    ASSUME CalendarInv
    PROVE  /\ moment \in Int /\ moment + 1 \in Int
           /\ moment - SearchDays * DayTicks \in Int /\ moment + SearchDays * DayTicks \in Int
           /\ 0 <= moment /\ 0 <= moment - SearchDays * DayTicks
           /\ DayTicks <= SearchDays * DayTicks
           /\ moment + SearchDays * DayTicks <= (LastDay + SearchDays) * DayTicks
           /\ moment + 1 <= (LastDay + SearchDays) * DayTicks
           /\ moment <= (LastDay + SearchDays) * DayTicks
<1>. DEFINE s == SearchDays * DayTicks
            l == LastDay * DayTicks
<1>1. SearchDays \in Int /\ LastDay \in Int /\ 1 <= SearchDays /\ 0 \in Int /\ 1 \in Int
  BY CalendarBounds
<1>2. s \in Int /\ l \in Int /\ (LastDay + SearchDays) * DayTicks = l + s
  BY <1>1, DaysAdd
<1>3. 1 * DayTicks <= s
  BY <1>1, DaysMonotone
<1>4. DayTicks <= s
  BY <1>3, CalendarBounds
<1>5. moment \in s..l
  BY DEF CalendarInv
<1>. HIDE DEF s, l
<1>6. /\ moment \in Int /\ moment + 1 \in Int /\ moment - s \in Int /\ moment + s \in Int
      /\ 0 <= moment /\ 0 <= moment - s
      /\ moment + s <= l + s /\ moment + 1 <= l + s /\ moment <= l + s
  BY <1>2, <1>4, <1>5, CalendarBounds
<1>. QED  BY <1>2, <1>4, <1>6 DEF s

\* An occurrence of the calendar is the window itself or one of its days.
LEMMA CalendarParts ==
    ASSUME NEW w \in Windows, NEW o \in Calendar(w)
    PROVE  /\ w.kind = "once" => o = [from |-> w.from, to |-> w.to]
           /\ w.kind # "once" => \E d \in Int : d % WeekDays \in w.days /\ o = OnDay(w, d)
           /\ o.from \in Int /\ o.to \in Int /\ o.from < o.to
<1>1. CASE w.kind = "once"
  BY <1>1, WindowParts DEF Calendar
<1>2. CASE w.kind # "once"
  <2>1. PICK d \in -WeekDays..(LastDay + SearchDays + WeekDays) : d % WeekDays \in w.days /\ o = OnDay(w, d)
    BY <1>2 DEF Calendar
  <2>2. d \in Int
    BY <2>1, CalendarBounds
  <2>. QED  BY <1>2, <2>1, <2>2, OnDaySpan
<1>. QED  BY <1>1, <1>2

\* Every occurrence of the calendar that overlaps [start, end) is found, and
\* what is found is one.
LEMMA OccurrencesAreExact ==
    ASSUME NEW w \in Windows, NEW start \in Int, NEW end \in Int,
           0 <= start, end <= (LastDay + SearchDays) * DayTicks
    PROVE  /\ \A o \in Calendar(w) : o.from < end /\ o.to > start => o \in Occurrences(w, start, end)
           /\ \A o \in Occurrences(w, start, end) : o \in Calendar(w)
<1>1. CASE w.kind = "once"
  BY <1>1 DEF Occurrences, Calendar
<1>2. CASE w.kind # "once"
  <2>1. ASSUME NEW o \in Calendar(w), o.from < end, o.to > start PROVE o \in Repeating(w, start, end)
    <3>1. PICK d \in Int : d % WeekDays \in w.days /\ o = OnDay(w, d)
      BY <1>2, CalendarParts
    <3>. QED  BY <1>2, <2>1, <3>1, RepeatingReaches
  <2>2. ASSUME NEW o \in Repeating(w, start, end) PROVE o \in Calendar(w)
    BY <1>2, <2>2, RepeatingIsCalendar
  <2>. QED  BY <1>2, <2>1, <2>2 DEF Occurrences
<1>. QED  BY <1>1, <1>2

LEMMA ActiveIsExact ==
    ASSUME CalendarInv
    PROVE  ActiveAt(windows, moment) <=> \E o \in WholeCalendar : o.from <= moment /\ moment < o.to
<1>1. /\ moment \in Int /\ moment + 1 \in Int /\ 0 <= moment
      /\ moment + 1 <= (LastDay + SearchDays) * DayTicks
  BY MomentReach
<1>2. ASSUME NEW w \in windows, NEW o \in Occurrences(w, moment, moment + 1) PROVE o \in WholeCalendar
  BY <1>1, <1>2, OccurrencesAreExact DEF WholeCalendar, CalendarInv
<1>3. ASSUME NEW w \in windows, NEW o \in Calendar(w), o.from <= moment, moment < o.to
      PROVE  o \in Occurrences(w, moment, moment + 1)
  <2>1. w \in Windows /\ o.from \in Int /\ o.to \in Int
    BY CalendarParts DEF CalendarInv
  <2>2. o.from < moment + 1 /\ o.to > moment
    BY <1>1, <1>3, <2>1
  <2>. QED  BY <1>1, <2>1, <2>2, OccurrencesAreExact
<1>. QED  BY <1>2, <1>3 DEF ActiveAt, WholeCalendar

LEMMA EndsAreExact ==
    ASSUME CalendarInv
    PROVE  /\ EndsBefore(windows, moment) \subseteq {o.to : o \in WholeCalendar}
           /\ \A o \in WholeCalendar :
                 o.to <= moment /\ o.to > moment - SearchDays * DayTicks
                    => \E e \in EndsBefore(windows, moment) : e >= o.to
<1>. DEFINE past == moment - SearchDays * DayTicks
<1>1. /\ moment \in Int /\ past \in Int /\ 0 <= past
      /\ moment <= (LastDay + SearchDays) * DayTicks
  BY MomentReach
<1>. HIDE DEF past
<1>2. \A w \in windows : w \in Windows
  BY DEF CalendarInv
<1>3. ASSUME NEW w \in windows, NEW o \in Occurrences(w, past, moment) PROVE o \in WholeCalendar
  BY <1>1, <1>2, <1>3, OccurrencesAreExact DEF WholeCalendar
<1>4. ASSUME NEW w \in windows, NEW o \in Calendar(w), o.to <= moment, o.to > past
      PROVE  o \in Occurrences(w, past, moment) /\ o.to >= o.to
  <2>1. o.from \in Int /\ o.to \in Int /\ o.from < o.to
    BY <1>2, CalendarParts
  <2>2. o.from < moment
    BY <1>1, <1>4, <2>1
  <2>. QED  BY <1>1, <1>2, <1>4, <2>1, <2>2, OccurrencesAreExact
<1>. QED  BY <1>3, <1>4 DEF EndsBefore, WholeCalendar, past

\* A repeating window that starts later has a start within the days searched:
\* the same weekday comes back every week, and the search is longer.
LEMMA NextOnDay ==
    ASSUME CalendarInv, NEW w \in Windows, w.kind # "once", NEW d \in Int, d % WeekDays \in w.days,
           OnDay(w, d).from > moment
    PROVE  \E c \in Int : /\ c % WeekDays \in w.days /\ OnDay(w, c).from > moment
                          /\ OnDay(w, c).from < moment + SearchDays * DayTicks
                          /\ OnDay(w, c).from <= OnDay(w, d).from
<1>. DEFINE t == DayOf(moment)
            h == SearchDays * DayTicks
<1>1. /\ moment \in Int /\ h \in Int /\ DayTicks <= h /\ t \in Int /\ DayTicks \in Int
      /\ t * DayTicks <= moment /\ moment < t * DayTicks + DayTicks /\ t * DayTicks \in Int
  <2>1. moment \in Int /\ DayTicks <= h
    BY MomentReach
  <2>2. h \in Int /\ DayTicks \in Int
    BY CalendarBounds, DaysAdd
  <2>. QED  BY <2>1, <2>2, DayOfHolds, DaysAdd
<1>2. OnDay(w, d).from \in Int /\ OnDay(w, d).from < d * DayTicks + DayTicks /\ d * DayTicks \in Int
      /\ d * DayTicks <= OnDay(w, d).from
  BY OnDaySpan, DaysAdd
<1>3. t <= d
  <2>1. (d + 1) * DayTicks = d * DayTicks + DayTicks
    BY DaysAdd
  <2>2. t * DayTicks < (d + 1) * DayTicks
    BY <1>1, <1>2, <2>1
  <2>3. t < d + 1
    BY <1>1, <2>2, DaysOrder
  <2>. QED  BY <1>1, <2>3
<1>4. CASE d = t
  <2>1. OnDay(w, d).from < moment + h
    BY <1>1, <1>2, <1>4
  <2>. QED  BY <1>2, <2>1
<1>5. CASE d # t
  <2>. DEFINE x == d - t - 1
              r == x % WeekDays
              q == x \div WeekDays
              c == t + 1 + r
  <2>1. x \in Nat /\ WeekDays \in Nat \ {0}
    BY <1>1, <1>3, <1>5, CalendarBounds
  <2>2. r \in 0..(WeekDays - 1) /\ q \in Int /\ r = x - WeekDays * q
    BY <2>1
  <2>3. q >= 0
    BY <2>1
  <2>4. WeekDays * q \in Nat /\ WeekDays * (-q) = -(WeekDays * q) /\ -q \in Int
    BY <2>1, <2>2, <2>3
  <2>5. c = d + WeekDays * (-q) /\ c \in Int
    <3>1. x = d - t - 1 /\ c = t + 1 + r
      OBVIOUS
    <3>. HIDE DEF x, r, q, c
    <3>. QED  BY <1>1, <2>1, <2>2, <2>4, <3>1
  <2>6. c % WeekDays = d % WeekDays
    BY <2>4, <2>5, SameWeekday
  <2>7. t + 1 <= c /\ c <= d /\ c + 1 <= t + SearchDays
    <3>1. c <= d
      BY <2>4, <2>5
    <3>. HIDE DEF x, q
    <3>. QED  BY <1>1, <2>1, <2>2, <3>1, CalendarBounds
  <2>. HIDE DEF x, r, q, c
  <2>8. /\ OnDay(w, c).from \in Int /\ c * DayTicks <= OnDay(w, c).from
        /\ OnDay(w, c).from < c * DayTicks + DayTicks /\ c * DayTicks \in Int
    BY <2>5, OnDaySpan, DaysAdd
  <2>9. (t + 1) * DayTicks = t * DayTicks + DayTicks /\ (t + 1) * DayTicks <= c * DayTicks
    BY <1>1, <2>5, <2>7, DaysAdd, DaysMonotone
  <2>10. /\ (c + 1) * DayTicks = c * DayTicks + DayTicks
         /\ (t + SearchDays) * DayTicks = t * DayTicks + h
         /\ (c + 1) * DayTicks <= (t + SearchDays) * DayTicks
    <3>1. c + 1 \in Int /\ t + SearchDays \in Int /\ SearchDays \in Int
      BY <1>1, <2>5, CalendarBounds
    <3>. QED  BY <1>1, <2>5, <2>7, <3>1, DaysAdd, DaysMonotone
  <2>11. OnDay(w, c).from > moment /\ OnDay(w, c).from < moment + h
    <3>. HIDE DEF t, h
    <3>. QED  BY <1>1, <2>8, <2>9, <2>10
  <2>12. OnDay(w, c).from <= OnDay(w, d).from
    <3>. DEFINE start == IF w.allDay THEN 0 ELSE w.from
    <3>1. OnDay(w, c).from = c * DayTicks + start /\ OnDay(w, d).from = d * DayTicks + start
      BY DEF OnDay
    <3>2. start \in Int
      BY WindowParts
    <3>3. c * DayTicks <= d * DayTicks
      BY <2>5, <2>7, DaysMonotone
    <3>. HIDE DEF start
    <3>. QED  BY <1>2, <2>8, <3>1, <3>2, <3>3
  <2>. QED  BY <2>5, <2>6, <2>11, <2>12 DEF h
<1>. QED  BY <1>4, <1>5

LEMMA StartsAreExact ==
    ASSUME CalendarInv
    PROVE  /\ StartsAfter(windows, moment) \subseteq {o.from : o \in WholeCalendar}
           /\ \A o \in WholeCalendar :
                 o.from > moment => \E s \in StartsAfter(windows, moment) : s <= o.from
<1>1. /\ moment \in Int /\ moment + SearchDays * DayTicks \in Int /\ 0 <= moment
      /\ moment + SearchDays * DayTicks <= (LastDay + SearchDays) * DayTicks
  BY MomentReach
<1>2. \A w \in windows : w \in Windows
  BY DEF CalendarInv
<1>3. ASSUME NEW w \in windows, w.kind # "once" PROVE Horizon(w, moment) = moment + SearchDays * DayTicks
  BY <1>3 DEF Horizon
<1>4. ASSUME NEW w \in windows, w.kind = "once" PROVE w.from < Horizon(w, moment) /\ Horizon(w, moment) \in Int
  BY <1>1, <1>2, <1>4, WindowParts DEF Horizon
<1>5. ASSUME NEW w \in windows, NEW o \in Occurrences(w, moment, Horizon(w, moment)) PROVE o \in WholeCalendar
  <2>1. CASE w.kind = "once"
    BY <1>5, <2>1 DEF Occurrences, Calendar, WholeCalendar
  <2>2. CASE w.kind # "once"
    <3>1. o \in Occurrences(w, moment, moment + SearchDays * DayTicks)
      BY <1>3, <1>5, <2>2
    <3>. QED  BY <1>1, <1>2, <3>1, OccurrencesAreExact DEF WholeCalendar
  <2>. QED  BY <2>1, <2>2
<1>6. ASSUME NEW w \in windows, NEW o \in Calendar(w), o.from > moment
      PROVE  \E c \in Occurrences(w, moment, Horizon(w, moment)) : c.from > moment /\ c.from <= o.from
  <2>0. w \in Windows /\ o.from \in Int /\ o.to \in Int /\ o.from < o.to
    BY <1>2, CalendarParts
  <2>1. CASE w.kind = "once"
    <3>1. o = [from |-> w.from, to |-> w.to] /\ o.from = w.from /\ o.to = w.to
      BY <2>0, <2>1, CalendarParts
    <3>2. w.from < Horizon(w, moment) /\ w.to > moment
      BY <1>1, <1>4, <1>6, <2>0, <2>1, <3>1
    <3>3. o \in Occurrences(w, moment, Horizon(w, moment))
      BY <2>1, <3>1, <3>2 DEF Occurrences
    <3>. QED  BY <1>6, <2>0, <3>3
  <2>2. CASE w.kind # "once"
    <3>1. PICK d \in Int : d % WeekDays \in w.days /\ o = OnDay(w, d)
      BY <2>0, <2>2, CalendarParts
    <3>2. PICK c \in Int : /\ c % WeekDays \in w.days /\ OnDay(w, c).from > moment
                           /\ OnDay(w, c).from < moment + SearchDays * DayTicks
                           /\ OnDay(w, c).from <= OnDay(w, d).from
      BY <1>6, <2>0, <2>2, <3>1, NextOnDay
    <3>3. OnDay(w, c).to > moment
      BY <1>1, <2>0, <2>2, <3>2, OnDaySpan
    <3>4. OnDay(w, c) \in Repeating(w, moment, moment + SearchDays * DayTicks)
      BY <1>1, <2>0, <2>2, <3>2, <3>3, RepeatingReaches
    <3>5. OnDay(w, c) \in Occurrences(w, moment, Horizon(w, moment))
      BY <1>3, <2>2, <3>4 DEF Occurrences
    <3>. QED  BY <3>1, <3>2, <3>5
  <2>. QED  BY <2>1, <2>2
<1>. QED  BY <1>5, <1>6 DEF StartsAfter, WholeCalendar


\* The windows do not change and the time asked about stays in its bounds.
LEMMA CalendarInvariant == CalendarSpec => []CalendarInv
<1>1. CalendarInit => CalendarInv
  <2>. SUFFICES ASSUME CalendarInit PROVE CalendarInv
    OBVIOUS
  <2>1. windows \subseteq Windows
    BY DEF CalendarInit
  <2>2. /\ SearchDays * DayTicks \in Int /\ LastDay * DayTicks \in Int
        /\ SearchDays * DayTicks <= LastDay * DayTicks
    BY CalendarBounds, DaysAdd, DaysMonotone
  <2>. QED  BY <2>1, <2>2 DEF CalendarInit, CalendarInv
<1>2. CalendarInv /\ [CalendarNext]_calendarVars => CalendarInv'
  <2>1. SearchDays * DayTicks \in Int /\ LastDay * DayTicks \in Int
    BY CalendarBounds, DaysAdd
  <2>. DEFINE l == LastDay * DayTicks
              s == SearchDays * DayTicks
  <2>. HIDE DEF l, s
  <2>2. ASSUME l \in Int, s \in Int, moment \in s..l, moment < l \/ moment' = moment,
               moment' = moment + 1 \/ moment' = moment
        PROVE  moment' \in s..l
    BY <2>2
  <2>3. CalendarInv /\ [CalendarNext]_calendarVars => moment' \in s..l /\ windows' = windows
    BY <2>1, <2>2 DEF CalendarInv, CalendarNext, calendarVars, l, s
  <2>. QED  BY <2>3 DEF CalendarInv, l, s
<1>. QED  BY <1>1, <1>2, PTL DEF CalendarSpec

\* CalendarIsExact for any windows, any length of day and week, and any search
\* that is longer than a week: occurrences, active_window, last_window_end and
\* next_window look at enough days.
THEOREM CalendarExact == CalendarSpec => []CalendarIsExact
<1>1. CalendarInv => CalendarIsExact
  <2>. SUFFICES ASSUME CalendarInv PROVE CalendarIsExact
    OBVIOUS
  <2>. QED  BY ActiveIsExact, EndsAreExact, StartsAreExact, Zenon DEF CalendarIsExact
<1>. QED  BY <1>1, CalendarInvariant, PTL

-----------------------------------------------------------------------------
\* SiteDiscovery.

\* The property of one row.
ClaimHolds(e) ==
    e.npm \in Addressed /\ e.status \in {"Active", "Unmatched"} => e.target \in {e.npm, "none"}

\* A row that names no NPM makes no claim about one.
LEMMA NoNpmNoClaim ==
    ASSUME NEW e, e.npm = NoNpm
    PROVE  ClaimHolds(e)
<1>1. NoNpm \notin Addressed
  BY SiteAssumption
<1>. QED  BY <1>1 DEF ClaimHolds

\* The row of a chosen NPM is right if "Active" was right about it.
LEMMA NpmEntryClaim ==
    ASSUME NEW n, NEW status, NEW checked, NEW ips,
           n \in Addressed /\ status = "Active" => FoundTarget(checked) \in {n, "none"},
           status \in {"Active", "Not in Cloudflare", "DNS Mismatch"}
    PROVE  ClaimHolds(NpmEntry(n, status, checked, ips))
<1>1. /\ NpmEntry(n, status, checked, ips).npm = n
      /\ NpmEntry(n, status, checked, ips).target = FoundTarget(checked)
      /\ NpmEntry(n, status, checked, ips).status \in {"Active", "Unmatched"} => status = "Active"
  BY DEF NpmEntry
<1>. QED  BY <1>1 DEF ClaimHolds

\* resolve() makes no other claim, whatever could be fetched.
LEMMA ResolveClaim ==
    ASSUME NEW fetched, NEW checked \in BOOLEAN, NEW ips \in BOOLEAN
    PROVE  ClaimHolds(Resolve(fetched, checked, ips))
<1>. DEFINE C == lists \cap fetched
            P == PointedTo(C, checked)
            base == [NoEntry EXCEPT !.target = FoundTarget(checked)]
            n == CHOOSE x \in C : TRUE
            p == CHOOSE x \in P : TRUE
<1>1. ClaimHolds(NpmEntry(n, SingleStatus(n, checked), checked, ips))
  <2>1. SingleStatus(n, checked) \in {"Active", "Not in Cloudflare", "DNS Mismatch"}
    BY DEF SingleStatus
  <2>2. n \in Addressed /\ SingleStatus(n, checked) = "Active" => FoundTarget(checked) \in {n, "none"}
    BY DEF SingleStatus, FoundTarget
  <2>. QED  BY <2>1, <2>2, NpmEntryClaim
<1>2. ASSUME P # {} PROVE ClaimHolds(NpmEntry(p, "Active", checked, ips))
  <2>1. p \in P
    BY <1>2
  <2>2. FoundTarget(checked) = p
    BY <2>1 DEF PointedTo, FoundTarget
  <2>. QED  BY <2>2, NpmEntryClaim
<1>3. /\ [base EXCEPT !.source = "NPM", !.status = "Ambiguous"].npm = NoNpm
      /\ [base EXCEPT !.source = "Direct DNS", !.status = "Active", !.guest = TRUE].npm = NoNpm
      /\ [base EXCEPT !.source = "Pulse Agent", !.guest = TRUE,
                      !.status = IF checked /\ dns = "none" THEN "Not in Cloudflare" ELSE "Active"].npm = NoNpm
      /\ NoEntry.npm = NoNpm
  BY DEF NoEntry
<1>4. \/ Resolve(fetched, checked, ips) = NpmEntry(n, SingleStatus(n, checked), checked, ips)
      \/ P # {} /\ Resolve(fetched, checked, ips) = NpmEntry(p, "Active", checked, ips)
      \/ Resolve(fetched, checked, ips).npm = NoNpm
  BY <1>3 DEF Resolve
<1>. QED  BY <1>1, <1>2, <1>4, NoNpmNoClaim

\* LiveMeansPointedTo for any set of NPMs, addressed or not, and whether
\* Cloudflare is asked or not (resolve, run_sync).
THEOREM LivePointedTo == SiteSpec => []LiveMeansPointedTo
<1>1. SiteInit => LiveMeansPointedTo
  <2>1. NoEntry.npm = NoNpm
    BY DEF NoEntry
  <2>. QED  BY <2>1, SiteAssumption DEF SiteInit, LiveMeansPointedTo
<1>2. ASSUME LiveMeansPointedTo, [SiteNext]_siteVars PROVE LiveMeansPointedTo'
  <2>1. CASE RunSync
    <3>1. PICK failed \in FetchNpms, cfFailed \in FetchCloudflare, ips \in LoadGuests :
            entry' = IF entry # NoEntry /\ Keeps(failed, cfFailed) THEN entry
                     ELSE Resolve(Npms \ failed, CfEnabled /\ ~cfFailed, ips)
      BY <2>1 DEF RunSync
    <3>2. ClaimHolds(Resolve(Npms \ failed, CfEnabled /\ ~cfFailed, ips))
      <4>1. (CfEnabled /\ ~cfFailed) \in BOOLEAN /\ ips \in BOOLEAN
        BY DEF LoadGuests
      <4>. QED  BY <4>1, ResolveClaim, Zenon
    <3>3. ClaimHolds(entry)
      BY <1>2 DEF LiveMeansPointedTo, ClaimHolds
    <3>4. ClaimHolds(entry')
      BY <3>1, <3>2, <3>3, Zenon
    <3>. QED  BY <3>4 DEF LiveMeansPointedTo, ClaimHolds
  <2>2. CASE SourceChanges \/ UNCHANGED siteVars
    <3>1. entry' = entry
      BY <2>2 DEF SourceChanges, siteVars
    <3>. QED  BY <1>2, <3>1 DEF LiveMeansPointedTo
  <2>. QED  BY <1>2, <2>1, <2>2 DEF SiteNext
<1>. QED  BY <1>1, <1>2, PTL DEF SiteSpec

\* What resolve() makes of a domain that an NPM lists and was asked about:
\* that NPM has the row, or another one lists the domain as well.
LEMMA ResolveKeepsOwner ==
    ASSUME NEW fetched \in SUBSET Npms, NEW checked \in BOOLEAN, NEW ips \in BOOLEAN,
           NEW n \in lists \cap fetched, NEW e, e = Resolve(fetched, checked, ips), e.npm # n
    PROVE  /\ e.npm \in lists \/ e.status = "Ambiguous"
           /\ lists # {n}
           /\ checked /\ n \in Addressed => dns # n
<1>. DEFINE C == lists \cap fetched
            P == PointedTo(C, checked)
            base == [NoEntry EXCEPT !.target = FoundTarget(checked)]
            c == CHOOSE x \in C : TRUE
            p == CHOOSE x \in P : TRUE
<1>1. IsFiniteSet(C) /\ n \in C
  BY SiteAssumption, FS_Subset
<1>2. ASSUME NEW x, NEW status PROVE NpmEntry(x, status, checked, ips).npm = x
  BY DEF NpmEntry
<1>3. Cardinality(C) # 1
  <2>. SUFFICES ASSUME Cardinality(C) = 1 PROVE FALSE
    OBVIOUS
  <2>1. PICK x : C = {x}
    BY <1>1, FS_Singleton
  <2>2. c = n
    BY <1>1, <2>1
  <2>3. e = NpmEntry(c, SingleStatus(c, checked), checked, ips)
    BY DEF Resolve
  <2>. QED  BY <1>2, <2>2, <2>3
<1>4. lists # {n}
  <2>. SUFFICES ASSUME lists = {n} PROVE FALSE
    OBVIOUS
  <2>1. C = {n}
    BY <1>1
  <2>. QED  BY <1>3, <2>1, FS_Singleton
<1>5. CASE P # {}
  <2>1. p \in P /\ p \in lists
    BY <1>5 DEF PointedTo
  <2>2. e = NpmEntry(p, "Active", checked, ips)
    BY <1>3, <1>5 DEF Resolve
  <2>3. e.npm = p
    BY <1>2, <2>2
  <2>4. checked => dns = p
    BY <2>1 DEF PointedTo
  <2>. QED  BY <1>4, <2>1, <2>3, <2>4
<1>6. CASE P = {}
  <2>1. e = [base EXCEPT !.source = "NPM", !.status = "Ambiguous"]
    BY <1>1, <1>3, <1>6 DEF Resolve
  <2>2. e.status = "Ambiguous"
    BY <2>1 DEF NoEntry
  <2>3. checked /\ n \in Addressed => dns # n
    BY <1>1, <1>6 DEF PointedTo
  <2>. QED  BY <1>4, <2>2, <2>3
<1>. QED  BY <1>5, <1>6

\* OwnersKeepTheirRows for any set of NPMs: a row whose owner's fetch failed,
\* or that was found while Cloudflare failed, is kept, and resolve() prefers
\* nobody else as long as Cloudflare points to the owner.
THEOREM OwnersKeepRows == SiteSpec => OwnersKeepTheirRows
<1>. DEFINE Lists == lists \subseteq Npms
            Loses == entry.npm \in lists /\ entry'.npm # entry.npm
            Reason == /\ entry'.npm \in lists \/ entry'.status = "Ambiguous"
                      /\ lists # {entry.npm}
                      /\ CfEnabled /\ entry.npm \in Addressed => dns # entry.npm
<1>1. SiteInit => Lists
  BY DEF SiteInit
<1>2. Lists /\ [SiteNext]_siteVars => Lists'
  BY DEF SiteNext, RunSync, SourceChanges, siteVars
<1>3. ASSUME Lists, [SiteNext]_siteVars, Loses PROVE Reason
  <2>1. CASE RunSync
    <3>1. PICK failed \in FetchNpms, cfFailed \in FetchCloudflare, ips \in LoadGuests :
            entry' = IF entry # NoEntry /\ Keeps(failed, cfFailed) THEN entry
                     ELSE Resolve(Npms \ failed, CfEnabled /\ ~cfFailed, ips)
      BY <2>1 DEF RunSync
    <3>2. entry.npm \in Npms /\ entry # NoEntry
      BY <1>3, SiteAssumption DEF NoEntry
    <3>3. ~Keeps(failed, cfFailed) /\ entry' = Resolve(Npms \ failed, CfEnabled /\ ~cfFailed, ips)
      BY <1>3, <3>1, <3>2
    <3>4. entry.npm \in lists \cap (Npms \ failed) /\ ~cfFailed
      BY <1>3, <3>2, <3>3 DEF Keeps
    <3>. DEFINE fetched == Npms \ failed
                checked == CfEnabled /\ ~cfFailed
                n == entry.npm
    <3>5. checked \in BOOLEAN /\ ips \in BOOLEAN /\ fetched \in SUBSET Npms /\ n \in lists \cap fetched
      BY <3>4 DEF LoadGuests
    <3>6. entry' = Resolve(fetched, checked, ips) /\ entry'.npm # n
      BY <1>3, <3>3
    <3>7. CfEnabled => checked
      BY <3>4
    <3>. HIDE DEF fetched, checked
    <3>8. /\ entry'.npm \in lists \/ entry'.status = "Ambiguous"
          /\ lists # {n}
          /\ checked /\ n \in Addressed => dns # n
      BY <3>5, <3>6, ResolveKeepsOwner
    <3>. QED  BY <3>7, <3>8
  <2>2. CASE SourceChanges \/ UNCHANGED siteVars
    BY <1>3, <2>2 DEF SourceChanges, siteVars
  <2>. QED  BY <1>3, <2>1, <2>2 DEF SiteNext
<1>4. Lists /\ [SiteNext]_siteVars => [Loses => Reason]_siteVars
  BY <1>3
<1>. QED  BY <1>1, <1>2, <1>4, PTL DEF SiteSpec, OwnersKeepTheirRows

-----------------------------------------------------------------------------
\* BackupHistory.

LogLine == [kind : {"start", "began", "finished", "at", "failed"}, vmid : Vmids, at : Int]

GuestResult == [vmid : Vmids, result : {"ok", "failed", "cut"}, at : Nat, snap : Nat]

BackupTask == [of : Vmids \cup {Bulk}, start : Nat, began : Nat, end : Nat,
               done : Seq(GuestResult), log : Seq(LogLine)]

\* Line n of a log is the result of the guest r: the time that follows a
\* success is its own, in the host's zone z.
LineTells(lines, n, r, z) ==
    /\ lines[n].vmid = r.vmid
    /\ lines[n].kind = "finished" <=> r.result = "ok"
    /\ lines[n].kind = "finished" =>
          /\ n < Len(lines)
          /\ lines[n + 1].kind = "at" /\ lines[n + 1].at = r.at + z

\* The second line of a log shows when the first backup began, and its results
\* are those of the guests that are done.
LogTells(t, z) ==
    /\ Len(t.log) = 0 <=> Len(t.done) = 0
    /\ Len(t.log) > 0 => /\ Len(t.log) >= 2
                         /\ t.log[1].kind = "start" /\ t.log[2].kind = "began"
                         /\ t.log[2].at = t.began + z
    /\ \A n \in ResultLines(t.log) : \E k \in 1..Len(t.done) : LineTells(t.log, n, t.done[k], z)
    /\ \A k \in 1..Len(t.done) : t.done[k].result # "cut" =>
          \E n \in ResultLines(t.log) : t.log[n].vmid = t.done[k].vmid

\* The task of a single guest ends with it.
SingleEnds(t) ==
    t.of # Bulk => /\ t.end = 0 => Len(t.done) = 0
                   /\ t.end > 0 => Len(t.done) = 1 /\ t.done[1].at = t.end

\* The first backup began after the task did, and none ended before.
BeganFirst(t) ==
    Len(t.done) > 0 => t.start <= t.began /\ \A k \in 1..Len(t.done) : t.began <= t.done[k].at

TaskHolds(t, z, n) ==
    /\ t \in BackupTask /\ BeganFirst(t)
    /\ 0 < t.start /\ t.start <= n /\ t.end <= n
    /\ \A k \in 1..Len(t.done) : t.done[k].at <= n /\ t.done[k].snap <= n
    /\ LogTells(t, z) /\ SingleEnds(t)

\* A log and what is appended to it.
LEMMA Joined ==
    ASSUME NEW l \in Seq(LogLine), NEW s \in Seq(LogLine)
    PROVE  /\ l \o s \in Seq(LogLine) /\ Len(l \o s) = Len(l) + Len(s)
           /\ \A j \in 1..Len(l) : (l \o s)[j] = l[j]
           /\ \A j \in 1..Len(s) : (l \o s)[Len(l) + j] = s[j]
OBVIOUS

\* What a section holds.
SectionIs(sec, v, b, res, e) ==
    /\ sec \in Seq(LogLine)
    /\ Len(sec) = IF res = "ok" THEN 4 ELSE IF res = "failed" THEN 3 ELSE 2
    /\ sec[1] = Line("start", v, 0) /\ sec[2] = Line("began", v, b + zone)
    /\ res = "ok" => sec[3] = Line("finished", v, 0) /\ sec[4] = Line("at", v, e + zone)
    /\ res = "failed" => sec[3] = Line("failed", v, 0)

\* The lines of a section, one by one.
LEMMA SectionLines ==
    ASSUME zone \in Int, NEW v \in Vmids, NEW b \in Nat, NEW e \in Nat,
           NEW res \in {"ok", "failed", "cut"}
    PROVE  SectionIs(Section(v, b, res, e), v, b, res, e)
<1>. DEFINE l1 == Line("start", v, 0)
            l2 == Line("began", v, b + zone)
            l3 == Line("finished", v, 0)
            l4 == Line("at", v, e + zone)
            l5 == Line("failed", v, 0)
<1>1. /\ l1 \in LogLine /\ l2 \in LogLine /\ l3 \in LogLine /\ l4 \in LogLine /\ l5 \in LogLine
  BY DEF Line, LogLine
<1>2. /\ res = "ok" => Section(v, b, res, e) = <<l1, l2>> \o <<l3, l4>>
      /\ res = "failed" => Section(v, b, res, e) = <<l1, l2>> \o <<l5>>
      /\ res = "cut" => Section(v, b, res, e) = <<l1, l2>> \o <<>>
  BY DEF Section
<1>. HIDE DEF l1, l2, l3, l4, l5
<1>. DEFINE p == <<l1, l2>>
            q == <<l3, l4>>
            f == <<l5>>
            z == <<>>
<1>3. p \in Seq(LogLine) /\ Len(p) = 2 /\ p[1] = l1 /\ p[2] = l2
  BY <1>1
<1>4. q \in Seq(LogLine) /\ Len(q) = 2 /\ q[1] = l3 /\ q[2] = l4
  BY <1>1
<1>5. f \in Seq(LogLine) /\ Len(f) = 1 /\ f[1] = l5
  BY <1>1
<1>6. z \in Seq(LogLine) /\ Len(z) = 0
  OBVIOUS
<1>7. /\ res = "ok" => Section(v, b, res, e) = p \o q
      /\ res = "failed" => Section(v, b, res, e) = p \o f
      /\ res = "cut" => Section(v, b, res, e) = p \o z
  BY <1>2
<1>. HIDE DEF p, q, f, z
<1>8. ASSUME NEW s \in Seq(LogLine)
      PROVE  /\ p \o s \in Seq(LogLine) /\ Len(p \o s) = 2 + Len(s)
             /\ (p \o s)[1] = l1 /\ (p \o s)[2] = l2
             /\ Len(s) >= 1 => (p \o s)[3] = s[1]
             /\ Len(s) >= 2 => (p \o s)[4] = s[2]
  <2>1. /\ p \o s \in Seq(LogLine) /\ Len(p \o s) = Len(p) + Len(s)
        /\ \A j \in 1..Len(p) : (p \o s)[j] = p[j]
        /\ \A j \in 1..Len(s) : (p \o s)[Len(p) + j] = s[j]
    BY <1>3, Joined
  <2>2. (p \o s)[1] = l1 /\ (p \o s)[2] = l2
    <3>1. 1 \in 1..2 /\ 2 \in 1..2
      OBVIOUS
    <3>. QED  BY <2>1, <1>3, <3>1
  <2>3. \A j \in 1..Len(s) : (p \o s)[2 + j] = s[j]
    BY <2>1, <1>3
  <2>4. Len(s) \in Nat
    OBVIOUS
  <2>5. Len(s) >= 1 => (p \o s)[3] = s[1]
    <3>1. Len(s) >= 1 => 1 \in 1..Len(s) /\ 2 + 1 = 3
      BY <2>4
    <3>. QED  BY <2>3, <3>1
  <2>6. Len(s) >= 2 => (p \o s)[4] = s[2]
    <3>1. Len(s) >= 2 => 2 \in 1..Len(s) /\ 2 + 2 = 4
      BY <2>4
    <3>. QED  BY <2>3, <3>1
  <2>. QED  BY <2>1, <2>2, <2>5, <2>6, <1>3
<1>9. CASE res = "ok"
  <2>1. Section(v, b, res, e) = p \o q
    BY <1>7, <1>9
  <2>2. /\ p \o q \in Seq(LogLine) /\ Len(p \o q) = 4
        /\ (p \o q)[1] = l1 /\ (p \o q)[2] = l2
        /\ (p \o q)[3] = l3 /\ (p \o q)[4] = l4
    BY <1>4, <1>8
  <2>. QED  BY <2>1, <2>2, <1>9 DEF SectionIs, l1, l2, l3, l4
<1>10. CASE res = "failed"
  <2>1. Section(v, b, res, e) = p \o f
    BY <1>7, <1>10
  <2>2. /\ p \o f \in Seq(LogLine) /\ Len(p \o f) = 3
        /\ (p \o f)[1] = l1 /\ (p \o f)[2] = l2
        /\ (p \o f)[3] = l5
    BY <1>5, <1>8
  <2>. QED  BY <2>1, <2>2, <1>10 DEF SectionIs, l1, l2, l5
<1>11. CASE res = "cut"
  <2>1. Section(v, b, res, e) = p \o z
    BY <1>7, <1>11
  <2>2. /\ p \o z \in Seq(LogLine) /\ Len(p \o z) = 2 + Len(z)
        /\ (p \o z)[1] = l1 /\ (p \o z)[2] = l2
    BY <1>6, <1>8
  <2>3. Len(p \o z) = 2
    BY <1>6, <2>2
  <2>. QED  BY <2>1, <2>2, <2>3, <1>11 DEF SectionIs, l1, l2
<1>. QED  BY <1>9, <1>10, <1>11

\* What is appended to a log does not change the results before it.
LEMMA ResultsStay ==
    ASSUME NEW l \in Seq(LogLine), NEW s \in Seq(LogLine), NEW n \in 1..Len(l)
    PROVE  n \in ResultLines(l \o s) <=> n \in ResultLines(l)
<1>. DEFINE m == l \o s
<1>1. m \in Seq(LogLine) /\ Len(m) >= Len(l) /\ \A j \in 1..Len(l) : m[j] = l[j]
  BY Joined
<1>2. Len(l) \in Nat /\ Len(m) \in Nat /\ DOMAIN l = 1..Len(l) /\ DOMAIN m = 1..Len(m)
  BY <1>1
<1>. HIDE DEF m
<1>3. m[n] = l[n] /\ n \in DOMAIN m /\ n \in DOMAIN l
  BY <1>1, <1>2
<1>4. ASSUME NEW j \in 1..(n - 1) PROVE m[j] = l[j] /\ (OpenAt(m, j, n) <=> OpenAt(l, j, n))
  <2>1. j \in 1..Len(l) /\ \A k \in (j + 1)..(n - 1) : k \in 1..Len(l)
    BY <1>2
  <2>2. m[j] = l[j] /\ \A k \in (j + 1)..(n - 1) : m[k] = l[k]
    BY <1>1, <2>1
  <2>. QED  BY <2>2 DEF OpenAt
<1>5. n \in ResultLines(m) <=> n \in ResultLines(l)
  BY <1>3, <1>4 DEF ResultLines
<1>. QED  BY <1>5 DEF m

\* A section adds the result of its guest, unless it was cut.
AddsResult(l, sec, res) ==
    \A n \in (Len(l) + 1)..Len(l \o sec) :
       n \in ResultLines(l \o sec) <=> n = Len(l) + 3 /\ res # "cut"

\* Only its third line can be a result.
LEMMA SectionResult ==
    ASSUME zone \in Int, NEW l \in Seq(LogLine), NEW v \in Vmids, NEW b \in Nat, NEW e \in Nat,
           NEW res \in {"ok", "failed", "cut"}
    PROVE  AddsResult(l, Section(v, b, res, e), res)
<1>. DEFINE sec == Section(v, b, res, e)
            m == l \o sec
            c == Len(l)
<1>1. /\ sec \in Seq(LogLine)
      /\ Len(sec) = IF res = "ok" THEN 4 ELSE IF res = "failed" THEN 3 ELSE 2
      /\ sec[1] = Line("start", v, 0) /\ sec[2] = Line("began", v, b + zone)
      /\ res = "ok" => sec[3] = Line("finished", v, 0) /\ sec[4] = Line("at", v, e + zone)
      /\ res = "failed" => sec[3] = Line("failed", v, 0)
  BY SectionLines DEF SectionIs
<1>. HIDE DEF sec
<1>2. m \in Seq(LogLine) /\ Len(m) = c + Len(sec) /\ \A j \in 1..Len(sec) : m[c + j] = sec[j]
  BY <1>1, Joined
<1>3. c \in Nat /\ DOMAIN m = 1..Len(m)
  BY <1>2
<1>. HIDE DEF m, c
<1>4. m[c + 1] = Line("start", v, 0) /\ m[c + 2] = Line("began", v, b + zone)
  BY <1>1, <1>2
<1>5. /\ res = "ok" => m[c + 3] = Line("finished", v, 0) /\ m[c + 4] = Line("at", v, e + zone)
      /\ res = "failed" => m[c + 3] = Line("failed", v, 0)
  BY <1>1, <1>2
<1>6. /\ ~Closes(m[c + 1]) /\ ~Closes(m[c + 2]) /\ (res = "ok" => ~Closes(m[c + 4]))
      /\ m[c + 1].kind = "start" /\ m[c + 1].vmid = v /\ m[c + 2].kind = "began"
      /\ res # "cut" => Closes(m[c + 3]) /\ m[c + 3].vmid = v
  BY <1>4, <1>5 DEF Closes, Line
<1>9. /\ res = "ok" => Len(m) = c + 4
      /\ res = "failed" => Len(m) = c + 3
      /\ res = "cut" => Len(m) = c + 2
  BY <1>1, <1>2
<1>7. res # "cut" => c + 3 \in ResultLines(m)
  <2>1. (c + 1) + 1 = c + 2 /\ (c + 3) - 1 = c + 2 /\ c + 1 \in 1..((c + 3) - 1)
    BY <1>3
  <2>2. \A k \in ((c + 1) + 1)..((c + 3) - 1) : k = c + 2
    BY <1>3
  <2>3. OpenAt(m, c + 1, c + 3)
    BY <1>6, <2>2 DEF OpenAt
  <2>4. res # "cut" => c + 3 \in DOMAIN m
    <3>1. c + 3 \in 1..(c + 3) /\ c + 3 \in 1..(c + 4)
      BY <1>3
    <3>. QED  BY <1>3, <1>9, <3>1
  <2>. QED  BY <1>6, <2>1, <2>3, <2>4 DEF ResultLines
<1>8. ASSUME NEW n \in (c + 1)..Len(m) PROVE n \in ResultLines(m) <=> n = c + 3 /\ res # "cut"
  <2>1. n \in {c + 1, c + 2} \/ (n = c + 3 /\ res # "cut") \/ (n = c + 4 /\ res = "ok")
    <3>1. n \in (c + 1)..(c + 2) => n \in {c + 1, c + 2}
      BY <1>3
    <3>2. n \in (c + 1)..(c + 3) => n \in {c + 1, c + 2, c + 3}
      BY <1>3
    <3>3. n \in (c + 1)..(c + 4) => n \in {c + 1, c + 2, c + 3, c + 4}
      BY <1>3
    <3>. QED  BY <1>9, <3>1, <3>2, <3>3
  <2>2. c + 1 # c + 3 /\ c + 2 # c + 3 /\ c + 4 # c + 3
    BY <1>3
  <2>3. n \in ResultLines(m) => Closes(m[n])
    BY DEF ResultLines
  <2>. QED  BY <1>6, <1>7, <2>1, <2>2, <2>3
<1>. QED  BY <1>8 DEF m, c, sec, AddsResult

\* What holds of a task holds as time goes on.
LEMMA HoldsLonger ==
    ASSUME NEW t, NEW z, NEW n \in Nat, NEW m \in Nat, n <= m, TaskHolds(t, z, n)
    PROVE  TaskHolds(t, z, m)
<1>1. t \in BackupTask /\ BeganFirst(t) /\ t.start \in Nat /\ t.end \in Nat /\ t.done \in Seq(GuestResult)
  BY DEF TaskHolds, BackupTask
<1>2. ASSUME NEW k \in 1..Len(t.done) PROVE t.done[k].at <= m /\ t.done[k].snap <= m
  <2>1. t.done[k] \in GuestResult
    BY <1>1
  <2>2. t.done[k].at \in Nat /\ t.done[k].snap \in Nat
    BY <2>1 DEF GuestResult
  <2>3. t.done[k].at <= n /\ t.done[k].snap <= n
    BY DEF TaskHolds
  <2>. QED  BY <2>2, <2>3
<1>3. 0 < t.start /\ t.start <= m /\ t.end <= m
  BY <1>1 DEF TaskHolds
<1>. QED  BY <1>1, <1>2, <1>3 DEF TaskHolds

\* The offset the parser detects is the host's zone, and what the job waited.
LEMMA OffsetHasZone ==
    ASSUME NEW t, NEW z \in Int, NEW n \in Nat, TaskHolds(t, z, n), Len(t.log) > 0
    PROVE  LogTimezoneOffset(t.log, t) = z + (t.began - t.start)
<1>1. t.start \in Nat /\ t.began \in Nat /\ t.log \in Seq(LogLine) /\ Len(t.log) \in Nat /\ DOMAIN t.log = 1..Len(t.log)
  BY DEF TaskHolds, BackupTask
<1>2. Len(t.log) >= 2 /\ t.log[1].kind = "start" /\ t.log[2].kind = "began" /\ t.log[2].at = t.began + z
  BY DEF TaskHolds, LogTells
<1>. DEFINE begun == {j \in DOMAIN t.log : t.log[j].kind = "began"}
<1>3. 2 \in begun
  BY <1>1, <1>2
<1>4. \A j \in begun : j \in Nat /\ 2 <= j
  <2>1. 1 \notin begun
    BY <1>2
  <2>. QED  BY <1>1, <2>1
<1>. HIDE DEF begun
<1>5. Min(begun) = 2
  <2>1. \A j \in begun : (\A y \in begun : j <= y) => j = 2
    BY <1>3, <1>4
  <2>. QED  BY <1>3, <1>4, <2>1 DEF Min
<1>6. LogTimezoneOffset(t.log, t) = t.log[2].at - t.start
  <2>1. begun # {}
    BY <1>3
  <2>. QED  BY <1>5, <2>1 DEF LogTimezoneOffset, begun
<1>. QED  BY <1>1, <1>2, <1>6

\* What the parser returns is what became of the guests.
LEMMA ResultTells ==
    ASSUME NEW t, NEW z \in Int, NEW n \in Nat, TaskHolds(t, z, n), NEW e \in Results(t)
    PROVE  /\ e.vmid \in Vmids /\ e.ok \in BOOLEAN /\ e.at \in 0..n
           /\ \E k \in 1..Len(t.done) :
                 /\ t.done[k].vmid = e.vmid
                 /\ e.ok <=> t.done[k].result = "ok"
                 /\ e.ok => e.at = t.done[k].at - (t.began - t.start)
<1>1. /\ t.start \in Nat /\ t.began \in Nat /\ t.end \in Nat /\ t.end <= n
      /\ t.log \in Seq(LogLine) /\ Len(t.log) \in Nat /\ DOMAIN t.log = 1..Len(t.log)
      /\ t.done \in Seq(GuestResult)
  BY DEF TaskHolds, BackupTask
<1>. DEFINE lines == t.log
            offset == LogTimezoneOffset(t.log, t)
<1>2. PICK j \in ResultLines(lines) :
        e = [vmid |-> lines[j].vmid, ok |-> lines[j].kind = "finished",
             at |-> IF lines[j].kind = "finished" THEN FinishedAt(lines, j, t.end, offset) ELSE t.end]
  BY DEF Results, ParseBulkBackupLog
<1>3. j \in 1..Len(lines) /\ Len(lines) > 0
  BY <1>1 DEF ResultLines
<1>4. offset = z + (t.began - t.start)
  BY <1>3, OffsetHasZone
<1>5. PICK k \in 1..Len(t.done) : LineTells(lines, j, t.done[k], z)
  BY <1>2 DEF TaskHolds, LogTells
<1>6. t.done[k] \in GuestResult /\ t.done[k].at <= n
  BY <1>1, <1>5 DEF TaskHolds
<1>7. t.done[k].vmid \in Vmids /\ t.done[k].at \in Nat
  BY <1>6 DEF GuestResult
<1>8. e.vmid = lines[j].vmid
  BY <1>2
<1>9. /\ e.ok \in BOOLEAN
      /\ e.ok <=> lines[j].kind = "finished"
  BY <1>2, Zenon
<1>10. e.at = IF lines[j].kind = "finished" THEN FinishedAt(lines, j, t.end, offset) ELSE t.end
  BY <1>2
<1>. HIDE DEF lines, offset
<1>11. CASE lines[j].kind = "finished"
  <2>1. e.at = (t.done[k].at + z) - (z + (t.began - t.start))
    BY <1>4, <1>5, <1>10, <1>11 DEF LineTells, FinishedAt
  <2>2. e.at = t.done[k].at - (t.began - t.start)
    BY <1>1, <1>7, <2>1
  <2>4. t.start <= t.began /\ t.began <= t.done[k].at
    BY <1>1, <1>5 DEF TaskHolds, BeganFirst
  <2>3. e.at \in 0..n
    BY <1>1, <1>6, <1>7, <2>2, <2>4
  <2>. QED  BY <1>5, <1>7, <1>8, <1>9, <1>11, <2>2, <2>3 DEF LineTells
<1>12. CASE lines[j].kind # "finished"
  <2>1. e.at \in 0..n
    BY <1>1, <1>10, <1>12
  <2>. QED  BY <1>5, <1>7, <1>8, <1>9, <1>12, <2>1 DEF LineTells
<1>. QED  BY <1>11, <1>12

\* ... and it misses none whose backup came to an end.
LEMMA ResultsComplete ==
    ASSUME NEW t, NEW z, NEW n, TaskHolds(t, z, n),
           NEW k \in 1..Len(t.done), t.done[k].result # "cut"
    PROVE  \E e \in Results(t) : e.vmid = t.done[k].vmid
<1>1. PICK j \in ResultLines(t.log) : t.log[j].vmid = t.done[k].vmid
  BY DEF TaskHolds, LogTells
<1>. DEFINE Entry(m) == [vmid |-> t.log[m].vmid, ok |-> t.log[m].kind = "finished",
              at |-> IF t.log[m].kind = "finished"
                     THEN FinishedAt(t.log, m, t.end, LogTimezoneOffset(t.log, t)) ELSE t.end]
<1>2. Results(t) = {Entry(m) : m \in ResultLines(t.log)}
  BY DEF Results, ParseBulkBackupLog
<1>3. Entry(j).vmid = t.log[j].vmid
  OBVIOUS
<1>. HIDE DEF Entry
<1>. QED  BY <1>1, <1>2, <1>3

\* A backup begins some time after its task.
LEMMA BeganIsNat ==
    ASSUME now \in Nat, NEW t, t.start \in Nat, t.done \in Seq(GuestResult), NEW b \in BeganAt(t)
    PROVE  b \in Nat /\ (t.done = <<>> => t.start <= b /\ b <= now)
<1>1. CASE t.done = <<>>
  BY <1>1 DEF BeganAt
<1>2. CASE t.done # <<>>
  <2>1. Len(t.done) \in 1..Len(t.done)
    BY <1>2
  <2>2. t.done[Len(t.done)] \in GuestResult
    BY <2>1
  <2>. QED  BY <1>2, <2>2 DEF BeganAt, GuestResult
<1>. QED  BY <1>1, <1>2

\* The task t becomes u when the backup of v comes to an end.
BackedUp(t, u, v, b, res, snap) ==
    /\ u \in BackupTask /\ u.of = t.of /\ u.start = t.start
    /\ u.began = IF t.done = <<>> THEN b ELSE t.began
    /\ u.log = t.log \o Section(v, b, res, now + 1)
    /\ u.done = Append(t.done, [vmid |-> v, result |-> res, at |-> now + 1, snap |-> snap])
    /\ u.end = IF t.of = v \/ res = "cut" THEN now + 1 ELSE 0

\* The log of the task keeps telling what became of its guests.
LEMMA GuestDoneHolds ==
    ASSUME zone \in Int, now \in Nat,
           NEW t, TaskHolds(t, zone, now), t.end = 0,
           NEW v \in Vmids, t.of \in {Bulk, v}, v # Bulk,
           NEW res \in {"ok", "failed", "cut"}, NEW snap \in 0..(now + 1),
           NEW b \in BeganAt(t), NEW u, BackedUp(t, u, v, b, res, snap)
    PROVE  TaskHolds(u, zone, now + 1)
<1>. DEFINE sec == Section(v, b, res, now + 1)
            g == [vmid |-> v, result |-> res, at |-> now + 1, snap |-> snap]
            c == Len(t.log)
            d == Len(t.done)
<1>1. /\ t \in BackupTask /\ t.start \in Nat /\ 0 < t.start /\ t.start <= now
      /\ t.log \in Seq(LogLine) /\ t.done \in Seq(GuestResult)
      /\ c \in Nat /\ d \in Nat
  BY DEF TaskHolds, BackupTask
<1>0. u \in BackupTask /\ u.log \in Seq(LogLine) /\ u.done \in Seq(GuestResult) /\ u.of = t.of /\ u.start = t.start
  BY DEF BackedUp, BackupTask
<1>2. b \in Nat /\ (t.done = <<>> => t.start <= b /\ b <= now)
  BY <1>1, BeganIsNat
<1>3. /\ sec \in Seq(LogLine)
      /\ Len(sec) = IF res = "ok" THEN 4 ELSE IF res = "failed" THEN 3 ELSE 2
      /\ sec[1] = Line("start", v, 0) /\ sec[2] = Line("began", v, b + zone)
      /\ res = "ok" => sec[3] = Line("finished", v, 0) /\ sec[4] = Line("at", v, (now + 1) + zone)
      /\ res = "failed" => sec[3] = Line("failed", v, 0)
  <2>1. now + 1 \in Nat
    OBVIOUS
  <2>2. SectionIs(sec, v, b, res, now + 1)
    BY <1>2, <2>1, SectionLines
  <2>. HIDE DEF sec
  <2>. QED  BY <2>2 DEF SectionIs
<1>4. \A n \in (c + 1)..Len(u.log) : n \in ResultLines(u.log) <=> n = c + 3 /\ res # "cut"
  <2>1. now + 1 \in Nat
    OBVIOUS
  <2>2. u.log = t.log \o sec
    BY DEF BackedUp
  <2>3. \A n \in (c + 1)..Len(t.log \o sec) :
           n \in ResultLines(t.log \o sec) <=> n = c + 3 /\ res # "cut"
    <3>1. AddsResult(t.log, sec, res)
      BY <1>1, <1>2, <2>1, SectionResult
    <3>. QED  BY <3>1 DEF AddsResult
  <2>. HIDE DEF sec, c
  <2>. QED  BY <2>2, <2>3
<1>5. u.log = t.log \o sec
  BY DEF BackedUp
<1>. HIDE DEF sec
<1>6. \A n \in 1..c : n \in ResultLines(u.log) <=> n \in ResultLines(t.log)
  BY <1>1, <1>3, <1>5, ResultsStay
<1>7. /\ Len(u.log) = c + Len(sec) /\ \A n \in 1..c : u.log[n] = t.log[n]
      /\ \A j \in 1..Len(sec) : u.log[c + j] = sec[j]
  <2>1. sec \in Seq(LogLine)
    BY <1>3
  <2>. QED  BY <1>1, <2>1, <1>5, Joined
<1>8. /\ g \in GuestResult /\ g.vmid = v /\ g.result = res /\ g.at = now + 1 /\ g.snap <= now + 1
  BY DEF GuestResult
<1>9. /\ Len(u.done) = d + 1 /\ u.done[d + 1] = g
      /\ \A k \in 1..d : u.done[k] = t.done[k]
  <2>1. u.done = Append(t.done, g)
    BY DEF BackedUp
  <2>. HIDE DEF g
  <2>. QED  BY <1>1, <1>8, <2>1
<1>. HIDE DEF g, c, d
<1>10. \A k \in 1..d : t.done[k].at <= now + 1 /\ t.done[k].snap <= now + 1
  <2>1. TaskHolds(t, zone, now + 1)
    <3>1. now + 1 \in Nat /\ now <= now + 1
      OBVIOUS
    <3>. QED  BY <3>1, HoldsLonger
  <2>. QED  BY <2>1 DEF TaskHolds, d
<1>11. \A k \in 1..(d + 1) : k \in 1..d \/ k = d + 1
  BY <1>1
<1>12. \A k \in 1..Len(u.done) : u.done[k].at <= now + 1 /\ u.done[k].snap <= now + 1
  <2>1. now + 1 <= now + 1
    OBVIOUS
  <2>. QED  BY <1>8, <1>9, <1>10, <1>11, <2>1
<1>13. u.end <= now + 1 /\ u.start <= now + 1 /\ 0 < u.start
  BY <1>1, <1>0 DEF BackedUp
<1>14. SingleEnds(u)
  <2>1. t.of # Bulk => t.of = v /\ d = 0
    BY DEF TaskHolds, SingleEnds, d
  <2>2. u.of # Bulk => u.end = now + 1 /\ Len(u.done) = 1 /\ u.done[1].at = now + 1
    <3>1. u.of # Bulk => u.end = now + 1
      BY <2>1 DEF BackedUp
    <3>2. d = 0 => d + 1 = 1
      OBVIOUS
    <3>. QED  BY <1>0, <1>8, <1>9, <2>1, <3>1, <3>2
  <2>3. now + 1 > 0
    OBVIOUS
  <2>. QED  BY <2>2, <2>3 DEF SingleEnds
<1>15. Len(sec) \in Nat /\ Len(sec) >= 2 /\ Len(u.log) \in Nat /\ Len(u.log) >= 2 /\ Len(u.log) >= c
  BY <1>1, <1>3, <1>7
<1>16. u.log[1].kind = "start" /\ u.log[2].kind = "began" /\ u.log[2].at = u.began + zone
  <2>1. CASE c = 0
    <3>1. u.log[1] = sec[1] /\ u.log[2] = sec[2]
      <4>1. 1 \in 1..Len(sec) /\ 2 \in 1..Len(sec) /\ c + 1 = 1 /\ c + 2 = 2
        BY <1>15, <2>1
      <4>. QED  BY <1>7, <4>1
    <3>2. d = 0
      BY <2>1 DEF TaskHolds, LogTells, c, d
    <3>3. u.began = b
      <4>1. t.done = <<>>
        BY <1>1, <3>2 DEF d
      <4>. QED  BY <4>1 DEF BackedUp
    <3>. QED  BY <1>0, <1>3, <3>1, <3>3 DEF Line
  <2>2. CASE c > 0
    <3>1. c >= 2 /\ t.log[1].kind = "start" /\ t.log[2].kind = "began" /\ t.log[2].at = t.began + zone
      BY <2>2 DEF TaskHolds, LogTells, c
    <3>2. 1 \in 1..c /\ 2 \in 1..c
      BY <1>1, <3>1
    <3>3. u.began = t.began
      <4>1. Len(t.done) # 0
        BY <1>1, <2>2 DEF TaskHolds, LogTells, c
      <4>2. t.done # <<>>
        BY <4>1
      <4>. QED  BY <4>2 DEF BackedUp
    <3>. QED  BY <1>0, <1>7, <3>1, <3>2, <3>3
  <2>. QED  BY <1>1, <2>1, <2>2
<1>17. ASSUME NEW n \in ResultLines(u.log)
       PROVE  \E k \in 1..Len(u.done) : LineTells(u.log, n, u.done[k], zone)
  <2>1. n \in 1..Len(u.log)
    BY <1>0 DEF ResultLines
  <2>2. CASE n \in 1..c
    <3>1. n \in ResultLines(t.log)
      BY <1>6, <2>2
    <3>2. PICK k \in 1..d : LineTells(t.log, n, t.done[k], zone)
      BY <3>1 DEF TaskHolds, LogTells, d
    <3>3. k \in 1..Len(u.done) /\ u.done[k] = t.done[k]
      BY <1>1, <1>9
    <3>4. u.log[n] = t.log[n]
      BY <1>7, <2>2
    <3>5. n < c => n < Len(u.log) /\ u.log[n + 1] = t.log[n + 1]
      <4>1. c \in Nat /\ Len(u.log) \in Nat /\ Len(u.log) >= c
        BY <1>1, <1>15
      <4>2. n < c => n < Len(u.log) /\ n + 1 \in 1..c
        BY <2>2, <4>1
      <4>. QED  BY <1>7, <4>2
    <3>6. LineTells(u.log, n, u.done[k], zone)
      BY <3>2, <3>3, <3>4, <3>5 DEF LineTells, c
    <3>. QED  BY <3>3, <3>6
  <2>3. CASE n \notin 1..c
    <3>1. n \in (c + 1)..Len(u.log)
      BY <1>1, <1>15, <2>1, <2>3
    <3>2. n = c + 3 /\ res # "cut"
      BY <1>4, <3>1
    <3>3. d + 1 \in 1..Len(u.done)
      BY <1>1, <1>9
    <3>4. CASE res = "ok"
      <4>1. 3 \in 1..Len(sec) /\ 4 \in 1..Len(sec) /\ (c + 3) + 1 = c + 4 /\ c + 3 < Len(u.log)
        BY <1>1, <1>3, <1>7, <3>4
      <4>2. u.log[n] = Line("finished", v, 0) /\ u.log[n + 1] = Line("at", v, (now + 1) + zone) /\ n < Len(u.log)
        BY <1>3, <1>7, <3>2, <3>4, <4>1
      <4>3. LineTells(u.log, n, g, zone)
        BY <1>8, <4>2, <3>4 DEF LineTells, Line
      <4>. QED  BY <1>9, <3>3, <4>3
    <3>5. CASE res = "failed"
      <4>1. 3 \in 1..Len(sec)
        BY <1>1, <1>3, <1>7, <3>5
      <4>2. u.log[n] = Line("failed", v, 0)
        BY <1>3, <1>7, <3>2, <3>5, <4>1
      <4>3. LineTells(u.log, n, g, zone)
        BY <1>8, <4>2, <3>5 DEF LineTells, Line
      <4>. QED  BY <1>9, <3>3, <4>3
    <3>. QED  BY <3>2, <3>4, <3>5
  <2>. QED  BY <2>2, <2>3
<1>18. ASSUME NEW k \in 1..Len(u.done), u.done[k].result # "cut"
       PROVE  \E n \in ResultLines(u.log) : u.log[n].vmid = u.done[k].vmid
  <2>1. CASE k \in 1..d
    <3>1. PICK n \in ResultLines(t.log) : t.log[n].vmid = t.done[k].vmid
      BY <1>9, <1>18, <2>1 DEF TaskHolds, LogTells, d
    <3>2. n \in 1..c
      BY <1>1 DEF ResultLines, c
    <3>. QED  BY <1>6, <1>7, <1>9, <2>1, <3>1, <3>2
  <2>2. CASE k = d + 1
    <3>1. res # "cut"
      BY <1>8, <1>9, <1>18, <2>2
    <3>2. 3 \in 1..Len(sec) /\ c + 3 \in (c + 1)..Len(u.log) /\ sec[3].vmid = v
      BY <1>1, <1>3, <1>7, <3>1 DEF Line
    <3>3. c + 3 \in ResultLines(u.log) /\ u.log[c + 3].vmid = v
      BY <1>4, <1>7, <3>1, <3>2
    <3>. QED  BY <1>8, <1>9, <2>2, <3>3
  <2>. QED  BY <1>9, <1>11, <2>1, <2>2
<1>19. LogTells(u, zone)
  <2>1. Len(u.done) # 0 /\ Len(u.log) # 0
    BY <1>1, <1>9, <1>15
  <2>. QED  BY <1>15, <1>16, <1>17, <1>18, <2>1 DEF LogTells
<1>20. BeganFirst(u)
  <2>1. now + 1 \in Nat /\ u.done[d + 1].at = now + 1
    BY <1>8, <1>9
  <2>2. CASE d = 0
    <3>1. t.done = <<>>
      BY <1>1, <2>2 DEF d
    <3>2. u.began = b /\ u.start <= b /\ b <= now
      BY <1>0, <1>2, <3>1 DEF BackedUp
    <3>3. \A k \in 1..(d + 1) : k = d + 1
      BY <2>2
    <3>. QED  BY <1>2, <1>9, <2>1, <3>2, <3>3 DEF BeganFirst
  <2>3. CASE d # 0
    <3>1. t.done # <<>> /\ Len(t.done) > 0 /\ 1 \in 1..d
      BY <1>1, <2>3 DEF d
    <3>2. u.began = t.began /\ t.began \in Nat
      BY <1>1, <3>1 DEF BackedUp, BackupTask
    <3>3. t.start <= t.began /\ \A k \in 1..d : t.began <= t.done[k].at
      BY <3>1 DEF TaskHolds, BeganFirst, d
    <3>4. t.began <= now + 1
      <4>1. t.done[1].at \in Nat
        <5>1. t.done[1] \in GuestResult
          BY <1>1, <3>1 DEF d
        <5>. QED  BY <5>1 DEF GuestResult
      <4>2. t.done[1].at <= now + 1
        BY <1>10, <3>1
      <4>. QED  BY <3>1, <3>2, <3>3, <4>1, <4>2
    <3>. QED  BY <1>0, <1>9, <1>11, <2>1, <3>2, <3>3, <3>4 DEF BeganFirst
  <2>. QED  BY <2>2, <2>3
<1>. QED  BY <1>0, <1>12, <1>13, <1>14, <1>19, <1>20 DEF TaskHolds

Upids == {<<"task", i>> : i \in Nat} \cup {<<"task", i, v>> : i \in Nat, v \in Vmids}
         \cup {<<"pbs", v, n>> : v \in Vmids, n \in Nat}

BackupRows == [upid : Upids, nth : {1}, vmid : Vmids, guest : {"here", "there", "none", "gone"},
               ok : BOOLEAN, at : Nat]

\* The row of an ended task says what became of one of its guests.
RowTells(x, ts) ==
    x.upid[1] = "task" =>
       /\ x.upid[2] \in 1..Len(ts) /\ ts[x.upid[2]].end > 0
       /\ \E k \in 1..Len(ts[x.upid[2]].done) :
             /\ ts[x.upid[2]].done[k].vmid = x.vmid
             /\ x.ok <=> ts[x.upid[2]].done[k].result = "ok"
             /\ x.ok => x.at = ts[x.upid[2]].done[k].at - Waited(ts[x.upid[2]])

RowHolds(x, ts, guests, n) ==
    /\ x \in BackupRows /\ x.at <= n
    /\ x.guest = "here" => x.vmid \in guests
    /\ RowTells(x, ts)

\* Every guest of the bulk job i whose backup came to an end has its row.
Recorded(i, ts, recs) ==
    \A k \in 1..Len(ts[i].done) : ts[i].done[k].result # "cut" =>
       \E x \in recs : x.upid = <<"task", i, ts[i].done[k].vmid>>

\* Why any row of a job is proof that all of it was recorded.
JobsAreWhole(recs, ts) ==
    \A x \in recs : x.upid[1] = "task" /\ ts[x.upid[2]].of = Bulk => Recorded(x.upid[2], ts, recs)

ReadHolds(i, ts, recs) ==
    /\ i \in 1..Len(ts) /\ ts[i].end > 0
    /\ ts[i].of = Bulk => Recorded(i, ts, recs)
    /\ ts[i].of # Bulk => \E x \in recs : x.upid = <<"task", i>>

Success(x, v) == x.ok /\ x.vmid = v /\ x.guest = "here"

\* l is the time of the newest success of v.
LastHolds(v, l, recs) ==
    /\ \A x \in recs : Success(x, v) => x.at <= l
    /\ l = 0 \/ \E x \in recs : Success(x, v) /\ x.at = l

BackupTypes ==
    /\ zone \in Int /\ now \in Nat /\ tasks \in Seq(BackupTask) /\ known \in SUBSET Vmids
    /\ last \in [Vmids -> Nat] /\ \A v \in Vmids : last[v] <= now

BackupInv ==
    /\ BackupTypes
    /\ \A i \in 1..Len(tasks) : TaskHolds(tasks[i], zone, now)
    /\ \A x \in history : RowHolds(x, tasks, known, now)
    /\ JobsAreWhole(history, tasks)
    /\ \A i \in read : ReadHolds(i, tasks, history)
    /\ \A v \in known : LastHolds(v, last[v], history)

\* Max of a non-empty set of bounded naturals is its greatest member.
LEMMA MaxHolds ==
    ASSUME NEW n \in Nat, NEW S \in SUBSET (0..n), S # {}
    PROVE  Max(S) \in S /\ \A y \in S : y <= Max(S)
<1>1. PICK x \in S : \A y \in S : y <= x
  BY GreatestNatural
<1>2. \A y \in S : y \in Nat
  OBVIOUS
<1>3. \A y \in S : x >= y
  BY <1>1, <1>2
<1>4. Max(S) \in S /\ \A y \in S : Max(S) >= y
  BY <1>3 DEF Max
<1>. QED  BY <1>2, <1>4

\* _create_backup_log and _bump_last_successful_backup keep rows and times true.
LEMMA Inserted ==
    ASSUME BackupInv, NEW recs, \A x \in recs : RowHolds(x, tasks, known, now),
           InsertRows(recs), tasks' = tasks, known' = known, now' = now
    PROVE  /\ history' = history \cup recs
           /\ last' \in [Vmids -> Nat] /\ \A v \in Vmids : last'[v] <= now'
           /\ \A x \in history' : RowHolds(x, tasks', known', now')
           /\ \A v \in known' : LastHolds(v, last'[v], history')
<1>. DEFINE Newer(v) == {e.at : e \in {x \in recs : x.ok /\ x.vmid = v /\ x.guest = "here"}}
            Candidates(v) == {last[v]} \cup Newer(v)
<1>1. history' = history \cup recs /\ last' = [v \in Vmids |-> Max(Candidates(v))]
  BY DEF InsertRows
<1>2. /\ now \in Nat /\ known \in SUBSET Vmids /\ last \in [Vmids -> Nat]
      /\ \A v \in Vmids : last[v] <= now
  BY DEF BackupInv, BackupTypes
<1>3. \A x \in recs : x.at \in Nat /\ x.at <= now
  BY DEF RowHolds, BackupRows
<1>4. ASSUME NEW v \in Vmids
      PROVE  /\ Max(Candidates(v)) \in Candidates(v) /\ Candidates(v) \in SUBSET (0..now)
             /\ \A y \in Candidates(v) : y <= Max(Candidates(v))
  <2>1. Newer(v) \in SUBSET (0..now)
    BY <1>2, <1>3
  <2>2. last[v] \in 0..now
    BY <1>2
  <2>. HIDE DEF Newer
  <2>3. Candidates(v) \in SUBSET (0..now) /\ Candidates(v) # {}
    BY <2>1, <2>2
  <2>. HIDE DEF Candidates
  <2>. QED  BY <1>2, <2>3, MaxHolds
<1>5. \A v \in Vmids : \A x \in recs : Success(x, v) => x.at \in Candidates(v)
  BY DEF Success
<1>6. \A v \in Vmids : \A y \in Candidates(v) :
         y = last[v] \/ \E x \in recs : Success(x, v) /\ x.at = y
  BY DEF Success
<1>7. \A v \in Vmids : last[v] \in Candidates(v)
  OBVIOUS
<1>. HIDE DEF Candidates
<1>8. \A v \in Vmids : last'[v] = Max(Candidates(v))
  BY <1>1
<1>9. ASSUME NEW v \in Vmids
      PROVE  last'[v] \in Nat /\ last'[v] <= now
  <2>1. last'[v] \in 0..now
    BY <1>4, <1>8
  <2>. QED  BY <1>2, <2>1
<1>10. last' \in [Vmids -> Nat]
  BY <1>1, <1>8, <1>9
<1>11. \A x \in history' : RowHolds(x, tasks', known', now')
  BY <1>1 DEF BackupInv
<1>12. ASSUME NEW v \in known PROVE LastHolds(v, last'[v], history')
  <2>1. v \in Vmids
    BY <1>2
  <2>2. LastHolds(v, last[v], history)
    BY DEF BackupInv
  <2>3. last[v] <= last'[v] /\ last[v] \in Nat /\ last'[v] \in Nat
    BY <1>2, <1>4, <1>7, <1>8, <1>9, <2>1
  <2>4. ASSUME NEW x \in history, Success(x, v) PROVE x.at <= last'[v]
    <3>1. x.at <= last[v]
      BY <2>2, <2>4 DEF LastHolds
    <3>2. x.at \in Nat
      BY DEF BackupInv, RowHolds, BackupRows
    <3>. QED  BY <2>3, <3>1, <3>2
  <2>5. ASSUME NEW x \in recs, Success(x, v) PROVE x.at <= last'[v]
    BY <1>4, <1>5, <1>8, <2>1, <2>5
  <2>6. CASE last'[v] = last[v]
    BY <1>1, <2>2, <2>4, <2>5, <2>6 DEF LastHolds
  <2>7. CASE last'[v] # last[v]
    <3>1. last'[v] \in Candidates(v)
      BY <1>4, <1>8, <2>1
    <3>2. \E x \in recs : Success(x, v) /\ x.at = last'[v]
      BY <1>6, <2>1, <2>7, <3>1
    <3>. QED  BY <1>1, <2>4, <2>5, <3>2 DEF LastHolds
  <2>. QED  BY <2>6, <2>7
<1>. QED  BY <1>1, <1>9, <1>10, <1>11, <1>12

\* A row whose upid is new is the first of its name.
LEMMA FirstOfName ==
    ASSUME NEW u, ~Exists(u), NEW e, NEW g
    PROVE  /\ BackupRow(u, e, g).nth = 1 /\ BackupRow(u, e, g).upid = u
           /\ BackupRow(u, e, g).vmid = e.vmid /\ BackupRow(u, e, g).guest = g
           /\ BackupRow(u, e, g).at = e.at
           /\ BackupRow(u, e, g).ok = e.ok
           /\ DOMAIN BackupRow(u, e, g) = {"upid", "nth", "vmid", "guest", "ok", "at"}
           /\ BackupRow(u, e, g) = [upid |-> u, nth |-> 1, vmid |-> e.vmid, guest |-> g, ok |-> e.ok, at |-> e.at]
<1>1. {x \in history : x.upid = u} = {}
  BY DEF Exists
<1>2. Cardinality({x \in history : x.upid = u}) = 0
  BY <1>1, FS_EmptySet
<1>3. 1 + Cardinality({x \in history : x.upid = u}) = 1
  BY <1>2
<1>4. BackupRow(u, e, g) = [upid |-> u, nth |-> 1, vmid |-> e.vmid, guest |-> g, ok |-> e.ok, at |-> e.at]
  BY <1>3 DEF BackupRow
<1>. QED  BY <1>4

\* A new row of an ended task that says what became of one of its guests.
LEMMA TaskRow ==
    ASSUME BackupInv, NEW i \in 1..Len(tasks), tasks[i].end > 0,
           NEW u \in Upids, u[1] = "task", u[2] = i, ~Exists(u),
           NEW e, e.vmid \in Vmids, e.ok \in BOOLEAN, e.at \in 0..now,
           \E k \in 1..Len(tasks[i].done) :
              /\ tasks[i].done[k].vmid = e.vmid
              /\ e.ok <=> tasks[i].done[k].result = "ok"
              /\ e.ok => e.at = tasks[i].done[k].at - Waited(tasks[i])
    PROVE  RowHolds(BackupRow(u, e, MatchGuest(e.vmid)), tasks, known, now)
<1>. DEFINE g == MatchGuest(e.vmid)
            x == BackupRow(u, e, g)
<1>1. g \in {"here", "there", "none", "gone"} /\ (g = "here" => e.vmid \in known)
  BY DEF MatchGuest
<1>. HIDE DEF g
<1>2. /\ x.upid = u /\ x.vmid = e.vmid /\ x.guest = g /\ x.at = e.at /\ x.ok = e.ok
      /\ x = [upid |-> u, nth |-> 1, vmid |-> e.vmid, guest |-> g, ok |-> e.ok, at |-> e.at]
  BY FirstOfName
<1>. HIDE DEF x
<1>3. e.at \in Nat /\ e.at <= now
  BY DEF BackupInv, BackupTypes
<1>4. x \in BackupRows
  BY <1>1, <1>2, <1>3 DEF BackupRows
<1>5. RowTells(x, tasks)
  BY <1>2 DEF RowTells
<1>6. RowHolds(x, tasks, known, now)
  BY <1>1, <1>2, <1>3, <1>4, <1>5 DEF RowHolds
<1>. QED  BY <1>6 DEF x, g

\* Ended tasks stay as they are, and nothing else has been recorded.
LEMMA EndedTasksStay ==
    ASSUME BackupInv, zone' = zone, history' = history, known' = known, last' = last, read' = read,
           now' \in Nat, now <= now', tasks' \in Seq(BackupTask), Len(tasks) <= Len(tasks'),
           \A j \in 1..Len(tasks) : tasks[j].end > 0 => tasks'[j] = tasks[j],
           \A j \in 1..Len(tasks') : TaskHolds(tasks'[j], zone', now')
    PROVE  BackupInv'
<1>1. now \in Nat /\ tasks \in Seq(BackupTask) /\ Len(tasks) \in Nat /\ Len(tasks') \in Nat
  BY DEF BackupInv, BackupTypes
<1>2. \A j \in 1..Len(tasks) : j \in 1..Len(tasks')
  BY <1>1
<1>3. BackupTypes'
  <2>1. /\ zone \in Int /\ known \in SUBSET Vmids /\ last \in [Vmids -> Nat]
        /\ \A v \in Vmids : last[v] <= now
    BY DEF BackupInv, BackupTypes
  <2>2. \A v \in Vmids : last[v] <= now'
    BY <1>1, <2>1
  <2>. QED  BY <2>1, <2>2 DEF BackupTypes
<1>4. ASSUME NEW x \in history PROVE RowHolds(x, tasks', known', now')
  <2>1. RowHolds(x, tasks, known, now)
    BY DEF BackupInv
  <2>2. x.at \in Nat /\ x.at <= now
    BY <2>1 DEF RowHolds, BackupRows
  <2>3. x.at <= now'
    BY <1>1, <2>2
  <2>4. RowTells(x, tasks')
    <3>. SUFFICES ASSUME x.upid[1] = "task" PROVE RowTells(x, tasks')
      BY DEF RowTells
    <3>1. RowTells(x, tasks)
      BY <2>1 DEF RowHolds
    <3>2. x.upid[2] \in 1..Len(tasks) /\ tasks[x.upid[2]].end > 0
      BY <3>1 DEF RowTells
    <3>3. tasks'[x.upid[2]] = tasks[x.upid[2]] /\ x.upid[2] \in 1..Len(tasks')
      BY <1>2, <3>2
    <3>. QED  BY <3>1, <3>3, Zenon DEF RowTells
  <2>. QED  BY <2>1, <2>3, <2>4 DEF RowHolds
<1>5. JobsAreWhole(history', tasks')
  <2>1. ASSUME NEW x \in history, x.upid[1] = "task", tasks'[x.upid[2]].of = Bulk
        PROVE  Recorded(x.upid[2], tasks', history)
    <3>1. tasks'[x.upid[2]] = tasks[x.upid[2]]
      BY <2>1 DEF BackupInv, RowHolds, RowTells
    <3>2. Recorded(x.upid[2], tasks, history)
      BY <2>1, <3>1 DEF BackupInv, JobsAreWhole
    <3>. QED  BY <3>1, <3>2 DEF Recorded
  <2>. QED  BY <2>1 DEF JobsAreWhole
<1>6. ASSUME NEW i \in read PROVE ReadHolds(i, tasks', history')
  <2>1. ReadHolds(i, tasks, history)
    BY DEF BackupInv
  <2>2. tasks'[i] = tasks[i]
    BY <2>1 DEF ReadHolds
  <2>. QED  BY <1>2, <2>1, <2>2 DEF ReadHolds, Recorded
<1>7. \A v \in known' : LastHolds(v, last'[v], history')
  BY DEF BackupInv
<1>. QED  BY <1>3, <1>4, <1>5, <1>6, <1>7 DEF BackupInv

\* A new task has no results and an empty log.
LEMMA StartTaskKeeps ==
    ASSUME BackupInv, NEW of \in Vmids \cup {Bulk}, StartTask(of)
    PROVE  BackupInv'
<1>. DEFINE t == [of |-> of, start |-> now + 1, began |-> 0, end |-> 0, done |-> <<>>, log |-> <<>>]
<1>1. now \in Nat /\ tasks \in Seq(BackupTask) /\ Len(tasks) \in Nat /\ zone \in Int
  BY DEF BackupInv, BackupTypes
<1>2. /\ now' = now + 1 /\ tasks' = Append(tasks, t) /\ zone' = zone /\ history' = history
      /\ known' = known /\ last' = last /\ read' = read
  BY DEF StartTask
<1>3. TaskHolds(t, zone, now + 1)
  <2>1. <<>> \in Seq(GuestResult) /\ <<>> \in Seq(LogLine) /\ now + 1 \in Nat
    BY <1>1
  <2>2. /\ t \in BackupTask /\ t.of = of /\ t.start = now + 1 /\ t.end = 0 /\ t.done = <<>> /\ t.log = <<>>
    BY <2>1 DEF BackupTask
  <2>. HIDE DEF t
  <2>3. Len(t.done) = 0 /\ Len(t.log) = 0 /\ \A k \in 1..Len(t.done) : FALSE
    BY <2>2
  <2>4. ResultLines(t.log) = {}
    BY <2>2 DEF ResultLines
  <2>5. 0 < t.start /\ t.start <= now + 1 /\ t.end <= now + 1
    BY <1>1, <2>2
  <2>6. LogTells(t, zone)
    BY <2>3, <2>4 DEF LogTells
  <2>7. SingleEnds(t)
    BY <2>2, <2>3 DEF SingleEnds
  <2>8. BeganFirst(t)
    BY <2>3 DEF BeganFirst
  <2>. QED  BY <2>2, <2>3, <2>5, <2>6, <2>7, <2>8 DEF TaskHolds
<1>4. t \in BackupTask
  BY <1>3 DEF TaskHolds
<1>. HIDE DEF t
<1>5. /\ tasks' \in Seq(BackupTask) /\ Len(tasks') = Len(tasks) + 1 /\ tasks'[Len(tasks) + 1] = t
      /\ \A j \in 1..Len(tasks) : tasks'[j] = tasks[j]
  BY <1>1, <1>2, <1>4
<1>6. now' \in Nat /\ now <= now' /\ Len(tasks) <= Len(tasks')
  BY <1>1, <1>2, <1>5
<1>7. ASSUME NEW j \in 1..Len(tasks') PROVE TaskHolds(tasks'[j], zone', now')
  <2>1. CASE j \in 1..Len(tasks)
    <3>1. TaskHolds(tasks[j], zone, now)
      BY <2>1 DEF BackupInv
    <3>2. TaskHolds(tasks[j], zone, now')
      BY <1>1, <1>6, <3>1, HoldsLonger
    <3>. QED  BY <1>2, <1>5, <2>1, <3>2
  <2>2. CASE j = Len(tasks) + 1
    BY <1>2, <1>3, <1>5, <2>2
  <2>. QED  BY <1>1, <1>5, <2>1, <2>2
<1>. QED  BY <1>2, <1>5, <1>6, <1>7, EndedTasksStay

\* A result goes to a task that has not ended, so no row is about it yet.
LEMMA GuestDoneKeeps ==
    ASSUME BackupInv, NEW i \in DOMAIN tasks, NEW v \in Vmids, NEW res \in {"ok", "failed", "cut"},
           NEW began, NEW remote \in BOOLEAN, GuestDone(i, v, began, res, remote)
    PROVE  BackupInv'
<1>1. now \in Nat /\ tasks \in Seq(BackupTask) /\ Len(tasks) \in Nat /\ zone \in Int /\ i \in 1..Len(tasks)
  BY DEF BackupInv, BackupTypes
<1>. DEFINE t == tasks[i]
            snap == IF remote THEN now ELSE 0
            g == [vmid |-> v, result |-> res, at |-> now + 1, snap |-> snap]
            sec == Section(v, began, res, now + 1)
            begun == IF t.done = <<>> THEN began ELSE t.began
            end == IF t.of = v \/ res = "cut" THEN now + 1 ELSE 0
<1>2. /\ now' = now + 1 /\ zone' = zone /\ history' = history
      /\ known' = known /\ last' = last /\ read' = read /\ t.end = 0 /\ t.of \in {Bulk, v} /\ began \in BeganAt(t)
  BY DEF GuestDone
<1>3. tasks' = [tasks EXCEPT ![i].log = @ \o sec, ![i].began = begun, ![i].done = Append(@, g), ![i].end = end]
  BY <1>2 DEF GuestDone
<1>4. t \in BackupTask /\ TaskHolds(t, zone, now) /\ t.log \in Seq(LogLine) /\ t.done \in Seq(GuestResult) /\ t.start \in Nat /\ t.began \in Nat
  BY <1>1 DEF BackupInv, TaskHolds, BackupTask
<1>5. snap \in 0..(now + 1) /\ now + 1 \in Nat /\ snap \in Nat
  BY <1>1
<1>6. began \in Nat /\ begun \in Nat
  BY <1>1, <1>2, <1>4, BeganIsNat
<1>7. sec \in Seq(LogLine)
  <2>1. SectionIs(sec, v, began, res, now + 1)
    BY <1>1, <1>5, <1>6, SectionLines
  <2>. QED  BY <2>1 DEF SectionIs
<1>8. g \in GuestResult
  BY <1>5 DEF GuestResult
<1>9. end \in Nat
  BY <1>5
<1>. HIDE DEF sec, g, snap, end, begun
<1>10. /\ tasks' \in Seq(BackupTask) /\ Len(tasks') = Len(tasks)
       /\ \A j \in 1..Len(tasks) : j # i => tasks'[j] = tasks[j]
       /\ tasks'[i] \in BackupTask
       /\ tasks'[i].log = t.log \o sec /\ tasks'[i].done = Append(t.done, g) /\ tasks'[i].end = end
       /\ tasks'[i].of = t.of /\ tasks'[i].start = t.start /\ tasks'[i].began = begun
  <2>. DEFINE u == [t EXCEPT !.log = @ \o sec, !.began = begun, !.done = Append(@, g), !.end = end]
  <2>1. Append(t.done, g) \in Seq(GuestResult) /\ t.log \o sec \in Seq(LogLine)
    BY <1>4, <1>7, <1>8
  <2>2. /\ u \in BackupTask /\ u.of = t.of /\ u.start = t.start /\ u.began = begun /\ u.end = end
        /\ u.done = Append(t.done, g) /\ u.log = t.log \o sec
    BY <1>4, <1>6, <1>9, <2>1 DEF BackupTask
  <2>3. tasks' = [tasks EXCEPT ![i] = u]
    BY <1>1, <1>3
  <2>. HIDE DEF u
  <2>. QED  BY <1>1, <2>2, <2>3
<1>11. BackedUp(t, tasks'[i], v, began, res, snap)
  BY <1>10 DEF BackedUp, sec, g, end, begun
<1>12. v # Bulk
  BY BackupAssumption DEF Bulk
<1>13. TaskHolds(tasks'[i], zone, now + 1)
  <2>. HIDE DEF t
  <2>. QED  BY <1>1, <1>2, <1>4, <1>5, <1>11, <1>12, GuestDoneHolds
<1>14. now' \in Nat /\ now <= now' /\ Len(tasks) <= Len(tasks')
  BY <1>1, <1>2, <1>10
<1>15. ASSUME NEW j \in 1..Len(tasks') PROVE TaskHolds(tasks'[j], zone', now')
  <2>1. CASE j # i
    <3>1. TaskHolds(tasks[j], zone, now)
      BY <1>10 DEF BackupInv
    <3>2. TaskHolds(tasks[j], zone, now')
      BY <1>1, <1>14, <3>1, HoldsLonger
    <3>. QED  BY <1>2, <1>10, <2>1, <3>2
  <2>2. CASE j = i
    BY <1>2, <1>13, <2>2
  <2>. QED  BY <2>1, <2>2
<1>16. \A j \in 1..Len(tasks) : tasks[j].end > 0 => tasks'[j] = tasks[j]
  BY <1>2, <1>10
<1>. QED  BY <1>2, <1>10, <1>14, <1>15, <1>16, EndedTasksStay

\* A job that ends keeps its results and its log.
LEMMA EndBulkKeeps ==
    ASSUME BackupInv, NEW i \in DOMAIN tasks, EndBulk(i)
    PROVE  BackupInv'
<1>1. now \in Nat /\ tasks \in Seq(BackupTask) /\ Len(tasks) \in Nat /\ zone \in Int /\ i \in 1..Len(tasks)
  BY DEF BackupInv, BackupTypes
<1>. DEFINE t == tasks[i]
            u == [t EXCEPT !.end = now]
<1>2. /\ now' = now /\ zone' = zone /\ history' = history /\ t.of = Bulk
      /\ known' = known /\ last' = last /\ read' = read /\ t.end = 0
  BY DEF EndBulk
<1>3. tasks' = [tasks EXCEPT ![i] = u]
  BY DEF EndBulk
<1>4. t \in BackupTask /\ TaskHolds(t, zone, now)
  BY <1>1 DEF BackupInv, TaskHolds
<1>5. /\ u \in BackupTask /\ u.of = t.of /\ u.start = t.start /\ u.began = t.began /\ u.end = now /\ u.done = t.done /\ u.log = t.log
  BY <1>1, <1>4 DEF BackupTask
<1>. HIDE DEF u
<1>6. TaskHolds(u, zone, now)
  <2>1. LogTells(u, zone) /\ SingleEnds(u) /\ BeganFirst(u)
    BY <1>2, <1>4, <1>5 DEF TaskHolds, LogTells, SingleEnds, BeganFirst
  <2>2. now <= now
    BY <1>1
  <2>. QED  BY <1>4, <1>5, <2>1, <2>2 DEF TaskHolds
<1>7. /\ tasks' \in Seq(BackupTask) /\ Len(tasks') = Len(tasks) /\ tasks'[i] = u
      /\ \A j \in 1..Len(tasks) : j # i => tasks'[j] = tasks[j]
  BY <1>1, <1>3, <1>5
<1>8. ASSUME NEW j \in 1..Len(tasks') PROVE TaskHolds(tasks'[j], zone', now')
  BY <1>2, <1>6, <1>7 DEF BackupInv
<1>9. \A j \in 1..Len(tasks) : tasks[j].end > 0 => tasks'[j] = tasks[j]
  BY <1>2, <1>7
<1>10. now' \in Nat /\ now <= now' /\ Len(tasks) <= Len(tasks')
  BY <1>1, <1>2, <1>7
<1>. QED  BY <1>2, <1>7, <1>8, <1>9, <1>10, EndedTasksStay

\* What a sync adds for one ended task: true rows, and then nothing of the
\* task is missing unless its log could not be read.
Adds(i, new, unreadable) ==
    /\ \A x \in new : RowHolds(x, tasks, known, now) /\ x.upid[1] = "task" /\ x.upid[2] = i
    /\ tasks[i].of # Bulk => \E x \in history \cup new : x.upid = <<"task", i>>
    /\ tasks[i].of = Bulk /\ (new # {} \/ i \notin unreadable) => Recorded(i, tasks, history \cup new)

\* It is what RecordSingle and RecordBulk add.
LEMMA TaskIsRecorded ==
    ASSUME BackupInv, NEW unreadable, NEW i \in 1..Len(tasks), tasks[i].end > 0,
           NEW new, new = IF tasks[i].of = Bulk THEN RecordBulk(i, unreadable) ELSE RecordSingle(i)
    PROVE  Adds(i, new, unreadable)
<1>1. /\ TaskHolds(tasks[i], zone, now) /\ now \in Nat /\ zone \in Int /\ i \in Nat
      /\ tasks[i] \in BackupTask /\ tasks[i].end \in Nat /\ tasks[i].end <= now
      /\ tasks[i].done \in Seq(GuestResult)
  <2>1. TaskHolds(tasks[i], zone, now) /\ now \in Nat /\ zone \in Int /\ i \in Nat
    BY DEF BackupInv, BackupTypes
  <2>. QED  BY <2>1 DEF TaskHolds, BackupTask
<1>2. CASE tasks[i].of # Bulk
  <2>. DEFINE r == tasks[i].done[1]
              u == <<"task", i>>
              e == [vmid |-> r.vmid, ok |-> r.result = "ok", at |-> tasks[i].end]
  <2>1. Len(tasks[i].done) = 1 /\ r.at = tasks[i].end
    BY <1>1, <1>2 DEF TaskHolds, SingleEnds
  <2>2. 1 \in 1..Len(tasks[i].done) /\ r \in GuestResult
    BY <1>1, <2>1
  <2>3. new = IF Exists(u) THEN {} ELSE {BackupRow(u, e, MatchGuest(e.vmid))}
    BY <1>2 DEF RecordSingle
  <2>4. u \in Upids /\ u[1] = "task" /\ u[2] = i
    BY <1>1 DEF Upids
  <2>5. e.vmid = r.vmid /\ e.at = tasks[i].end /\ e.vmid \in Vmids /\ e.at \in 0..now
    BY <1>1, <2>2 DEF GuestResult
  <2>6. /\ e.ok \in BOOLEAN
        /\ e.ok <=> r.result = "ok"
    BY Zenon
  <2>. HIDE DEF e
  <2>7. \E k \in 1..Len(tasks[i].done) :
              /\ tasks[i].done[k].vmid = e.vmid
              /\ e.ok <=> tasks[i].done[k].result = "ok"
              /\ e.ok => e.at = tasks[i].done[k].at - Waited(tasks[i])
    <3>1. Waited(tasks[i]) = 0 /\ tasks[i].end - 0 = tasks[i].end
      BY <1>1, <1>2 DEF Waited
    <3>. QED  BY <2>1, <2>2, <2>5, <2>6, <3>1
  <2>. HIDE DEF u, r
  <2>8. CASE Exists(u)
    BY <1>2, <2>3, <2>8 DEF Exists, u, Adds
  <2>9. CASE ~Exists(u)
    <3>1. RowHolds(BackupRow(u, e, MatchGuest(e.vmid)), tasks, known, now)
      BY <2>4, <2>5, <2>6, <2>7, <2>9, TaskRow
    <3>2. BackupRow(u, e, MatchGuest(e.vmid)).upid = u
      BY <2>9, FirstOfName
    <3>3. new = {BackupRow(u, e, MatchGuest(e.vmid))}
      BY <2>3, <2>9
    <3>. QED  BY <1>2, <2>4, <3>1, <3>2, <3>3 DEF u, Adds
  <2>. QED  BY <2>8, <2>9
<1>3. CASE tasks[i].of = Bulk
  <2>1. CASE \E v \in Vmids : Exists(<<"task", i, v>>)
    <3>1. PICK x \in history : \E v \in Vmids : x.upid = <<"task", i, v>>
      BY <2>1 DEF Exists
    <3>2. x.upid[1] = "task" /\ x.upid[2] = i
      BY <3>1
    <3>3. Recorded(i, tasks, history)
      BY <1>3, <3>2 DEF BackupInv, JobsAreWhole
    <3>4. new = {}
      BY <1>3, <2>1 DEF RecordBulk
    <3>. QED  BY <1>3, <3>3, <3>4 DEF Recorded, Adds
  <2>2. CASE ~(\E v \in Vmids : Exists(<<"task", i, v>>)) /\ i \in unreadable
    <3>1. new = {}
      BY <1>3, <2>2 DEF RecordBulk
    <3>. QED  BY <1>3, <2>2, <3>1 DEF Adds
  <2>3. CASE ~(\E v \in Vmids : Exists(<<"task", i, v>>)) /\ i \notin unreadable
    <3>. DEFINE NewRow(e) == BackupRow(<<"task", i, e.vmid>>, e, MatchGuest(e.vmid))
    <3>1. new = {NewRow(e) : e \in Results(tasks[i])}
      BY <1>3, <2>3 DEF RecordBulk
    <3>2. ASSUME NEW e \in Results(tasks[i])
          PROVE  RowHolds(NewRow(e), tasks, known, now) /\ NewRow(e).upid = <<"task", i, e.vmid>>
      <4>. DEFINE u == <<"task", i, e.vmid>>
      <4>1. /\ e.vmid \in Vmids /\ e.ok \in BOOLEAN /\ e.at \in 0..now
            /\ \E k \in 1..Len(tasks[i].done) :
                  /\ tasks[i].done[k].vmid = e.vmid
                  /\ e.ok <=> tasks[i].done[k].result = "ok"
                  /\ e.ok => e.at = tasks[i].done[k].at - (tasks[i].began - tasks[i].start)
        BY <1>1, ResultTells
      <4>6. Waited(tasks[i]) = tasks[i].began - tasks[i].start
        BY <1>3 DEF Waited
      <4>2. u \in Upids /\ u[1] = "task" /\ u[2] = i
        BY <1>1, <4>1 DEF Upids
      <4>3. ~Exists(u)
        BY <2>3, <4>1
      <4>. HIDE DEF u
      <4>4. RowHolds(BackupRow(u, e, MatchGuest(e.vmid)), tasks, known, now)
        BY <4>1, <4>2, <4>3, <4>6, TaskRow
      <4>5. BackupRow(u, e, MatchGuest(e.vmid)).upid = u
        BY <4>3, FirstOfName
      <4>. QED  BY <4>4, <4>5 DEF u
    <3>. HIDE DEF NewRow
    <3>3. ASSUME NEW k \in 1..Len(tasks[i].done), tasks[i].done[k].result # "cut"
          PROVE  \E x \in new : x.upid = <<"task", i, tasks[i].done[k].vmid>>
      <4>1. PICK e \in Results(tasks[i]) : e.vmid = tasks[i].done[k].vmid
        BY <1>1, <3>3, ResultsComplete
      <4>2. NewRow(e) \in new
        BY <3>1
      <4>. QED  BY <3>2, <4>1, <4>2
    <3>4. Recorded(i, tasks, history \cup new)
      BY <3>3 DEF Recorded
    <3>5. ASSUME NEW x \in new
          PROVE  RowHolds(x, tasks, known, now) /\ x.upid[1] = "task" /\ x.upid[2] = i
      <4>1. PICK e \in Results(tasks[i]) : x = NewRow(e)
        BY <3>1
      <4>. QED  BY <3>2, <4>1
    <3>. QED  BY <1>3, <3>4, <3>5 DEF Adds
  <2>. QED  BY <2>1, <2>2, <2>3
<1>. QED  BY <1>2, <1>3

\* A sync records every ended task that it lists and can read.
LEMMA SyncBackupsKeeps ==
    ASSUME BackupInv, NEW unreadable \in SUBSET Ended, SyncBackups(unreadable)
    PROVE  BackupInv'
<1>. DEFINE New(i) == IF tasks[i].of = Bulk THEN RecordBulk(i, unreadable) ELSE RecordSingle(i)
            recs == UNION {New(i) : i \in Ended}
<1>1. /\ InsertRows(recs) /\ zone' = zone /\ now' = now /\ tasks' = tasks /\ known' = known
      /\ read' = read \cup (Ended \ unreadable)
  BY DEF SyncBackups
<1>2. \A i \in Ended : i \in 1..Len(tasks) /\ tasks[i].end > 0
  BY DEF Ended, ListedTasks, BackupInv, BackupTypes
<1>3. ASSUME NEW i \in Ended PROVE Adds(i, New(i), unreadable)
  BY <1>2, TaskIsRecorded
<1>4. \A i \in Ended : New(i) \subseteq recs
  OBVIOUS
<1>5. \A x \in recs : \E i \in Ended : x \in New(i)
  OBVIOUS
<1>. HIDE DEF New, recs
<1>6. \A x \in recs : RowHolds(x, tasks, known, now)
  BY <1>3, <1>5 DEF Adds
<1>7. /\ history' = history \cup recs
      /\ last' \in [Vmids -> Nat] /\ \A v \in Vmids : last'[v] <= now'
      /\ \A x \in history' : RowHolds(x, tasks', known', now')
      /\ \A v \in known' : LastHolds(v, last'[v], history')
  BY <1>1, <1>6, Inserted
<1>8. BackupTypes'
  BY <1>1, <1>7 DEF BackupInv, BackupTypes
<1>9. \A i \in 1..Len(tasks') : TaskHolds(tasks'[i], zone', now')
  BY <1>1 DEF BackupInv
<1>10. JobsAreWhole(history', tasks')
  <2>1. ASSUME NEW x \in history, x.upid[1] = "task", tasks[x.upid[2]].of = Bulk
        PROVE  Recorded(x.upid[2], tasks, history')
    <3>1. Recorded(x.upid[2], tasks, history)
      BY <2>1 DEF BackupInv, JobsAreWhole
    <3>. QED  BY <1>7, <3>1 DEF Recorded
  <2>2. ASSUME NEW x \in recs, x.upid[1] = "task", tasks[x.upid[2]].of = Bulk
        PROVE  Recorded(x.upid[2], tasks, history')
    <3>1. PICK i \in Ended : x \in New(i)
      BY <1>5
    <3>2. x.upid[2] = i /\ New(i) # {}
      BY <1>3, <3>1 DEF Adds
    <3>3. Recorded(i, tasks, history \cup New(i))
      BY <1>3, <2>2, <3>2 DEF Adds
    <3>4. Recorded(i, tasks, history')
      BY <1>4, <1>7, <3>3 DEF Recorded
    <3>. QED  BY <3>2, <3>4
  <2>. QED  BY <1>1, <1>7, <2>1, <2>2 DEF JobsAreWhole
<1>11. ASSUME NEW i \in read' PROVE ReadHolds(i, tasks', history')
  <2>1. CASE i \in read
    <3>1. ReadHolds(i, tasks, history)
      BY <2>1 DEF BackupInv
    <3>. QED  BY <1>1, <1>7, <3>1 DEF ReadHolds, Recorded
  <2>2. CASE i \in Ended \ unreadable
    <3>0. Adds(i, New(i), unreadable) /\ history \cup New(i) \subseteq history'
      BY <1>3, <1>4, <1>7, <2>2
    <3>1. tasks[i].of = Bulk => Recorded(i, tasks, history')
      <4>1. tasks[i].of = Bulk => Recorded(i, tasks, history \cup New(i))
        BY <2>2, <3>0 DEF Adds
      <4>. QED  BY <3>0, <4>1 DEF Recorded
    <3>2. tasks[i].of # Bulk => \E x \in history' : x.upid = <<"task", i>>
      BY <3>0 DEF Adds
    <3>. QED  BY <1>1, <1>2, <2>2, <3>1, <3>2 DEF ReadHolds
  <2>. QED  BY <1>1, <2>1, <2>2
<1>. QED  BY <1>7, <1>8, <1>9, <1>10, <1>11 DEF BackupInv

\* A snapshot gets one row, and never moves the last success back.
LEMMA BackfillKeeps ==
    ASSUME BackupInv, NEW v \in Vmids, BackfillSnapshots(v)
    PROVE  BackupInv'
<1>. DEFINE latest == Max(Snapshots(v))
            u == <<"pbs", v, latest>>
            e == [vmid |-> v, ok |-> TRUE, at |-> latest]
            g == UnambiguousGuest(v)
            snapRow == BackupRow(u, e, g)
<1>1. /\ InsertRows({snapRow}) /\ ~Exists(u) /\ zone' = zone /\ now' = now /\ tasks' = tasks
      /\ known' = known /\ read' = read /\ Snapshots(v) # {}
  BY DEF BackfillSnapshots
<1>2. now \in Nat /\ tasks \in Seq(BackupTask) /\ DOMAIN tasks = 1..Len(tasks)
  BY DEF BackupInv, BackupTypes
<1>3. ASSUME NEW i \in DOMAIN tasks, NEW r \in Range(tasks[i].done) PROVE r.snap \in 0..now
  <2>1. TaskHolds(tasks[i], zone, now) /\ tasks[i].done \in Seq(GuestResult)
    BY <1>2 DEF BackupInv, TaskHolds, BackupTask
  <2>2. PICK k \in 1..Len(tasks[i].done) : r = tasks[i].done[k]
    BY <2>1 DEF Range
  <2>3. r \in GuestResult /\ r.snap <= now
    BY <2>1, <2>2 DEF TaskHolds
  <2>. QED  BY <1>2, <2>3 DEF GuestResult
<1>4. Snapshots(v) \in SUBSET (0..now)
  <2>1. \A r \in UNION {Range(tasks[i].done) : i \in DOMAIN tasks} : r.snap \in 0..now
    BY <1>3
  <2>. QED  BY <2>1 DEF Snapshots
<1>5. latest \in 0..now
  BY <1>1, <1>2, <1>4, MaxHolds
<1>6. latest \in Nat /\ latest <= now
  BY <1>2, <1>5
<1>. HIDE DEF latest
<1>7. u \in Upids /\ u[1] # "task"
  BY <1>6 DEF Upids
<1>8. g \in {"here", "there", "none", "gone"} /\ (g = "here" => v \in known)
  <2>1. CASE v \in known /\ v \notin Shared
    BY <2>1 DEF UnambiguousGuest
  <2>2. CASE v \in Shared /\ v \notin known
    BY <2>2 DEF UnambiguousGuest
  <2>3. CASE ~(v \in known /\ v \notin Shared) /\ ~(v \in Shared /\ v \notin known)
    BY <2>3 DEF UnambiguousGuest
  <2>. QED  BY <2>1, <2>2, <2>3
<1>9. e.vmid = v /\ e.at = latest
  OBVIOUS
<1>10. e.ok \in BOOLEAN
  BY Zenon
<1>. HIDE DEF u, g, e
<1>11. /\ snapRow.upid = u /\ snapRow.vmid = e.vmid /\ snapRow.guest = g /\ snapRow.at = e.at /\ snapRow.ok = e.ok
       /\ snapRow = [upid |-> u, nth |-> 1, vmid |-> e.vmid, guest |-> g, ok |-> e.ok, at |-> e.at]
  BY <1>1, FirstOfName
<1>. HIDE DEF snapRow
<1>12. snapRow \in BackupRows
  BY <1>6, <1>7, <1>8, <1>9, <1>10, <1>11 DEF BackupRows
<1>13. RowHolds(snapRow, tasks, known, now)
  BY <1>6, <1>7, <1>8, <1>9, <1>11, <1>12 DEF RowHolds, RowTells
<1>14. /\ history' = history \cup {snapRow}
       /\ last' \in [Vmids -> Nat] /\ \A w \in Vmids : last'[w] <= now'
       /\ \A x \in history' : RowHolds(x, tasks', known', now')
       /\ \A w \in known' : LastHolds(w, last'[w], history')
  <2>. DEFINE recs == {snapRow}
  <2>1. \A x \in recs : RowHolds(x, tasks, known, now)
    BY <1>13
  <2>2. InsertRows(recs)
    BY <1>1
  <2>. HIDE DEF recs
  <2>3. /\ history' = history \cup recs
        /\ last' \in [Vmids -> Nat] /\ \A w \in Vmids : last'[w] <= now'
        /\ \A x \in history' : RowHolds(x, tasks', known', now')
        /\ \A w \in known' : LastHolds(w, last'[w], history')
    BY <1>1, <2>1, <2>2, Inserted
  <2>. QED  BY <2>3 DEF recs
<1>15. BackupTypes'
  BY <1>1, <1>14 DEF BackupInv, BackupTypes
<1>16. \A i \in 1..Len(tasks') : TaskHolds(tasks'[i], zone', now')
  BY <1>1 DEF BackupInv
<1>17. JobsAreWhole(history', tasks')
  BY <1>1, <1>7, <1>11, <1>14 DEF BackupInv, JobsAreWhole, Recorded
<1>18. \A i \in read' : ReadHolds(i, tasks', history')
  BY <1>1, <1>14 DEF BackupInv, ReadHolds, Recorded
<1>. QED  BY <1>14, <1>15, <1>16, <1>17, <1>18 DEF BackupInv

\* A new document has no row linked to it.
LEMMA CreateGuestKeeps ==
    ASSUME BackupInv, NEW v \in Vmids, CreateGuest(v)
    PROVE  BackupInv'
<1>1. /\ v \notin known /\ known' = known \cup {v} /\ last' = [last EXCEPT ![v] = 0]
      /\ zone' = zone /\ now' = now /\ tasks' = tasks /\ history' = history /\ read' = read
  BY DEF CreateGuest
<1>2. BackupTypes /\ now \in Nat /\ last \in [Vmids -> Nat]
  BY DEF BackupInv, BackupTypes
<1>3. /\ last' \in [Vmids -> Nat] /\ last'[v] = 0 /\ \A w \in Vmids : w # v => last'[w] = last[w]
  BY <1>1, <1>2
<1>4. 0 <= now
  BY <1>2
<1>5. BackupTypes'
  BY <1>1, <1>2, <1>3, <1>4 DEF BackupTypes
<1>6. \A x \in history : RowHolds(x, tasks, known', now)
  BY <1>1 DEF BackupInv, RowHolds
<1>7. ASSUME NEW w \in known' PROVE LastHolds(w, last'[w], history')
  <2>1. CASE w = v
    <3>1. \A x \in history : ~Success(x, v)
      BY <1>1 DEF BackupInv, RowHolds, Success
    <3>. QED  BY <1>1, <1>3, <2>1, <3>1 DEF LastHolds
  <2>2. CASE w # v
    <3>1. w \in known /\ w \in Vmids
      BY <1>1, <1>2, <2>2 DEF BackupTypes
    <3>. QED  BY <1>1, <1>3, <2>2, <3>1 DEF BackupInv
  <2>. QED  BY <2>1, <2>2
<1>. QED  BY <1>1, <1>5, <1>6, <1>7 DEF BackupInv

\* Rows of a deleted guest stay, but no longer count for a document.
LEMMA DeleteGuestKeeps ==
    ASSUME BackupInv, NEW v \in Vmids, DeleteGuest(v)
    PROVE  BackupInv'
<1>. DEFINE Cut(x) == IF x.vmid = v /\ x.guest = "here" THEN [x EXCEPT !.guest = "gone"] ELSE x
<1>1. /\ known' = known \ {v} /\ last' = [last EXCEPT ![v] = 0]
      /\ zone' = zone /\ now' = now /\ tasks' = tasks /\ read' = read
      /\ history' = {Cut(x) : x \in history}
  BY DEF DeleteGuest
<1>2. BackupTypes /\ now \in Nat /\ last \in [Vmids -> Nat]
  BY DEF BackupInv, BackupTypes
<1>3. /\ last' \in [Vmids -> Nat] /\ last'[v] = 0 /\ \A w \in Vmids : w # v => last'[w] = last[w]
  BY <1>1, <1>2
<1>4. 0 <= now
  BY <1>2
<1>5. BackupTypes'
  BY <1>1, <1>2, <1>3, <1>4 DEF BackupTypes
<1>6. ASSUME NEW x \in history
      PROVE  /\ Cut(x) \in BackupRows /\ Cut(x).upid = x.upid /\ Cut(x).vmid = x.vmid
             /\ Cut(x).at = x.at /\ Cut(x).ok = x.ok
             /\ x.vmid # v => Cut(x) = x
             /\ Cut(x).guest = "here" => x.guest = "here" /\ x.vmid # v
  <2>1. x \in BackupRows
    BY DEF BackupInv, RowHolds
  <2>. QED  BY <2>1 DEF BackupRows
<1>. HIDE DEF Cut
<1>7. ASSUME NEW x \in history PROVE RowHolds(Cut(x), tasks, known', now)
  <2>1. RowHolds(x, tasks, known, now)
    BY DEF BackupInv
  <2>2. RowTells(Cut(x), tasks)
    <3>1. RowTells(x, tasks)
      BY <2>1 DEF RowHolds
    <3>2. Cut(x).upid = x.upid /\ Cut(x).vmid = x.vmid /\ Cut(x).at = x.at /\ Cut(x).ok = x.ok
      BY <1>6
    <3>. QED  BY <3>1, <3>2, Zenon DEF RowTells
  <2>. QED  BY <1>1, <1>6, <2>1, <2>2 DEF RowHolds
<1>8. \A u : (\E x \in history : x.upid = u) => \E x \in history' : x.upid = u
  BY <1>1, <1>6
<1>9. \A i : Recorded(i, tasks, history) => Recorded(i, tasks, history')
  BY <1>8 DEF Recorded
<1>10. JobsAreWhole(history', tasks')
  <2>1. ASSUME NEW x \in history, Cut(x).upid[1] = "task", tasks[Cut(x).upid[2]].of = Bulk
        PROVE  Recorded(Cut(x).upid[2], tasks, history')
    BY <1>6, <1>9, <2>1 DEF BackupInv, JobsAreWhole
  <2>. QED  BY <1>1, <2>1 DEF JobsAreWhole
<1>11. \A i \in read' : ReadHolds(i, tasks', history')
  BY <1>1, <1>8, <1>9 DEF BackupInv, ReadHolds
<1>12. ASSUME NEW w \in known' PROVE LastHolds(w, last'[w], history')
  <2>1. w \in known /\ w # v /\ w \in Vmids
    BY <1>1, <1>2 DEF BackupTypes
  <2>2. LastHolds(w, last[w], history) /\ last'[w] = last[w]
    BY <1>3, <2>1 DEF BackupInv
  <2>3. \A x \in history : Success(Cut(x), w) => Success(x, w) /\ Cut(x) = x
    BY <1>6, <2>1 DEF Success
  <2>4. \A x \in history : Success(x, w) => Cut(x) = x
    BY <1>6, <2>1 DEF Success
  <2>. QED  BY <1>1, <2>2, <2>3, <2>4 DEF LastHolds
<1>13. \A x \in history' : RowHolds(x, tasks', known', now')
  BY <1>1, <1>7
<1>14. \A i \in 1..Len(tasks') : TaskHolds(tasks'[i], zone', now')
  BY <1>1 DEF BackupInv
<1>. QED  BY <1>5, <1>10, <1>11, <1>12, <1>13, <1>14 DEF BackupInv

\* In every reachable state the rows are true, whole jobs are recorded, and
\* last_successful_backup is the newest success (tasks/poller.py,
\* _sync_pve_backups and _backfill_pbs_snapshots).
THEOREM BackupInvariant == BackupSpec => []BackupInv
<1>1. BackupInit => BackupInv
  <2>. SUFFICES ASSUME BackupInit PROVE BackupInv
    OBVIOUS
  <2>1. BackupTypes
    <3>1. zone \in Int
      BY BackupAssumption DEF BackupInit
    <3>2. tasks \in Seq(BackupTask)
      BY DEF BackupInit
    <3>. QED  BY <3>1, <3>2 DEF BackupInit, BackupTypes
  <2>2. Len(tasks) = 0 /\ \A i \in 1..Len(tasks) : FALSE
    BY DEF BackupInit
  <2>. QED  BY <2>1, <2>2 DEF BackupInit, BackupInv, JobsAreWhole
<1>2. BackupInv /\ [BackupNext]_backupVars => BackupInv'
  <2>. SUFFICES ASSUME BackupInv, [BackupNext]_backupVars PROVE BackupInv'
    OBVIOUS
  <2>1. ASSUME NEW unreadable \in SUBSET Ended, SyncBackups(unreadable) PROVE BackupInv'
    BY <2>1, SyncBackupsKeeps
  <2>2. ASSUME NEW of \in Vmids \cup {Bulk}, StartTask(of) PROVE BackupInv'
    BY <2>2, StartTaskKeeps
  <2>3. ASSUME NEW i \in DOMAIN tasks, NEW v \in Vmids, NEW res \in {"ok", "failed", "cut"},
               NEW began \in BeganAt(tasks[i]), NEW remote \in {FALSE, res = "ok"},
               GuestDone(i, v, began, res, remote)
        PROVE  BackupInv'
    <3>1. remote \in BOOLEAN
      BY Zenon
    <3>. QED  BY <2>3, <3>1, GuestDoneKeeps
  <2>4. ASSUME NEW i \in DOMAIN tasks, EndBulk(i) PROVE BackupInv'
    BY <2>4, EndBulkKeeps
  <2>5. ASSUME NEW v \in Vmids, CreateGuest(v) \/ DeleteGuest(v) \/ BackfillSnapshots(v) PROVE BackupInv'
    BY <2>5, CreateGuestKeeps, DeleteGuestKeeps, BackfillKeeps
  <2>6. CASE UNCHANGED backupVars
    BY <2>6 DEF backupVars, BackupInv, BackupTypes
  <2>. QED  BY <2>1, <2>2, <2>3, <2>4, <2>5, <2>6 DEF BackupNext
<1>. QED  BY <1>1, <1>2, PTL DEF BackupSpec

\* The rows of the Backups tab are exact: each says what became of its guest
\* and when, less what its job waited, none is there twice, and last_successful_backup is the newest
\* success on record.
THEOREM BackupHistoryExact == BackupSpec => []HistoryIsExact
<1>1. BackupInv => HistoryIsExact
  <2>. SUFFICES ASSUME BackupInv PROVE HistoryIsExact
    OBVIOUS
  <2>0. now \in Nat /\ tasks \in Seq(BackupTask) /\ known \in SUBSET Vmids /\ last \in [Vmids -> Nat]
    BY DEF BackupInv, BackupTypes
  <2>1. ASSUME NEW x \in history, x.upid[1] = "task"
        PROVE  \E r \in Range(tasks[x.upid[2]].done) :
                  /\ r.vmid = x.vmid
                  /\ x.ok = (r.result = "ok")
                  /\ x.ok => x.at = r.at - Waited(tasks[x.upid[2]])
    <3>. DEFINE i == x.upid[2]
    <3>1. RowHolds(x, tasks, known, now)
      BY DEF BackupInv
    <3>2. x.ok \in BOOLEAN
      BY <3>1 DEF RowHolds, BackupRows
    <3>3. i \in 1..Len(tasks)
      BY <2>1, <3>1 DEF RowHolds, RowTells
    <3>4. PICK k \in 1..Len(tasks[i].done) :
             /\ tasks[i].done[k].vmid = x.vmid
             /\ x.ok <=> tasks[i].done[k].result = "ok"
             /\ x.ok => x.at = tasks[i].done[k].at - Waited(tasks[i])
      BY <2>1, <3>1 DEF RowHolds, RowTells
    <3>5. tasks[i].done \in Seq(GuestResult)
      <4>1. tasks[i] \in BackupTask
        BY <2>0, <3>3
      <4>. QED  BY <4>1 DEF BackupTask
    <3>. HIDE DEF i
    <3>6. tasks[i].done[k] \in Range(tasks[i].done)
      BY <3>4, <3>5 DEF Range
    <3>7. x.ok = (tasks[i].done[k].result = "ok")
      BY <3>2, <3>4, Zenon
    <3>8. \E r \in Range(tasks[i].done) :
                  /\ r.vmid = x.vmid
                  /\ x.ok = (r.result = "ok")
                  /\ x.ok => x.at = r.at - Waited(tasks[i])
      BY <3>4, <3>6, <3>7, Zenon
    <3>. QED  BY <3>8 DEF i
  <2>2. \A x \in history : x.nth = 1
    BY DEF BackupInv, RowHolds, BackupRows
  <2>3. ASSUME NEW v \in known
        PROVE  last[v] = Max({0} \cup {x.at : x \in {y \in history : y.ok /\ y.vmid = v /\ y.guest = "here"}})
    <3>. DEFINE S == {0} \cup {x.at : x \in {y \in history : y.ok /\ y.vmid = v /\ y.guest = "here"}}
    <3>1. LastHolds(v, last[v], history) /\ last[v] \in Nat
      BY <2>0 DEF BackupInv
    <3>2. \A x \in history : x.at \in 0..now
      BY <2>0 DEF BackupInv, RowHolds, BackupRows
    <3>3. last[v] \in S
      BY <3>1 DEF LastHolds, Success
    <3>4. \A y \in S : y <= last[v]
      BY <2>0, <3>1 DEF LastHolds, Success
    <3>5. S \in SUBSET (0..now) /\ S # {}
      BY <2>0, <3>2
    <3>. HIDE DEF S
    <3>6. Max(S) \in S /\ \A y \in S : y <= Max(S)
      BY <2>0, <3>5, MaxHolds
    <3>7. Max(S) \in Nat /\ Max(S) <= last[v] /\ last[v] <= Max(S)
      <4>1. Max(S) \in 0..now
        BY <3>5, <3>6
      <4>. QED  BY <2>0, <3>3, <3>4, <3>6, <4>1
    <3>8. last[v] = Max(S)
      BY <3>1, <3>7
    <3>. QED  BY <3>8 DEF S
  <2>. QED  BY <2>1, <2>2, <2>3, Zenon DEF HistoryIsExact
<1>. QED  BY <1>1, BackupInvariant, PTL

\* No result of a task that a sync has listed and could read is missing from
\* the Backups tab (_record_bulk_backup_job, _record_single_guest_backup).
THEOREM ReadBackupsRecorded == BackupSpec => []FinishedBackupsAreRecorded
<1>1. BackupInv => FinishedBackupsAreRecorded
  <2>. SUFFICES ASSUME BackupInv, NEW i \in read, NEW r \in Range(tasks[i].done), r.result # "cut"
                PROVE  Exists(IF tasks[i].of = Bulk THEN <<"task", i, r.vmid>> ELSE <<"task", i>>)
    BY DEF FinishedBackupsAreRecorded
  <2>1. ReadHolds(i, tasks, history)
    BY DEF BackupInv
  <2>2. tasks[i].done \in Seq(GuestResult)
    <3>1. tasks[i] \in BackupTask
      BY <2>1 DEF BackupInv, BackupTypes, ReadHolds
    <3>. QED  BY <3>1 DEF BackupTask
  <2>3. PICK k \in 1..Len(tasks[i].done) : r = tasks[i].done[k]
    BY <2>2 DEF Range
  <2>4. CASE tasks[i].of = Bulk
    BY <2>1, <2>3, <2>4 DEF ReadHolds, Recorded, Exists
  <2>5. CASE tasks[i].of # Bulk
    BY <2>1, <2>5 DEF ReadHolds, Exists
  <2>. QED  BY <2>4, <2>5
<1>. QED  BY <1>1, BackupInvariant, PTL
=============================================================================
