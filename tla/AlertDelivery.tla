---------------------------- MODULE AlertDelivery ----------------------------
(***************************************************************************)
(* How alerts that dispatch.py only logs reach people: the two-minute      *)
(* batch of alerts/resource_batch.py and the three daily digests of        *)
(* alerts/digest.py.  A row is stamped (sent_at) when a monitor inserts it *)
(* and becomes visible when the monitor commits; both jobs select rows by  *)
(* their stamp.  The batch remembers its last run in Redis.                *)
(***************************************************************************)
EXTENDS Integers

CONSTANTS
    Alerts,    \* rows of Proxmox Alert Log
    Lookback,  \* _MAX_LOOKBACK_MINUTES, in ticks
    DayLength, \* ticks of a day; the hours below are offsets in it
    Morning, MiddayHour, EveningHour,
    MaxTime    \* bound on the clock

ASSUME DeliveryAssumption ==
    /\ Lookback \in Nat /\ MaxTime \in Nat /\ DayLength \in Nat \ {0}
    /\ 0 < Morning /\ Morning < MiddayHour /\ MiddayHour < EveningHour /\ EveningHour < DayLength

VARIABLES
    clock,    \* the time now
    row,      \* [Alerts -> Row]
    marker,   \* the last run of the batch as Redis has it, or NoMarker
    batch,    \* the batch that is under way
    ran,      \* when the latest midday or evening digest ran
    day,      \* the newest day that the morning digest has recapped
    wiped,    \* observer: Redis has lost the marker at some time
    gapStart  \* observer: where the latest window without a marker began

deliveryVars == <<clock, row, marker, batch, ran, day, wiped, gapStart>>

NoMarker == -1

\* kind: which job the alert type belongs to.  late: a batch whose window
\* holds the stamp had already read when the row was committed.  swept,
\* digested: batches and digests that had the row; mailed: messages sent.
Row == [kind: {"batched", "digest"}, state: {"none", "pending", "committed"},
        stamp: 0..MaxTime, late: BOOLEAN, swept: Nat, digested: Nat, mailed: Nat]

NoRow(k) == [kind |-> k, state |-> "none", stamp |-> 0, late |-> FALSE,
             swept |-> 0, digested |-> 0, mailed |-> 0]

Idle == [phase |-> "idle", start |-> 0, end |-> 0]

PassTime ==
    /\ clock < MaxTime
    /\ clock' = clock + 1
    /\ UNCHANGED <<row, marker, batch, ran, day, wiped, gapStart>>

-----------------------------------------------------------------------------
\* The monitors.

\* dispatch_alert or dispatch_recovery for a type that is not sent at once.
LogAlert(a) ==
    /\ row[a].state = "none"
    /\ row' = [row EXCEPT ![a].state = "pending", ![a].stamp = clock]
    /\ UNCHANGED <<clock, marker, batch, ran, day, wiped, gapStart>>

\* The monitor's transaction ends: the row becomes visible, or it is undone.
EndTransaction(a) ==
    /\ row[a].state = "pending"
    /\ \/ row' = [row EXCEPT ![a].state = "committed",
                  ![a].late = row[a].stamp < IF batch.phase = "window" THEN batch.start ELSE marker]
       \/ row' = [row EXCEPT ![a] = NoRow(row[a].kind)]
    /\ UNCHANGED <<clock, marker, batch, ran, day, wiped, gapStart>>

-----------------------------------------------------------------------------
\* send_resource_alert_batch

\* Mutant: the look-back is applied on top of the marker.
AlwaysLookBack == (IF marker = NoMarker THEN clock ELSE marker) - Lookback

\* The look-back applies when there is no marker; after a gap the marker is
\* still there, and the window goes back to it however long ago it was.
WindowStart == IF marker = NoMarker THEN clock - Lookback ELSE marker

\* Runs are minutes apart.  The window is fixed and the marker moves before
\* anything is read, so that a failed send is not repeated.
BatchStart ==
    /\ batch.phase = "idle" /\ marker < clock
    /\ batch' = [phase |-> "window", start |-> WindowStart, end |-> clock]
    /\ marker' = clock
    /\ gapStart' = IF marker = NoMarker THEN WindowStart ELSE gapStart
    /\ UNCHANGED <<clock, row, ran, day, wiped>>

\* Mutant: both ends are left out, so a stamp between two windows is in neither.
InsideWindow(r, from, to) == r.state = "committed" /\ from < r.stamp /\ r.stamp < to

\* SQL's BETWEEN holds at both ends.
InWindow(r, from, to) == r.state = "committed" /\ from <= r.stamp /\ r.stamp <= to

\* The rows are read and sent in one message; sending may fail, or there is
\* nobody to send to (no recipients, not a Production host).
BatchSend ==
    /\ batch.phase = "window"
    /\ \E ok \in BOOLEAN :
          row' = [a \in Alerts |->
            IF row[a].kind = "batched" /\ InWindow(row[a], batch.start, batch.end)
            THEN [row[a] EXCEPT !.swept = @ + 1, !.mailed = IF ok THEN @ + 1 ELSE @]
            ELSE row[a]]
    /\ batch' = Idle
    /\ UNCHANGED <<clock, marker, ran, day, wiped, gapStart>>

\* Redis is flushed or evicts the marker.
LoseMarker ==
    /\ marker # NoMarker /\ ~wiped
    /\ marker' = NoMarker
    /\ wiped' = TRUE
    /\ UNCHANGED <<clock, row, batch, ran, day, gapStart>>

-----------------------------------------------------------------------------
\* digest.py

DayStart(t) == (t \div DayLength) * DayLength

\* _send_health_digest; nothing is remembered.
SendHealthDigest(from, to) ==
    /\ row' = [a \in Alerts |->
         IF row[a].kind = "digest" /\ InWindow(row[a], from, to)
         THEN [row[a] EXCEPT !.digested = @ + 1] ELSE row[a]]
    /\ UNCHANGED <<clock, marker, batch, wiped, gapStart>>

\* Mutant: the recap starts at the morning hour of the previous day.
SendMorningFromMorning ==
    /\ clock - DayStart(clock) >= Morning
    /\ day < DayStart(clock) - DayLength
    /\ SendHealthDigest(DayStart(clock) - DayLength + Morning, DayStart(clock))
    /\ day' = DayStart(clock) - DayLength
    /\ UNCHANGED ran

\* send_health_digest_morning, at or after its hour.
SendMorning ==
    /\ clock - DayStart(clock) >= Morning
    /\ day < DayStart(clock) - DayLength
    /\ SendHealthDigest(DayStart(clock) - DayLength, DayStart(clock))
    /\ day' = DayStart(clock) - DayLength
    /\ UNCHANGED ran

\* send_health_digest_midday
SendMidday ==
    /\ clock - DayStart(clock) = MiddayHour /\ ran < clock
    /\ SendHealthDigest(DayStart(clock), DayStart(clock) + MiddayHour)
    /\ ran' = clock
    /\ UNCHANGED day

\* send_health_digest_evening
SendEvening ==
    /\ clock - DayStart(clock) = EveningHour /\ ran < clock
    /\ SendHealthDigest(DayStart(clock) + MiddayHour, DayStart(clock) + EveningHour)
    /\ ran' = clock
    /\ UNCHANGED day

-----------------------------------------------------------------------------
DeliveryInit ==
    /\ clock = 0
    /\ row \in [Alerts -> {NoRow("batched"), NoRow("digest")}]
    /\ marker = NoMarker /\ batch = Idle /\ wiped = FALSE
    /\ day = -2 * DayLength /\ ran = -1 /\ gapStart = 0

DeliveryNext ==
    \/ PassTime
    \/ \E a \in Alerts : LogAlert(a) \/ EndTransaction(a)
    \/ BatchStart \/ BatchSend \/ LoseMarker
    \/ SendMorning \/ SendMidday \/ SendEvening

DeliverySpec == DeliveryInit /\ [][DeliveryNext]_deliveryVars

-----------------------------------------------------------------------------
\* A logged alert is in no second batch, failed sends included, unless it
\* carries the very time at which one window ends and the next begins, or
\* Redis lost the marker.
BatchedOnce ==
    [][\A a \in Alerts : row'[a].swept > row[a].swept /\ row[a].swept > 0
          => wiped \/ row[a].stamp = batch.start]_deliveryVars

Covered(r) == marker # NoMarker /\ batch.phase = "idle" /\ r.stamp < marker

\* A row that was committed before the batch whose window holds its stamp had
\* read is in a batch; only a batch without a marker leaves a backlog behind.
TimelyAlertsAreBatched ==
    \A a \in Alerts : row[a].kind = "batched" /\ row[a].state = "committed" /\ Covered(row[a])
        => row[a].swept > 0 \/ row[a].late \/ row[a].stamp < gapStart

\* "How far back to look on the very first run, or after a gap (e.g. the
\* scheduler was down)": the backlog that a batch reads is no older than the
\* look-back.  The code caps the first run only.
BacklogIsCapped ==
    batch.phase = "window" => \A a \in Alerts :
        row[a].kind = "batched" /\ row[a].swept = 0 /\ InWindow(row[a], batch.start, batch.end)
            => row[a].stamp >= batch.end - Lookback

\* The morning recap holds every digest row of its day that was visible, so
\* what was logged after the evening digest, or committed too late for the
\* digest of its hours, is still reported.
DayIsRecapped ==
    [][day' # day => \A a \in Alerts :
          (row[a].kind = "digest" /\ row[a].state = "committed" /\ DayStart(row[a].stamp) = day')
              => row'[a].digested > row[a].digested]_deliveryVars
=============================================================================
