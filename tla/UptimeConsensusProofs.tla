----------------------- MODULE UptimeConsensusProofs -----------------------
(***************************************************************************)
(* The Site Down incident of a site, for any number of instances, sibling  *)
(* documents and alert_window_checks.                                      *)
(***************************************************************************)
EXTENDS UptimeConsensus, AlertLogProofs, SequenceTheorems, TLAPS

\* The three values of a pair's "told".
Said == {"fine", "problem", "false recovery"}

\* The documents have their type.
DocType == [state: {"none", "live", "deleted"}, active: BOOLEAN, critical: BOOLEAN]

-----------------------------------------------------------------------------
\* The siblings.

\* The alert is about a sibling, when there is one.
LEMMA FirstIsSibling ==
    ASSUME Siblings # {}
    PROVE  First \in Siblings /\ First \in Docs
<1>1. Siblings \in SUBSET Docs
  BY DEF Siblings
<1>2. \E d \in Siblings : \A e \in Siblings : d <= e
  BY <1>1, UptimeAssumption
<1>3. First \in Siblings
  BY <1>2 DEF First
<1>. QED  BY <1>1, <1>3

\* Siblings and their first are a matter of which documents exist.
LEMMA SameSiblings ==
    ASSUME \A d \in Docs : doc'[d].state = doc[d].state
    PROVE  Siblings' = Siblings /\ First' = First
<1>1. Siblings' = Siblings
  BY DEF Siblings
<1>. QED  BY <1>1 DEF First

\* The fields of a document.
LEMMA DocFields ==
    ASSUME TypeOK, NEW d \in Docs
    PROVE  /\ doc[d].state \in {"none", "live", "deleted"}
           /\ doc[d].active \in BOOLEAN /\ doc[d].critical \in BOOLEAN
BY DEF TypeOK

\* Writing is_critical changes nothing else of the siblings.
LEMMA SetCriticalFacts ==
    ASSUME TypeOK, NEW is \in BOOLEAN
    PROVE  /\ SetCritical(is) \in [Docs -> DocType]
           /\ \A d \in Docs : SetCritical(is)[d].state = doc[d].state
           /\ \A d \in Siblings : SetCritical(is)[d].critical = is
<1>1. doc \in [Docs -> DocType]
  BY DEF TypeOK, DocType
<1>. QED  BY <1>1 DEF SetCritical, DocType, Siblings

\* The vote is a Boolean.
LEMMA ConsensusType == Consensus \in BOOLEAN
BY DEF Consensus

-----------------------------------------------------------------------------
\* Type correctness.

\* A recorded check keeps the rows and the number that count in bounds.
LEMMA RecordCheckType ==
    ASSUME TypeOK, NEW i \in Instances, NEW up \in BOOLEAN, RecordCheck(i, up)
    PROVE  /\ checks' \in [Docs -> Seq(BOOLEAN)]
           /\ fresh' \in [Docs -> 0..Window]
           /\ \A d \in Docs : Len(checks'[d]) <= Window /\ fresh'[d] <= Len(checks'[d])
<1>1. /\ checks \in [Docs -> Seq(BOOLEAN)] /\ fresh \in [Docs -> 0..Window]
      /\ \A d \in Docs : Len(checks[d]) <= Window /\ fresh[d] <= Len(checks[d])
  BY DEF TypeOK
<1>2. CASE window = "active"
  BY <1>1, <1>2 DEF RecordCheck
<1>3. CASE window # "active"
  <2>. DEFINE On == {d \in Siblings : InstanceOf[d] = i}
  <2>1. /\ checks' = [d \in Docs |-> IF d \notin On THEN checks[d]
                      ELSE IF Len(checks[d]) < Window THEN Append(checks[d], up)
                      ELSE Append(Tail(checks[d]), up)]
        /\ fresh' = [d \in Docs |-> IF d \in On /\ fresh[d] < Window
                                    THEN fresh[d] + 1 ELSE fresh[d]]
    BY <1>3 DEF RecordCheck
  <2>. HIDE DEF On
  <2>2. \A d \in Docs : /\ checks'[d] \in Seq(BOOLEAN) /\ Len(checks'[d]) <= Window
                        /\ fresh'[d] \in 0..Window /\ fresh'[d] <= Len(checks'[d])
    <3>. SUFFICES ASSUME NEW d \in Docs
                  PROVE  /\ checks'[d] \in Seq(BOOLEAN) /\ Len(checks'[d]) <= Window
                         /\ fresh'[d] \in 0..Window /\ fresh'[d] <= Len(checks'[d])
      OBVIOUS
    <3>0. Window \in Nat /\ Window > 0
      BY UptimeAssumption
    <3>1. /\ checks[d] \in Seq(BOOLEAN) /\ Len(checks[d]) \in Nat /\ Len(checks[d]) <= Window
          /\ fresh[d] \in 0..Window /\ fresh[d] <= Len(checks[d])
      BY <1>1
    <3>2. CASE d \notin On
      BY <2>1, <3>1, <3>2
    <3>3. CASE d \in On /\ Len(checks[d]) < Window
      <4>1. checks'[d] = Append(checks[d], up) /\ fresh'[d] = fresh[d] + 1
        BY <2>1, <3>0, <3>1, <3>3
      <4>2. Append(checks[d], up) \in Seq(BOOLEAN) /\ Len(Append(checks[d], up)) = Len(checks[d]) + 1
        BY <3>1
      <4>. QED  BY <3>0, <3>1, <3>3, <4>1, <4>2
    <3>4. CASE d \in On /\ ~(Len(checks[d]) < Window)
      <4>. DEFINE old == Tail(checks[d])
      <4>1. checks'[d] = Append(old, up)
        BY <2>1, <3>4
      <4>2. old \in Seq(BOOLEAN) /\ Len(old) = Window - 1
        <5>1. Len(checks[d]) = Window
          BY <3>0, <3>1, <3>4
        <5>2. checks[d] # <<>>
          BY <3>0, <5>1
        <5>. QED  BY <3>0, <3>1, <5>1, <5>2, HeadTailProperties
      <4>3. fresh'[d] = IF fresh[d] < Window THEN fresh[d] + 1 ELSE fresh[d]
        BY <2>1, <3>4
      <4>. HIDE DEF old
      <4>4. Append(old, up) \in Seq(BOOLEAN) /\ Len(Append(old, up)) = Window
        BY <3>0, <4>2
      <4>. QED  BY <3>0, <3>1, <4>1, <4>3, <4>4
    <3>. QED  BY <3>2, <3>3, <3>4
  <2>. QED  BY <2>1, <2>2
<1>. QED  BY <1>2, <1>3

\* What a reconciliation that has siblings to vote does.
LEMMA ReconcileRows ==
    ASSUME TypeOK, Siblings # {}
    PROVE  LET rows == HandleTransition(doc[First].critical, Consensus,
                                        [open |-> log[First], told |-> told], TRUE)
           IN  rows.open \in 0..MaxOpen /\ rows.told \in Said
<1>. DEFINE r == [open |-> log[First], told |-> told]
<1>1. First \in Docs
  BY FirstIsSibling
<1>2. log[First] \in 0..MaxOpen
  BY <1>1 DEF TypeOK, Counts
<1>3. told \in {"fine", "problem", "false recovery"}
  BY DEF TypeOK
<1>4. r \in Rows
  BY <1>2, <1>3, MakeRow
<1>5. doc[First].critical \in BOOLEAN
  BY <1>1, DocFields
<1>. HIDE DEF r
<1>6. HandleTransition(doc[First].critical, Consensus, r, TRUE) \in Rows
  BY <1>4, <1>5, ConsensusType, HandleTransitionType
<1>. QED  BY <1>6, RowFields DEF r, Said

\* The initial states have their types.
LEMMA InitType == Init => TypeOK
<1>. SUFFICES ASSUME Init PROVE TypeOK
  OBVIOUS
<1>1. 0 \in 0..MaxOpen /\ 0 \in 0..Window
  BY UptimeAssumption, Bounds
<1>2. log \in Counts /\ saved \in Counts /\ fresh \in [Docs -> 0..Window]
  BY <1>1 DEF Init, Counts
<1>3. checks \in [Docs -> Seq(BOOLEAN)] /\ \A d \in Docs : Len(checks[d]) = 0 /\ fresh[d] = 0
  BY EmptySeq DEF Init
<1>4. \A d \in Docs : Len(checks[d]) <= Window /\ fresh[d] <= Len(checks[d])
  BY <1>3, UptimeAssumption
<1>5. doc \in [Docs -> DocType]
  BY DEF Init, DocType
<1>. QED  BY <1>2, <1>3, <1>4, <1>5 DEF Init, TypeOK, DocType

\* Every step keeps the types.
LEMMA TypeStep == TypeOK /\ [Next]_vars => TypeOK'
<1>. SUFFICES ASSUME TypeOK, [Next]_vars PROVE TypeOK'
  OBVIOUS
<1>0. /\ enabled \in SUBSET Instances /\ doc \in [Docs -> DocType]
      /\ checks \in [Docs -> Seq(BOOLEAN)] /\ fresh \in [Docs -> 0..Window]
      /\ \A d \in Docs : Len(checks[d]) <= Window /\ fresh[d] <= Len(checks[d])
      /\ window \in {"none", "active", "ended"}
      /\ phase \in {"sleeping", "polling", "reconciled", "stopped"}
      /\ todo \in SUBSET Instances
      /\ log \in Counts /\ saved \in Counts
      /\ told \in Said /\ disturbed \in BOOLEAN
  BY DEF TypeOK, DocType, Said
<1>. DEFINE Same == /\ enabled' \in SUBSET Instances /\ doc' \in [Docs -> DocType]
                    /\ checks' \in [Docs -> Seq(BOOLEAN)] /\ fresh' \in [Docs -> 0..Window]
                    /\ \A d \in Docs : Len(checks'[d]) <= Window /\ fresh'[d] <= Len(checks'[d])
                    /\ window' \in {"none", "active", "ended"}
                    /\ phase' \in {"sleeping", "polling", "reconciled", "stopped"}
                    /\ todo' \in SUBSET Instances
                    /\ log' \in Counts /\ saved' \in Counts
                    /\ told' \in Said /\ disturbed' \in BOOLEAN
<1>. SUFFICES Same
  BY DEF TypeOK, DocType, Said
<1>1. CASE BeginCycle
  BY <1>0, <1>1 DEF BeginCycle
<1>2. ASSUME NEW i \in Instances, PollInstance(i)
      PROVE  Same
  <2>1. PICK up \in BOOLEAN : RecordCheck(i, up)
    BY <1>2 DEF PollInstance
  <2>. QED  BY <1>0, <1>2, <2>1, RecordCheckType DEF PollInstance
<1>3. ASSUME NEW i \in Instances, PollNoReading(i) \/ PollSkipped(i) \/ PollRaises(i)
      PROVE  Same
  BY <1>0, <1>3 DEF PollNoReading, PollSkipped, PollRaises
<1>4. CASE Reconcile
  <2>1. AfterCycle \in {"sleeping", "polling", "reconciled", "stopped"}
    BY DEF AfterCycle
  <2>2. /\ phase' = AfterCycle /\ enabled' = enabled /\ checks' = checks /\ fresh' = fresh
        /\ window' = window /\ todo' = todo /\ disturbed' = disturbed
    BY <1>4 DEF Reconcile
  <2>3. doc' \in [Docs -> DocType] /\ log' \in Counts /\ saved' \in Counts /\ told' \in Said
    <3>1. CASE window = "active" \/ Siblings = {}
      <4>1. UNCHANGED <<doc, log, told>> /\ (saved' = log \/ saved' = saved)
        BY <1>4, <3>1 DEF Reconcile
      <4>. QED  BY <1>0, <4>1
    <3>2. CASE ~(window = "active" \/ Siblings = {})
      <4>. DEFINE rows == HandleTransition(doc[First].critical, Consensus,
                                           [open |-> log[First], told |-> told], TRUE)
      <4>1. rows.open \in 0..MaxOpen /\ rows.told \in Said
        BY <3>2, ReconcileRows
      <4>2. /\ doc' = SetCritical(Consensus) \/ doc' = doc
            /\ log' = [log EXCEPT ![First] = rows.open]
            /\ told' = rows.told
            /\ saved' \in {log', log, saved}
        BY <1>4, <3>2 DEF Reconcile
      <4>. HIDE DEF rows
      <4>3. log' \in Counts
        BY <1>0, <4>1, <4>2 DEF Counts
      <4>4. doc' \in [Docs -> DocType]
        BY <1>0, <4>2, ConsensusType, SetCriticalFacts
      <4>. QED  BY <1>0, <4>1, <4>2, <4>3, <4>4
    <3>. QED  BY <3>1, <3>2
  <2>. QED  BY <1>0, <2>1, <2>2, <2>3
<1>5. CASE ReconcileCutOff
  <2>1. doc' \in [Docs -> DocType]
    BY <1>5, ConsensusType, SetCriticalFacts DEF ReconcileCutOff
  <2>. QED  BY <1>0, <1>5, <2>1 DEF ReconcileCutOff
<1>6. CASE CycleDies \/ RunEnds \/ Restart
  BY <1>0, <1>6 DEF CycleDies, RunEnds, Restart
<1>7. ASSUME NEW d \in Docs, CreateDoc(d)
      PROVE  Same
  <2>1. doc' \in [Docs -> DocType]
    BY <1>0, <1>7 DEF CreateDoc, DocType
  <2>2. disturbed' \in BOOLEAN
    BY <1>0, <1>7 DEF CreateDoc, Incident
  <2>. QED  BY <1>0, <1>7, <2>1, <2>2 DEF CreateDoc
<1>8. ASSUME NEW d \in Docs, DeleteDoc(d)
      PROVE  Same
  <2>1. doc' \in [Docs -> DocType]
    BY <1>0, <1>8 DEF DeleteDoc, DocType
  <2>2. disturbed' \in BOOLEAN
    BY <1>0, <1>8 DEF DeleteDoc, Incident
  <2>3. window' \in {"none", "active", "ended"}
    BY <1>0, <1>8 DEF DeleteDoc
  <2>4. /\ checks' = [checks EXCEPT ![d] = <<>>] /\ fresh' = [fresh EXCEPT ![d] = 0]
    BY <1>8 DEF DeleteDoc
  <2>5. <<>> \in Seq(BOOLEAN) /\ Len(<<>>) = 0 /\ Window \in Nat
    BY UptimeAssumption
  <2>6. checks' \in [Docs -> Seq(BOOLEAN)] /\ fresh' \in [Docs -> 0..Window]
    BY <1>0, <2>4, <2>5
  <2>7. \A e \in Docs : Len(checks'[e]) <= Window /\ fresh'[e] <= Len(checks'[e])
    BY <1>0, <2>4, <2>5
  <2>. QED  BY <1>0, <1>8, <2>1, <2>2, <2>3, <2>6, <2>7 DEF DeleteDoc
<1>9. ASSUME NEW d \in Docs, SetActive(d)
      PROVE  Same
  <2>1. doc' \in [Docs -> DocType]
    BY <1>0, <1>9 DEF SetActive, DocType
  <2>. QED  BY <1>0, <1>9, <2>1 DEF SetActive
<1>10. ASSUME NEW i \in Instances, ToggleInstance(i)
       PROVE  Same
  BY <1>0, <1>10 DEF ToggleInstance
<1>11. CASE WindowStarts \/ WindowEnds \/ WindowForgotten
  <2>1. Window \in Nat /\ \A d \in Docs : Len(checks[d]) \in Nat
    BY <1>0, UptimeAssumption
  <2>2. fresh' \in [Docs -> 0..Window] /\ \A d \in Docs : fresh'[d] <= Len(checks[d])
    BY <1>0, <1>11, <2>1 DEF WindowStarts, WindowEnds, WindowForgotten
  <2>. QED  BY <1>0, <1>11, <2>2 DEF WindowStarts, WindowEnds, WindowForgotten
<1>12. CASE UNCHANGED vars
  BY <1>0, <1>12 DEF vars
<1>. HIDE DEF Same
<1>. QED  BY <1>1, <1>2, <1>3, <1>4, <1>5, <1>6, <1>7, <1>8, <1>9, <1>10, <1>11, <1>12
          DEF Next, Poll, Environment

-----------------------------------------------------------------------------
\* The incident.

\* What IncidentTracksSite says of an undisturbed site, for one value of its
\* variables.
Tracks == /\ \A d, e \in Siblings : doc[d].critical = doc[e].critical
          /\ \A d \in Docs : log[d] = IF d \in Siblings /\ d = First /\ doc[d].critical THEN 1 ELSE 0
          /\ told = IF \E d \in Siblings : doc[d].critical THEN "problem" ELSE "fine"

\* An undisturbed site without an incident has no flag set and no row open.
LEMMA NoIncident ==
    ASSUME TypeOK, Tracks, ~Incident
    PROVE  /\ \A d \in Siblings : ~doc[d].critical
           /\ \A d \in Docs : log[d] = 0
           /\ told = "fine"
<1>1. \A d \in Siblings : d \in Docs
  BY DEF Siblings
<1>2. \A d \in Siblings : ~doc[d].critical
  BY <1>1, Zenon DEF Incident
<1>3. \A d \in Docs : log[d] = 0
  BY <1>2 DEF Tracks
<1>4. told = "fine"
  BY <1>2, Zenon DEF Tracks
<1>. QED  BY <1>2, <1>3, <1>4

\* A step that leaves the flags, the rows and what was told alone, and does
\* not change which documents exist, keeps the incident as it is.
LEMMA TracksKept ==
    ASSUME Tracks, log' = log, told' = told,
           \A d \in Docs : doc'[d].state = doc[d].state /\ doc'[d].critical = doc[d].critical
    PROVE  Tracks'
<1>1. Siblings' = Siblings /\ First' = First
  BY SameSiblings
<1>2. \A d \in Siblings : d \in Docs /\ doc'[d].critical = doc[d].critical
  BY DEF Siblings
<1>3. \A d, e \in Siblings' : doc'[d].critical = doc'[e].critical
  BY <1>1, <1>2 DEF Tracks
<1>4. \A d \in Docs : log'[d] = IF d \in Siblings' /\ d = First' /\ doc'[d].critical THEN 1 ELSE 0
  BY <1>1 DEF Tracks
<1>5. told' = IF \E d \in Siblings' : doc'[d].critical THEN "problem" ELSE "fine"
  BY <1>1, <1>2, Zenon DEF Tracks
<1>. QED  BY <1>3, <1>4, <1>5 DEF Tracks

\* A reconciliation that runs to its end.
LEMMA ReconcileTracks ==
    ASSUME TypeOK, Tracks, Reconcile
    PROVE  Tracks'
<1>1. CASE window = "active" \/ Siblings = {}
  <2>1. doc' = doc /\ log' = log /\ told' = told
    BY <1>1 DEF Reconcile
  <2>. QED  BY <2>1, TracksKept
<1>2. CASE ~(window = "active" \/ Siblings = {})
  <2>. DEFINE was == doc[First].critical
              r == [open |-> log[First], told |-> told]
              rows == HandleTransition(was, Consensus, r, TRUE)
  <2>1. /\ doc' = IF Consensus # was THEN SetCritical(Consensus) ELSE doc
        /\ log' = [log EXCEPT ![First] = rows.open]
        /\ told' = rows.told
    BY <1>2 DEF Reconcile
  <2>2. First \in Siblings /\ First \in Docs
    BY <1>2, FirstIsSibling
  <2>3. was \in BOOLEAN /\ Consensus \in BOOLEAN
    BY <2>2, DocFields, ConsensusType
  <2>4. \A d \in Siblings : doc[d].critical = was
    BY <2>2 DEF Tracks
  <2>5. r \in Rows
    <3>1. log[First] \in 0..MaxOpen
      BY <2>2 DEF TypeOK, Counts
    <3>2. told \in {"fine", "problem", "false recovery"}
      BY DEF TypeOK
    <3>. QED  BY <3>1, <3>2, MakeRow
  <2>6. log[First] = IF was THEN 1 ELSE 0
    BY <2>2 DEF Tracks
  <2>7. told = IF was THEN "problem" ELSE "fine"
    BY <2>2, <2>4, Zenon DEF Tracks
  <2>8. r.open = (IF was THEN 1 ELSE 0) /\ r.told = (IF was THEN "problem" ELSE "fine")
    <3>1. r.open = log[First] /\ r.told = told
      OBVIOUS
    <3>. QED  BY <2>6, <2>7, <3>1, Zenon
  <2>. HIDE DEF r
  <2>9. rows.open = (IF Consensus THEN 1 ELSE 0) /\ rows.told = IF Consensus THEN "problem" ELSE "fine"
    <3>. HIDE DEF was
    <3>. QED  BY <2>3, <2>5, <2>8, TransitionTracks, Zenon
  <2>. HIDE DEF rows
  <2>10. /\ \A d \in Docs : doc'[d].state = doc[d].state
         /\ \A d \in Siblings : doc'[d].critical = Consensus
    <3>1. CASE Consensus # was
      BY <2>1, <2>3, <3>1, SetCriticalFacts
    <3>2. CASE Consensus = was
      BY <2>1, <2>4, <3>2
    <3>. QED  BY <3>1, <3>2
  <2>. HIDE DEF was
  <2>11. Siblings' = Siblings /\ First' = First
    BY <2>10, SameSiblings
  <2>12. \A d, e \in Siblings' : doc'[d].critical = doc'[e].critical
    BY <2>10, <2>11
  <2>13. \A d \in Docs : log'[d] = IF d \in Siblings' /\ d = First' /\ doc'[d].critical THEN 1 ELSE 0
    <3>. SUFFICES ASSUME NEW d \in Docs
                  PROVE  log'[d] = IF d \in Siblings /\ d = First /\ doc'[d].critical THEN 1 ELSE 0
      BY <2>11
    <3>1. log \in [Docs -> 0..MaxOpen]
      BY DEF TypeOK, Counts
    <3>2. CASE d = First
      BY <2>1, <2>2, <2>9, <2>10, <3>1, <3>2
    <3>3. CASE d # First
      <4>1. log'[d] = log[d]
        BY <2>1, <3>1, <3>3
      <4>. QED  BY <3>3, <4>1 DEF Tracks
    <3>. QED  BY <3>2, <3>3
  <2>14. told' = IF \E d \in Siblings' : doc'[d].critical THEN "problem" ELSE "fine"
    BY <2>1, <2>2, <2>9, <2>10, <2>11, Zenon
  <2>. QED  BY <2>12, <2>13, <2>14 DEF Tracks
<1>. QED  BY <1>1, <1>2

\* A document that comes or goes while there is no incident.
LEMMA SiblingsChange ==
    ASSUME TypeOK, TypeOK', Tracks, ~Incident, log' = log, told' = told,
           \A d \in Siblings' : doc'[d].critical = FALSE \/ (d \in Siblings /\ doc'[d] = doc[d])
    PROVE  Tracks'
<1>1. /\ \A d \in Siblings : ~doc[d].critical
      /\ \A d \in Docs : log[d] = 0
      /\ told = "fine"
  BY NoIncident
<1>2. \A d \in Siblings' : ~doc'[d].critical
  BY <1>1
<1>3. \A d \in Siblings' : d \in Docs
  BY DEF Siblings
<1>4. \A d \in Siblings' : doc'[d].critical = FALSE
  <2>1. \A d \in Docs : doc'[d].critical \in BOOLEAN
    BY DEF TypeOK
  <2>. QED  BY <1>2, <1>3, <2>1
<1>5. \A d, e \in Siblings' : doc'[d].critical = doc'[e].critical
  BY <1>4
<1>6. \A d \in Docs : log'[d] = IF d \in Siblings' /\ d = First' /\ doc'[d].critical THEN 1 ELSE 0
  BY <1>1, <1>2
<1>7. told' = IF \E d \in Siblings' : doc'[d].critical THEN "problem" ELSE "fine"
  BY <1>1, <1>2, Zenon
<1>. QED  BY <1>5, <1>6, <1>7 DEF Tracks

\* Every step that leaves the site undisturbed keeps the incident right.
LEMMA TracksStep ==
    ASSUME TypeOK, TypeOK', ~disturbed => Tracks, [Next]_vars, ~disturbed'
    PROVE  Tracks'
<1>0. doc \in [Docs -> DocType]
  BY DEF TypeOK, DocType
<1>1. CASE BeginCycle
  BY <1>1, TracksKept DEF BeginCycle
<1>2. ASSUME NEW i \in Instances, Poll(i)
      PROVE  Tracks'
  <2>1. doc' = doc /\ told' = told /\ ~disturbed /\ log' = log
    <3>1. CASE PollRaises(i)
      BY <3>1, Zenon DEF PollRaises
    <3>2. CASE PollInstance(i) \/ PollNoReading(i) \/ PollSkipped(i)
      BY <3>2 DEF PollInstance, PollNoReading, PollSkipped
    <3>. QED  BY <1>2, <3>1, <3>2 DEF Poll
  <2>. QED  BY <2>1, TracksKept
<1>3. CASE Reconcile
  <2>1. ~disturbed
    BY <1>3 DEF Reconcile
  <2>. QED  BY <1>3, <2>1, ReconcileTracks
<1>4. CASE ReconcileCutOff
  BY <1>4 DEF ReconcileCutOff
<1>5. CASE CycleDies \/ RunEnds \/ Restart
  <2>1. doc' = doc /\ told' = told /\ ~disturbed /\ log' = log
    <3>1. CASE CycleDies
      BY <3>1, Zenon DEF CycleDies
    <3>2. CASE RunEnds \/ Restart
      BY <3>2 DEF RunEnds, Restart
    <3>. QED  BY <1>5, <3>1, <3>2
  <2>. QED  BY <2>1, TracksKept
<1>6. ASSUME NEW d \in Docs, CreateDoc(d) \/ DeleteDoc(d)
      PROVE  Tracks'
  <2>1. ~disturbed /\ ~Incident /\ log' = log /\ told' = told
    BY <1>6 DEF CreateDoc, DeleteDoc
  <2>2. PICK new : doc' = [doc EXCEPT ![d] = new] /\ new.critical = FALSE
    <3>1. CASE CreateDoc(d)
      <4>1. PICK active \in BOOLEAN :
              doc' = [doc EXCEPT ![d] = [state |-> "live", active |-> active, critical |-> FALSE]]
        BY <3>1 DEF CreateDoc
      <4>2. [state |-> "live", active |-> active, critical |-> FALSE].critical = FALSE
        OBVIOUS
      <4>. QED  BY <4>1, <4>2, Zenon
    <3>2. CASE DeleteDoc(d)
      <4>1. doc' = [doc EXCEPT ![d] = [state |-> "deleted", active |-> FALSE, critical |-> FALSE]]
        BY <3>2 DEF DeleteDoc
      <4>2. [state |-> "deleted", active |-> FALSE, critical |-> FALSE].critical = FALSE
        OBVIOUS
      <4>. QED  BY <4>1, <4>2, Zenon
    <3>. QED  BY <1>6, <3>1, <3>2
  <2>3. \A e \in Docs : e # d => doc'[e] = doc[e]
    BY <1>0, <2>2
  <2>4. doc'[d].critical = FALSE
    BY <1>0, <2>2
  <2>5. ASSUME NEW e \in Siblings'
        PROVE  doc'[e].critical = FALSE \/ (e \in Siblings /\ doc'[e] = doc[e])
    BY <2>3, <2>4 DEF Siblings
  <2>. QED  BY <2>1, <2>5, SiblingsChange
<1>7. ASSUME NEW d \in Docs, SetActive(d)
      PROVE  Tracks'
  <2>1. ~disturbed /\ log' = log /\ told' = told
    BY <1>7 DEF SetActive
  <2>2. \A e \in Docs : doc'[e].state = doc[e].state /\ doc'[e].critical = doc[e].critical
    BY <1>0, <1>7 DEF SetActive, DocType
  <2>. QED  BY <2>1, <2>2, TracksKept
<1>8. ASSUME NEW i \in Instances, ToggleInstance(i)
      PROVE  Tracks'
  BY <1>8, TracksKept DEF ToggleInstance
<1>9. CASE WindowStarts \/ WindowEnds \/ WindowForgotten
  BY <1>9, TracksKept DEF WindowStarts, WindowEnds, WindowForgotten
<1>10. CASE UNCHANGED vars
  BY <1>10, TracksKept DEF vars
<1>. QED  BY <1>1, <1>2, <1>3, <1>4, <1>5, <1>6, <1>7, <1>8, <1>9, <1>10
          DEF Next, Environment

-----------------------------------------------------------------------------
\* The variables of the uptime poll cycle stay in their types; in particular
\* an incident never piles up open rows past the bound, nor goes below none.
THEOREM TypeCorrect == Spec => []TypeOK
BY InitType, TypeStep, PTL DEF Spec

\* For any instances, siblings and window length: until an announcement is cut
\* off or the set of siblings changes during an incident, is_critical is the
\* same on all siblings, exactly one Site Down row is open while it is set and
\* none otherwise, and recipients were last told just that
\* (_reconcile_site_criticality with _handle_transition).
THEOREM IncidentsTrackSites == Spec => []IncidentTracksSite
<1>. DEFINE IInv == TypeOK /\ (~disturbed => Tracks)
<1>1. Init => IInv
  <2>. SUFFICES ASSUME Init PROVE IInv
    OBVIOUS
  <2>1. TypeOK
    BY InitType
  <2>2. Siblings = {}
    BY DEF Init, Siblings
  <2>. QED  BY <2>1, <2>2 DEF Init, Tracks
<1>2. IInv /\ [Next]_vars => IInv'
  BY TypeStep, TracksStep
<1>3. IInv => IncidentTracksSite
  BY Zenon DEF IncidentTracksSite, Tracks
<1>. QED  BY <1>1, <1>2, <1>3, PTL DEF Spec

-----------------------------------------------------------------------------
\* The self-healing.

\* Only a reconciliation that runs to its end takes the loop from polling to
\* the end of its cycle.
LEMMA OnlyReconcileEnds ==
    ASSUME [Next]_vars, phase = "polling", phase' = "reconciled"
    PROVE  Reconcile
<1>1. ASSUME NEW i \in Instances, Poll(i) PROVE phase' = phase
  BY <1>1 DEF Poll, PollInstance, PollNoReading, PollSkipped, PollRaises
<1>2. CASE Environment
  BY <1>2 DEF Environment, CreateDoc, DeleteDoc, SetActive, ToggleInstance,
              WindowStarts, WindowEnds, WindowForgotten
<1>3. CASE BeginCycle \/ ReconcileCutOff \/ CycleDies \/ RunEnds \/ Restart \/ UNCHANGED vars
  BY <1>3 DEF BeginCycle, ReconcileCutOff, CycleDies, RunEnds, Restart, vars
<1>. QED  BY <1>1, <1>2, <1>3 DEF Next

\* It leaves the first sibling's flag equal to the vote, and a set flag with an
\* open row, whatever the rows were before.
LEMMA ReconcileHeals ==
    ASSUME TypeOK, Reconcile, window # "active", Siblings # {}
    PROVE  doc'[First].critical => log'[First] > 0
<1>. DEFINE was == doc[First].critical
            r == [open |-> log[First], told |-> told]
            rows == HandleTransition(was, Consensus, r, TRUE)
<1>1. /\ doc' = IF Consensus # was THEN SetCritical(Consensus) ELSE doc
      /\ log' = [log EXCEPT ![First] = rows.open]
  BY DEF Reconcile
<1>2. First \in Siblings /\ First \in Docs
  BY FirstIsSibling
<1>3. was \in BOOLEAN
  BY <1>2, DocFields
<1>4. doc'[First].critical = Consensus
  BY <1>1, <1>2, <1>3, ConsensusType, SetCriticalFacts
<1>5. r \in Rows
  BY <1>2, MakeRow DEF TypeOK, Counts
<1>6. log'[First] = rows.open
  BY <1>1, <1>2 DEF TypeOK, Counts
<1>. HIDE DEF was, r
<1>7. Consensus => HasOpenAlert(rows)
  BY <1>3, <1>5, ConsensusType, TransitionAnnounces
<1>. QED  BY <1>4, <1>6, <1>7 DEF HasOpenAlert

\* However many rows were rolled back or cut off, the next reconciliation that
\* ends leaves no critical site without an open alert, for any number of
\* instances and siblings (_reconcile_site_criticality, _handle_transition).
THEOREM ReconcileAlwaysAnnounces == Spec => ReconcileAnnounces
<1>1. TypeOK /\ [Next]_vars =>
        [phase = "polling" /\ phase' = "reconciled" /\ window # "active" /\ Siblings # {}
         => (doc'[First].critical => log'[First] > 0)]_vars
  BY OnlyReconcileEnds, ReconcileHeals
<1>. QED  BY <1>1, TypeCorrect, PTL DEF Spec, ReconcileAnnounces
=============================================================================
