-------------------------- MODULE AlertLogProofs ---------------------------
(***************************************************************************)
(* Facts about the row operators and the severity streaks of AlertLog, for *)
(* the modules that prove something about a monitor.                       *)
(***************************************************************************)
EXTENDS AlertLog, TLAPS

\* The two numeric parameters are positive.
LEMMA Bounds == MaxOpen \in Nat /\ MaxOpen > 0 /\ Checks \in Nat /\ Checks > 0
BY AlertLogAssumption

\* The fields of a pair's rows have their types.
LEMMA RowFields ==
    ASSUME NEW r \in Rows
    PROVE  r.open \in 0..MaxOpen /\ r.told \in {"fine", "problem", "false recovery"}
<1>1. r.open \in 0..MaxOpen
  BY DEF Rows
<1>2. r.told \in {"fine", "problem", "false recovery"}
  BY DEF Rows
<1>. QED  BY <1>1, <1>2

\* ... and a record of such fields is a pair's rows.
LEMMA MakeRow ==
    ASSUME NEW o \in 0..MaxOpen, NEW t \in {"fine", "problem", "false recovery"}
    PROVE  [open |-> o, told |-> t] \in Rows
BY DEF Rows

\* Dispatching, resolving and recovering keep the type of the rows.
LEMMA RowOperators ==
    ASSUME NEW r \in Rows
    PROVE  /\ NoRows \in Rows /\ DispatchAlert(r) \in Rows
           /\ ResolveAlert(r) \in Rows /\ DispatchRecovery(r) \in Rows
<1>. DEFINE more == IF r.open < MaxOpen THEN r.open + 1 ELSE MaxOpen
            says == IF r.told = "problem" THEN "fine" ELSE "false recovery"
<1>1. 0 \in 0..MaxOpen
  BY Bounds
<1>2. r.open \in 0..MaxOpen
  BY RowFields
<1>9. more \in 0..MaxOpen
  BY <1>2, Bounds
<1>3. says \in {"fine", "problem", "false recovery"}
  OBVIOUS
<1>. HIDE DEF more, says
<1>4. NoRows \in Rows /\ ResolveAlert(r) \in Rows
  BY <1>1, RowFields DEF Rows, NoRows, ResolveAlert
<1>5. DispatchAlert(r) = [open |-> more, told |-> "problem"]
  BY DEF DispatchAlert, more
<1>6. DispatchAlert(r) \in Rows
  BY <1>5, <1>9, MakeRow
<1>7. DispatchRecovery(r) = [open |-> r.open, told |-> says]
  BY DEF DispatchRecovery, says
<1>8. DispatchRecovery(r) \in Rows
  BY <1>3, <1>2, <1>7, MakeRow
<1>. QED  BY <1>4, <1>6, <1>8

\* So does the edge trigger built from them (_handle_transition).
LEMMA HandleTransitionType ==
    ASSUME NEW r \in Rows, NEW was \in BOOLEAN, NEW is \in BOOLEAN, NEW tells \in BOOLEAN
    PROVE  HandleTransition(was, is, r, tells) \in Rows
<1>1. ResolveAlert(r) \in Rows
  BY RowOperators
<1>. QED  BY <1>1, RowOperators DEF HandleTransition

\* A transition announces no recovery that no alert preceded, provided a
\* condition that is on has been announced; and it keeps that so.
LEMMA HandleTransitionTold ==
    ASSUME NEW r \in Rows, NEW was \in BOOLEAN, NEW is \in BOOLEAN, NEW tells \in BOOLEAN,
           r.told # "false recovery", was => r.told = "problem"
    PROVE  /\ HandleTransition(was, is, r, tells).told # "false recovery"
           /\ is => HandleTransition(was, is, r, tells).told = "problem"
BY DEF HandleTransition, DispatchAlert, ResolveAlert, DispatchRecovery, Rows, HasOpenAlert

\* A transition that says nothing when the condition clears never lies.
LEMMA HandleTransitionSilent ==
    ASSUME NEW r \in Rows, NEW was \in BOOLEAN, NEW is \in BOOLEAN,
           r.told # "false recovery"
    PROVE  HandleTransition(was, is, r, FALSE).told # "false recovery"
<1>1. /\ DispatchAlert(r).told # "false recovery"
      /\ ResolveAlert(r).told # "false recovery"
  BY DEF DispatchAlert, ResolveAlert
<1>. QED  BY <1>1, Zenon DEF HandleTransition

\* At most one row is open, and only while the condition is on.
LEMMA HandleTransitionOpen ==
    ASSUME NEW r \in Rows, NEW was \in BOOLEAN, NEW is \in BOOLEAN, NEW tells \in BOOLEAN,
           r.open <= 1, r.open = 1 => was
    PROVE  LET n == HandleTransition(was, is, r, tells)
           IN  n.open <= 1 /\ (n.open = 1 => is)
<1>0. r.open \in 0..MaxOpen
  BY RowFields
<1>1. r.open \in Nat
  BY <1>0, Bounds
<1>2. r.open = 0 => DispatchAlert(r).open = 1
  BY Bounds DEF DispatchAlert
<1>3. ResolveAlert(r).open = 0 /\ DispatchRecovery(ResolveAlert(r)).open = 0
  BY DEF ResolveAlert, DispatchRecovery
<1>. QED  BY <1>1, <1>2, <1>3 DEF HandleTransition, HasOpenAlert

\* When the rows match the flag that was, one row open and the problem told
\* while it is set, then after the transition they match the new one.
LEMMA TransitionTracks ==
    ASSUME NEW was \in BOOLEAN, NEW is \in BOOLEAN, NEW r \in Rows,
           r.open = (IF was THEN 1 ELSE 0), r.told = (IF was THEN "problem" ELSE "fine")
    PROVE  LET rows == HandleTransition(was, is, r, TRUE)
           IN  /\ rows.open = IF is THEN 1 ELSE 0
               /\ rows.told = IF is THEN "problem" ELSE "fine"
<1>1. ~was => DispatchAlert(r).open = 1
  BY Bounds DEF DispatchAlert
<1>2. DispatchAlert(r).told = "problem"
  BY DEF DispatchAlert
<1>3. DispatchRecovery(ResolveAlert(r)).open = 0
  BY DEF DispatchRecovery, ResolveAlert
<1>4. was => DispatchRecovery(ResolveAlert(r)).told = "fine"
  BY DEF DispatchRecovery, ResolveAlert
<1>5. was => HasOpenAlert(r)
  BY DEF HasOpenAlert
<1>6. CASE is /\ ~was
  BY <1>1, <1>2, <1>6 DEF HandleTransition
<1>7. CASE was /\ ~is
  BY <1>3, <1>4, <1>7 DEF HandleTransition
<1>8. CASE was = is
  BY <1>5, <1>8 DEF HandleTransition
<1>. QED  BY <1>6, <1>7, <1>8

\* After a transition the condition is on only if an alert is open for it,
\* and an open alert means recipients were told last of the problem.
LEMMA TransitionAnnounces ==
    ASSUME NEW r \in Rows, NEW was \in BOOLEAN, NEW is \in BOOLEAN
    PROVE  LET n == HandleTransition(was, is, r, TRUE)
           IN  /\ is => HasOpenAlert(n)
               /\ (HasOpenAlert(r) => r.told = "problem") => (HasOpenAlert(n) => n.told = "problem")
               /\ ~is /\ ~was => n = r
<1>0. r.open \in 0..MaxOpen
  BY RowFields
<1>1. DispatchAlert(r).open > 0
  BY <1>0, Bounds DEF DispatchAlert
<1>2. HasOpenAlert(DispatchAlert(r))
  BY <1>1 DEF HasOpenAlert
<1>3. DispatchAlert(r).told = "problem"
  BY DEF DispatchAlert
<1>4. DispatchRecovery(ResolveAlert(r)).open = 0
  BY DEF DispatchRecovery, ResolveAlert
<1>5. ~HasOpenAlert(DispatchRecovery(ResolveAlert(r)))
  BY <1>4 DEF HasOpenAlert
<1>. QED  BY <1>2, <1>3, <1>5, Zenon DEF HandleTransition

\* The number of open rows is an integer.
LEMMA OpenIsInt ==
    ASSUME NEW r \in Rows
    PROVE  r.open \in Int
<1>1. r.open \in 0..MaxOpen
  BY RowFields
<1>. QED  BY <1>1

\* No open row, no open alert.
LEMMA NoneOpen ==
    ASSUME NEW r, r.open = 0
    PROVE  ~HasOpenAlert(r)
BY DEF HasOpenAlert

\* Resolving rows silently disturbs nothing.
LEMMA ResolveFacts ==
    ASSUME NEW r \in Rows
    PROVE  /\ ResolveAlert(r) \in Rows /\ ResolveAlert(r).told = r.told
           /\ ResolveAlert(r).open = 0 /\ ~HasOpenAlert(ResolveAlert(r))
BY RowOperators DEF ResolveAlert, HasOpenAlert

\* The streaks stay within confirmation_checks (_track_severity).
LEMMA TrackSeverityType ==
    ASSUME NEW st \in Streaks, NEW level \in Levels
    PROVE  TrackSeverity(st, level) \in Streaks
BY AlertLogAssumption DEF Streaks, TrackSeverity, Longer, Levels
=============================================================================
