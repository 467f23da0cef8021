------------------------------ MODULE AlertLog ------------------------------
(***************************************************************************)
(* Incident bookkeeping shared by every monitor: what alerts/dispatch.py   *)
(* does to the Proxmox Alert Log rows of one (document, alert type) pair,  *)
(* and the edge trigger and the two-phase severity of tasks/poller.py that *)
(* decide when it does.                                                    *)
(*                                                                         *)
(* Rows are abstracted to what later decisions and the properties can tell *)
(* apart: how many are unresolved, and what recipients were told last.     *)
(***************************************************************************)
EXTENDS Integers

CONSTANTS
    Checks,   \* confirmation_checks
    MaxOpen   \* bound on the number of unresolved rows that are told apart

ASSUME AlertLogAssumption == Checks \in Nat \ {0} /\ MaxOpen \in Nat \ {0}

-----------------------------------------------------------------------------
\* The rows of one (document, alert type) pair.

\* told: what the last notification about the pair said.  "false recovery" is
\* a recovery that no alert preceded.
Rows == [open: 0..MaxOpen, told: {"fine", "problem", "false recovery"}]

NoRows == [open |-> 0, told |-> "fine"]

\* dispatch_alert: one more unresolved row.
DispatchAlert(r) ==
    [open |-> IF r.open < MaxOpen THEN r.open + 1 ELSE MaxOpen, told |-> "problem"]

\* Mutant: resolves one row instead of all of them.
ResolveOne(r) == [open |-> r.open - 1, told |-> r.told]

\* resolve_alert: every unresolved row of the pair is resolved, silently.
ResolveAlert(r) == [open |-> 0, told |-> r.told]

\* dispatch_recovery: a row of its own, resolved from the start.
DispatchRecovery(r) ==
    [open |-> r.open, told |-> IF r.told = "problem" THEN "fine" ELSE "false recovery"]

HasOpenAlert(r) == r.open > 0

\* Mutant: a pure edge trigger, without the self-healing branch.
HandleEdgeOnly(was, is, r, tells) ==
    IF is /\ ~was THEN DispatchAlert(r)
    ELSE IF was /\ ~is THEN IF tells THEN DispatchRecovery(ResolveAlert(r)) ELSE ResolveAlert(r)
    ELSE r

\* _handle_transition: alert on False->True, resolve on True->False (and say
\* so when there is a recovery message), and raise again a condition that is
\* still on although nothing is open for it.
HandleTransition(was, is, r, tells) ==
    IF is /\ ~was THEN DispatchAlert(r)
    ELSE IF was /\ ~is THEN IF tells THEN DispatchRecovery(ResolveAlert(r)) ELSE ResolveAlert(r)
    ELSE IF is /\ was /\ ~HasOpenAlert(r) THEN DispatchAlert(r)
    ELSE r

-----------------------------------------------------------------------------
\* Two-phase severity.

\* A reading, placed against warning_percent and critical_percent.
Levels == {"low", "warn", "crit"}

\* The streaks stop counting at Checks: no test tells a longer one apart.
Streaks == [critical: 0..Checks, warning: 0..Checks]

NoStreak == [critical |-> 0, warning |-> 0]

Longer(n) == IF n < Checks THEN n + 1 ELSE Checks

\* Mutant: a dip below the critical line does not restart the count.
TrackWithoutReset(st, level) ==
    [critical |-> IF level = "crit" THEN Longer(st.critical) ELSE st.critical,
     warning  |-> IF level # "low" THEN Longer(st.warning) ELSE 0]

\* _track_severity: both streaks restart on the first reading below their
\* line; a critical reading counts for the warning streak as well.
TrackSeverity(st, level) ==
    [critical |-> IF level = "crit" THEN Longer(st.critical) ELSE 0,
     warning  |-> IF level # "low" THEN Longer(st.warning) ELSE 0]

IsCritical(st) == st.critical >= Checks

IsWarning(st) == st.warning >= Checks /\ ~IsCritical(st)
=============================================================================
