----------------------------- MODULE LogMonitor -----------------------------
(***************************************************************************)
(* tasks/log_monitor.py and the part of log_monitor/api.py that writes:    *)
(* recurring-error incidents per signature, decided from ClickHouse error  *)
(* counts, while users resolve and ignore errors.                          *)
(*                                                                         *)
(* A check is one transaction: what it reads of Recurring Error and of the *)
(* alert log is a snapshot taken before ClickHouse answers; doc.save       *)
(* refuses a document that somebody else has saved since, set_value does   *)
(* not.                                                                    *)
(***************************************************************************)
EXTENDS AlertLog, FiniteSets

CONSTANTS
    Signatures,  \* error signatures
    Threshold,   \* occurrence_threshold
    MaxGroups    \* _MAX_GROUPS

ASSUME LogMonitorAssumption ==
    IsFiniteSet(Signatures) /\ Threshold \in Nat \ {0} /\ MaxGroups \in Nat \ {0}

VARIABLES
    seen,     \* [Signatures -> error rows of the window, up to Threshold]
    counted,  \* [Signatures -> those of them after the resolution]
    error,    \* [Signatures -> Errors], its Recurring Error
    errRows,  \* [Signatures -> its rows of the alert log]
    check     \* the check under way

logVars == <<seen, counted, error, errRows, check>>

Errors == [critical: BOOLEAN, ignored: BOOLEAN]

NoCheck == [phase |-> "idle", error |-> <<>>, rows |-> <<>>, over |-> {}, breaching |-> {}, touched |-> {}]

AtMost(n) == IF n < Threshold THEN n ELSE Threshold

-----------------------------------------------------------------------------
\* ClickHouse.

ErrorOccurs(s) ==
    /\ seen' = [seen EXCEPT ![s] = AtMost(@ + 1)]
    /\ counted' = [counted EXCEPT ![s] = AtMost(@ + 1)]
    /\ UNCHANGED <<error, errRows, check>>

\* The oldest row leaves the trailing window.
ErrorAges(s) ==
    /\ seen[s] > 0
    /\ seen' = [seen EXCEPT ![s] = @ - 1]
    /\ counted' = [counted EXCEPT ![s] = IF @ > seen[s] - 1 THEN seen[s] - 1 ELSE @]
    /\ UNCHANGED <<error, errRows, check>>

\* save_site_alias: a signature is a hash of the site's shown name, so all the
\* rows of s move to t, those from before the resolution of s included; n of
\* them are from after the resolution of t.
SaveSiteAlias(s, t) ==
    /\ s # t
    /\ seen' = [seen EXCEPT ![s] = 0, ![t] = AtMost(@ + seen[s])]
    /\ \E n \in 0..seen[s] : counted' = [counted EXCEPT ![s] = 0, ![t] = AtMost(@ + n)]
    /\ UNCHANGED <<error, errRows, check>>

-----------------------------------------------------------------------------
\* run_check

Over == {s \in Signatures : counted[s] >= Threshold /\ ~error[s].ignored}

\* The query drops ignored signatures and resolved occurrences and returns
\* MaxGroups groups at most.
ReadErrors ==
    /\ check.phase = "idle"
    /\ \E B \in SUBSET Over :
          /\ Cardinality(B) = IF Cardinality(Over) < MaxGroups THEN Cardinality(Over) ELSE MaxGroups
          /\ check' = [phase |-> "read", error |-> error, rows |-> errRows,
                       over |-> Over, breaching |-> B, touched |-> {}]
    /\ UNCHANGED <<seen, counted, error, errRows>>

\* Mutant: documents are written over whatever happened to them since.
SaveWins(S) == FALSE

\* doc.save: TimestampMismatchError, or DuplicateEntryError for a new document.
SaveClashes(S) == S \cap check.touched # {}

NeedsAlert(s) == ~check.error[s].critical \/ ~HasOpenAlert(check.rows[s])

Recovers(s) ==
    /\ check.error[s].critical /\ ~check.error[s].ignored
    /\ s \notin check.breaching

ApplyCheck ==
    /\ check.phase = "read"
    /\ ~SaveClashes(check.breaching)
    /\ error' = [s \in Signatures |->
                    IF s \in check.breaching THEN [error[s] EXCEPT !.critical = TRUE]
                    ELSE IF Recovers(s) THEN [error[s] EXCEPT !.critical = FALSE]
                    ELSE error[s]]
    /\ errRows' = [s \in Signatures |->
                    IF s \in check.breaching /\ NeedsAlert(s) THEN DispatchAlert(errRows[s])
                    ELSE IF Recovers(s) /\ HasOpenAlert(check.rows[s])
                         THEN DispatchRecovery(ResolveAlert(errRows[s]))
                    ELSE errRows[s]]
    /\ check' = NoCheck
    /\ UNCHANGED <<seen, counted>>

\* check_recurring_errors: any exception rolls the whole check back.  A clash,
\* and also a query that fails, end here.
CheckFails ==
    /\ check.phase = "read"
    /\ check' = NoCheck
    /\ UNCHANGED <<seen, counted, error, errRows>>

-----------------------------------------------------------------------------
\* The Logs tab.

Touch(s) == check' = [check EXCEPT !.touched = IF check.phase = "read" THEN @ \cup {s} ELSE @]

\* resolve_error, for an error of the last 30 days (_lookup_error): closes its
\* incident and says so.  The queries cut resolved_at to the second, so rows of
\* that very second may still count.
ResolveError(s) ==
    /\ error' = [error EXCEPT ![s].critical = FALSE]
    /\ \E n \in 0..counted[s] : counted' = [counted EXCEPT ![s] = n]
    /\ errRows' = [errRows EXCEPT ![s] =
                     IF HasOpenAlert(@) THEN DispatchRecovery(ResolveAlert(@)) ELSE @]
    /\ Touch(s)
    /\ UNCHANGED seen

\* set_error_ignored: closes the incident quietly; undoing it changes no more
\* than the flag.
SetErrorIgnored(s, ignored) ==
    /\ error' = [error EXCEPT ![s] = IF ignored THEN [critical |-> FALSE, ignored |-> TRUE]
                                     ELSE [@ EXCEPT !.ignored = FALSE]]
    /\ errRows' = [errRows EXCEPT ![s] = IF ignored THEN ResolveAlert(@) ELSE @]
    /\ Touch(s)
    /\ UNCHANGED <<seen, counted>>

-----------------------------------------------------------------------------
LogInit ==
    /\ seen = [s \in Signatures |-> 0] /\ counted = [s \in Signatures |-> 0]
    /\ error = [s \in Signatures |-> [critical |-> FALSE, ignored |-> FALSE]]
    /\ errRows = [s \in Signatures |-> NoRows]
    /\ check = NoCheck

LogNext ==
    \/ \E s \in Signatures : ErrorOccurs(s) \/ ErrorAges(s) \/ ResolveError(s)
    \/ \E s, t \in Signatures : SaveSiteAlias(s, t)
    \/ \E s \in Signatures, ignored \in BOOLEAN : SetErrorIgnored(s, ignored)
    \/ ReadErrors \/ ApplyCheck \/ CheckFails

LogSpec == LogInit /\ [][LogNext]_logVars

-----------------------------------------------------------------------------
\* "An ignored error ... never alerts", and an open incident belongs to an
\* error that the board shows as critical: also when a user ignores or
\* resolves the error while a check that saw it breaching is under way.
ErrorIncidentsMatchBoard ==
    \A s \in Signatures :
        HasOpenAlert(errRows[s]) <=> error[s].critical /\ ~error[s].ignored
=============================================================================
