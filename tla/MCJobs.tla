------------------------------- MODULE MCJobs -------------------------------
(* The jobs that run beside the poll loops and share no state: a behaviour  *)
(* of this module is a behaviour of the component that subject names while  *)
(* the others stand still.                                                  *)
EXTENDS AlertDelivery, ServerDeletion, BifrostSync, LogMonitor, SiteDiscovery,
        MaintenanceCalendar, TLC

VARIABLE subject

Init ==
    /\ subject \in {"delivery", "deletion", "usage", "logs", "sites", "calendar"}
    /\ DeliveryInit /\ (subject # "delivery" => \A a \in Alerts : row[a] = NoRow("batched"))
    /\ DeletionInit /\ (subject # "deletion" => ~enabled)
    /\ BifrostInit /\ LogInit /\ SiteInit
    /\ IF subject = "calendar" THEN CalendarInit ELSE windows = {} /\ moment = 0

Next ==
    \/ /\ subject = "delivery" /\ DeliveryNext
       /\ UNCHANGED <<subject, deletionVars, bifrostVars, logVars, siteVars, calendarVars>>
    \/ /\ subject = "deletion" /\ DeletionNext
       /\ UNCHANGED <<subject, deliveryVars, bifrostVars, logVars, siteVars, calendarVars>>
    \/ /\ subject = "usage" /\ BifrostNext
       /\ UNCHANGED <<subject, deliveryVars, deletionVars, logVars, siteVars, calendarVars>>
    \/ /\ subject = "logs" /\ LogNext
       /\ UNCHANGED <<subject, deliveryVars, deletionVars, bifrostVars, siteVars, calendarVars>>
    \/ /\ subject = "sites" /\ SiteNext
       /\ UNCHANGED <<subject, deliveryVars, deletionVars, bifrostVars, logVars, calendarVars>>
    \/ /\ subject = "calendar" /\ CalendarNext
       /\ UNCHANGED <<subject, deliveryVars, deletionVars, bifrostVars, logVars, siteVars>>

Spec == Init /\ [][Next]_<<subject, deliveryVars, deletionVars, bifrostVars, logVars, siteVars, calendarVars>>

Interchangeable == Permutations(Requests)
=============================================================================
