----------------------------- MODULE MCReports -----------------------------
(* What becomes of one host's reports: HostIngest and MetricRates share no  *)
(* state, and a behaviour of this module is a behaviour of the one that     *)
(* subject names while the other stands still.                              *)
EXTENDS HostIngest, MetricRates, TLC

VARIABLE subject

Init ==
    /\ subject \in {"ingest", "rates"}
    /\ IngestInit /\ RatesInit
    /\ subject # "ingest" => carries = "services"
    /\ subject # "rates" => kind = "memory" /\ config = CHOOSE c \in Configs : TRUE

Next ==
    \/ subject = "ingest" /\ IngestNext /\ UNCHANGED <<subject, ratesVars>>
    \/ subject = "rates" /\ RatesNext /\ UNCHANGED <<subject, ingestVars>>

Spec == Init /\ [][Next]_<<subject, ingestVars, ratesVars>>

Interchangeable == Permutations(Mounts) \cup Permutations(Jobs)
=============================================================================
