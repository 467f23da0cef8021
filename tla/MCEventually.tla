---------------------------- MODULE MCEventually ---------------------------
(* What must eventually happen: HostHealth and UptimeFanout share no state, *)
(* and a behaviour of this module is a behaviour of the one that subject    *)
(* names, with its fairness, while the other stands still.                  *)
EXTENDS HostHealth, UptimeFanout

VARIABLE subject

allVars == <<subject, vars, fanoutVars>>

OfHosts(A) == subject = "hosts" /\ A /\ UNCHANGED <<subject, fanoutVars>>
OfFanout(A) == subject = "fanout" /\ A /\ UNCHANGED <<subject, vars>>

EitherInit ==
    /\ subject \in {"hosts", "fanout"}
    /\ Init /\ FanoutInit
    /\ subject = "hosts" => sites = {}

EitherNext ==
    \/ subject = "hosts" /\ Next /\ UNCHANGED <<subject, fanoutVars>>
    \/ subject = "fanout" /\ FanoutNext /\ UNCHANGED <<subject, vars>>

\* HostHealth's Fairness and UptimeFanout's FanoutFairness.  As subject never
\* changes, fairness of a step of the one or of the other is fairness of the
\* steps of the one it names.
EitherFairness ==
    /\ WF_allVars(OfHosts(PassBegins) \/ OfFanout(LoopMoves))
    /\ \A h \in Hosts, k \in Kumas :
        /\ WF_allVars(OfHosts(CheckHost(h) \/ CheckRaises(h)))
        /\ SF_allVars(OfHosts(CheckHost(h)) \/ OfFanout(ListMonitors(k)))
        /\ []<>(importer.at = k) => []<><<OfFanout(VisitEnds(k))>>_allVars

EitherSpec == EitherInit /\ [][EitherNext]_allVars /\ EitherFairness
=============================================================================
