---------------------------- MODULE UptimeFanout ----------------------------
(***************************************************************************)
(* uptime_monitor/api.py: one site_name kept on every Uptime Kuma instance.*)
(* A user's add_site or delete_site walks over the instances in one        *)
(* transaction and calls Kuma as it goes; meanwhile the poll loop imports  *)
(* monitors that Pulse does not know and creates the site where it is      *)
(* missing.  A call to Kuma may be refused, and its answer may be lost     *)
(* after Kuma has acted.                                                   *)
(***************************************************************************)
EXTENDS Integers, FiniteSets

CONSTANTS
    Kumas,        \* Uptime Kuma Instance documents
    MaxMonitors,  \* bound: monitor ids of one instance are 1..MaxMonitors
    MaxRequests,  \* bound on the requests of users
    Nowhere       \* no instance

ASSUME FanoutAssumption ==
    /\ IsFiniteSet(Kumas) /\ Nowhere \notin Kumas
    /\ MaxMonitors \in Nat /\ MaxRequests \in Nat

VARIABLES
    on,        \* the enabled instances
    monitors,  \* [Kumas -> ids of the site's monitors at Kuma]
    sites,     \* Uptime Site documents, committed
    request,   \* the request under way
    importer,  \* what the poll loop is doing
    requests   \* requests so far

fanoutVars == <<on, monitors, sites, request, importer, requests>>

\* Nothing keeps two documents from carrying one monitor id: "by" tells the
\* user's from the poll loop's.
Site == [at: Kumas, id: 1..MaxMonitors, by: {"user", "loop"}]

NoRequest == [op |-> "none", on |-> {}, todo |-> {}, done |-> {}]
NoImport == [at |-> Nowhere, phase |-> "idle", found |-> {}]

At(k) == {s \in sites : s.at = k}

Known(k) == {s.id : s \in At(k)}

\* Kuma's "add" gives an id that nothing refers to.
Free(k) == 1..MaxMonitors \ (monitors[k] \cup Known(k))

AddMonitor(k, id) ==
    /\ id \in Free(k) /\ \A i \in Free(k) : id <= i
    /\ monitors' = [monitors EXCEPT ![k] = @ \cup {id}]

-----------------------------------------------------------------------------
\* add_site

BeginAdd ==
    /\ request.op = "none" /\ requests < MaxRequests
    /\ on # {}
    /\ request' = [NoRequest EXCEPT !.op = "add", !.todo = on]
    /\ requests' = requests + 1
    /\ UNCHANGED <<on, monitors, sites, importer>>

\* _create_site_on_instance: the monitor first, then the document, which only
\* the request's own transaction sees.
CreateOnInstance(k, id) ==
    /\ request.op = "add" /\ k \in request.todo
    /\ AddMonitor(k, id)
    /\ request' = [request EXCEPT !.todo = @ \ {k}, !.done = @ \cup {[at |-> k, id |-> id, by |-> "user"]}]
    /\ UNCHANGED <<on, sites, importer, requests>>

\* The call fails, or the insert does and the monitor is deleted again.
CreateRefused(k) ==
    /\ request.op = "add" /\ k \in request.todo
    /\ request' = [request EXCEPT !.todo = @ \ {k}]
    /\ UNCHANGED <<on, monitors, sites, importer, requests>>

\* Kuma's answer is lost, or the insert fails and so does the clean-up.
CreateOrphans(k, id) ==
    /\ request.op = "add" /\ k \in request.todo
    /\ AddMonitor(k, id)
    /\ request' = [request EXCEPT !.todo = @ \ {k}]
    /\ UNCHANGED <<on, sites, importer, requests>>

\* Commit.  Also when nothing was created: that rollback has nothing to undo.
FinishAdd ==
    /\ request.op = "add" /\ request.todo = {}
    /\ sites' = sites \cup request.done
    /\ request' = NoRequest
    /\ UNCHANGED <<on, monitors, importer, requests>>

-----------------------------------------------------------------------------
\* delete_site: every sibling; an instance that was disabled when the request
\* began is not contacted.

BeginDelete ==
    /\ request.op = "none" /\ requests < MaxRequests
    /\ sites # {}
    /\ request' = [NoRequest EXCEPT !.op = "delete", !.on = on, !.todo = sites]
    /\ requests' = requests + 1
    /\ UNCHANGED <<on, monitors, sites, importer>>

\* Kuma deletes the monitor; one that is gone already is refused.
DeleteMonitor(s) ==
    /\ s.id \in monitors[s.at]
    /\ monitors' = [monitors EXCEPT ![s.at] = @ \ {s.id}]

DeleteSibling(s) ==
    /\ request.op = "delete" /\ s \in request.todo
    /\ IF s.at \in request.on THEN DeleteMonitor(s) ELSE UNCHANGED monitors
    /\ request' = [request EXCEPT !.todo = @ \ {s}, !.done = @ \cup {s}]
    /\ UNCHANGED <<on, sites, importer, requests>>

\* Refused or unreachable: back to the savepoint.
DeleteRefused(s) ==
    /\ request.op = "delete" /\ s \in request.todo /\ s.at \in request.on
    /\ request' = [request EXCEPT !.todo = @ \ {s}]
    /\ UNCHANGED <<on, monitors, sites, importer, requests>>

\* Kuma deletes the monitor and its answer is lost: back to the savepoint too.
DeleteAnswerLost(s) ==
    /\ request.op = "delete" /\ s \in request.todo /\ s.at \in request.on
    /\ DeleteMonitor(s)
    /\ request' = [request EXCEPT !.todo = @ \ {s}]
    /\ UNCHANGED <<on, sites, importer, requests>>

FinishDelete ==
    /\ request.op = "delete" /\ request.todo = {}
    /\ sites' = sites \ request.done
    /\ request' = NoRequest
    /\ UNCHANGED <<on, monitors, importer, requests>>

\* The web worker dies: the transaction is undone, what Kuma did is not.
RequestDies ==
    /\ request.op # "none"
    /\ request' = NoRequest
    /\ UNCHANGED <<on, monitors, sites, importer, requests>>

-----------------------------------------------------------------------------
\* _maybe_auto_import, one instance after the other.

\* auto_import_new_monitors asks Kuma for its list ...
ListMonitors(k) ==
    /\ importer.phase = "idle" /\ k \in on
    /\ importer' = [at |-> k, phase |-> "listed", found |-> monitors[k]]
    /\ UNCHANGED <<on, monitors, sites, request, requests>>

\* Mutant: a site whose name is known is taken for imported.
ImportUnlessNamed(k) == IF At(k) # {} THEN {} ELSE importer.found

Unimported(k) == importer.found \ Known(k)

\* ... and commits a document for each monitor that has none.
ImportMonitors(k) ==
    /\ importer.phase = "listed" /\ importer.at = k
    /\ sites' = sites \cup {[at |-> k, id |-> id, by |-> "loop"] : id \in Unimported(k)}
    /\ importer' = [importer EXCEPT !.phase = "imported", !.found = {}]
    /\ UNCHANGED <<on, monitors, request, requests>>

\* Mutant: the names that exist "here" are read without the instance filter.
MissingEverywhere(k) == sites = {}

\* The site is missing here and another enabled instance has it.
Missing(k) == At(k) = {} /\ \E j \in on \ {k} : At(j) # {}

\* sync_missing_sites_to_instance compares the names ...
CompareSites(k) ==
    /\ importer.phase = "imported" /\ importer.at = k
    /\ importer' = IF Missing(k) THEN [importer EXCEPT !.phase = "missing"] ELSE NoImport
    /\ UNCHANGED <<on, monitors, sites, request, requests>>

\* ... and creates what is missing, whatever happened to it meanwhile.
SyncMissing(k) ==
    /\ importer.phase = "missing" /\ importer.at = k
    /\ \E id \in 1..MaxMonitors :
          /\ AddMonitor(k, id)
          /\ sites' = sites \cup {[at |-> k, id |-> id, by |-> "loop"]}
    /\ importer' = NoImport
    /\ UNCHANGED <<on, request, requests>>

\* Any call of the loop fails, or the worker dies.
ImportFails ==
    /\ importer.phase # "idle"
    /\ importer' = NoImport
    /\ UNCHANGED <<on, monitors, sites, request, requests>>

Switch(k) ==
    /\ on' = IF k \in on THEN on \ {k} ELSE on \cup {k}
    /\ UNCHANGED <<monitors, sites, request, importer, requests>>

-----------------------------------------------------------------------------
FanoutInit ==
    /\ on = Kumas
    /\ \E H \in SUBSET Kumas :  \* the instances that have the site
          /\ monitors = [k \in Kumas |-> IF k \in H THEN {1} ELSE {}]
          /\ sites = {[at |-> k, id |-> 1, by |-> "user"] : k \in H}
    /\ request = NoRequest /\ importer = NoImport /\ requests = 0

FanoutNext ==
    \/ BeginAdd \/ FinishAdd \/ BeginDelete \/ FinishDelete \/ RequestDies \/ ImportFails
    \/ \E k \in Kumas : \E id \in 1..MaxMonitors : CreateOnInstance(k, id) \/ CreateOrphans(k, id)
    \/ \E s \in Site : DeleteSibling(s) \/ DeleteRefused(s) \/ DeleteAnswerLost(s)
    \/ \E k \in Kumas : \/ CreateRefused(k) \/ Switch(k)
                        \/ ListMonitors(k) \/ ImportMonitors(k) \/ CompareSites(k) \/ SyncMissing(k)

LoopMoves ==
    \/ ImportFails
    \/ \E k \in Kumas : ImportMonitors(k) \/ CompareSites(k) \/ SyncMissing(k)

\* The visit to an instance that is under way runs to its end.
VisitEnds(k) == SyncMissing(k) \/ (CompareSites(k) /\ ~Missing(k))

\* The loop does not stand still (PollLoop), it keeps visiting every enabled
\* instance, and if it visits one again and again, not every visit fails.
FanoutFairness ==
    /\ WF_fanoutVars(LoopMoves)
    /\ \A k \in Kumas : /\ SF_fanoutVars(ListMonitors(k))
                         /\ []<>(importer.at = k) => []<><<VisitEnds(k)>>_fanoutVars

FanoutSpec == FanoutInit /\ [][FanoutNext]_fanoutVars

-----------------------------------------------------------------------------
\* A monitor that Kuma has and Pulse does not know (its answer was lost, its
\* clean-up failed, its request died) does not stay an orphan: the import
\* adopts it.
OrphansAreAdopted ==
    \A k \in Kumas, id \in 1..MaxMonitors :
        (k \in on /\ id \in monitors[k] \ Known(k))
            ~> (k \notin on \/ id \in Known(k) \/ id \notin monitors[k])

\* "a newly added (or newly reachable) instance catches up": a site that an
\* enabled instance has comes to every other enabled one, or goes away.
InstancesCatchUp ==
    \A k, j \in Kumas :
        ({j, k} \subseteq on /\ At(j) # {} /\ At(k) = {})
            ~> (~({j, k} \subseteq on) \/ At(j) = {} \/ At(k) # {})
=============================================================================
