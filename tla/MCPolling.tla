----------------------------- MODULE MCPolling -----------------------------
(* The loop that polls and what a cycle of it does with the servers:       *)
(* PollLoop and ProxmoxSync share no state, and a behaviour of this module *)
(* is a behaviour of the one that subject names, with its fairness, while  *)
(* the other stands still.                                                 *)
(*                                                                         *)
(* PollLoop has the code's timing proportions scaled down: a run is        *)
(* bounded, RQ's timeout is longer, the stale age longer still.            *)
EXTENDS PollLoop, ProxmoxSync

CONSTANTS pve, pbs

NoItems == [i \in Items |-> pve]

VARIABLE subject

allVars == <<subject, loopVars, vars>>

OfLoop(A) == subject = "loop" /\ A /\ UNCHANGED <<subject, vars>>
OfSync(A) == subject = "sync" /\ A /\ UNCHANGED <<subject, loopVars>>

PollingInit ==
    /\ subject \in {"loop", "sync"}
    /\ LoopInit /\ Init
    /\ subject = "sync" => switch = "before" /\ ~turnedOn

PollingNext ==
    \/ subject = "loop" /\ LoopNext /\ UNCHANGED <<subject, vars>>
    \/ subject = "sync" /\ Next /\ UNCHANGED <<subject, loopVars>>

\* LoopFairness of PollLoop and Fairness of ProxmoxSync.
PollingFairness ==
    /\ WF_allVars(OfLoop(Tick))
    /\ WF_allVars(OfLoop(Watchdog))
    /\ \A w \in Workers : WF_allVars(OfLoop(RunStep(w)))
    /\ SF_allVars(OfSync(NothingEnabled \/ \E s \in Servers : FirstSync(s)))
    /\ WF_allVars(OfSync(\E s \in Servers : LaterSync(s) \/ LaterSyncRolledBack(s)))

PollingSpec == PollingInit /\ [][PollingNext]_allVars /\ PollingFairness
=============================================================================
