---------------------------- MODULE SiteDiscovery ----------------------------
(***************************************************************************)
(* site_discovery/sync.py: the daily merge of three sources into the       *)
(* Instance Site row of a domain.  Domains do not influence one another,   *)
(* so there is one.  Every fetch may fail on its own.                      *)
(***************************************************************************)
EXTENDS Integers, FiniteSets

CONSTANTS
    Npms,        \* enabled NPM Instance documents
    Addressed,   \* those whose public_ips are filled in
    CfEnabled,   \* Cloudflare Settings' enabled
    NoNpm        \* no NPM

ASSUME SiteAssumption ==
    IsFiniteSet(Npms) /\ Addressed \subseteq Npms /\ CfEnabled \in BOOLEAN /\ NoNpm \notin Npms

VARIABLES
    lists,    \* the NPMs that have a proxy host for the domain
    forward,  \* [Npms -> whether its proxy host forwards to an existing guest]
    dns,      \* where the Cloudflare record leads: an NPM's public IP, a
              \*   guest's own, elsewhere, or there is none
    agent,    \* whether a host's agent reports the site
    entry     \* the Instance Site row

siteVars == <<lists, forward, dns, agent, entry>>

Targets == Npms \cup {"guest", "elsewhere", "none"}

NoEntry == [source |-> "none", status |-> "none", npm |-> NoNpm, guest |-> FALSE, target |-> "none"]

-----------------------------------------------------------------------------
\* resolve(): pure.  "fetched" are the NPMs whose answer counts, "checked" is
\* whether Cloudflare's does, "ips" whether the guests' addresses are complete.

\* Mutant: an only candidate is not compared with Cloudflare.
OnlyListed(n, checked) == IF checked /\ dns = "none" THEN "Not in Cloudflare" ELSE "Active"

\* One NPM lists the domain.
SingleStatus(n, checked) ==
    IF checked /\ dns = "none" THEN "Not in Cloudflare"
    ELSE IF checked /\ n \in Addressed /\ dns # n THEN "DNS Mismatch"
    ELSE "Active"

\* Several do: the one that Cloudflare points to, or nobody.
PointedTo(C, checked) == IF checked THEN {n \in C \cap Addressed : dns = n} ELSE {}

FoundTarget(checked) == IF checked THEN dns ELSE "none"

\* The row of a chosen NPM; a forward host without a guest makes an active
\* row "Unmatched", unless the agent tells the guest.
NpmEntry(n, status, checked, ips) ==
    LET guest  == forward[n] /\ ips
        helped == status = "Active" /\ ~guest /\ agent
    IN  [source |-> "NPM", npm |-> n, target |-> FoundTarget(checked),
         guest  |-> guest \/ helped,
         status |-> IF status = "Active" /\ ~guest /\ ~agent THEN "Unmatched" ELSE status]

Resolve(fetched, checked, ips) ==
    LET C == lists \cap fetched
        P == PointedTo(C, checked)
        base == [NoEntry EXCEPT !.target = FoundTarget(checked)]
    IN  IF Cardinality(C) = 1
        THEN LET n == CHOOSE n \in C : TRUE IN NpmEntry(n, SingleStatus(n, checked), checked, ips)
        ELSE IF P # {}
        THEN NpmEntry(CHOOSE n \in P : TRUE, "Active", checked, ips)
        ELSE IF C # {}
        THEN [base EXCEPT !.source = "NPM", !.status = "Ambiguous"]
        ELSE IF checked /\ dns = "guest" /\ ips
        THEN [base EXCEPT !.source = "Direct DNS", !.status = "Active", !.guest = TRUE]
        ELSE IF agent
        THEN [base EXCEPT !.source = "Pulse Agent", !.guest = TRUE,
                          !.status = IF checked /\ dns = "none" THEN "Not in Cloudflare" ELSE "Active"]
        ELSE NoEntry

-----------------------------------------------------------------------------
\* run_sync

\* Mutant: rows of a failed NPM are written over like the others.
KeepNothing(failed, cfFailed) == cfFailed

\* A partial view must not overwrite good data.
Keeps(failed, cfFailed) == cfFailed \/ entry.npm \in failed

\* fetch_npms: each NPM answers or fails on its own.
FetchNpms == SUBSET Npms

\* fetch_cloudflare: not asked when disabled; one zone that fails fails all.
FetchCloudflare == IF CfEnabled THEN BOOLEAN ELSE {FALSE}

\* load_guests: the guests' addresses as Proxmox tells them, or only those
\* that the poller stored.
LoadGuests == BOOLEAN

RunSync ==
    \E failed \in FetchNpms, cfFailed \in FetchCloudflare, ips \in LoadGuests :
        LET found == Resolve(Npms \ failed, CfEnabled /\ ~cfFailed, ips)
        IN  /\ entry' = IF entry # NoEntry /\ Keeps(failed, cfFailed) THEN entry ELSE found
            /\ UNCHANGED <<lists, forward, dns, agent>>

\* The sources change: a proxy host is added, moved or dropped, a record is
\* edited, a guest is removed, an agent is installed.
SourceChanges ==
    /\ \/ /\ \E n \in Npms : lists' = (lists \cup {n}) \ (lists \cap {n})
          /\ UNCHANGED <<forward, dns, agent>>
       \/ dns' \in Targets /\ UNCHANGED <<lists, forward, agent>>
       \/ /\ \E n \in Npms : forward' = [forward EXCEPT ![n] = ~@]
          /\ UNCHANGED <<lists, dns, agent>>
       \/ agent' = ~agent /\ UNCHANGED <<lists, forward, dns>>
    /\ UNCHANGED entry

SiteInit ==
    /\ lists = {} /\ forward = [n \in Npms |-> TRUE] /\ dns = "none" /\ agent = FALSE
    /\ entry = NoEntry

SiteNext == RunSync \/ SourceChanges

SiteSpec == SiteInit /\ [][SiteNext]_siteVars

-----------------------------------------------------------------------------
\* A row that calls a site live behind an NPM whose addresses are known says
\* so because Cloudflare pointed there, or could not be asked: no order of
\* outages, moves and kept rows produces another one.
LiveMeansPointedTo ==
    entry.npm \in Addressed /\ entry.status \in {"Active", "Unmatched"}
        => entry.target \in {entry.npm, "none"}

\* "Outages never wipe data", as far as rows with an owner go: while the NPM
\* that owns a row still lists the domain, no failed fetch takes the row away
\* from it.  It can lose it only to what the sources say: another NPM lists
\* the domain too, and Cloudflare does not point to the owner.
OwnersKeepTheirRows ==
    [][entry.npm \in lists /\ entry'.npm # entry.npm
          => /\ entry'.npm \in lists \/ entry'.status = "Ambiguous"
             /\ lists # {entry.npm}
             /\ CfEnabled /\ entry.npm \in Addressed => dns # entry.npm]_siteVars
=============================================================================
