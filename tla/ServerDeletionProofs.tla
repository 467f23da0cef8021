------------------------ MODULE ServerDeletionProofs ------------------------
(***************************************************************************)
(* Any number of deletion requests for a server implements                 *)
(* ArchivedDeletion.                                                       *)
(***************************************************************************)
EXTENDS ServerDeletion, TLAPS

Root == <<"server", 0>>

DeletionTypes ==
    /\ recs \subseteq Record
    /\ inflight \subseteq Independent
    /\ request \in [Requests -> {"idle", "checked", "inserted", "done"}]
    /\ status \in [Requests -> {"none", "Queued", "Running", "Completed", "Failed"}]
    /\ file \in [Requests -> SUBSET Record]
    /\ job \in [phase : {"none", "queued", "running", "collected", "ended"},
                archive : Requests \cup {"none"}, plan : SUBSET Record]

\* A job works for a request that is done, and its archive is not complete
\* before the job commits.
ArchiveIsOpen ==
    /\ \A r \in Requests : request[r] # "done" => status[r] # "Completed"
    /\ job.phase # "none" => job.archive \in Requests /\ request[job.archive] = "done"
    /\ job.phase \in {"queued", "running", "collected"} => status[job.archive] # "Completed"

\* What the server had is there as a whole, with the server, or not at all.
OwnedTogether == IF Root \in recs THEN Owned \subseteq recs ELSE recs \cap Owned = {}

\* The plan goes stale only by what is written after it was made, which is
\* nothing that the server had.
PlanHolds == job.phase = "collected" => job.plan \subseteq recs /\ recs \cap Owned \subseteq job.plan

DeletionInv == DeletionTypes /\ ArchiveIsOpen /\ OwnedTogether /\ PlanHolds

\* Nobody writes a record that the server had.
LEMMA WrittenIsNew ==
    ASSUME NEW kind \in Kinds
    PROVE  <<kind, 1>> \in Record /\ <<kind, 1>> \notin Owned /\ <<kind, 1>> # Root
  <1>1. <<kind, 1>> \in Record  BY DEF Record
  <1>2. \A x \in Owned : x[2] = 0  BY DEF Owned
  <1>3. <<kind, 1>>[2] = 1 /\ Root[2] = 0  BY DEF Root
  <1>4. QED  BY <1>1, <1>2, <1>3

LEMMA OwnedFacts ==
    /\ Root \in Owned /\ <<"guest", 0>> \in Owned /\ <<"host", 0>> \in Owned
    /\ \A x \in Owned : x[1] # "unlisted row"
    /\ Independent \subseteq Kinds /\ "guest" \in Kinds
  BY DEF Owned, Root, Kinds, Independent

\* What _collect returns holds everything the server had, if it is there.
LEMMA Collected ==
    ASSUME OwnedTogether
    PROVE  Collect(recs) \subseteq recs /\ recs \cap Owned \subseteq Collect(recs)
  <1>1. Collect(recs) \subseteq recs  BY DEF Collect
  <1>2. CASE Root \in recs
    <2>1. <<"guest", 0>> \in recs /\ <<"host", 0>> \in recs
      BY <1>2, OwnedFacts DEF OwnedTogether
    <2>2. QED  BY <1>1, <2>1, OwnedFacts DEF Collect
  <1>3. CASE Root \notin recs  BY <1>1, <1>3 DEF OwnedTogether
  <1>4. QED  BY <1>2, <1>3

LEMMA DeletionInitial == DeletionInit => DeletionInv
  <1> SUFFICES ASSUME DeletionInit PROVE DeletionInv
    OBVIOUS
  <1>1. recs \subseteq Record /\ Owned \subseteq recs /\ inflight = {}
    BY DEF DeletionInit, Record, Owned
  <1>2. DeletionTypes
    BY <1>1 DEF DeletionInit, DeletionTypes, NoJob
  <1>3. OwnedTogether  BY <1>1, OwnedFacts DEF OwnedTogether
  <1>4. QED
    BY <1>2, <1>3 DEF DeletionInit, DeletionInv, ArchiveIsOpen, PlanHolds, NoJob

Added ==
    /\ recs \subseteq recs' /\ recs' \subseteq Record
    /\ recs' \cap Owned = recs \cap Owned /\ (Root \in recs' <=> Root \in recs)
    /\ inflight' \subseteq Independent
    /\ UNCHANGED <<request, status, file, job>>

\* A step of another process adds at most one record, which is new.
LEMMA WritesAdd ==
    ASSUME DeletionInv,
           SyncCommits \/ \E kind \in Independent : WriteBegins(kind) \/ WriteCommits(kind)
    PROVE  Added
  <1>0. recs \subseteq Record /\ inflight \subseteq Independent  BY DEF DeletionInv, DeletionTypes
  <1>1. CASE SyncCommits
    <2>1. recs' = recs \cup {<<"guest", 1>>}  BY <1>1 DEF SyncCommits
    <2>2. QED  BY <1>0, <1>1, <2>1, WrittenIsNew, OwnedFacts DEF SyncCommits, Added
  <1>2. ASSUME NEW kind \in Independent, WriteBegins(kind) PROVE Added
    BY <1>0, <1>2 DEF WriteBegins, Added
  <1>3. ASSUME NEW kind \in Independent, WriteCommits(kind) PROVE Added
    <2>1. recs' = recs \cup {<<kind, 1>>} /\ kind \in Kinds  BY <1>3, OwnedFacts DEF WriteCommits
    <2>2. QED  BY <1>0, <1>3, <2>1, WrittenIsNew DEF WriteCommits, Added
  <1>4. QED  BY <1>1, <1>2, <1>3

LEMMA DeletionTypesKept == DeletionInv /\ [DeletionNext]_deletionVars => DeletionTypes'
  <1> SUFFICES ASSUME DeletionInv, [DeletionNext]_deletionVars PROVE DeletionTypes'
    OBVIOUS
  <1> USE DEF DeletionInv, DeletionTypes, ArchiveIsOpen
  <1>1. ASSUME NEW r \in Requests, CheckRequest(r) \/ InsertArchive(r) \/ Enqueue(r) PROVE DeletionTypes'
    BY <1>1 DEF CheckRequest, InsertArchive, Enqueue, NoJob
  <1>2. ASSUME JobStart \/ JobFails PROVE DeletionTypes'
    BY <1>2 DEF JobStart, JobFails
  <1>3. ASSUME JobKilled \/ JobGone PROVE DeletionTypes'
    BY <1>3 DEF JobKilled, JobGone, NoJob
  <1>4. ASSUME JobCollect PROVE DeletionTypes'
    BY <1>4, Collected DEF JobCollect
  <1>5. ASSUME JobCommit PROVE DeletionTypes'
    BY <1>5 DEF JobCommit, Delete
  <1>6. ASSUME SyncCommits \/ \E kind \in Independent : WriteBegins(kind) \/ WriteCommits(kind)
        PROVE  DeletionTypes'
    <2>1. Added  BY <1>6, WritesAdd
    <2>2. QED  BY <2>1 DEF Added
  <1>7. ASSUME Switch \/ UNCHANGED deletionVars PROVE DeletionTypes'
    BY <1>7 DEF Switch, deletionVars
  <1>8. QED  BY <1>1, <1>2, <1>3, <1>4, <1>5, <1>6, <1>7 DEF DeletionNext

LEMMA ArchiveStaysOpen == DeletionInv /\ [DeletionNext]_deletionVars => ArchiveIsOpen'
  <1> SUFFICES ASSUME DeletionInv, [DeletionNext]_deletionVars PROVE ArchiveIsOpen'
    OBVIOUS
  <1> USE DEF DeletionInv, DeletionTypes, ArchiveIsOpen
  <1>1. ASSUME NEW r \in Requests, CheckRequest(r) PROVE ArchiveIsOpen'
    BY <1>1 DEF CheckRequest
  <1>2. ASSUME NEW r \in Requests, InsertArchive(r) PROVE ArchiveIsOpen'
    BY <1>2 DEF InsertArchive
  <1>3. ASSUME NEW r \in Requests, Enqueue(r) PROVE ArchiveIsOpen'
    BY <1>3 DEF Enqueue, NoJob
  <1>4. ASSUME JobStart \/ JobCollect \/ JobFails PROVE ArchiveIsOpen'
    BY <1>4 DEF JobStart, JobCollect, JobFails
  <1>5. ASSUME JobCommit PROVE ArchiveIsOpen'
    BY <1>5 DEF JobCommit
  <1>6. ASSUME JobKilled \/ JobGone PROVE ArchiveIsOpen'
    BY <1>6 DEF JobKilled, JobGone, NoJob
  <1>7. ASSUME Switch \/ UNCHANGED deletionVars PROVE ArchiveIsOpen'
    BY <1>7 DEF Switch, deletionVars
  <1>8. ASSUME SyncCommits \/ \E kind \in Independent : WriteBegins(kind) \/ WriteCommits(kind)
        PROVE  ArchiveIsOpen'
    <2>1. Added  BY <1>8, WritesAdd
    <2>2. QED  BY <2>1 DEF Added
  <1>9. QED  BY <1>1, <1>2, <1>3, <1>4, <1>5, <1>6, <1>7, <1>8 DEF DeletionNext

LEMMA PlanStaysGood == DeletionInv /\ [DeletionNext]_deletionVars => (OwnedTogether /\ PlanHolds)'
  <1> SUFFICES ASSUME DeletionInv, [DeletionNext]_deletionVars PROVE (OwnedTogether /\ PlanHolds)'
    OBVIOUS
  <1> USE DEF DeletionInv, DeletionTypes
  <1>1. ASSUME NEW r \in Requests, CheckRequest(r) \/ InsertArchive(r) \/ Enqueue(r)
        PROVE (OwnedTogether /\ PlanHolds)'
    BY <1>1 DEF CheckRequest, InsertArchive, Enqueue, NoJob, OwnedTogether, PlanHolds
  <1>2. ASSUME JobStart \/ JobFails PROVE (OwnedTogether /\ PlanHolds)'
    BY <1>2 DEF JobStart, JobFails, OwnedTogether, PlanHolds
  <1>3. ASSUME JobKilled \/ JobGone PROVE (OwnedTogether /\ PlanHolds)'
    BY <1>3 DEF JobKilled, JobGone, NoJob, OwnedTogether, PlanHolds
  <1>4. ASSUME JobCollect PROVE (OwnedTogether /\ PlanHolds)'
    <2>1. job'.plan = Collect(recs) /\ recs' = recs  BY <1>4 DEF JobCollect
    <2>2. QED  BY <2>1, Collected DEF OwnedTogether, PlanHolds
  <1>5. ASSUME JobCommit PROVE (OwnedTogether /\ PlanHolds)'
    <2>1. recs' = recs \ job.plan /\ job'.phase = "ended" /\ recs \cap Owned \subseteq job.plan
      BY <1>5 DEF JobCommit, Delete, PlanHolds
    <2>2. QED  BY <2>1, OwnedFacts DEF OwnedTogether, PlanHolds
  <1>6. ASSUME SyncCommits \/ \E kind \in Independent : WriteBegins(kind) \/ WriteCommits(kind)
        PROVE  (OwnedTogether /\ PlanHolds)'
    <2>1. Added  BY <1>6, WritesAdd
    <2>2. QED  BY <2>1 DEF Added, OwnedTogether, PlanHolds
  <1>7. ASSUME Switch \/ UNCHANGED deletionVars PROVE (OwnedTogether /\ PlanHolds)'
    BY <1>7 DEF Switch, deletionVars, OwnedTogether, PlanHolds
  <1>8. QED  BY <1>1, <1>2, <1>3, <1>4, <1>5, <1>6, <1>7 DEF DeletionNext

LEMMA DeletionInvariant == DeletionSpec => []DeletionInv
  <1>1. DeletionInv /\ [DeletionNext]_deletionVars => DeletionInv'
    BY DeletionTypesKept, ArchiveStaysOpen, PlanStaysGood DEF DeletionInv
  <1>2. QED  BY <1>1, DeletionInitial, PTL DEF DeletionSpec

\* A step that completes no archive leaves what the archives hold.
LEMMA SameArchive ==
    ASSUME DeletionInv, file' = file,
           \A r \in Requests : status'[r] = "Completed" <=> status[r] = "Completed"
    PROVE  Archived' = Archived
  BY DEF Archived

\* Every step of a deletion is a step of the promise, or invisible to it.
LEMMA StepsArePromised ==
    DeletionInv /\ [DeletionNext]_deletionVars =>
        [Promise!Write \/ Promise!Delete]_(Promise!archivedVars)
  <1> SUFFICES ASSUME DeletionInv, [DeletionNext]_deletionVars
               PROVE  [Promise!Write \/ Promise!Delete]_(Promise!archivedVars)
    OBVIOUS
  <1> USE DEF Promise!archivedVars
  <1>1. ASSUME NEW r \in Requests, CheckRequest(r) \/ InsertArchive(r) \/ Enqueue(r)
        PROVE UNCHANGED Promise!archivedVars
    BY <1>1, SameArchive DEF CheckRequest, InsertArchive, Enqueue, DeletionInv, DeletionTypes, ArchiveIsOpen
  <1>2. ASSUME JobStart \/ JobCollect \/ JobFails \/ JobKilled \/ JobGone
        PROVE UNCHANGED Promise!archivedVars
    BY <1>2, SameArchive
       DEF JobStart, JobCollect, JobFails, JobKilled, JobGone, DeletionInv, DeletionTypes, ArchiveIsOpen
  <1>3. ASSUME Switch \/ UNCHANGED deletionVars PROVE UNCHANGED Promise!archivedVars
    BY <1>3, SameArchive DEF Switch, deletionVars
  <1>4. ASSUME SyncCommits \/ \E kind \in Independent : WriteBegins(kind) \/ WriteCommits(kind)
        PROVE  Promise!Write
    <2>1. Added  BY <1>4, WritesAdd
    <2>2. Archived' = Archived  BY <2>1, SameArchive DEF Added
    <2>3. QED  BY <2>1, <2>2 DEF Added, Promise!Write
  <1>5. ASSUME JobCommit PROVE Promise!Delete
    <2>1. /\ job.plan \subseteq recs /\ recs' = recs \ job.plan
          /\ recs \cap Owned \subseteq job.plan
          /\ job.archive \in Requests /\ status[job.archive] # "Completed"
          /\ job.plan \subseteq Record
      BY <1>5 DEF JobCommit, Delete, DeletionInv, DeletionTypes, PlanHolds, ArchiveIsOpen
    <2>2. /\ status' = [status EXCEPT ![job.archive] = "Completed"]
          /\ file' = [file EXCEPT ![job.archive] = job.plan]
      BY <1>5 DEF JobCommit
    <2>3. Archived' = Archived \cup job.plan
      BY <2>1, <2>2 DEF Archived, DeletionInv, DeletionTypes
    <2>4. recs \ recs' = job.plan /\ recs' \cap Owned = {}  BY <2>1
    <2>5. QED  BY <2>1, <2>3, <2>4 DEF Promise!Delete
  <1>6. QED  BY <1>1, <1>2, <1>3, <1>4, <1>5 DEF DeletionNext

\* For any number of requests, kills and failures, and whatever is written in
\* between, run_server_deletion moves what the server had into the archive in
\* one step, and removes no record that is in no archive.
THEOREM DeletionImplementsPromise == DeletionSpec => DeletionIsAtomic
  <1>1. DeletionInit => Promise!ArchivedInit
    BY OwnedFacts DEF DeletionInit, Promise!ArchivedInit, Archived, Owned, Root
  <1>2. QED
    BY <1>1, DeletionInvariant, StepsArePromised, PTL
       DEF DeletionSpec, DeletionIsAtomic, Promise!ArchivedSpec

-----------------------------------------------------------------------------
\* All or nothing.

AllInv == DeletionInv /\ AllOrNothing

SomeCompleted == \E r \in Requests : status[r] = "Completed"

\* A step that completes no archive and deletes nothing, and does not bring the
\* server back, leaves all or nothing as it is.
LEMMA AllKept ==
    ASSUME AllInv, recs \subseteq recs', Root \in recs' => Root \in recs,
           \A r \in Requests : status'[r] = "Completed" <=> status[r] = "Completed"
    PROVE  AllOrNothing'
  <1>1. SomeCompleted' <=> SomeCompleted  BY DEF SomeCompleted
  <1>2. There' => There  BY DEF There, Root
  <1>3. AllOrNothing  BY DEF AllInv
  <1>4. QED  BY <1>1, <1>2, <1>3 DEF AllOrNothing, SomeCompleted

LEMMA AllInitial == DeletionInit => AllInv
  <1>1. DeletionInit => AllOrNothing  BY DEF DeletionInit, AllOrNothing
  <1>2. QED  BY <1>1, DeletionInitial DEF AllInv

LEMMA AllStep == AllInv /\ [DeletionNext]_deletionVars => AllInv'
  <1> SUFFICES ASSUME AllInv, [DeletionNext]_deletionVars PROVE AllOrNothing'
    BY DeletionTypesKept, ArchiveStaysOpen, PlanStaysGood DEF AllInv, DeletionInv
  <1>0. DeletionInv /\ DeletionTypes /\ ArchiveIsOpen /\ PlanHolds
    BY DEF AllInv, DeletionInv
  <1>1. ASSUME NEW r \in Requests, CheckRequest(r) \/ InsertArchive(r) \/ Enqueue(r)
        PROVE  AllOrNothing'
    <2>1. recs' = recs /\ \A q \in Requests : status'[q] = "Completed" <=> status[q] = "Completed"
      BY <1>0, <1>1 DEF CheckRequest, InsertArchive, Enqueue, DeletionTypes, ArchiveIsOpen
    <2>2. QED  BY <2>1, AllKept
  <1>2. ASSUME JobStart \/ JobCollect \/ JobFails \/ JobKilled \/ JobGone PROVE AllOrNothing'
    <2>1. recs' = recs /\ \A q \in Requests : status'[q] = "Completed" <=> status[q] = "Completed"
      BY <1>0, <1>2 DEF JobStart, JobCollect, JobFails, JobKilled, JobGone, DeletionTypes, ArchiveIsOpen
    <2>2. QED  BY <2>1, AllKept
  <1>3. ASSUME JobCommit PROVE AllOrNothing'
    <2>1. recs' = recs \ job.plan /\ recs \cap Owned \subseteq job.plan
      BY <1>0, <1>3 DEF JobCommit, Delete, PlanHolds
    <2>2. SomeCompleted'
      BY <1>0, <1>3 DEF JobCommit, SomeCompleted, DeletionTypes, ArchiveIsOpen
    <2>3. Root \notin recs'  BY <2>1, OwnedFacts
    <2>4. QED  BY <2>2, <2>3 DEF AllOrNothing, SomeCompleted, There, Root
  <1>4. ASSUME SyncCommits \/ \E kind \in Independent : WriteBegins(kind) \/ WriteCommits(kind)
        PROVE  AllOrNothing'
    <2>1. Added  BY <1>0, <1>4, WritesAdd
    <2>2. QED  BY <2>1, AllKept DEF Added
  <1>5. ASSUME Switch \/ UNCHANGED deletionVars PROVE AllOrNothing'
    <2>1. recs' = recs /\ status' = status  BY <1>5 DEF Switch, deletionVars
    <2>2. QED  BY <2>1, AllKept
  <1>6. QED  BY <1>1, <1>2, <1>3, <1>4, <1>5 DEF DeletionNext

\* Until a deletion has completed nothing the server had is missing, and once
\* one has the server is gone, for any number of overlapping requests, failed
\* and killed jobs (run_server_deletion: "the whole deletion is rolled back").
THEOREM DeletionIsAllOrNothing == DeletionSpec => []AllOrNothing
  <1>1. AllInv => AllOrNothing  BY DEF AllInv
  <1>2. QED  BY <1>1, AllInitial, AllStep, PTL DEF DeletionSpec
=============================================================================
