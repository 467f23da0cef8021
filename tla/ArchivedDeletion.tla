-------------------------- MODULE ArchivedDeletion --------------------------
(***************************************************************************)
(* What server_deletion.py promises, seen from the database.  What a       *)
(* server has goes as a whole, in the step in which the server goes;       *)
(* records that others write meanwhile may be left over, and go later or   *)
(* never; and whatever goes is in an archive from that step on.            *)
(***************************************************************************)
CONSTANTS
    Root,      \* the record of the server
    Owned,     \* what is found from it, itself included
    Record     \* the records that can hang on it

VARIABLES
    records,   \* what the database holds of the server
    archive    \* what the completed archives hold

archivedVars == <<records, archive>>

ArchivedInit == Root \in Owned /\ Owned \subseteq records /\ archive = {}

\* Others write; nothing of what the server had comes back.
Write ==
    /\ records \subseteq records' /\ records' \subseteq Record
    /\ records' \cap Owned = records \cap Owned
    /\ UNCHANGED archive

\* A deletion: the server and all it had, or what was left over by an earlier one.
Delete ==
    /\ records' \subseteq records
    /\ records' \cap Owned = {}
    /\ archive' = archive \cup (records \ records')

ArchivedSpec == ArchivedInit /\ [][Write \/ Delete]_archivedVars
=============================================================================
