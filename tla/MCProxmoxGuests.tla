-------------------------- MODULE MCProxmoxGuests --------------------------
(* What the poller keeps of a PVE host's guests: their flags and alerts    *)
(* (ProxmoxSync, one host with one guest) and their backups                *)
(* (BackupHistory).  A behaviour of this module is a behaviour of the one  *)
(* that subject names while the other stands still.                        *)
EXTENDS ProxmoxSync, BackupHistory

CONSTANTS pve, vm

OneGuest == [i \in Items |-> pve]

VARIABLE subject

GuestsInit ==
    /\ subject \in {"sync", "backups"}
    /\ Init /\ BackupInit
    /\ subject # "backups" => zone = CHOOSE z \in Zones : TRUE

GuestsNext ==
    \/ subject = "sync" /\ Next /\ UNCHANGED <<subject, backupVars>>
    \/ subject = "backups" /\ BackupNext /\ UNCHANGED <<subject, vars>>

GuestsSpec == GuestsInit /\ [][GuestsNext]_<<subject, vars, backupVars>>
=============================================================================
