--------------------------- MODULE MCProxmoxSync ---------------------------
(* ProxmoxSync for a lone PVE host whose own readings vary.                *)
EXTENDS ProxmoxSync

CONSTANTS pve

NoItems == [i \in Items |-> pve]
=============================================================================
