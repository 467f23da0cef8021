---------------------------- MODULE MCHostHealth ---------------------------
(* HostHealth for one host with a bench, or for two interchangeable hosts. *)
EXTENDS HostHealth, TLC

Interchangeable == Permutations(Hosts)
=============================================================================
