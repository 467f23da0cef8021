------------------------- MODULE MCUptimeConsensus -------------------------
(* UptimeConsensus for a site watched from two instances.                  *)
EXTENDS UptimeConsensus

CONSTANTS east, west

OneEach == [d \in Docs |-> IF d = 1 THEN west ELSE east]
=============================================================================
