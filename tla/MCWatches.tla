----------------------------- MODULE MCWatches -----------------------------
(* Small instances of Watches.  The service is registered with version 2,  *)
(* version 3 is empty: its instance is deregistered and comes back.        *)
EXTENDS Watches
MCEmpty  == {1, 3}
MCAbsent == {1}
MCFaults == [b \in Backends |-> IF b = "zookeeper" THEN 1 ELSE 2]
=============================================================================
