---------------------------- MODULE MCDiscoveryLB ----------------------------
(* Small instances of DiscoveryLB; the .cfg files give every constant its  *)
(* value: one instance at one address, one reader.                         *)
EXTENDS DiscoveryLB
=============================================================================
