---------------------------- MODULE MCRegistration ----------------------------
(* Small instances of Registration. *)
EXTENDS Registration

CONSTANTS i1, i2, c1

\* Two instances on ZooKeeper, whose keepers register each other's; one and a
\* fault more on etcd and Consul.
MCOwned == [b \in {"etcd", "consul", "zookeeper"} |->
              IF b = "zookeeper" THEN {i1, i2} ELSE {i1}]
MCFaults == [b \in DOMAIN MCOwned |-> IF b = "zookeeper" THEN 2 ELSE 3]

\* One instance on etcd.
OneInstance == [b \in {"etcd"} |-> {i1}]
TwoFaults == [b \in {"etcd"} |-> 2]

\* Two instances on etcd.
SharedLease == [b \in {"etcd"} |-> {i1, i2}]
OneFault == [b \in {"etcd"} |-> 1]
=============================================================================
