------------------------------- MODULE MCLocks -------------------------------
(***************************************************************************)
(* Instances of Locks: the goroutines of a manager or of a discovery.      *)
(***************************************************************************)
EXTENDS Locks

Three == {"check", "watch", "app"}

\* A manager: the health loop, a watch goroutine and the application.
ManagerWork ==
  [check |-> {"HealthCheck", "SyncConfig"}, watch |-> {"WatchCallback", "HealthCheck"},
   app |-> {"SyncConfig", "GetLocalConfig", "Subscribe"}]

\* A discovery: a health check, the goroutine of Watch and the application.
DiscoveryWork ==
  [check |-> {"Tick"}, watch |-> {"Watch"}, app |-> {"Register", "Deregister", "GetInstances"}]

ThreeWorks == {ManagerWork, DiscoveryWork}

\* An application that refreshes a configuration while a watch is open.
RefreshWork == {[ManagerWork EXCEPT !.app = {"RefreshConfig"}]}
=============================================================================
