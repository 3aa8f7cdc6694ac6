---------------------------- MODULE MCClientPool ----------------------------
(***************************************************************************)
(* Instances of ClientPool: of each provider and of each discovery backend *)
(* a goroutine of its own (g) and one of the application (app).            *)
(***************************************************************************)
EXTENDS ClientPool
CONSTANTS g, app

Of(gs, apps) == [u \in Users |-> IF u = g THEN gs ELSE apps]

Providers ==
  {Of({watch}, {"Call", watch}) :
     watch \in {"EtcdWatchConfig", "ConsulWatchConfig", "ZkWatchConfig", "NacosWatchConfig"}}
Backends ==
  {Of({"EtcdRecoverKeepAlive", "EtcdWatch", "EtcdRecoverWatch"},
      {"Call", "EtcdRegister", "EtcdGetInstances", "EtcdWatch"}),
   Of({"ConsulKeepAlive", "ConsulWatch"}, {"Call", "ConsulRegister", "ConsulGetInstances"}),
   Of({"ZkKeepAlive", "ZkWatch"}, {"Call", "ZkRegister", "ZkGetInstances"}),
   Of({"NacosWatch", "NacosRecoverSubscribe"},
      {"NacosRegister", "NacosDeregister", "NacosGetInstances"})}

AllPools == Providers \union Backends
OneKeeper == {Of({"ZkKeepAlive"}, {})}

Two == Of(2, 2)
Six == Of(6, 1)
=============================================================================
