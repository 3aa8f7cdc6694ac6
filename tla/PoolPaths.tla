------------------------------- MODULE PoolPaths -------------------------------
(***************************************************************************)
(* Where the operations of the providers and of the discovery backends     *)
(* take a client from their pool, use it and put it back.                  *)
(*                                                                         *)
(* An operation is the set of its paths through the code, a path is the    *)
(* sequence of its steps get, use and put.  A step names the frame it is   *)
(* made in: a call made inside another has a variable cli of its own, one  *)
(* frame further.  A loop is one round of it, a retried request one try,   *)
(* and several uses in a row are one.  A goroutine that an operation       *)
(* starts and that goes on with the client of the operation goes on at the *)
(* end of its path.                                                        *)
(***************************************************************************)
EXTENDS Naturals, Sequences

Gets(k) == <<[do |-> "get", on |-> k]>>
Uses(k) == <<[do |-> "use", on |-> k]>>
Puts(k) == <<[do |-> "put", on |-> k]>>

\* A path of P and then one of Q.
Then(P, Q) == UNION {{p \o q : q \in Q} : p \in P}

\* Get and defer Put, with one of the paths P in between.
Deferred(k, P) == {Gets(k) \o p \o Puts(k) : p \in P}

\* A use, and after it one of the paths P, or none.
UsesThen(k, P) == {Uses(k)} \union {Uses(k) \o p : p \in P}

\* The paths P, after which the client of frame k may be used once more.
GoesOn(k, P) == P \union {p \o Uses(k) : p \in P}

(***************************************************************************)
(* Providers                                                               *)
(***************************************************************************)
\* GetConfig, PutConfig and HealthCheck of every provider, Deregister of
\* etcd, Consul and ZooKeeper: the configuration may not be valid.
Call == Deferred(1, {<<>>, Uses(1)})

\* The client is put back when WatchConfig returns, although its watch
\* channel, or its listener, goes on.
EtcdWatchConfig  == GoesOn(1, Deferred(1, {Uses(1)}))
NacosWatchConfig == GoesOn(1, Deferred(1, {Uses(1)}))

\* Variant: the client is not put back where the read fails.
ConsulWatchConfigForgets == {Gets(1) \o Uses(1), Gets(1) \o Uses(1) \o Puts(1)}

\* One Put where the read fails, another behind the callback.
ConsulWatchConfig ==
  LET fails == Gets(1) \o Uses(1) \o Puts(1)
      reads == Gets(1) \o Uses(1) \o Puts(1)
  IN  {fails, reads}

\* The same; the event comes from the client's session, and then the
\* configuration is read through it again.
ZkWatchConfig ==
  LET fails == Gets(1) \o Uses(1) \o Puts(1)
      reads == Gets(1) \o Uses(1) \o Puts(1)
  IN  {fails} \union GoesOn(1, {reads})

(***************************************************************************)
(* etcd discovery                                                          *)
(***************************************************************************)
\* The lease is kept alive through the client that register has put back.
EtcdRegister(k)     == GoesOn(k, Deferred(k, {Uses(k)}))
EtcdCheck(k)        == Deferred(k, {<<>>} \union UsesThen(k, EtcdRegister(k + 1)))
EtcdGetInstances(k) == Deferred(k, UsesThen(k, EtcdCheck(k + 1)))

EtcdRecoverKeepAlive == GoesOn(1, Deferred(1, UsesThen(1, EtcdCheck(2))))

\* For each event of the client's stream the goroutine of Watch reads the
\* instances.
EtcdWatch ==
  LET reads == {Uses(1) \o p : p \in EtcdGetInstances(2)}
      opens == Deferred(1, reads)
  IN  opens \union Then(opens, reads)

EtcdRecoverWatch ==
  LET reads == {Uses(1) \o p : p \in EtcdGetInstances(2)}
      opens == Deferred(1, {Uses(1) \o p : p \in EtcdCheck(2)})
  IN  opens \union Then(opens, reads)

(***************************************************************************)
(* Consul discovery                                                        *)
(***************************************************************************)
ConsulRegister(k)     == Deferred(k, {Uses(k)})
ConsulCheck(k)        == Deferred(k, {<<>>} \union UsesThen(k, ConsulRegister(k + 1)))
ConsulGetInstances(k) == Deferred(k, UsesThen(k, ConsulCheck(k + 1)))

ConsulKeepAlive == {Gets(1) \o p \o Puts(1) : p \in UsesThen(1, ConsulCheck(2))}

\* Variant: where the query fails the client is put back, and so it is in the
\* next line of the loop.
ConsulWatchTwice ==
  LET answered == Gets(1) \o Uses(1) \o Puts(1)
      failed   == {Gets(1) \o (Uses(1) \o p) \o Puts(1) : p \in ConsulCheck(2)}
  IN  {answered} \union {p \o Puts(1) : p \in failed}

\* One Put where the query fails, behind the check, and one where it does not.
ConsulWatch ==
  LET answered == Gets(1) \o Uses(1) \o Puts(1)
      failed   == {Gets(1) \o (Uses(1) \o p) \o Puts(1) : p \in ConsulCheck(2)}
  IN  {answered} \union failed

(***************************************************************************)
(* ZooKeeper discovery                                                     *)
(***************************************************************************)
\* ensureParentNodes for the node of an instance, of a service and of all
\* services: a parent that does not exist is created behind its own parent.
ParentOfServices(k) == Deferred(k, {<<>>})
ParentOfService(k)  == Deferred(k, UsesThen(k, GoesOn(k, ParentOfServices(k + 1))))
ParentOfInstance(k) == Deferred(k, UsesThen(k, GoesOn(k, ParentOfService(k + 1))))

ZkRegister(k)     == Deferred(k, GoesOn(k, ParentOfInstance(k + 1)))
ZkCheck(k)        == Deferred(k, {<<>>} \union UsesThen(k, ZkRegister(k + 1)))
ZkGetInstances(k) == Deferred(k, UsesThen(k, ZkCheck(k + 1)))

\* Variant: the client is not put back where the check has run.
ZkKeepAliveForgets ==
  LET fails == {Gets(1) \o Uses(1) \o p : p \in ZkCheck(2)}
      ticks == Gets(1) \o Uses(1) \o Puts(1)
  IN  {ticks} \union fails

\* One Put where the node cannot be tested, behind the check, and one for the
\* other ways.
ZkKeepAlive ==
  LET fails == {Gets(1) \o (Uses(1) \o p) \o Puts(1) : p \in ZkCheck(2)}
      ticks == Gets(1) \o Uses(1) \o Puts(1)
  IN  {ticks} \union fails

\* The client whose watch ChildrenW sets is put back at once.
ZkWatch ==
  LET arms == Gets(1) \o Uses(1) \o Puts(1)
  IN  ZkGetInstances(1) \union Then(ZkGetInstances(1), GoesOn(1, {arms}))

(***************************************************************************)
(* Nacos discovery.  Its check calls register, and register the check: here*)
(* a register inside a check calls no other, NacosBackend has the recursion*)
(* with its own pool.                                                      *)
(***************************************************************************)
NacosCheck(k)        == Deferred(k, {<<>>} \union UsesThen(k, Deferred(k + 1, {Uses(k + 1)})))
NacosRegister(k)     == Deferred(k, UsesThen(k, NacosCheck(k + 1)))
NacosGetInstances(k) == Deferred(k, UsesThen(k, NacosCheck(k + 1)))

\* The client is used when the instances have been read.
NacosDeregister == Deferred(1, GoesOn(1, NacosGetInstances(2)))

\* The subscription is cancelled through the client, long after its Put.
NacosWatch ==
  LET fails      == Gets(1) \o Uses(1) \o Puts(1)
      subscribes == Gets(1) \o Uses(1) \o Puts(1)
  IN  {fails} \union GoesOn(1, {subscribes})

NacosRecoverSubscribe == GoesOn(1, Deferred(1, UsesThen(1, NacosCheck(2))))

Names == {"Call", "EtcdWatchConfig", "NacosWatchConfig", "ConsulWatchConfig", "ZkWatchConfig",
          "EtcdRegister", "EtcdGetInstances", "EtcdRecoverKeepAlive", "EtcdWatch",
          "EtcdRecoverWatch", "ConsulRegister", "ConsulGetInstances", "ConsulKeepAlive",
          "ConsulWatch", "ZkRegister", "ZkGetInstances", "ZkKeepAlive", "ZkWatch",
          "NacosRegister", "NacosDeregister", "NacosGetInstances", "NacosWatch",
          "NacosRecoverSubscribe"}

Paths ==
  [Call |-> Call, EtcdWatchConfig |-> EtcdWatchConfig, NacosWatchConfig |-> NacosWatchConfig,
   ConsulWatchConfig |-> ConsulWatchConfig, ZkWatchConfig |-> ZkWatchConfig,
   EtcdRegister |-> EtcdRegister(1), EtcdGetInstances |-> EtcdGetInstances(1),
   EtcdRecoverKeepAlive |-> EtcdRecoverKeepAlive, EtcdWatch |-> EtcdWatch,
   EtcdRecoverWatch |-> EtcdRecoverWatch,
   ConsulRegister |-> ConsulRegister(1), ConsulGetInstances |-> ConsulGetInstances(1),
   ConsulKeepAlive |-> ConsulKeepAlive, ConsulWatch |-> ConsulWatch,
   ZkRegister |-> ZkRegister(1), ZkGetInstances |-> ZkGetInstances(1),
   ZkKeepAlive |-> ZkKeepAlive, ZkWatch |-> ZkWatch,
   NacosRegister |-> NacosRegister(1), NacosDeregister |-> NacosDeregister,
   NacosGetInstances |-> NacosGetInstances(1), NacosWatch |-> NacosWatch,
   NacosRecoverSubscribe |-> NacosRecoverSubscribe]
=============================================================================
