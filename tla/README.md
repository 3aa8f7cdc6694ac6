# TLA+ specifications of go-service-link

This directory holds the TLA+ specifications of `go-service-link`: modules that
model its concurrent core, TLC configurations that check them on small
instances, and proofs, checked by TLAPS, of what matters most for instances of
any size. Paths such as `dynaconfig/config_manager.go` are relative to `src/`.

- [The system](#the-system)
- [The modules](#the-modules)
- [Properties](#properties)
- [Runs and bounds](#runs-and-bounds)
- [Fairness](#fairness)
- [Proofs](#proofs)
- [Where code and documentation disagree](#where-code-and-documentation-disagree)
- [What is not modelled](#what-is-not-modelled)
- [Plan](#plan)
- [Running](#running)

## The system

The library has two halves that share a retry helper and pools of clients. A
process uses the first to keep its configuration in step with a configuration
centre, and the second to register itself with a service registry and to find
the instances of other services. The centre and the registry are the same
middleware: etcd, Consul, ZooKeeper or Nacos.

### Dynamic configuration (`dynaconfig/`)

**ConfigManager** (`config_manager.go`). State: `configs`, the map from key to
`*provider.Config` under `mu`; `callbacks` under `cbsMu`; `healthCache`, the
last health status and its time; the context `ctx` and the wait group `wg`.
Operations:

| operation | what it does |
|---|---|
| `NewConfigManager` | builds the provider and starts the health loop |
| `SyncConfig` / `ASyncConfig` | for each key: read the centre, then seed it, adopt its value, or upload the local one, by comparing versions |
| `RefreshConfig` | replaces a local entry, whatever its version, and syncs |
| `Subscribe` | adds a callback |
| `Watch` | starts a goroutine per key that opens a watch on it |
| the watch callback | adopts a newer version and starts the callbacks, under `mu` |
| the health loop | syncs when the centre does not answer a health check |
| `Close` | cancels `ctx`, waits for `wg`, closes the provider |

What is hard. `SyncConfig` may run in several goroutines at once: callers,
`ASyncConfig`, the health loop, a watch loop. It reads the centre, compares
under a read lock, releases it, and writes later under another lock or uploads
over the network; watch callbacks, refreshes and other managers come in
between. The first key that fails ends the call. Callbacks run in goroutines of
their own, in any order. `Close` waits for loops that may themselves wait for a
distributed lock.

It is correct when no interleaving mixes keys or contents, when a manager does
not fall behind what its application gave it, when it ends up with the centre's
version, when what it adopts is announced, and when `Close` ends and leaves
nothing behind.

**Providers** (`provider/*.go`). `GetConfig`, `PutConfig` (with a lock named
after the key, except on Nacos), `WatchConfig`, `HealthCheck`, `Close`. Only the
watches keep state, and they differ: etcd gets a stream of events; Consul polls
once a second; ZooKeeper reads, arms a one-shot watch and reads again when it
fires; Nacos registers a listener that the SDK calls, and never cancels it.
Hard: an event between a read and the arming of a watch, a failure after a lock
is taken, a watch that ends without notice. Correct when no lock is left
behind and no update is missed for good.

**Retry helper** (`foundation/helper/helper.go`). `WithRetry` tests the context,
tries, sleeps and tries again. No state.

### Client pools (`foundation/clientpool/`)

Four pools of the same form: a buffered channel that `New` fills with clients,
`Get` that receives one (and waits), `Put` that gives it back, or closes it when
the channel is full, and `Close` that drains the channel. Every call of a
provider or backend holds a client while it lasts, and calls are nested, so a
goroutine waits for a client while it holds some. Hard: everyone waiting on
everyone; `Close` tests the length and then receives; some paths put their client
back by hand, and some go on using it after they have. Correct when a client that is
taken is in one place, every path puts back what it took, and every call returns.

### Service discovery (`servicediscovery/`)

**DiscoveryWithLB** (`discovery.go`). State: `instances`, the cached lists with
health marks, under `insMu`; `healthCheckStop`, a stop channel per instance that
is checked, under `hcsMu`. `Register` and `Deregister` call the backend and start
or stop a health check. `Watch` merges each list of the backend into the cache,
starts checks for new instances, and passes the list on. `GetInstances` answers
from the cache, which it fills on a miss. A health check is a goroutine that
probes an address at every tick and marks the cached instance, or removes itself
when the instance is gone. Hard: the two locks are taken one after the other;
checks started by different paths for the same instance replace each other; a
fill may be older than the list it replaces. Correct when no stop channel is
closed twice or forgotten, the marks agree with the probes, checks that are
stopped or have lost their instance end, and the cache follows the registry.

**Backends** (`etcd_`, `consul_`, `zookeeper_`, `nacos_discovery.go`). Each keeps
`registeredServices`, what it has to keep registered, and goroutines that keep a
lease, a TTL or an ephemeral node alive and register again what the registry has
lost; so does every other goroutine whose read of the registry fails. Hard: an instance
is recovered while it is deregistered; etcd keeps one lease for all instances, in a
field that every goroutine inside `register` overwrites; the reply to a put may be lost. Correct when what is registered stays so, and what was
deregistered does not come back.

`Watch` of a backend makes a channel of capacity 1 and starts a goroutine that
sends lists on it: etcd answers each response of a stream with a read of all
instances, after a first read by `Watch` itself; Consul polls with blocking
queries; ZooKeeper reads, sends, arms a one-shot watch and waits; Nacos
subscribes, and the SDK calls back. After a failure etcd and Nacos start a second
sender. Hard: who closes the channel, and who may still send on it; a change
between a read and the arming of a watch; the first list racing with the events;
the end of all goroutines when the context is done and the application has
stopped reading; answers that are older than the ones before, from a server or a
session that lags. Correct when nobody sends on a closed channel, the last list is the
registry's, and everything ends.

Nacos has no keep-alive goroutine: each of its calls that fails runs
`checkAndReRegisterServices`, which calls `register`, which when it fails runs
the check again. Every level holds a client of the pool. Hard: a recursion that
waits for clients while it holds some. Correct when it gives all of them back,
every call returns, and a deregistered instance stays gone.

**Balancers** (`balancer/`). Random; round robin with an atomic counter;
consistent hashing over a ring that is cached until the number of instances
changes. One balancer serves all services of a `DiscoveryWithLB`. Correct when a
selected instance is one of those given, turns are fair, and a change of the list
moves no key that need not move.

**Locks.** `ConfigManager` has `mu`, `cbsMu` and the lock of the health cache,
`DiscoveryWithLB` has `insMu` and `hcsMu`, all read-write locks. Correct when no
map is used while another goroutine writes it (the Go runtime ends the process),
every lock that is taken is given back, and nobody waits for one for ever.

**Rest.** `instance.ServiceInstance` is a record. `foundation/extraconfig` and
`foundation/common/tls.go` merge client options and keep no state.

### How the parts interact

    application --SyncConfig/Refresh/Watch/Close--> ConfigManager --> provider --> centre
         ^                                          |   ^                |           |
         +------------- callbacks ------------------+   +-- onChange ----+<- watch --+

    application --Register/Deregister/Watch/Select--> DiscoveryWithLB --> backend --> registry
                                                       | cache | checks      ^          |
                                                       +-- balancer          +- lists --+

    provider, backend --Get/Put--> client pool

## The modules

| module | models | extends |
|---|---|---|
| `ConfigCentre` | the centre as the providers use it: values, locks, watches | |
| `ConfigManager` | `config_manager.go` and the `PutConfig`/`GetConfig` it calls | `ConfigCentre` |
| `DynaConfig` | the watch goroutines of the four providers, the whole system, its properties | `ConfigManager` |
| `ConfigSharing` | abstract: what the managers and the centre promise together | |
| `DynaConfigHistory` | `DynaConfig` with what was once published and held; its mapping to `ConfigSharing` | `DynaConfig` |
| `DynaConfigProofs` | the type invariant, five safety properties, and that it implements `ConfigSharing`, proved | `DynaConfigHistory` |
| `DiscoveryLB` | `discovery.go` for one service | |
| `DiscoveryLBProofs` | its types, its map of channels and its health marks, proved | `DiscoveryLB` |
| `Watches` | `Watch` and `GetInstances` of the four backends, and the goroutine of `DiscoveryWithLB.Watch` | |
| `WatchesProofs` | its types, the Consul and ZooKeeper watches, and the index of Consul, proved | `Watches` |
| `Registration` | how the etcd, Consul and ZooKeeper backends keep instances registered, and the checks that failed reads start | |
| `RegistrationProofs` | its type invariant and the lease in the field, proved | `Registration` |
| `NacosBackend` | the calls of `nacos_discovery.go`, their recursion and the pool | |
| `NacosBackendProofs` | its types, where the clients are, and what `Deregister` achieves, proved | `NacosBackend` |
| `Balancer` | `Select` and the three balancers | |
| `BalancerProofs` | its types, the sort, the owner of a key, and the turns, proved | `Balancer` |
| `PoolPaths` | the paths on which every operation of the providers and backends takes, uses and puts back clients | |
| `ClientPool` | the four pools, and goroutines that walk these paths | `PoolPaths` |
| `ClientPoolProofs` | that every path puts back what it takes, its types, and where each client is, proved | `ClientPool` |
| `Locks` | what each operation of `ConfigManager` and `DiscoveryWithLB` does to the locks and to shared memory | |
| `LockDiscipline` | what it is for one of those paths, alone, to keep the discipline | `Locks` |
| `LocksProofs` | that the paths keep it, and programs of such paths keep no lock and guard the maps, proved | `LockDiscipline` |
| `MC...` | the small instances | the above |

The modules divide the code at calls and channels. `DiscoveryLB` takes the lists of a
backend as given, `Watches` follows them from the registry to the application;
`Registration` and `NacosBackend` have the calls that change the registry;
`PoolPaths` and `ClientPool` have the clients that all calls take, and `NacosBackend` its own pool because
there the recursion is the point; `Locks` asks of the front ends whether the sections that
the other modules take as one step are protected.

Definitions that begin with a comment "Variant:" are not part of a
specification: each is a definition as a plausible mistake would have it, kept
to show that a property notices.

### `ConfigCentre`, `ConfigManager`, `DynaConfig`

| state | code |
|---|---|
| `remote[k]`, `lock[k]` | the value and the lock of a key in the centre (external) |
| `watch[m][k]` | the goroutine or listener that `WatchConfig` leaves, with what it was sent |
| `configs[m][k]` | `m.configs` |
| `thr[m][r]` | where goroutine `r` of `m` stands in `SyncConfig`: the key, the remote value it read, the local value it will upload |
| `loop[m][l]` | the goroutines counted by `m.wg`: the health loop and a watch loop per key |
| `life[m]` | `m.ctx` not cancelled, cancelled, `Close` returned |
| `health[m]` | `m.healthCache` holds a good status under 5 s old |
| `subs`, `runs` | `m.callbacks`, and callback goroutines that have not run |
| `handed`, `edited`, `told`, `seen` | history: what was supplied, what callbacks were started with and ran with |

`SyncConfig` is cut into steps where another goroutine can come between:
`SyncGet` (the request), `Seed` or `Compare` (validation and the snapshot of the
local entry), `Adopt` (the write under `mu`), `SyncNotify`, `PutLock`, `PutStore`;
`SyncGetFails` and `PutFails` are its error returns. `Seed` writes the version it
stamps, and the upload carries the value encoded before the lock was taken, as in
the code. The watch callback holds `mu` throughout, so `OnChange` is one step.
A configuration loses its validation callback on the wire (`Encode`,
`Decode`), so what comes from the centre is validated by the emptiness test only.

Abstractions. Contents are model values. A health check succeeds or fails, and
a bad cached status counts as none, as it does in the code. Retries are one
attempt that succeeds or fails for good; a lost reply is `PutStore` followed by
`Return`. The lock is not lost while it is held: session expiry is not modelled.
The keys are visited in an order that is fixed for a manager
(`KeyOrder`), where the code takes a fresh map order at every call; TLC runs two
keys in one order, and the proofs hold for every order. `Watch` is called once. The application stops calling when `Close`
begins, although its calls under way go on.

### `DiscoveryLB`

`cached`, `cache` are `d.instances[service]`; `checks[i]` is the history of the
check goroutines of instance `i`, with the state of their stop channels; `stop[i]`
is `d.healthCheckStop`: which of them the map holds. `watcher` is the goroutine of
`Watch`, `reader[r]` a caller of `GetInstances` between its miss and its fill,
`app` a caller between the backend and the health check. A tick marks the
instance in one step under `insMu` (`Tick`) or finds it gone (`TickMisses`) and,
later, under `hcsMu`, closes whatever channel the map holds then (`CleanUp`):
its own, or that of a successor. The backend is external: a registry that
changes and, once watched, sends its lists in order. Probes succeed or fail
freely. `FailedChecks` is counted up to `MaxFailed`, beyond which nothing
depends on it. The context of `GetInstances` checks is
`context.Background()` (`bound = FALSE`), so they never end with a context.

### `ConfigSharing` and `DynaConfigHistory`

`ConfigSharing` has no requests, goroutines, locks or watches. For each key the centre
has a value and each manager has one; an operator writes, an application gives; and
values spread by single steps that touch one key at one place: the centre takes over a
versioned value that a manager *has held*, a manager takes over and announces a valid
value that the centre *has published* and that is newer than one it has held. Both may be
late; neither makes anything up. `DynaConfigHistory` adds to `DynaConfig` the history
variables `published` and `held` that the past tense needs, and maps `centre` to
`remote`, `given` to `handed`, `written` to `edited`, `announced` to `told` and `local` to
`configs` without the callbacks.

### `Watches`

| state | code |
|---|---|
| `backend`, `registry` | which backend; the version of the service's entries (external) |
| `view[s]`, `session` | the version that ZooKeeper session `s` of the pool has reached; the session a watch was armed on (external) |
| `call` | the goroutine that calls `Watch`: on etcd it reads and sends the first list itself |
| `go[Main]` | the goroutine that `Watch` starts |
| `go[h]` | further senders: `recoverWatch` (etcd), the callbacks of a subscription (Nacos) |
| `chan`, `closed`, `panicked` | `ch`; whether a goroutine has sent on it after it was closed |
| `out`, `app`, `got` | the goroutine between `ch` and `outCh`; the application and its last list |

A list is the state of the registry at one read, so it is identified with the version
read; a ZooKeeper list may lack a child whose data could not be read (`whole`). Two backends may
answer with an older version than they did before. Each read of ZooKeeper takes the client in
front of the pool, a session of its own that follows the registry at its own pace
(`SessionFollows`), so a list may be older than the one before it, and a watch is armed at
what its session knows. Consul's blocking query waits for an index above the last one
(`go[Main].seen`), and may be answered with a change (`Answers`), without one (`WaitIsOver`), or
by a server that is left behind (`AnswersLate`, a fault), whose index may go back: the code keeps
whatever index comes. A read of ZooKeeper that fails, or meets a session that knows no node of
the service (`NoNode`: the versions in `Absent`, before the first registration), pauses and is
tried again, without a look at the context (`TryAgain`). A `select`
takes any case that is ready, so `Send` and `SendGivesUp` compete, and a send on a closed
channel is ready: it panics. `Watch` is called once. Reconnection inside the etcd and
Nacos clients is theirs; a stream that breaks for good is a fault.

### `NacosBackend`

`thr[t].stack` is the stack of calls of a goroutine, innermost first: `register`,
`checkAndReRegisterServices`, `GetInstances`, `Deregister`, `recoverSubscribe`. Each frame
takes a client (`GetsClient`) and gives it back when it returns (`Returns`, the
`defer`). `registered` is `d.registeredServices`, `hosts` what Nacos has, `idle` the number
of clients in the pool. `Registers` has the four outcomes of `RegisterInstance`: done, answered
false, failed, and failed although it was done. `Named` are the instances for which
Nacos reports the id that the application gave: `register` passes that id as metadata only,
and `Deregister` and the check compare it with the `InstanceId` of Nacos. `gone` is history:
which instances `Deregister` has removed with nobody else at work.

### `Balancer`

`lists` and `fit` are the cached lists and the instances that `filterHealthyInstances`
lets through; both belong to `DiscoveryLB` and change here at any time. `calls[t]` is a
`Select` between that filter and the balancer, `last` the last answer. Hashes are a small
ring of numbers; `Point` places the points of each host, `KeyHash` the keys, so that a key lies above
every point. In `balancer.cfg` all hosts and points are different; that points coincide and
two instances share a host is in `bal_shared_ring.cfg` only, and in the proofs, which hold for any
hosts and points but for `KeysStay`, which has a hypothesis. `RingOf`, `Sorted` (the exchange sort of the code), `NodesOf` and `Lookup` are the algorithm;
`OwnerHosts` is the reference it is compared with. `turns` and `built` are history.

### `Locks` and `LockDiscipline`

An operation is the set of its paths, a path the sequence of its `Lock`, `RLock`, `Unlock`,
`RUnlock` and of its reads and writes of shared memory: the five maps and slices (`Maps`), and
the configurations and lists they point to (`Contents`). `work` is the program of this
process, the operations that each goroutine calls in any order: those of a manager or those
of a discovery. `owner`, `readers` and `queued` are Go's `RWMutex`: a writer that waits keeps new
readers out, so a read lock taken twice by one goroutine may block. `LockDiscipline` states
of each path alone that what it locks it unlocks, in the same mode and once, and that it
reads a map under its lock and writes it under its lock for writing. The paths of
`RefreshConfig` and `Close` break it, as the code does. The call in
`filterHealthyInstances` and the writes of a health check into a list are in the paths
too, as `Contents`.

### `PoolPaths` and `ClientPool`

An operation is the set of its paths, a path the sequence of its `get`, `use` and `put`, each
in the frame (the nested call) whose variable `cli` or `conn` it is about. Where the code has
`defer`, a path is `Deferred`; where it has a `Put` by hand on each way (`consul_provider.go:155`
and `:165`, the loops of Consul and ZooKeeper), each way is a path with a `put` of its own. Where it
goes on with the client after the `Put` (the watches of the providers, the keep-alives and streams
of etcd, `ensureParentNodes`, which creates a node after the call that put the client back, the
`Deregister` and the subscription of Nacos), there is a `use` after the `put` (`GoesOn`).

| state | code |
|---|---|
| `clients` | the channel |
| `work`, `todo[u]` | the operations `u` calls in any order, and what is left of the path it is on |
| `cli[u][k]` | the variable of its frame `k`, which keeps the client after the `Put` |
| `out[u]` | the frames that have taken a client and not put it back |
| `shut`, `closer` | the clients closed; the caller of `Close`, between its test of the length and its receive |

`EtcdDiscovery.Close` takes a client before it closes the pool and never puts it back
(`CloseKeeps`). A tick of ZooKeeper's `keepAliveLoop` that registers again while parent nodes are
missing nests six deep (`keepAliveLoop`, `checkAndReRegisterServices`, `register`, three levels of
`ensureParentNodes`), which the default pool of five cannot serve, even alone. `Depth` bounds the
nesting: a path that nests more is not taken. The recursion of Nacos is unrolled once here;
`NacosBackend` has all of it.

### `Registration`

| state | code |
|---|---|
| `backend` | which of `NewEtcdDiscovery`, `NewConsulDiscovery`, `NewZooKeeperDiscovery` was called |
| `node[i]`, `lease[i]`, `live` | the key, service or node of an instance in the registry, the lease its key stands under, the leases that exist (external) |
| `kept`, `granted` | the leases `KeepAlive` was called for; how many were granted |
| `services` | `d.registeredServices` |
| `leaseID`, `keepAliveCh` | the fields of `EtcdDiscovery`, shared by all goroutines; 0 is nil |
| `thr[App(i)]` | the goroutine that calls `Register` and `Deregister` for `i` |
| `thr[Keeper(i)]` | the goroutine its `Register` started: `watchKeepAlive` and `recoverKeepAlive`, or `keepAliveLoop` |
| `thr[<<"caller", c>>]` | any other goroutine: one inside `GetInstances`, `Watch` or `recoverWatch` |
| `unsure`, `overlap` | history: the leases of puts whose reply was lost; whether two goroutines have been inside `register` of etcd at once |

`register` is cut at each request: `Grant`, `EtcdPut` and `KeepAlive` on etcd, `ConsulPut`,
`ZkPut` (with the parent nodes, which are never deleted). The field `leaseID` is read again
at the put, at `KeepAlive` and at the revocation, as in the code, so another goroutine's
lease may be used. `Snapshot` and `Checks` are `checkAndReRegisterServices`, which visits
the instances in any order and calls `register`. A keeper runs it after a loss, and a caller
when its read has failed (`ReadFails`): the error paths of `GetInstances` on the three backends,
of `recoverWatch` on etcd and of the blocking query on Consul. So keepers, callers and the
application may be inside `register` at the same time. `RegisterFails` either retries the
check, as `WithRetry` does, or ends the recovery; `ReplyLost` is the put that took effect all the
same, after which it is sent again or `register` returns the error. `EntersSelect` evaluates
`d.keepAliveCh` as the `select` does: a keeper then waits on that channel, whatever the
field becomes. `Deregister` is `Delete`, `Revoke`, `Forget`; a failure of the revocation is
ignored.

Abstractions. An instance is registered once. The context is not cancelled, and the
discovery is not closed. Leases and sessions end as a fault, at any time. A
`KeepAlive` of a lease that has gone returns a channel that is closed. A request
succeeds, fails for good, or (a put or a delete) takes effect without a reply. A read of the shared fields is one step: their race is
that of interleaved values only.

## Properties

| property | in words | could break when |
|---|---|---|
| `TypeOK` (each module) | types; no goroutine adopts, uploads or delivers a value it does not have | an error path falls through, a loop runs past its keys |
| `NoInvention` | what the centre, a manager or a callback has for a key was supplied for that key, version and content together | closures capture the wrong key, half a configuration is copied |
| `NeverBelowHanded` | a manager's version is at least one its application handed it, however old a snapshot a sync adopts | versions are compared the wrong way |
| `NoOrphanLock` | a lock is held only by a goroutine about to store under it | an error path keeps it |
| `CloseQuiesces` | after `Close` no loop is inside `SyncConfig` | `Close` does not wait for all of them |
| `CloseTerminates` | `Close` returns | loops and lock holders wait for each other |
| `HotReloadComplete` | what was adopted has been announced, or is about to be | a path writes and does not notify |
| `CatchesUp` | a write to the centre that meets an open watch, wherever in its cycle, is reached: the manager comes to hold the version the centre then has, or a later one | a poll or one-shot watch is not renewed, or is armed late |
| `OpenIffInMap` | a check's stop channel is open exactly when the map holds it | a channel is closed twice (a panic) or forgotten |
| `HealthyIffFewFailures` | healthy exactly while fewer than `MaxFailed` probes failed | a merge mixes old counts and new marks |
| `StoppedChecksExit`, `OrphanChecksExit` | a check that was told to stop, or whose instance is gone for good, ends | a case is missing in a select, a tick does not notice |
| `WatchesEnd` | after `Close` no watch of a configuration goes on | a goroutine waits for an event only |
| `ImplementsSharing` | every step passes one value on for one key, or changes nothing | a step touches two keys, or announces what was never published |
| `OneSenderNeverPanics` | nobody sends on `ch` after it was closed (Consul, ZooKeeper) | a path closes and goes on |
| `AsksAfterNewest` | Consul's next query waits after exactly the newest list on its way or delivered, through queries that fail and answers whose index goes back | the index is kept at its highest, or taken from a query whose list was not sent |
| `LastListIsCurrent` | when changes stop, the last list delivered is the registry's: on Consul whatever failed, on etcd and Nacos if nothing did | a stream is opened after the read |
| `LatestIsDelivered` | a Nacos callback that reports an error loses no list | the error is only logged |
| `WatchEnds` | the goroutines of a watch end with the context, also from the pauses after reads that failed (not on Consul, nor on ZooKeeper where the service was never registered) | a wait without a case for the context, a loop that tests something else |
| `ClientsComeBack` | when no call is under way every client is in the pool | a path of the recursion keeps or doubles one |
| `CallsReturn` | with two clients more for each failure, every call of the Nacos backend returns | the check looks again without end |
| `DeregisteredStaysGone` | what `Deregister` has removed, no later check registers | the entry is not forgotten |
| `DeregisterWorks` | `Deregister` of a registered instance that kept its name succeeds and removes it | the address found is not passed on |
| `OwnerSelected` | a `Select` by hash answers as the reference does for the list the ring was built from | the sort, the search or the wrap is off by one |
| `MovesOnlyWhenNeeded` | a key moves only to a host that has joined or from one that has left | a point depends on the place in the list |
| `TakesTurns` | while the same list is given nobody is chosen twice more than another, across a wrap of the counter | the counter is read and advanced in two steps |
| `MapsGuarded` | no map is used while another goroutine writes it | an access outside the lock |
| `EveryOperationEnds` | no operation waits for ever for a lock | two locks taken in opposite orders, a callback called under its lock |
| `OnePlace` | a client that is taken and not put back is in one place: no other call has it, it is not in the channel or closed | two `Put`s on one path |
| `NoneLost` | an operation that has ended has put back what it took; until `Close` no client leaves | a path without its `Put` |
| `EveryCallReturns` | with more clients than nested calls can hold while they wait, every operation ends | a client is not given back, a level of nesting waits for those below |
| `LeaseServesKey` | on etcd, with one instance and no two goroutines inside `register` at once: the lease in the field exists and is the one the key stands under, and it is kept alive unless a `KeepAlive` failed or the reply to the put was lost | a check registers what is there, a failed step leaves the fields and the key apart |
| `ComesBack` | an instance that stays registered is up again and again, unless its keeper is deaf | a recovery skips an instance, a keeper ends after a failure |

The properties that the code does not have are
[below](#where-code-and-documentation-disagree).

Some of these say less than one might hope, for the code promises no more.
`NeverBelowHanded` speaks of *one* of the handed versions because a refresh with a
lower version is accepted. `CatchesUp` says that each write is *reached*, not that it is kept: a
sync that has read before may adopt its older snapshot afterwards, and then nothing reads the
key again while the centre is healthy (`StaysInStep`, below). It is claimed of writes that
meet an open watch, and of the providers that poll: on etcd a change between the read of a sync
and the opening of the watch is never delivered, because the watch starts at the present revision.

`OneSenderNeverPanics` and `LastListIsCurrent` are claimed of the backends
that have them; what the others do instead is in `NoSendOnClosed` and `EveryChangeArrives`,
below. That lists arrive in order is claimed of no backend: with ZooKeeper's sessions and with a
Consul server that is left behind they do not (`NeverGoesBack`, below). What Consul
keeps through that is that its index and its list go back together (`AsksAfterNewest`), so that
the next change is not passed over.

`OnePlace` is about clients that are taken. A call that goes on with its client after the `Put`
shares it with whoever takes it next, and may find it closed (`UsedByOne`, below).

`TakesTurns` is claimed where one service uses the balancer, and `OwnerSelected` speaks
of the list the ring was built from, which may not be the list that was given.
`DeregisteredStaysGone` excepts a check that was under way. `TakesTurns` holds across a wrap because the
length of the lists divides `Wrap`, which is 6; 2^64 is no multiple of three, so the code makes
one irregular turn in 2^64 for a list of three.

`LeaseServesKey` and `ComesBack` are claimed of one instance per etcd object, because the
fields hold one lease: with two, the keepers listen to the lease granted last, and a
loss of the other goes unnoticed. `LeaseServesKey` is claimed while no two goroutines have been
inside `register` at once, which even with one instance they may be: a failed `GetInstances` runs the
check while the keeper does, or while the application still registers (`FieldsAlwaysFollow`,
below). Nor does the code keep a lease alive whose put took effect with its reply lost: the
check that follows finds the key and leaves it. `ComesBack` excepts the states (`Listens`) in which
a keeper is deaf for good: it has ended; it listens to nil; or it listens to a live lease
that is not the key's. TLC found ways to the last: a recovery is granted a lease, its
put fails, the next recovery calls `KeepAlive` for that lease and fails too; a caller's
check does the same in between; or a `Delete` takes effect with its reply lost. From then
on the keeper receives the heartbeats of a lease under which there is no key.

## Runs and bounds

| run | instance | checks | distinct states |
|---|---|---|---|
| `cm_etcd` | etcd; 2 managers, 1 key, an application goroutine each; shipped versions 2 and 1, refresh to 3, edit to 3; `MaxCalls` 2 | `TypeOK`, `NeverBelowHanded`, `NoOrphanLock`, `CloseQuiesces`, `HotReloadComplete` | 652,687 |
| `cm_zookeeper` | ZooKeeper; 1 manager, 1 key, an application goroutine beside the loops; refresh to 3, edits to 3 and 4; `MaxCalls` 4; `FairSpec` | `CatchesUp`, `CloseTerminates`, `WatchesEnd` | 188,548 |
| `cm_nacos` | Nacos; 1 manager, 2 keys, an application goroutine that may refresh to 3, a subscriber, a validator that skips, an unversioned entry, edits that are empty or newer; `MaxCalls` 2 | `NoInvention` | 1,886,812 |
| `cm_sharing` | Consul; 2 managers, 1 key, an application goroutine each, edit to 3; `MaxCalls` 2; `HSpec` | `ImplementsSharing` | 399,922 |
| `lb_checks` | 1 instance, 1 reader, `MaxFailed` 2, `MaxChecks` 3, `MaxChanges` 2; `FairSpec` | `TypeOK`, `OpenIffInMap`, `HealthyIffFewFailures`, `StoppedChecksExit`, `OrphanChecksExit` | 154,314 |
| `watches` | each of the four backends; 3 versions, the first before the service is registered, the third empty; 2 ZooKeeper sessions; 2 further senders; 1 fault on ZooKeeper, 2 on the others; `FairSpec` | `TypeOK`, `OneSenderNeverPanics`, `AsksAfterNewest`, `LastListIsCurrent`, `LatestIsDelivered`, `WatchEnds` | 105,504 |
| `reg_keepers` | etcd and Consul with 1 instance and 3 faults, ZooKeeper with 2 instances and 2 faults; 1 caller; `MaxLeases` 10; `FairSpec` | `TypeOK`, `LeaseServesKey`, `ComesBack` | 311,735 |
| `nacos` | 2 goroutines with 2 calls each, 2 instances of which Nacos renames one, pool of 8, 1 fault; `FairSpec` | `TypeOK`, `ClientsComeBack`, `DeregisteredStaysGone`, `CallsReturn`, `DeregisterWorks` | 364,422 |
| `balancer` | 2 goroutines, 1 service, 3 instances; the ring with 2 points each on 8 hashes, 2 keys, 2 calls each, 2 changes; the others with 4 calls each, 1 change, `Wrap` 6 | `TypeOK`, `TakesTurns`, `OwnerSelected`, `MovesOnlyWhenNeeded` | 854,691 |
| `pool_calls` | each provider and each backend, with a goroutine of its own and one of the application, both nested up to 2 deep; 3 clients; `FairSpec` | `TypeOK`, `OnePlace`, `NoneLost`, `EveryCallReturns` | 436,650 |
| `locks` | 3 goroutines of a manager, or 3 of a discovery; `FairSpec` | `TypeOK`, `MapsGuarded`, `EveryOperationEnds` | 39,566 |
| `reg_deregister` | etcd; 2 instances, `MaxLeases` 3 | `RegistryMatches`: violated | |

What the passing runs show, in the order of the table: two managers that sync,
refresh, watch, fail and close never use a value they do not have, never leak a
lock, never fall below what their application gave them, announce what they adopt, and leave
nothing behind in `Close`; a manager that arms one-shot watches reaches each version a watch meets,
and can be closed while its loops wait for the lock of a key, after which its
watches end; closures, refreshes and syncs that abort half-way never mix keys or contents; whatever
two managers do to each other through the centre, every step is one of `ConfigSharing` or none; stop
channels and check goroutines match whatever the interleaving of ticks, lists and calls; the
last list of a watch is the registry's where the backend can miss none, Consul asks for the
changes after it, and the goroutines end with the context; keepers register again what
the registry loses, and as long as checks do not overlap under the lease they keep; the recursion of
the Nacos backend ends, gives back its clients and brings nobody back from the dead; turns are
fair and keys stay where they are; every path puts back its clients, and those that are taken
are neither shared nor lost; the maps are guarded and no lock is waited for without end.

Bounds. `MaxCalls` of the managers limits the calls of `SyncConfig`, the refreshes, the health
failures and the edits of a behaviour together; every step inside a call is free. Two managers are
needed where the property is about the centre or about locks between processes, and one key is
then enough, for keys do not interact except through the order in which one
`SyncConfig` visits them; `cm_nacos` has two keys for that. A stale snapshot takes two calls, one
to read and one to overtake it, but to leave a manager behind takes more: an edit, a sync that
reads it, a second edit that the watch delivers, and the adoption of the first. `cm_zookeeper`
has four calls and two edits for that; a second manager would write to the centre as the
operator does and take the lock as the application's goroutine does. Versions run over 0
(unversioned) to 4, contents over two valid ones, one of which a callback may skip, and the empty
one. In `lb_checks` three checks of one instance may exist, enough for one that
is dying, its successor and a third; instances do not interact. `MaxFailed` is 2 so that
"failed, but not enough" exists. In `watches` three versions let a change fall before, between
and after any two steps of a watch, with the service absent, there and empty; two sessions let one be
behind the other by any of them; two faults let a recovery fail too, and with two faults at most
two further senders start; on ZooKeeper, where there is no recovery, one is enough for each way to
fail. In `nacos` one failure makes the whole recursion run (a check registers several instances one
after the other), and eight clients are what two goroutines may hold then; two calls each let one
goroutine register and deregister beside any two calls of the other. In `balancer` two calls
build the ring and use it, with a change before each; `Wrap` 6 lets the counter wrap in
the middle of the eight turns. `pool_calls` has the smallest pool that is large enough for two
goroutines that nest two deep: with one client less they deadlock. Every operation has
paths of that depth; those that nest deeper are left to the proofs, which hold for any depth, and to
`pool_drained.cfg`, which walks them six deep. In `reg_keepers` the three faults on etcd are enough
for every way found for a keeper to become deaf, and a caller, which needs a fault to start, may
run its check beside the keeper's and the application's; instances interact on ZooKeeper and Consul
only in that each keeper's recovery registers the others', for which two are enough (ZooKeeper has
them). `MaxLeases` is never reached there: a blocked `Grant` would violate `ComesBack`. In `locks` an
operation is repeated without limit, and a deadlock or a race needs two goroutines; the third is
a writer or reader that waits between them.

`CHECK_DEADLOCK` is off everywhere: the systems may stop, when everything is
closed or the bounded calls are used up, and a blocked goroutine is what the
liveness properties are about.

## Fairness

`DynaConfig.FairSpec`. A goroutine that can move moves: the Go runtime schedules
it, and the centre answers or fails. So: weak fairness of the steps of
`SyncConfig`, of the loops, of the watch goroutines, of `Close` and of callback
goroutines. Nothing obliges the application to call, a request to fail, or a
cached status to age. Three finer points:

- After `Close` the pool of a manager is drained, so a request that has still to
  take a client may wait for ever: the fairness of `SyncStep` is conditional on
  `life[m] # "closed"`. A goroutine about to store has its client in hand
  (`PutStore` is fair by itself).
- A poll may fail, but not every poll of an endless series does: strong fairness
  of `PollReads` (`CatchesUp` would be void against a centre that never answers).
- A distributed lock that is freed again and again may always go to another
  waiter; only weak fairness is assumed of `PutLock`.

`DiscoveryLB.FairSpec`. Tickers fire and goroutines are scheduled: weak fairness of
`TickMisses` and `CleanUp`. `Exit` is strongly fair because a select with several
ready cases picks one at random, so a stop channel that stays closed is not passed over
for ever in favour of ticks. Nothing is assumed of the registry, the application,
or the consumer of the channel `Watch` returns.

`Registration.FairSpec`. Tickers fire, the registry answers or fails, and goroutines are
scheduled: weak fairness of each thread and of the steps of `Deregister`. Nothing obliges the
application to call; faults are bounded, so the registry is in the end reliable.

`Watches.FairSpec`. Goroutines are scheduled, requests are answered, blocking queries end and
one-shot watches fire after a change, without having to fail: weak fairness of the call, of
the goroutine behind `outCh` and of each sender. A `select` takes one of its ready cases at
random, so the case of the context is taken in the end even where another is ready again
and again: strong fairness of `SendGivesUp` and of ZooKeeper's `WaitEnds`. Every ZooKeeper session
catches up with the registry (weak fairness of `SessionFollows`), though nothing says when;
nothing obliges Consul to answer without a change, or late. The application
calls `Watch` and reads `outCh` until it leaves; nothing obliges it to leave, the registry to
change, or the context to end.

`NacosBackend.FairSpec`. A goroutine that can go on does, without having to fail (weak
fairness of `Step` without a fault); one that waits for a client gets one if clients keep
coming back, since a channel serves its receivers in turn (strong fairness of `GetsClient`).

`Locks.FairSpec`. Goroutines are scheduled (weak fairness of `Step`), and a mutex keeps nobody
waiting for ever while others take it again and again, which is the starvation mode of
`sync.Mutex` (strong fairness of `Asks`). No goroutine has to begin an operation.

`ClientPool.FairSpec`. A call that does not wait for a client goes on (weak fairness of `Use` and `Put`);
receivers blocked on a channel are served first come, first served (strong
fairness of `Get`). Nothing obliges a call to begin.

## Proofs

All from the named assumptions on the constants: `CentreAssumption` (the
values are what their names say, and `Nil` is none of them) and
`ManagerAssumption` (`KeyOrder[m]` visits every key, the role names do not
clash) for `DynaConfigProofs`;
`RegistrationAssumption` (the backends, the instances each
owns, the bounds are numbers) for the two of `RegistrationProofs`; `DiscoveryAssumption`
(`Nil` is no address, `MaxFailed` is positive) for the three of `DiscoveryLBProofs`;
`PoolAssumption` (size and depths are positive, the users finitely many, their programs made of
the operations of `PoolPaths`) for those of `ClientPoolProofs`; `WatchAssumption` (which the backends are, the bounds are numbers) for the
three of `WatchesProofs`; `LocksAssumption` (a program gives each goroutine some operations) for
the theorems of `LocksProofs`; `NacosAssumption` (the pool has a client, the bounds are numbers)
for the four of `NacosBackendProofs`; `BalancerAssumption` (which the balancers are, hashes are
numbers, each host has `Points` of them) for the five of `BalancerProofs`.
Nothing is assumed of the number of managers, keys, goroutines, configurations, calls,
instances, callers, readers, checks, leases, sessions, versions or faults, nor of the provider.

The theorems about the states of `Locks` have a hypothesis, `DisciplinedWork`: nobody calls
`RefreshConfig` or `Close`, whose paths break the discipline. Two theorems about `Balancer` have
one, too, which the code does not guarantee:

- `KeysStay`: no two hosts have a hash in common (`NoSharedHash`). Where two do, the hash belongs
  to the one that comes last in the list, so that a change of the order alone moves keys. The
  library does not look for such hashes; `crc32` makes them rare.
- `TurnsAreTaken`: there is one service, because all services share the counter, and the counter is not at
  `Wrap - 1` unless the length of every list divides `Wrap` (`EvenWrap`), because otherwise
  the round in which it wraps is cut short.

| theorem | property | inductive invariant |
|---|---|---|
| `TypeCorrect` (`DynaConfigProofs`) | `TypeOK` | `TypeOK` itself: `Types /\ SyncShape /\ WatchShape` |
| `CloseLeavesNoSync` | `CloseQuiesces` | `QuietInv` |
| `LocksAreReturned` | `NoOrphanLock` | `NoOrphanLock` itself |
| `VersionFloor` | `NeverBelowHanded` | `FloorInv` |
| `Provenance` | `NoInvention` | `AuthInv` |
| `NothingUnannounced` | `HotReloadComplete` | `HotInv` |
| `SharingImplemented` | `ImplementsSharing` | `ShareInv`, with `TypeOK` and `QuietInv` |
| `RegistrationTypeCorrect` (`RegistrationProofs`) | `TypeOK` of `Registration` | `TypeInv` |
| `FieldsServeKey` | `LeaseServesKey` | `SoloInv`, with `TypeInv` |
| `DiscoveryTypeCorrect` (`DiscoveryLBProofs`) | `TypeOK` of `DiscoveryLB` | `LBInv` |
| `ChannelsMatchMap` | `OpenIffInMap` | `LBInv`, whose part `CheckInv` contains it |
| `MarksMatchCounts` | `HealthyIffFewFailures` | itself, with `LBInv` |
| `PathsPutBack` (`ClientPoolProofs`) | | none: it is about the paths |
| `PoolTypeCorrect` | `TypeOK` of `ClientPool` | `PoolInv` |
| `ClientInOnePlace` | `OnePlace` | `PoolInv` |
| `NoClientLost` | `NoneLost` | `PoolInv` |
| `WatchTypeCorrect` (`WatchesProofs`) | `TypeOK` of `Watches` | `TypeOK` itself |
| `WatchNeverPanics` | `OneSenderNeverPanics` | `WatchInv` |
| `IndexFollowsList` | `AsksAfterNewest` | `WatchInv` |
| `PathsAreDisciplined` (`LocksProofs`) | | none: it is about the paths |
| `NoLockKept` | `TypeOK` of `Locks` | `LockInv` |
| `MapsAreGuarded` | `MapsGuarded` | `LockInv` |
| `NacosTypeCorrect` (`NacosBackendProofs`) | `TypeOK` of `NacosBackend` | `CallsInv` |
| `NacosClientsComeBack` | `ClientsComeBack` | `CallsInv` |
| `NacosDeregisteredStaysGone` | `DeregisteredStaysGone` | `GoneInv`, with `CallsInv` |
| `NacosDeregisterWorks` | `DeregisterWorks` | `SoloInv`, with `CallsInv` |
| `SortIsCorrect` (`BalancerProofs`) | | none: it is about `Sorted` |
| `BalancerTypeCorrect` | `TypeOK` of `Balancer` | `TypeOK` itself |
| `OwnerIsSelected` | `OwnerSelected` | `RingInv`, with `TypeOK` |
| `KeysStay` | `MovesOnlyWhenNeeded` | `RingInv`, with `TypeOK` |
| `TurnsAreTaken` | `TakesTurns` | `TurnsInv`, with `TypeOK` |

**TypeCorrect.** `SyncShape` says that a goroutine inside `SyncConfig` stands at a key
that exists and has the value its next step needs, `WatchShape` the same of watches;
`WatchShape` also needs that a key once stored never disappears. One lemma per
group of actions.

**CloseLeavesNoSync.** `CloseQuiesces` is not inductive: it says nothing before
`Close`. `QuietInv` adds that a loop is inside `SyncConfig` only while its mark (what
the wait group counts) says so, and that a closed manager's loops are marked finished;
`LoopsIdle` is what keeps a loop that has finished from being inside.

**LocksAreReturned.** Lemma `Moves` reduces a step of the system to: nobody moves in
`SyncConfig` and no lock changes; somebody enters it; somebody inside takes a
step. The first two are immediate; the third has a case for each of the steps
that touch the lock.

**VersionFloor.** Between `Compare` and `Adopt` the comparison may become false, so the
invariant is not "what is adopted is above the entry". `FloorInv` says that what a
goroutine is about to adopt is above *some* version the application handed over:
true when it compared, and it stays true because the set of handed versions only
grows.

**Provenance.** `AuthInv` extends `NoInvention` to what is on its way: values that
goroutines have read or will upload (`InHand`), and values that watches carry
(`OnWatch`). `WatcherData` states once, for all providers, what a watch may deliver.

**NothingUnannounced.** `HotReloadComplete` says that a configuration in use that came from the
centre has been announced, or that the goroutine which stored it is about to announce it. It is
inductive together with `Versioned` (what a goroutine is about to adopt has a version): a write
by another goroutine in between announces its own value, and an announcement is never
taken back.

**SharingImplemented.** Every step of `DynaConfigHistory` is a step of `ConfigSharing` on one key or
changes nothing there. The difficulty is that the code acts on snapshots: by the time a
goroutine adopts a value the centre may have another, and the entry it was compared with may
be gone. That is what the history variables are for. `ShareInv` says that they hold what they
should (`Recorded`: the present values are among them), that what a goroutine is about to adopt
was published and is newer than something its manager held (`HandsFit`), and that what a watch
carries was published (`WatchesFit`). All of these grow only (lemma `FitsGrows`), so the other
goroutines' steps keep them. Then one lemma for each group of actions, as in the other proofs.

**WatchNeverPanics, IndexFollowsList.** `WatchInv` adds to the types, for Consul and ZooKeeper, that only
`Main` ever works and that `ch` is closed only when `Main` has ended (`OneSender`); and for
Consul, that the index stands where the list does that `Main` is about to send, and once
that is sent, where the newest list does among those in `ch`, in the hand of the goroutine behind it
and delivered (`InStep`). `WorkingKeeps` deals with the steps that neither send nor close,
`ConsulKeeps` with those that ask and answer, late answers among them.

**PathsAreDisciplined.** The discipline of a path follows from that of its parts, as in a logic for
programs. `Sound(W, R, b)` says that the part `b` may stand where the locks in `W` are held for
writing and those in `R` for reading, and leaves them as it found them. There is a rule for
nothing, for one part after another (`SoundBoth`), for an access (`SoundReads`, `SoundWrites`), and
for a section under a lock (`SoundLocked`, `SoundRLocked`). A path is a program of such parts.

**NoLockKept, MapsAreGuarded.** `LockInv` ties a lock to what its holders have still to do: what
remains of a path is itself in order (`Ordered`, the form in which the discipline of a whole path
survives each of its steps, lemma `OrderedTail`); who owns a lock has next to `Unlock` it, or
waits for its readers, and who reads has next to `RUnlock` it, and the other way round (`Owning`, `Reading`); and a lock has
no readers beside an owner that is past `Lock` (`Apart`). A goroutine that writes a map then owns its lock, and one that
reads it owns it or is a reader. One lemma for each action of the mutex.

**RegistrationTypeCorrect.** `TypeOK` is not inductive, because `KeepAlive` is called for
whatever lease is in the field: `Stages` adds that there is one by then (a put follows a
grant; a recovery follows the end of a channel, which was some lease's).

**FieldsServeKey.** `LeaseServesKey` says nothing of the time between the check that found
no key and the put that makes one. `SoloInv` adds that nobody knows of an instance that has not
been registered (`SoloThreads`: the copies that keepers and callers have made are among `Known`), and
that whoever is about to grant a lease does so while there is no key (`SoloLeases`): true of the
application because it comes first, and of a check because what it has seen stays true as long as
nobody else puts. That nobody else is inside `register` is the hypothesis, which the history
variable `overlap` records; without it the property is false of the code (`reg_outside_check.cfg`).
The rest of the argument is what the hypothesis leaves: any number of callers that begin and end
their checks between each other's, failed grants and puts, replies that are lost, leases that
end between any two steps. `QuietMove` and `QuietGoto` deal once with all the steps
outside `register`, `PutServes` with the puts, whether or not their reply arrives. With two instances
the property fails: that is the run `reg_deregister`.

**ChannelsMatchMap.** `OpenIffInMap` is inductive once the map's entries are in range.
A start adds one open channel, and only for an instance the map does not have
(`StartKeepsChecks`); a stop and a clean-up close the one the map has, after which no
channel of the instance is open, so that the map may have none (`StoppedAllTold`,
`AllToldKeepsChecks`). It does not matter whose channel a clean-up closes.

**MarksMatchCounts.** `Probed` keeps the agreement of mark and count because the two
branches of a tick set both; `Merged` because an unhealthy instance starts afresh instead of
keeping its count.

**PathsPutBack.** `Runs(p, A, B)` says that a path can be walked where the frames in `A` hold a client, taking
only where there is none and putting back only where there is one, and that those in `B` hold one at its
end. A path is `Tidy` from frame `k` on when it leaves as they are whatever frames before `k` hold a
client. There is a rule for each way to build a path: nothing, a use, one after another, a section
between a get and a put, and the sets of paths of `Deferred`, `UsesThen` and `GoesOn`; then a lemma for each
provider and backend.

**ClientInOnePlace, NoClientLost.** `Walks` carries this along: what is left of a goroutine's path puts back
exactly what the goroutine has taken (`out`), and so each of its steps finds what it needs. The rest of
`PoolInv` speaks of the sets of clients that the channel and the calls hold: they are different
(`Apart`), and with the closed and the kept ones they are all clients (`Complete`). That `Put` finds
room is the pigeonhole lemma `RoomForMissing`: a channel without repetitions that lacks the client in
hand cannot be full.

**NacosTypeCorrect, NacosClientsComeBack.** `CallsInv` has two parts besides types. `Shape` says what a stack of
calls may look like: each frame below the top waits for one its function calls, and `Deregister`
is only at the bottom, under its own `GetInstances`. `Clients` counts: the idle clients and the frames that
hold one (`Held`, a finite set of pairs of a goroutine and a depth) are `PoolSize` together. Every
step of a goroutine does one of four things to its stack (lemma `StepIs`): it takes a client,
goes on, calls, or returns, which gives the client of the frame back. So each half is proved of
four shapes of step, and not of each action.

**NacosDeregisteredStaysGone.** The danger is a copy of `registeredServices` made before. `GoneInv` says that
nothing on any stack knows of an instance that is gone (`Free`): no `register` for it, and no
check with it still to visit. It holds at the moment of the removal because only then, with nobody else
at work, does the history variable call the instance gone; afterwards a frame learns of
instances from its caller or from `registered` only.

**NacosDeregisterWorks.** `Deregister` finds the instance by asking for all instances. `SoloInv` says, while
nothing has failed, of a goroutine that is alone: what is registered is in Nacos, but for the instance it is
about to register (`Missing`), the last answer on its way up the stack is a good one, and a
`Deregister` that has looked its instance up has the address.

**SortIsCorrect.** The loops are recursive functions over the places of the ring, as the code has them. Induction
comes from the fact that a set of numbers has a least element (`LeastNumber`, `UpTo`), because the theorems of
the library take an operator, and a loop that is a recursive function runs step by step
(`LoopRuns`). After the sweep of place i that place has the least hash of those from there on
and the places before it are untouched (`SweptSorts`); an exchange keeps the values
(`ExchangedSweeps`).

**OwnerIsSelected, KeysStay.** `RingInv`: the ring is the sorted ring of `built` and `nodes` its map, and a goroutine
in `Select` has a key of `Keys`. In a sorted ring the first hash not below another is the nearest
going up, or the lowest (`LookupIsNearest`), and `nodes` has for it an instance with that point. `KeysStay`
compares two such rings: the nearest point of the one is either the nearest of the
other or one that the other lacks, which belongs to a host that the other lacks.

**TurnsAreTaken.** `TurnsInv` describes the counts by the counter: the instance at the place of the
last turn and those at the places before it that have had their turn in the same round have been chosen
once more than the others (`InRound`, `NextTurn`), from the first turn that a list is given for (`FirstTurn`); so
nobody is two turns ahead (`NoTurnTwice`). That adding one to the counter moves to the next place, and
from the last to the first, is a fact about remainders (`CounterTurns`, from `OneQuotient`).

What remains with TLC: everything about liveness (`CatchesUp`, `CloseTerminates`, `WatchesEnd`,
`StoppedChecksExit`, `OrphanChecksExit`, `EveryCallReturns`, `ComesBack`, `LastListIsCurrent`,
`LatestIsDelivered`, `WatchEnds`, `CallsReturn`, `EveryOperationEnds`), which is beyond the prover.
Every invariant and action property of the passing runs is stated by a theorem. The
instances of the runs are bounded by `MaxCalls`, `MaxChecks`, `MaxChanges` and `MaxFaults`;
the theorems hold for every value of them, and a behaviour has
finitely many calls at any time, so the bounds do not weaken them.

## Where code and documentation disagree

The run `reg_deregister` is expected to end in a counterexample. The other configurations and
properties named here are not among the runs above: they are checked by hand when the code they are about
changes, and each of them ends in a counterexample, too. Where only a property is named, it
is checked with the constants of the run named with it, in place of the run's properties. Each states a sentence of `README.md`,
or an assertion of a test, as a property that the code does not have.

Dynamic configuration:

- `cm_centre_goes_back`: *"Uses distributed locks ... to ensure the safety of
  configuration updates"* (`README.md:30`). An upload is decided on a snapshot,
  then the lock is taken, and nothing is read again: a newer version that another
  manager or an operator has stored meanwhile is overwritten by an older one.
- `cm_local_goes_back`: *"Automatically updates based on version control. When the
  configuration center's version is higher than the local version, it syncs to the
  local system"* (`README.md:308`). `SyncConfig` compares, releases the lock, and stores
  its snapshot under another lock over a newer version a watch callback has stored.
- `cm_stays_behind`: the same sentence. A sync reads version 3, the watch delivers 4, the sync adopts 3
  (`config_manager.go:159-162`): nothing reads the key again while the centre is healthy, and the
  manager stays behind (`StaysInStep`).
- `cm_etcd_misses`: *"monitors configuration changes in real-time, and triggers hot
  reloading"* (`README.md:28`). The etcd watch opens without a revision, so a change between the
  read of a sync and the opening is not delivered, and nothing reads the key again.
- `cm_watch_lost`: *"Automatically reconnects to disconnected configuration centers
  and retries failed operations"* (`README.md:32`). When `WatchConfig` fails while the
  cached health is good, the watch loop syncs once and returns: no watch is left.
- `locks_refresh`: `RefreshConfig` reads `m.configs` without `m.mu` (`config_manager.go:182`); where a
  watch callback writes the map at that moment the Go runtime ends the process.
- `locks_contents`: the README starts a sync with `manager.ASyncConfig(ctx)` and then does
  *"Testing read the configuration content in real time"* (`README.md:402`, `:420`).
  `SyncConfig` sets `Version` after it has released `mu`, in the configuration that
  `GetLocalConfig` gives away as a pointer.

Service discovery:

- `lb_stale_fill`: *"Clients dynamically retrieve service lists from middleware, with
  real-time monitoring of service changes"* (`README.md:25`). `GetInstances` fills the
  cache with a list it fetched before `Watch` merged a newer one.
- `lb_close`: *"Properly cleans up resources (connections, listeners) when the
  application terminates"* (`README.md:33`). `Close` hands whole map keys to a function
  that expects service names, so no health check is stopped.
- `reg_deregister`: `discovery_test.go:124-131` registers two instances through one etcd
  object, deregisters the first, and asserts `assert.Len(t, instances, 1)` and that the
  second is left. `Deregister` revokes `d.leaseID`, which is the lease of the second.
- `reg_outside_check`: the README's sentence about reconnecting (`README.md:32`). A failed `GetInstances` runs the check
  on the goroutine that called it; while the keeper or the application is inside `register` each of them grants a lease,
  and the field and the key part (`FieldsAlwaysFollow`), even with one instance.
- `UsedByOne` with `pool_calls`: `README.md:33`, as above. Clients are used after they are put back
  (`zookeeper_provider.go:205` and `:210`, `etcd_provider.go:144`, `nacos_discovery.go:306` and `:309`), when another
  goroutine may have taken them, or `Close` may have closed them.
- `pool_drained`: `README.md:32`. One `keepAliveLoop` of ZooKeeper, alone with the default five clients, waits for
  a sixth while it holds them all.
- `WatchReturns` with `watches`: `discovery_test.go:46-57` calls `Watch` and expects a list. `Watch` of etcd
  starts the goroutine that sends on `ch`, reads, and sends on `ch` itself, where nobody can
  receive yet: when an event has made the goroutine fill `ch`, `Watch` never returns.
- `NoSendOnClosed` with `watches`: `README.md:33`, as above. `Watch` of etcd may be about to send, a `recoverWatch` may
  be reading, and a Nacos callback may be at its `select`, when the first goroutine ends and
  closes `ch`: a send on a closed channel, which ends the process.
- `EveryChangeArrives` with `watches`: `README.md:25`, as above. ZooKeeper reads, sends, and then arms the watch with a second
  read that it throws away: a change in between is not delivered. On etcd it is a
  change whose list could not be read.
- `ForwarderEnds` with `watches`: `README.md:33`, as above. The goroutine of `DiscoveryWithLB.Watch` sends on `outCh`
  without a case for the context; the application of `README.md:219` returns when its context
  is done, and the goroutine stays.
- `WatchEndsAnyhow` with `watches`: `README.md:33`, as above. Where ZooKeeper has no node of the service, because it was
  never registered, the goroutine reads, sleeps and reads again without a test of the context
  (`zookeeper_discovery.go:334-339`), and never closes `ch`; on Consul it goes round its error path.
- `NeverGoesBack` with `watches`: `README.md:25`, as above. Two reads of a ZooKeeper watch go through different sessions, the
  second of which may be behind (`zookeeper_pool.go:36-62`); nothing asks it to catch up.
- `nacos_drains_pool`: `README.md:32`, as above. `register` holds a client while it runs the check, which
  holds one while it calls `register`: three failures block a `Register` for ever with
  the default pool of five.
- `nacos_comes_back`: `discovery_test.go:65` expects no instance after `Deregister`. A check that has
  copied `registeredServices` before registers the instance again.
- `bal_shared_ring`: *"Offers multiple load balancing strategies"* (`README.md:26`). All
  services share one balancer, and the ring is rebuilt only when the number of instances
  changes: `Select` for one service returns an instance of another.

Seen while modelling, without a configuration of their own:

- the Nacos listener goes on changing `m.configs` after `Close`, and a Consul discovery watch, once its
  context is done, goes round its error path for ever (`WatchesEnd` and `WatchEnds` except them);
- with one service, the ring of the consistent hash is stale after one instance has
  replaced another; `Select` then returns the one that left;
- the turn of the round robin is shared by all services, so that with two services in
  alternation each may get the same instance every time;
- a new round robin picks the second instance first, where `load_balancer_test.go:34` expects
  the first;
- `DiscoveryWithLB.Close` ranges over `healthCheckStop` without `hcsMu`, and `filterHealthyInstances` reads
  the cached list after `insMu` was released, while checks write them;
- a Nacos instance whose id the server has changed cannot be deregistered: the id
  that `Register` was given is not the `InstanceId` that `Deregister` looks for
  (`DeregisterWorks` is claimed of the others);
- an empty configuration given to `RefreshConfig` is uploaded without validation and then
  makes the sync of that key fail in every other manager;
- callbacks of successive updates may run in the wrong order;
- a check that ended with its context leaves its entry in the map, so the instance is
  never checked again;
- after the `Close` of a pool a client that was in use is never closed;
- the second subscription of Nacos, which `recoverSubscribe` makes after an error, is never cancelled, and
  its callbacks go on after the context is done;
- on etcd the keeper of a deregistered instance goes on, and with a dead lease in the
  field it recovers for ever; a recovery that has copied `registeredServices` registers again an
  instance that is being deregistered; ZooKeeper's `keepAliveLoop` creates the node of a
  deregistered instance again at its next tick.

## What is not modelled

| part | why |
|---|---|
| `DoRetry`, and the number and spacing of attempts in `WithRetry` | time; an attempt succeeds or fails for good, and the test of the context before it is in the watches |
| the deletion of a key by an operator | a deleted key reads like one that was never stored, which the models start from |
| reads of a configuration that lag, on ZooKeeper | a sync that reads early and compares late has the same snapshot; the watch reads through the session it is armed on |
| the sessions of the Nacos clients in a pool | the clients are taken as interchangeable, although each has a session and its own ephemeral instances |
| session expiry of a distributed lock | the lock service is external, and the code never looks whether it still has the lock: nothing in it would react |
| `LastChecked` and the maximal age of a check in `filterHealthyInstances` | time; in `DiscoveryLB` it only hides instances from an answer, in `Balancer` an instance is fit or not |
| `HealthCheck` metrics (latency, leader, size) | values for display |
| the mutexes of backends and of the ring in `Locks` | each section holds one lock and calls nothing that locks; what it does is one step of `Registration`, `NacosBackend` or `Balancer` |
| reconnection and re-subscription inside the clients of etcd, Consul, ZooKeeper and Nacos | libraries |
| `extraconfig`, TLS, `instance`, `NoopDiscovery` | no state that changes |
| the programs of `__example` | examples; what they do is the environment of the models (`README.md:219`) |
| logging, encoding, key prefixes that are prefixes of one another | no property is about them |

## Plan

Done, most important first: dynamic configuration (`ConfigCentre`, `ConfigManager`,
`DynaConfig`) with its safety proofs; `DiscoveryLB`, `ClientPool` and `Registration` with theirs; the
announcements as a theorem; `ConfigSharing` and the proof that the managers implement it;
`Watches` with the proofs for one sender; `PoolPaths` with the proof that every path puts back; `NacosBackend` and `Balancer` with theirs; `Locks` with its proofs.

What could follow:

1. An abstract specification of a watch, a channel that may lose lists and, where reads lag, repeat
   older ones, with the four backends as its implementations; `LastListIsCurrent` is its core.
2. `Watches` and `DiscoveryLB` in one module, so that the cache follows the registry through `ch`. Their
   product is large; today the two meet at the list.

## Running

    tlc -config cm_etcd.cfg MCDynaConfig             # and cm_zookeeper, cm_nacos
    tlc -config cm_sharing.cfg MCDynaConfigHistory
    tlc -config lb_checks.cfg MCDiscoveryLB
    tlc -config watches.cfg MCWatches
    tlc -config reg_keepers.cfg MCRegistration       # and reg_deregister
    tlc -config nacos.cfg MCNacosBackend
    tlc -config balancer.cfg MCBalancer
    tlc -config pool_calls.cfg MCClientPool
    tlc -config locks.cfg MCLocks

    tlapm DynaConfigProofs.tla
    tlapm RegistrationProofs.tla
    tlapm DiscoveryLBProofs.tla
    tlapm ClientPoolProofs.tla
    tlapm WatchesProofs.tla
    tlapm LocksProofs.tla
    tlapm NacosBackendProofs.tla
    tlapm BalancerProofs.tla

The configurations run by hand go with the same modules: `cm_...` with `MCDynaConfig`, `lb_...` with
`MCDiscoveryLB`, `reg_...` with `MCRegistration`, `pool_...` with `MCClientPool`, `nacos_...` with `MCNacosBackend`, `bal_...` with
`MCBalancer`, `locks_...` with `MCLocks`.
