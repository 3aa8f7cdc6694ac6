----------------------------- MODULE Registration -----------------------------
(***************************************************************************)
(* How the etcd, Consul and ZooKeeper backends of servicediscovery keep    *)
(* instances registered: Register, Deregister, and the goroutine each      *)
(* Register starts, which keeps the instance alive and, when the registry  *)
(* has lost something, runs checkAndReRegisterServices over everything in  *)
(* d.registeredServices.  One discovery object, from New to before Close,  *)
(* with a context that is not cancelled.                                   *)
(*                                                                         *)
(* Each instance is registered once (identifiers are UUIDs); two threads   *)
(* work for it: the application goroutine that calls Register and          *)
(* Deregister, and its keeper: watchKeepAlive and recoverKeepAlive on      *)
(* etcd, keepAliveLoop on Consul and ZooKeeper.  Any other goroutine that  *)
(* reads the services, or follows them, is a caller: when its read fails   *)
(* it runs the same check.  Several threads may be inside register at      *)
(* once, and on etcd they share two fields of d that no lock protects.     *)
(***************************************************************************)
EXTENDS Naturals, FiniteSets

CONSTANTS
  Instances,     \* instance identifiers
  Callers,       \* goroutines inside GetInstances, Watch or recoverWatch
  Owned,         \* Owned[b]: the instances registered when the backend is b
  MaxFaults,     \* MaxFaults[b], a bound: losses in the registry and requests that fail
  MaxLeases      \* bound: leases granted

Backends == DOMAIN Owned

ASSUME RegistrationAssumption ==
  /\ Backends \subseteq {"etcd", "consul", "zookeeper"}
  /\ Owned \in [Backends -> SUBSET Instances]
  /\ MaxFaults \in [Backends -> Nat] /\ MaxLeases \in Nat

VARIABLES
  backend,       \* the kind of registry
  node,          \* node[i]: "absent", "critical" (Consul) or "up" in the registry
  lease,         \* lease[i]: the etcd lease under which i's key stands, or 0
  live,          \* the etcd leases that have not expired or been revoked
  kept,          \* the etcd leases on which KeepAlive has been called
  granted,       \* leases granted so far
  services,      \* d.registeredServices
  leaseID,       \* d.leaseID
  keepAliveCh,   \* d.keepAliveCh: the lease whose channel it is, or 0 (nil)
  thr,           \* thr[t]: where thread t stands
  faults,        \* faults so far (at most MaxFaults[backend])
  unsure,        \* history: the etcd leases of puts whose reply was lost
  overlap        \* history: on etcd, two threads have been inside register at once

leaseVars == <<lease, live, kept, granted>>
fieldVars == <<leaseID, keepAliveCh>>
noted     == <<unsure, overlap>>
vars == <<backend, node, leaseVars, services, fieldVars, thr, faults, noted>>

App(i)      == <<"app", i>>
Keeper(i)   == <<"keeper", i>>
Threads     == ({"app", "keeper"} \X Instances) \cup ({"caller"} \X Callers)
IsApp(t)    == t[1] = "app"
IsCaller(t) == t[1] = "caller"

\* inst is the instance being registered, todo those the recovery has still
\* to check, ch the channel the select of watchKeepAlive was entered with.
At(t, pc)   == thr[t].pc = pc
Goto(t, pc) == thr' = [thr EXCEPT ![t].pc = pc]
Fresh(t, pc) == [pc |-> pc, inst |-> t[2], todo |-> {}, ch |-> 0]

Fault == faults < MaxFaults[backend] /\ faults' = faults + 1

(***************************************************************************)
(* register: called by the application, and by the check of a keeper or a  *)
(* caller with isReRegister = true.                                        *)
(***************************************************************************)
\* t is about to enter register; noted when another thread is inside.
InRegister == {"grant", "put", "keep"}
Enters(t) ==
  overlap' = (overlap \/ (backend = "etcd" /\ \E u \in Threads \ {t} : thr[u].pc \in InRegister))

\* Consul and ZooKeeper start the keeper before they ask the registry, etcd
\* after everything has succeeded.
Register(i) ==
  /\ i \in Owned[backend] /\ At(App(i), "off")
  /\ services' = services \cup {i}
  /\ thr' = IF backend = "etcd" THEN [thr EXCEPT ![App(i)].pc = "grant"]
            ELSE [thr EXCEPT ![App(i)].pc = "put", ![Keeper(i)].pc = "tick"]
  /\ Enters(App(i))
  /\ UNCHANGED <<backend, unsure, node, leaseVars, fieldVars, faults>>

\* Variant: a call that registers again returns as the first one does.
ReturnsToCaller(t) == thr' = [thr EXCEPT ![t].pc = "registered"]

\* register returns nil: the application goes on, a check to its next instance.
Returns(t) ==
  thr' = IF ~IsApp(t) THEN [thr EXCEPT ![t].pc = "check"]
         ELSE [thr EXCEPT ![t].pc = "registered",
                          ![Keeper(t[2])].pc = IF backend = "etcd" THEN "loop" ELSE @]

Grant(t) ==
  /\ At(t, "grant") /\ granted < MaxLeases
  /\ granted' = granted + 1
  /\ live' = live \cup {granted'}
  /\ leaseID' = granted'
  /\ Goto(t, "put")
  /\ UNCHANGED <<backend, noted, node, lease, kept, services, keepAliveCh, faults>>

\* What a put does in the registry.  On etcd the key is put under the lease
\* the field holds by now; a new service of Consul is critical until the first
\* PassTTL, and registering one that exists leaves its state; the ephemeral
\* node of ZooKeeper is created, that it exists is no error.
Appears(i) ==
  /\ backend = "etcd" => leaseID \in live
  /\ node' = [node EXCEPT ![i] = IF backend # "consul" THEN "up"
                                 ELSE IF @ = "absent" THEN "critical" ELSE @]
  /\ lease' = IF backend = "etcd" THEN [lease EXCEPT ![i] = leaseID] ELSE lease
  /\ UNCHANGED <<live, kept, granted>>

EtcdPut(t) ==
  /\ backend = "etcd" /\ At(t, "put")
  /\ Appears(thr[t].inst)
  /\ Goto(t, "keep")
  /\ UNCHANGED <<backend, noted, services, fieldVars, faults>>

KeepAlive(t) ==
  /\ At(t, "keep")
  /\ keepAliveCh' = leaseID
  /\ kept' = kept \cup {leaseID}
  /\ Returns(t)
  /\ UNCHANGED <<backend, noted, node, lease, live, granted, services, leaseID, faults>>

ConsulPut(t) ==
  /\ backend = "consul" /\ At(t, "put")
  /\ Appears(thr[t].inst)
  /\ Returns(t)
  /\ UNCHANGED <<backend, noted, services, fieldVars, faults>>

ZkPut(t) ==
  /\ backend = "zookeeper" /\ At(t, "put")
  /\ Appears(thr[t].inst)
  /\ Returns(t)
  /\ UNCHANGED <<backend, noted, services, fieldVars, faults>>

\* After a check a keeper goes on with its loop, and a caller is done.
Rest(t)  == IF IsCaller(t) THEN "off" ELSE IF backend = "etcd" THEN "loop" ELSE "tick"
Rests(t) == thr' = [thr EXCEPT ![t] = Fresh(t, Rest(t))]

\* register returns an error.  The application gets it, and the entry of
\* registeredServices stays; a check looks at the instance again or gives up.
GivesUp(t) ==
  IF IsApp(t) THEN Goto(t, "failed")
  ELSE \/ Rests(t)
       \/ thr' = [thr EXCEPT ![t].pc = "check", ![t].todo = @ \cup {thr[t].inst}]

\* A request of register fails, or the lease is gone by the time of the put;
\* a KeepAlive that fails leaves nil in the field.
RegisterFails(t) ==
  /\ \/ (At(t, "grant") \/ At(t, "put") \/ At(t, "keep")) /\ Fault
     \/ backend = "etcd" /\ At(t, "put") /\ leaseID \notin live /\ UNCHANGED faults
  /\ keepAliveCh' = IF At(t, "keep") THEN 0 ELSE keepAliveCh
  /\ GivesUp(t)
  /\ UNCHANGED <<backend, noted, node, leaseVars, services, leaseID>>

\* The put has taken effect and its reply is lost: it is sent again, or
\* register returns the error.  (A grant whose reply is lost leaves a lease
\* that nothing ever stands under; KeepAlive waits for no reply.)
ReplyLost(t) ==
  /\ At(t, "put") /\ Fault
  /\ Appears(thr[t].inst)
  /\ unsure' = IF backend = "etcd" THEN unsure \cup {leaseID} ELSE unsure
  /\ GivesUp(t) \/ UNCHANGED thr
  /\ UNCHANGED <<backend, overlap, services, fieldVars>>

(***************************************************************************)
(* checkAndReRegisterServices, in a keeper after it has lost its lease or  *)
(* session, and in a caller whose read has failed.                         *)
(***************************************************************************)
\* GetInstances has failed; so has the parsing of an event that recoverWatch
\* answers on etcd, and the blocking query of Watch on Consul.
ReadFails(t) ==
  /\ IsCaller(t) /\ At(t, "off") /\ Fault
  /\ Goto(t, "snapshot")
  /\ UNCHANGED <<backend, noted, node, leaseVars, services, fieldVars>>

Snapshot(t) ==
  /\ At(t, "snapshot")
  /\ thr' = [thr EXCEPT ![t].pc = "check", ![t].todo = services]
  /\ UNCHANGED <<backend, noted, node, leaseVars, services, fieldVars, faults>>

\* Variant: the answer of the registry is not looked at.
ChecksBlindly(t) ==
  /\ At(t, "check")
  /\ \/ thr[t].todo = {} /\ Rests(t) /\ UNCHANGED overlap
     \/ \E j \in thr[t].todo :
          /\ thr' = [thr EXCEPT ![t].pc = IF backend = "etcd" THEN "grant" ELSE "put",
                                ![t].inst = j, ![t].todo = @ \ {j}]
          /\ Enters(t)
  /\ UNCHANGED <<backend, unsure, node, leaseVars, services, fieldVars, faults>>

\* Variant: what is missing is not registered again.
ChecksOnly(t) ==
  /\ At(t, "check") /\ Rests(t)
  /\ UNCHANGED <<backend, noted, node, leaseVars, services, fieldVars, faults>>

\* The next instance, in the order of the map, is there or has to be
\* registered again; Consul's query sees only those that are passing.
Checks(t) ==
  /\ At(t, "check")
  /\ \/ thr[t].todo = {} /\ Rests(t) /\ UNCHANGED overlap
     \/ \E j \in thr[t].todo :
          /\ thr' = [thr EXCEPT ![t].pc = IF node[j] = "up" THEN "check"
                                         ELSE IF backend = "etcd" THEN "grant" ELSE "put",
                                ![t].inst = j, ![t].todo = @ \ {j}]
          /\ IF node[j] = "up" THEN UNCHANGED overlap ELSE Enters(t)
  /\ UNCHANGED <<backend, unsure, node, leaseVars, services, fieldVars, faults>>

CheckFails(t) ==
  /\ At(t, "check") /\ thr[t].todo # {} /\ Fault
  /\ Rests(t)
  /\ UNCHANGED <<backend, noted, node, leaseVars, services, fieldVars>>

(***************************************************************************)
(* The keeper on etcd.  watchKeepAlive reads d.keepAliveCh each time it    *)
(* enters its select, and is then blocked on that channel whatever the     *)
(* field becomes; nil blocks for ever.                                     *)
(***************************************************************************)
EntersSelect(t) ==
  /\ At(t, "loop")
  /\ thr' = [thr EXCEPT ![t].pc = "select", ![t].ch = keepAliveCh]
  /\ UNCHANGED <<backend, noted, node, leaseVars, services, fieldVars, faults>>

HeartbeatAnswered(t) ==
  /\ At(t, "select") /\ thr[t].ch \in live
  /\ Rests(t)
  /\ UNCHANGED <<backend, noted, node, leaseVars, services, fieldVars, faults>>

\* The client closes the channels of a lease that is gone.
ChannelCloses(t) ==
  /\ At(t, "select") /\ thr[t].ch \notin live \cup {0}
  /\ Goto(t, "recover")
  /\ UNCHANGED <<backend, noted, node, leaseVars, services, fieldVars, faults>>

\* recoverKeepAlive clears the field, then asks for the lease it had; for a
\* lease that is gone the client returns a channel that it soon closes.
Recovers(t) ==
  /\ At(t, "recover")
  /\ keepAliveCh' = 0
  /\ Goto(t, "rekeep")
  /\ UNCHANGED <<backend, noted, node, leaseVars, services, leaseID, faults>>

RestartsKeepAlive(t) ==
  /\ At(t, "rekeep")
  /\ keepAliveCh' = leaseID
  /\ kept' = kept \cup {leaseID}
  /\ Goto(t, "snapshot")
  /\ UNCHANGED <<backend, noted, node, lease, live, granted, services, leaseID, faults>>

\* The keeper is not started again.
RestartFails(t) ==
  /\ At(t, "rekeep") /\ Fault
  /\ keepAliveCh' = 0
  /\ Goto(t, "ended")
  /\ UNCHANGED <<backend, noted, node, leaseVars, services, leaseID>>

(***************************************************************************)
(* The keepers on Consul and ZooKeeper: a tick.                            *)
(***************************************************************************)
\* PassTTL makes a registered service pass.
ConsulTick(t) ==
  /\ backend = "consul" /\ At(t, "tick") /\ node[t[2]] # "absent"
  /\ node' = [node EXCEPT ![t[2]] = "up"]
  /\ UNCHANGED <<backend, noted, leaseVars, services, fieldVars, thr, faults>>

\* PassTTL, or Exists on ZooKeeper, fails: the recovery.
TickFails(t) ==
  /\ At(t, "tick")
  /\ \/ backend = "consul" /\ node[t[2]] = "absent" /\ UNCHANGED faults
     \/ Fault
  /\ Goto(t, "snapshot")
  /\ UNCHANGED <<backend, noted, node, leaseVars, services, fieldVars>>

\* The node does not exist: the loop creates it, without a look at
\* registeredServices.
ZkTickMisses(t) ==
  /\ backend = "zookeeper" /\ At(t, "tick") /\ node[t[2]] = "absent"
  /\ Goto(t, "create")
  /\ UNCHANGED <<backend, noted, node, leaseVars, services, fieldVars, faults>>

ZkCreates(t) ==
  /\ At(t, "create")
  /\ \/ node' = [node EXCEPT ![t[2]] = "up"] /\ UNCHANGED faults
     \/ Fault /\ UNCHANGED node
  /\ Goto(t, "tick")
  /\ UNCHANGED <<backend, noted, leaseVars, services, fieldVars>>

(***************************************************************************)
(* Deregister.                                                             *)
(***************************************************************************)
Deregister(i) ==
  /\ At(App(i), "registered")
  /\ Goto(App(i), "delete")
  /\ UNCHANGED <<backend, noted, node, leaseVars, services, fieldVars, faults>>

Removes(i) ==
  /\ node' = [node EXCEPT ![i] = "absent"]
  /\ lease' = [lease EXCEPT ![i] = 0]

Delete(i) ==
  /\ At(App(i), "delete")
  /\ Removes(i)
  /\ Goto(App(i), IF backend = "etcd" THEN "revoke" ELSE "forget")
  /\ UNCHANGED <<backend, noted, live, kept, granted, services, fieldVars, faults>>

\* The request fails, or only its reply is lost; Consul refuses to deregister
\* a service it does not know.
DeleteFails(i) ==
  /\ At(App(i), "delete")
  /\ \/ Fault /\ (Removes(i) \/ UNCHANGED <<node, lease>>)
     \/ backend = "consul" /\ node[i] = "absent" /\ UNCHANGED <<node, lease, faults>>
  /\ Goto(App(i), "registered")
  /\ UNCHANGED <<backend, noted, live, kept, granted, services, fieldVars>>

\* A lease ends and with it every key that stands under it.
Ends(n) ==
  /\ live' = live \ {n}
  /\ node' = [i \in Instances |-> IF lease[i] = n THEN "absent" ELSE node[i]]
  /\ lease' = [i \in Instances |-> IF lease[i] = n THEN 0 ELSE lease[i]]
  /\ UNCHANGED <<kept, granted>>

\* The lease revoked is the one in the field, whoever was given it.  That
\* the request fails is only logged.
Revoke(i) ==
  /\ At(App(i), "revoke")
  /\ \/ leaseID # 0 /\ Ends(leaseID) /\ UNCHANGED faults
     \/ Fault /\ UNCHANGED <<node, leaseVars>>
  /\ Goto(App(i), "forget")
  /\ UNCHANGED <<backend, noted, services, fieldVars>>

Forget(i) ==
  /\ At(App(i), "forget")
  /\ services' = services \ {i}
  /\ Goto(App(i), "gone")
  /\ UNCHANGED <<backend, noted, node, leaseVars, fieldVars, faults>>

(***************************************************************************)
(* The registry loses what it held: a lease or session whose heartbeats    *)
(* did not arrive or were never sent, a service whose TTL has passed.      *)
(***************************************************************************)
LeaseExpires(n) ==
  /\ n \in live /\ Fault
  /\ Ends(n)
  /\ UNCHANGED <<backend, noted, services, fieldVars, thr>>

NodeLost(i) ==
  /\ backend # "etcd" /\ node[i] # "absent" /\ Fault
  /\ \E s \in {"absent"} \cup (IF backend = "consul" THEN {"critical"} ELSE {}) :
       node' = [node EXCEPT ![i] = s]
  /\ UNCHANGED <<backend, noted, leaseVars, services, fieldVars, thr>>

Init ==
  /\ backend \in Backends
  /\ node = [i \in Instances |-> "absent"]
  /\ lease = [i \in Instances |-> 0]
  /\ live = {} /\ kept = {} /\ granted = 0
  /\ services = {} /\ leaseID = 0 /\ keepAliveCh = 0
  /\ thr = [t \in Threads |-> Fresh(t, "off")]
  /\ faults = 0 /\ unsure = {} /\ overlap = FALSE

\* What a thread does of itself; some of it may be a fault.
ThreadStep(t) ==
  \/ Grant(t) \/ EtcdPut(t) \/ KeepAlive(t) \/ ConsulPut(t) \/ ZkPut(t) \/ RegisterFails(t)
  \/ ReplyLost(t) \/ Snapshot(t) \/ Checks(t) \/ EntersSelect(t) \/ HeartbeatAnswered(t)
  \/ ChannelCloses(t) \/ Recovers(t) \/ RestartsKeepAlive(t)
  \/ ConsulTick(t) \/ TickFails(t) \/ ZkTickMisses(t) \/ ZkCreates(t)

DeregisterStep(i) == Delete(i) \/ Revoke(i) \/ Forget(i)

Next ==
  \/ \E i \in Instances : \/ Register(i) \/ Deregister(i) \/ DeregisterStep(i)
                          \/ DeleteFails(i) \/ NodeLost(i)
  \/ \E t \in Threads : ThreadStep(t) \/ CheckFails(t) \/ RestartFails(t) \/ ReadFails(t)
  \/ \E n \in live : LeaseExpires(n)

Spec == Init /\ [][Next]_vars

\* Goroutines are scheduled, tickers fire and the registry answers.
FairSpec ==
  /\ Spec
  /\ \A t \in Threads : WF_vars(ThreadStep(t))
  /\ \A i \in Instances : WF_vars(DeregisterStep(i))

(***************************************************************************)
(* Properties                                                              *)
(***************************************************************************)
AppSteps    == InRegister \cup {"off", "registered", "failed", "delete", "revoke", "forget", "gone"}
EtcdSteps   == InRegister \cup {"off", "loop", "select", "recover", "rekeep", "ended", "snapshot", "check"}
TickSteps   == {"off", "tick", "create", "put", "snapshot", "check"}
CallerSteps == InRegister \cup {"off", "snapshot", "check"}

\* Types: the goroutines are at steps their backend has, a call that
\* registers again never ends like one of the application, and a keeper
\* listens only on a channel that KeepAlive returned.
TypeOK ==
  /\ backend \in Backends
  /\ node \in [Instances -> {"absent", "critical", "up"}]
  /\ lease \in [Instances -> 0..granted] /\ live \subseteq 1..granted
  /\ kept \subseteq 1..granted /\ unsure \subseteq 1..granted /\ granted \in 0..MaxLeases
  /\ services \subseteq Instances
  /\ leaseID \in 0..granted /\ keepAliveCh \in kept \cup {0}
  /\ thr \in [Threads -> [pc: AppSteps \cup EtcdSteps \cup TickSteps,
                          inst: Instances \cup Callers,
                          todo: SUBSET Instances, ch: kept \cup {0}]]
  /\ \A i \in Instances :
       /\ thr[App(i)].pc \in AppSteps
       /\ thr[Keeper(i)].pc \in IF backend = "etcd" THEN EtcdSteps ELSE TickSteps
  /\ \A c \in Callers : thr[<<"caller", c>>].pc \in CallerSteps
  /\ faults \in 0..MaxFaults[backend] /\ overlap \in BOOLEAN

\* The documents promise no number of instances for one etcd object, but
\* only for one do these hold.
Alone == backend = "etcd" => \A i, j \in Owned[backend] : i = j

\* The fields of the etcd backend keep step with the key.
FieldsFollow ==
  \A i \in Instances : lease[i] # 0 =>
    /\ lease[i] = leaseID /\ leaseID \in live
    /\ \/ leaseID \in kept \cup unsure \/ keepAliveCh = 0
       \/ \E t \in Threads : At(t, "keep")

\* They do through losses, failures, lost replies and recoveries, and through
\* the checks of any number of callers, as long as no two goroutines are inside
\* register at once.  A check grants a lease only for a key that is gone, so
\* the lease that Deregister would revoke is the one the key stands under, and
\* a key never stands under a lease that has ended.  That lease is kept alive,
\* once register is past its last request, unless a KeepAlive failed or the
\* reply to the put was lost: the check that follows finds the key and leaves
\* it under a lease that nobody keeps.
LeaseServesKey == backend = "etcd" /\ Alone /\ ~overlap => FieldsFollow

\* The same of every state: what a check that is not the keeper's breaks when
\* it overlaps with one that is, or with the Register of the application.
FieldsAlwaysFollow == backend = "etcd" /\ Alone => FieldsFollow

\* The keeper has not become deaf.  On etcd it may have ended, or block on a
\* nil channel, after a KeepAlive that failed; or listen for good on a live
\* lease that is not the key's: one granted for a put that failed, by itself
\* or by a caller, or the key's own after a Delete whose reply was lost.
Listens(i) ==
  /\ ~At(Keeper(i), "ended")
  /\ At(Keeper(i), "select") =>
       LET ch == thr[Keeper(i)].ch IN ch # 0 /\ (ch \in live => lease[i] = ch)

\* An instance that was registered and stays so is seen again and again,
\* whatever the registry loses and whichever requests fail, unless its
\* keeper has become deaf.
ComesBack ==
  Alone => \A i \in Instances :
    <>[](At(App(i), "registered") /\ Listens(i)) => []<>(node[i] = "up")

\* What discovery_test.go expects of Deregister: with no fault, and no call
\* under way, the registry holds the instances that are registered and none
\* of those that were deregistered.
RegistryMatches ==
  /\ faults = 0
  /\ \A i \in Instances : thr[App(i)].pc \in {"off", "registered", "gone"}
  => \A i \in Instances : /\ At(App(i), "registered") => node[i] # "absent"
                          /\ At(App(i), "gone") => node[i] = "absent"
=============================================================================
