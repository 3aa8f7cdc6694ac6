----------------------------- MODULE DiscoveryLB -----------------------------
(***************************************************************************)
(* servicediscovery.DiscoveryWithLB for one service: the cached instance   *)
(* list (d.instances, under insMu), the health-check goroutines and their  *)
(* stop channels (d.healthCheckStop, under hcsMu), the goroutine of Watch, *)
(* and callers of GetInstances, Register, Deregister and Close.  The two   *)
(* locks are never held together except by a merge that starts checks, so  *)
(* the code between them is where other goroutines come in.                *)
(*                                                                         *)
(* The discovery backend is external: a registry and, once watched, the    *)
(* lists it sends, in order, until the context is done.  Lists are         *)
(* functions from the instances; addresses stand for host and ports, of    *)
(* which there is at least one.  Calls on d are made before Close.         *)
(***************************************************************************)
EXTENDS Naturals, Sequences

CONSTANTS
  Instances,     \* instance identifiers
  Addrs,         \* the host:port an instance may have
  Readers,       \* goroutines that call GetInstances or Select
  MaxFailed,     \* healthCheckConfig.MaxFailedChecks
  MaxChecks,     \* bound: health checks started per instance
  MaxChanges,    \* bound: changes of the registry
  Nil

ASSUME DiscoveryAssumption ==
  /\ Nil \notin Addrs
  /\ MaxFailed \in Nat \ {0}
  /\ MaxChecks \in Nat /\ MaxChanges \in Nat

List  == [Instances -> Addrs \cup {Nil}]
Entry == [addr: Addrs, healthy: BOOLEAN, failed: 0..MaxFailed]
Absent == [addr |-> Nil, healthy |-> FALSE, failed |-> 0]
Fresh(a) == [addr |-> a, healthy |-> TRUE, failed |-> 0]

VARIABLES
  registry,      \* the list the backend holds
  events,        \* lists sent by the backend's Watch and not yet received
  cached,        \* d.instances has an entry for the service
  cache,         \* cache[i]: the cached instance, or Absent
  watcher,       \* the goroutine of Watch: "off", "recv", "send" (outCh), "ended"
  reader,        \* reader[r]: a GetInstances, [pc, list]
  app,           \* the application inside Register or Deregister, [pc, inst]
  checks,        \* checks[i]: the health-check goroutines started for i
  stop,          \* stop[i]: the check whose channel healthCheckStop holds, or 0
  ctx,           \* the context of Register and Watch: "live" or "done"
  closed,        \* Close has returned
  changes        \* changes of the registry so far (bounded by MaxChanges)

backendVars == <<registry, events, changes>>
cacheVars   == <<cached, cache>>
checkVars   == <<checks, stop>>
vars == <<backendVars, cacheVars, watcher, reader, app, checkVars, ctx, closed>>

Cached(i) == cached /\ cache[i] # Absent

(***************************************************************************)
(* Health checks.  A check has its stop channel (open or closed), whether  *)
(* it was given the application's context or context.Background(), and pc: *)
(* "select" in its select, "orphan" between releasing insMu and taking     *)
(* hcsMu after a tick that did not find its instance, "exited".  It probes *)
(* for ever the address it was started with, which the cached instance may *)
(* have left: either outcome is possible.                                  *)
(***************************************************************************)
Check == [pc: {"select", "orphan", "exited"}, open: BOOLEAN, bound: BOOLEAN]

NewCheck(bound) == [pc |-> "select", open |-> TRUE, bound |-> bound]

\* startHealthCheck for every instance of S: nothing when the map has a
\* channel for it, else a new channel and goroutine.
Start(S, bound) ==
  LET T == {i \in S : stop[i] = 0}
  IN  /\ \A i \in T : Len(checks[i]) < MaxChecks
      /\ checks' = [i \in Instances |->
           IF i \notin T THEN checks[i]
           ELSE Append(checks[i], NewCheck(bound))]
      /\ stop' = [i \in Instances |-> IF i \in T THEN Len(checks[i]) + 1 ELSE stop[i]]

\* close(stopChan) and delete, when the map has a channel for i.
Stopped(i) ==
  IF stop[i] = 0 THEN checks[i] ELSE [checks[i] EXCEPT ![stop[i]].open = FALSE]

StopAny(i) ==
  /\ checks' = [checks EXCEPT ![i] = Stopped(i)]
  /\ stop' = [stop EXCEPT ![i] = 0]

\* A tick: the address is probed, then under insMu the cached instance is
\* marked.  The select may take a tick even when another case is ready.
Probed(e, ok) ==
  LET n == IF ok THEN 0 ELSE IF e.failed < MaxFailed THEN e.failed + 1 ELSE MaxFailed
  IN  [e EXCEPT !.failed = n, !.healthy = IF ok THEN TRUE ELSE @ /\ n < MaxFailed]

Tick(i, n, ok) ==
  /\ checks[i][n].pc = "select" /\ Cached(i)
  /\ cache' = [cache EXCEPT ![i] = Probed(@, ok)]
  /\ UNCHANGED <<backendVars, cached, watcher, reader, app, checkVars, ctx, closed>>

\* Variant: hasInts is not reset.
TickMissesUnseen(i, n) ==
  /\ checks[i][n].pc = "select" /\ ~Cached(i)
  /\ UNCHANGED vars

\* A tick that does not find the instance in the list.
TickMisses(i, n) ==
  /\ checks[i][n].pc = "select" /\ ~Cached(i)
  /\ checks' = [checks EXCEPT ![i][n].pc = "orphan"]
  /\ UNCHANGED <<backendVars, cacheVars, watcher, reader, app, stop, ctx, closed>>

\* Variant: the entry is deleted and the channel is left open.
CleanUpQuietly(i, n) ==
  /\ checks[i][n].pc = "orphan"
  /\ checks' = [checks EXCEPT ![i][n].pc = "select"]
  /\ stop' = [stop EXCEPT ![i] = 0]
  /\ UNCHANGED <<backendVars, cacheVars, watcher, reader, app, ctx, closed>>

\* It then closes whatever channel the map has for the instance: its own or
\* that of a later check.
CleanUp(i, n) ==
  /\ checks[i][n].pc = "orphan"
  /\ checks' = [checks EXCEPT ![i] = [Stopped(i) EXCEPT ![n].pc = "select"]]
  /\ stop' = [stop EXCEPT ![i] = 0]
  /\ UNCHANGED <<backendVars, cacheVars, watcher, reader, app, ctx, closed>>

\* Variant: the goroutine's select has no case for its stop channel.
ExitOnContext(i, n) ==
  /\ checks[i][n].pc = "select" /\ checks[i][n].bound /\ ctx = "done"
  /\ checks' = [checks EXCEPT ![i][n].pc = "exited"]
  /\ UNCHANGED <<backendVars, cacheVars, watcher, reader, app, stop, ctx, closed>>

\* The stop channel is closed or the context done: the goroutine returns.
Exit(i, n) ==
  LET c == checks[i][n]
  IN  /\ c.pc = "select" /\ (~c.open \/ (c.bound /\ ctx = "done"))
      /\ checks' = [checks EXCEPT ![i][n].pc = "exited"]
      /\ UNCHANGED <<backendVars, cacheVars, watcher, reader, app, stop, ctx, closed>>

(***************************************************************************)
(* The registry.  Once watched, the backend sends each new list.           *)
(***************************************************************************)
Registers(i, a) ==
  /\ changes < MaxChanges /\ changes' = changes + 1
  /\ registry' = [registry EXCEPT ![i] = a]
  /\ events' = IF watcher \in {"off", "ended"} THEN events ELSE Append(events, registry')

\* Another process registers i, moves it, or deregisters it (a = Nil).
RegistryChanges(i, a) ==
  /\ registry[i] # a
  /\ Registers(i, a)
  /\ UNCHANGED <<cacheVars, watcher, reader, app, checkVars, ctx, closed>>

(***************************************************************************)
(* Register and Deregister: the call to the backend and the health check   *)
(* are two steps.                                                          *)
(***************************************************************************)
AppIdle == [pc |-> "idle", inst |-> Nil]

Register(i, a) ==
  /\ app = AppIdle /\ ~closed
  /\ Registers(i, a)
  /\ app' = [pc |-> "registered", inst |-> i]
  /\ UNCHANGED <<cacheVars, watcher, reader, checkVars, ctx, closed>>

RegisterStarts ==
  /\ app.pc = "registered"
  /\ Start({app.inst}, TRUE)
  /\ app' = AppIdle
  /\ UNCHANGED <<backendVars, cacheVars, watcher, reader, ctx, closed>>

\* stopHealthCheck comes first, whatever the backend then answers.
Deregister(i) ==
  /\ app = AppIdle /\ ~closed
  /\ StopAny(i)
  /\ app' = [pc |-> "stopped", inst |-> i]
  /\ UNCHANGED <<backendVars, cacheVars, watcher, reader, ctx, closed>>

DeregisterReturns ==
  /\ app.pc = "stopped"
  /\ Registers(app.inst, Nil) \/ UNCHANGED backendVars
  /\ app' = AppIdle
  /\ UNCHANGED <<cacheVars, watcher, reader, checkVars, ctx, closed>>

(***************************************************************************)
(* Watch: the backend's channel first gives the present list.              *)
(***************************************************************************)
Watch ==
  /\ watcher = "off" /\ ctx = "live" /\ ~closed
  /\ watcher' = "recv"
  /\ events' = <<registry>>
  /\ UNCHANGED <<registry, changes, cacheVars, reader, app, checkVars, ctx, closed>>

\* Variant: the failures of an unhealthy instance are carried over although
\* it is marked healthy.
MergedWithCount(i, a) ==
  IF Cached(i) THEN [cache[i] EXCEPT !.addr = a, !.healthy = TRUE]
  ELSE Fresh(a)

\* What a received instance becomes: a healthy cached one keeps its counts,
\* any other starts afresh, one that the checks had marked unhealthy too.
Merged(i, a) ==
  IF Cached(i) /\ cache[i].healthy THEN [cache[i] EXCEPT !.addr = a]
  ELSE Fresh(a)

\* A list arrives: under insMu it is merged, checks are started for what the
\* cache did not have, and it replaces the cache.
Receive ==
  LET L == Head(events)
  IN  /\ watcher = "recv" /\ events # <<>>
      /\ events' = Tail(events)
      /\ Start({i \in Instances : L[i] # Nil /\ ~Cached(i)}, TRUE)
      /\ cached' = TRUE
      /\ cache' = [i \in Instances |-> IF L[i] = Nil THEN Absent ELSE Merged(i, L[i])]
      /\ watcher' = "send"
      /\ UNCHANGED <<registry, changes, reader, app, ctx, closed>>

\* The consumer takes the list from outCh.
Consume ==
  /\ watcher = "send"
  /\ watcher' = "recv"
  /\ UNCHANGED <<backendVars, cacheVars, reader, app, checkVars, ctx, closed>>

\* The backend closes its channel: the goroutine closes outCh.
WatchEnds ==
  /\ watcher = "recv" /\ ctx = "done" /\ events = <<>>
  /\ watcher' = "ended"
  /\ UNCHANGED <<backendVars, cacheVars, reader, app, checkVars, ctx, closed>>

(***************************************************************************)
(* GetInstances (and Select): on a miss it asks the backend and then fills *)
(* the cache, whatever has been put there meanwhile.                       *)
(***************************************************************************)
ReaderIdle == [pc |-> "idle", list |-> Nil]

Misses(r) ==
  /\ reader[r] = ReaderIdle /\ ~cached /\ ~closed
  /\ reader' = [reader EXCEPT ![r].pc = "fetch"]
  /\ UNCHANGED <<backendVars, cacheVars, watcher, app, checkVars, ctx, closed>>

\* Variant: the backend's error is not looked at.
FetchesAnyhow(r) ==
  /\ reader[r].pc = "fetch"
  /\ \E L \in {registry, Nil} : reader' = [reader EXCEPT ![r] = [pc |-> "fill", list |-> L]]
  /\ UNCHANGED <<backendVars, cacheVars, watcher, app, checkVars, ctx, closed>>

Fetches(r) ==
  /\ reader[r].pc = "fetch"
  /\ \/ reader' = [reader EXCEPT ![r] = [pc |-> "fill", list |-> registry]]
     \/ reader' = [reader EXCEPT ![r] = ReaderIdle]       \* the backend fails
  /\ UNCHANGED <<backendVars, cacheVars, watcher, app, checkVars, ctx, closed>>

Fills(r) ==
  LET L == reader[r].list
  IN  /\ reader[r].pc = "fill"
      /\ Start({i \in Instances : L[i] # Nil}, FALSE)
      /\ cached' = TRUE
      /\ cache' = [i \in Instances |-> IF L[i] = Nil THEN Absent ELSE Fresh(L[i])]
      /\ reader' = [reader EXCEPT ![r] = ReaderIdle]
      /\ UNCHANGED <<backendVars, watcher, app, ctx, closed>>

(***************************************************************************)
(* Close ranges over the keys of healthCheckStop, which are                *)
(* service-instance, and passes each to stopAllHealthChecks as if it were  *)
(* a service name: no key starts with "service-instance-" (unless one      *)
(* identifier extends another with a dash), so no check is stopped.        *)
(***************************************************************************)
Close ==
  /\ ~closed /\ closed' = TRUE
  /\ UNCHANGED <<backendVars, cacheVars, watcher, reader, app, checkVars, ctx>>

CtxDone ==
  /\ ctx = "live" /\ ctx' = "done"
  /\ UNCHANGED <<backendVars, cacheVars, watcher, reader, app, checkVars, closed>>

Init ==
  /\ registry \in List
  /\ events = <<>> /\ cached = FALSE
  /\ cache = [i \in Instances |-> Absent]
  /\ watcher = "off" /\ app = AppIdle
  /\ reader = [r \in Readers |-> ReaderIdle]
  /\ checks = [i \in Instances |-> <<>>] /\ stop = [i \in Instances |-> 0]
  /\ ctx = "live" /\ closed = FALSE /\ changes = 0

CheckStep(i, n) ==
  \/ \E ok \in BOOLEAN : Tick(i, n, ok)
  \/ TickMisses(i, n) \/ CleanUp(i, n) \/ Exit(i, n)

Next ==
  \/ \E i \in Instances : \E n \in DOMAIN checks[i] : CheckStep(i, n)
  \/ \E i \in Instances, a \in Addrs \cup {Nil} : RegistryChanges(i, a)
  \/ \E i \in Instances, a \in Addrs : Register(i, a)
  \/ \E i \in Instances : Deregister(i)
  \/ RegisterStarts \/ DeregisterReturns
  \/ Watch \/ Receive \/ Consume \/ WatchEnds
  \/ \E r \in Readers : Misses(r) \/ Fetches(r) \/ Fills(r)
  \/ Close \/ CtxDone

Spec == Init /\ [][Next]_vars

\* A check's goroutine is scheduled, its ticker fires, and its select takes
\* each ready case sooner or later, for it chooses among them at random.
Fairness == \A i \in Instances, n \in 1..MaxChecks :
  /\ WF_vars(n \in DOMAIN checks[i] /\ TickMisses(i, n))
  /\ WF_vars(n \in DOMAIN checks[i] /\ CleanUp(i, n))
  /\ SF_vars(n \in DOMAIN checks[i] /\ Exit(i, n))

FairSpec == Spec /\ Fairness

(***************************************************************************)
(* Properties                                                              *)
(***************************************************************************)
\* Types; a caller that fills the cache has a list.
TypeOK ==
  /\ registry \in List /\ events \in Seq(List) /\ changes \in Nat
  /\ cached \in BOOLEAN /\ cache \in [Instances -> Entry \cup {Absent}]
  /\ watcher \in {"off", "recv", "send", "ended"}
  /\ reader \in [Readers -> [pc: {"idle", "fetch"}, list: {Nil}]
                             \cup [pc: {"fill"}, list: List]]
  /\ \/ app = AppIdle
     \/ app \in [pc: {"registered", "stopped"}, inst: Instances]
  /\ checks \in [Instances -> Seq(Check)] /\ stop \in [Instances -> Nat]
  /\ ctx \in {"live", "done"} /\ closed \in BOOLEAN

\* Whatever closes the channel of whichever check, no channel is closed
\* twice (a panic) and none is forgotten: a check's channel is open exactly
\* when healthCheckStop holds it.  So an instance has at most one check that
\* has not been told to stop.
OpenIffInMap ==
  \A i \in Instances :
    /\ stop[i] \in 0..Len(checks[i])
    /\ \A n \in DOMAIN checks[i] : checks[i][n].open <=> stop[i] = n

\* Merges, fills and the ticks of old and new checks leave an instance
\* marked healthy exactly while it has failed fewer than MaxFailed probes.
HealthyIffFewFailures ==
  \A i \in Instances :
    cache[i] # Absent => (cache[i].healthy <=> cache[i].failed < MaxFailed)

\* A check that was told to stop, by anyone, ends.
Told(i, n)   == n \in DOMAIN checks[i] /\ ~checks[i][n].open
Exited(i, n) == n \in DOMAIN checks[i] /\ checks[i][n].pc = "exited"
StoppedChecksExit ==
  \A i \in Instances, n \in 1..MaxChecks : Told(i, n) ~> Exited(i, n)

\* Nobody stops the check of an instance that left the service: it must find
\* out by its ticks.  Once the cache has lost an instance for good, none of
\* its checks goes on for ever.
OrphanChecksExit ==
  \A i \in Instances :
    []<>Cached(i) \/ <>[](\A n \in DOMAIN checks[i] : Exited(i, n))

\* "Clients dynamically retrieve service lists from middleware, with
\* real-time monitoring of service changes": when a watched service is at
\* rest (every list sent has been merged, no call is under way), the cache
\* holds the instances the registry holds.
WatchedListIsCurrent ==
  /\ watcher = "recv" /\ events = <<>>
  /\ \A r \in Readers : reader[r] = ReaderIdle
  => \A i \in Instances : cache[i].addr = registry[i]

\* "Properly cleans up resources": no health check is left running after
\* Close.
CloseStopsChecks ==
  closed => \A i \in Instances : \A n \in DOMAIN checks[i] : ~checks[i][n].open
=============================================================================
