------------------------------ MODULE DynaConfig ------------------------------
(***************************************************************************)
(* The dynamic configuration system: the managers, the centre and the      *)
(* goroutines that the providers' WatchConfig leaves running, which no     *)
(* WaitGroup counts.                                                       *)
(***************************************************************************)
EXTENDS ConfigManager

vars == <<centreVars, configs, thr, loop, life, health, callbackVars, calls, historyVars>>

watchFrame == <<remote, lock, thr, loop, life, health, calls, historyVars>>

To(m, k, x) == watch' = [watch EXCEPT ![m][k] = x]

\* Variants of the closure: it captures the loop variable and so serves the
\* last key; it does not start the callbacks.
OnChangeLastKey(m, k, w) ==
  LET j == KeyOrder[m][Len(KeyOrder[m])]
  IN  IF CallValidate(Decode(w)) = "ok" /\ w.ver > configs[m][j].ver
      THEN configs' = [configs EXCEPT ![m][j] = Decode(w)] /\ Notify(m, j, Decode(w))
      ELSE UNCHANGED <<configs, callbackVars>>

OnChangeSilent(m, k, w) ==
  /\ UNCHANGED callbackVars
  /\ IF CallValidate(Decode(w)) = "ok" /\ w.ver > configs[m][k].ver
     THEN configs' = [configs EXCEPT ![m][k] = Decode(w)]
     ELSE UNCHANGED configs

(***************************************************************************)
(* The closure Watch hands to WatchConfig.  It holds m.mu throughout: the  *)
(* comparison, the write and the start of the callbacks are one step.      *)
(***************************************************************************)
OnChange(m, k, w) ==
  IF CallValidate(Decode(w)) = "ok" /\ w.ver > configs[m][k].ver
  THEN configs' = [configs EXCEPT ![m][k] = Decode(w)] /\ Notify(m, k, Decode(w))
  ELSE UNCHANGED <<configs, callbackVars>>

(***************************************************************************)
(* etcd: a goroutine selects on the watch channel and on ctx.Done(); when  *)
(* both are ready either may be taken.                                     *)
(***************************************************************************)
EtcdEvent(m, k) ==
  LET x == watch[m][k]
  IN  /\ Provider = "etcd" /\ x.st = "on" /\ x.q # <<>>
      /\ OnChange(m, k, Head(x.q))
      /\ To(m, k, [x EXCEPT !.q = Tail(@)])
      /\ UNCHANGED watchFrame

EtcdStops(m, k) ==
  /\ Provider = "etcd" /\ watch[m][k].st = "on" /\ life[m] # "open"
  /\ To(m, k, WatchAt("dead", <<>>))
  /\ UNCHANGED <<watchFrame, configs, callbackVars>>

\* The client closes the watch channel (its revision was compacted, its
\* connection was given up): the goroutine logs that and returns.
EtcdChannelCloses(m, k) ==
  /\ Provider = "etcd" /\ watch[m][k].st = "on" /\ watch[m][k].q = <<>>
  /\ To(m, k, WatchAt("dead", <<>>))
  /\ UNCHANGED <<watchFrame, configs, callbackVars>>

(***************************************************************************)
(* Consul polls once a second; ZooKeeper reads and then waits for the      *)
(* one-shot event of that read.                                            *)
(***************************************************************************)
Polling == Provider \in {"consul", "zookeeper"}

PollStarts(m, k) ==
  /\ Polling /\ watch[m][k].st = "top"
  /\ To(m, k, WatchAt(IF life[m] = "open" THEN "fetch" ELSE "dead", <<>>))
  /\ UNCHANGED <<watchFrame, configs, callbackVars>>

\* The read finds a value.
PollReads(m, k) ==
  /\ Polling /\ watch[m][k].st = "fetch" /\ remote[k] # Nil
  /\ To(m, k, WatchAt("read", <<remote[k]>>))
  /\ UNCHANGED <<watchFrame, configs, callbackVars>>

\* The read finds no value or fails: sleep a second and start again.
PollMisses(m, k) ==
  /\ Polling /\ watch[m][k].st = "fetch"
  /\ To(m, k, WatchAt("top", <<>>))
  /\ UNCHANGED <<watchFrame, configs, callbackVars>>

\* Variant: an event that has come before the select is dropped.
PollDeliversArming(m, k) ==
  LET x == watch[m][k]
  IN  /\ x.st \in {"read", "reread"}
      /\ OnChange(m, k, Head(x.q))
      /\ To(m, k, WatchAt(IF Provider = "zookeeper" /\ x.st = "read" THEN "wait" ELSE "top", <<>>))
      /\ UNCHANGED watchFrame

PollDelivers(m, k) ==
  LET x == watch[m][k]
  IN  /\ x.st \in {"read", "reread"}
      /\ OnChange(m, k, Head(x.q))
      /\ To(m, k, IF Provider = "zookeeper" /\ x.st = "read"
                  THEN [st |-> "wait", ev |-> x.ev, q |-> <<>>]
                  ELSE WatchAt("top", <<>>))
      /\ UNCHANGED watchFrame

\* The event arrives and the value is read again.
ZkEvent(m, k) ==
  /\ watch[m][k].st = "wait" /\ watch[m][k].ev
  /\ To(m, k, WatchAt("reread", <<remote[k]>>))
  /\ UNCHANGED <<watchFrame, configs, callbackVars>>

\* The second read fails, or the event is of another type (a session event).
ZkEventMisses(m, k) ==
  /\ watch[m][k].st = "wait"
  /\ To(m, k, WatchAt("top", <<>>))
  /\ UNCHANGED <<watchFrame, configs, callbackVars>>

\* Variant: the select waits for the event only.
ZkStopsOnEvent(m, k) ==
  /\ watch[m][k].st = "wait" /\ watch[m][k].ev /\ life[m] # "open"
  /\ To(m, k, WatchAt("dead", <<>>))
  /\ UNCHANGED <<watchFrame, configs, callbackVars>>

ZkStops(m, k) ==
  /\ watch[m][k].st = "wait" /\ life[m] # "open"
  /\ To(m, k, WatchAt("dead", <<>>))
  /\ UNCHANGED <<watchFrame, configs, callbackVars>>

(***************************************************************************)
(* Nacos: the SDK calls OnChange with the value current at that time.      *)
(* Nothing cancels the listener: not m.ctx, and not Close, which closes    *)
(* only the clients that are idle in the pool.                             *)
(***************************************************************************)
NacosPush(m, k) ==
  LET x == watch[m][k]
  IN  /\ Provider = "nacos" /\ x.st = "on" /\ x.ev
      /\ OnChange(m, k, remote[k])
      /\ To(m, k, [x EXCEPT !.ev = FALSE])
      /\ UNCHANGED watchFrame

(***************************************************************************)
(* The system                                                              *)
(***************************************************************************)
Init == CentreInit /\ ManagerInit

WatcherStep(m, k) ==
  \/ EtcdEvent(m, k) \/ EtcdStops(m, k)
  \/ PollStarts(m, k) \/ PollDelivers(m, k)
  \/ ZkEvent(m, k) \/ ZkStops(m, k)
  \/ NacosPush(m, k)

WatcherFails(m, k) ==
  EtcdChannelCloses(m, k) \/ PollMisses(m, k) \/ ZkEventMisses(m, k)

\* What the wait group waits for.
LoopStep(m) ==
  \/ HealthStops(m)
  \/ \E k \in Keys : \/ WatchLoopStops(m, k) \/ WatchLoopOpens(m, k)
                     \/ WatchLoopReturns(m, k)

Application(m) ==
  \/ \E s \in Subscribers : Subscribe(m, s)
  \/ \E r \in Apps : SyncCall(m, r)
  \/ \E r \in Apps, k \in Keys, c \in Inputs : RefreshConfig(m, r, k, c)
  \/ Watch(m) \/ CloseCancels(m)

Next ==
  \/ \E m \in Managers :
       \/ Application(m)
       \/ \E r \in Roles : SyncStep(m, r) \/ SyncFails(m, r)
       \/ HealthPasses(m) \/ HealthFails(m) \/ HealthExpires(m)
       \/ LoopStep(m) \/ CloseReturns(m)
       \/ \E k \in Keys : \/ WatchLoopResyncs(m, k)
                         \/ WatcherStep(m, k) \/ PollReads(m, k) \/ WatcherFails(m, k)
  \/ \E k \in Keys, w \in Edits : Edit(k, w)
  \/ \E x \in runs : RunCallback(x)

Spec == Init /\ [][Next]_vars

\* Every goroutine that can move moves: the Go scheduler runs it and the
\* centre answers.  Nothing obliges the application to call, a request to
\* fail or a cached status to age.  A closed manager's pool is drained, so a
\* request that still has to take a client from it may wait for ever; a
\* goroutine about to store has its client in hand.  A poll may fail, but
\* not every poll of an endless run of them does.
Fairness ==
  /\ \A m \in Managers :
       /\ WF_vars(LoopStep(m)) /\ WF_vars(CloseReturns(m))
       /\ \A r \in Roles : /\ WF_vars(life[m] # "closed" /\ SyncStep(m, r))
                           /\ WF_vars(PutStore(m, r))
       /\ \A k \in Keys : /\ WF_vars(WatcherStep(m, k))
                          /\ SF_vars(life[m] # "closed" /\ PollReads(m, k))
  /\ WF_vars(\E x \in runs : RunCallback(x))

FairSpec == Spec /\ Fairness

(***************************************************************************)
(* Type invariant                                                          *)
(***************************************************************************)
SyncState == {"idle", "get", "decide", "adopt", "notify", "lock", "put"}

Thread   == [pc: SyncState, at: Nat \ {0}, rem: Wire \cup {Nil}, loc: Wire \cup {Nil}]
WatchRec == [st: WatchState, ev: BOOLEAN, q: Seq(Wire)]

Types ==
  /\ remote \in [Keys -> Wire \cup {Nil}]
  /\ lock \in [Keys -> (Managers \X Roles) \cup {Nil}]
  /\ watch \in [Managers -> [Keys -> WatchRec]]
  /\ configs \in [Managers -> [Keys -> Config]]
  /\ thr \in [Managers -> [Roles -> Thread]]
  /\ loop \in [Managers -> [Loops -> {"off", "run", "resync", "done"}]]
  /\ life \in [Managers -> {"open", "cancelled", "closed"}]
  /\ health \in [Managers -> BOOLEAN]
  /\ subs \in [Managers -> SUBSET Subscribers]
  /\ runs \subseteq [mgr: Managers, sub: Subscribers, key: Keys, cfg: Config]
  /\ seen \in [Managers -> [Subscribers -> [Keys -> Config \cup {Nil}]]]
  /\ calls \in Nat
  /\ handed \in [Managers -> [Keys -> SUBSET Wire]]
  /\ edited \in [Keys -> SUBSET Wire]
  /\ told \in [Managers -> [Keys -> SUBSET Wire]]

\* A role inside SyncConfig stands at one of the manager's keys, and has the
\* remote value it is to adopt or the local value it is to upload.
SyncShape ==
  \A m \in Managers, r \in Roles :
    /\ ~At(m, r, "idle") => thr[m][r].at <= Len(KeyOrder[m])
    /\ At(m, r, "adopt") \/ At(m, r, "notify") => thr[m][r].rem # Nil
    /\ At(m, r, "lock") \/ At(m, r, "put") => thr[m][r].loc # Nil

\* A watch that is about to call back has a value; one that waits for an
\* event, or has one, is on a key that exists.
WatchShape ==
  \A m \in Managers, k \in Keys :
    /\ watch[m][k].st \in {"read", "reread"} => watch[m][k].q # <<>>
    /\ watch[m][k].st \in {"read", "wait"} \/ watch[m][k].ev => remote[k] # Nil

\* The type invariant: no goroutine dereferences a value it does not have.
TypeOK == Types /\ SyncShape /\ WatchShape

(***************************************************************************)
(* Safety                                                                  *)
(***************************************************************************)
\* What the applications and the operators have put into the system for k,
\* with the version 1 that SyncConfig stamps on an unversioned entry.
Sources(k)   == edited[k] \cup UNION {handed[m][k] : m \in Managers}
Authentic(k) == Sources(k) \cup {[w EXCEPT !.ver = 1] : w \in {s \in Sources(k) : s.ver = 0}}

\* No interleaving of syncs, watches and uploads mixes keys, pairs one
\* configuration's version with another's content or makes one up: what is
\* stored, held locally or passed to a callback for k was supplied for k.
NoInvention ==
  \A k \in Keys :
    /\ remote[k] \in Authentic(k) \cup {Nil}
    /\ \A m \in Managers : /\ Encode(configs[m][k]) \in Authentic(k)
                            /\ told[m][k] \subseteq Authentic(k)

\* However late a snapshot of the centre is adopted, a manager never holds a
\* version below everything its own application has handed it.
NeverBelowHanded ==
  \A m \in Managers, k \in Keys :
    \E h \in handed[m][k] : configs[m][k].ver >= h.ver

\* A configuration that came from the centre is announced: either its
\* callbacks have been started or the goroutine that adopted it is about to.
HotReloadComplete ==
  \A m \in Managers, k \in Keys :
    LET w == Encode(configs[m][k])
    IN  \/ w \in handed[m][k] \/ [w EXCEPT !.ver = 0] \in handed[m][k]
        \/ w \in told[m][k]
        \/ \E r \in Roles : At(m, r, "notify") /\ Key(m, r) = k /\ thr[m][r].rem = w

\* The lock of a key is held only by a goroutine about to store under that
\* key, so no failed upload leaves a lock behind for the others to wait on.
NoOrphanLock ==
  \A k \in Keys : lock[k] # Nil =>
    At(lock[k][1], lock[k][2], "put") /\ Key(lock[k][1], lock[k][2]) = k

\* Once Close has returned, no goroutine of the wait group is inside
\* SyncConfig: none will write the centre, hold a lock or replace a
\* configuration with a pool that is gone.
CloseQuiesces ==
  \A m \in Managers, l \in Loops : life[m] = "closed" => At(m, l, "idle")

(***************************************************************************)
(* Liveness                                                                *)
(***************************************************************************)
\* Close returns: the health loop and the watch loops all come out of their
\* syncs, whatever locks they meet on the way.
CloseTerminates ==
  \A m \in Managers : life[m] = "cancelled" ~> life[m] = "closed"

\* The watch of m on k has a value to deliver, or will read again.
HasNews(m, k) ==
  LET x == watch[m][k]
  IN  x.st \in {"top", "fetch", "read", "reread"} \/ x.ev \/ x.q # <<>>

\* An open manager watches k, and the centre has a valid value for it.
Served(m, k) ==
  /\ life[m] = "open" /\ watch[m][k].st \notin {"none", "dead"}
  /\ remote[k] # Nil /\ CallValidate(Decode(remote[k])) = "ok"

InStep(m, k) == configs[m][k].ver >= remote[k].ver

\* No write to the centre is lost on a watch that is open, wherever in its
\* cycle the write finds it: the manager comes to hold the version the centre
\* then has, or a later one, whatever its syncs and other managers do
\* meanwhile.  (It need not keep it: a sync may then adopt a snapshot that is
\* older, which no watch notices.  See StaysInStep.)
CatchesUp ==
  \A m \in Managers, k \in Keys :
    Served(m, k) /\ HasNews(m, k) ~> (Served(m, k) => InStep(m, k))

\* "Properly cleans up resources (connections, listeners)": after Close no
\* goroutine or listener of the manager goes on serving its keys, but for a
\* polling goroutine caught between its look at the context and its turn for
\* a client, which then waits for ever at the drained pool.  (Nacos listeners
\* go on.)
WatchesEnd ==
  \A m \in Managers, k \in Keys :
    <>[](life[m] = "closed" => watch[m][k].st \in {"none", "dead", "fetch"})

(***************************************************************************)
(* What the documentation says and the code does not do                    *)
(***************************************************************************)
\* "Monitors configuration changes in real-time": a manager that was up to
\* date once and keeps a watch on k does not stay behind for ever.
StaysInStep ==
  \A m \in Managers, k \in Keys :
    [](remote[k] # Nil /\ InStep(m, k) => <>[](Served(m, k) => InStep(m, k)))

\* "Distributed Locks ... to ensure the safety of configuration updates":
\* an upload never replaces a version of the centre by an older one.
CentreNeverGoesBack ==
  [][\A k \in Keys : remote[k] # Nil /\ calls' = calls => remote'[k].ver >= remote[k].ver]_vars

\* "Automatically updates based on version control": short of a refresh by
\* the application, the local version never goes back.
LocalNeverGoesBack ==
  [][\A m \in Managers, k \in Keys :
       calls' = calls => configs'[m][k].ver >= configs[m][k].ver]_vars

\* "Automatically reconnects": a watch loop that has finished in an open
\* manager has left a watch behind.
WatchSurvives ==
  \A m \in Managers, k \in Keys :
    life[m] = "open" /\ loop[m][k] = "done" => watch[m][k].st \notin {"none", "dead"}
=============================================================================
