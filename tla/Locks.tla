-------------------------------- MODULE Locks --------------------------------
(***************************************************************************)
(* What the operations of ConfigManager and of DiscoveryWithLB do to the   *)
(* read-write locks mu, cbsMu, cacheMu, insMu and hcsMu, and the memory    *)
(* that goroutines share.  The other modules take a section under a lock   *)
(* as one step; this one asks whether they may.                            *)
(*                                                                         *)
(* An operation is the set of its paths through the code, a path is the    *)
(* sequence of its steps on locks and shared memory.  A loop over keys,    *)
(* instances or checks is one round of it, or two where the second differs.*)
(***************************************************************************)
EXTENDS Naturals, Sequences

CONSTANTS
  Goroutines,
  Works,         \* programs: the operations each goroutine performs, in any order
  Nobody         \* the owner of a lock that no writer has

Names == {"SyncConfig", "WatchCallback", "RefreshConfig", "Subscribe", "HealthCheck",
          "GetLocalConfig", "Register", "Deregister", "Watch", "GetInstances", "Tick", "Close"}

ASSUME LocksAssumption ==
  Works \subseteq [Goroutines -> SUBSET Names] /\ Nobody \notin Goroutines

Mutexes == {"mu", "cbsMu", "cacheMu", "insMu", "hcsMu"}

\* Maps and slices, which Go does not let two goroutines use while one of
\* them writes, and what they point to: a configuration, a list of instances.
Maps     == {"configs", "callbacks", "healthCache", "instances", "healthCheckStop"}
Contents == {"config", "list"}

VARIABLES
  work,          \* the program of this process
  todo,          \* todo[g]: what is left of g's path
  asked,         \* whether g has called the Lock or RLock that is next
  owner,         \* owner[l]: the writer that holds l, or waits for its readers
  readers,       \* readers[l]: those that hold l for reading
  queued         \* queued[l]: those that wait for the writer to unlock

vars == <<work, todo, asked, owner, readers, queued>>

(***************************************************************************)
(* Paths.                                                                  *)
(***************************************************************************)
Reads(x)  == <<[do |-> "read", on |-> x]>>
Writes(x) == <<[do |-> "write", on |-> x]>>

Locked(l, path)  == <<[do |-> "Lock", on |-> l]>> \o path \o <<[do |-> "Unlock", on |-> l]>>
RLocked(l, path) == <<[do |-> "RLock", on |-> l]>> \o path \o <<[do |-> "RUnlock", on |-> l]>>

notifyCallbacks == RLocked("cbsMu", Reads("callbacks"))

GetLocalConfig == {RLocked("mu", Reads("configs")) \o Reads("config")}

\* Variant: the remote configuration is stored without mu.
SyncConfigUnlocked ==
  {RLocked("mu", Reads("configs")) \o Writes("configs") \o notifyCallbacks}

\* For one key: the local configuration is read and uploaded, after its
\* version was set where it had none, or the remote one is stored, or one of
\* them is not valid.
SyncConfig ==
  {RLocked("mu", Reads("configs")) \o path : path \in
     {<<>>, Reads("config"), Reads("config") \o Writes("config") \o Reads("config"),
      Reads("config") \o Locked("mu", Writes("configs")) \o notifyCallbacks}}

\* Variant: where the configuration is not valid the callback keeps mu.
WatchCallbackKeeps ==
  {<<[do |-> "Lock", on |-> "mu"]>>,
   Locked("mu", Reads("configs") \o Reads("config") \o Writes("configs") \o notifyCallbacks)}

\* The callback of WatchConfig, with CallValidate, under mu throughout.
WatchCallback ==
  {Locked("mu", path) : path \in
     {<<>>, Reads("configs") \o Reads("config"),
      Reads("configs") \o Reads("config") \o Writes("configs") \o notifyCallbacks}}

\* It looks for the key without mu.
RefreshConfig == {Reads("configs"), Reads("configs") \o Locked("mu", Writes("configs"))}

Subscribe == {Locked("cbsMu", Reads("callbacks") \o Writes("callbacks"))}

\* The status is cached by the health loop, and read by the watch loops too.
HealthCheck ==
  {RLocked("cacheMu", Reads("healthCache")),
   RLocked("cacheMu", Reads("healthCache")) \o Locked("cacheMu", Writes("healthCache"))}

startHealthCheck ==
  {Locked("hcsMu", Reads("healthCheckStop")),
   Locked("hcsMu", Reads("healthCheckStop") \o Writes("healthCheckStop"))}

\* Variant: the cached list is looked at under hcsMu.
StopHealthCheckLooks ==
  {Locked("hcsMu", RLocked("insMu", Reads("instances")) \o Writes("healthCheckStop"))}

stopHealthCheck ==
  {Locked("hcsMu", Reads("healthCheckStop")),
   Locked("hcsMu", Reads("healthCheckStop") \o Writes("healthCheckStop"))}

\* DiscoveryWithLB.Watch, for each list: merge it, start a check for each new
\* instance, all under insMu.
Watch ==
  {Locked("insMu", Reads("instances") \o Reads("list") \o start \o Writes("instances")) :
     start \in startHealthCheck \union {<<>>}}

\* GetInstances and Select: the cached list, or a new one that is stored, if
\* it can be read; in the end filterHealthyInstances reads the list without a
\* lock.
GetInstances ==
  {RLocked("insMu", Reads("instances")) \o path : path \in
     {<<>>, Reads("list")} \union {Locked("insMu", start \o Writes("instances")) \o Reads("list") :
                                     start \in startHealthCheck \union {<<>>}}}

\* A tick of a health check: it writes the marks into the list, or removes
\* itself.
Tick ==
  {Locked("insMu", Reads("instances") \o Reads("list") \o Writes("list") \o Writes("instances"))}
  \union {Locked("insMu", Reads("instances")) \o stop : stop \in stopHealthCheck}

\* It ranges over healthCheckStop without hcsMu, and takes it in each round.
Close ==
  {Reads("healthCheckStop")} \union
  {Reads("healthCheckStop") \o stop \o Reads("healthCheckStop") : stop \in stopHealthCheck}

Paths ==
  [SyncConfig |-> SyncConfig, WatchCallback |-> WatchCallback,
   RefreshConfig |-> RefreshConfig, Subscribe |-> Subscribe, HealthCheck |-> HealthCheck,
   GetLocalConfig |-> GetLocalConfig,
   Register |-> startHealthCheck, Deregister |-> stopHealthCheck, Watch |-> Watch,
   GetInstances |-> GetInstances, Tick |-> Tick, Close |-> Close]

(***************************************************************************)
(* Steps.  The lock is Go's RWMutex: a writer first keeps other writers    *)
(* and new readers out and then waits for the readers inside; its Unlock   *)
(* lets in the readers that queued meanwhile.                              *)
(***************************************************************************)
IsNext(g, do) == todo[g] # <<>> /\ Head(todo[g]).do = do
Mutex(g)     == Head(todo[g]).on
Moves(g)     == todo' = [todo EXCEPT ![g] = Tail(todo[g])]

Begin(g) ==
  /\ todo[g] = <<>>
  /\ \E op \in work[g] : \E path \in Paths[op] : todo' = [todo EXCEPT ![g] = path]
  /\ UNCHANGED <<work, asked, owner, readers, queued>>

Access(g) ==
  /\ IsNext(g, "read") \/ IsNext(g, "write")
  /\ Moves(g)
  /\ UNCHANGED <<work, asked, owner, readers, queued>>

Asks(g) ==
  /\ ~asked[g] /\ asked' = [asked EXCEPT ![g] = TRUE]
  /\ \/ /\ IsNext(g, "Lock") /\ owner[Mutex(g)] = Nobody
        /\ owner' = [owner EXCEPT ![Mutex(g)] = g]
        /\ UNCHANGED <<readers, queued>>
     \/ /\ IsNext(g, "RLock") /\ owner[Mutex(g)] = Nobody
        /\ readers' = [readers EXCEPT ![Mutex(g)] = @ \union {g}]
        /\ UNCHANGED <<owner, queued>>
     \/ /\ IsNext(g, "RLock") /\ owner[Mutex(g)] # Nobody
        /\ queued' = [queued EXCEPT ![Mutex(g)] = @ \union {g}]
        /\ UNCHANGED <<owner, readers>>
  /\ UNCHANGED <<work, todo>>

Enters(g) ==
  /\ asked[g] /\ asked' = [asked EXCEPT ![g] = FALSE]
  /\ \/ IsNext(g, "Lock") /\ readers[Mutex(g)] = {}
     \/ IsNext(g, "RLock") /\ g \in readers[Mutex(g)]
  /\ Moves(g)
  /\ UNCHANGED <<work, owner, readers, queued>>

Unlocks(g) ==
  /\ IsNext(g, "Unlock")
  /\ owner' = [owner EXCEPT ![Mutex(g)] = Nobody]
  /\ readers' = [readers EXCEPT ![Mutex(g)] = queued[Mutex(g)]]
  /\ queued' = [queued EXCEPT ![Mutex(g)] = {}]
  /\ Moves(g)
  /\ UNCHANGED <<work, asked>>

RUnlocks(g) ==
  /\ IsNext(g, "RUnlock")
  /\ readers' = [readers EXCEPT ![Mutex(g)] = @ \ {g}]
  /\ Moves(g)
  /\ UNCHANGED <<work, asked, owner, queued>>

Init ==
  /\ work \in Works
  /\ todo = [g \in Goroutines |-> <<>>] /\ asked = [g \in Goroutines |-> FALSE]
  /\ owner = [l \in Mutexes |-> Nobody]
  /\ readers = [l \in Mutexes |-> {}] /\ queued = [l \in Mutexes |-> {}]

Step(g) == Access(g) \/ Enters(g) \/ Unlocks(g) \/ RUnlocks(g)

Next == \E g \in Goroutines : Begin(g) \/ Asks(g) \/ Step(g)

Spec == Init /\ [][Next]_vars

\* Goroutines are scheduled, and a mutex keeps nobody waiting for ever while
\* others take it again and again (sync.Mutex's starvation mode).
Fairness == \A g \in Goroutines : WF_vars(Step(g)) /\ SF_vars(Asks(g))

FairSpec == Spec /\ Fairness

(***************************************************************************)
(* Properties                                                              *)
(***************************************************************************)
\* Types; and a goroutine between two operations neither holds a lock nor
\* waits for one: no early return keeps one.
TypeOK ==
  /\ work \in Works
  /\ asked \in [Goroutines -> BOOLEAN]
  /\ owner \in [Mutexes -> Goroutines \union {Nobody}]
  /\ readers \in [Mutexes -> SUBSET Goroutines] /\ queued \in [Mutexes -> SUBSET Goroutines]
  /\ \A g \in Goroutines : todo[g] = <<>> =>
       ~asked[g] /\ \A l \in Mutexes : owner[l] # g /\ g \notin readers[l] \union queued[l]

Uses(g, x) == todo[g] # <<>> /\ Head(todo[g]).on = x

\* No goroutine is about to use x while another is about to write it.
Guarded(x) ==
  \A g, h \in Goroutines : Uses(g, x) /\ IsNext(g, "write") /\ Uses(h, x) => g = h

\* No map or slice header is used while it is written: for a map the Go
\* runtime ends the process.
MapsGuarded == \A x \in Maps : Guarded(x)

\* Nor is a configuration or a list of instances.
ContentsGuarded == \A x \in Contents : Guarded(x)

\* Every operation ends: no goroutine waits for ever for a lock, its own
\* locks included.
EveryOperationEnds == \A g \in Goroutines : todo[g] # <<>> ~> todo[g] = <<>>
=============================================================================
