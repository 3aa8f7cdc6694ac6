--------------------------- MODULE DiscoveryLBProofs ---------------------------
(***************************************************************************)
(* Proofs about DiscoveryLB, for any instances, addresses, readers and     *)
(* failure limit: its types; that the map of stop channels and the         *)
(* goroutines agree; that the health marks agree with the counts.  Each is *)
(* proved for the stores of the component that it is about (the checks and *)
(* their map, the cached list) and then for the steps that change them.    *)
(***************************************************************************)
EXTENDS DiscoveryLB, TLAPS

(***************************************************************************)
(* The checks and the map of their stop channels.                          *)
(***************************************************************************)
CheckTypes == checks \in [Instances -> Seq(Check)] /\ stop \in [Instances -> Nat]
CheckInv   == CheckTypes /\ OpenIffInMap

\* startHealthCheck adds an open channel and enters it in the map, only for
\* an instance for which the map has none.
LEMMA StartKeepsChecks ==
  ASSUME NEW S, NEW bound \in BOOLEAN, CheckInv, Start(S, bound)
  PROVE  CheckInv'
<1> DEFINE T == {i \in S : stop[i] = 0}
<1>1. /\ checks' = [i \in Instances |->
           IF i \notin T THEN checks[i] ELSE Append(checks[i], NewCheck(bound))]
      /\ stop' = [i \in Instances |-> IF i \in T THEN Len(checks[i]) + 1 ELSE stop[i]]
  BY DEF Start
<1>2. NewCheck(bound) \in Check /\ NewCheck(bound).open
  BY DEF NewCheck, Check
<1>3. ASSUME NEW i \in Instances
      PROVE  /\ checks'[i] \in Seq(Check) /\ stop'[i] \in Nat
             /\ stop'[i] \in 0..Len(checks'[i])
             /\ \A n \in DOMAIN checks'[i] : checks'[i][n].open <=> stop'[i] = n
  <2> checks[i] \in Seq(Check) /\ stop[i] \in Nat
    BY DEF CheckInv, CheckTypes
  <2> /\ stop[i] \in 0..Len(checks[i])
      /\ \A n \in DOMAIN checks[i] : checks[i][n].open <=> stop[i] = n
    BY DEF CheckInv, OpenIffInMap
  <2>1. CASE i \notin T
    <3>1. checks'[i] = checks[i] /\ stop'[i] = stop[i]
      BY <1>1, <2>1
    <3> QED  BY <3>1
  <2>2. CASE i \in T
    <3>1. checks'[i] = Append(checks[i], NewCheck(bound)) /\ stop'[i] = Len(checks[i]) + 1
      BY <1>1, <2>2
    <3>2. stop[i] = 0
      BY <2>2
    <3>3. /\ checks'[i] \in Seq(Check) /\ Len(checks'[i]) = Len(checks[i]) + 1
          /\ DOMAIN checks'[i] = 1..(Len(checks[i]) + 1)
      BY <1>2, <3>1
    <3>4. ASSUME NEW n \in DOMAIN checks'[i]
          PROVE  checks'[i][n].open <=> stop'[i] = n
      <4>1. CASE n = Len(checks[i]) + 1
        BY <1>2, <3>1, <4>1
      <4>2. CASE n # Len(checks[i]) + 1
        <5>1. n \in DOMAIN checks[i] /\ n # 0
          BY <3>3, <4>2
        <5>2. checks'[i][n] = checks[i][n]
          BY <3>1, <5>1
        <5> QED  BY <3>1, <3>2, <4>2, <5>1, <5>2
      <4> QED  BY <4>1, <4>2
    <3> QED  BY <3>1, <3>3, <3>4
  <2> QED  BY <2>1, <2>2
<1> QED  BY <1>1, <1>3 DEF CheckInv, CheckTypes, OpenIffInMap

\* Once every channel of an instance is closed, the map may have none.
LEMMA AllToldKeepsChecks ==
  ASSUME NEW i \in Instances, NEW s \in Seq(Check), CheckInv,
         \A n \in DOMAIN s : ~s[n].open,
         checks' = [checks EXCEPT ![i] = s], stop' = [stop EXCEPT ![i] = 0]
  PROVE  CheckInv'
<1>1. checks'[i] = s /\ stop'[i] = 0
  BY DEF CheckInv, CheckTypes
<1>2. CheckTypes'
  BY DEF CheckInv, CheckTypes
<1>3. ASSUME NEW j \in Instances
      PROVE  /\ stop'[j] \in 0..Len(checks'[j])
             /\ \A n \in DOMAIN checks'[j] : checks'[j][n].open <=> stop'[j] = n
  <2>1. CASE j = i
    <3>1. Len(s) \in Nat /\ \A n \in DOMAIN s : n # 0
      OBVIOUS
    <3> QED  BY <1>1, <2>1, <3>1
  <2>2. CASE j # i
    <3>1. checks'[j] = checks[j] /\ stop'[j] = stop[j]
      BY <2>2 DEF CheckInv, CheckTypes
    <3> QED  BY <3>1 DEF CheckInv, OpenIffInMap
  <2> QED  BY <2>1, <2>2
<1> QED  BY <1>2, <1>3 DEF CheckInv, OpenIffInMap

\* Closing the channel that the map has closes the last open one.
LEMMA StoppedAllTold ==
  ASSUME NEW i \in Instances, CheckInv
  PROVE  /\ Stopped(i) \in Seq(Check) /\ DOMAIN Stopped(i) = DOMAIN checks[i]
         /\ \A n \in DOMAIN Stopped(i) : ~Stopped(i)[n].open
<1> DEFINE s == stop[i]
<1>1. /\ checks[i] \in Seq(Check) /\ s \in 0..Len(checks[i])
      /\ \A n \in DOMAIN checks[i] : checks[i][n].open <=> s = n
  BY DEF CheckInv, CheckTypes, OpenIffInMap
<1>2. CASE s = 0
  BY <1>1, <1>2 DEF Stopped
<1>3. CASE s # 0
  <2> DEFINE c == [checks[i][s] EXCEPT !.open = FALSE]
  <2>1. s \in DOMAIN checks[i] /\ checks[i][s] \in Check
    BY <1>1, <1>3
  <2>2. c \in Check /\ ~c.open
    BY <2>1 DEF Check
  <2>3. Stopped(i) = [checks[i] EXCEPT ![s] = c]
    BY <1>3 DEF Stopped
  <2> HIDE DEF c, s
  <2> QED  BY <1>1, <2>1, <2>2, <2>3
<1> QED  BY <1>2, <1>3

\* stopHealthCheck closes the channel that the map has and deletes it.
LEMMA StopKeepsChecks ==
  ASSUME NEW i \in Instances, CheckInv, StopAny(i)
  PROVE  CheckInv'
BY StoppedAllTold, AllToldKeepsChecks DEF StopAny

\* A check that misses its instance, or that exits, keeps its channel.
LEMMA MovesKeepChecks ==
  ASSUME NEW i \in Instances, NEW n \in DOMAIN checks[i], NEW p \in {"orphan", "exited"},
         CheckInv, checks' = [checks EXCEPT ![i][n].pc = p], UNCHANGED stop
  PROVE  CheckInv'
<1>1. checks[i] \in Seq(Check)
  BY DEF CheckInv, CheckTypes
<1>2. checks[i][n] \in Check
  BY <1>1
<1> DEFINE c == [checks[i][n] EXCEPT !.pc = p]
<1>3. c \in Check /\ c.open = checks[i][n].open
  BY <1>2 DEF Check
<1>4. checks'[i] = [checks[i] EXCEPT ![n] = c]
  BY DEF CheckInv, CheckTypes
<1>5. /\ checks'[i] \in Seq(Check) /\ Len(checks'[i]) = Len(checks[i])
      /\ DOMAIN checks'[i] = DOMAIN checks[i]
      /\ \A m \in DOMAIN checks[i] : checks'[i][m].open = checks[i][m].open
  BY <1>1, <1>3, <1>4
<1>6. \A j \in Instances : j # i => checks'[j] = checks[j]
  BY DEF CheckInv, CheckTypes
<1>7. CheckTypes'
  <2>1. \A j \in Instances : checks'[j] \in Seq(Check)
    BY <1>5, <1>6 DEF CheckInv, CheckTypes
  <2> QED  BY <2>1 DEF CheckInv, CheckTypes
<1>8. ASSUME NEW j \in Instances
      PROVE  /\ stop'[j] \in 0..Len(checks'[j])
             /\ \A m \in DOMAIN checks'[j] : checks'[j][m].open <=> stop'[j] = m
  BY <1>5, <1>6 DEF CheckInv, OpenIffInMap
<1> QED  BY <1>7, <1>8 DEF CheckInv, OpenIffInMap

\* A check that lost its instance closes the channel that the map has, be it
\* its own or that of a later check.
LEMMA CleanUpKeepsChecks ==
  ASSUME NEW i \in Instances, NEW n \in DOMAIN checks[i], CheckInv, CleanUp(i, n)
  PROVE  CheckInv'
<1> DEFINE c == [Stopped(i)[n] EXCEPT !.pc = "select"]
           s == [Stopped(i) EXCEPT ![n] = c]
<1>1. /\ Stopped(i) \in Seq(Check) /\ n \in DOMAIN Stopped(i)
      /\ \A m \in DOMAIN Stopped(i) : ~Stopped(i)[m].open
  BY StoppedAllTold
<1>2. Stopped(i)[n] \in Check
  BY <1>1
<1>3. c \in Check /\ ~c.open
  BY <1>1, <1>2 DEF Check
<1>4. s \in Seq(Check) /\ \A m \in DOMAIN s : ~s[m].open
  <2> HIDE DEF c
  <2> QED  BY <1>1, <1>3
<1>5. checks' = [checks EXCEPT ![i] = s] /\ stop' = [stop EXCEPT ![i] = 0]
  BY DEF CleanUp
<1> HIDE DEF s
<1> QED  BY <1>4, <1>5, AllToldKeepsChecks

(***************************************************************************)
(* Types.                                                                  *)
(***************************************************************************)
\* The lists of the backend and of those who hold one.
ListTypes ==
  /\ registry \in List /\ events \in Seq(List) /\ changes \in Nat
  /\ reader \in [Readers -> [pc: {"idle", "fetch"}, list: {Nil}]
                             \cup [pc: {"fill"}, list: List]]

CacheTypes == cached \in BOOLEAN /\ cache \in [Instances -> Entry \cup {Absent}]

ControlTypes ==
  /\ watcher \in {"off", "recv", "send", "ended"}
  /\ \/ app = AppIdle
     \/ app \in [pc: {"registered", "stopped"}, inst: Instances]
  /\ ctx \in {"live", "done"} /\ closed \in BOOLEAN

LBInv == ListTypes /\ CacheTypes /\ ControlTypes /\ CheckInv

LEMMA RegistersTypes ==
  ASSUME NEW i \in Instances, NEW a \in Addrs \cup {Nil}, ListTypes, Registers(i, a),
         UNCHANGED reader
  PROVE  ListTypes'
<1>1. registry' \in List
  BY DEF ListTypes, Registers, List
<1>2. events' \in Seq(List)
  BY <1>1 DEF ListTypes, Registers
<1> QED  BY <1>1, <1>2 DEF ListTypes, Registers

\* What a probe makes of a cached instance.
LEMMA ProbedEntry ==
  ASSUME NEW e \in Entry, NEW ok \in BOOLEAN
  PROVE  /\ Probed(e, ok) \in Entry
         /\ (e.healthy <=> e.failed < MaxFailed)
              => (Probed(e, ok).healthy <=> Probed(e, ok).failed < MaxFailed)
<1> DEFINE n == IF ok THEN 0 ELSE IF e.failed < MaxFailed THEN e.failed + 1 ELSE MaxFailed
           h == IF ok THEN TRUE ELSE e.healthy /\ n < MaxFailed
<1>1. MaxFailed \in Nat \ {0} /\ e.failed \in 0..MaxFailed /\ e.healthy \in BOOLEAN
  BY DiscoveryAssumption DEF Entry
<1>2. n \in 0..MaxFailed /\ (n < MaxFailed => ok \/ e.failed < MaxFailed)
  BY <1>1
<1>3. Probed(e, ok) = [[e EXCEPT !.failed = n] EXCEPT !.healthy = h]
  BY <1>1 DEF Probed, Entry
<1>4. h \in BOOLEAN
  BY <1>1
<1>5. (e.healthy <=> e.failed < MaxFailed) => (h <=> n < MaxFailed)
  BY <1>1, <1>2
<1> HIDE DEF n, h
<1>6. /\ Probed(e, ok) \in Entry
      /\ Probed(e, ok).healthy = h /\ Probed(e, ok).failed = n
  BY <1>2, <1>3, <1>4 DEF Entry
<1> QED  BY <1>5, <1>6

\* The steps of a health check.
LEMMA CheckSteps ==
  ASSUME LBInv, NEW i \in Instances, NEW n \in DOMAIN checks[i], CheckStep(i, n)
  PROVE  LBInv'
<1>1. CASE \E ok \in BOOLEAN : Tick(i, n, ok)
  <2>1. PICK ok \in BOOLEAN : Tick(i, n, ok)
    BY <1>1
  <2>2. cache[i] \in Entry
    BY <2>1 DEF Tick, Cached, LBInv, CacheTypes
  <2>3. Probed(cache[i], ok) \in Entry
    BY <2>2, ProbedEntry
  <2>4. CacheTypes'
    BY <2>1, <2>3 DEF Tick, LBInv, CacheTypes
  <2>5. ListTypes' /\ ControlTypes' /\ CheckInv'
    BY <2>1 DEF Tick, LBInv, ListTypes, ControlTypes, CheckInv, CheckTypes, OpenIffInMap,
                backendVars, checkVars
  <2> QED  BY <2>4, <2>5 DEF LBInv
<1>2. CASE TickMisses(i, n)
  <2>1. CheckInv'
    BY <1>2, MovesKeepChecks DEF TickMisses, LBInv
  <2> QED  BY <1>2, <2>1 DEF TickMisses, LBInv, ListTypes, CacheTypes, ControlTypes,
                            backendVars, cacheVars
<1>3. CASE CleanUp(i, n)
  <2>1. CheckInv'
    BY <1>3, CleanUpKeepsChecks DEF LBInv
  <2> QED  BY <1>3, <2>1 DEF CleanUp, LBInv, ListTypes, CacheTypes, ControlTypes,
                            backendVars, cacheVars
<1>4. CASE Exit(i, n)
  <2>1. CheckInv'
    BY <1>4, MovesKeepChecks DEF Exit, LBInv
  <2> QED  BY <1>4, <2>1 DEF Exit, LBInv, ListTypes, CacheTypes, ControlTypes,
                            backendVars, cacheVars
<1> QED  BY <1>1, <1>2, <1>3, <1>4 DEF CheckStep

\* The steps of the registry, of Register and of Deregister.
LEMMA RegistrySteps ==
  ASSUME LBInv,
         \/ \E i \in Instances, a \in Addrs \cup {Nil} : RegistryChanges(i, a)
         \/ \E i \in Instances, a \in Addrs : Register(i, a)
         \/ \E i \in Instances : Deregister(i)
         \/ RegisterStarts \/ DeregisterReturns
  PROVE  LBInv'
<1>1. CASE \E i \in Instances, a \in Addrs \cup {Nil} : RegistryChanges(i, a)
  <2>1. PICK i \in Instances, a \in Addrs \cup {Nil} : RegistryChanges(i, a)
    BY <1>1
  <2>2. ListTypes'
    BY <2>1, RegistersTypes DEF RegistryChanges, LBInv
  <2> QED  BY <2>1, <2>2 DEF RegistryChanges, LBInv, CacheTypes, ControlTypes, CheckInv,
                            CheckTypes, OpenIffInMap, cacheVars, checkVars
<1>2. CASE \E i \in Instances, a \in Addrs : Register(i, a)
  <2>1. PICK i \in Instances, a \in Addrs : Register(i, a)
    BY <1>2
  <2>2. ListTypes'
    BY <2>1, RegistersTypes DEF Register, LBInv
  <2>3. ControlTypes'
    BY <2>1 DEF Register, LBInv, ControlTypes
  <2> QED  BY <2>1, <2>2, <2>3 DEF Register, LBInv, CacheTypes, CheckInv,
                                  CheckTypes, OpenIffInMap, cacheVars, checkVars
<1>3. CASE \E i \in Instances : Deregister(i)
  <2>1. PICK i \in Instances : Deregister(i)
    BY <1>3
  <2>2. CheckInv'
    BY <2>1, StopKeepsChecks DEF Deregister, LBInv
  <2>3. ControlTypes'
    BY <2>1 DEF Deregister, LBInv, ControlTypes
  <2> QED  BY <2>1, <2>2, <2>3 DEF Deregister, LBInv, ListTypes, CacheTypes,
                                  backendVars, cacheVars
<1>4. CASE RegisterStarts
  <2>1. CheckInv'
    BY <1>4, StartKeepsChecks DEF RegisterStarts, LBInv
  <2> QED  BY <1>4, <2>1 DEF RegisterStarts, LBInv, ListTypes, CacheTypes, ControlTypes,
                            backendVars, cacheVars
<1>5. CASE DeregisterReturns
  <2>1. app.inst \in Instances
    BY <1>5 DEF DeregisterReturns, LBInv, ControlTypes, AppIdle
  <2>2. ListTypes'
    <3>1. CASE Registers(app.inst, Nil)
      BY <1>5, <2>1, <3>1, RegistersTypes DEF DeregisterReturns, LBInv
    <3>2. CASE UNCHANGED backendVars
      BY <1>5, <3>2 DEF DeregisterReturns, LBInv, ListTypes, backendVars
    <3> QED  BY <1>5, <3>1, <3>2 DEF DeregisterReturns
  <2> QED  BY <1>5, <2>2 DEF DeregisterReturns, LBInv, CacheTypes, ControlTypes, CheckInv,
                            CheckTypes, OpenIffInMap, cacheVars, checkVars
<1> QED  BY <1>1, <1>2, <1>3, <1>4, <1>5

\* The steps of Watch.
LEMMA WatchSteps ==
  ASSUME LBInv, Watch \/ Receive \/ Consume \/ WatchEnds
  PROVE  LBInv'
<1>1. CASE Watch
  <2>1. ListTypes'
    BY <1>1 DEF Watch, LBInv, ListTypes
  <2> QED  BY <1>1, <2>1 DEF Watch, LBInv, CacheTypes, ControlTypes, CheckInv,
                            CheckTypes, OpenIffInMap, cacheVars, checkVars
<1>2. CASE Receive
  <2> DEFINE L == Head(events)
  <2>1. L \in List /\ Tail(events) \in Seq(List)
    BY <1>2 DEF Receive, LBInv, ListTypes
  <2>2. ListTypes'
    BY <1>2, <2>1 DEF Receive, LBInv, ListTypes
  <2>3. CheckInv'
    BY <1>2, StartKeepsChecks DEF Receive, LBInv
  <2>4. ASSUME NEW i \in Instances, L[i] # Nil
        PROVE  Merged(i, L[i]) \in Entry
    <3>1. L[i] \in Addrs
      BY <2>1, <2>4 DEF List
    <3>2. cache[i] # Absent => cache[i] \in Entry
      BY DEF LBInv, CacheTypes
    <3>3. Fresh(L[i]) \in Entry
      BY <3>1, DiscoveryAssumption DEF Fresh, Entry
    <3> HIDE DEF L
    <3> QED  BY <3>1, <3>2, <3>3 DEF Merged, Cached, Entry
  <2>5. CacheTypes'
    BY <1>2, <2>4 DEF Receive, CacheTypes
  <2> QED  BY <1>2, <2>2, <2>3, <2>5 DEF Receive, LBInv, ControlTypes
<1>3. CASE Consume
  BY <1>3 DEF Consume, LBInv, ListTypes, CacheTypes, ControlTypes, CheckInv,
              CheckTypes, OpenIffInMap, backendVars, cacheVars, checkVars
<1>4. CASE WatchEnds
  BY <1>4 DEF WatchEnds, LBInv, ListTypes, CacheTypes, ControlTypes, CheckInv,
              CheckTypes, OpenIffInMap, backendVars, cacheVars, checkVars
<1> QED  BY <1>1, <1>2, <1>3, <1>4

\* The steps of GetInstances.
LEMMA ReaderSteps ==
  ASSUME LBInv, NEW r \in Readers, Misses(r) \/ Fetches(r) \/ Fills(r)
  PROVE  LBInv'
<1>1. CASE Misses(r)
  <2>1. ListTypes'
    BY <1>1 DEF Misses, LBInv, ListTypes, ReaderIdle, backendVars
  <2> QED  BY <1>1, <2>1 DEF Misses, LBInv, CacheTypes, ControlTypes, CheckInv,
                            CheckTypes, OpenIffInMap, cacheVars, checkVars
<1>2. CASE Fetches(r)
  <2>1. ListTypes'
    BY <1>2 DEF Fetches, LBInv, ListTypes, ReaderIdle, backendVars
  <2> QED  BY <1>2, <2>1 DEF Fetches, LBInv, CacheTypes, ControlTypes, CheckInv,
                            CheckTypes, OpenIffInMap, cacheVars, checkVars
<1>3. CASE Fills(r)
  <2> DEFINE L == reader[r].list
  <2>1. L \in List
    BY <1>3 DEF Fills, LBInv, ListTypes
  <2>2. ListTypes'
    BY <1>3 DEF Fills, LBInv, ListTypes, ReaderIdle, backendVars
  <2>3. CheckInv'
    BY <1>3, StartKeepsChecks DEF Fills, LBInv
  <2>4. \A i \in Instances : L[i] # Nil => Fresh(L[i]) \in Entry
    BY <2>1, DiscoveryAssumption DEF Fresh, Entry, List
  <2>5. CacheTypes'
    BY <1>3, <2>4 DEF Fills, CacheTypes
  <2> QED  BY <1>3, <2>2, <2>3, <2>5 DEF Fills, LBInv, ControlTypes
<1> QED  BY <1>1, <1>2, <1>3

LEMMA InitLB == Init => LBInv
<1> SUFFICES ASSUME Init PROVE LBInv
  OBVIOUS
<1>1. ListTypes
  BY DEF Init, ListTypes, ReaderIdle
<1>2. CheckInv
  BY DEF Init, CheckInv, CheckTypes, OpenIffInMap
<1> QED  BY <1>1, <1>2 DEF Init, LBInv, CacheTypes, ControlTypes

LEMMA NextLB == LBInv /\ [Next]_vars => LBInv'
<1> SUFFICES ASSUME LBInv, [Next]_vars PROVE LBInv'
  OBVIOUS
<1>1. CASE \E i \in Instances : \E n \in DOMAIN checks[i] : CheckStep(i, n)
  BY <1>1, CheckSteps
<1>2. CASE Close \/ CtxDone
  <2>1. ListTypes' /\ CacheTypes' /\ CheckInv'
    BY <1>2 DEF Close, CtxDone, LBInv, ListTypes, CacheTypes, CheckInv,
                CheckTypes, OpenIffInMap, backendVars, cacheVars, checkVars
  <2>2. ControlTypes'
    BY <1>2 DEF Close, CtxDone, LBInv, ControlTypes
  <2> QED  BY <2>1, <2>2 DEF LBInv
<1>3. CASE UNCHANGED vars
  BY <1>3 DEF vars, LBInv, ListTypes, CacheTypes, ControlTypes, CheckInv,
              CheckTypes, OpenIffInMap, backendVars, cacheVars, checkVars
<1> QED  BY <1>1, <1>2, <1>3, RegistrySteps, WatchSteps, ReaderSteps DEF Next

LEMMA AlwaysLB == Spec => []LBInv
BY InitLB, NextLB, PTL DEF Spec

\* Types; a caller that fills the cache has a list.
THEOREM DiscoveryTypeCorrect == Spec => []TypeOK
<1>1. LBInv => TypeOK
  BY DEF LBInv, ListTypes, CacheTypes, ControlTypes, CheckInv, CheckTypes, TypeOK
<1> QED  BY <1>1, AlwaysLB, PTL

\* However many checks were started for an instance, and whoever stopped
\* them, a channel is open exactly when healthCheckStop holds it: none is
\* closed twice and none is forgotten.
THEOREM ChannelsMatchMap == Spec => []OpenIffInMap
<1>1. LBInv => OpenIffInMap
  BY DEF LBInv, CheckInv
<1> QED  BY <1>1, AlwaysLB, PTL

(***************************************************************************)
(* The health marks.                                                       *)
(***************************************************************************)
\* A probe, a merge and a fill keep a mark that agrees with its count.
Agrees(e) == e # Absent => (e.healthy <=> e.failed < MaxFailed)

LEMMA NextMarks == LBInv /\ HealthyIffFewFailures /\ [Next]_vars => HealthyIffFewFailures'
<1> SUFFICES ASSUME LBInv, HealthyIffFewFailures, [Next]_vars
             PROVE  \A i \in Instances : Agrees(cache'[i])
  BY DEF HealthyIffFewFailures, Agrees
<1>1. \A i \in Instances : Agrees(cache[i])
  BY DEF HealthyIffFewFailures, Agrees
<1>2. \A a : Agrees(Fresh(a))
  BY DiscoveryAssumption DEF Agrees, Fresh
<1>3. Agrees(Absent)
  BY DEF Agrees
<1>4. ASSUME NEW i \in Instances, NEW n, NEW ok \in BOOLEAN, Tick(i, n, ok)
      PROVE  \A j \in Instances : Agrees(cache'[j])
  <2>1. cache[i] \in Entry
    BY <1>4 DEF Tick, Cached, LBInv, CacheTypes
  <2>2. cache[i].healthy <=> cache[i].failed < MaxFailed
    BY <1>1, <1>4 DEF Tick, Cached, Agrees
  <2>3. Agrees(Probed(cache[i], ok))
    BY <2>1, <2>2, ProbedEntry DEF Agrees
  <2>4. \A j \in Instances : cache'[j] = IF j = i THEN Probed(cache[i], ok) ELSE cache[j]
    BY <1>4 DEF Tick, LBInv, CacheTypes
  <2> QED  BY <1>1, <2>3, <2>4
<1>5. CASE Receive
  <2> DEFINE L == Head(events)
  <2>1. \A i \in Instances : cache'[i] = IF L[i] = Nil THEN Absent ELSE Merged(i, L[i])
    BY <1>5 DEF Receive
  <2>2. ASSUME NEW i \in Instances, NEW a
        PROVE  Agrees(Merged(i, a))
    <3>1. CASE Cached(i) /\ cache[i].healthy
      <4>1. cache[i] \in Entry /\ cache[i].failed < MaxFailed
        BY <1>1, <3>1 DEF Cached, LBInv, CacheTypes, Agrees
      <4>2. /\ Merged(i, a).healthy = cache[i].healthy
            /\ Merged(i, a).failed = cache[i].failed
        BY <3>1, <4>1 DEF Merged, Entry
      <4> QED  BY <3>1, <4>1, <4>2 DEF Agrees
    <3>2. CASE ~(Cached(i) /\ cache[i].healthy)
      BY <1>2, <3>2 DEF Merged
    <3> QED  BY <3>1, <3>2
  <2> QED  BY <1>3, <2>1, <2>2
<1>6. ASSUME NEW r \in Readers, Fills(r)
      PROVE  \A i \in Instances : Agrees(cache'[i])
  BY <1>2, <1>3, <1>6 DEF Fills
<1>7. ASSUME UNCHANGED cache
      PROVE  \A i \in Instances : Agrees(cache'[i])
  BY <1>1, <1>7
<1>8. ASSUME NEW i \in Instances, NEW n \in DOMAIN checks[i], CheckStep(i, n)
      PROVE  \A j \in Instances : Agrees(cache'[j])
  BY <1>4, <1>7, <1>8 DEF CheckStep, TickMisses, CleanUp, Exit, cacheVars
<1>9. CASE \/ \E i \in Instances, a \in Addrs \cup {Nil} : RegistryChanges(i, a)
           \/ \E i \in Instances, a \in Addrs : Register(i, a)
           \/ \E i \in Instances : Deregister(i)
           \/ RegisterStarts \/ DeregisterReturns
           \/ Watch \/ Consume \/ WatchEnds
           \/ \E r \in Readers : Misses(r) \/ Fetches(r)
           \/ Close \/ CtxDone \/ UNCHANGED vars
  BY <1>7, <1>9 DEF RegistryChanges, Register, Deregister, RegisterStarts, DeregisterReturns,
     Watch, Consume, WatchEnds, Misses, Fetches, Close, CtxDone, cacheVars, vars
<1> QED  BY <1>5, <1>6, <1>8, <1>9 DEF Next

\* Merges, fills and the ticks of old and new checks leave an instance
\* marked healthy exactly while it has failed fewer than MaxFailed probes.
THEOREM MarksMatchCounts == Spec => []HealthyIffFewFailures
<1>1. Init => HealthyIffFewFailures
  BY DEF Init, HealthyIffFewFailures
<1> QED  BY <1>1, NextMarks, AlwaysLB, PTL DEF Spec
=============================================================================
