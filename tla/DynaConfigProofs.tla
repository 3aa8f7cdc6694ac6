--------------------------- MODULE DynaConfigProofs ---------------------------
(***************************************************************************)
(* Theorems about DynaConfig, for every set of managers, keys, contents    *)
(* and callbacks, every key order and every provider: its types, its       *)
(* safety properties, each from an inductive invariant stated first, and   *)
(* that it implements ConfigSharing.                                       *)
(***************************************************************************)
EXTENDS DynaConfigHistory, TLAPS

(***************************************************************************)
(* Types.                                                                  *)
(***************************************************************************)

\* What json does to a configuration and its callback verdict stays in range.
LEMMA CodecTypes ==
  /\ \A c \in Config : Encode(c) \in Wire
  /\ \A w \in Wire : Decode(w) \in Config /\ Encode(Decode(w)) = w
  /\ Nil \notin Wire /\ Nil \notin Config
BY CentreAssumption DEF Encode, Decode, Wire, Config

\* A role inside SyncConfig stands at a key.
LEMMA KeyTypes ==
  ASSUME Types, SyncShape, NEW m \in Managers, NEW r \in Roles, ~At(m, r, "idle")
  PROVE  Key(m, r) \in Keys
<1>1. KeyOrder[m] \in Seq(Keys)
  BY ManagerAssumption
<1>2. thr[m][r].at \in 1..Len(KeyOrder[m])
  BY <1>1 DEF Types, Thread, SyncShape
<1> QED  BY <1>1, <1>2 DEF Key

\* Where SyncConfig goes next is a legal place to be.
LEMMA ReachingTypes ==
  ASSUME NEW m \in Managers, NEW r \in Roles, NEW i \in Nat \ {0}
  PROVE  /\ Reaching(m, r, i) \in Thread
         /\ Reaching(m, r, i).pc \in {"idle", "get"}
         /\ Reaching(m, r, i).pc # "idle" => Reaching(m, r, i).at <= Len(KeyOrder[m])
BY DEF Reaching, Idle, SyncState, Thread

\* A goroutine moves to a legal place in SyncConfig.
LEMMA GotoShape ==
  ASSUME TypeOK, NEW m \in Managers, NEW r \in Roles, NEW t \in Thread, Goto(m, r, t),
         t.pc # "idle" => t.at <= Len(KeyOrder[m]),
         t.pc \in {"adopt", "notify"} => t.rem # Nil,
         t.pc \in {"lock", "put"} => t.loc # Nil
  PROVE  thr' \in [Managers -> [Roles -> Thread]] /\ SyncShape'
<1>1. thr \in [Managers -> [Roles -> Thread]]
  BY DEF TypeOK, Types
<1>2. thr' = [thr EXCEPT ![m][r] = t]
  BY DEF Goto
<1>3. thr' \in [Managers -> [Roles -> Thread]]
  BY <1>1, <1>2
<1>4. ASSUME NEW n \in Managers, NEW s \in Roles
      PROVE  thr'[n][s] = IF n = m /\ s = r THEN t ELSE thr[n][s]
  BY <1>1, <1>2
<1>5. SyncShape'
  BY <1>4 DEF TypeOK, SyncShape, At
<1> QED  BY <1>3, <1>5

LEMMA EnterShape ==
  ASSUME TypeOK, NEW m \in Managers, NEW r \in Roles, NEW i \in Nat \ {0},
         Goto(m, r, Reaching(m, r, i))
  PROVE  thr' \in [Managers -> [Roles -> Thread]] /\ SyncShape'
<1> DEFINE t == Reaching(m, r, i)
<1>1. t \in Thread /\ t.pc \in {"idle", "get"} /\ (t.pc # "idle" => t.at <= Len(KeyOrder[m]))
  BY ReachingTypes
<1> HIDE DEF t
<1>2. Goto(m, r, t)
  BY DEF t
<1> QED  BY <1>1, <1>2, GotoShape

\* SyncConfig's two ways on: to its next key, or back to the caller.
LEMMA ContinueShape ==
  ASSUME TypeOK, NEW m \in Managers, NEW r \in Roles, Continue(m, r) \/ Return(m, r)
  PROVE  thr' \in [Managers -> [Roles -> Thread]] /\ SyncShape'
<1>1. thr[m][r].at + 1 \in Nat \ {0}
  BY DEF TypeOK, Types, Thread
<1>2. CASE Continue(m, r)
  BY <1>1, <1>2, EnterShape DEF Continue
<1>3. CASE Return(m, r)
  BY <1>3, GotoShape DEF Return, Idle, Thread, SyncState
<1> QED  BY <1>2, <1>3

\* A write to the centre keeps the watches well typed.
LEMMA StoresShape ==
  ASSUME TypeOK, NEW k \in Keys, NEW w \in Wire, Stores(k, w)
  PROVE  /\ remote' \in [Keys -> Wire \cup {Nil}]
         /\ watch' \in [Managers -> [Keys -> WatchRec]]
         /\ WatchShape'
<1>1. remote' = [remote EXCEPT ![k] = w] /\ remote' \in [Keys -> Wire \cup {Nil}]
  BY DEF Stores, TypeOK, Types
<1>2. ASSUME NEW x \in WatchRec
      PROVE  Notified(x, w) \in WatchRec
  <2>1. Append(x.q, w) \in Seq(Wire)
    BY <1>2 DEF WatchRec
  <2> QED  BY <1>2, <2>1 DEF Notified, WatchRec
<1>3. ASSUME NEW m \in Managers, NEW j \in Keys
      PROVE  watch'[m][j] = IF j = k THEN Notified(watch[m][j], w) ELSE watch[m][j]
  BY DEF Stores, TypeOK, Types
<1>4. watch' \in [Managers -> [Keys -> WatchRec]]
  <2>1. \A m \in Managers : watch[m] \in [Keys -> WatchRec]
    BY DEF TypeOK, Types
  <2>2. \A m \in Managers : [watch[m] EXCEPT ![k] = Notified(watch[m][k], w)] \in [Keys -> WatchRec]
    BY <1>2, <2>1
  <2> QED  BY <2>2 DEF Stores
<1>5. ASSUME NEW m \in Managers, NEW j \in Keys
      PROVE  /\ watch'[m][j].st \in {"read", "reread"} => watch'[m][j].q # <<>>
             /\ watch'[m][j].st \in {"read", "wait"} \/ watch'[m][j].ev => remote'[j] # Nil
  <2>1. watch[m][j] \in WatchRec
    BY DEF TypeOK, Types
  <2>2. CASE j = k
    <3>1. Notified(watch[m][j], w).st = watch[m][j].st
      BY <2>1 DEF Notified, WatchRec
    <3>2. watch[m][j].st \in {"read", "reread"} => Notified(watch[m][j], w).q = watch[m][j].q
      BY <2>1 DEF Notified, WatchRec
    <3> QED  BY <1>1, <1>3, <2>2, <3>1, <3>2, CodecTypes DEF TypeOK, Types, WatchShape
  <2>3. CASE j # k
    BY <1>1, <1>3, <2>3 DEF TypeOK, Types, WatchShape
  <2> QED  BY <2>2, <2>3
<1> QED  BY <1>1, <1>4, <1>5 DEF WatchShape

\* A watch goroutine moves; the centre is as it was.
LEMMA ToShape ==
  ASSUME TypeOK, NEW m \in Managers, NEW k \in Keys, NEW x \in WatchRec, To(m, k, x),
         UNCHANGED remote,
         x.st \in {"read", "reread"} => x.q # <<>>,
         x.st \in {"read", "wait"} \/ x.ev => remote[k] # Nil
  PROVE  watch' \in [Managers -> [Keys -> WatchRec]] /\ WatchShape'
<1>1. watch' \in [Managers -> [Keys -> WatchRec]]
  BY DEF TypeOK, Types, To
<1>2. ASSUME NEW n \in Managers, NEW j \in Keys
      PROVE  watch'[n][j] = IF n = m /\ j = k THEN x ELSE watch[n][j]
  BY DEF TypeOK, Types, To
<1> QED  BY <1>1, <1>2 DEF TypeOK, WatchShape

\* Starting the callbacks keeps the types of what they and the history hold.
LEMMA NotifyTypes ==
  ASSUME Types, NEW m \in Managers, NEW k \in Keys, NEW c \in Config, Notify(m, k, c)
  PROVE  /\ subs' = subs /\ seen' = seen
         /\ runs' \subseteq [mgr: Managers, sub: Subscribers, key: Keys, cfg: Config]
         /\ told' \in [Managers -> [Keys -> SUBSET Wire]]
<1>1. Encode(c) \in Wire
  BY CodecTypes
<1>2. told' \in [Managers -> [Keys -> SUBSET Wire]]
  BY <1>1 DEF Types, Notify
<1>3. runs' \subseteq [mgr: Managers, sub: Subscribers, key: Keys, cfg: Config]
  BY DEF Types, Notify
<1> QED  BY <1>2, <1>3 DEF Notify

LEMMA OnChangeTypes ==
  ASSUME Types, NEW m \in Managers, NEW k \in Keys, NEW w \in Wire, OnChange(m, k, w)
  PROVE  /\ configs' \in [Managers -> [Keys -> Config]]
         /\ subs' = subs /\ seen' = seen
         /\ runs' \subseteq [mgr: Managers, sub: Subscribers, key: Keys, cfg: Config]
         /\ told' \in [Managers -> [Keys -> SUBSET Wire]]
<1>1. Decode(w) \in Config
  BY CodecTypes
<1>2. CASE Notify(m, k, Decode(w)) /\ configs' = [configs EXCEPT ![m][k] = Decode(w)]
  BY <1>1, <1>2, NotifyTypes DEF Types
<1>3. CASE UNCHANGED <<configs, callbackVars>>
  BY <1>3 DEF callbackVars, Types
<1> QED  BY <1>2, <1>3 DEF OnChange

\* The initial state is well typed.
LEMMA TypesInit == Init => TypeOK
<1> SUFFICES ASSUME Init PROVE TypeOK  OBVIOUS
<1> USE DEF Init, CentreInit, ManagerInit
<1>1. Types
  BY CodecTypes, ManagerAssumption DEF Types, WatchAt, WatchRec, WatchState, Idle, Thread, SyncState, Loops
<1>2. SyncShape
  BY DEF SyncShape, At, Idle
<1>3. WatchShape
  BY DEF WatchShape, WatchAt
<1> QED  BY <1>1, <1>2, <1>3 DEF TypeOK
LEMMA Frames ==
  ASSUME TypeOK
  PROVE  /\ UNCHANGED thr => SyncShape'
         /\ UNCHANGED <<remote, watch>> => WatchShape'
BY DEF TypeOK, SyncShape, WatchShape, At

\* The application's calls.
LEMMA TypesApplication ==
  ASSUME TypeOK, NEW m \in Managers, Application(m)
  PROVE  TypeOK'
<1> USE DEF centreVars, callbackVars, historyVars
<1>1. ASSUME NEW s \in Subscribers, Subscribe(m, s)
      PROVE  TypeOK'
  BY <1>1, Frames DEF Subscribe, TypeOK, Types
<1>2. ASSUME NEW r \in Apps, SyncCall(m, r)
      PROVE  TypeOK'
  <2>1. thr' \in [Managers -> [Roles -> Thread]] /\ SyncShape'
    <3>1. r \in Roles
      BY DEF Roles
    <3> QED  BY <1>2, <3>1, EnterShape DEF SyncCall
  <2> QED  BY <1>2, <2>1, Frames DEF SyncCall, TypeOK, Types
<1>3. ASSUME NEW r \in Apps, NEW k \in Keys, NEW c \in Inputs, RefreshConfig(m, r, k, c)
      PROVE  TypeOK'
  <2>1. thr' \in [Managers -> [Roles -> Thread]] /\ SyncShape'
    <3>1. r \in Roles
      BY DEF Roles
    <3> QED  BY <1>3, <3>1, EnterShape DEF RefreshConfig
  <2>2. c \in Config /\ Encode(c) \in Wire
    BY ManagerAssumption, CodecTypes
  <2>3. configs' \in [Managers -> [Keys -> Config]]
    BY <1>3, <2>2 DEF RefreshConfig, TypeOK, Types
  <2>4. handed' \in [Managers -> [Keys -> SUBSET Wire]]
    BY <1>3, <2>2 DEF RefreshConfig, TypeOK, Types
  <2> QED  BY <1>3, <2>1, <2>3, <2>4, Frames DEF RefreshConfig, TypeOK, Types
<1>4. ASSUME Watch(m)
      PROVE  TypeOK'
  BY <1>4, Frames DEF Watch, TypeOK, Types
<1>5. ASSUME CloseCancels(m)
      PROVE  TypeOK'
  BY <1>5, Frames DEF CloseCancels, TypeOK, Types
<1> QED  BY <1>1, <1>2, <1>3, <1>4, <1>5 DEF Application

\* The steps of SyncConfig.
LEMMA TypesSync ==
  ASSUME TypeOK, NEW m \in Managers, NEW r \in Roles, SyncStep(m, r) \/ SyncFails(m, r)
  PROVE  TypeOK'
<1> USE DEF centreVars, callbackVars, historyVars, syncFrame
<1> DEFINE ThrOK == thr' \in [Managers -> [Roles -> Thread]] /\ SyncShape'
<1>0. /\ thr[m][r] \in Thread
      /\ ~At(m, r, "idle") => Key(m, r) \in Keys
      /\ ~At(m, r, "idle") => thr[m][r].at <= Len(KeyOrder[m])
  BY KeyTypes DEF TypeOK, Types, SyncShape
<1>1. ASSUME SyncGet(m, r)
      PROVE  TypeOK'
  <2>1. ThrOK
    <3> DEFINE t == [thr[m][r] EXCEPT !.pc = "decide", !.rem = remote[Key(m, r)]]
    <3>1. remote[Key(m, r)] \in Wire \cup {Nil}
      BY <1>0, <1>1 DEF SyncGet, At, TypeOK, Types
    <3>2. t \in Thread /\ t.pc = "decide" /\ t.at <= Len(KeyOrder[m])
      BY <1>0, <1>1, <3>1 DEF Thread, SyncState, SyncGet, At
    <3> QED  BY <1>1, <3>2, GotoShape DEF SyncGet
  <2> QED  BY <1>1, <2>1, Frames DEF SyncGet, TypeOK, Types
<1>2. ASSUME SyncGetFails(m, r)
      PROVE  TypeOK'
  BY <1>2, ContinueShape, Frames DEF SyncGetFails, TypeOK, Types
<1>3. ASSUME Seed(m, r)
      PROVE  TypeOK'
  <2> DEFINE c == configs[m][Key(m, r)]
             s == [c EXCEPT !.ver = IF @ <= 0 THEN 1 ELSE @]
  <2>1. c \in Config /\ s \in Config /\ Encode(s) \in Wire
    <3>1. c \in Config
      BY <1>0, <1>3 DEF Seed, At, TypeOK, Types
    <3>2. s \in Config
      BY <3>1 DEF Config
    <3> QED  BY <3>1, <3>2, CodecTypes
  <2>2. CASE (Continue(m, r) \/ Return(m, r)) /\ UNCHANGED configs
    BY <1>3, <2>2, ContinueShape, Frames DEF Seed, TypeOK, Types
  <2>3. CASE /\ configs' = [configs EXCEPT ![m][Key(m, r)] = s]
             /\ Goto(m, r, [thr[m][r] EXCEPT !.pc = "lock", !.loc = Encode(s)])
    <3> DEFINE t == [thr[m][r] EXCEPT !.pc = "lock", !.loc = Encode(s)]
    <3>1. t \in Thread /\ t.pc = "lock" /\ t.at <= Len(KeyOrder[m]) /\ t.loc # Nil
      BY <1>0, <1>3, <2>1, CodecTypes DEF Thread, SyncState, Seed, At
    <3>2. ThrOK
      BY <2>3, <3>1, GotoShape
    <3>3. configs' \in [Managers -> [Keys -> Config]]
      BY <2>1, <2>3 DEF TypeOK, Types
    <3> QED  BY <1>3, <3>2, <3>3, Frames DEF Seed, TypeOK, Types
  <2> QED  BY <1>3, <2>2, <2>3 DEF Seed
<1>4. ASSUME Compare(m, r)
      PROVE  TypeOK'
  <2> DEFINE c == configs[m][Key(m, r)]
  <2>1. thr[m][r].rem # Nil /\ At(m, r, "decide")
    BY <1>4 DEF Compare
  <2>2. Encode(c) \in Wire
    BY <1>0, <2>1, CodecTypes DEF At, TypeOK, Types
  <2>3. ThrOK
    <3>1. CASE Continue(m, r) \/ Return(m, r)
      BY <3>1, ContinueShape
    <3>2. CASE Goto(m, r, [thr[m][r] EXCEPT !.pc = "adopt"])
      <4> DEFINE t == [thr[m][r] EXCEPT !.pc = "adopt"]
      <4>1. t \in Thread /\ t.pc = "adopt" /\ t.at <= Len(KeyOrder[m]) /\ t.rem # Nil
        BY <1>0, <2>1 DEF Thread, SyncState, At
      <4> QED  BY <3>2, <4>1, GotoShape
    <3>3. CASE Goto(m, r, [thr[m][r] EXCEPT !.pc = "lock", !.loc = Encode(c)])
      <4> DEFINE t == [thr[m][r] EXCEPT !.pc = "lock", !.loc = Encode(c)]
      <4>1. t \in Thread /\ t.pc = "lock" /\ t.at <= Len(KeyOrder[m]) /\ t.loc # Nil
        BY <1>0, <2>1, <2>2, CodecTypes DEF Thread, SyncState, At
      <4> QED  BY <3>3, <4>1, GotoShape
    <3> QED  BY <1>4, <3>1, <3>2, <3>3 DEF Compare
  <2> QED  BY <1>4, <2>3, Frames DEF Compare, TypeOK, Types
<1>5. ASSUME Adopt(m, r)
      PROVE  TypeOK'
  <2>1. thr[m][r].rem \in Wire /\ At(m, r, "adopt")
    BY <1>0, <1>5 DEF Adopt, TypeOK, SyncShape, Thread
  <2>2. ThrOK
    <3> DEFINE t == [thr[m][r] EXCEPT !.pc = "notify"]
    <3>1. t \in Thread /\ t.pc = "notify" /\ t.at <= Len(KeyOrder[m]) /\ t.rem # Nil
      BY <1>0, <2>1, CodecTypes DEF Thread, SyncState, At
    <3> QED  BY <1>5, <3>1, GotoShape DEF Adopt
  <2>3. configs' \in [Managers -> [Keys -> Config]]
    BY <1>5, <2>1, CodecTypes DEF Adopt, TypeOK, Types
  <2> QED  BY <1>5, <2>2, <2>3, Frames DEF Adopt, TypeOK, Types
<1>6. ASSUME SyncNotify(m, r)
      PROVE  TypeOK'
  <2>1. thr[m][r].rem \in Wire /\ Key(m, r) \in Keys
    BY <1>0, <1>6 DEF SyncNotify, TypeOK, SyncShape, Thread, At
  <2>2. ThrOK
    BY <1>6, ContinueShape DEF SyncNotify
  <2> QED  BY <1>6, <2>1, <2>2, CodecTypes, NotifyTypes, Frames DEF SyncNotify, TypeOK, Types
<1>7. ASSUME PutLock(m, r)
      PROVE  TypeOK'
  <2>1. At(m, r, "lock") /\ thr[m][r].loc # Nil
    BY <1>7 DEF PutLock, TypeOK, SyncShape
  <2>2. ThrOK
    <3> DEFINE t == [thr[m][r] EXCEPT !.pc = "put"]
    <3>1. t \in Thread /\ t.pc = "put" /\ t.at <= Len(KeyOrder[m]) /\ t.loc # Nil
      BY <1>0, <2>1 DEF Thread, SyncState, At
    <3> QED  BY <1>7, <3>1, GotoShape DEF PutLock
  <2>3. lock' \in [Keys -> (Managers \X Roles) \cup {Nil}]
    BY <1>7 DEF PutLock, TypeOK, Types
  <2> QED  BY <1>7, <2>2, <2>3, Frames DEF PutLock, TypeOK, Types
<1>8. ASSUME PutStore(m, r)
      PROVE  TypeOK'
  <2>1. thr[m][r].loc \in Wire /\ Key(m, r) \in Keys
    BY <1>0, <1>8 DEF PutStore, TypeOK, SyncShape, Thread, At
  <2>2. ThrOK
    BY <1>8, ContinueShape DEF PutStore
  <2>3. lock' \in [Keys -> (Managers \X Roles) \cup {Nil}]
    BY <1>8 DEF PutStore, Unlock, TypeOK, Types
  <2> QED  BY <1>8, <2>1, <2>2, <2>3, StoresShape DEF PutStore, TypeOK, Types
<1>9. ASSUME PutFails(m, r)
      PROVE  TypeOK'
  <2>1. ThrOK
    BY <1>9, ContinueShape DEF PutFails
  <2>2. lock' \in [Keys -> (Managers \X Roles) \cup {Nil}]
    BY <1>9 DEF PutFails, Unlock, TypeOK, Types
  <2> QED  BY <1>9, <2>1, <2>2, Frames DEF PutFails, TypeOK, Types
<1> QED  BY <1>1, <1>2, <1>3, <1>4, <1>5, <1>6, <1>7, <1>8, <1>9 DEF SyncStep, SyncFails
\* The health loop, the watch loops and Close.
LEMMA TypesLoops ==
  ASSUME TypeOK, NEW m \in Managers,
         \/ HealthPasses(m) \/ HealthFails(m) \/ HealthExpires(m)
         \/ LoopStep(m) \/ CloseReturns(m)
         \/ \E k \in Keys : WatchLoopResyncs(m, k)
  PROVE  TypeOK'
<1> USE DEF centreVars, callbackVars, historyVars
<1>1. CASE HealthPasses(m) \/ HealthExpires(m)
  BY <1>1, Frames DEF HealthPasses, HealthExpires, TypeOK, Types
<1>2. CASE HealthFails(m)
  <2>1. thr' \in [Managers -> [Roles -> Thread]] /\ SyncShape'
    <3>1. Health \in Roles
      BY DEF Roles, Loops
    <3> QED  BY <1>2, <3>1, EnterShape DEF HealthFails
  <2> QED  BY <1>2, <2>1, Frames DEF HealthFails, TypeOK, Types
<1>3. CASE HealthStops(m)
  BY <1>3, Frames DEF HealthStops, TypeOK, Types
<1>4. CASE CloseReturns(m)
  BY <1>4, Frames DEF CloseReturns, TypeOK, Types
<1>5. ASSUME NEW k \in Keys, WatchLoopStops(m, k) \/ WatchLoopReturns(m, k)
      PROVE  TypeOK'
  <2>1. loop' = [loop EXCEPT ![m][k] = "done"]
    BY <1>5 DEF WatchLoopStops, WatchLoopReturns
  <2>2. loop' \in [Managers -> [Loops -> {"off", "run", "resync", "done"}]]
    BY <2>1 DEF TypeOK, Types
  <2>3. UNCHANGED <<centreVars, configs, thr, life, health, callbackVars, calls, historyVars>>
    BY <1>5 DEF WatchLoopStops, WatchLoopReturns
  <2> QED  BY <2>2, <2>3, Frames DEF TypeOK, Types
<1>6. ASSUME NEW k \in Keys, WatchLoopOpens(m, k)
      PROVE  TypeOK'
  <2> DEFINE st == IF Provider \in {"consul", "zookeeper"} THEN "top" ELSE "on"
             x  == [watch[m][k] EXCEPT !.st = st, !.ev = (Provider = "nacos" /\ remote[k] # Nil)]
  <2>1. x \in WatchRec /\ x.st \in {"top", "on"} /\ (x.ev => remote[k] # Nil)
    <3>1. watch[m][k] \in WatchRec
      BY DEF TypeOK, Types
    <3> QED  BY <3>1 DEF WatchRec, WatchState
  <2>2. To(m, k, x) /\ UNCHANGED remote
    BY <1>6 DEF WatchLoopOpens, To
  <2>3. watch' \in [Managers -> [Keys -> WatchRec]] /\ WatchShape'
    <3> HIDE DEF x
    <3> QED  BY <2>1, <2>2, ToShape
  <2>4. loop' \in [Managers -> [Loops -> {"off", "run", "resync", "done"}]]
    BY <1>6 DEF WatchLoopOpens, TypeOK, Types
  <2> QED  BY <1>6, <2>3, <2>4, Frames DEF WatchLoopOpens, TypeOK, Types
<1>7. ASSUME NEW k \in Keys, WatchLoopResyncs(m, k)
      PROVE  TypeOK'
  <2>1. thr' \in [Managers -> [Roles -> Thread]] /\ SyncShape'
    <3>1. k \in Roles
      BY DEF Roles, Loops
    <3> QED  BY <1>7, <3>1, EnterShape DEF WatchLoopResyncs
  <2> QED  BY <1>7, <2>1, Frames DEF WatchLoopResyncs, TypeOK, Types
<1> QED  BY <1>1, <1>2, <1>3, <1>4, <1>5, <1>6, <1>7 DEF LoopStep

LEMMA WatchAtTypes ==
  ASSUME NEW st \in WatchState
  PROVE  /\ WatchAt(st, <<>>) \in WatchRec
         /\ \A w \in Wire : WatchAt(st, <<w>>) \in WatchRec
         /\ \A q : WatchAt(st, q).st = st /\ ~WatchAt(st, q).ev /\ WatchAt(st, q).q = q
<1>1. <<>> \in Seq(Wire) /\ \A w \in Wire : <<w>> \in Seq(Wire)
  OBVIOUS
<1>2. \A q \in Seq(Wire) : WatchAt(st, q) \in WatchRec
  BY DEF WatchAt, WatchRec
<1> QED  BY <1>1, <1>2 DEF WatchAt

\* The watch goroutines: each moves to a legal place, and what it delivers
\* is a value of the centre.
LEMMA TypesWatchers ==
  ASSUME TypeOK, NEW m \in Managers, NEW k \in Keys,
         WatcherStep(m, k) \/ PollReads(m, k) \/ WatcherFails(m, k)
  PROVE  TypeOK'
<1> USE DEF watchFrame, historyVars
<1> DEFINE W(x) == /\ x \in WatchRec
                   /\ x.st \in {"read", "reread"} => x.q # <<>>
                   /\ x.st \in {"read", "wait"} \/ x.ev => remote[k] # Nil
<1>1. watch[m][k] \in WatchRec /\ W(watch[m][k]) /\ remote[k] \in Wire \cup {Nil}
  BY DEF TypeOK, Types, WatchShape
<1>2. ASSUME NEW x, W(x), To(m, k, x), UNCHANGED <<watchFrame, configs, callbackVars>>
      PROVE  TypeOK'
  <2>1. watch' \in [Managers -> [Keys -> WatchRec]] /\ WatchShape'
    BY <1>2, ToShape
  <2> QED  BY <1>2, <2>1, Frames DEF callbackVars, TypeOK, Types
<1>3. ASSUME NEW x, NEW w \in Wire, W(x), To(m, k, x), OnChange(m, k, w), UNCHANGED watchFrame
      PROVE  TypeOK'
  <2>1. watch' \in [Managers -> [Keys -> WatchRec]] /\ WatchShape'
    BY <1>3, ToShape
  <2> QED  BY <1>3, <2>1, OnChangeTypes, Frames DEF TypeOK, Types
<1>4. CASE EtcdEvent(m, k)
  <2> DEFINE x == [watch[m][k] EXCEPT !.q = Tail(@)]
  <2>1. watch[m][k].q \in Seq(Wire) /\ watch[m][k].q # <<>> /\ watch[m][k].st = "on"
    BY <1>1, <1>4 DEF EtcdEvent, WatchRec
  <2>2. Head(watch[m][k].q) \in Wire /\ Tail(watch[m][k].q) \in Seq(Wire)
    BY <2>1
  <2>3. W(x)
    BY <1>1, <2>1, <2>2 DEF WatchRec
  <2> QED  BY <1>3, <1>4, <2>2, <2>3 DEF EtcdEvent
<1>5. CASE EtcdStops(m, k) \/ EtcdChannelCloses(m, k) \/ ZkStops(m, k)
  <2>1. W(WatchAt("dead", <<>>))
    BY WatchAtTypes DEF WatchState
  <2> QED  BY <1>2, <1>5, <2>1 DEF EtcdStops, EtcdChannelCloses, ZkStops
<1>6. CASE PollStarts(m, k) \/ PollMisses(m, k) \/ ZkEventMisses(m, k)
  <2>1. \A st \in {"fetch", "dead", "top"} : W(WatchAt(st, <<>>))
    BY WatchAtTypes DEF WatchState
  <2> QED  BY <1>2, <1>6, <2>1 DEF PollStarts, PollMisses, ZkEventMisses
<1>7. CASE PollReads(m, k)
  <2>1. W(WatchAt("read", <<remote[k]>>))
    <3>1. remote[k] \in Wire /\ <<remote[k]>> # <<>> /\ "read" \in WatchState
      BY <1>1, <1>7 DEF PollReads, WatchState
    <3> QED  BY <3>1, WatchAtTypes, CodecTypes
  <2> QED  BY <1>2, <1>7, <2>1 DEF PollReads
<1>8. CASE PollDelivers(m, k)
  <2> DEFINE x == watch[m][k]
             y == IF Provider = "zookeeper" /\ x.st = "read"
                  THEN [st |-> "wait", ev |-> x.ev, q |-> <<>>]
                  ELSE WatchAt("top", <<>>)
  <2>1. Head(x.q) \in Wire
    BY <1>1, <1>8 DEF PollDelivers, WatchRec
  <2>2. W(y)
    <3>1. CASE Provider = "zookeeper" /\ x.st = "read"
      BY <1>1, <3>1 DEF WatchRec, WatchState
    <3>2. CASE ~(Provider = "zookeeper" /\ x.st = "read")
      BY <3>2, WatchAtTypes DEF WatchState
    <3> QED  BY <3>1, <3>2
  <2> QED  BY <1>3, <1>8, <2>1, <2>2 DEF PollDelivers
<1>9. CASE ZkEvent(m, k)
  <2>1. W(WatchAt("reread", <<remote[k]>>))
    <3>1. remote[k] \in Wire /\ <<remote[k]>> # <<>> /\ "reread" \in WatchState
      BY <1>1, <1>9 DEF ZkEvent, WatchState
    <3> QED  BY <3>1, WatchAtTypes, CodecTypes
  <2> QED  BY <1>2, <1>9, <2>1 DEF ZkEvent
<1>10. CASE NacosPush(m, k)
  <2>1. remote[k] \in Wire
    BY <1>1, <1>10 DEF NacosPush
  <2>2. W([watch[m][k] EXCEPT !.ev = FALSE])
    BY <1>1, <1>10 DEF NacosPush, WatchRec
  <2> QED  BY <1>3, <1>10, <2>1, <2>2 DEF NacosPush
<1> QED
  BY <1>4, <1>5, <1>6, <1>7, <1>8, <1>9, <1>10 DEF WatcherStep, WatcherFails

\* Operators and callback goroutines.
LEMMA TypesEnvironment ==
  ASSUME TypeOK,
         \/ \E k \in Keys, w \in Edits : Edit(k, w)
         \/ \E x \in runs : RunCallback(x)
  PROVE  TypeOK'
<1> USE DEF centreVars, callbackVars, historyVars
<1>1. ASSUME NEW k \in Keys, NEW w \in Edits, Edit(k, w)
      PROVE  TypeOK'
  <2>1. w \in Wire
    BY ManagerAssumption
  <2>2. edited' \in [Keys -> SUBSET Wire]
    BY <1>1, <2>1 DEF Edit, TypeOK, Types
  <2> QED  BY <1>1, <2>1, <2>2, StoresShape, Frames DEF Edit, TypeOK, Types
<1>2. ASSUME NEW x \in runs, RunCallback(x)
      PROVE  TypeOK'
  <2>1. x \in [mgr: Managers, sub: Subscribers, key: Keys, cfg: Config]
    BY DEF TypeOK, Types
  <2>2. seen' \in [Managers -> [Subscribers -> [Keys -> Config \cup {Nil}]]]
    BY <1>2, <2>1 DEF RunCallback, TypeOK, Types
  <2> QED  BY <1>2, <2>2, Frames DEF RunCallback, TypeOK, Types
<1> QED  BY <1>1, <1>2

\* Every step keeps the types.
LEMMA TypesNext == TypeOK /\ [Next]_vars => TypeOK'
<1> SUFFICES ASSUME TypeOK, [Next]_vars PROVE TypeOK'  OBVIOUS
<1>1. CASE UNCHANGED vars
  BY <1>1, Frames DEF vars, centreVars, callbackVars, historyVars, TypeOK, Types
<1>2. CASE Next
  BY <1>2, TypesApplication, TypesSync, TypesLoops, TypesWatchers, TypesEnvironment DEF Next
<1> QED  BY <1>1, <1>2

\* Type correctness: whatever the interleaving, no goroutine adopts, uploads
\* or delivers a configuration it does not have (TypeOK).
THEOREM TypeCorrect == Spec => []TypeOK
<1>1. Init => TypeOK
  BY TypesInit
<1>2. TypeOK /\ [Next]_vars => TypeOK'
  BY TypesNext
<1> QED  BY <1>1, <1>2, PTL DEF Spec


(***************************************************************************)
(* Close.  A loop counted by the wait group is inside SyncConfig only      *)
(* while it is marked as being there, and Close waits for the marks.       *)
(***************************************************************************)
LoopsIdle ==
  \A m \in Managers :
    /\ \A k \in Keys : loop[m][k] # "resync" => At(m, k, "idle")
    /\ loop[m][Health] # "run" => At(m, Health, "idle")

LoopsDone ==
  \A m \in Managers : life[m] = "closed" => \A l \in Loops : loop[m][l] \in {"off", "done"}

QuietInv == LoopsIdle /\ LoopsDone

\* A goroutine that is outside SyncConfig begins it.
Enter(m, r) ==
  /\ At(m, r, "idle")
  /\ Goto(m, r, Reaching(m, r, 1))

Inside(m, r) == SyncStep(m, r) \/ SyncFails(m, r)

\* The goroutines move in SyncConfig one at a time: nothing touches thr but
\* a call and the steps of SyncConfig itself, and only the latter the locks.
LEMMA Moves ==
  ASSUME TypeOK, LoopsIdle, [Next]_vars
  PROVE  \/ UNCHANGED <<thr, lock>>
         \/ \E m \in Managers, r \in Roles : Enter(m, r) /\ UNCHANGED lock
         \/ \E m \in Managers, r \in Roles : Inside(m, r)
<1> USE DEF centreVars, watchFrame
<1> DEFINE Goal == \/ UNCHANGED <<thr, lock>>
                   \/ \E m \in Managers, r \in Roles : Enter(m, r) /\ UNCHANGED lock
                   \/ \E m \in Managers, r \in Roles : Inside(m, r)
<1>0. Apps \subseteq Roles /\ Keys \subseteq Roles /\ Health \in Roles
  BY DEF Roles, Loops
<1>1. ASSUME NEW m \in Managers, Application(m)  PROVE Goal
  <2>1. ASSUME NEW r \in Apps, SyncCall(m, r)  PROVE Goal
    BY <1>0, <2>1 DEF SyncCall, Enter
  <2>2. ASSUME NEW r \in Apps, NEW k \in Keys, NEW c \in Inputs, RefreshConfig(m, r, k, c)
        PROVE  Goal
    BY <1>0, <2>2 DEF RefreshConfig, Enter
  <2>3. CASE Watch(m) \/ CloseCancels(m) \/ \E s \in Subscribers : Subscribe(m, s)
    BY <2>3 DEF Watch, CloseCancels, Subscribe
  <2> QED  BY <1>1, <2>1, <2>2, <2>3 DEF Application
<1>2. ASSUME NEW m \in Managers, HealthPasses(m) \/ HealthExpires(m) \/ LoopStep(m) \/ CloseReturns(m)
      PROVE  Goal
  BY <1>2 DEF HealthPasses, HealthExpires, LoopStep, HealthStops, WatchLoopStops, WatchLoopOpens,
              WatchLoopReturns, CloseReturns
<1>3. ASSUME NEW m \in Managers, HealthFails(m)  PROVE Goal
  BY <1>0, <1>3 DEF HealthFails, Enter
<1>4. ASSUME NEW m \in Managers, NEW k \in Keys, WatchLoopResyncs(m, k)  PROVE Goal
  BY <1>0, <1>4 DEF WatchLoopResyncs, Enter, LoopsIdle
<1>5. ASSUME NEW m \in Managers, NEW k \in Keys, WatcherStep(m, k) \/ PollReads(m, k) \/ WatcherFails(m, k)
      PROVE  Goal
  BY <1>5 DEF WatcherStep, WatcherFails, EtcdEvent, EtcdStops, EtcdChannelCloses, PollStarts, PollReads,
              PollMisses, PollDelivers, ZkEvent, ZkEventMisses, ZkStops, NacosPush
<1>6. ASSUME \E k \in Keys, w \in Edits : Edit(k, w)  PROVE Goal
  BY <1>6 DEF Edit
<1>7. ASSUME NEW x \in runs, RunCallback(x)  PROVE Goal
  BY <1>7 DEF RunCallback
<1>8. ASSUME NEW m \in Managers, NEW r \in Roles, SyncStep(m, r) \/ SyncFails(m, r)  PROVE Goal
  BY <1>8 DEF Inside
<1>9. CASE UNCHANGED vars
  BY <1>9 DEF vars
<1> QED
  BY <1>1, <1>2, <1>3, <1>4, <1>5, <1>6, <1>7, <1>8, <1>9 DEF Next

\* A step of SyncConfig is taken by a goroutine that is inside it, and
\* leaves the loops and the managers' lives alone.
LEMMA InsideMoves ==
  ASSUME TypeOK, NEW m \in Managers, NEW r \in Roles, Inside(m, r)
  PROVE  /\ ~At(m, r, "idle")
         /\ UNCHANGED <<loop, life, handed, edited>>
         /\ \E t : Goto(m, r, t)
<1> USE DEF syncFrame, historyVars
<1>1. ASSUME Continue(m, r) \/ Return(m, r)
      PROVE  \E t : Goto(m, r, t)
  BY <1>1 DEF Continue, Return
<1>2. CASE SyncGet(m, r) \/ SyncGetFails(m, r)
  BY <1>1, <1>2 DEF SyncGet, SyncGetFails, At
<1>3. CASE Seed(m, r)
  BY <1>1, <1>3 DEF Seed, At
<1>4. CASE Compare(m, r)
  BY <1>1, <1>4 DEF Compare, At
<1>5. CASE Adopt(m, r) \/ SyncNotify(m, r)
  BY <1>1, <1>5 DEF Adopt, SyncNotify, At
<1>6. CASE PutLock(m, r) \/ PutStore(m, r) \/ PutFails(m, r)
  BY <1>1, <1>6 DEF PutLock, PutStore, PutFails, At
<1> QED
  BY <1>2, <1>3, <1>4, <1>5, <1>6 DEF Inside, SyncStep, SyncFails

\* Nobody but m's role r moves in Goto(m, r, t).
LEMMA OnlyMoves ==
  ASSUME TypeOK, NEW m \in Managers, NEW r \in Roles, NEW t, Goto(m, r, t)
  PROVE  /\ thr'[m][r] = t
         /\ \A n \in Managers, s \in Roles : n # m \/ s # r =>
              thr'[n][s] = thr[n][s] /\ Key(n, s)' = Key(n, s)
BY DEF Goto, TypeOK, Types, Key

\* How a call begins leaves the other goroutines where they are.
LEMMA QuietFrame ==
  ASSUME TypeOK, QuietInv, UNCHANGED <<thr, loop>>,
         \A m \in Managers : life'[m] = "closed" => life[m] = "closed"
  PROVE  QuietInv'
BY DEF QuietInv, LoopsIdle, LoopsDone, At

LEMMA QuietApplication ==
  ASSUME TypeOK, QuietInv, NEW m \in Managers, Application(m)
  PROVE  QuietInv'
<1>1. ASSUME NEW r \in Apps, Goto(m, r, Reaching(m, r, 1)), UNCHANGED <<loop, life>>
      PROVE  QuietInv'
  <2>1. r \in Roles /\ r \notin Keys /\ r # Health
    BY ManagerAssumption DEF Roles
  <2> QED
    BY <1>1, <2>1, OnlyMoves DEF QuietInv, LoopsIdle, LoopsDone, At, Roles, Loops
<1>2. ASSUME NEW r \in Apps, SyncCall(m, r)  PROVE QuietInv'
  BY <1>1, <1>2 DEF SyncCall
<1>3. ASSUME NEW r \in Apps, NEW k \in Keys, NEW c \in Inputs, RefreshConfig(m, r, k, c)
      PROVE  QuietInv'
  BY <1>1, <1>3 DEF RefreshConfig
<1>4. ASSUME NEW s \in Subscribers, Subscribe(m, s)  PROVE QuietInv'
  BY <1>4, QuietFrame DEF Subscribe
<1>5. CASE CloseCancels(m)
  BY <1>5, QuietFrame DEF CloseCancels, TypeOK, Types
<1>6. CASE Watch(m)
  <2>1. /\ \A n \in Managers : n # m => loop'[n] = loop[n]
        /\ loop'[m][Health] = loop[m][Health]
        /\ \A k \in Keys : loop[m][k] = "off"
        /\ life[m] = "open" /\ UNCHANGED <<life, thr>>
    BY <1>6, ManagerAssumption DEF Watch, Loops, TypeOK, Types
  <2> QED  BY <2>1 DEF QuietInv, LoopsIdle, LoopsDone, At
<1> QED  BY <1>2, <1>3, <1>4, <1>5, <1>6 DEF Application

\* A loop is marked as gone only when it is outside SyncConfig.
LEMMA QuietLoops ==
  ASSUME TypeOK, QuietInv, NEW m \in Managers,
         \/ HealthPasses(m) \/ HealthFails(m) \/ HealthExpires(m)
         \/ LoopStep(m) \/ CloseReturns(m)
         \/ \E k \in Keys : WatchLoopResyncs(m, k)
  PROVE  QuietInv'
<1>0. Keys \subseteq Loops /\ Health \in Loops /\ Loops \subseteq Roles /\ Health \notin Keys
  BY ManagerAssumption DEF Loops, Roles
<1>1. CASE HealthPasses(m) \/ HealthExpires(m)
  BY <1>1, QuietFrame DEF HealthPasses, HealthExpires
<1>2. CASE HealthFails(m)
  BY <1>0, <1>2, OnlyMoves DEF HealthFails, QuietInv, LoopsIdle, LoopsDone, At
<1>3. ASSUME NEW k \in Keys, WatchLoopResyncs(m, k)  PROVE QuietInv'
  <2>1. loop' = [loop EXCEPT ![m][k] = "resync"] /\ loop[m][k] = "run" /\ UNCHANGED life
    BY <1>3 DEF WatchLoopResyncs
  <2>2. LoopsIdle'
    BY <1>0, <1>3, <2>1, OnlyMoves DEF WatchLoopResyncs, QuietInv, LoopsIdle, At, TypeOK, Types
  <2>3. LoopsDone'
    BY <1>0, <2>1 DEF QuietInv, LoopsDone, TypeOK, Types
  <2> QED  BY <2>2, <2>3 DEF QuietInv
<1>4. ASSUME NEW l \in Loops, loop' = [loop EXCEPT ![m][l] = "done"], UNCHANGED <<thr, life>>, At(m, l, "idle")
      PROVE  QuietInv'
  BY <1>0, <1>4 DEF QuietInv, LoopsIdle, LoopsDone, At, TypeOK, Types
<1>5. CASE HealthStops(m)
  BY <1>0, <1>4, <1>5 DEF HealthStops
<1>6. ASSUME NEW k \in Keys, WatchLoopStops(m, k) \/ WatchLoopOpens(m, k) \/ WatchLoopReturns(m, k)
      PROVE  QuietInv'
  <2>1. At(m, k, "idle")
    BY <1>6 DEF WatchLoopStops, WatchLoopOpens, WatchLoopReturns, QuietInv, LoopsIdle
  <2> QED  BY <1>0, <1>4, <1>6, <2>1 DEF WatchLoopStops, WatchLoopOpens, WatchLoopReturns
<1>7. CASE CloseReturns(m)
  <2>1. /\ UNCHANGED <<thr, loop>> /\ \A l \in Loops : loop[m][l] \in {"off", "done"}
        /\ \A n \in Managers : n # m => life'[n] = life[n]
    BY <1>7 DEF CloseReturns, TypeOK, Types
  <2> QED  BY <2>1 DEF QuietInv, LoopsIdle, LoopsDone, At
<1> QED  BY <1>1, <1>2, <1>3, <1>5, <1>6, <1>7 DEF LoopStep

\* A step inside SyncConfig: a loop that takes one is marked as being there.
LEMMA QuietInside ==
  ASSUME TypeOK, QuietInv, NEW m \in Managers, NEW r \in Roles, Inside(m, r)
  PROVE  QuietInv'
<1>1. ~At(m, r, "idle") /\ UNCHANGED <<loop, life>>
  BY InsideMoves
<1>2. PICK t : Goto(m, r, t)
  BY InsideMoves
<1> QED
  BY <1>1, <1>2, OnlyMoves DEF QuietInv, LoopsIdle, LoopsDone, At, Roles, Loops

LEMMA QuietNext == TypeOK /\ QuietInv /\ [Next]_vars => QuietInv'
<1> SUFFICES ASSUME TypeOK, QuietInv, [Next]_vars PROVE QuietInv'  OBVIOUS
<1> USE DEF centreVars, watchFrame
<1>1. ASSUME NEW m \in Managers, NEW k \in Keys, WatcherStep(m, k) \/ PollReads(m, k) \/ WatcherFails(m, k)
      PROVE  UNCHANGED <<thr, loop, life>>
  BY <1>1 DEF WatcherStep, WatcherFails, EtcdEvent, EtcdStops, EtcdChannelCloses, PollStarts, PollReads,
              PollMisses, PollDelivers, ZkEvent, ZkEventMisses, ZkStops, NacosPush
<1>2. ASSUME (\E k \in Keys, w \in Edits : Edit(k, w)) \/ \E x \in runs : RunCallback(x)
      PROVE  UNCHANGED <<thr, loop, life>>
  BY <1>2 DEF Edit, RunCallback
<1>3. CASE UNCHANGED <<thr, loop, life>>
  BY <1>3, QuietFrame
<1>4. CASE UNCHANGED vars
  BY <1>3, <1>4 DEF vars
<1> QED
  BY <1>1, <1>2, <1>3, <1>4, QuietApplication, QuietLoops, QuietInside DEF Next, Inside

\* Types and loop marks together.
LEMMA QuietSpec == Spec => [](TypeOK /\ QuietInv)
<1>1. Init => QuietInv
  BY DEF Init, ManagerInit, QuietInv, LoopsIdle, LoopsDone, At, Idle, Loops, Roles
<1> QED  BY <1>1, TypesInit, TypesNext, QuietNext, PTL DEF Spec

\* Once Close has returned, no goroutine that it waited for is in SyncConfig
\* (CloseQuiesces).
THEOREM CloseLeavesNoSync == Spec => []CloseQuiesces
<1>1. QuietInv => CloseQuiesces
  BY ManagerAssumption DEF QuietInv, LoopsIdle, LoopsDone, CloseQuiesces, Loops
<1> QED  BY <1>1, QuietSpec, PTL

(***************************************************************************)
(* The distributed lock                                                    *)
(***************************************************************************)
\* A step inside SyncConfig keeps the lock with a goroutine that will give
\* it back: only the one that has it can leave "put", and it unlocks.
LEMMA LockInside ==
  ASSUME TypeOK, NoOrphanLock, NEW m \in Managers, NEW r \in Roles, Inside(m, r)
  PROVE  NoOrphanLock'
<1> USE DEF syncFrame, centreVars
<1> DEFINE k == Key(m, r)
<1>0. PICK t : Goto(m, r, t) /\ ~At(m, r, "idle")
  BY InsideMoves
<1>1. k \in Keys /\ \A j \in Keys : lock[j] # Nil => lock[j] \in Managers \X Roles
  BY <1>0, KeyTypes DEF TypeOK, Types
<1>2. \A n \in Managers, s \in Roles : <<n, s>> # <<m, r>> =>
        At(n, s, "put")' = At(n, s, "put") /\ Key(n, s)' = Key(n, s)
  BY <1>0, OnlyMoves DEF At
<1>3. ASSUME ~At(m, r, "put"), UNCHANGED lock
      PROVE  NoOrphanLock'
  <2>1. \A j \in Keys : lock[j] # Nil => lock[j] # <<m, r>>
    BY <1>3 DEF NoOrphanLock
  <2> QED  BY <1>1, <1>2, <1>3, <2>1 DEF NoOrphanLock
<1>4. ASSUME Unlock(m, r)
      PROVE  NoOrphanLock'
  <2>1. \A j \in Keys : lock'[j] # Nil => lock'[j] = lock[j] /\ lock[j] # <<m, r>>
    BY <1>1, <1>4 DEF Unlock, NoOrphanLock, TypeOK, Types
  <2> QED  BY <1>1, <1>2, <2>1 DEF NoOrphanLock
<1>5. CASE SyncGet(m, r) \/ SyncGetFails(m, r) \/ Seed(m, r) \/ Compare(m, r) \/ Adopt(m, r) \/ SyncNotify(m, r)
  BY <1>3, <1>5 DEF SyncGet, SyncGetFails, Seed, Compare, Adopt, SyncNotify, At
<1>6. CASE PutStore(m, r) \/ PutFails(m, r)
  BY <1>4, <1>6 DEF PutStore, PutFails
<1>7. CASE PutLock(m, r)
  <2>1. ~At(m, r, "put") /\ At(m, r, "put")' /\ Key(m, r)' = k
    BY <1>7, OnlyMoves DEF PutLock, At, Goto, Key, TypeOK, Types, Thread
  <2>2. CASE UNCHANGED lock
    BY <1>3, <2>1, <2>2
  <2>3. CASE lock[k] = Nil /\ lock' = [lock EXCEPT ![k] = <<m, r>>]
    <3>1. ASSUME NEW j \in Keys, lock'[j] # Nil
          PROVE  (At(lock[j][1], lock[j][2], "put") /\ Key(lock[j][1], lock[j][2]) = j)'
      <4>1. CASE j = k
        BY <1>1, <2>1, <2>3, <4>1 DEF TypeOK, Types
      <4>2. CASE j # k
        <5>1. lock'[j] = lock[j] /\ lock[j] # <<m, r>>
          BY <1>1, <2>1, <2>3, <3>1, <4>2 DEF NoOrphanLock, TypeOK, Types
        <5> QED  BY <1>1, <1>2, <3>1, <5>1 DEF NoOrphanLock
      <4> QED  BY <4>1, <4>2
    <3> QED  BY <3>1 DEF NoOrphanLock
  <2> QED  BY <1>7, <2>2, <2>3 DEF PutLock
<1> QED  BY <1>5, <1>6, <1>7 DEF Inside, SyncStep, SyncFails

LEMMA LockNext == TypeOK /\ QuietInv /\ NoOrphanLock /\ [Next]_vars => NoOrphanLock'
<1> SUFFICES ASSUME TypeOK, QuietInv, NoOrphanLock, [Next]_vars PROVE NoOrphanLock'  OBVIOUS
<1>1. CASE UNCHANGED <<thr, lock>>
  BY <1>1 DEF NoOrphanLock, At, Key
<1>2. ASSUME NEW m \in Managers, NEW r \in Roles, Enter(m, r), UNCHANGED lock
      PROVE  NoOrphanLock'
  <2>1. \A j \in Keys : lock[j] # Nil => lock[j] \in Managers \X Roles /\ lock[j] # <<m, r>>
    BY <1>2 DEF NoOrphanLock, Enter, At, TypeOK, Types
  <2>2. \A n \in Managers, s \in Roles : <<n, s>> # <<m, r>> =>
          At(n, s, "put")' = At(n, s, "put") /\ Key(n, s)' = Key(n, s)
    BY <1>2, OnlyMoves DEF Enter, At
  <2> QED  BY <1>2, <2>1, <2>2 DEF NoOrphanLock
<1>3. ASSUME NEW m \in Managers, NEW r \in Roles, Inside(m, r)
      PROVE  NoOrphanLock'
  BY <1>3, LockInside
<1> QED  BY <1>1, <1>2, <1>3, Moves DEF QuietInv

\* Every lock of the centre is held by a goroutine that stands before the
\* store of that key (NoOrphanLock).
THEOREM LocksAreReturned == Spec => []NoOrphanLock
<1>1. Init => NoOrphanLock
  BY DEF Init, CentreInit, NoOrphanLock
<1> QED  BY <1>1, QuietSpec, TypesInit, LockNext, PTL DEF Spec

(***************************************************************************)
(* What the watches deliver                                                *)
(***************************************************************************)
Carries(x, w) == \E i \in DOMAIN x.q : x.q[i] = w

\* A watch goroutine touches only its key's entry and its own record, and
\* delivers and keeps only values of the centre or values it carried.
LEMMA WatcherData ==
  ASSUME TypeOK, NEW m \in Managers, NEW k \in Keys,
         WatcherStep(m, k) \/ PollReads(m, k) \/ WatcherFails(m, k)
  PROVE  /\ UNCHANGED <<remote, thr, handed, edited>>
         /\ \/ UNCHANGED <<configs, callbackVars>>
            \/ \E w \in Wire : OnChange(m, k, w) /\ (w = remote[k] \/ Carries(watch[m][k], w))
         /\ \E x \in WatchRec :
              To(m, k, x) /\ \A w : Carries(x, w) => Carries(watch[m][k], w) \/ (w = remote[k] /\ w # Nil)
<1> USE DEF watchFrame, historyVars
<1>0. watch[m][k] \in WatchRec /\ remote[k] \in Wire \cup {Nil}
  BY DEF TypeOK, Types
<1>1. ASSUME NEW st \in WatchState
      PROVE  WatchAt(st, <<>>) \in WatchRec /\ \A w : ~Carries(WatchAt(st, <<>>), w)
  <2>1. WatchAt(st, <<>>) \in WatchRec /\ WatchAt(st, <<>>).q = <<>>
    BY WatchAtTypes
  <2> QED  BY <2>1 DEF Carries
<1>2. ASSUME NEW st \in WatchState, remote[k] # Nil
      PROVE  /\ WatchAt(st, <<remote[k]>>) \in WatchRec
             /\ \A w : Carries(WatchAt(st, <<remote[k]>>), w) => w = remote[k]
  <2>1. WatchAt(st, <<remote[k]>>) \in WatchRec /\ WatchAt(st, <<remote[k]>>).q = <<remote[k]>>
    BY <1>0, <1>2, WatchAtTypes
  <2> QED  BY <2>1 DEF Carries
<1>3. watch[m][k].q # <<>> => /\ Head(watch[m][k].q) \in Wire
                              /\ Carries(watch[m][k], Head(watch[m][k].q))
  BY <1>0 DEF WatchRec, Carries
<1>4. CASE EtcdEvent(m, k)
  <2> DEFINE x == [watch[m][k] EXCEPT !.q = Tail(@)]
  <2>1. watch[m][k].q \in Seq(Wire) /\ watch[m][k].q # <<>>
    BY <1>0, <1>4 DEF EtcdEvent, WatchRec
  <2>2. x \in WatchRec /\ x.q = Tail(watch[m][k].q)
    <3>1. Tail(watch[m][k].q) \in Seq(Wire)
      BY <2>1
    <3> QED  BY <1>0, <3>1 DEF WatchRec
  <2>3. \A w : Carries(x, w) => Carries(watch[m][k], w)
    <3> SUFFICES ASSUME NEW i \in DOMAIN Tail(watch[m][k].q)
                 PROVE  \E j \in DOMAIN watch[m][k].q : watch[m][k].q[j] = Tail(watch[m][k].q)[i]
      BY <2>2 DEF Carries
    <3>1. i + 1 \in DOMAIN watch[m][k].q /\ Tail(watch[m][k].q)[i] = watch[m][k].q[i + 1]
      BY <2>1
    <3> QED  BY <3>1
  <2> QED  BY <1>3, <1>4, <2>1, <2>2, <2>3 DEF EtcdEvent
<1>5. CASE EtcdStops(m, k) \/ EtcdChannelCloses(m, k) \/ ZkStops(m, k)
  BY <1>1, <1>5 DEF EtcdStops, EtcdChannelCloses, ZkStops, WatchState
<1>6. CASE PollStarts(m, k) \/ PollMisses(m, k) \/ ZkEventMisses(m, k)
  BY <1>1, <1>6 DEF PollStarts, PollMisses, ZkEventMisses, WatchState
<1>7. CASE PollReads(m, k)
  BY <1>2, <1>7 DEF PollReads, WatchState
<1>8. CASE PollDelivers(m, k)
  <2>1. watch[m][k].q # <<>>
    BY <1>8 DEF PollDelivers, TypeOK, WatchShape
  <2>2. PICK x : To(m, k, x) /\ x \in WatchRec /\ x.q = <<>>
    <3>1. WatchAt("top", <<>>) \in WatchRec /\ WatchAt("top", <<>>).q = <<>>
      BY WatchAtTypes DEF WatchState
    <3>2. [st |-> "wait", ev |-> watch[m][k].ev, q |-> <<>>] \in WatchRec
      BY <1>0 DEF WatchRec, WatchState
    <3> QED  BY <1>8, <3>1, <3>2 DEF PollDelivers
  <2> QED  BY <1>3, <1>8, <2>1, <2>2 DEF PollDelivers, Carries
<1>9. CASE ZkEvent(m, k)
  <2>1. remote[k] # Nil
    BY <1>9 DEF ZkEvent, TypeOK, WatchShape
  <2> QED  BY <1>2, <1>9, <2>1 DEF ZkEvent, WatchState
<1>10. CASE NacosPush(m, k)
  <2>1. remote[k] \in Wire
    BY <1>0, <1>10 DEF NacosPush, TypeOK, WatchShape
  <2>2. [watch[m][k] EXCEPT !.ev = FALSE] \in WatchRec
        /\ \A w : Carries([watch[m][k] EXCEPT !.ev = FALSE], w) => Carries(watch[m][k], w)
    BY <1>0 DEF WatchRec, Carries
  <2> QED  BY <1>10, <2>1, <2>2 DEF NacosPush
<1> QED
  BY <1>4, <1>5, <1>6, <1>7, <1>8, <1>9, <1>10 DEF WatcherStep, WatcherFails

\* Every other step outside SyncConfig leaves the data alone, but for a
\* refresh, which replaces an entry by what it hands over, and for an edit.
Untouched == UNCHANGED <<remote, configs, handed, edited, told>>

LEMMA OutsideData ==
  ASSUME TypeOK, NEW m \in Managers,
         \/ Application(m) \/ HealthPasses(m) \/ HealthFails(m) \/ HealthExpires(m)
         \/ LoopStep(m) \/ CloseReturns(m)
         \/ \E k \in Keys : WatchLoopResyncs(m, k)
  PROVE  \/ Untouched
         \/ \E r \in Apps, k \in Keys, c \in Inputs : RefreshConfig(m, r, k, c)
BY DEF Application, Subscribe, SyncCall, Watch, CloseCancels, HealthPasses, HealthFails, HealthExpires,
       LoopStep, HealthStops, WatchLoopStops, WatchLoopOpens, WatchLoopReturns, CloseReturns,
       WatchLoopResyncs, Untouched, centreVars, callbackVars, historyVars

(***************************************************************************)
(* Versions                                                                *)
(***************************************************************************)
Floor(m, k, n) == \E h \in handed[m][k] : n >= h.ver

\* A goroutine about to adopt has compared: what it adopts is above an entry
\* that was itself above the floor, and the floor only sinks.
FloorInv ==
  /\ NeverBelowHanded
  /\ \A m \in Managers, r \in Roles :
       At(m, r, "adopt") => Floor(m, Key(m, r), thr[m][r].rem.ver)

\* Enough for a step to keep FloorInv.
LEMMA FloorKept ==
  ASSUME TypeOK, FloorInv,
         \A m \in Managers, k \in Keys : handed[m][k] \subseteq handed'[m][k],
         \A m \in Managers, k \in Keys :
           Floor(m, k, configs[m][k].ver) => Floor(m, k, configs[m][k].ver)',
         \A m \in Managers, r \in Roles :
           At(m, r, "adopt")' => \/ UNCHANGED <<thr[m][r], Key(m, r)>>
                                 \/ Floor(m, Key(m, r), thr[m][r].rem.ver)'
  PROVE  FloorInv'
<1>1. NeverBelowHanded'
  BY DEF FloorInv, NeverBelowHanded, Floor
<1>2. ASSUME NEW m \in Managers, NEW r \in Roles, At(m, r, "adopt")', UNCHANGED <<thr[m][r], Key(m, r)>>
      PROVE  Floor(m, Key(m, r), thr[m][r].rem.ver)'
  <2>1. Key(m, r) \in Keys /\ At(m, r, "adopt")
    BY <1>2, KeyTypes DEF At, TypeOK
  <2> QED  BY <1>2, <2>1 DEF FloorInv, Floor
<1> QED  BY <1>1, <1>2 DEF FloorInv

\* What an adoption of w, valid and above the entry, or above the floor,
\* does to the entry.
LEMMA EntryTypes ==
  ASSUME TypeOK, NEW m \in Managers, NEW k \in Keys
  PROVE  /\ configs[m][k] \in Config /\ configs[m][k].ver \in Nat
         /\ \A h \in handed[m][k] : h \in Wire /\ h.ver \in Nat
         /\ \A w \in Wire : w.ver \in Nat /\ Decode(w).ver = w.ver
BY DEF TypeOK, Types, Config, Wire, Decode

LEMMA FloorOnChange ==
  ASSUME TypeOK, FloorInv, NEW m \in Managers, NEW k \in Keys, NEW w \in Wire,
         OnChange(m, k, w), UNCHANGED <<thr, handed>>
  PROVE  FloorInv'
<1>1. CASE w.ver > configs[m][k].ver /\ configs' = [configs EXCEPT ![m][k] = Decode(w)]
  <2>1. ASSUME NEW n \in Managers, NEW j \in Keys, Floor(n, j, configs[n][j].ver)
        PROVE  Floor(n, j, configs[n][j].ver)'
    <3>1. CASE n = m /\ j = k
      <4>1. configs'[n][j].ver = w.ver
        BY <1>1, <3>1, EntryTypes DEF TypeOK, Types
      <4>2. PICK h \in handed[n][j] : configs[n][j].ver >= h.ver
        BY <2>1 DEF Floor
      <4>3. w.ver >= h.ver
        BY <1>1, <3>1, <4>2, EntryTypes
      <4> QED  BY <4>1, <4>3 DEF Floor
    <3>2. CASE ~(n = m /\ j = k)
      <4>1. configs'[n][j] = configs[n][j]
        BY <1>1, <3>2 DEF TypeOK, Types
      <4> QED  BY <2>1, <4>1 DEF Floor
    <3> QED  BY <3>1, <3>2
  <2> QED  BY <2>1, FloorKept DEF Key
<1>2. CASE UNCHANGED configs
  BY <1>2, FloorKept DEF Key, Floor
<1> QED  BY <1>1, <1>2 DEF OnChange

\* A refresh hands over what it stores.
LEMMA FloorRefresh ==
  ASSUME TypeOK, FloorInv, NEW m \in Managers, NEW r \in Apps, NEW k \in Keys, NEW c \in Inputs,
         RefreshConfig(m, r, k, c)
  PROVE  FloorInv'
<1>0. r \in Roles /\ c \in Config
  BY ManagerAssumption DEF Roles
<1>1. \A n \in Managers, j \in Keys : handed[n][j] \subseteq handed'[n][j]
  BY DEF RefreshConfig, TypeOK, Types
<1>2. ASSUME NEW n \in Managers, NEW j \in Keys, Floor(n, j, configs[n][j].ver)
      PROVE  Floor(n, j, configs[n][j].ver)'
  <2>1. CASE n = m /\ j = k
    <3>1. configs'[n][j] = c /\ Encode(c) \in handed'[n][j]
      BY <2>1 DEF RefreshConfig, TypeOK, Types
    <3>2. c.ver >= Encode(c).ver
      BY <1>0 DEF Encode, Config
    <3> QED  BY <3>1, <3>2 DEF Floor
  <2>2. CASE ~(n = m /\ j = k)
    <3>1. configs'[n][j] = configs[n][j]
      BY <2>2 DEF RefreshConfig, TypeOK, Types
    <3> QED  BY <1>1, <1>2, <3>1 DEF Floor
  <2> QED  BY <2>1, <2>2
<1>3. ~At(m, r, "adopt")'
  BY <1>0, OnlyMoves, ReachingTypes DEF RefreshConfig, At
<1>4. \A n \in Managers, s \in Roles : At(n, s, "adopt")' => UNCHANGED <<thr[n][s], Key(n, s)>>
  BY <1>0, <1>3, OnlyMoves DEF RefreshConfig
<1> QED  BY <1>1, <1>2, <1>4, FloorKept

\* Inside SyncConfig an entry goes up, or down to an adopted version, which
\* is above the floor.
LEMMA FloorInside ==
  ASSUME TypeOK, FloorInv, NEW m \in Managers, NEW r \in Roles, Inside(m, r)
  PROVE  FloorInv'
<1> USE DEF syncFrame, historyVars
<1> DEFINE k == Key(m, r)
<1>0. PICK t : Goto(m, r, t) /\ ~At(m, r, "idle") /\ UNCHANGED handed
  BY InsideMoves
<1>1. k \in Keys /\ thr[m][r] \in Thread /\ thr[m][r].at + 1 \in Nat \ {0}
  BY <1>0, KeyTypes DEF TypeOK, Types, Thread
<1>2. \A n \in Managers, s \in Roles : <<n, s>> # <<m, r>> => UNCHANGED <<thr[n][s], Key(n, s)>>
  BY <1>0, OnlyMoves
<1>3. ASSUME UNCHANGED configs, At(m, r, "adopt")' => Floor(m, Key(m, r), thr[m][r].rem.ver)'
      PROVE  FloorInv'
  <2>1. \A n \in Managers, j \in Keys : Floor(n, j, configs[n][j].ver) => Floor(n, j, configs[n][j].ver)'
    BY <1>0, <1>3 DEF Floor
  <2> QED  BY <1>0, <1>2, <1>3, <2>1, FloorKept
<1>4. ASSUME NEW c \in Config, configs' = [configs EXCEPT ![m][k] = c], ~At(m, r, "adopt")', Floor(m, k, c.ver)
      PROVE  FloorInv'
  <2>1. ASSUME NEW n \in Managers, NEW j \in Keys, Floor(n, j, configs[n][j].ver)
        PROVE  Floor(n, j, configs[n][j].ver)'
    <3>1. CASE n = m /\ j = k
      <4>1. configs'[n][j] = c
        BY <1>1, <1>4, <3>1 DEF TypeOK, Types
      <4> QED  BY <1>0, <1>4, <3>1, <4>1 DEF Floor
    <3>2. CASE ~(n = m /\ j = k)
      <4>1. configs'[n][j] = configs[n][j]
        BY <1>4, <3>2 DEF TypeOK, Types
      <4> QED  BY <1>0, <2>1, <4>1 DEF Floor
    <3> QED  BY <3>1, <3>2
  <2> QED  BY <1>0, <1>2, <1>4, <2>1, FloorKept
<1>5. ASSUME Continue(m, r) \/ Return(m, r)
      PROVE  ~At(m, r, "adopt")'
  BY <1>1, <1>5, OnlyMoves, ReachingTypes DEF Continue, Return, Idle, At
<1>12. ASSUME NEW u, Goto(m, r, u), u.pc # "adopt"
      PROVE  ~At(m, r, "adopt")'
  BY <1>12, OnlyMoves DEF At
<1>6. CASE SyncGet(m, r)
  <2>1. ~At(m, r, "adopt")'
    <3>1. [thr[m][r] EXCEPT !.pc = "decide", !.rem = remote[k]].pc = "decide"
      BY <1>1 DEF Thread
    <3> QED  BY <1>12, <1>6, <3>1 DEF SyncGet
  <2> QED  BY <1>3, <1>6, <2>1 DEF SyncGet
<1>7. CASE SyncGetFails(m, r) \/ SyncNotify(m, r) \/ PutStore(m, r) \/ PutFails(m, r)
  BY <1>3, <1>5, <1>7 DEF SyncGetFails, SyncNotify, PutStore, PutFails
<1>8. CASE PutLock(m, r)
  <2>1. ~At(m, r, "adopt")'
    BY <1>1, <1>8, OnlyMoves DEF PutLock, At, Thread
  <2> QED  BY <1>3, <1>8, <2>1 DEF PutLock
<1>9. CASE Seed(m, r)
  <2> DEFINE c == configs[m][k]
             s == [c EXCEPT !.ver = IF @ <= 0 THEN 1 ELSE @]
  <2>1. CASE (Continue(m, r) \/ Return(m, r)) /\ UNCHANGED configs
    BY <1>3, <1>5, <2>1
  <2>2. CASE /\ configs' = [configs EXCEPT ![m][k] = s]
             /\ Goto(m, r, [thr[m][r] EXCEPT !.pc = "lock", !.loc = Encode(s)])
    <3>1. ~At(m, r, "adopt")'
      <4>1. [thr[m][r] EXCEPT !.pc = "lock", !.loc = Encode(s)].pc = "lock"
        BY <1>1 DEF Thread
      <4> QED  BY <1>12, <2>2, <4>1
    <3>2. c \in Config /\ s \in Config /\ s.ver >= c.ver
      BY <1>1, EntryTypes DEF Config
    <3>3. Floor(m, k, c.ver)
      BY <1>1 DEF FloorInv, NeverBelowHanded, Floor
    <3>4. Floor(m, k, s.ver)
      BY <1>1, <3>2, <3>3, EntryTypes DEF Floor, Config
    <3> QED  BY <1>4, <2>2, <3>1, <3>2, <3>4
  <2> QED  BY <1>9, <2>1, <2>2 DEF Seed
<1>10. CASE Compare(m, r)
  <2> DEFINE w == thr[m][r].rem
  <2>1. w \in Wire /\ UNCHANGED configs
    BY <1>1, <1>10 DEF Compare, Thread
  <2>2. CASE w.ver > configs[m][k].ver /\ Goto(m, r, [thr[m][r] EXCEPT !.pc = "adopt"])
    <3>1. thr'[m][r].rem = w /\ Key(m, r)' = k
      BY <1>1, <2>2, OnlyMoves DEF Thread, Key
    <3>2. PICK h \in handed[m][k] : configs[m][k].ver >= h.ver
      BY <1>1 DEF FloorInv, NeverBelowHanded
    <3>3. w.ver >= h.ver
      BY <1>1, <2>1, <2>2, <3>2, EntryTypes
    <3> QED  BY <1>0, <1>3, <2>1, <3>1, <3>3 DEF Floor
  <2>3. CASE Goto(m, r, [thr[m][r] EXCEPT !.pc = "lock", !.loc = Encode(configs[m][k])])
    <3>1. ~At(m, r, "adopt")'
      <4>1. [thr[m][r] EXCEPT !.pc = "lock", !.loc = Encode(configs[m][k])].pc = "lock"
        BY <1>1 DEF Thread
      <4> QED  BY <1>12, <2>3, <4>1
    <3> QED  BY <1>3, <2>1, <3>1
  <2>4. CASE Continue(m, r) \/ Return(m, r)
    BY <1>3, <1>5, <2>1, <2>4
  <2> QED  BY <1>10, <2>2, <2>3, <2>4 DEF Compare
<1>11. CASE Adopt(m, r)
  <2>1. ~At(m, r, "adopt")'
    BY <1>1, <1>11, OnlyMoves DEF Adopt, At, Thread
  <2>2. thr[m][r].rem \in Wire /\ Floor(m, k, thr[m][r].rem.ver)
    BY <1>1, <1>11 DEF Adopt, TypeOK, SyncShape, Thread, FloorInv
  <2>3. Decode(thr[m][r].rem) \in Config /\ Floor(m, k, Decode(thr[m][r].rem).ver)
    BY <2>2, CodecTypes DEF Decode
  <2> QED  BY <1>4, <1>11, <2>1, <2>3 DEF Adopt
<1> QED
  BY <1>6, <1>7, <1>8, <1>9, <1>10, <1>11 DEF Inside, SyncStep, SyncFails

LEMMA FloorNext == TypeOK /\ QuietInv /\ FloorInv /\ [Next]_vars => FloorInv'
<1> SUFFICES ASSUME TypeOK, QuietInv, FloorInv, [Next]_vars PROVE FloorInv'  OBVIOUS
<1>1. ASSUME NEW m \in Managers, NEW r \in Roles, Inside(m, r)  PROVE FloorInv'
  BY <1>1, FloorInside
<1>2. ASSUME NEW m \in Managers, NEW r \in Apps, NEW k \in Keys, NEW c \in Inputs, RefreshConfig(m, r, k, c)
      PROVE  FloorInv'
  BY <1>2, FloorRefresh
<1>3. ASSUME NEW m \in Managers, NEW k \in Keys, WatcherStep(m, k) \/ PollReads(m, k) \/ WatcherFails(m, k)
      PROVE  FloorInv'
  <2>1. CASE \E w \in Wire : OnChange(m, k, w)
    BY <1>3, <2>1, FloorOnChange, WatcherData
  <2>2. CASE UNCHANGED configs
    BY <1>3, <2>2, FloorKept, WatcherData DEF Floor, Key
  <2> QED  BY <1>3, <2>1, <2>2, WatcherData
<1>4. CASE UNCHANGED <<configs, handed>>
  <2>1. \A m \in Managers, r \in Roles : ~Inside(m, r) \/ FloorInv'
    BY <1>1
  <2>2. CASE UNCHANGED thr
    BY <1>4, <2>2, FloorKept DEF Floor, Key
  <2>3. ASSUME NEW m \in Managers, NEW r \in Roles, Enter(m, r)  PROVE FloorInv'
    <3>1. ~At(m, r, "adopt")'
      BY <2>3, OnlyMoves, ReachingTypes DEF Enter, At
    <3>2. \A n \in Managers, s \in Roles : At(n, s, "adopt")' => UNCHANGED <<thr[n][s], Key(n, s)>>
      BY <2>3, <3>1, OnlyMoves DEF Enter
    <3> QED  BY <1>4, <3>2, FloorKept DEF Floor
  <2> QED  BY <2>1, <2>2, <2>3, Moves DEF QuietInv
<1>5. ASSUME NEW m \in Managers,
             \/ Application(m) \/ HealthPasses(m) \/ HealthFails(m) \/ HealthExpires(m)
             \/ LoopStep(m) \/ CloseReturns(m)
             \/ \E k \in Keys : WatchLoopResyncs(m, k)
      PROVE  FloorInv'
  BY <1>2, <1>4, <1>5, OutsideData DEF Untouched
<1>6. CASE (\E k \in Keys, w \in Edits : Edit(k, w)) \/ (\E x \in runs : RunCallback(x)) \/ UNCHANGED vars
  BY <1>4, <1>6 DEF Edit, RunCallback, vars, historyVars
<1> QED  BY <1>1, <1>3, <1>5, <1>6 DEF Next, Inside

\* However late a snapshot of the centre is adopted, a manager's version is
\* never below everything its application has handed it (NeverBelowHanded).
THEOREM VersionFloor == Spec => []NeverBelowHanded
<1>1. Init => FloorInv
  <2> SUFFICES ASSUME Init PROVE FloorInv  OBVIOUS
  <2>1. \A m \in Managers, k \in Keys : Encode(Shipped[m][k]) \in handed[m][k]
    BY DEF Init, ManagerInit
  <2>2. \A m \in Managers, k \in Keys : configs[m][k].ver >= Encode(Shipped[m][k]).ver
    BY ManagerAssumption DEF Init, ManagerInit, Encode, Config
  <2>3. \A m \in Managers, r \in Roles : ~At(m, r, "adopt")
    BY DEF Init, ManagerInit, Idle, At
  <2> QED  BY <2>1, <2>2, <2>3 DEF FloorInv, NeverBelowHanded
<1>2. FloorInv => NeverBelowHanded
  BY DEF FloorInv
<1> QED  BY <1>1, <1>2, QuietSpec, FloorNext, PTL DEF Spec

(***************************************************************************)
(* Provenance                                                              *)
(***************************************************************************)
\* Whatever a goroutine of SyncConfig or a watch has in hand for a key was
\* supplied for that key.
InHand ==
  \A m \in Managers, r \in Roles, k \in Keys : ~At(m, r, "idle") /\ Key(m, r) = k =>
    {thr[m][r].rem, thr[m][r].loc} \subseteq Authentic(k) \cup {Nil}

OnWatch ==
  \A m \in Managers, k \in Keys : \A w : Carries(watch[m][k], w) => w \in Authentic(k)

AuthInv == NoInvention /\ InHand /\ OnWatch

\* What has been supplied stays so.
LEMMA AuthenticGrows ==
  ASSUME \A m \in Managers, k \in Keys : handed[m][k] \subseteq handed'[m][k],
         \A k \in Keys : edited[k] \subseteq edited'[k]
  PROVE  \A k \in Keys : Sources(k) \subseteq Sources(k)' /\ Authentic(k) \subseteq Authentic(k)'
<1>1. \A k \in Keys : Sources(k) \subseteq Sources(k)'
  BY DEF Sources
<1> QED  BY <1>1 DEF Authentic

\* A version 1 stamped on what was supplied without one.
LEMMA StampIsAuthentic ==
  ASSUME TypeOK, AuthInv, NEW m \in Managers, NEW k \in Keys
  PROVE  Encode([configs[m][k] EXCEPT !.ver = IF @ <= 0 THEN 1 ELSE @]) \in Authentic(k)
<1> DEFINE c == configs[m][k]
           s == [c EXCEPT !.ver = IF @ <= 0 THEN 1 ELSE @]
<1>1. c \in Config /\ Encode(c) \in Authentic(k)
  BY DEF TypeOK, Types, AuthInv, NoInvention
<1>2. CASE c.ver = 0
  <2>1. Encode(c) \in Sources(k)
    <3>1. \A w \in Sources(k) : [w EXCEPT !.ver = 1].ver = 1
      BY DEF Sources, TypeOK, Types, Wire
    <3>2. Encode(c).ver = 0
      BY <1>2 DEF Encode
    <3>3. Encode(c) \notin {[w EXCEPT !.ver = 1] : w \in {x \in Sources(k) : x.ver = 0}}
      <4> SUFFICES ASSUME NEW w \in Sources(k), Encode(c) = [w EXCEPT !.ver = 1]
                   PROVE  FALSE
        OBVIOUS
      <4>1. [w EXCEPT !.ver = 1].ver = 1
        BY <3>1
      <4> QED  BY <3>2, <4>1
    <3> QED  BY <1>1, <3>3 DEF Authentic
  <2>2. Encode(s) = [Encode(c) EXCEPT !.ver = 1]
    BY <1>1, <1>2 DEF Encode, Config
  <2>3. Encode(c).ver = 0
    BY <1>2 DEF Encode
  <2> QED  BY <2>1, <2>2, <2>3 DEF Authentic
<1>3. CASE c.ver # 0
  <2>1. s = c
    BY <1>1, <1>3 DEF Config
  <2> QED  BY <1>1, <2>1
<1> QED  BY <1>2, <1>3

\* A write reaches the watches of its key as itself.
LEMMA StoresCarries ==
  ASSUME TypeOK, NEW k \in Keys, NEW w \in Wire, Stores(k, w)
  PROVE  \A m \in Managers, j \in Keys : \A v :
           Carries(watch'[m][j], v) => Carries(watch[m][j], v) \/ (j = k /\ v = w)
<1> SUFFICES ASSUME NEW m \in Managers, NEW j \in Keys, NEW v, Carries(watch'[m][j], v)
             PROVE  Carries(watch[m][j], v) \/ (j = k /\ v = w)
  OBVIOUS
<1> DEFINE x == watch[m][j]
<1>1. x \in WatchRec /\ x.q \in Seq(Wire)
  BY DEF TypeOK, Types, WatchRec
<1>2. watch'[m][j] = IF j = k THEN Notified(x, w) ELSE x
  BY DEF Stores, TypeOK, Types
<1>3. CASE j = k
  <2>1. Notified(x, w).q = x.q \/ Notified(x, w).q = Append(x.q, w)
    BY <1>1 DEF Notified, WatchRec
  <2>2. CASE Notified(x, w).q = x.q
    BY <1>2, <1>3, <2>2 DEF Carries
  <2>3. CASE Notified(x, w).q = Append(x.q, w)
    <3>1. PICK i \in DOMAIN Append(x.q, w) : Append(x.q, w)[i] = v
      BY <1>2, <1>3, <2>3 DEF Carries
    <3>2. i \in 1..(Len(x.q) + 1) /\ (i <= Len(x.q) => i \in DOMAIN x.q /\ x.q[i] = v)
      BY <1>1, <3>1
    <3>3. i = Len(x.q) + 1 => v = w
      BY <1>1, <3>1
    <3> QED  BY <1>1, <1>3, <3>2, <3>3 DEF Carries
  <2> QED  BY <2>1, <2>2, <2>3
<1>4. CASE j # k
  BY <1>2, <1>4
<1> QED  BY <1>3, <1>4

\* Enough for a step to keep AuthInv: what is new anywhere is authentic.
LEMMA AuthKept ==
  ASSUME TypeOK, AuthInv,
         \A m \in Managers, k \in Keys : handed[m][k] \subseteq handed'[m][k],
         \A k \in Keys : edited[k] \subseteq edited'[k],
         \A k \in Keys : remote'[k] = remote[k] \/ remote'[k] \in Authentic(k)',
         \A m \in Managers, k \in Keys :
           /\ configs'[m][k] = configs[m][k] \/ Encode(configs[m][k])' \in Authentic(k)'
           /\ told'[m][k] \subseteq told[m][k] \cup Authentic(k)'
           /\ \A w : Carries(watch'[m][k], w) => Carries(watch[m][k], w) \/ w \in Authentic(k)',
         \A m \in Managers, r \in Roles, k \in Keys : (~At(m, r, "idle") /\ Key(m, r) = k)' =>
           \/ UNCHANGED <<thr[m][r], Key(m, r)>>
           \/ {thr'[m][r].rem, thr'[m][r].loc} \subseteq Authentic(k)' \cup {Nil}
  PROVE  AuthInv'
<1>1. \A k \in Keys : Authentic(k) \subseteq Authentic(k)'
  BY AuthenticGrows
<1>2. NoInvention'
  BY <1>1 DEF AuthInv, NoInvention, Encode
<1>3. InHand'
  <2> SUFFICES ASSUME NEW m \in Managers, NEW r \in Roles, NEW k \in Keys,
                      (~At(m, r, "idle") /\ Key(m, r) = k)', UNCHANGED <<thr[m][r], Key(m, r)>>
               PROVE  {thr'[m][r].rem, thr'[m][r].loc} \subseteq Authentic(k)' \cup {Nil}
    BY DEF InHand
  <2>1. ~At(m, r, "idle") /\ Key(m, r) = k
    BY DEF At
  <2> QED  BY <1>1, <2>1 DEF AuthInv, InHand
<1>4. OnWatch'
  BY <1>1 DEF AuthInv, OnWatch
<1> QED  BY <1>2, <1>3, <1>4 DEF AuthInv

\* The closure stores and announces what it is given.
LEMMA AuthOnChange ==
  ASSUME TypeOK, AuthInv, NEW m \in Managers, NEW k \in Keys, NEW w \in Wire \cap Authentic(k),
         OnChange(m, k, w), UNCHANGED <<edited, handed>>
  PROVE  \A n \in Managers, j \in Keys :
           /\ configs'[n][j] = configs[n][j] \/ Encode(configs[n][j])' \in Authentic(j)'
           /\ told'[n][j] \subseteq told[n][j] \cup Authentic(j)'
<1>0. Encode(Decode(w)) = w /\ Authentic(k)' = Authentic(k)
  BY CodecTypes DEF Authentic, Sources
<1>1. CASE configs' = [configs EXCEPT ![m][k] = Decode(w)] /\ Notify(m, k, Decode(w))
  <2>1. \A n \in Managers, j \in Keys :
          configs'[n][j] = IF n = m /\ j = k THEN Decode(w) ELSE configs[n][j]
    BY <1>1 DEF TypeOK, Types
  <2>2. \A n \in Managers, j \in Keys :
          told'[n][j] = IF n = m /\ j = k THEN told[n][j] \cup {w} ELSE told[n][j]
    BY <1>0, <1>1 DEF Notify, TypeOK, Types
  <2>3. \A n \in Managers, j \in Keys :
          configs'[n][j] = configs[n][j] \/ Encode(configs[n][j])' \in Authentic(j)'
    BY <1>0, <2>1 DEF Encode
  <2>4. ASSUME NEW n \in Managers, NEW j \in Keys
        PROVE  told'[n][j] \subseteq told[n][j] \cup Authentic(j)'
    <3>1. CASE n = m /\ j = k
      <4>1. told'[n][j] = told[n][j] \cup {w} /\ w \in Authentic(j)'
        BY <1>0, <2>2, <3>1
      <4> QED  BY <4>1
    <3>2. CASE ~(n = m /\ j = k)
      BY <2>2, <3>2
    <3> QED  BY <3>1, <3>2
  <2> QED  BY <2>3, <2>4
<1>2. CASE UNCHANGED <<configs, callbackVars>>
  BY <1>2 DEF callbackVars
<1> QED  BY <1>1, <1>2 DEF OnChange

LEMMA AuthWatchers ==
  ASSUME TypeOK, AuthInv, NEW m \in Managers, NEW k \in Keys,
         WatcherStep(m, k) \/ PollReads(m, k) \/ WatcherFails(m, k)
  PROVE  AuthInv'
<1>1. UNCHANGED <<remote, thr, handed, edited>> /\ \A j \in Keys : Authentic(j)' = Authentic(j)
  BY WatcherData DEF Authentic, Sources
<1>2. \A w : (w = remote[k] /\ w # Nil) \/ Carries(watch[m][k], w) => w \in Authentic(k)
  BY DEF AuthInv, NoInvention, OnWatch
<1> DEFINE Data == \A n \in Managers, j \in Keys :
                     /\ configs'[n][j] = configs[n][j] \/ Encode(configs[n][j])' \in Authentic(j)'
                     /\ told'[n][j] \subseteq told[n][j] \cup Authentic(j)'
<1>3. Data
  <2>1. CASE UNCHANGED <<configs, callbackVars>>
    BY <2>1 DEF callbackVars
  <2>2. ASSUME NEW w \in Wire, OnChange(m, k, w), w = remote[k] \/ Carries(watch[m][k], w)
        PROVE  Data
    <3>1. w \in Authentic(k)
      BY <1>2, <2>2, CodecTypes
    <3> QED  BY <1>1, <2>2, <3>1, AuthOnChange
  <2> QED  BY <2>1, <2>2, WatcherData
<1>4. PICK x \in WatchRec :
        To(m, k, x) /\ \A w : Carries(x, w) => Carries(watch[m][k], w) \/ (w = remote[k] /\ w # Nil)
  BY WatcherData
<1>5. \A n \in Managers, j \in Keys : \A w :
        Carries(watch'[n][j], w) => Carries(watch[n][j], w) \/ w \in Authentic(j)'
  <2>1. \A n \in Managers, j \in Keys : watch'[n][j] = IF n = m /\ j = k THEN x ELSE watch[n][j]
    BY <1>4 DEF To, TypeOK, Types
  <2> QED  BY <1>1, <1>2, <1>4, <2>1
<1> QED  BY <1>1, <1>3, <1>5, AuthKept DEF At, Key

\* SyncConfig stores, uploads and announces what it has in hand.
LEMMA AuthInside ==
  ASSUME TypeOK, AuthInv, NEW m \in Managers, NEW r \in Roles, Inside(m, r)
  PROVE  AuthInv'
<1> USE DEF syncFrame, centreVars, historyVars
<1> DEFINE k == Key(m, r)
           Supplied == Authentic(k) \cup {Nil}
<1>0. PICK t : Goto(m, r, t) /\ ~At(m, r, "idle") /\ UNCHANGED <<handed, edited>>
  BY InsideMoves
<1>1. k \in Keys /\ thr[m][r] \in Thread /\ thr[m][r].at + 1 \in Nat \ {0}
  BY <1>0, KeyTypes DEF TypeOK, Types, Thread
<1>2. \A j \in Keys : Authentic(j)' = Authentic(j)
  BY <1>0 DEF Authentic, Sources
<1>3. thr[m][r].rem \in Supplied /\ thr[m][r].loc \in Supplied
  BY <1>0, <1>1 DEF AuthInv, InHand
<1> DEFINE InHandKept == \A n \in Managers, s \in Roles, j \in Keys : (~At(n, s, "idle") /\ Key(n, s) = j)' =>
              \/ UNCHANGED <<thr[n][s], Key(n, s)>>
              \/ {thr'[n][s].rem, thr'[n][s].loc} \subseteq Authentic(j)' \cup {Nil}
\* A move to u is fine when u stays at the key with what was supplied for it,
\* or has nothing in hand.
<1>4. ASSUME NEW u, Goto(m, r, u),
             \/ u.at = thr[m][r].at /\ u.rem \in Supplied /\ u.loc \in Supplied
             \/ u.rem = Nil /\ u.loc = Nil
      PROVE  InHandKept
  <2>1. \A n \in Managers, s \in Roles : <<n, s>> # <<m, r>> => UNCHANGED <<thr[n][s], Key(n, s)>>
    BY <1>4, OnlyMoves
  <2>2. thr'[m][r] = u
    BY <1>4, OnlyMoves
  <2>3. u.at = thr[m][r].at => Key(m, r)' = k
    BY <2>2 DEF Key
  <2>4. ASSUME NEW j \in Keys, Key(m, r)' = j
        PROVE  {thr'[m][r].rem, thr'[m][r].loc} \subseteq Authentic(j)' \cup {Nil}
    <3>1. CASE u.rem = Nil /\ u.loc = Nil
      BY <2>2, <3>1
    <3>2. CASE u.at = thr[m][r].at /\ u.rem \in Supplied /\ u.loc \in Supplied
      <4>1. j = k
        BY <2>3, <2>4, <3>2
      <4> QED  BY <1>2, <2>2, <3>2, <4>1
    <3> QED  BY <1>4, <3>1, <3>2
  <2> QED  BY <2>1, <2>4
<1>5. ASSUME Continue(m, r) \/ Return(m, r)
      PROVE  InHandKept
  <2>1. \A i : Reaching(m, r, i).rem = Nil /\ Reaching(m, r, i).loc = Nil
    BY DEF Reaching, Idle
  <2>2. CASE Continue(m, r)
    <3> DEFINE u == Reaching(m, r, thr[m][r].at + 1)
    <3>1. Goto(m, r, u) /\ u.rem = Nil /\ u.loc = Nil
      BY <2>1, <2>2 DEF Continue
    <3> HIDE DEF u
    <3> QED  BY <1>4, <3>1
  <2>3. CASE Return(m, r)
    BY <1>4, <2>3 DEF Return, Idle
  <2> QED  BY <1>5, <2>2, <2>3
\* Enough for a step inside SyncConfig, case by case.
<1> DEFINE DataKept == \A n \in Managers, j \in Keys :
              configs'[n][j] = configs[n][j] \/ Encode(configs[n][j])' \in Authentic(j)'
<1>6. ASSUME InHandKept, UNCHANGED <<remote, watch, told>>,
             \/ UNCHANGED configs
             \/ \E c : Encode(c) \in Authentic(k) /\ configs' = [configs EXCEPT ![m][k] = c]
      PROVE  AuthInv'
  <2>1. DataKept
    <3>1. CASE UNCHANGED configs
      BY <3>1
    <3>2. ASSUME NEW c, Encode(c) \in Authentic(k), configs' = [configs EXCEPT ![m][k] = c]
          PROVE  DataKept
      <4>1. \A n \in Managers, j \in Keys :
              configs'[n][j] = IF n = m /\ j = k THEN c ELSE configs[n][j]
        BY <1>1, <3>2 DEF TypeOK, Types
      <4> QED  BY <1>2, <3>2, <4>1 DEF Encode
    <3> QED  BY <1>6, <3>1, <3>2
  <2> QED  BY <1>0, <1>6, <2>1, AuthKept<1>7. CASE SyncGet(m, r)
  <2> DEFINE u == [thr[m][r] EXCEPT !.pc = "decide", !.rem = remote[k]]
  <2>1. u.at = thr[m][r].at /\ u.rem = remote[k] /\ u.loc = thr[m][r].loc
    BY <1>1 DEF Thread
  <2>2. remote[k] \in Supplied
    BY <1>1 DEF AuthInv, NoInvention
  <2>3. Goto(m, r, u)
    BY <1>7 DEF SyncGet
  <2> HIDE DEF u
  <2>4. InHandKept
    BY <1>3, <1>4, <2>1, <2>2, <2>3
  <2> QED  BY <1>6, <1>7, <2>4 DEF SyncGet, callbackVars
<1>8. CASE SyncGetFails(m, r) \/ PutFails(m, r)
  <2>1. InHandKept
    BY <1>5, <1>8 DEF SyncGetFails, PutFails
  <2> QED  BY <1>6, <1>8, <2>1 DEF SyncGetFails, PutFails, callbackVars
<1>9. CASE Seed(m, r)
  <2> DEFINE s == [configs[m][k] EXCEPT !.ver = IF @ <= 0 THEN 1 ELSE @]
             u == [thr[m][r] EXCEPT !.pc = "lock", !.loc = Encode(s)]
  <2>1. UNCHANGED <<remote, watch, told>>
    BY <1>9 DEF Seed, callbackVars
  <2>2. CASE (Continue(m, r) \/ Return(m, r)) /\ UNCHANGED configs
    BY <1>5, <1>6, <2>1, <2>2
  <2>3. CASE configs' = [configs EXCEPT ![m][k] = s] /\ Goto(m, r, u)
    <3>1. Encode(s) \in Authentic(k)
      BY <1>1, StampIsAuthentic
    <3>2. u.at = thr[m][r].at /\ u.rem = thr[m][r].rem /\ u.loc = Encode(s)
      BY <1>1 DEF Thread
    <3> HIDE DEF u, s
    <3>3. InHandKept
      BY <1>3, <1>4, <2>3, <3>1, <3>2
    <3> QED  BY <1>6, <2>1, <2>3, <3>1, <3>3
  <2> QED  BY <1>9, <2>2, <2>3 DEF Seed
<1>10. CASE Compare(m, r)
  <2> DEFINE u == [thr[m][r] EXCEPT !.pc = "adopt"]
             v == [thr[m][r] EXCEPT !.pc = "lock", !.loc = Encode(configs[m][k])]
  <2>1. UNCHANGED <<remote, watch, told, configs>>
    BY <1>10 DEF Compare, callbackVars
  <2>2. /\ u.at = thr[m][r].at /\ u.rem = thr[m][r].rem /\ u.loc = thr[m][r].loc
        /\ v.at = thr[m][r].at /\ v.rem = thr[m][r].rem /\ v.loc = Encode(configs[m][k])
    BY <1>1 DEF Thread
  <2>3. Encode(configs[m][k]) \in Supplied
    BY <1>1 DEF AuthInv, NoInvention
  <2>4. Continue(m, r) \/ Return(m, r) \/ Goto(m, r, u) \/ Goto(m, r, v)
    BY <1>10 DEF Compare
  <2> HIDE DEF u, v
  <2>5. InHandKept
    BY <1>3, <1>4, <1>5, <2>2, <2>3, <2>4
  <2> QED  BY <1>6, <2>1, <2>5
<1>11. CASE Adopt(m, r)
  <2> DEFINE w == thr[m][r].rem
             u == [thr[m][r] EXCEPT !.pc = "notify"]
  <2>1. w \in Wire /\ Encode(Decode(w)) \in Authentic(k)
    BY <1>1, <1>3, <1>11, CodecTypes DEF Adopt, TypeOK, SyncShape, Thread
  <2>2. u.at = thr[m][r].at /\ u.rem = w /\ u.loc = thr[m][r].loc
    BY <1>1 DEF Thread
  <2>3. Goto(m, r, u)
    BY <1>11 DEF Adopt
  <2> HIDE DEF u
  <2>4. InHandKept
    BY <1>3, <1>4, <2>2, <2>3
  <2> QED  BY <1>6, <1>11, <2>1, <2>4 DEF Adopt, callbackVars
<1>12. CASE SyncNotify(m, r)
  <2> DEFINE w == thr[m][r].rem
  <2>1. w \in Wire /\ Encode(Decode(w)) = w /\ w \in Authentic(k)
    BY <1>1, <1>3, <1>12, CodecTypes DEF SyncNotify, TypeOK, SyncShape, Thread
  <2>2. UNCHANGED <<remote, watch, configs>> /\ InHandKept
    BY <1>5, <1>12 DEF SyncNotify
  <2>3. ASSUME NEW n \in Managers, NEW j \in Keys
        PROVE  told'[n][j] \subseteq told[n][j] \cup Authentic(j)'
    <3>1. told' = [told EXCEPT ![m][k] = @ \cup {w}]
      BY <1>12, <2>1 DEF SyncNotify, Notify
    <3>2. told'[n][j] = IF n = m /\ j = k THEN told[n][j] \cup {w} ELSE told[n][j]
      BY <1>1, <3>1 DEF TypeOK, Types
    <3>3. CASE n = m /\ j = k
      <4>1. told'[n][j] = told[n][j] \cup {w} /\ w \in Authentic(j)'
        BY <1>2, <2>1, <3>2, <3>3
      <4> QED  BY <4>1
    <3>4. CASE ~(n = m /\ j = k)
      BY <3>2, <3>4
    <3> QED  BY <3>3, <3>4
  <2> QED  BY <1>0, <2>2, <2>3, AuthKept
<1>13. CASE PutLock(m, r)
  <2> DEFINE u == [thr[m][r] EXCEPT !.pc = "put"]
  <2>1. u.at = thr[m][r].at /\ u.rem = thr[m][r].rem /\ u.loc = thr[m][r].loc
    BY <1>1 DEF Thread
  <2>2. Goto(m, r, u)
    BY <1>13 DEF PutLock
  <2> HIDE DEF u
  <2>3. InHandKept
    BY <1>3, <1>4, <2>1, <2>2
  <2> QED  BY <1>6, <1>13, <2>3 DEF PutLock, callbackVars
<1>14. CASE PutStore(m, r)
  <2> DEFINE w == thr[m][r].loc
  <2>1. w \in Wire /\ w \in Authentic(k)
    BY <1>1, <1>3, <1>14 DEF PutStore, TypeOK, SyncShape, Thread
  <2>2. Stores(k, w) /\ UNCHANGED <<configs, told>> /\ InHandKept
    BY <1>5, <1>14 DEF PutStore, callbackVars
  <2>3. \A j \in Keys : j = k => w \in Authentic(j)'
    BY <1>2, <2>1
  <2>4. \A j \in Keys : remote'[j] = remote[j] \/ remote'[j] \in Authentic(j)'
    <3>1. \A j \in Keys : remote'[j] = IF j = k THEN w ELSE remote[j]
      BY <1>1, <2>2 DEF Stores, TypeOK, Types
    <3> QED  BY <2>3, <3>1
  <2>5. \A n \in Managers, j \in Keys : \A v :
          Carries(watch'[n][j], v) => Carries(watch[n][j], v) \/ v \in Authentic(j)'
    BY <1>1, <2>1, <2>2, <2>3, StoresCarries
  <2> QED  BY <1>0, <2>2, <2>4, <2>5, AuthKept
<1> QED
  BY <1>7, <1>8, <1>9, <1>10, <1>11, <1>12, <1>13, <1>14 DEF Inside, SyncStep, SyncFails

\* What the application and the operators put in is authentic from then on.
LEMMA AuthRefresh ==
  ASSUME TypeOK, AuthInv, NEW m \in Managers, NEW r \in Apps, NEW k \in Keys, NEW c \in Inputs,
         RefreshConfig(m, r, k, c)
  PROVE  AuthInv'
<1>1. r \in Roles /\ UNCHANGED <<remote, watch, told, edited>>
  BY DEF RefreshConfig, Roles, centreVars, callbackVars
<1>2. \A n \in Managers, j \in Keys : handed[n][j] \subseteq handed'[n][j]
  BY DEF RefreshConfig, TypeOK, Types
<1>3. Encode(c) \in Authentic(k)'
  <2>1. Encode(c) \in handed'[m][k]
    BY DEF RefreshConfig, TypeOK, Types
  <2> QED  BY <2>1 DEF Authentic, Sources
<1>4. \A n \in Managers, j \in Keys :
        configs'[n][j] = configs[n][j] \/ Encode(configs[n][j])' \in Authentic(j)'
  <2>1. \A n \in Managers, j \in Keys :
          configs'[n][j] = IF n = m /\ j = k THEN c ELSE configs[n][j]
    BY DEF RefreshConfig, TypeOK, Types
  <2> QED  BY <1>3, <2>1 DEF Encode
<1>5. \A n \in Managers, s \in Roles, j \in Keys : (~At(n, s, "idle") /\ Key(n, s) = j)' =>
        \/ UNCHANGED <<thr[n][s], Key(n, s)>>
        \/ {thr'[n][s].rem, thr'[n][s].loc} \subseteq Authentic(j)' \cup {Nil}
  <2>1. thr'[m][r].rem = Nil /\ thr'[m][r].loc = Nil
    BY <1>1, OnlyMoves DEF RefreshConfig, Reaching, Idle
  <2> QED  BY <1>1, <2>1, OnlyMoves DEF RefreshConfig
<1> QED  BY <1>1, <1>2, <1>4, <1>5, AuthKept

LEMMA AuthEdit ==
  ASSUME TypeOK, AuthInv, NEW k \in Keys, NEW w \in Edits, Edit(k, w)
  PROVE  AuthInv'
<1>1. w \in Wire /\ Stores(k, w) /\ UNCHANGED <<configs, thr, told, handed>>
  BY ManagerAssumption DEF Edit, callbackVars
<1>2. \A j \in Keys : edited[j] \subseteq edited'[j]
  BY DEF Edit, TypeOK, Types
<1>3. w \in Authentic(k)'
  <2>1. w \in edited'[k]
    BY DEF Edit, TypeOK, Types
  <2> QED  BY <2>1 DEF Authentic, Sources
<1>4. \A j \in Keys : remote'[j] = remote[j] \/ remote'[j] \in Authentic(j)'
  <2>1. \A j \in Keys : remote'[j] = IF j = k THEN w ELSE remote[j]
    BY <1>1 DEF Stores, TypeOK, Types
  <2> QED  BY <1>3, <2>1
<1>5. \A n \in Managers, j \in Keys : \A v :
        Carries(watch'[n][j], v) => Carries(watch[n][j], v) \/ v \in Authentic(j)'
  BY <1>1, <1>3, StoresCarries
<1> QED  BY <1>1, <1>2, <1>4, <1>5, AuthKept DEF Key, At

LEMMA AuthNext == TypeOK /\ QuietInv /\ AuthInv /\ [Next]_vars => AuthInv'
<1> SUFFICES ASSUME TypeOK, QuietInv, AuthInv, [Next]_vars PROVE AuthInv'  OBVIOUS
<1>1. ASSUME Untouched, \A m \in Managers, k \in Keys : \A v : Carries(watch'[m][k], v) => Carries(watch[m][k], v)
      PROVE  AuthInv'
  <2>1. CASE UNCHANGED thr
    BY <1>1, <2>1, AuthKept DEF Untouched, Key, At
  <2>2. ASSUME NEW m \in Managers, NEW r \in Roles, Enter(m, r)  PROVE AuthInv'
    <3>1. thr'[m][r].rem = Nil /\ thr'[m][r].loc = Nil
      BY <2>2, OnlyMoves DEF Enter, Reaching, Idle
    <3>2. \A n \in Managers, s \in Roles : <<n, s>> # <<m, r>> => UNCHANGED <<thr[n][s], Key(n, s)>>
      BY <2>2, OnlyMoves DEF Enter
    <3> QED  BY <1>1, <3>1, <3>2, AuthKept DEF Untouched
  <2> QED  BY <2>1, <2>2, AuthInside, Moves DEF QuietInv
<1>2. ASSUME NEW m \in Managers,
             \/ Application(m) \/ HealthPasses(m) \/ HealthFails(m) \/ HealthExpires(m)
             \/ LoopStep(m) \/ CloseReturns(m)
             \/ \E k \in Keys : WatchLoopResyncs(m, k)
      PROVE  AuthInv'
  <2>1. ASSUME NEW r \in Apps, NEW k \in Keys, NEW c \in Inputs, RefreshConfig(m, r, k, c)
        PROVE  AuthInv'
    BY <2>1, AuthRefresh
  <2>2. \A n \in Managers, k \in Keys : \A v : Carries(watch'[n][k], v) => Carries(watch[n][k], v)
    <3>1. CASE UNCHANGED watch
      BY <3>1
    <3>2. ASSUME NEW k \in Keys, WatchLoopOpens(m, k)
          PROVE  \A n \in Managers, j \in Keys : watch'[n][j].q = watch[n][j].q
      BY <3>2 DEF WatchLoopOpens, TypeOK, Types, WatchRec
    <3>3. UNCHANGED watch \/ \E k \in Keys : WatchLoopOpens(m, k)
      BY <1>2 DEF Application, Subscribe, SyncCall, RefreshConfig, Watch, CloseCancels, HealthPasses,
                  HealthFails, HealthExpires, LoopStep, HealthStops, WatchLoopStops, WatchLoopReturns,
                  CloseReturns, WatchLoopResyncs, centreVars
    <3> QED  BY <3>1, <3>2, <3>3 DEF Carries
  <2> QED  BY <1>1, <1>2, <2>1, <2>2, OutsideData
<1>3. CASE (\E x \in runs : RunCallback(x)) \/ UNCHANGED vars
  BY <1>1, <1>3 DEF RunCallback, vars, centreVars, callbackVars, historyVars, Untouched
<1> QED  BY <1>2, <1>3, AuthWatchers, AuthEdit, AuthInside DEF Next, Inside

\* No interleaving mixes keys, pairs one configuration's version with
\* another's content or makes a configuration up (NoInvention).
THEOREM Provenance == Spec => []NoInvention
<1>1. Init => AuthInv
  <2> SUFFICES ASSUME Init PROVE AuthInv  OBVIOUS
  <2> USE DEF Init, CentreInit, ManagerInit
  <2>1. \A m \in Managers, k \in Keys : Encode(configs[m][k]) \in Authentic(k)
    BY DEF Authentic, Sources
  <2>2. NoInvention
    BY <2>1 DEF NoInvention
  <2>3. InHand
    BY DEF InHand, At, Idle
  <2>4. OnWatch
    BY DEF OnWatch, Carries, WatchAt
  <2> QED  BY <2>2, <2>3, <2>4 DEF AuthInv
<1>2. AuthInv => NoInvention
  BY DEF AuthInv
<1> QED  BY <1>1, <1>2, QuietSpec, AuthNext, PTL DEF Spec

(***************************************************************************)
(* Announcements.  What came from the centre was compared with an entry    *)
(* and found newer, so its version is positive; the stamp of SyncConfig,   *)
(* which replaces a version 0 only, never touches it.                      *)
(***************************************************************************)
\* What a manager was handed (or has stamped), and what it has announced.
Known(H, T, w) == w \in H \/ [w EXCEPT !.ver = 0] \in H \/ w \in T

Versioned ==
  /\ \A m \in Managers, k \in Keys : \A w \in told[m][k] : w.ver > 0
  /\ \A m \in Managers, r \in Roles :
       At(m, r, "adopt") \/ At(m, r, "notify") => thr[m][r].rem.ver > 0

HotInv == HotReloadComplete /\ Versioned

\* Enough for a step to keep HotInv: a new entry is announced, a goroutine
\* that was about to announce still is or has, and what is new to announce
\* has a version.
LEMMA HotKept ==
  ASSUME TypeOK, HotInv,
         \A m \in Managers, k \in Keys :
           /\ handed[m][k] \subseteq handed'[m][k] /\ told[m][k] \subseteq told'[m][k]
           /\ \/ configs'[m][k] = configs[m][k]
              \/ Known(handed'[m][k], told'[m][k], Encode(configs'[m][k]))
              \/ \E r \in Roles : /\ thr'[m][r].pc = "notify" /\ Key(m, r)' = k
                                  /\ thr'[m][r].rem = Encode(configs'[m][k])
           /\ \A w \in told'[m][k] : w \in told[m][k] \/ w.ver > 0,
         \A m \in Managers, r \in Roles :
           /\ At(m, r, "notify") => \/ UNCHANGED <<thr[m][r], Key(m, r)>>
                                    \/ thr[m][r].rem \in told'[m][Key(m, r)]
           /\ (At(m, r, "adopt") \/ At(m, r, "notify"))' =>
                \/ UNCHANGED thr[m][r]
                \/ thr'[m][r].rem.ver > 0
  PROVE  HotInv'
<1> DEFINE About(m, k, w) ==
             \E r \in Roles : At(m, r, "notify") /\ Key(m, r) = k /\ thr[m][r].rem = w
           Later(m, k, w) ==
             \E r \in Roles : thr'[m][r].pc = "notify" /\ Key(m, r)' = k /\ thr'[m][r].rem = w
<1>1. ASSUME NEW m \in Managers, NEW k \in Keys, NEW w, w = Encode(configs'[m][k])
      PROVE  Known(handed'[m][k], told'[m][k], w) \/ Later(m, k, w)
  <2> SUFFICES ASSUME configs'[m][k] = configs[m][k]
               PROVE  Known(handed'[m][k], told'[m][k], w) \/ Later(m, k, w)
    BY <1>1
  <2>1. Known(handed[m][k], told[m][k], w) \/ About(m, k, w)
    BY <1>1 DEF HotInv, HotReloadComplete, Known
  <2>2. CASE Known(handed[m][k], told[m][k], w)
    BY <2>2 DEF Known
  <2>3. ASSUME NEW r \in Roles, At(m, r, "notify"), Key(m, r) = k, thr[m][r].rem = w
        PROVE  Known(handed'[m][k], told'[m][k], w) \/ Later(m, k, w)
    <3>1. CASE UNCHANGED <<thr[m][r], Key(m, r)>>
      BY <2>3, <3>1 DEF At
    <3>2. CASE thr[m][r].rem \in told'[m][Key(m, r)]
      BY <2>3, <3>2 DEF Known
    <3> QED  BY <2>3, <3>1, <3>2
  <2> QED  BY <2>1, <2>2, <2>3
<1>2. HotReloadComplete'
  <2>1. \A m \in Managers, k \in Keys : Encode(configs[m][k])' = Encode(configs'[m][k])
    BY DEF Encode
  <2>2. \A m \in Managers, k \in Keys :
          LET w == Encode(configs'[m][k])
          IN  Known(handed'[m][k], told'[m][k], w) \/ Later(m, k, w)
    BY <1>1
  <2> QED  BY <2>1, <2>2 DEF HotReloadComplete, Known, At
<1>3. Versioned'
  BY DEF HotInv, Versioned, At
<1> QED  BY <1>2, <1>3 DEF HotInv

\* The closure of Watch announces what it adopts.
LEMMA HotWatchers ==
  ASSUME TypeOK, HotInv, NEW m \in Managers, NEW k \in Keys,
         WatcherStep(m, k) \/ PollReads(m, k) \/ WatcherFails(m, k)
  PROVE  HotInv'
<1>1. UNCHANGED <<thr, handed>>
  BY WatcherData
<1>2. CASE UNCHANGED <<configs, callbackVars>>
  BY <1>1, <1>2, HotKept DEF callbackVars, Key
<1>3. ASSUME NEW w \in Wire, OnChange(m, k, w), ~UNCHANGED <<configs, callbackVars>>
      PROVE  HotInv'
  <2>1. /\ w.ver > configs[m][k].ver
        /\ configs' = [configs EXCEPT ![m][k] = Decode(w)] /\ Notify(m, k, Decode(w))
    BY <1>3 DEF OnChange
  <2>2. Encode(Decode(w)) = w /\ w.ver > 0
    BY <2>1, CodecTypes DEF TypeOK, Types, Config, Wire
  <2>3. \A n \in Managers, j \in Keys :
          /\ configs'[n][j] = IF n = m /\ j = k THEN Decode(w) ELSE configs[n][j]
          /\ told'[n][j] = IF n = m /\ j = k THEN told[n][j] \cup {w} ELSE told[n][j]
    BY <2>1, <2>2 DEF Notify, TypeOK, Types
  <2>4. Known(handed'[m][k], told'[m][k], w)
    BY <2>3 DEF Known
  <2>5. ASSUME NEW n \in Managers, NEW j \in Keys
        PROVE  /\ handed[n][j] \subseteq handed'[n][j] /\ told[n][j] \subseteq told'[n][j]
               /\ \/ configs'[n][j] = configs[n][j]
                  \/ Known(handed'[n][j], told'[n][j], Encode(configs'[n][j]))
               /\ \A v \in told'[n][j] : v \in told[n][j] \/ v.ver > 0
    <3>1. CASE n = m /\ j = k
      <4>1. configs'[n][j] = Decode(w) /\ told'[n][j] = told[n][j] \cup {w}
        BY <2>3, <3>1
      <4>2. Known(handed'[n][j], told'[n][j], Encode(configs'[n][j]))
        BY <2>2, <2>4, <3>1, <4>1
      <4> QED  BY <1>1, <2>2, <4>1, <4>2
    <3>2. CASE ~(n = m /\ j = k)
      BY <1>1, <2>3, <3>2
    <3> QED  BY <3>1, <3>2
  <2> QED  BY <1>1, <2>5, HotKept DEF Key, At
<1> QED  BY <1>2, <1>3, WatcherData

\* SyncConfig announces what it adopts, one step later.
LEMMA HotInside ==
  ASSUME TypeOK, HotInv, NEW m \in Managers, NEW r \in Roles, Inside(m, r)
  PROVE  HotInv'
<1> USE DEF syncFrame, centreVars, callbackVars, historyVars
<1>0. PICK t : Goto(m, r, t) /\ ~At(m, r, "idle") /\ UNCHANGED handed
  BY InsideMoves
<1>1. PICK k \in Keys : k = Key(m, r)
  BY <1>0, KeyTypes DEF TypeOK, Types
<1>2. thr[m][r] \in Thread
  BY DEF TypeOK, Types
<1>3. \A n \in Managers, s \in Roles : <<n, s>> # <<m, r>> => UNCHANGED <<thr[n][s], Key(n, s)>>
  BY <1>0, OnlyMoves
\* A step of a goroutine that neither adopts nor announces.
<1>4. ASSUME UNCHANGED <<configs, told>>, ~At(m, r, "notify"),
             thr'[m][r].pc \notin {"adopt", "notify"} \/ thr'[m][r].rem.ver > 0
      PROVE  HotInv'
  BY <1>0, <1>3, <1>4, HotKept DEF At
<1>5. ASSUME Continue(m, r) \/ Return(m, r)
      PROVE  thr'[m][r].pc \notin {"adopt", "notify"}
  <2>1. \A i : Reaching(m, r, i).pc \notin {"adopt", "notify"} /\ Idle.pc \notin {"adopt", "notify"}
    BY DEF Reaching, Idle
  <2> QED  BY <1>5, <2>1, OnlyMoves DEF Continue, Return
<1>6. CASE SyncGet(m, r)
  <2>1. thr'[m][r] = [thr[m][r] EXCEPT !.pc = "decide", !.rem = remote[Key(m, r)]]
    BY <1>6, OnlyMoves DEF SyncGet
  <2>2. thr'[m][r].pc = "decide"
    BY <1>2, <2>1 DEF Thread
  <2> QED  BY <1>4, <1>6, <2>2 DEF SyncGet, At
<1>7. CASE SyncGetFails(m, r) \/ PutFails(m, r) \/ PutStore(m, r)
  BY <1>4, <1>5, <1>7 DEF SyncGetFails, PutFails, PutStore, At
<1>8. CASE Seed(m, r)
  <2> DEFINE c == configs[m][k]
             s == [c EXCEPT !.ver = IF @ <= 0 THEN 1 ELSE @]
             u == [thr[m][r] EXCEPT !.pc = "lock", !.loc = Encode(s)]
  <2>1. ~At(m, r, "notify") /\ UNCHANGED told
    BY <1>8 DEF Seed, At
  <2>2. CASE (Continue(m, r) \/ Return(m, r)) /\ UNCHANGED configs
    BY <1>4, <1>5, <2>1, <2>2
  <2>3. CASE configs' = [configs EXCEPT ![m][k] = s] /\ Goto(m, r, u)
    <3>1. thr'[m][r].pc = "lock"
      <4>1. u.pc = "lock"
        BY <1>2 DEF Thread
      <4> HIDE DEF u
      <4>2. thr'[m][r] = u
        BY <2>3, OnlyMoves
      <4> QED  BY <4>1, <4>2
    <3>2. CASE c.ver # 0
      <4>1. c \in Config
        BY DEF TypeOK, Types
      <4>2. s = c
        BY <3>2, <4>1 DEF Config
      <4>3. UNCHANGED configs
        BY <2>3, <4>2 DEF TypeOK, Types
      <4> QED  BY <1>4, <2>1, <3>1, <4>3
    <3>3. CASE c.ver = 0
      <4> DEFINE w == Encode(c)
      <4>1. c \in Config /\ w.ver = 0 /\ w \in Wire
        BY <3>3, CodecTypes DEF TypeOK, Types, Encode
      <4>2. w \in handed[m][k]
        <5>1. [w EXCEPT !.ver = 0] = w
          BY <4>1 DEF Wire
        <5>2. w \notin told[m][k]
          BY <4>1 DEF HotInv, Versioned
        <5>3. \A q \in Roles : At(m, q, "notify") => thr[m][q].rem # w
          BY <4>1 DEF HotInv, Versioned
        <5> QED  BY <5>1, <5>2, <5>3 DEF HotInv, HotReloadComplete
      <4>3. \A n \in Managers, j \in Keys :
              configs'[n][j] = IF n = m /\ j = k THEN s ELSE configs[n][j]
        BY <2>3 DEF TypeOK, Types
      <4>4. [Encode(s) EXCEPT !.ver = 0] = w
        BY <3>3, <4>1 DEF Encode, Config
      <4>5. Known(handed'[m][k], told'[m][k], Encode(s))
        BY <1>0, <4>2, <4>4 DEF Known
      <4>6. \A n \in Managers, j \in Keys :
              \/ configs'[n][j] = configs[n][j]
              \/ Known(handed'[n][j], told'[n][j], Encode(configs'[n][j]))
        <5> HIDE DEF s
        <5> QED  BY <4>3, <4>5
      <4> QED  BY <1>0, <1>3, <2>1, <3>1, <4>6, HotKept DEF At
    <3> QED  BY <3>2, <3>3
  <2> QED  BY <1>1, <1>8, <2>2, <2>3 DEF Seed
<1>9. CASE Compare(m, r)
  <2> DEFINE w == thr[m][r].rem
             c == configs[m][k]
  <2>1. UNCHANGED <<configs, told>> /\ ~At(m, r, "notify")
    BY <1>9 DEF Compare, At
  <2>2. CASE Continue(m, r) \/ Return(m, r)
    BY <1>4, <1>5, <2>1, <2>2
  <2>3. CASE w.ver > c.ver /\ Goto(m, r, [thr[m][r] EXCEPT !.pc = "adopt"])
    <3>1. w \in Wire /\ c \in Config
      BY <1>2, <1>9 DEF Compare, TypeOK, Types, Thread
    <3>2. w.ver > 0
      BY <2>3, <3>1 DEF Wire, Config
    <3>3. thr'[m][r] = [thr[m][r] EXCEPT !.pc = "adopt"]
      BY <2>3, OnlyMoves
    <3>4. thr'[m][r].rem = w
      BY <1>2, <3>3 DEF Thread
    <3> QED  BY <1>4, <2>1, <3>2, <3>4
  <2>4. CASE Goto(m, r, [thr[m][r] EXCEPT !.pc = "lock", !.loc = Encode(c)])
    <3>1. thr'[m][r] = [thr[m][r] EXCEPT !.pc = "lock", !.loc = Encode(c)]
      BY <2>4, OnlyMoves
    <3>2. thr'[m][r].pc = "lock"
      BY <1>2, <3>1 DEF Thread
    <3> QED  BY <1>4, <2>1, <3>2
  <2> QED  BY <1>1, <1>9, <2>2, <2>3, <2>4 DEF Compare
<1>10. CASE Adopt(m, r)
  <2> DEFINE w == thr[m][r].rem
  <2>1. w \in Wire /\ Encode(Decode(w)) = w /\ w.ver > 0
    BY <1>2, <1>10, CodecTypes DEF Adopt, At, TypeOK, SyncShape, Thread, HotInv, Versioned
  <2>2. /\ \A n \in Managers, j \in Keys :
             configs'[n][j] = IF n = m /\ j = k THEN Decode(w) ELSE configs[n][j]
        /\ UNCHANGED told /\ ~At(m, r, "notify")
    BY <1>1, <1>10 DEF Adopt, TypeOK, Types, At
  <2>3. thr'[m][r].pc = "notify" /\ thr'[m][r].rem = w /\ Key(m, r)' = k
    <3>1. thr'[m][r] = [thr[m][r] EXCEPT !.pc = "notify"]
      BY <1>10, OnlyMoves DEF Adopt
    <3> QED  BY <1>1, <1>2, <3>1 DEF Thread, Key
  <2>4. \A n \in Managers, j \in Keys :
          \/ configs'[n][j] = configs[n][j]
          \/ \E q \in Roles : /\ thr'[n][q].pc = "notify" /\ Key(n, q)' = j
                              /\ thr'[n][q].rem = Encode(configs'[n][j])
    <3> SUFFICES ASSUME NEW n \in Managers, NEW j \in Keys, n = m, j = k
                 PROVE  thr'[n][r].pc = "notify" /\ Key(n, r)' = j
                        /\ thr'[n][r].rem = Encode(configs'[n][j])
      BY <2>2
    <3> QED  BY <2>1, <2>2, <2>3
  <2> QED  BY <1>0, <1>3, <2>1, <2>2, <2>3, <2>4, HotKept DEF At
<1>11. CASE SyncNotify(m, r)
  <2> DEFINE w == thr[m][r].rem
  <2>1. w \in Wire /\ Encode(Decode(w)) = w /\ w.ver > 0
    BY <1>2, <1>11, CodecTypes DEF SyncNotify, At, TypeOK, SyncShape, Thread, HotInv, Versioned
  <2>2. \A n \in Managers, j \in Keys :
          told'[n][j] = IF n = m /\ j = k THEN told[n][j] \cup {w} ELSE told[n][j]
    BY <1>1, <1>11, <2>1 DEF SyncNotify, Notify, TypeOK, Types
  <2>3. UNCHANGED configs /\ thr'[m][r].pc \notin {"adopt", "notify"}
    BY <1>5, <1>11 DEF SyncNotify
  <2>4. w \in told'[m][Key(m, r)]
    BY <1>1, <2>2
  <2>5. ASSUME NEW n \in Managers, NEW j \in Keys
        PROVE  /\ told[n][j] \subseteq told'[n][j]
               /\ \A v \in told'[n][j] : v \in told[n][j] \/ v.ver > 0
    <3>1. CASE n = m /\ j = k
      <4>1. told'[n][j] = told[n][j] \cup {w}
        BY <2>2, <3>1
      <4> QED  BY <2>1, <4>1
    <3>2. CASE ~(n = m /\ j = k)
      BY <2>2, <3>2
    <3> QED  BY <3>1, <3>2
  <2> QED  BY <1>0, <1>3, <2>3, <2>4, <2>5, HotKept DEF At
<1>12. CASE PutLock(m, r)
  <2>1. thr'[m][r] = [thr[m][r] EXCEPT !.pc = "put"]
    BY <1>12, OnlyMoves DEF PutLock
  <2>2. thr'[m][r].pc = "put"
    BY <1>2, <2>1 DEF Thread
  <2> QED  BY <1>4, <1>12, <2>2 DEF PutLock, At
<1> QED
  BY <1>6, <1>7, <1>8, <1>9, <1>10, <1>11, <1>12 DEF Inside, SyncStep, SyncFails

LEMMA HotRefresh ==
  ASSUME TypeOK, HotInv, NEW m \in Managers, NEW r \in Apps, NEW k \in Keys, NEW c \in Inputs,
         RefreshConfig(m, r, k, c)
  PROVE  HotInv'
<1>1. r \in Roles /\ UNCHANGED told /\ At(m, r, "idle")
  BY DEF RefreshConfig, Roles, callbackVars
<1>2. \A n \in Managers, j \in Keys :
        /\ configs'[n][j] = IF n = m /\ j = k THEN c ELSE configs[n][j]
        /\ handed'[n][j] = IF n = m /\ j = k THEN handed[n][j] \cup {Encode(c)} ELSE handed[n][j]
  BY DEF RefreshConfig, TypeOK, Types
<1>3. Known(handed'[m][k], told'[m][k], Encode(c))
  BY <1>2 DEF Known
<1>4. \A n \in Managers, j \in Keys :
        /\ handed[n][j] \subseteq handed'[n][j]
        /\ \/ configs'[n][j] = configs[n][j]
           \/ Known(handed'[n][j], told'[n][j], Encode(configs'[n][j]))
  BY <1>2, <1>3
<1>5. thr'[m][r].pc \notin {"adopt", "notify"}
  BY <1>1, OnlyMoves DEF RefreshConfig, Reaching, Idle
<1>6. \A n \in Managers, s \in Roles : <<n, s>> # <<m, r>> => UNCHANGED <<thr[n][s], Key(n, s)>>
  BY <1>1, OnlyMoves DEF RefreshConfig
<1> QED  BY <1>1, <1>4, <1>5, <1>6, HotKept DEF At

LEMMA HotNext == TypeOK /\ QuietInv /\ HotInv /\ [Next]_vars => HotInv'
<1> SUFFICES ASSUME TypeOK, QuietInv, HotInv, [Next]_vars PROVE HotInv'  OBVIOUS
<1>1. ASSUME UNCHANGED <<configs, told>>,
             \A m \in Managers, k \in Keys : handed[m][k] \subseteq handed'[m][k]
      PROVE  HotInv'
  <2>1. CASE UNCHANGED thr
    BY <1>1, <2>1, HotKept DEF Key
  <2>2. ASSUME NEW m \in Managers, NEW r \in Roles, Enter(m, r)  PROVE HotInv'
    <3>1. thr'[m][r].pc \notin {"adopt", "notify"} /\ At(m, r, "idle")
      BY <2>2, OnlyMoves DEF Enter, Reaching, Idle
    <3>2. \A n \in Managers, s \in Roles : <<n, s>> # <<m, r>> => UNCHANGED <<thr[n][s], Key(n, s)>>
      BY <2>2, OnlyMoves DEF Enter
    <3> QED  BY <1>1, <3>1, <3>2, HotKept DEF At
  <2> QED  BY <2>1, <2>2, HotInside, Moves DEF QuietInv
<1>2. ASSUME NEW m \in Managers,
             \/ Application(m) \/ HealthPasses(m) \/ HealthFails(m) \/ HealthExpires(m)
             \/ LoopStep(m) \/ CloseReturns(m)
             \/ \E k \in Keys : WatchLoopResyncs(m, k)
      PROVE  HotInv'
  BY <1>1, <1>2, HotRefresh, OutsideData DEF Untouched
<1>3. CASE (\E x \in runs : RunCallback(x)) \/ (\E k \in Keys, w \in Edits : Edit(k, w)) \/ UNCHANGED vars
  BY <1>1, <1>3 DEF RunCallback, Edit, vars, callbackVars, historyVars
<1> QED  BY <1>2, <1>3, HotWatchers, HotInside DEF Next, Inside

\* Whatever came from the centre and is in use has been announced, or the
\* goroutine that adopted it is about to announce it (HotReloadComplete).
THEOREM NothingUnannounced == Spec => []HotReloadComplete
<1>1. Init => HotInv
  BY DEF Init, ManagerInit, HotInv, HotReloadComplete, Versioned, At, Idle
<1>2. HotInv => HotReloadComplete
  BY DEF HotInv
<1> QED  BY <1>1, <1>2, QuietSpec, HotNext, PTL DEF Spec

(***************************************************************************)
(* DynaConfig implements ConfigSharing, for every value of the constants:  *)
(* initial states map to initial states, and every step of the managers,   *)
(* the watches and the environment maps to one step of ConfigSharing or to *)
(* none.                                                                   *)
(***************************************************************************)

\* Of the values P that the centre has had for a key, what a manager that
\* has had the values H may take over.
Acceptable(P, H, w) ==
  /\ w \in P /\ w.content # Empty
  /\ \E h \in H : h.ver < w.ver

\* What a goroutine of SyncConfig has in hand: a value the centre has had;
\* when it is about to adopt or announce it, one its comparison let through;
\* when it is about to upload, a versioned value its manager has had.
Fits(P, H, t) ==
  /\ t.rem \in P \cup {Nil}
  /\ t.pc \in {"adopt", "notify"} => Acceptable(P, H, t.rem)
  /\ t.pc = "notify" => t.rem \in H
  /\ t.pc \in {"lock", "put"} => t.loc \in H /\ t.loc.ver > 0

HistoryTypes ==
  /\ published \in [Keys -> SUBSET Wire]
  /\ held \in [Managers -> [Keys -> SUBSET Wire]]

\* The histories hold the present.
Recorded ==
  /\ \A k \in Keys : remote[k] \in published[k] \cup {Nil}
  /\ \A m \in Managers, k \in Keys : Encode(configs[m][k]) \in held[m][k]

HandsFit == \A m \in Managers, r \in Roles :
  ~At(m, r, "idle") => Fits(published[Key(m, r)], held[m][Key(m, r)], thr[m][r])

WatchesFit == \A m \in Managers, k \in Keys :
  \A w : Carries(watch[m][k], w) => w \in published[k]

ShareInv == HistoryTypes /\ Recorded /\ HandsFit /\ WatchesFit

(***************************************************************************)
(* The histories                                                           *)
(***************************************************************************)
LEMMA HistoryGrows ==
  ASSUME TypeOK, TypeOK', HistoryTypes, Records
  PROVE  /\ HistoryTypes' /\ Recorded'
         /\ \A k \in Keys : published[k] \subseteq published'[k]
         /\ \A m \in Managers, k \in Keys : held[m][k] \subseteq held'[m][k]
<1>1. \A m \in Managers, k \in Keys : local'[m][k] = Encode(configs[m][k])' /\ local'[m][k] \in Wire
  BY CodecTypes DEF TypeOK, Types, local, Encode
<1>2. \A k \in Keys : remote'[k] \in Wire \cup {Nil}
  BY DEF TypeOK, Types
<1> QED  BY <1>1, <1>2 DEF Records, HistoryTypes, Recorded

\* A step that writes the centre under k, or not at all.
LEMMA Publishing ==
  ASSUME TypeOK, HistoryTypes, Recorded, Records
  PROVE  /\ UNCHANGED remote => UNCHANGED published
         /\ \A k \in Keys, w \in Wire :
              remote' = [remote EXCEPT ![k] = w]
                => published' = [published EXCEPT ![k] = @ \cup {w}]
<1>1. ASSUME UNCHANGED remote PROVE UNCHANGED published
  BY <1>1 DEF Records, Recorded, HistoryTypes
<1>2. ASSUME NEW k \in Keys, NEW w \in Wire, remote' = [remote EXCEPT ![k] = w]
      PROVE  published' = [published EXCEPT ![k] = @ \cup {w}]
  <2>1. w # Nil
    BY CodecTypes
  <2>2. \A j \in Keys : remote'[j] = IF j = k THEN w ELSE remote[j]
    BY <1>2 DEF TypeOK, Types
  <2>3. \A j \in Keys : published'[j] = IF j = k THEN published[j] \cup {w} ELSE published[j]
    BY <2>1, <2>2 DEF Records, Recorded
  <2> QED  BY <2>3 DEF Records, HistoryTypes
<1> QED  BY <1>1, <1>2

\* A table that differs from another in one entry.
LEMMA OneEntry ==
  ASSUME NEW S, NEW f \in [Managers -> [Keys -> S]], NEW g \in [Managers -> [Keys -> S]],
         NEW m \in Managers, NEW k \in Keys, NEW v,
         \A n \in Managers, j \in Keys : g[n][j] = IF n = m /\ j = k THEN v ELSE f[n][j]
  PROVE  g = [f EXCEPT ![m][k] = v]
<1> DEFINE h == [f EXCEPT ![m][k] = v]
<1>1. ASSUME NEW n \in Managers PROVE g[n] = h[n]
  <2>1. CASE n = m
    <3>1. h[n] = [f[n] EXCEPT ![k] = v]
      BY <2>1
    <3>2. \A j \in Keys : g[n][j] = [f[n] EXCEPT ![k] = v][j]
      BY <2>1
    <3>3. /\ g[n] = [j \in Keys |-> g[n][j]]
          /\ [f[n] EXCEPT ![k] = v] = [j \in Keys |-> [f[n] EXCEPT ![k] = v][j]]
      OBVIOUS
    <3> QED  BY <3>1, <3>2, <3>3
  <2>2. CASE n # m
    <3>1. h[n] = f[n] /\ \A j \in Keys : g[n][j] = f[n][j]
      BY <2>2
    <3>2. /\ g[n] = [j \in Keys |-> g[n][j]]
          /\ f[n] = [j \in Keys |-> f[n][j]]
      OBVIOUS
    <3> QED  BY <3>1, <3>2
  <2> QED  BY <2>1, <2>2
<1>2. /\ g = [n \in Managers |-> g[n]]
      /\ h = [n \in Managers |-> h[n]]
  OBVIOUS
<1> QED  BY <1>1, <1>2

\* A step that leaves the managers' entries alone, and one that replaces m's
\* entry of k.
LEMMA Holding ==
  ASSUME TypeOK, HistoryTypes, Recorded, Records, UNCHANGED configs
  PROVE  UNCHANGED <<local, held>>
<1>1. local' = local
  BY DEF local, Encode
<1>2. \A n \in Managers, j \in Keys : held'[n][j] = held[n][j]
  BY <1>1 DEF local, Records, Recorded, HistoryTypes
<1> QED  BY <1>1, <1>2 DEF Records, HistoryTypes

LEMMA Replacing ==
  ASSUME TypeOK, TypeOK', HistoryTypes, Recorded, Records,
         NEW m \in Managers, NEW k \in Keys, NEW c \in Config,
         configs' = [configs EXCEPT ![m][k] = c]
  PROVE  Sharing!Holds(m, k, Encode(c))
<1>0. /\ local \in [Managers -> [Keys -> Wire]]
      /\ \A n \in Managers, j \in Keys : local[n][j] = Encode(configs[n][j])
  BY CodecTypes DEF local, TypeOK, Types
<1>1. \A n \in Managers, j \in Keys :
        configs'[n][j] = IF n = m /\ j = k THEN c ELSE configs[n][j]
  BY DEF TypeOK, Types
<1>2. local' = [n \in Managers |-> [j \in Keys |-> Encode(configs'[n][j])]]
  BY DEF local, Encode
<1>3. \A n \in Managers, j \in Keys :
        local'[n][j] = IF n = m /\ j = k THEN Encode(c) ELSE local[n][j]
  BY <1>0, <1>1, <1>2
<1>4. local' = [local EXCEPT ![m][k] = Encode(c)]
  <2>1. local' \in [Managers -> [Keys -> Wire]]
    BY <1>2, CodecTypes DEF TypeOK, Types
  <2> HIDE DEF local
  <2> QED  BY <1>0, <1>3, <2>1, OneEntry
<1>5. \A n \in Managers, j \in Keys :
        held'[n][j] = IF n = m /\ j = k THEN held[n][j] \cup {Encode(c)} ELSE held[n][j]
  BY <1>0, <1>3 DEF Records, Recorded
<1>6. held' = [held EXCEPT ![m][k] = @ \cup {Encode(c)}]
  <2> DEFINE v == held[m][k] \cup {Encode(c)}
             S == SUBSET Wire
  <2>1. held' \in [Managers -> [Keys -> S]] /\ held \in [Managers -> [Keys -> S]]
    BY HistoryGrows DEF HistoryTypes
  <2>2. \A n \in Managers, j \in Keys :
          held'[n][j] = IF n = m /\ j = k THEN v ELSE held[n][j]
    BY <1>5
  <2>3. [held EXCEPT ![m][k] = v] = [held EXCEPT ![m][k] = @ \cup {Encode(c)}]
    OBVIOUS
  <2> HIDE DEF v, S
  <2> QED  BY <2>1, <2>2, <2>3, OneEntry
<1> QED  BY <1>4, <1>6 DEF Sharing!Holds

(***************************************************************************)
(* The invariant                                                           *)
(***************************************************************************)
LEMMA FitsGrows ==
  ASSUME NEW P, NEW H, NEW Q, NEW I, NEW t, Fits(P, H, t), P \subseteq Q, H \subseteq I
  PROVE  Fits(Q, I, t)
BY DEF Fits, Acceptable

\* A goroutine that enters or leaves SyncConfig, or goes on to its next key,
\* has nothing in hand.
LEMMA NothingInHand ==
  ASSUME NEW m \in Managers, NEW r \in Roles, NEW i, NEW P, NEW H
  PROVE  Fits(P, H, Reaching(m, r, i)) /\ Fits(P, H, Idle)
BY DEF Fits, Reaching, Idle

\* Enough for a step to keep the invariant: who moves has what fits, and a
\* watch gets what the centre has had.
LEMMA ShareKept ==
  ASSUME TypeOK, TypeOK', ShareInv, Records,
         \A m \in Managers, r \in Roles : ~At(m, r, "idle")' =>
           \/ UNCHANGED <<thr[m][r], Key(m, r)>>
           \/ Fits(published'[Key(m, r)'], held'[m][Key(m, r)'], thr'[m][r]),
         \A m \in Managers, k \in Keys : \A w :
           Carries(watch'[m][k], w) => Carries(watch[m][k], w) \/ w \in published'[k]
  PROVE  ShareInv'
<1>1. /\ HistoryTypes' /\ Recorded'
      /\ \A k \in Keys : published[k] \subseteq published'[k]
      /\ \A m \in Managers, k \in Keys : held[m][k] \subseteq held'[m][k]
  BY HistoryGrows DEF ShareInv
<1>2. HandsFit'
  <2> SUFFICES ASSUME NEW m \in Managers, NEW r \in Roles, ~At(m, r, "idle")',
                      UNCHANGED <<thr[m][r], Key(m, r)>>
               PROVE  Fits(published'[Key(m, r)'], held'[m][Key(m, r)'], thr'[m][r])
    BY DEF HandsFit
  <2>1. ~At(m, r, "idle") /\ Key(m, r) \in Keys
    BY KeyTypes DEF At, TypeOK
  <2>2. Fits(published[Key(m, r)], held[m][Key(m, r)], thr[m][r])
    BY <2>1 DEF ShareInv, HandsFit
  <2>3. Fits(published'[Key(m, r)], held'[m][Key(m, r)], thr[m][r])
    BY <1>1, <2>1, <2>2, FitsGrows
  <2> QED  BY <2>3
<1>3. WatchesFit'
  BY <1>1 DEF ShareInv, WatchesFit
<1> QED  BY <1>1, <1>2, <1>3 DEF ShareInv

\* A step that touches no data is no step of ConfigSharing.
LEMMA Stutters ==
  ASSUME TypeOK, TypeOK', ShareInv, Records, Untouched
  PROVE  UNCHANGED Sharing!vars
BY Publishing, Holding DEF ShareInv, Untouched, Sharing!vars, Sharing!atCentre, Sharing!atManager

Shares == Sharing!Next \/ UNCHANGED Sharing!vars

(***************************************************************************)
(* SyncConfig                                                              *)
(***************************************************************************)
LEMMA InsideShares ==
  ASSUME TypeOK, TypeOK', ShareInv, Records,
         NEW m \in Managers, NEW r \in Roles, Inside(m, r)
  PROVE  ShareInv' /\ Shares
<1> USE DEF syncFrame, centreVars, callbackVars, historyVars
<1> DEFINE k == Key(m, r)
           P == published[k]
           H == held[m][k]
           Q == published'[k]
           I == held'[m][k]
           HandsKept == \A n \in Managers, s \in Roles : ~At(n, s, "idle")' =>
              \/ UNCHANGED <<thr[n][s], Key(n, s)>>
              \/ Fits(published'[Key(n, s)'], held'[n][Key(n, s)'], thr'[n][s])
<1>0. ~At(m, r, "idle") /\ UNCHANGED <<handed, edited>>
  BY InsideMoves
<1>1. k \in Keys /\ thr[m][r] \in Thread
  BY <1>0, KeyTypes DEF TypeOK, Types
<1>2. P \subseteq Q /\ H \subseteq I /\ Fits(P, H, thr[m][r])
  BY <1>0, <1>1, HistoryGrows DEF ShareInv, HandsFit
<1>3. remote[k] \in P \cup {Nil} /\ Encode(configs[m][k]) \in H
  BY <1>1 DEF ShareInv, Recorded
\* A move to u is fine when u fits the key, or has nothing in hand.
<1>4. ASSUME NEW u, Goto(m, r, u),
             (u.at = thr[m][r].at /\ Fits(Q, I, u)) \/ \A A, B : Fits(A, B, u)
      PROVE  HandsKept
  <2>1. \A n \in Managers, s \in Roles : <<n, s>> # <<m, r>> => UNCHANGED <<thr[n][s], Key(n, s)>>
    BY <1>4, OnlyMoves
  <2>2. thr'[m][r] = u
    BY <1>4, OnlyMoves
  <2>3. u.at = thr[m][r].at => Key(m, r)' = k
    BY <2>2 DEF Key
  <2>4. Fits(published'[Key(m, r)'], held'[m][Key(m, r)'], thr'[m][r])
    <3> HIDE DEF k
    <3> QED  BY <1>4, <2>2, <2>3
  <2> QED  BY <2>1, <2>4
<1>5. ASSUME Continue(m, r) \/ Return(m, r)
      PROVE  HandsKept
  <2>1. CASE Continue(m, r)
    <3> DEFINE u == Reaching(m, r, thr[m][r].at + 1)
    <3>1. Goto(m, r, u) /\ \A A, B : Fits(A, B, u)
      BY <2>1, NothingInHand DEF Continue
    <3> HIDE DEF u, HandsKept
    <3> QED  BY <1>4, <3>1
  <2>2. CASE Return(m, r)
    <3>1. Goto(m, r, Idle) /\ \A A, B : Fits(A, B, Idle)
      BY <2>2, NothingInHand DEF Return
    <3> HIDE DEF HandsKept
    <3> QED  BY <1>4, <3>1
  <2> QED  BY <1>5, <2>1, <2>2
\* Enough for a step that leaves the watches alone.
<1>6. ASSUME HandsKept, UNCHANGED watch
      PROVE  ShareInv'
  BY <1>6, ShareKept
<1>7. ASSUME HandsKept, UNCHANGED <<watch, remote, configs, told>>
      PROVE  ShareInv' /\ Shares
  BY <1>0, <1>6, <1>7, Stutters DEF Untouched, Shares
<1>8. CASE SyncGet(m, r)
  <2> DEFINE u == [thr[m][r] EXCEPT !.pc = "decide", !.rem = remote[k]]
  <2>1. u.at = thr[m][r].at /\ u.rem = remote[k] /\ u.pc = "decide"
    BY <1>1 DEF Thread
  <2>2. Goto(m, r, u)
    BY <1>8 DEF SyncGet
  <2> HIDE DEF u
  <2>3. Fits(Q, I, u)
    BY <1>2, <1>3, <2>1 DEF Fits
  <2>4. HandsKept
    BY <1>4, <2>1, <2>2, <2>3
  <2> QED  BY <1>7, <1>8, <2>4 DEF SyncGet
<1>9. CASE SyncGetFails(m, r) \/ PutFails(m, r)
  BY <1>5, <1>7, <1>9 DEF SyncGetFails, PutFails
<1>10. CASE Seed(m, r)
  <2> DEFINE c == configs[m][k]
             s == [c EXCEPT !.ver = IF @ <= 0 THEN 1 ELSE @]
             u == [thr[m][r] EXCEPT !.pc = "lock", !.loc = Encode(s)]
  <2>1. UNCHANGED <<remote, watch, told>>
    BY <1>10 DEF Seed
  <2>2. CASE (Continue(m, r) \/ Return(m, r)) /\ UNCHANGED configs
    BY <1>5, <1>7, <2>1, <2>2
  <2>3. CASE configs' = [configs EXCEPT ![m][k] = s] /\ Goto(m, r, u)
    <3>1. c \in Config /\ s \in Config /\ s.ver > 0 /\ Encode(s).ver = s.ver
      <4>1. c \in Config /\ (IF c.ver <= 0 THEN 1 ELSE c.ver) \in Nat \ {0}
        BY <1>1 DEF TypeOK, Types, Config
      <4> QED  BY <4>1 DEF Config, Encode
    <3>2. u.at = thr[m][r].at /\ u.rem = thr[m][r].rem /\ u.loc = Encode(s) /\ u.pc = "lock"
      BY <1>1 DEF Thread
    <3> HIDE DEF u
    <3>3. Sharing!Holds(m, k, Encode(s))
      <4>1. PICK j \in Keys, d \in Config : j = k /\ d = s
        BY <1>1, <3>1
      <4>2. configs' = [configs EXCEPT ![m][j] = d]
        BY <2>3, <4>1
      <4>3. Sharing!Holds(m, j, Encode(d))
        BY <4>2, Replacing DEF ShareInv
      <4> QED  BY <2>1, <4>1, <4>3
    <3>4. UNCHANGED published
      BY <2>1, Publishing DEF ShareInv
    <3>5. Encode(s) \in I
      BY <1>1, <3>3 DEF ShareInv, HistoryTypes, Sharing!Holds
    <3>6. HandsKept
      <4>1. Fits(Q, I, u)
        BY <1>2, <3>1, <3>2, <3>5 DEF Fits
      <4> QED  BY <1>4, <2>3, <3>2, <4>1
    <3>7. Shares
      <4>1. CASE c.ver = 0
        <5>1. local[m][k] = Encode(c)
          BY <1>1 DEF local
        <5>2. Encode(s) = [local[m][k] EXCEPT !.ver = 1] /\ local[m][k].ver = 0
          BY <3>1, <4>1, <5>1 DEF Encode, Config
        <5>3. Sharing!Stamp(m, k)
          BY <1>0, <2>1, <3>3, <3>4, <5>2 DEF Sharing!Stamp, Sharing!atCentre
        <5> QED  BY <1>1, <5>3 DEF Shares, Sharing!Next
      <4>2. CASE c.ver # 0
        <5>1. s = c
          BY <3>1, <4>2 DEF Config
        <5>2. UNCHANGED configs
          BY <1>1, <2>3, <5>1 DEF TypeOK, Types
        <5> QED  BY <1>0, <2>1, <5>2, Stutters DEF Untouched, Shares
      <4> QED  BY <4>1, <4>2
    <3> QED  BY <1>6, <2>1, <3>6, <3>7
  <2> QED  BY <1>10, <2>2, <2>3 DEF Seed
<1>11. CASE Compare(m, r)
  <2> DEFINE c == configs[m][k]
             w == thr[m][r].rem
             u == [thr[m][r] EXCEPT !.pc = "adopt"]
             v == [thr[m][r] EXCEPT !.pc = "lock", !.loc = Encode(c)]
  <2>1. UNCHANGED <<remote, watch, told, configs>>
    BY <1>11 DEF Compare
  <2>2. CASE Continue(m, r) \/ Return(m, r)
    BY <1>5, <1>7, <2>1, <2>2
  <2>0. c \in Config /\ w \in Wire
    BY <1>1, <1>11 DEF Compare, TypeOK, Types, Thread
  <2>3. CASE CallValidate(Decode(w)) = "ok" /\ w.ver > c.ver /\ Goto(m, r, u)
    <3>1. u.at = thr[m][r].at /\ u.rem = w /\ u.pc = "adopt"
      BY <1>1 DEF Thread
    <3>2. w.content # Empty
      BY <2>3 DEF CallValidate, Decode
    <3>3. w \in P /\ Encode(c).ver < w.ver
      <4>1. Encode(c).ver = c.ver /\ c.ver \in Nat /\ w.ver \in Nat
        BY <2>0 DEF Encode, Config, Wire
      <4> QED  BY <1>2, <2>0, <2>3, <4>1, CodecTypes DEF Fits
    <3> HIDE DEF u
    <3>4. Acceptable(Q, I, w)
      BY <1>2, <1>3, <3>2, <3>3 DEF Acceptable
    <3>5. Fits(Q, I, u)
      BY <3>1, <3>4 DEF Fits, Acceptable
    <3>6. HandsKept
      BY <1>4, <2>3, <3>1, <3>5
    <3> QED  BY <1>7, <2>1, <3>6
  <2>4. CASE w.ver < c.ver /\ Goto(m, r, v)
    <3>1. v.at = thr[m][r].at /\ v.rem = w /\ v.pc = "lock" /\ v.loc = Encode(c)
      BY <1>1 DEF Thread
    <3>2. Encode(c).ver > 0
      BY <2>0, <2>4 DEF Encode, Config, Wire
    <3> HIDE DEF v
    <3>3. Fits(Q, I, v)
      BY <1>2, <1>3, <3>1, <3>2 DEF Fits
    <3>4. HandsKept
      BY <1>4, <2>4, <3>1, <3>3
    <3> QED  BY <1>7, <2>1, <3>4
  <2> QED  BY <1>11, <2>2, <2>3, <2>4 DEF Compare
<1>12. CASE Adopt(m, r)
  <2> DEFINE w == thr[m][r].rem
             u == [thr[m][r] EXCEPT !.pc = "notify"]
  <2>1. /\ w \in Wire /\ Decode(w) \in Config /\ Encode(Decode(w)) = w
        /\ Acceptable(P, H, w) /\ w \in P
    BY <1>1, <1>2, <1>12, CodecTypes DEF Adopt, At, TypeOK, SyncShape, Thread, Fits, Acceptable
  <2>2. u.at = thr[m][r].at /\ u.rem = w /\ u.pc = "notify" /\ Goto(m, r, u)
    BY <1>1, <1>12 DEF Thread, Adopt
  <2> HIDE DEF u
  <2>3. Sharing!Holds(m, k, w) /\ UNCHANGED published
    <3>1. configs' = [configs EXCEPT ![m][k] = Decode(w)] /\ UNCHANGED remote
      BY <1>12 DEF Adopt
    <3>2. Sharing!Holds(m, k, w)
      <4>1. PICK j \in Keys, d \in Config : j = k /\ d = Decode(w)
        BY <1>1, <2>1
      <4>2. configs' = [configs EXCEPT ![m][j] = d]
        BY <3>1, <4>1
      <4>3. Sharing!Holds(m, j, Encode(d))
        BY <4>2, Replacing DEF ShareInv
      <4> QED  BY <2>1, <4>1, <4>3
    <3> QED  BY <2>1, <3>1, <3>2, Publishing DEF ShareInv
  <2>4. w \in I /\ Acceptable(Q, I, w)
    BY <1>1, <1>2, <2>1, <2>3 DEF ShareInv, HistoryTypes, Acceptable, Sharing!Holds
  <2>5. HandsKept
    <3>1. Fits(Q, I, u)
      BY <2>2, <2>4 DEF Fits, Acceptable
    <3> QED  BY <1>4, <2>2, <3>1
  <2>6. Sharing!Adopt(m, k, w)
    <3>1. Sharing!Acceptable(m, k, w)
      BY <2>1 DEF Acceptable, Sharing!Acceptable
    <3> QED
      BY <1>0, <1>12, <2>3, <3>1 DEF Adopt, Sharing!Adopt, Sharing!atCentre
  <2>7. Shares
    BY <1>1, <2>1, <2>6 DEF Shares, Sharing!Next
  <2> QED  BY <1>6, <1>12, <2>5, <2>7 DEF Adopt
<1>13. CASE SyncNotify(m, r)
  <2> DEFINE w == thr[m][r].rem
  <2>1. w \in Wire /\ Encode(Decode(w)) = w /\ Acceptable(P, H, w) /\ w \in P /\ w \in H
    BY <1>1, <1>2, <1>13, CodecTypes DEF SyncNotify, At, TypeOK, SyncShape, Thread, Fits, Acceptable
  <2>2. HandsKept /\ UNCHANGED <<remote, watch, configs>>
    BY <1>5, <1>13 DEF SyncNotify
  <2>3. told' = [told EXCEPT ![m][k] = @ \cup {w}]
    BY <1>13, <2>1 DEF SyncNotify, Notify
  <2>4. UNCHANGED <<published, local, held>>
    BY <2>2, Publishing, Holding DEF ShareInv
  <2>5. Sharing!Announce(m, k, w)
    <3>1. Sharing!Acceptable(m, k, w)
      BY <2>1 DEF Acceptable, Sharing!Acceptable
    <3> QED
      BY <1>0, <2>1, <2>2, <2>3, <2>4, <3>1 DEF Sharing!Announce, Sharing!Announces, Sharing!atCentre
  <2>6. Shares
    BY <1>1, <2>1, <2>5 DEF Shares, Sharing!Next
  <2> QED  BY <1>6, <2>2, <2>6
<1>14. CASE PutLock(m, r)
  <2> DEFINE u == [thr[m][r] EXCEPT !.pc = "put"]
  <2>1. u.at = thr[m][r].at /\ u.rem = thr[m][r].rem /\ u.loc = thr[m][r].loc /\ u.pc = "put"
    BY <1>1 DEF Thread
  <2>2. Goto(m, r, u) /\ At(m, r, "lock")
    BY <1>14 DEF PutLock
  <2> HIDE DEF u
  <2>3. Fits(Q, I, u)
    BY <1>2, <2>1, <2>2 DEF Fits, At
  <2>4. HandsKept
    BY <1>4, <2>1, <2>2, <2>3
  <2> QED  BY <1>7, <1>14, <2>4 DEF PutLock
<1>15. CASE PutStore(m, r)
  <2> DEFINE w == thr[m][r].loc
  <2>1. w \in Wire /\ w \in H /\ w.ver > 0
    BY <1>1, <1>2, <1>15 DEF PutStore, At, TypeOK, SyncShape, Thread, Fits
  <2>2. Stores(k, w) /\ UNCHANGED <<configs, told>> /\ HandsKept
    BY <1>5, <1>15 DEF PutStore
  <2>3. remote' = [remote EXCEPT ![k] = w] /\ published' = [published EXCEPT ![k] = @ \cup {w}]
    BY <1>1, <2>1, <2>2, Publishing DEF Stores, ShareInv
  <2>4. UNCHANGED <<local, held>>
    BY <2>2, Holding DEF ShareInv
  <2>5. w \in Q
    BY <1>1, <2>3 DEF ShareInv, HistoryTypes
  <2>6. \A n \in Managers, j \in Keys : \A v :
          Carries(watch'[n][j], v) => Carries(watch[n][j], v) \/ v \in published'[j]
    BY <1>1, <2>1, <2>2, <2>5, StoresCarries
  <2>7. ShareInv'
    BY <2>2, <2>6, ShareKept
  <2>8. Sharing!Upload(m, k, w)
    BY <1>0, <2>1, <2>2, <2>3, <2>4 DEF Sharing!Upload, Sharing!Publishes, Sharing!atManager
  <2> QED  BY <1>1, <2>1, <2>7, <2>8 DEF Shares, Sharing!Next
<1> QED
  BY <1>8, <1>9, <1>10, <1>11, <1>12, <1>13, <1>14, <1>15 DEF Inside, SyncStep, SyncFails

(***************************************************************************)
(* The watches, the application and the operators                          *)
(***************************************************************************)
LEMMA WatchersShare ==
  ASSUME TypeOK, TypeOK', ShareInv, Records, NEW m \in Managers, NEW k \in Keys,
         WatcherStep(m, k) \/ PollReads(m, k) \/ WatcherFails(m, k)
  PROVE  ShareInv' /\ Shares
<1>1. UNCHANGED <<remote, thr, handed, edited>> /\ UNCHANGED published
  BY WatcherData, Publishing DEF ShareInv
<1>2. \A w : (w = remote[k] /\ w # Nil) \/ Carries(watch[m][k], w) => w \in published[k]
  BY DEF ShareInv, Recorded, WatchesFit
<1>3. PICK x \in WatchRec :
        To(m, k, x) /\ \A w : Carries(x, w) => Carries(watch[m][k], w) \/ (w = remote[k] /\ w # Nil)
  BY WatcherData
<1>4. \A n \in Managers, j \in Keys : \A v :
        Carries(watch'[n][j], v) => Carries(watch[n][j], v) \/ v \in published'[j]
  <2>1. \A n \in Managers, j \in Keys : watch'[n][j] = IF n = m /\ j = k THEN x ELSE watch[n][j]
    BY <1>3 DEF To, TypeOK, Types
  <2> QED  BY <1>1, <1>2, <1>3, <2>1
<1>5. ShareInv'
  <2>1. \A n \in Managers, s \in Roles : UNCHANGED <<thr[n][s], Key(n, s)>>
    BY <1>1 DEF Key
  <2> QED  BY <1>4, <2>1, ShareKept
<1>6. CASE UNCHANGED <<configs, callbackVars>>
  BY <1>1, <1>5, <1>6, Stutters DEF Untouched, Shares, callbackVars
<1>7. ASSUME NEW w \in Wire, OnChange(m, k, w), w = remote[k] \/ Carries(watch[m][k], w),
             ~UNCHANGED <<configs, callbackVars>>
      PROVE  Shares
  <2> DEFINE d == Decode(w)
  <2>1. /\ CallValidate(d) = "ok" /\ w.ver > configs[m][k].ver
        /\ configs' = [configs EXCEPT ![m][k] = d] /\ Notify(m, k, d)
    BY <1>7 DEF OnChange
  <2>2. d \in Config /\ Encode(d) = w /\ w # Nil
    BY CodecTypes
  <2>3. w \in published[k] /\ w.content # Empty
    BY <1>2, <1>7, <2>1, <2>2 DEF CallValidate, Decode
  <2>4. local[m][k] \in held[m][k] /\ local[m][k].ver < w.ver
    <3>1. local[m][k] = Encode(configs[m][k]) /\ Encode(configs[m][k]) \in held[m][k]
      BY DEF local, ShareInv, Recorded
    <3>2. Encode(configs[m][k]).ver = configs[m][k].ver
      BY DEF Encode
    <3>3. configs[m][k].ver \in Nat /\ w.ver \in Nat
      BY DEF TypeOK, Types, Config, Wire
    <3> QED  BY <2>1, <3>1, <3>2, <3>3
  <2>5. Sharing!Acceptable(m, k, w)
    BY <2>3, <2>4 DEF Sharing!Acceptable
  <2>6. Sharing!Announces(m, k, w)
    BY <2>1, <2>2 DEF Notify, Sharing!Announces
  <2> HIDE DEF d
  <2>7. Sharing!Holds(m, k, w)
    <3>1. PICK c \in Config : c = d
      BY <2>2
    <3>2. configs' = [configs EXCEPT ![m][k] = c]
      BY <2>1, <3>1
    <3>3. Sharing!Holds(m, k, Encode(c))
      BY <3>2, Replacing DEF ShareInv
    <3> QED  BY <2>2, <3>1, <3>3
  <2>8. Sharing!Receive(m, k, w)
    BY <1>1, <2>4, <2>5, <2>6, <2>7 DEF Sharing!Receive, Sharing!atCentre
  <2> QED  BY <2>3, <2>8 DEF Shares, Sharing!Next
<1>8. Shares
  BY <1>6, <1>7, WatcherData
<1> QED  BY <1>5, <1>8

LEMMA RefreshShares ==
  ASSUME TypeOK, TypeOK', ShareInv, Records,
         NEW m \in Managers, NEW r \in Apps, NEW k \in Keys, NEW c \in Inputs,
         RefreshConfig(m, r, k, c)
  PROVE  ShareInv' /\ Shares
<1>1. r \in Roles /\ c \in Config /\ UNCHANGED <<remote, watch, told, edited>>
  BY ManagerAssumption DEF RefreshConfig, Roles, centreVars, callbackVars
<1>2. ShareInv'
  <2>1. \A P, H : Fits(P, H, thr'[m][r])
    BY <1>1, OnlyMoves, NothingInHand DEF RefreshConfig
  <2>2. \A n \in Managers, s \in Roles : <<n, s>> # <<m, r>> => UNCHANGED <<thr[n][s], Key(n, s)>>
    BY <1>1, OnlyMoves DEF RefreshConfig
  <2> QED  BY <1>1, <2>1, <2>2, ShareKept
<1>3. Sharing!Holds(m, k, Encode(c))
  BY <1>1, Replacing DEF RefreshConfig, ShareInv
<1>4. Sharing!Give(m, k, Encode(c))
  BY <1>1, <1>3, Publishing DEF RefreshConfig, ShareInv, Sharing!Give, Sharing!atCentre
<1> QED  BY <1>2, <1>4 DEF Shares, Sharing!Next

LEMMA EditShares ==
  ASSUME TypeOK, TypeOK', ShareInv, Records, NEW k \in Keys, NEW w \in Edits, Edit(k, w)
  PROVE  ShareInv' /\ Shares
<1>1. w \in Wire /\ Stores(k, w) /\ UNCHANGED <<configs, thr, told, handed>>
  BY ManagerAssumption DEF Edit, callbackVars
<1>2. remote' = [remote EXCEPT ![k] = w] /\ published' = [published EXCEPT ![k] = @ \cup {w}]
  BY <1>1, Publishing DEF Stores, ShareInv
<1>3. \A n \in Managers, j \in Keys : \A v :
        Carries(watch'[n][j], v) => Carries(watch[n][j], v) \/ v \in published'[j]
  <2>1. w \in published'[k]
    BY <1>2 DEF ShareInv, HistoryTypes
  <2> QED  BY <1>1, <2>1, StoresCarries
<1>4. ShareInv'
  BY <1>1, <1>3, ShareKept DEF Key
<1>5. UNCHANGED <<local, held>>
  BY <1>1, Holding DEF ShareInv
<1>6. Sharing!Write(k, w)
  BY <1>1, <1>2, <1>5 DEF Edit, Sharing!Write, Sharing!Publishes, Sharing!atManager
<1> QED  BY <1>4, <1>6 DEF Shares, Sharing!Next

(***************************************************************************)
(* Every step, and the theorem                                             *)
(***************************************************************************)
LEMMA SharesNext == TypeOK /\ TypeOK' /\ QuietInv /\ ShareInv /\ [HNext]_hvars => ShareInv' /\ Shares
<1> SUFFICES ASSUME TypeOK, TypeOK', QuietInv, ShareInv, [HNext]_hvars PROVE ShareInv' /\ Shares
  OBVIOUS
<1>1. Records /\ [Next]_vars
  <2>1. CASE UNCHANGED hvars
    <3>1. local' = local
      BY <2>1 DEF hvars, vars, local, Encode
    <3>2. \A k \in Keys : published[k] = published[k] \cup ({remote[k]} \ {Nil})
      BY DEF ShareInv, Recorded
    <3>3. \A m \in Managers, k \in Keys : held[m][k] = held[m][k] \cup {local[m][k]}
      BY DEF ShareInv, Recorded, local
    <3>4. published = [k \in Keys |-> published[k]]
          /\ held = [m \in Managers |-> [k \in Keys |-> held[m][k]]]
      BY DEF ShareInv, HistoryTypes
    <3>5. UNCHANGED <<vars, remote, published, held>>
      BY <2>1 DEF hvars, vars, centreVars
    <3> QED  BY <3>1, <3>2, <3>3, <3>4, <3>5 DEF Records
  <2>2. CASE HNext
    BY <2>2 DEF HNext
  <2> QED  BY <2>1, <2>2
<1>2. ASSUME Untouched, \A m \in Managers, k \in Keys : \A v : Carries(watch'[m][k], v) => Carries(watch[m][k], v)
      PROVE  ShareInv' /\ Shares
  <2>1. Shares
    BY <1>1, <1>2, Stutters DEF Shares
  <2>2. CASE UNCHANGED thr
    BY <1>1, <1>2, <2>1, <2>2, ShareKept DEF Key
  <2>3. ASSUME NEW m \in Managers, NEW r \in Roles, Enter(m, r)  PROVE ShareInv' /\ Shares
    <3>1. \A P, H : Fits(P, H, thr'[m][r])
      BY <2>3, OnlyMoves, NothingInHand DEF Enter
    <3>2. \A n \in Managers, s \in Roles : <<n, s>> # <<m, r>> => UNCHANGED <<thr[n][s], Key(n, s)>>
      BY <2>3, OnlyMoves DEF Enter
    <3> QED  BY <1>1, <1>2, <2>1, <3>1, <3>2, ShareKept
  <2> QED  BY <1>1, <2>2, <2>3, InsideShares, Moves DEF QuietInv
<1>3. ASSUME NEW m \in Managers,
             \/ Application(m) \/ HealthPasses(m) \/ HealthFails(m) \/ HealthExpires(m)
             \/ LoopStep(m) \/ CloseReturns(m)
             \/ \E k \in Keys : WatchLoopResyncs(m, k)
      PROVE  ShareInv' /\ Shares
  <2>1. ASSUME NEW r \in Apps, NEW k \in Keys, NEW c \in Inputs, RefreshConfig(m, r, k, c)
        PROVE  ShareInv' /\ Shares
    BY <1>1, <2>1, RefreshShares
  <2>2. \A n \in Managers, k \in Keys : \A v : Carries(watch'[n][k], v) => Carries(watch[n][k], v)
    <3>1. CASE UNCHANGED watch
      BY <3>1
    <3>2. ASSUME NEW k \in Keys, WatchLoopOpens(m, k)
          PROVE  \A n \in Managers, j \in Keys : watch'[n][j].q = watch[n][j].q
      BY <3>2 DEF WatchLoopOpens, TypeOK, Types, WatchRec
    <3>3. UNCHANGED watch \/ \E k \in Keys : WatchLoopOpens(m, k)
      BY <1>3 DEF Application, Subscribe, SyncCall, RefreshConfig, Watch, CloseCancels, HealthPasses,
                  HealthFails, HealthExpires, LoopStep, HealthStops, WatchLoopStops, WatchLoopReturns,
                  CloseReturns, WatchLoopResyncs, centreVars
    <3> QED  BY <3>1, <3>2, <3>3 DEF Carries
  <2> QED  BY <1>2, <1>3, <2>1, <2>2, OutsideData
<1>4. CASE (\E x \in runs : RunCallback(x)) \/ UNCHANGED vars
  BY <1>2, <1>4 DEF RunCallback, vars, centreVars, callbackVars, historyVars, Untouched
<1> QED
  BY <1>1, <1>3, <1>4, WatchersShare, EditShares, InsideShares DEF Next, Inside

LEMMA SharesInit == HInit => ShareInv /\ Sharing!Init
<1> SUFFICES ASSUME HInit PROVE ShareInv /\ Sharing!Init
  OBVIOUS
<1> USE DEF HInit, Init, CentreInit, ManagerInit
<1>1. /\ configs \in [Managers -> [Keys -> Config]]
      /\ \A m \in Managers, k \in Keys : Encode(configs[m][k]) \in Wire
  BY ManagerAssumption, CodecTypes
<1>2. local \in [Managers -> [Keys -> Wire]]
      /\ \A m \in Managers, k \in Keys : local[m][k] = Encode(configs[m][k])
  BY <1>1 DEF local
<1>3. HistoryTypes /\ Recorded
  BY <1>2 DEF HistoryTypes, Recorded
<1>4. HandsFit
  BY DEF HandsFit, At, Idle
<1>5. WatchesFit
  BY DEF WatchesFit, Carries, WatchAt
<1>6. handed = held
  BY <1>2 DEF local
<1>7. Sharing!Init
  BY <1>2, <1>6 DEF Sharing!Init, Sharing!Value, Wire
<1> QED  BY <1>3, <1>4, <1>5, <1>7 DEF ShareInv

\* Whatever the interleaving of syncs, watches, uploads, edits and failures,
\* the managers and the centre only pass on what was supplied, one key and
\* one value at a time (ImplementsSharing).
THEOREM SharingImplemented == HSpec => ImplementsSharing
<1>1. HInit => Init
  BY DEF HInit
<1>2. [HNext]_hvars => [Next]_vars
  BY DEF HNext, hvars
<1>3. Shares => [Sharing!Next]_(Sharing!vars)
  BY DEF Shares
<1>4. HSpec => Spec
  BY <1>1, <1>2, PTL DEF HSpec, Spec
<1> QED
  BY <1>3, <1>4, QuietSpec, SharesInit, SharesNext, PTL DEF HSpec, ImplementsSharing, Sharing!Spec
=============================================================================
