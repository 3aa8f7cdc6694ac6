---------------------------- MODULE ConfigManager ----------------------------
(***************************************************************************)
(* dynaconfig.ConfigManager: the goroutines that read and write m.configs. *)
(* SyncConfig is called by the application (Apps, one role per goroutine   *)
(* that may be inside it: the callers of SyncConfig and the goroutines of  *)
(* ASyncConfig), by the health loop (Health) and by the watch loop of a    *)
(* key (the key itself names that role).  Its body is cut where another    *)
(* goroutine can come between: at every request to the centre, at m.mu,    *)
(* and between releasing m.mu and notifyCallbacks.                         *)
(***************************************************************************)
EXTENDS ConfigCentre

CONSTANTS
  KeyOrder,      \* KeyOrder[m]: m.keys, the order the map iteration gave
  Shipped,       \* Shipped[m][k]: the configurations given to NewConfigManager
  Inputs,        \* the configurations given to RefreshConfig
  Edits,         \* the values an operator writes straight into the centre
  Apps,          \* application goroutines that may run SyncConfig
  Health,        \* the health loop
  Subscribers,   \* callbacks that may be subscribed
  MaxCalls       \* bound: calls of SyncConfig and edits, over a behaviour

Loops == Keys \cup {Health}
Roles == Apps \cup Loops

ASSUME ManagerAssumption ==
  /\ KeyOrder \in [Managers -> Seq(Keys)]
  /\ \A m \in Managers : \A k \in Keys : \E i \in 1..Len(KeyOrder[m]) : KeyOrder[m][i] = k
  /\ Shipped \in [Managers -> [Keys -> Config]]
  /\ Inputs \subseteq Config
  /\ Edits \subseteq Wire
  /\ Health \notin Keys /\ Apps \cap (Keys \cup {Health}) = {}
  /\ MaxCalls \in Nat

VARIABLES
  configs,       \* configs[m][k]: m.configs
  thr,           \* thr[m][r]: where role r of m stands in SyncConfig
  loop,          \* loop[m][l]: the goroutines counted by m.wg
  life,          \* life[m]: "open", "cancelled" (m.ctx is done), "closed"
  health,        \* health[m]: m.healthCache holds a good status under 5s old
  subs,          \* subs[m]: m.callbacks
  runs,          \* callback goroutines that have not run yet
  seen,          \* seen[m][s][k]: the configuration callback s last ran with
  calls,         \* SyncConfig calls and edits so far (bounded by MaxCalls)
  handed,        \* history: handed[m][k], what the application gave m for k
  edited,        \* history: edited[k], what operators wrote under k
  told           \* history: told[m][k], what notifyCallbacks was called with

callbackVars == <<subs, runs, seen, told>>
historyVars  == <<handed, edited>>

Idle == [pc |-> "idle", at |-> 1, rem |-> Nil, loc |-> Nil]
Key(m, r) == KeyOrder[m][thr[m][r].at]
At(m, r, pc) == thr[m][r].pc = pc

\* Variant: the loop over the keys runs one too far.
ReachingTooFar(m, r, i) ==
  IF i <= Len(KeyOrder[m]) + 1 /\ (r \in Apps \/ life[m] = "open")
  THEN [pc |-> "get", at |-> i, rem |-> Nil, loc |-> Nil]
  ELSE Idle

\* SyncConfig reaches its i-th key, or returns.  The loops pass m.ctx, which
\* WithRetry tests before it issues the request.
Reaching(m, r, i) ==
  IF i <= Len(KeyOrder[m]) /\ (r \in Apps \/ life[m] = "open")
  THEN [pc |-> "get", at |-> i, rem |-> Nil, loc |-> Nil]
  ELSE Idle

Goto(m, r, t)  == thr' = [thr EXCEPT ![m][r] = t]
Continue(m, r) == Goto(m, r, Reaching(m, r, thr[m][r].at + 1))
Return(m, r)   == Goto(m, r, Idle)

\* notifyCallbacks starts one goroutine per callback.
Notify(m, k, c) ==
  /\ runs' = runs \cup {[mgr |-> m, sub |-> s, key |-> k, cfg |-> c] : s \in subs[m]}
  /\ told' = [told EXCEPT ![m][k] = @ \cup {Encode(c)}]
  /\ UNCHANGED <<subs, seen>>

(***************************************************************************)
(* The application                                                         *)
(***************************************************************************)
Subscribe(m, s) ==
  /\ life[m] = "open" /\ s \notin subs[m]
  /\ subs' = [subs EXCEPT ![m] = @ \cup {s}]
  /\ UNCHANGED <<centreVars, configs, thr, loop, life, health, runs, seen, calls,
                 historyVars, told>>

\* SyncConfig, or the goroutine ASyncConfig starts.
SyncCall(m, r) ==
  /\ r \in Apps /\ At(m, r, "idle") /\ life[m] = "open" /\ calls < MaxCalls
  /\ calls' = calls + 1
  /\ Goto(m, r, Reaching(m, r, 1))
  /\ UNCHANGED <<centreVars, configs, loop, life, health, callbackVars, historyVars>>

\* RefreshConfig replaces the entry whatever its version and syncs.
RefreshConfig(m, r, k, c) ==
  /\ r \in Apps /\ At(m, r, "idle") /\ life[m] = "open" /\ calls < MaxCalls
  /\ calls' = calls + 1
  /\ configs' = [configs EXCEPT ![m][k] = c]
  /\ handed' = [handed EXCEPT ![m][k] = @ \cup {Encode(c)}]
  /\ Goto(m, r, Reaching(m, r, 1))
  /\ UNCHANGED <<centreVars, loop, life, health, callbackVars, edited>>

\* An operator edits the centre by hand, with no lock.
Edit(k, w) ==
  /\ calls < MaxCalls /\ calls' = calls + 1
  /\ Stores(k, w)
  /\ edited' = [edited EXCEPT ![k] = @ \cup {w}]
  /\ UNCHANGED <<lock, configs, thr, loop, life, health, callbackVars, handed>>

\* A callback goroutine runs: in any order, and it may do so after Close.
RunCallback(x) ==
  /\ x \in runs
  /\ runs' = runs \ {x}
  /\ seen' = [seen EXCEPT ![x.mgr][x.sub][x.key] = x.cfg]
  /\ UNCHANGED <<centreVars, configs, thr, loop, life, health, subs, told, calls,
                 historyVars>>

(***************************************************************************)
(* SyncConfig                                                              *)
(***************************************************************************)
syncFrame == <<loop, life, health, calls, historyVars>>

\* provider.GetConfig returns what the centre stores.
SyncGet(m, r) ==
  /\ At(m, r, "get")
  /\ Goto(m, r, [thr[m][r] EXCEPT !.pc = "decide", !.rem = remote[Key(m, r)]])
  /\ UNCHANGED <<centreVars, configs, callbackVars, syncFrame>>

\* GetConfig fails (retries exhausted, context done): SyncConfig returns and
\* the keys after this one are not synced.
SyncGetFails(m, r) ==
  /\ At(m, r, "get")
  /\ Return(m, r)
  /\ UNCHANGED <<centreVars, configs, callbackVars, syncFrame>>

\* The snapshot of m.configs[key], its validation and the comparison of the
\* versions.  Nothing reads the entry again before the write or the upload.
Seed(m, r) ==
  LET k == Key(m, r)
      c == configs[m][k]
      s == [c EXCEPT !.ver = IF @ <= 0 THEN 1 ELSE @]
      v == CallValidate(c)
  IN  /\ At(m, r, "decide") /\ thr[m][r].rem = Nil
      /\ \/ v = "skip" /\ Continue(m, r) /\ UNCHANGED configs
         \/ v = "err" /\ Return(m, r) /\ UNCHANGED configs
         \/ /\ v = "ok"
            /\ configs' = [configs EXCEPT ![m][k] = s]
            /\ Goto(m, r, [thr[m][r] EXCEPT !.pc = "lock", !.loc = Encode(s)])
      /\ UNCHANGED <<centreVars, callbackVars, syncFrame>>

\* Variant: whatever differs is adopted.
CompareForDifference(m, r) ==
  LET c == configs[m][Key(m, r)]
      w == thr[m][r].rem
  IN  /\ At(m, r, "decide") /\ w # Nil
      /\ IF CallValidate(Decode(w)) = "ok" /\ w # Encode(c)
         THEN Goto(m, r, [thr[m][r] EXCEPT !.pc = "adopt"])
         ELSE Continue(m, r)
      /\ UNCHANGED <<centreVars, configs, callbackVars, syncFrame>>

Compare(m, r) ==
  LET k == Key(m, r)
      c == configs[m][k]
      w == thr[m][r].rem
      v == CallValidate(Decode(w))
  IN  /\ At(m, r, "decide") /\ w # Nil
      /\ \/ v = "skip" /\ Continue(m, r)
         \/ v = "err" /\ Return(m, r)
         \/ /\ v = "ok" /\ w.ver > c.ver
            /\ Goto(m, r, [thr[m][r] EXCEPT !.pc = "adopt"])
         \/ /\ v = "ok" /\ w.ver < c.ver
            /\ Goto(m, r, [thr[m][r] EXCEPT !.pc = "lock", !.loc = Encode(c)])
         \/ v = "ok" /\ w.ver = c.ver /\ Continue(m, r)
      /\ UNCHANGED <<centreVars, configs, callbackVars, syncFrame>>

\* m.configs[key] = remote, under m.mu; the callbacks are told afterwards.
Adopt(m, r) ==
  /\ At(m, r, "adopt")
  /\ configs' = [configs EXCEPT ![m][Key(m, r)] = Decode(thr[m][r].rem)]
  /\ Goto(m, r, [thr[m][r] EXCEPT !.pc = "notify"])
  /\ UNCHANGED <<centreVars, callbackVars, syncFrame>>

SyncNotify(m, r) ==
  /\ At(m, r, "notify")
  /\ Notify(m, Key(m, r), Decode(thr[m][r].rem))
  /\ Continue(m, r)
  /\ UNCHANGED <<centreVars, configs, syncFrame>>

\* PutConfig takes the distributed lock of the key; Nacos has none.
PutLock(m, r) ==
  LET k == Key(m, r)
  IN  /\ At(m, r, "lock")
      /\ IF Provider = "nacos" THEN UNCHANGED lock
         ELSE lock[k] = Nil /\ lock' = [lock EXCEPT ![k] = <<m, r>>]
      /\ Goto(m, r, [thr[m][r] EXCEPT !.pc = "put"])
      /\ UNCHANGED <<remote, watch, configs, callbackVars, syncFrame>>

Unlock(m, r) ==
  lock' = [lock EXCEPT ![Key(m, r)] = IF @ = <<m, r>> THEN Nil ELSE @]

\* PutConfig stores the value encoded when it was called, unlocks and
\* returns; when the reply is lost it returns the error of the retries.
PutStore(m, r) ==
  /\ At(m, r, "put")
  /\ Stores(Key(m, r), thr[m][r].loc)
  /\ Unlock(m, r)
  /\ Continue(m, r) \/ Return(m, r)
  /\ UNCHANGED <<configs, callbackVars, syncFrame>>

\* Variant: the error path returns without the deferred unlock.
PutFailsLocked(m, r) ==
  /\ At(m, r, "lock") \/ At(m, r, "put")
  /\ Return(m, r)
  /\ UNCHANGED <<centreVars, configs, callbackVars, syncFrame>>

\* PutConfig fails before the value is stored.
PutFails(m, r) ==
  /\ At(m, r, "lock") \/ At(m, r, "put")
  /\ Unlock(m, r)
  /\ Return(m, r)
  /\ UNCHANGED <<remote, watch, configs, callbackVars, syncFrame>>

\* What a goroutine inside SyncConfig does when no request fails.
SyncStep(m, r) ==
  \/ SyncGet(m, r) \/ Seed(m, r) \/ Compare(m, r) \/ Adopt(m, r)
  \/ SyncNotify(m, r) \/ PutLock(m, r) \/ PutStore(m, r)

SyncFails(m, r) == SyncGetFails(m, r) \/ PutFails(m, r)

(***************************************************************************)
(* The health loop                                                         *)
(***************************************************************************)
\* A tick with no fresh good result in the cache checks the centre; a bad
\* result is cached too, but everywhere it counts as none.  The select may
\* take the tick even when m.ctx is done; the check then fails.
HealthPasses(m) ==
  /\ loop[m][Health] = "run" /\ At(m, Health, "idle")
  /\ life[m] = "open" /\ ~health[m]
  /\ health' = [health EXCEPT ![m] = TRUE]
  /\ UNCHANGED <<centreVars, configs, thr, loop, life, callbackVars, calls, historyVars>>

HealthFails(m) ==
  /\ loop[m][Health] = "run" /\ At(m, Health, "idle")
  /\ ~health[m] /\ calls < MaxCalls
  /\ calls' = calls + 1
  /\ Goto(m, Health, Reaching(m, Health, 1))
  /\ UNCHANGED <<centreVars, configs, loop, life, health, callbackVars, historyVars>>

\* The cached status passes its age of 5 seconds.
HealthExpires(m) ==
  /\ health[m]
  /\ health' = [health EXCEPT ![m] = FALSE]
  /\ UNCHANGED <<centreVars, configs, thr, loop, life, callbackVars, calls, historyVars>>

HealthStops(m) ==
  /\ loop[m][Health] = "run" /\ At(m, Health, "idle") /\ life[m] # "open"
  /\ loop' = [loop EXCEPT ![m][Health] = "done"]
  /\ UNCHANGED <<centreVars, configs, thr, life, health, callbackVars, calls, historyVars>>

(***************************************************************************)
(* The watch loops and Close                                               *)
(***************************************************************************)
\* Watch starts one goroutine per key; it is called at most once.
Watch(m) ==
  /\ life[m] = "open" /\ \A k \in Keys : loop[m][k] = "off"
  /\ loop' = [loop EXCEPT ![m] = [l \in Loops |-> IF l \in Keys THEN "run" ELSE @[l]]]
  /\ UNCHANGED <<centreVars, configs, thr, life, health, callbackVars, calls, historyVars>>

\* The watch loop of k finds m.ctx done and returns.
WatchLoopStops(m, k) ==
  /\ loop[m][k] = "run" /\ life[m] # "open"
  /\ loop' = [loop EXCEPT ![m][k] = "done"]
  /\ UNCHANGED <<centreVars, configs, thr, life, health, callbackVars, calls, historyVars>>

\* provider.WatchConfig succeeds: a goroutine or a listener now serves the
\* key and the watch loop returns.
WatchLoopOpens(m, k) ==
  LET st == IF Provider \in {"consul", "zookeeper"} THEN "top" ELSE "on"
  IN  /\ loop[m][k] = "run" /\ life[m] # "closed"
      /\ loop' = [loop EXCEPT ![m][k] = "done"]
      /\ watch' = [watch EXCEPT ![m][k] =
                     [@ EXCEPT !.st = st, !.ev = (Provider = "nacos" /\ remote[k] # Nil)]]
      /\ UNCHANGED <<remote, lock, configs, thr, life, health, callbackVars, calls, historyVars>>

\* provider.WatchConfig fails, which only the Nacos provider can, and the
\* cached health is fresh and good: the loop resyncs once and returns.  With
\* any other cached status it tries again (a stutter).
WatchLoopResyncs(m, k) ==
  /\ Provider = "nacos" /\ loop[m][k] = "run" /\ health[m]
  /\ loop' = [loop EXCEPT ![m][k] = "resync"]
  /\ Goto(m, k, Reaching(m, k, 1))
  /\ UNCHANGED <<centreVars, configs, life, health, callbackVars, calls, historyVars>>

WatchLoopReturns(m, k) ==
  /\ loop[m][k] = "resync" /\ At(m, k, "idle")
  /\ loop' = [loop EXCEPT ![m][k] = "done"]
  /\ UNCHANGED <<centreVars, configs, thr, life, health, callbackVars, calls, historyVars>>

\* Close cancels m.ctx, waits for m.wg and closes the provider's pool.
CloseCancels(m) ==
  /\ life[m] = "open"
  /\ life' = [life EXCEPT ![m] = "cancelled"]
  /\ UNCHANGED <<centreVars, configs, thr, loop, health, callbackVars, calls, historyVars>>

\* Variant: Close does not wait for the health loop.
CloseReturnsEarly(m) ==
  /\ life[m] = "cancelled" /\ \A k \in Keys : loop[m][k] \in {"off", "done"}
  /\ life' = [life EXCEPT ![m] = "closed"]
  /\ UNCHANGED <<centreVars, configs, thr, loop, health, callbackVars, calls, historyVars>>

CloseReturns(m) ==
  /\ life[m] = "cancelled" /\ \A l \in Loops : loop[m][l] \in {"off", "done"}
  /\ life' = [life EXCEPT ![m] = "closed"]
  /\ UNCHANGED <<centreVars, configs, thr, loop, health, callbackVars, calls, historyVars>>

(***************************************************************************)
(* NewConfigManager starts the health loop; everything else is off.        *)
(***************************************************************************)
ManagerInit ==
  /\ configs = Shipped
  /\ thr = [m \in Managers |-> [r \in Roles |-> Idle]]
  /\ loop = [m \in Managers |-> [l \in Loops |-> IF l = Health THEN "run" ELSE "off"]]
  /\ life = [m \in Managers |-> "open"]
  /\ health = [m \in Managers |-> FALSE]
  /\ subs = [m \in Managers |-> {}]
  /\ runs = {}
  /\ seen = [m \in Managers |-> [s \in Subscribers |-> [k \in Keys |-> Nil]]]
  /\ calls = 0
  /\ handed = [m \in Managers |-> [k \in Keys |-> {Encode(Shipped[m][k])}]]
  /\ edited = [k \in Keys |-> {}]
  /\ told = [m \in Managers |-> [k \in Keys |-> {}]]
=============================================================================
