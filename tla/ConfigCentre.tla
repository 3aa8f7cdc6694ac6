---------------------------- MODULE ConfigCentre ----------------------------
(***************************************************************************)
(* The configuration centre (etcd, Consul, ZooKeeper or Nacos) as the four *)
(* providers of dynaconfig/provider use it: one value and one lock per     *)
(* key, and what a write does to the watches that managers have opened.    *)
(*                                                                         *)
(* A configuration in memory is a record [ver, content, cb]: cb names the  *)
(* ValidateCallback the application attached.  On the wire the callback is *)
(* gone (it is tagged json:"-"), so a decoded configuration always has     *)
(* cb = NoCallback and is validated by the built-in emptiness test only.   *)
(***************************************************************************)
EXTENDS Naturals, Sequences, FiniteSets

CONSTANTS
  Managers,      \* the processes that run a ConfigManager
  Keys,          \* the configuration keys
  Contents,      \* the values of Config.Content
  Empty,         \* the content helper.IsOnlyEmpty accepts
  Callbacks,     \* the ValidateCallbacks the applications supply
  NoCallback,    \* a nil ValidateCallback
  Verdict,       \* [Callbacks -> [Contents -> {"ok", "skip", "err"}]]
  Provider,      \* the kind of centre
  Nil            \* no configuration

ASSUME CentreAssumption ==
  /\ Empty \in Contents
  /\ NoCallback \notin Callbacks
  /\ Verdict \in [Callbacks -> [Contents -> {"ok", "skip", "err"}]]
  /\ Provider \in {"etcd", "consul", "zookeeper", "nacos"}
  /\ Nil \notin [ver: Nat, content: Contents]
  /\ Nil \notin [ver: Nat, content: Contents, cb: Callbacks \cup {NoCallback}]

Wire   == [ver: Nat, content: Contents]
Config == [ver: Nat, content: Contents, cb: Callbacks \cup {NoCallback}]

\* json.Marshal drops the callback; json.Unmarshal leaves it nil.
Encode(c) == [ver |-> c.ver, content |-> c.content]
Decode(w) == [ver |-> w.ver, content |-> w.content, cb |-> NoCallback]

\* CallValidate's pair (skip, err): "ok" is err = nil, "skip" is (true, err)
\* and "err" is (false, err).
CallValidate(c) ==
  IF c.cb # NoCallback THEN Verdict[c.cb][c.content]
  ELSE IF c.content = Empty THEN "err" ELSE "ok"

VARIABLES
  remote,        \* remote[k]: the value the centre stores, or Nil
  lock,          \* lock[k]: the writer <<m, r>> holding key + "_lock", or Nil
  watch          \* watch[m][k]: the watch goroutine or listener of m on k

centreVars == <<remote, lock, watch>>

(***************************************************************************)
(* A watch is a record: st is where its goroutine stands, ev says that a   *)
(* one-shot ZooKeeper event is waiting, and q holds the values delivered   *)
(* (etcd) or read (Consul, ZooKeeper) that the callback has not had yet.   *)
(*   none    WatchConfig has not been called                               *)
(*   top     Consul, ZooKeeper: the top of the polling loop                *)
(*   fetch   past the ctx.Done() test, before the read                     *)
(*   read    a value is in hand, the callback not yet called               *)
(*   wait    ZooKeeper: in the select on eventChan and ctx.Done()          *)
(*   reread  ZooKeeper: as "read", for the Get that follows an event       *)
(*   on      etcd: in the select; Nacos: the listener is registered        *)
(*   dead    the goroutine has returned                                    *)
(***************************************************************************)
WatchState == {"none", "top", "fetch", "read", "wait", "reread", "on", "dead"}
WatchAt(st, q) == [st |-> st, ev |-> FALSE, q |-> q]

\* What writing w under a key does to a watch on it.  etcd queues an event
\* per write; ZooKeeper sets off the armed one-shot watch; Nacos marks the
\* listener and later pushes the value current at that time; Consul keeps no
\* watch, its poll reads.
Notified(x, w) ==
  CASE Provider = "etcd" /\ x.st = "on" -> [x EXCEPT !.q = Append(@, w)]
    [] Provider = "zookeeper" /\ x.st \in {"read", "wait"} -> [x EXCEPT !.ev = TRUE]
    [] Provider = "nacos" /\ x.st = "on" -> [x EXCEPT !.ev = TRUE]
    [] OTHER -> x

\* The centre stores w under k and tells the watches: the Put of PutConfig.
Stores(k, w) ==
  /\ remote' = [remote EXCEPT ![k] = w]
  /\ watch' = [m \in Managers |-> [watch[m] EXCEPT ![k] = Notified(@, w)]]

CentreInit ==
  /\ remote = [k \in Keys |-> Nil]
  /\ lock = [k \in Keys |-> Nil]
  /\ watch = [m \in Managers |-> [k \in Keys |-> WatchAt("none", <<>>)]]
=============================================================================
