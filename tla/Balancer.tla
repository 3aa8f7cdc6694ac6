------------------------------- MODULE Balancer -------------------------------
(***************************************************************************)
(* DiscoveryWithLB.Select and the balancers behind it.  A Select takes the *)
(* healthy part of the cached list of its service and then asks the one    *)
(* balancer, which all services and goroutines share: a random choice, a   *)
(* turn by an atomic counter, or a ring of hashes that is built again only *)
(* when the number of instances is not the one it was built for.           *)
(*                                                                         *)
(* The list and the marks of its instances belong to DiscoveryLB and       *)
(* change here at any time.  Hashes are a small ring of numbers: Point     *)
(* places each host's points on it and KeyHash the keys.                   *)
(***************************************************************************)
EXTENDS Integers, Sequences, Functions, FiniteSetsExt, TLC

CONSTANTS
  Threads,       \* goroutines that call Select
  Services, Instances, Keys,
  InstancesOf,   \* [Services -> SUBSET Instances]
  Host,          \* the host of each instance
  Point,         \* [hosts -> sequence of Points hashes]
  KeyHash,       \* [Keys -> hash]
  Points,        \* points of a host on the ring (10 in the code)
  Hashes,        \* number of hashes (2^32)
  Wrap,          \* where the counter wraps (2^64)
  Kinds,         \* the balancers to consider
  MaxCalls,      \* bound: Selects of a thread, for each kind
  MaxChanges,    \* bound: changes of lists and marks, for each kind
  None

ASSUME BalancerAssumption ==
  /\ Kinds \subseteq {"random", "round_robin", "consistent_hash"}
  /\ Points \in Nat \ {0} /\ Hashes \in Nat \ {0} /\ Wrap \in Nat \ {0}
  /\ MaxCalls \in [Kinds -> Nat] /\ MaxChanges \in [Kinds -> Nat]
  /\ \A k \in Keys : KeyHash[k] \in 0..Hashes - 1
  /\ \A i \in Instances : Point[Host[i]] \in [1..Points -> 0..Hashes - 1]
  /\ \A s \in Services : InstancesOf[s] \subseteq Instances
  /\ None \notin Services \cup Keys \cup Instances

VARIABLES
  kind,          \* the balancer of this DiscoveryWithLB
  counter,       \* RoundRobinBalancer.counter
  ring, nodes,   \* ConsistentHashBalancer.hashRing, nodes
  lists,         \* the cached list of each service
  fit,           \* the instances marked healthy and checked within MinHealthyTime
  calls,         \* calls[t]: what t has given to Select, and its calls so far
  last,          \* the last Select: what it was given, and what it chose
  built,         \* the list the ring was built from
  turns,         \* turns[s]: the last list given for s, and the choices from it
  changes        \* changes of lists and marks so far (bounded by MaxChanges)

backend == <<lists, fit, changes>>
vars    == <<kind, counter, ring, nodes, backend, calls, last, built, turns>>

\* The lists a backend may return for a service.
Lists(s) ==
  {l \in UNION {[1..n -> InstancesOf[s]] : n \in 0..Cardinality(InstancesOf[s])} :
     IsInjective(l)}

(***************************************************************************)
(* The ring: the points of the instances one after the other, exchanged    *)
(* into order; a hash belongs to the last instance that has it.            *)
(***************************************************************************)
\* Variant: the place of the instance in the list is hashed as well.
PointsAtPlace(l, n) == [p \in 1..Points |-> (Point[Host[l[n]]][p] + n) % Hashes]

PointsOf(l, n) == Point[Host[l[n]]]

RingOf(l) ==
  LET ringTo[n \in 0..Len(l)] == IF n = 0 THEN <<>> ELSE ringTo[n - 1] \o PointsOf(l, n)
  IN  ringTo[Len(l)]

NodesOf(l) ==
  [h \in Range(RingOf(l)) |->
     l[Max({n \in DOMAIN l : h \in Range(PointsOf(l, n))})]]

\* The two loops: place i is compared with every later place j.
Exchanged(q, i, j) ==
  IF i < j /\ q[i] > q[j] THEN [q EXCEPT ![i] = q[j], ![j] = q[i]] ELSE q

\* Variant: the inner loop stops one place early.
SweptButLast(r, i) ==
  LET q[j \in 0..Len(r)] == IF j = 0 THEN r ELSE Exchanged(q[j - 1], i, j)
  IN  q[Len(r) - 1]

Swept(r, i) ==
  LET q[j \in 0..Len(r)] == IF j = 0 THEN r ELSE Exchanged(q[j - 1], i, j)
  IN  q[Len(r)]

Sorted(r) ==
  LET q[i \in 0..Len(r)] == IF i = 0 THEN r ELSE Swept(q[i - 1], i)
  IN  q[Len(r)]

\* The first hash of the ring that is not below h, or the first of all.
Lookup(r, h) ==
  IF \E n \in DOMAIN r : r[n] >= h
  THEN r[Min({n \in DOMAIN r : r[n] >= h})]
  ELSE r[1]

(***************************************************************************)
(* Select: GetInstances and filterHealthyInstances, an error when nothing  *)
(* is left; then the balancer.  Only the ring looks at the key.            *)
(***************************************************************************)
\* The instances of the list that are fit, in its order.
Healthy(l) ==
  LET fitTo[n \in 0..Len(l)] ==
        IF n = 0 THEN <<>>
        ELSE IF l[n] \in fit THEN Append(fitTo[n - 1], l[n]) ELSE fitTo[n - 1]
  IN  fitTo[Len(l)]

GetsList(t, s, k) ==
  /\ calls[t].list = <<>> /\ calls[t].made < MaxCalls[kind]
  /\ calls' = [calls EXCEPT ![t] =
       [svc |-> s, key |-> IF kind = "consistent_hash" THEN k ELSE None,
        list |-> Healthy(lists[s]),
        made |-> @.made + 1]]
  /\ UNCHANGED <<kind, counter, ring, nodes, backend, last, built, turns>>

\* The Select of t chooses i.
Chooses(t, i) ==
  LET c == calls[t]
  IN  /\ calls' = [calls EXCEPT ![t] = [svc |-> None, key |-> None, list |-> <<>>,
                                        made |-> @.made]]
      /\ last' = [svc |-> c.svc, key |-> c.key, list |-> c.list, inst |-> i]
      /\ UNCHANGED backend

\* A choice is counted from the first one that its list was given for.
Counts(c, i) ==
  LET b == IF turns[c.svc].list = c.list THEN turns[c.svc].count ELSE [j \in Instances |-> 0]
  IN  turns' = [turns EXCEPT ![c.svc] = [list |-> c.list, count |-> [b EXCEPT ![i] = @ + 1]]]

RandomSelect(t) ==
  /\ kind = "random" /\ calls[t].list # <<>>
  /\ \E i \in Range(calls[t].list) : Chooses(t, i)
  /\ UNCHANGED <<kind, counter, ring, nodes, built, turns>>

\* Variant: the counter is read and not advanced.
RoundRobinStays(t) ==
  LET l == calls[t].list
  IN  /\ kind = "round_robin" /\ l # <<>>
      /\ Chooses(t, l[1 + ((counter + 1) % Len(l))])
      /\ Counts(calls[t], l[1 + ((counter + 1) % Len(l))])
      /\ UNCHANGED <<kind, counter, ring, nodes, built>>

RoundRobinSelect(t) ==
  LET l == calls[t].list
  IN  /\ kind = "round_robin" /\ l # <<>>
      /\ counter' = (counter + 1) % Wrap
      /\ Chooses(t, l[1 + (counter' % Len(l))])
      /\ Counts(calls[t], l[1 + (counter' % Len(l))])
      /\ UNCHANGED <<kind, ring, nodes, built>>

\* Variant: the ring is cleared, and the map of its nodes is not.
BuildsOn(l) ==
  /\ ring' = Sorted(RingOf(l)) /\ built' = l
  /\ nodes' = NodesOf(l) @@ nodes

Builds(l) ==
  /\ ring' = Sorted(RingOf(l)) /\ built' = l
  /\ nodes' = NodesOf(l)

HashSelect(t) ==
  LET l == calls[t].list
  IN  /\ kind = "consistent_hash" /\ l # <<>>
      /\ IF Len(ring) # Len(l) * Points THEN Builds(l) ELSE UNCHANGED <<ring, nodes, built>>
      /\ Chooses(t, nodes'[Lookup(ring', KeyHash[calls[t].key])])
      /\ UNCHANGED <<kind, counter, turns>>

(***************************************************************************)
(* The list of a service and the marks of its instances change.            *)
(***************************************************************************)
ListChanges(s) ==
  /\ changes < MaxChanges[kind] /\ changes' = changes + 1
  /\ \E l \in Lists(s) : lists' = [lists EXCEPT ![s] = l]
  /\ UNCHANGED <<kind, counter, ring, nodes, fit, calls, last, built, turns>>

MarkChanges(i) ==
  /\ changes < MaxChanges[kind] /\ changes' = changes + 1
  /\ fit' = IF i \in fit THEN fit \ {i} ELSE fit \cup {i}
  /\ UNCHANGED <<kind, counter, ring, nodes, lists, calls, last, built, turns>>

Init ==
  /\ kind \in Kinds /\ counter = 0 /\ ring = <<>> /\ nodes = <<>>
  /\ lists \in [Services -> UNION {Lists(s) : s \in Services}]
  /\ \A s \in Services : lists[s] \in Lists(s)
  /\ fit = Instances /\ changes = 0
  /\ calls = [t \in Threads |-> [svc |-> None, key |-> None, list |-> <<>>, made |-> 0]]
  /\ last = [svc |-> None, key |-> None, list |-> <<>>, inst |-> None]
  /\ built = <<>>
  /\ turns = [s \in Services |-> [list |-> <<>>, count |-> [i \in Instances |-> 0]]]

Next ==
  \/ \E t \in Threads, s \in Services, k \in Keys : GetsList(t, s, k)
  \/ \E t \in Threads : RandomSelect(t) \/ RoundRobinSelect(t) \/ HashSelect(t)
  \/ \E s \in Services : ListChanges(s)
  \/ \E i \in Instances : MarkChanges(i)

Spec == Init /\ [][Next]_vars

(***************************************************************************)
(* Properties                                                              *)
(***************************************************************************)
Call == [svc: Services \cup {None}, key: Keys \cup {None}, list: Seq(Instances),
         made: 0..MaxCalls[kind]]

\* Types; the ring and the map of its nodes hold the same hashes.
TypeOK ==
  /\ kind \in Kinds /\ counter \in 0..Wrap - 1 /\ changes \in 0..MaxChanges[kind]
  /\ ring \in Seq(0..Hashes - 1) /\ nodes \in [Range(ring) -> Instances]
  /\ lists \in [Services -> Seq(Instances)] /\ fit \subseteq Instances
  /\ calls \in [Threads -> Call] /\ built \in Seq(Instances)

\* The reference: going up from the key's hash and round the ring, the first
\* host met.
Distance(h, p) == (p - h) % Hashes
Distances(l, k) == {Distance(KeyHash[k], p) : p \in UNION {Range(Point[Host[i]]) : i \in Range(l)}}
OwnerHosts(l, k) ==
  {Host[i] : i \in {j \in Range(l) : \E p \in Range(Point[Host[j]]) :
     Distance(KeyHash[k], p) = Min(Distances(l, k))}}

\* A Select by consistent hash chooses the instance that the reference
\* names for the list the ring was built from, whatever has been built and
\* selected in between.
OwnerSelected ==
  [][last' # last /\ kind = "consistent_hash"
       => Host[last'.inst] \in OwnerHosts(built', last'.key)]_vars

\* "Consistent-Hash": when the ring is built again a key moves only to a
\* host that has joined or from one that has left.
MovesOnlyWhenNeeded ==
  [][\A k \in Keys : built # <<>> /\ built' # built =>
       LET hosts(l) == {Host[i] : i \in Range(l)}
           owner(r, n) == Host[n[Lookup(r, KeyHash[k])]]
       IN  \/ owner(ring', nodes') = owner(ring, nodes)
           \/ owner(ring', nodes') \notin hosts(built)
           \/ owner(ring, nodes) \notin hosts(built')]_vars

\* "Round-Robin": while the same list is given for a service, none of its
\* instances is chosen twice more than another (across a wrap of the counter
\* too, if the length of the list divides Wrap).
TakesTurns ==
  kind = "round_robin" => \A s \in Services : \A i, j \in Range(turns[s].list) :
    turns[s].count[i] <= turns[s].count[j] + 1

(***************************************************************************)
(* What the documentation says and the code does not do: the instance that *)
(* Select returns is one of those it was given.                            *)
(***************************************************************************)
SelectsGiven == last.svc # None => last.inst \in Range(last.list)
=============================================================================
