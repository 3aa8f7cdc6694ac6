------------------------------ MODULE ClientPool ------------------------------
(***************************************************************************)
(* foundation/clientpool: a buffered channel of clients.  Goroutines walk  *)
(* the paths of PoolPaths, each get takes the first client of the channel  *)
(* and waits where there is none, each put sends it back.  A call inside   *)
(* another takes one more client while the outer call keeps its own.       *)
(*                                                                         *)
(* Clients are numbered in the order New creates them.                     *)
(***************************************************************************)
EXTENDS PoolPaths, Integers, FiniteSets, FiniteSetsExt

CONSTANTS
  PoolSize,      \* poolSize
  Users,         \* goroutines that use the pool
  Works,         \* programs: the operations each user performs, in any order
  Depth          \* Depth[u]: bound on the calls of u that are nested, paths
                 \* that nest more are not taken

ASSUME PoolAssumption ==
  /\ PoolSize \in Nat \ {0}
  /\ IsFiniteSet(Users) /\ Depth \in [Users -> Nat \ {0}]
  /\ Works \subseteq [Users -> SUBSET Names]

Clients == 1..PoolSize
NoClient == 0

Frames(u) == 1..Depth[u]
Steps(u)  == [do: {"get", "use", "put"}, on: Frames(u)]

VARIABLES
  clients,       \* p.clients, the buffered channel
  work,          \* the program of this pool
  todo,          \* todo[u]: what is left of u's path
  cli,           \* cli[u][k]: the variable cli, or conn, of u's frame k
  out,           \* out[u]: u's frames that have taken a client and not put it back
  shut,          \* clients closed, or dropped where Close only drops them
  closer         \* the caller of Close, [pc, kept]
vars == <<clients, work, todo, cli, out, shut, closer>>

Closing == closer.pc # "off"

(***************************************************************************)
(* Users                                                                   *)
(***************************************************************************)
IsNext(u, do) == todo[u] # <<>> /\ Head(todo[u]).do = do
Frame(u)      == Head(todo[u]).on
Moves(u)      == todo' = [todo EXCEPT ![u] = Tail(todo[u])]

\* The variables of an operation, at its beginning and when it has ended.
NoClients(u) == [k \in Frames(u) |-> NoClient]
LeavesScope(u) == cli' = IF Tail(todo[u]) = <<>> THEN [cli EXCEPT ![u] = NoClients(u)] ELSE cli

Begin(u) ==
  /\ todo[u] = <<>>
  /\ \E op \in work[u] : \E path \in Paths[op] :
       path \in Seq(Steps(u)) /\ todo' = [todo EXCEPT ![u] = path]
  /\ UNCHANGED <<clients, work, cli, out, shut, closer>>

\* Variant: a Get that does not wait returns the zero client.
GetNoWait(u) ==
  /\ IsNext(u, "get") /\ Moves(u)
  /\ cli' = [cli EXCEPT ![u][Frame(u)] = IF clients = <<>> THEN NoClient ELSE Head(clients)]
  /\ clients' = IF clients = <<>> THEN <<>> ELSE Tail(clients)
  /\ out' = [out EXCEPT ![u] = @ \union {Frame(u)}]
  /\ UNCHANGED <<work, shut, closer>>

Get(u) ==
  /\ IsNext(u, "get") /\ clients # <<>>
  /\ cli' = [cli EXCEPT ![u][Frame(u)] = Head(clients)]
  /\ clients' = Tail(clients)
  /\ out' = [out EXCEPT ![u] = @ \union {Frame(u)}]
  /\ Moves(u)
  /\ UNCHANGED <<work, shut, closer>>

Use(u) ==
  /\ IsNext(u, "use") /\ Moves(u) /\ LeavesScope(u)
  /\ UNCHANGED <<clients, work, out, shut, closer>>

\* A client for which the channel has no room is closed.
Put(u) ==
  LET c == cli[u][Frame(u)]
  IN  /\ IsNext(u, "put") /\ Moves(u) /\ LeavesScope(u)
      /\ IF Len(clients) < PoolSize
           THEN clients' = Append(clients, c) /\ UNCHANGED shut
           ELSE shut' = shut \union {c} /\ UNCHANGED clients
      /\ out' = [out EXCEPT ![u] = @ \ {Frame(u)}]
      /\ UNCHANGED <<work, closer>>

(***************************************************************************)
(* Close.  EtcdDiscovery.Close first takes a client and keeps it; the      *)
(* others start to drain the channel at once.  The length is tested and    *)
(* then a client is received, which waits if another goroutine was faster. *)
(***************************************************************************)
CloseBegins ==
  /\ ~Closing
  /\ \E pc \in {"keep", "test"} : closer' = [closer EXCEPT !.pc = pc]
  /\ UNCHANGED <<clients, work, todo, cli, out, shut>>

CloseKeeps ==
  /\ closer.pc = "keep" /\ clients # <<>>
  /\ closer' = [pc |-> "test", kept |-> {Head(clients)}]
  /\ clients' = Tail(clients)
  /\ UNCHANGED <<work, todo, cli, out, shut>>

CloseTests ==
  /\ closer.pc = "test"
  /\ closer' = [closer EXCEPT !.pc = IF clients # <<>> THEN "take" ELSE "done"]
  /\ UNCHANGED <<clients, work, todo, cli, out, shut>>

CloseTakes ==
  /\ closer.pc = "take" /\ clients # <<>>
  /\ shut' = shut \union {Head(clients)}
  /\ clients' = Tail(clients)
  /\ closer' = [closer EXCEPT !.pc = "test"]
  /\ UNCHANGED <<work, todo, cli, out>>

Init ==
  /\ clients = [i \in Clients |-> i]
  /\ work \in Works /\ todo = [u \in Users |-> <<>>]
  /\ cli = [u \in Users |-> NoClients(u)]
  /\ out = [u \in Users |-> {}]
  /\ shut = {} /\ closer = [pc |-> "off", kept |-> {}]

Next ==
  \/ \E u \in Users : Begin(u) \/ Get(u) \/ Use(u) \/ Put(u)
  \/ CloseBegins \/ CloseKeeps \/ CloseTests \/ CloseTakes

Spec == Init /\ [][Next]_vars

\* Requests end; receivers blocked on a channel are served in their order.
FairSpec == Spec /\ \A u \in Users : WF_vars(Use(u) \/ Put(u)) /\ SF_vars(Get(u))

(***************************************************************************)
(* Properties                                                              *)
(***************************************************************************)
\* Types; a call that has taken a client has one that New created.
TypeOK ==
  /\ clients \in Seq(Clients) /\ Len(clients) <= PoolSize
  /\ work \in Works
  /\ DOMAIN todo = Users /\ DOMAIN cli = Users /\ DOMAIN out = Users
  /\ \A u \in Users : /\ todo[u] \in Seq(Steps(u)) /\ out[u] \subseteq Frames(u)
                      /\ cli[u] \in [Frames(u) -> Clients \union {NoClient}]
                      /\ todo[u] # <<>> => \A k \in out[u] : cli[u][k] \in Clients
  /\ shut \subseteq Clients
  /\ closer \in [pc: {"off", "keep", "test", "take", "done"}, kept: SUBSET Clients]

\* A client that a call has taken and not put back is in one place only: no
\* other call has it, whatever paths the two are on, and it is not in the
\* channel or closed.  Nor is a client twice in the channel, or there when it
\* is closed.  This says nothing of a call that goes on using a client after
\* its Put.
OnePlace ==
  /\ \A i, j \in DOMAIN clients : clients[i] = clients[j] => i = j
  /\ \A u, v \in Users : \A k \in out[u], l \in out[v] :
       cli[u][k] = cli[v][l] => u = v /\ k = l
  /\ \A i \in DOMAIN clients :
       /\ clients[i] \notin shut /\ clients[i] \notin closer.kept
       /\ \A u \in Users : \A k \in out[u] : cli[u][k] # clients[i]
  /\ \A u \in Users : \A k \in out[u] : cli[u][k] \notin shut /\ cli[u][k] \notin closer.kept
  /\ shut \intersect closer.kept = {}

\* Every path of every operation puts back what it took; so no client leaves
\* the pool before it is closed, and the default case of Put, which would
\* close one that is still good, is never taken.
NoneLost ==
  /\ \A u \in Users : todo[u] = <<>> => out[u] = {}
  /\ ~Closing => /\ shut = {}
                 /\ Clients = {clients[i] : i \in DOMAIN clients}
                                \union UNION {{cli[u][k] : k \in out[u]} : u \in Users}

\* Nested calls hold clients while they wait for another, so they can wait
\* for each other.  They do not when the pool is larger than what the calls
\* can hold while they wait: then every operation ends, until the pool is
\* closed.
EnoughClients == PoolSize > MapThenSumSet(LAMBDA u : Depth[u] - 1, Users)
EveryCallReturns ==
  EnoughClients => \A u \in Users : todo[u] # <<>> ~> todo[u] = <<>> \/ Closing

\* Not true of the code, checked by hand: the same with any number of clients.
CallsReturnAnyhow == \A u \in Users : todo[u] # <<>> ~> todo[u] = <<>> \/ Closing

\* Not true of the code, checked by hand: a client that is used is used by
\* one goroutine, and is not closed.  The watches, the leases and the
\* subscriptions use theirs after its Put.
UsedByOne ==
  \A u \in Users : IsNext(u, "use") =>
    LET c == cli[u][Frame(u)]
    IN  c \notin shut /\ \A v \in Users \ {u} : \A k \in out[v] : cli[v][k] # c
=============================================================================
