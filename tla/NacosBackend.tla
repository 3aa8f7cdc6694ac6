---------------------------- MODULE NacosBackend ----------------------------
(***************************************************************************)
(* NacosDiscovery's calls for one service: Register, Deregister,           *)
(* GetInstances and recoverSubscribe, with the checkAndReRegisterServices  *)
(* that each of them runs when Nacos fails, and which calls register       *)
(* again.  Every level of that recursion takes a client of the pool and    *)
(* holds it until it returns.                                              *)
(*                                                                         *)
(* Nacos is external.  RegisterInstance is not given the instance's id, so *)
(* Nacos names the instance itself, and the code compares that name with   *)
(* the id: Named are the instances for which the two are equal.  WithRetry *)
(* ends with a success or, in a failure that counts as one fault, with an  *)
(* error.                                                                  *)
(***************************************************************************)
EXTENDS Naturals, Sequences

CONSTANTS
  Threads,       \* goroutines that call the backend
  Instances,     \* instance identifiers
  Named,         \* the instances that Nacos names as the application does
  PoolSize,      \* clientConfig.poolSize
  MaxCalls,      \* bound: calls of each thread
  MaxFaults,     \* bound: failures of Nacos
  None

ASSUME NacosAssumption ==
  /\ Named \subseteq Instances /\ None \notin Instances
  /\ PoolSize \in Nat \ {0} /\ MaxCalls \in Nat /\ MaxFaults \in Nat

Ops   == {"register", "deregister", "instances", "recover"}
\* A call on a stack: ids are the services a check has still to look at, or
\* what Deregister has found.
Frame == [op: Ops \cup {"check"}, pc: {"get", "work", "wait", "call"},
          inst: Instances \cup {None}, again: BOOLEAN, ids: SUBSET Instances]

VARIABLES
  registered,    \* d.registeredServices: what is to be kept registered
  hosts,         \* the instances that Nacos has
  idle,          \* the number of clients in the pool
  thr,           \* thr[t]: stack of calls, innermost first; the last result; calls made
  gone,          \* gone[i]: whether a Deregister of i has answered that it
                 \* succeeded, and has left Nacos without i and nobody else at
                 \* work, and no Register of i began since
  faults         \* failures so far (bounded by MaxFaults)

state == <<registered, hosts>>
vars  == <<state, idle, thr, gone, faults>>

Calls(op, i, again) ==
  [op |-> op, pc |-> "get", inst |-> i, again |-> again, ids |-> {}]

Busy(t) == thr[t].stack # <<>>
Top(t)  == Head(thr[t].stack)
In(t, op, l) == Busy(t) /\ Top(t).op = op /\ Top(t).pc = l

\* The innermost call becomes f, makes the call g, or returns r and gives
\* its client back (defer d.pool.Put).
Becomes(t, f) ==
  /\ thr' = [thr EXCEPT ![t].stack = <<f>> \o Tail(@)]
  /\ UNCHANGED idle
Enters(t, g) ==
  /\ thr' = [thr EXCEPT ![t].stack = <<g, [Top(t) EXCEPT !.pc = "wait"]>> \o Tail(@)]
  /\ UNCHANGED idle
\* Variant: an error path puts the client back, and so does the defer.
PutsTwice(t, r) ==
  /\ thr' = [thr EXCEPT ![t].stack = Tail(@), ![t].ret = r]
  /\ idle' = IF r = "error" THEN idle + 2 ELSE idle + 1

\* Variant: an error path returns without putting the client back.
PutsIfOk(t, r) ==
  /\ thr' = [thr EXCEPT ![t].stack = Tail(@), ![t].ret = r]
  /\ idle' = IF r = "error" THEN idle ELSE idle + 1

Returns(t, r) ==
  /\ thr' = [thr EXCEPT ![t].stack = Tail(@), ![t].ret = r]
  /\ idle' = idle + 1

Fault   == faults < MaxFaults /\ faults' = faults + 1
NoFault == UNCHANGED faults
Found   == hosts \cap Named

(***************************************************************************)
(* A call begins, and each call begins by taking a client.  register       *)
(* records the instance, a check copies what is recorded.                  *)
(***************************************************************************)
Starts(t, op, i) ==
  /\ ~Busy(t) /\ thr[t].calls < MaxCalls
  /\ thr' = [thr EXCEPT ![t] = [stack |-> <<Calls(op, i, FALSE)>>, ret |-> "none",
                                calls |-> @.calls + 1]]
  /\ gone' = IF op = "register" THEN [gone EXCEPT ![i] = "no"] ELSE gone
  /\ UNCHANGED <<state, idle, faults>>

GetsClient(t) ==
  LET f == Top(t)
  IN  /\ Busy(t) /\ f.pc = "get" /\ idle > 0
      /\ idle' = idle - 1
      /\ thr' = [thr EXCEPT ![t].stack =
           <<[f EXCEPT !.pc = "work", !.ids = IF f.op = "check" THEN registered ELSE {}]>>
             \o Tail(@)]
      /\ registered' = IF f.op = "register" /\ ~f.again THEN registered \cup {f.inst}
                       ELSE registered
      /\ UNCHANGED <<hosts, gone, faults>>

(***************************************************************************)
(* register: RegisterInstance succeeds, answers false, or fails, whether   *)
(* or not Nacos has carried it out; then everything recorded is checked,   *)
(* and register returns an error whatever the check has achieved.          *)
(***************************************************************************)
Registers(t) ==
  /\ In(t, "register", "work")
  /\ \/ hosts' = hosts \cup {Top(t).inst} /\ Returns(t, "ok") /\ NoFault
     \/ UNCHANGED hosts /\ Returns(t, "error") /\ Fault
     \/ /\ hosts' \in {hosts, hosts \cup {Top(t).inst}}
        /\ Enters(t, Calls("check", None, FALSE)) /\ Fault
  /\ UNCHANGED <<registered, gone>>

RegisterFails(t) ==
  /\ In(t, "register", "wait")
  /\ Returns(t, "error")
  /\ UNCHANGED <<state, gone, faults>>

(***************************************************************************)
(* checkAndReRegisterServices: each service of the copy is looked up, and  *)
(* registered when it is not found.  An error is retried or ends it.       *)
(***************************************************************************)
\* The services that may be the next: the one that is retried, or any.
Turn(f) == IF f.inst = None THEN f.ids ELSE {f.inst}

Checks(t) ==
  LET f == Top(t)
  IN  /\ In(t, "check", "work")
      /\ \/ f.ids = {} /\ Returns(t, "ok") /\ NoFault
         \/ f.ids # {} /\ Returns(t, "error") /\ Fault
         \/ \E i \in Turn(f) \cap Found :
              Becomes(t, [f EXCEPT !.ids = @ \ {i}, !.inst = None]) /\ NoFault
         \/ \E i \in Turn(f) \ Found :
              /\ thr' = [thr EXCEPT ![t].stack =
                   <<Calls("register", i, TRUE), [f EXCEPT !.pc = "wait", !.inst = i]>> \o Tail(@)]
              /\ UNCHANGED idle /\ NoFault
      /\ UNCHANGED <<state, gone>>

\* Variant: what has been registered again is looked up again.
LooksAgain(t) ==
  /\ In(t, "check", "wait")
  /\ Becomes(t, [Top(t) EXCEPT !.pc = "work"])
  /\ UNCHANGED <<state, gone, faults>>

Checked(t) ==
  LET f == Top(t)
  IN  /\ In(t, "check", "wait")
      /\ \/ /\ thr[t].ret = "ok"
            /\ Becomes(t, [f EXCEPT !.pc = "work", !.ids = @ \ {f.inst}, !.inst = None])
         \/ thr[t].ret = "error" /\ Becomes(t, [f EXCEPT !.pc = "work"])
         \/ thr[t].ret = "error" /\ Returns(t, "error")
      /\ UNCHANGED <<state, gone, faults>>

(***************************************************************************)
(* GetInstances, also for Deregister, which looks for its instance in the  *)
(* list.  A failure is reported after a check.                             *)
(***************************************************************************)
Lists(t) ==
  /\ In(t, "instances", "work")
  /\ \/ Returns(t, IF Top(t).inst \in Found THEN "found" ELSE "missing") /\ NoFault
     \/ Enters(t, Calls("check", None, FALSE)) /\ Fault
  /\ UNCHANGED <<state, gone>>

ListFails(t) ==
  /\ In(t, "instances", "wait")
  /\ Returns(t, "error")
  /\ UNCHANGED <<state, gone, faults>>

(***************************************************************************)
(* Deregister: the instance's address comes from the list; one that is not *)
(* in the list is deregistered with an empty address, which Nacos may      *)
(* accept or not, and which removes nothing.                               *)
(***************************************************************************)
LooksUp(t) ==
  /\ In(t, "deregister", "work")
  /\ Enters(t, Calls("instances", Top(t).inst, FALSE))
  /\ UNCHANGED <<state, gone, faults>>

\* Variant: the address that was found is not kept (:= inside the loop).
LookedUpInVain(t) ==
  /\ In(t, "deregister", "wait") /\ thr[t].ret # "error"
  /\ Becomes(t, [Top(t) EXCEPT !.pc = "call"])
  /\ UNCHANGED <<state, gone, faults>>

LookedUp(t) ==
  LET f == Top(t)
  IN  /\ In(t, "deregister", "wait")
      /\ \/ thr[t].ret = "error" /\ Returns(t, "error")
         \/ /\ thr[t].ret # "error"
            /\ Becomes(t, [f EXCEPT !.pc = "call",
                                    !.ids = IF thr[t].ret = "found" THEN {f.inst} ELSE {}])
      /\ UNCHANGED <<state, gone, faults>>

\* Deregister has succeeded for i.
Goes(t, i) ==
  gone' = [gone EXCEPT ![i] =
    IF i \in hosts' \/ \E u \in Threads \ {t} : Busy(u) THEN "said" ELSE "done"]

\* Variant: the instance is not forgotten.
DeregistersOnly(t) ==
  LET f == Top(t)
  IN  /\ In(t, "deregister", "call")
      /\ hosts' = hosts \ f.ids /\ UNCHANGED <<registered, faults>>
      /\ Goes(t, f.inst)
      /\ Returns(t, "ok")

Deregisters(t) ==
  LET f == Top(t)
  IN  /\ In(t, "deregister", "call")
      /\ \/ /\ hosts' = hosts \ f.ids /\ registered' = registered \ {f.inst}
            /\ Goes(t, f.inst)
            /\ Returns(t, "ok") /\ NoFault
         \/ f.ids = {} /\ Returns(t, "error") /\ UNCHANGED <<state, gone, faults>>
         \/ /\ hosts' \in {hosts, hosts \ f.ids} /\ UNCHANGED <<registered, gone>>
            /\ Returns(t, "error") /\ Fault

(***************************************************************************)
(* recoverSubscribe: after the subscription everything recorded is checked.*)
(***************************************************************************)
Recovers(t) ==
  /\ In(t, "recover", "work")
  /\ \/ Enters(t, Calls("check", None, FALSE)) /\ NoFault
     \/ Returns(t, "error") /\ Fault
  /\ UNCHANGED <<state, gone>>

Recovered(t) ==
  /\ In(t, "recover", "wait")
  /\ Returns(t, "ok")
  /\ UNCHANGED <<state, gone, faults>>

\* Nacos drops an instance whose heartbeats it misses.
Loses(i) ==
  /\ i \in hosts /\ hosts' = hosts \ {i} /\ Fault
  /\ UNCHANGED <<registered, idle, thr, gone>>

Init ==
  /\ registered = {} /\ hosts = {} /\ idle = PoolSize
  /\ thr = [t \in Threads |-> [stack |-> <<>>, ret |-> "none", calls |-> 0]]
  /\ gone = [i \in Instances |-> "no"] /\ faults = 0

Step(t) ==
  \/ GetsClient(t) \/ Registers(t) \/ RegisterFails(t) \/ Checks(t) \/ Checked(t)
  \/ Lists(t) \/ ListFails(t) \/ LooksUp(t) \/ LookedUp(t) \/ Deregisters(t)
  \/ Recovers(t) \/ Recovered(t)

Next ==
  \/ \E t \in Threads, op \in Ops, i \in Instances : Starts(t, op, i)
  \/ \E t \in Threads : Step(t)
  \/ \E i \in Instances : Loses(i)

Spec == Init /\ [][Next]_vars

\* A goroutine goes on; one that waits for a client gets one if clients keep
\* coming back (a channel serves its receivers in turn).  No failure has to
\* happen.
Fairness == \A t \in Threads :
  WF_vars(Step(t) /\ UNCHANGED faults) /\ SF_vars(GetsClient(t))

FairSpec == Spec /\ Fairness

(***************************************************************************)
(* Properties                                                              *)
(***************************************************************************)
\* Types.
TypeOK ==
  /\ registered \subseteq Instances /\ hosts \subseteq Instances
  /\ gone \in [Instances -> {"no", "said", "done"}]
  /\ idle \in 0..PoolSize /\ faults \in 0..MaxFaults
  /\ thr \in [Threads -> [stack: Seq(Frame), calls: 0..MaxCalls,
                          ret: {"none", "ok", "error", "found", "missing"}]]

\* The recursion gives back what it takes, on each of its paths: when no
\* call is under way every client is in the pool.
ClientsComeBack == (\A t \in Threads : ~Busy(t)) => idle = PoolSize

\* A call holds up to three clients (recoverSubscribe, check, register), and
\* two more for each failure that it recovers from: a pool of that many
\* clients blocks no call.
CallsReturn == \A t \in Threads : Busy(t) ~> ~Busy(t)

\* An instance that Deregister has removed, while no other call was under way,
\* is not registered again by a later check.
DeregisteredStaysGone == \A i \in Instances : gone[i] = "done" => i \notin hosts

\* Deregister of a registered instance that has kept its name works when
\* Nacos does and nobody else calls, and the instance is then gone.
Alone(t) == \A u \in Threads \ {t} : thr[u].calls = 0

DeregisterWorks ==
  [][\A t \in Threads, i \in registered \cap Named :
       (In(t, "deregister", "call") /\ Top(t).inst = i /\ ~Busy(t)' /\ faults' = 0 /\ Alone(t))
         => thr[t].ret' = "ok" /\ i \notin hosts']_vars

(***************************************************************************)
(* What the tests say and the code does not keep: "assert.Len(t,           *)
(* instances, 0)" after a Deregister, also for an instance to which Nacos  *)
(* gave a name of its own (it is not found, and stays), and also while     *)
(* other calls are under way (a check may register it again).              *)
(***************************************************************************)
AllDeregisteredStayGone == \A i \in Instances : gone[i] # "no" => i \notin hosts
=============================================================================
