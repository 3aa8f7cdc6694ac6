-------------------------- MODULE RegistrationProofs --------------------------
(***************************************************************************)
(* Proofs about Registration, for any number of instances, faults and      *)
(* leases and any set of backends: type correctness, and that on etcd the  *)
(* fields keep step with the key (LeaseServesKey).                         *)
(***************************************************************************)
EXTENDS Registration, TLAPS

Steps     == AppSteps \cup EtcdSteps \cup TickSteps
ThreadRec == [pc: Steps, inst: Instances \cup Callers, todo: SUBSET Instances, ch: kept \cup {0}]

\* The steps thread t may stand at.
StepsOf(t) == IF IsApp(t) THEN AppSteps ELSE IF IsCaller(t) THEN CallerSteps
              ELSE IF backend = "etcd" THEN EtcdSteps ELSE TickSteps

\* A thread is the application's or the keeper's of its instance, or a caller.
LEMMA ThreadFacts ==
  /\ \A i \in Instances : /\ App(i) \in Threads /\ Keeper(i) \in Threads
                          /\ App(i)[2] = i /\ Keeper(i)[2] = i
                          /\ IsApp(App(i)) /\ ~IsApp(Keeper(i))
                          /\ ~IsCaller(App(i)) /\ ~IsCaller(Keeper(i))
  /\ \A c \in Callers : /\ <<"caller", c>> \in Threads /\ IsCaller(<<"caller", c>>)
                        /\ ~IsApp(<<"caller", c>>)
  /\ \A i, j \in Instances : /\ App(i) # Keeper(j)
                             /\ App(i) = App(j) => i = j
                             /\ Keeper(i) = Keeper(j) => i = j
  /\ \A t \in Threads : /\ t[2] \in Instances \cup Callers
                        /\ ~IsCaller(t) => t[2] \in Instances
                        /\ IsApp(t) => t = App(t[2]) /\ ~IsCaller(t)
                        /\ IsCaller(t) => t[2] \in Callers /\ t = <<"caller", t[2]>>
                        /\ ~IsApp(t) /\ ~IsCaller(t) => t = Keeper(t[2])
BY DEF App, Keeper, Threads, IsApp, IsCaller

\* TypeOK with its parts about threads stated thread by thread.
ThreadsOK == /\ thr \in [Threads -> ThreadRec]
             /\ \A t \in Threads : thr[t].pc \in StepsOf(t)

RegistryOK ==
  /\ backend \in Backends
  /\ node \in [Instances -> {"absent", "critical", "up"}]
  /\ lease \in [Instances -> 0..granted] /\ live \subseteq 1..granted
  /\ kept \subseteq 1..granted /\ unsure \subseteq 1..granted /\ granted \in 0..MaxLeases
  /\ services \subseteq Instances
  /\ leaseID \in 0..granted /\ keepAliveCh \in kept \cup {0}
  /\ faults \in 0..MaxFaults[backend] /\ overlap \in BOOLEAN

LEMMA TypeParts == TypeOK <=> ThreadsOK /\ RegistryOK
<1>1. (\A t \in Threads : thr[t].pc \in StepsOf(t))
      <=> /\ \A i \in Instances :
               /\ thr[App(i)].pc \in AppSteps
               /\ thr[Keeper(i)].pc \in IF backend = "etcd" THEN EtcdSteps ELSE TickSteps
          /\ \A c \in Callers : thr[<<"caller", c>>].pc \in CallerSteps
  BY ThreadFacts DEF StepsOf
<1> QED
  BY <1>1 DEF TypeOK, ThreadsOK, RegistryOK, ThreadRec, Steps

(***************************************************************************)
(* A step of one thread                                                    *)
(***************************************************************************)
\* Thread t becomes r and no other thread changes.
Becomes(t, r) == /\ thr'[t] = r
                 /\ \A u \in Threads \ {t} : thr'[u] = thr[u]
                 /\ thr' = [u \in Threads |-> thr'[u]]

LEMMA OneMoves ==
  ASSUME ThreadsOK, NEW t \in Threads, NEW r,
         thr' = [thr EXCEPT ![t] = r]
  PROVE  Becomes(t, r)
BY DEF ThreadsOK, Becomes

LEMMA GotoMoves ==
  ASSUME ThreadsOK, NEW t \in Threads, NEW pc, Goto(t, pc)
  PROVE  Becomes(t, [thr[t] EXCEPT !.pc = pc])
BY OneMoves DEF Goto

LEMMA RestsMoves ==
  ASSUME ThreadsOK, NEW t \in Threads, ~IsApp(t), backend \in {"etcd", "consul", "zookeeper"}, Rests(t)
  PROVE  /\ Becomes(t, Fresh(t, Rest(t)))
         /\ thr' = [thr EXCEPT ![t] = Fresh(t, Rest(t))]
         /\ Rest(t) \in {"off", "loop", "tick"} /\ Rest(t) \in StepsOf(t)
         /\ Fresh(t, Rest(t)) \in ThreadRec
<1>1. Rest(t) \in {"off", "loop", "tick"} /\ Rest(t) \in StepsOf(t)
  BY DEF Rest, StepsOf, EtcdSteps, TickSteps, CallerSteps
<1>2. Fresh(t, Rest(t)) \in ThreadRec
  BY <1>1, ThreadFacts DEF Fresh, ThreadRec, Steps, AppSteps, EtcdSteps, TickSteps
<1> QED
  BY <1>1, <1>2, OneMoves DEF Rests

LEMMA MoveTyped ==
  ASSUME ThreadsOK, backend' = backend, kept \subseteq kept',
         NEW t \in Threads, NEW r, Becomes(t, r),
         r \in ThreadRec', r.pc \in StepsOf(t)
  PROVE  ThreadsOK'
<1>1. ThreadRec \subseteq ThreadRec'
  BY DEF ThreadRec
<1>2. thr' \in [Threads -> ThreadRec']
  BY <1>1 DEF Becomes, ThreadsOK
<1>3. \A u \in Threads : thr'[u].pc \in StepsOf(u)'
  BY DEF Becomes, ThreadsOK, StepsOf
<1> QED
  BY <1>2, <1>3 DEF ThreadsOK

LEMMA GotoTyped ==
  ASSUME ThreadsOK, backend' = backend, kept \subseteq kept',
         NEW t \in Threads, NEW pc \in StepsOf(t), Goto(t, pc)
  PROVE  ThreadsOK'
<1>1. [thr[t] EXCEPT !.pc = pc] \in ThreadRec'
  BY DEF ThreadsOK, ThreadRec, StepsOf, Steps, AppSteps, EtcdSteps, CallerSteps
<1>2. [thr[t] EXCEPT !.pc = pc].pc = pc
  BY DEF ThreadsOK, ThreadRec
<1> QED
  BY <1>1, <1>2, GotoMoves, MoveTyped

(***************************************************************************)
(* Type correctness.  TypeOK is not inductive: KeepAlive is called for the *)
(* lease in the field, which must be one that has been granted.            *)
(***************************************************************************)
\* What a thread has behind it where it stands.
StageOf(t, r, g) ==
  /\ r.pc \in InRegister \/ ~IsCaller(t) => r.inst \in Instances
  /\ r.pc \in {"grant", "keep"} => backend = "etcd"
  /\ r.pc \in {"put", "keep"} /\ backend = "etcd" => g # 0
  /\ r.pc \in {"recover", "rekeep"} => r.ch # 0

Stages == leaseID = granted /\ \A t \in Threads : StageOf(t, thr[t], granted)

TypeInv == ThreadsOK /\ RegistryOK /\ Stages

LEMMA MoveStages ==
  ASSUME Stages, backend' = backend, leaseID' = granted', granted # 0 => granted' # 0,
         NEW t \in Threads, NEW r, Becomes(t, r), StageOf(t, r, granted')
  PROVE  Stages'
BY DEF Stages, StageOf, Becomes

LEMMA InitTyped == Init => TypeInv
<1> SUFFICES ASSUME Init PROVE TypeInv
  OBVIOUS
<1>1. RegistryOK
  <2>1. overlap \in BOOLEAN
    BY Zenon DEF Init
  <2> QED
    BY <2>1, RegistrationAssumption DEF Init, RegistryOK
<1>2. ThreadsOK
  BY ThreadFacts
  DEF Init, Fresh, ThreadsOK, ThreadRec, Steps, StepsOf, AppSteps, EtcdSteps, TickSteps, CallerSteps
<1>3. Stages
  BY ThreadFacts DEF Init, Fresh, Stages, StageOf, InRegister
<1> QED
  BY <1>1, <1>2, <1>3 DEF TypeInv

\* What every action leaves alone or only lets grow.
Frame == /\ backend' = backend /\ kept \subseteq kept'
         /\ leaseID' = granted' /\ (granted # 0 => granted' # 0)

LEMMA MoveInv ==
  ASSUME ThreadsOK, Stages, Frame, NEW t \in Threads, NEW r,
         thr' = [thr EXCEPT ![t] = r],
         r \in ThreadRec', r.pc \in StepsOf(t), StageOf(t, r, granted')
  PROVE  ThreadsOK' /\ Stages'
BY OneMoves, MoveTyped, MoveStages DEF Frame

LEMMA GotoInv ==
  ASSUME ThreadsOK, Stages, Frame, NEW t \in Threads, NEW pc \in StepsOf(t), Goto(t, pc),
         pc \in {"grant", "keep"} => backend = "etcd",
         pc \in {"put", "keep"} /\ backend = "etcd" => granted' # 0,
         pc \in {"recover", "rekeep"} => thr[t].ch # 0,
         pc \in InRegister => thr[t].pc \in InRegister \/ ~IsCaller(t)
  PROVE  ThreadsOK' /\ Stages'
<1> DEFINE r == [thr[t] EXCEPT !.pc = pc]
<1>1. thr[t] \in ThreadRec /\ thr[t] \in ThreadRec'
  BY DEF ThreadsOK, ThreadRec, Frame
<1>2. r.pc = pc /\ r.ch = thr[t].ch /\ r.inst = thr[t].inst /\ r \in ThreadRec'
  BY <1>1 DEF ThreadRec, StepsOf, Steps, AppSteps, EtcdSteps, CallerSteps
<1>3. StageOf(t, r, granted')
  BY <1>2 DEF Stages, StageOf
<1>4. thr' = [thr EXCEPT ![t] = r]
  BY DEF Goto
<1> HIDE DEF r
<1> QED
  BY <1>2, <1>3, <1>4, MoveInv

LEMMA RestsInv ==
  ASSUME ThreadsOK, Stages, Frame, NEW t \in Threads, ~IsApp(t), Rests(t),
         backend \in {"etcd", "consul", "zookeeper"}
  PROVE  ThreadsOK' /\ Stages'
<1> DEFINE r == Fresh(t, Rest(t))
<1>1. /\ thr' = [thr EXCEPT ![t] = r] /\ Rest(t) \in {"off", "loop", "tick"}
      /\ Rest(t) \in StepsOf(t) /\ r \in ThreadRec
  BY RestsMoves
<1>2. r.pc = Rest(t) /\ r.inst = t[2]
  BY DEF Fresh
<1>3. r \in ThreadRec'
  BY <1>1 DEF ThreadRec, Frame
<1>4. StageOf(t, r, granted')
  BY <1>1, <1>2, ThreadFacts DEF StageOf, InRegister
<1> HIDE DEF r
<1> QED
  BY <1>1, <1>2, <1>3, <1>4, MoveInv

LEMMA GotoTwoInv ==
  ASSUME ThreadsOK, Stages, Frame,
         NEW t \in Threads, NEW pc \in StepsOf(t),
         NEW u \in Threads, NEW pcu \in StepsOf(u), t # u,
         thr' = [thr EXCEPT ![t].pc = pc, ![u].pc = pcu],
         pc \notin {"grant", "keep", "recover", "rekeep"},
         pcu \notin {"grant", "keep", "recover", "rekeep"},
         pc = "put" \/ pcu = "put" => backend # "etcd",
         ~IsCaller(t), ~IsCaller(u)
  PROVE  ThreadsOK' /\ Stages'
<1>1. /\ thr'[t] = [thr[t] EXCEPT !.pc = pc]
      /\ thr'[u] = [thr[u] EXCEPT !.pc = pcu]
      /\ \A v \in Threads \ {t, u} : thr'[v] = thr[v]
      /\ thr' = [v \in Threads |-> thr'[v]]
  BY DEF ThreadsOK
<1>2. \A v \in Threads : thr[v] \in ThreadRec /\ thr[v].pc \in StepsOf(v)
  BY DEF ThreadsOK
<1>3. pc \in Steps /\ pcu \in Steps
  BY DEF StepsOf, Steps, AppSteps, EtcdSteps, CallerSteps
<1>4. \A v \in Threads : thr'[v] \in ThreadRec /\ thr'[v].pc \in StepsOf(v)
  <2>1. thr'[t] \in ThreadRec /\ thr'[t].pc = pc /\ thr'[u] \in ThreadRec /\ thr'[u].pc = pcu
    BY <1>1, <1>2, <1>3 DEF ThreadRec
  <2>2. \A v \in Threads \ {t, u} : thr'[v] \in ThreadRec /\ thr'[v].pc \in StepsOf(v)
    BY <1>1, <1>2
  <2> QED
    BY <2>1, <2>2
<1>5. ThreadRec \subseteq ThreadRec' /\ \A v \in Threads : StepsOf(v)' = StepsOf(v)
  BY DEF ThreadRec, StepsOf, Frame
<1>6. ThreadsOK'
  BY <1>1, <1>4, <1>5 DEF ThreadsOK
<1>7. \A v \in Threads : StageOf(v, thr'[v], granted')
  <2>0. /\ thr[t].inst \in Instances /\ thr[u].inst \in Instances
        /\ thr[t] \in ThreadRec /\ thr[u] \in ThreadRec
    BY <1>2 DEF Stages, StageOf
  <2>1. /\ thr'[t].pc = pc /\ thr'[t].inst \in Instances
        /\ thr'[u].pc = pcu /\ thr'[u].inst \in Instances
    BY <1>1, <2>0 DEF ThreadRec
  <2>a. StageOf(t, thr'[t], granted') /\ StageOf(u, thr'[u], granted')
    BY <2>1 DEF StageOf
  <2>2. \A v \in Threads \ {t, u} : StageOf(v, thr'[v], granted')
    BY <1>1 DEF Stages, StageOf, Frame
  <2> QED
    BY <2>a, <2>2
<1>8. Stages'
  BY <1>7 DEF Stages, StageOf, Frame
<1> QED
  BY <1>6, <1>8

LEMMA ReturnsInv ==
  ASSUME ThreadsOK, Stages, Frame, NEW t \in Threads, Returns(t),
         backend \in {"etcd", "consul", "zookeeper"}
  PROVE  ThreadsOK' /\ Stages'
<1> DEFINE u == Keeper(t[2])
<1>0. IsApp(t) => u \in Threads /\ ~IsApp(u) /\ ~IsCaller(u) /\ ~IsCaller(t)
  BY ThreadFacts
<1>1. CASE ~IsApp(t)
  <2>1. Goto(t, "check") /\ "check" \in StepsOf(t)
    BY <1>1 DEF Returns, Goto, StepsOf, EtcdSteps, TickSteps, CallerSteps
  <2> QED
    BY <2>1, GotoInv DEF InRegister
<1>2. CASE IsApp(t) /\ backend = "etcd"
  <2>1. thr' = [thr EXCEPT ![t].pc = "registered", ![u].pc = "loop"]
    BY <1>2 DEF Returns
  <2>2. "registered" \in StepsOf(t) /\ "loop" \in StepsOf(u) /\ t # u
    BY <1>0, <1>2 DEF StepsOf, AppSteps, EtcdSteps
  <2> HIDE DEF u
  <2> QED
    BY <1>0, <1>2, <2>1, <2>2, GotoTwoInv
<1>3. CASE IsApp(t) /\ backend # "etcd"
  <2>1. Goto(t, "registered")
    BY <1>0, <1>3 DEF Returns, Goto, ThreadsOK, ThreadRec
  <2>2. "registered" \in StepsOf(t)
    BY <1>3 DEF StepsOf, AppSteps
  <2> QED
    BY <2>1, <2>2, GotoInv DEF InRegister
<1> QED
  BY <1>1, <1>2, <1>3

\* Steps of one action each; i is an instance and t a thread.
LEMMA ApplicationTyped ==
  ASSUME TypeInv, NEW i \in Instances,
         Register(i) \/ Deregister(i) \/ DeregisterStep(i) \/ DeleteFails(i)
  PROVE  TypeInv'
<1> DEFINE t == App(i)
<1>0. /\ ThreadsOK /\ RegistryOK /\ Stages
      /\ t \in Threads /\ IsApp(t) /\ ~IsCaller(t) /\ StepsOf(t) = AppSteps
  BY ThreadFacts DEF TypeInv, StepsOf
<1>1. CASE Register(i)
  <2>1. RegistryOK' /\ Frame
    BY <1>0, <1>1 DEF Register, Enters, RegistryOK, Stages, Frame, leaseVars, fieldVars, noted
  <2>2. CASE backend = "etcd"
    <3>1. Goto(t, "grant")
      BY <1>1, <2>2 DEF Register, Goto
    <3> QED
      BY <1>0, <2>1, <2>2, <3>1, GotoInv DEF TypeInv, AppSteps, InRegister
  <2>3. CASE backend # "etcd"
    <3> DEFINE u == Keeper(i)
    <3>1. u \in Threads /\ u # t /\ ~IsApp(u) /\ ~IsCaller(u) /\ StepsOf(u) = TickSteps
      BY <2>3, ThreadFacts DEF StepsOf
    <3>2. /\ thr' = [thr EXCEPT ![t].pc = "put", ![u].pc = "tick"]
          /\ backend' = backend /\ kept' = kept /\ granted' = granted
      BY <1>1, <2>3 DEF Register, leaseVars
    <3> QED
      BY <1>0, <2>1, <2>3, <3>1, <3>2, GotoTwoInv DEF TypeInv, AppSteps, TickSteps, InRegister
  <2> QED
    BY <2>2, <2>3
<1>2. CASE Deregister(i)
  <2>1. RegistryOK' /\ Frame /\ Goto(t, "delete")
    BY <1>0, <1>2 DEF Deregister, RegistryOK, Stages, Frame, leaseVars, fieldVars, noted
  <2> QED
    BY <1>0, <2>1, GotoInv DEF TypeInv, InRegister, AppSteps
<1>3. CASE Delete(i)
  <2>1. RegistryOK' /\ Frame
    BY <1>0, <1>3 DEF Delete, Removes, RegistryOK, Stages, Frame, leaseVars, fieldVars, noted
  <2>2. Goto(t, "revoke") \/ Goto(t, "forget")
    BY <1>3 DEF Delete
  <2> QED
    BY <1>0, <2>1, <2>2, GotoInv DEF TypeInv, InRegister, AppSteps
<1>4. CASE Revoke(i)
  <2>1. RegistryOK' /\ Frame
    <3>1. CASE Ends(leaseID) /\ UNCHANGED faults
      BY <1>0, <1>4, <3>1 DEF Revoke, Ends, RegistryOK, Stages, Frame, fieldVars, noted
    <3>2. CASE Fault /\ UNCHANGED <<node, leaseVars>>
      BY <1>0, <1>4, <3>2, RegistrationAssumption
      DEF Revoke, Fault, RegistryOK, Stages, Frame, leaseVars, fieldVars, noted
    <3> QED
      BY <1>4, <3>1, <3>2 DEF Revoke
  <2>2. Goto(t, "forget")
    BY <1>4 DEF Revoke
  <2> QED
    BY <1>0, <2>1, <2>2, GotoInv DEF TypeInv, InRegister, AppSteps
<1>5. CASE Forget(i)
  <2>1. RegistryOK' /\ Frame /\ Goto(t, "gone")
    BY <1>0, <1>5 DEF Forget, RegistryOK, Stages, Frame, leaseVars, fieldVars, noted
  <2> QED
    BY <1>0, <2>1, GotoInv DEF TypeInv, InRegister, AppSteps
<1>6. CASE DeleteFails(i)
  <2>1. RegistryOK' /\ Frame
    BY <1>0, <1>6, RegistrationAssumption
    DEF DeleteFails, Removes, Fault, RegistryOK, Stages, Frame, leaseVars, fieldVars, noted
  <2>2. Goto(t, "registered")
    BY <1>6 DEF DeleteFails
  <2> QED
    BY <1>0, <2>1, <2>2, GotoInv DEF TypeInv, InRegister, AppSteps
<1> QED
  BY <1>1, <1>2, <1>3, <1>4, <1>5, <1>6 DEF DeregisterStep

LEMMA GivesUpInv ==
  ASSUME ThreadsOK, Stages, Frame, NEW t \in Threads, thr[t].pc \in InRegister, GivesUp(t),
         backend \in {"etcd", "consul", "zookeeper"}
  PROVE  ThreadsOK' /\ Stages'
<1>1. CASE IsApp(t)
  <2>1. Goto(t, "failed") /\ "failed" \in StepsOf(t)
    BY <1>1 DEF GivesUp, StepsOf, AppSteps
  <2> QED
    BY <2>1, GotoInv DEF InRegister
<1>2. CASE ~IsApp(t) /\ Rests(t)
  BY <1>2, RestsInv
<1>3. CASE ~IsApp(t) /\ thr' = [thr EXCEPT ![t].pc = "check", ![t].todo = @ \cup {thr[t].inst}]
  <2> DEFINE r == [thr[t] EXCEPT !.pc = "check", !.todo = @ \cup {thr[t].inst}]
  <2>0. thr[t] \in ThreadRec /\ thr[t].inst \in Instances
    BY DEF ThreadsOK, Stages, StageOf
  <2>1. thr' = [thr EXCEPT ![t] = r]
    BY <1>3 DEF ThreadsOK, ThreadRec
  <2>2. r \in ThreadRec' /\ r.pc = "check" /\ r.inst \in Instances
    BY <2>0 DEF ThreadRec, Frame, Steps, EtcdSteps
  <2>3. "check" \in StepsOf(t)
    BY <1>3 DEF StepsOf, EtcdSteps, TickSteps, CallerSteps
  <2>4. StageOf(t, r, granted')
    BY <2>2 DEF StageOf
  <2> HIDE DEF r
  <2> QED
    BY <2>1, <2>2, <2>3, <2>4, MoveInv
<1> QED
  BY <1>1, <1>2, <1>3 DEF GivesUp

LEMMA AppearsTyped ==
  ASSUME RegistryOK, granted \in Nat, NEW i, Appears(i)
  PROVE  /\ node' \in [Instances -> {"absent", "critical", "up"}]
         /\ lease' \in [Instances -> 0..granted]
         /\ live' = live /\ kept' = kept /\ granted' = granted
BY DEF Appears, RegistryOK

\* A call of register.
LEMMA RegisterTyped ==
  ASSUME TypeInv, NEW t \in Threads,
         Grant(t) \/ EtcdPut(t) \/ KeepAlive(t) \/ ConsulPut(t) \/ ZkPut(t) \/ RegisterFails(t)
         \/ ReplyLost(t)
  PROVE  TypeInv'
<1>0. ThreadsOK /\ RegistryOK /\ Stages /\ thr[t] \in ThreadRec /\ thr[t].pc \in StepsOf(t)
  BY DEF TypeInv, ThreadsOK
<1>a. StageOf(t, thr[t], granted)
  BY <1>0 DEF Stages
<1>b. /\ StepsOf(t) = IF IsApp(t) THEN AppSteps ELSE IF IsCaller(t) THEN CallerSteps
                    ELSE IF backend = "etcd" THEN EtcdSteps ELSE TickSteps
      /\ backend \in {"etcd", "consul", "zookeeper"} /\ granted \in Nat
  BY <1>0, RegistrationAssumption DEF StepsOf, RegistryOK
<1>1. CASE Grant(t)
  <2>1. RegistryOK' /\ Frame /\ granted' # 0
    BY <1>0, <1>1, RegistrationAssumption
    DEF Grant, RegistryOK, Stages, Frame, leaseVars, fieldVars, noted
  <2>2. Goto(t, "put") /\ "put" \in StepsOf(t) /\ thr[t].pc = "grant"
    BY <1>1, <1>b DEF Grant, At, AppSteps, EtcdSteps, TickSteps, CallerSteps, InRegister
  <2> QED
    BY <1>0, <2>1, <2>2, GotoInv DEF TypeInv, InRegister
<1>2. CASE EtcdPut(t)
  <2>1. RegistryOK' /\ Frame
    BY <1>0, <1>2, <1>b, AppearsTyped DEF EtcdPut, RegistryOK, Stages, Frame, fieldVars, noted
  <2>2. Goto(t, "keep") /\ "keep" \in StepsOf(t) /\ backend = "etcd" /\ thr[t].pc = "put"
    BY <1>0, <1>2, <1>b DEF EtcdPut, At, AppSteps, EtcdSteps, CallerSteps, InRegister
  <2>3. granted' # 0
    BY <1>2, <1>a, <2>1, <2>2 DEF EtcdPut, Appears, StageOf
  <2> QED
    BY <1>0, <2>1, <2>2, <2>3, GotoInv DEF TypeInv, InRegister
<1>3. CASE KeepAlive(t)
  <2>0. backend = "etcd" /\ granted # 0
    BY <1>3, <1>a DEF KeepAlive, At, StageOf
  <2>1. RegistryOK' /\ Frame
    BY <1>0, <1>3, <2>0 DEF KeepAlive, RegistryOK, Stages, Frame, leaseVars, fieldVars, noted
  <2>2. Returns(t)
    BY <1>3 DEF KeepAlive
  <2> QED
    BY <1>0, <2>0, <2>1, <2>2, ReturnsInv DEF TypeInv
<1>4. CASE ConsulPut(t)
  <2>1. RegistryOK' /\ Frame /\ backend = "consul" /\ Returns(t)
    BY <1>0, <1>4, <1>b, AppearsTyped DEF ConsulPut, RegistryOK, Stages, Frame, fieldVars, noted
  <2> QED
    BY <1>0, <2>1, ReturnsInv DEF TypeInv
<1>5. CASE ZkPut(t)
  <2>1. RegistryOK' /\ Frame /\ backend = "zookeeper" /\ Returns(t)
    BY <1>0, <1>5, <1>b, AppearsTyped DEF ZkPut, RegistryOK, Stages, Frame, fieldVars, noted
  <2> QED
    BY <1>0, <2>1, ReturnsInv DEF TypeInv
<1>6. CASE RegisterFails(t)
  <2>1. RegistryOK' /\ Frame
    BY <1>0, <1>6, RegistrationAssumption
    DEF RegisterFails, Fault, RegistryOK, Stages, Frame, leaseVars, fieldVars, noted
  <2>2. thr[t].pc \in InRegister /\ GivesUp(t)
    BY <1>6 DEF RegisterFails, At, InRegister
  <2> QED
    BY <1>0, <1>b, <2>1, <2>2, GivesUpInv DEF TypeInv
<1>7. CASE ReplyLost(t)
  <2>0. backend = "etcd" => leaseID \in live
    BY <1>7 DEF ReplyLost, Appears
  <2>a. /\ node' \in [Instances -> {"absent", "critical", "up"}]
        /\ lease' \in [Instances -> 0..granted]
        /\ live' = live /\ kept' = kept /\ granted' = granted
    BY <1>0, <1>7, <1>b, AppearsTyped DEF ReplyLost
  <2>b. UNCHANGED <<backend, overlap, services, leaseID, keepAliveCh>>
    BY <1>7 DEF ReplyLost, fieldVars
  <2>c. unsure' \subseteq 1..granted
    BY <1>0, <1>7, <2>0 DEF ReplyLost, RegistryOK
  <2>d. faults' \in 0..MaxFaults[backend]
    BY <1>0, <1>7, RegistrationAssumption DEF ReplyLost, Fault, RegistryOK
  <2>1. RegistryOK' /\ Frame /\ granted' = granted /\ kept' = kept
    BY <1>0, <2>a, <2>b, <2>c, <2>d DEF RegistryOK, Stages, Frame
  <2>2. CASE GivesUp(t)
    BY <1>0, <1>7, <1>b, <2>1, <2>2, GivesUpInv DEF TypeInv, ReplyLost, At, InRegister
  <2>3. CASE UNCHANGED thr
    BY <1>0, <2>1, <2>3 DEF TypeInv, ThreadsOK, ThreadRec, StepsOf, Stages, StageOf, Frame
  <2> QED
    BY <1>7, <2>2, <2>3 DEF ReplyLost
<1> QED
  BY <1>1, <1>2, <1>3, <1>4, <1>5, <1>6, <1>7

\* A step of a keeper or a caller outside register.
LEMMA KeeperTyped ==
  ASSUME TypeInv, NEW t \in Threads,
         \/ ReadFails(t) \/ Snapshot(t) \/ Checks(t) \/ CheckFails(t) \/ EntersSelect(t)
         \/ HeartbeatAnswered(t) \/ ChannelCloses(t) \/ Recovers(t) \/ RestartsKeepAlive(t)
         \/ RestartFails(t) \/ ConsulTick(t) \/ TickFails(t) \/ ZkTickMisses(t) \/ ZkCreates(t)
  PROVE  TypeInv'
<1>0. ThreadsOK /\ RegistryOK /\ Stages /\ thr[t] \in ThreadRec /\ thr[t].pc \in StepsOf(t)
  BY DEF TypeInv, ThreadsOK
<1>a. StageOf(t, thr[t], granted)
  BY <1>0 DEF Stages
<1>b. /\ StepsOf(t) = IF IsApp(t) THEN AppSteps ELSE IF IsCaller(t) THEN CallerSteps
                    ELSE IF backend = "etcd" THEN EtcdSteps ELSE TickSteps
      /\ backend \in {"etcd", "consul", "zookeeper"}
  BY <1>0, RegistrationAssumption DEF StepsOf, RegistryOK
<1>1. CASE Snapshot(t)
  <2>1. RegistryOK' /\ Frame
    BY <1>0, <1>1 DEF Snapshot, RegistryOK, Stages, Frame, leaseVars, fieldVars, noted
  <2> DEFINE r == [thr[t] EXCEPT !.pc = "check", !.todo = services]
  <2>2. thr' = [thr EXCEPT ![t] = r]
    BY <1>0, <1>1 DEF Snapshot, ThreadsOK, ThreadRec
  <2>3. r \in ThreadRec' /\ r.pc = "check" /\ "check" \in StepsOf(t)
    BY <1>0, <1>1, <1>b, <2>1
    DEF Snapshot, At, ThreadRec, RegistryOK, Frame, Steps, AppSteps, EtcdSteps, TickSteps, CallerSteps, InRegister
  <2>4. StageOf(t, r, granted')
    BY <1>0, <1>a, <2>3 DEF StageOf, InRegister, ThreadRec
  <2> HIDE DEF r
  <2> QED
    BY <1>0, <2>1, <2>2, <2>3, <2>4, MoveInv DEF TypeInv
<1>2. CASE Checks(t)
  <2>1. RegistryOK' /\ Frame
    BY <1>0, <1>2 DEF Checks, Enters, RegistryOK, Stages, Frame, leaseVars, fieldVars
  <2>2. ~IsApp(t)
    BY <1>0, <1>2, <1>b DEF Checks, At, AppSteps, InRegister
  <2>3. CASE Rests(t)
    BY <1>0, <1>b, <2>1, <2>2, <2>3, RestsInv DEF TypeInv
  <2>4. CASE \E j \in thr[t].todo :
               thr' = [thr EXCEPT ![t].pc = IF node[j] = "up" THEN "check"
                                            ELSE IF backend = "etcd" THEN "grant" ELSE "put",
                                  ![t].inst = j, ![t].todo = @ \ {j}]
    <3>1. PICK j \in thr[t].todo :
            thr' = [thr EXCEPT ![t].pc = IF node[j] = "up" THEN "check"
                                         ELSE IF backend = "etcd" THEN "grant" ELSE "put",
                               ![t].inst = j, ![t].todo = @ \ {j}]
      BY <2>4
    <3> DEFINE pc == IF node[j] = "up" THEN "check" ELSE IF backend = "etcd" THEN "grant" ELSE "put"
               r  == [thr[t] EXCEPT !.pc = pc, !.inst = j, !.todo = @ \ {j}]
    <3>2. thr' = [thr EXCEPT ![t] = r]
      BY <1>0, <3>1 DEF ThreadsOK, ThreadRec
    <3>3. pc \in StepsOf(t) /\ pc \in Steps /\ pc \in {"check", "grant", "put"}
      BY <1>b, <2>2 DEF Steps, EtcdSteps, TickSteps, CallerSteps, InRegister
    <3>4. (pc = "grant" => backend = "etcd") /\ (pc = "put" => backend # "etcd")
      OBVIOUS
    <3> HIDE DEF pc
    <3>5. r \in ThreadRec' /\ r.pc = pc /\ r.inst \in Instances
      BY <1>0, <2>1, <3>3 DEF ThreadRec, Frame
    <3>6. StageOf(t, r, granted')
      BY <3>3, <3>4, <3>5 DEF StageOf
    <3> HIDE DEF r
    <3> QED
      BY <1>0, <2>1, <3>2, <3>3, <3>5, <3>6, MoveInv DEF TypeInv
  <2> QED
    BY <1>2, <2>3, <2>4 DEF Checks
<1>3. CASE CheckFails(t)
  <2>1. RegistryOK' /\ Frame
    BY <1>0, <1>3, RegistrationAssumption
    DEF CheckFails, Fault, RegistryOK, Stages, Frame, leaseVars, fieldVars, noted
  <2>2. ~IsApp(t) /\ Rests(t)
    BY <1>0, <1>3, <1>b DEF CheckFails, At, AppSteps, InRegister
  <2> QED
    BY <1>0, <1>b, <2>1, <2>2, RestsInv DEF TypeInv
<1>4. CASE EntersSelect(t)
  <2>1. RegistryOK' /\ Frame
    BY <1>0, <1>4 DEF EntersSelect, RegistryOK, Stages, Frame, leaseVars, fieldVars, noted
  <2> DEFINE r == [thr[t] EXCEPT !.pc = "select", !.ch = keepAliveCh]
  <2>2. thr' = [thr EXCEPT ![t] = r]
    BY <1>0, <1>4 DEF EntersSelect, ThreadsOK, ThreadRec
  <2>3. r \in ThreadRec' /\ r.pc = "select" /\ "select" \in StepsOf(t)
    BY <1>0, <1>4, <1>b, <2>1
    DEF EntersSelect, At, ThreadRec, RegistryOK, Frame, Steps, AppSteps, EtcdSteps, TickSteps, CallerSteps, InRegister
  <2>4. StageOf(t, r, granted')
    BY <1>0, <1>a, <2>3 DEF StageOf, InRegister, ThreadRec
  <2> HIDE DEF r
  <2> QED
    BY <1>0, <2>1, <2>2, <2>3, <2>4, MoveInv DEF TypeInv
<1>5. CASE HeartbeatAnswered(t)
  <2>1. RegistryOK' /\ Frame
    BY <1>0, <1>a, <1>b, <1>5 DEF HeartbeatAnswered, At, StageOf, RegistryOK, Stages, Frame, leaseVars, fieldVars, noted
  <2>2. Rests(t) /\ ~IsApp(t)
    BY <1>0, <1>5, <1>b DEF HeartbeatAnswered, At, AppSteps, InRegister
  <2> QED
    BY <1>0, <1>b, <2>1, <2>2, RestsInv DEF TypeInv
<1>6. CASE ChannelCloses(t)
  <2>1. RegistryOK' /\ Frame
    BY <1>0, <1>a, <1>b, <1>6 DEF ChannelCloses, At, StageOf, RegistryOK, Stages, Frame, leaseVars, fieldVars, noted
  <2>2. Goto(t, "recover") /\ "recover" \in StepsOf(t)
    BY <1>0, <1>6, <1>b DEF ChannelCloses, At, AppSteps, EtcdSteps, TickSteps, CallerSteps, InRegister
  <2>3. thr[t].ch # 0
    BY <1>6 DEF ChannelCloses
  <2> QED
    BY <1>0, <2>1, <2>2, <2>3, GotoInv DEF TypeInv, InRegister
<1>7. CASE Recovers(t)
  <2>1. RegistryOK' /\ Frame
    BY <1>0, <1>a, <1>b, <1>7 DEF Recovers, At, StageOf, RegistryOK, Stages, Frame, leaseVars, fieldVars, noted
  <2>2. Goto(t, "rekeep") /\ "rekeep" \in StepsOf(t)
    BY <1>0, <1>7, <1>b DEF Recovers, At, AppSteps, EtcdSteps, TickSteps, CallerSteps, InRegister
  <2>3. thr[t].ch # 0
    BY <1>7, <1>a DEF Recovers, At, StageOf
  <2> QED
    BY <1>0, <2>1, <2>2, <2>3, GotoInv DEF TypeInv, InRegister
<1>8. CASE RestartsKeepAlive(t)
  <2>0. granted # 0
    <3>1. thr[t].ch # 0 /\ thr[t].ch \in kept \cup {0}
      BY <1>0, <1>8, <1>a DEF RestartsKeepAlive, At, StageOf, ThreadRec
    <3>2. kept \subseteq 1..granted
      BY <1>0 DEF RegistryOK
    <3>3. thr[t].ch \in 1..granted
      BY <3>1, <3>2
    <3>4. granted \in Nat
      BY <1>0, RegistrationAssumption DEF RegistryOK
    <3> QED
      BY <3>3, <3>4
  <2>1. RegistryOK' /\ Frame
    BY <1>0, <1>8, <2>0 DEF RestartsKeepAlive, RegistryOK, Stages, Frame, leaseVars, fieldVars, noted
  <2>2. Goto(t, "snapshot") /\ "snapshot" \in StepsOf(t)
    BY <1>0, <1>8, <1>b DEF RestartsKeepAlive, At, AppSteps, EtcdSteps, TickSteps, CallerSteps, InRegister
  <2> QED
    BY <1>0, <2>1, <2>2, GotoInv DEF TypeInv, InRegister
<1>9. CASE RestartFails(t)
  <2>1. RegistryOK' /\ Frame
    BY <1>0, <1>a, <1>b, <1>9, RegistrationAssumption DEF RestartFails, At, StageOf, Fault, RegistryOK, Stages, Frame, leaseVars, fieldVars, noted
  <2>2. Goto(t, "ended") /\ "ended" \in StepsOf(t)
    BY <1>0, <1>9, <1>b DEF RestartFails, At, AppSteps, EtcdSteps, TickSteps, CallerSteps, InRegister
  <2> QED
    BY <1>0, <2>1, <2>2, GotoInv DEF TypeInv, InRegister
<1>10. CASE ConsulTick(t)
  <2>1. RegistryOK' /\ Frame /\ thr' = thr /\ kept' = kept /\ granted' = granted
    BY <1>0, <1>b, <1>10 DEF ConsulTick, RegistryOK, Stages, Frame, leaseVars, fieldVars, noted
  <2>2. ThreadsOK' /\ Stages'
    BY <1>0, <2>1 DEF ThreadsOK, ThreadRec, StepsOf, Stages, StageOf, Frame
  <2> QED
    BY <2>1, <2>2 DEF TypeInv
<1>11. CASE TickFails(t)
  <2>1. RegistryOK' /\ Frame
    BY <1>0, <1>a, <1>b, <1>11, RegistrationAssumption DEF TickFails, At, StageOf, Fault, RegistryOK, Stages, Frame, leaseVars, fieldVars, noted
  <2>2. Goto(t, "snapshot") /\ "snapshot" \in StepsOf(t)
    BY <1>0, <1>11, <1>b DEF TickFails, At, AppSteps, EtcdSteps, TickSteps, CallerSteps, InRegister
  <2> QED
    BY <1>0, <2>1, <2>2, GotoInv DEF TypeInv, InRegister
<1>12. CASE ZkTickMisses(t)
  <2>1. RegistryOK' /\ Frame
    BY <1>0, <1>a, <1>b, <1>12 DEF ZkTickMisses, At, StageOf, RegistryOK, Stages, Frame, leaseVars, fieldVars, noted
  <2>2. Goto(t, "create") /\ "create" \in StepsOf(t)
    BY <1>0, <1>12, <1>b DEF ZkTickMisses, At, AppSteps, EtcdSteps, TickSteps, CallerSteps, InRegister
  <2> QED
    BY <1>0, <2>1, <2>2, GotoInv DEF TypeInv, InRegister
<1>13. CASE ZkCreates(t)
  <2>1. RegistryOK' /\ Frame
    BY <1>0, <1>a, <1>b, <1>13, RegistrationAssumption DEF ZkCreates, At, StageOf, Fault, RegistryOK, Stages, Frame, leaseVars, fieldVars, noted
  <2>2. Goto(t, "tick") /\ "tick" \in StepsOf(t)
    BY <1>0, <1>13, <1>b DEF ZkCreates, At, AppSteps, EtcdSteps, TickSteps, CallerSteps, InRegister
  <2> QED
    BY <1>0, <2>1, <2>2, GotoInv DEF TypeInv, InRegister
<1>14. CASE ReadFails(t)
  <2>1. RegistryOK' /\ Frame
    BY <1>0, <1>14, RegistrationAssumption
    DEF ReadFails, Fault, RegistryOK, Stages, Frame, leaseVars, fieldVars, noted
  <2>2. Goto(t, "snapshot") /\ "snapshot" \in StepsOf(t)
    BY <1>14, <1>b, ThreadFacts DEF ReadFails, CallerSteps
  <2> QED
    BY <1>0, <2>1, <2>2, GotoInv DEF TypeInv, InRegister
<1> QED
  BY <1>1, <1>2, <1>3, <1>4, <1>5, <1>6, <1>7, <1>8, <1>9, <1>10, <1>11, <1>12, <1>13, <1>14

\* The registry loses something.
LEMMA LossTyped ==
  ASSUME TypeInv, (\E n \in live : LeaseExpires(n)) \/ (\E i \in Instances : NodeLost(i))
  PROVE  TypeInv'
<1>0. ThreadsOK /\ RegistryOK /\ Stages
  BY DEF TypeInv
<1>1. RegistryOK' /\ Frame /\ thr' = thr /\ kept' = kept /\ granted' = granted
  <2>1. CASE \E n \in live : LeaseExpires(n)
    BY <1>0, <2>1, RegistrationAssumption
    DEF LeaseExpires, Fault, Ends, RegistryOK, Stages, Frame, leaseVars, fieldVars, noted
  <2>2. CASE \E i \in Instances : NodeLost(i)
    <3>1. PICK i \in Instances : NodeLost(i)
      BY <2>2
    <3>2. PICK x \in {"absent", "critical"} : node' = [node EXCEPT ![i] = x]
      BY <3>1 DEF NodeLost
    <3> QED
      BY <1>0, <3>1, <3>2, RegistrationAssumption
      DEF NodeLost, Fault, RegistryOK, Stages, Frame, leaseVars, fieldVars, noted
  <2> QED
    BY <2>1, <2>2
<1>2. ThreadsOK' /\ Stages'
  BY <1>0, <1>1 DEF ThreadsOK, ThreadRec, StepsOf, Stages, StageOf, Frame
<1> QED
  BY <1>1, <1>2 DEF TypeInv

LEMMA StepTyped == TypeInv /\ [Next]_vars => TypeInv'
<1> SUFFICES ASSUME TypeInv, [Next]_vars PROVE TypeInv'
  OBVIOUS
<1>1. CASE \E i \in Instances : Register(i) \/ Deregister(i) \/ DeregisterStep(i) \/ DeleteFails(i)
  BY <1>1, ApplicationTyped
<1>2. CASE \E t \in Threads : ThreadStep(t) \/ CheckFails(t) \/ RestartFails(t) \/ ReadFails(t)
  BY <1>2, RegisterTyped, KeeperTyped DEF ThreadStep
<1>3. CASE (\E n \in live : LeaseExpires(n)) \/ (\E i \in Instances : NodeLost(i))
  BY <1>3, LossTyped
<1>4. CASE UNCHANGED vars
  BY <1>4 DEF vars, leaseVars, fieldVars, noted, TypeInv, ThreadsOK, ThreadRec, StepsOf, RegistryOK,
              Stages, StageOf
<1> QED
  BY <1>1, <1>2, <1>3, <1>4 DEF Next

\* In every state each goroutine is at a step its backend has, a call of
\* register that a recovery makes never returns like one of the application,
\* and every keeper listens to a channel KeepAlive returned.
THEOREM RegistrationTypeCorrect == Spec => []TypeOK
<1>1. Spec => []TypeInv
  BY InitTyped, StepTyped, PTL DEF Spec
<1>2. TypeInv => TypeOK
  BY TypeParts DEF TypeInv
<1> QED
  BY <1>1, <1>2, PTL

(***************************************************************************)
(* The lease in the field, with one instance on etcd, as long as no two    *)
(* goroutines have been inside register at once.  LeaseServesKey says      *)
(* nothing of the moment before a put; the invariant adds that nobody      *)
(* knows of an instance that has not been registered, and that whoever is  *)
(* about to grant a lease does so while no key is there: it looked, and    *)
(* nobody else has put one since.                                          *)
(***************************************************************************)
Mine  == Owned[backend] \cap Instances
Known == {i \in Mine : thr[App(i)].pc # "off"}

SoloThreads ==
  /\ services \subseteq Known
  /\ \A t \in Threads : /\ thr[t].todo \subseteq Known
                        /\ thr[t].pc \in InRegister => thr[t].inst \in Known
  /\ \A i \in Instances : thr[App(i)].pc = "off" => thr[App(i)].inst = i
  /\ \A t, u \in Threads : thr[t].pc \in InRegister /\ thr[u].pc \in InRegister => t = u

SoloLeases ==
  /\ \A i \in Instances : /\ lease[i] # 0 => i \in Known
                          /\ node[i] # "up" => lease[i] = 0
  /\ \A t \in Threads : thr[t].pc = "grant" => \A i \in Instances : lease[i] = 0

SoloState == SoloThreads /\ SoloLeases /\ FieldsFollow

Solo    == backend = "etcd" /\ Alone /\ ~overlap
SoloInv == Solo => SoloState

\* Thread t goes on to r; if it enters register, nobody else is inside.
LEMMA SoloMoves ==
  ASSUME SoloThreads, backend' = backend, NEW t \in Threads, NEW r, Becomes(t, r),
         IsApp(t) => r.pc # "off",
         services' \subseteq Known', r.todo \subseteq Known',
         r.pc \in InRegister =>
           /\ r.inst \in Known'
           /\ thr[t].pc \in InRegister \/ \A u \in Threads \ {t} : thr[u].pc \notin InRegister
  PROVE  SoloThreads' /\ Known \subseteq Known'
<1>1. Mine' = Mine
  BY DEF Mine
<1>2. \A i \in Instances : /\ thr[App(i)].pc # "off" => thr'[App(i)].pc # "off"
                           /\ thr'[App(i)].pc = "off" => thr'[App(i)] = thr[App(i)]
  BY ThreadFacts DEF Becomes
<1>3. Known \subseteq Known'
  BY <1>1, <1>2 DEF Known, Mine
<1>4. \A u \in Threads : /\ thr'[u].todo \subseteq Known'
                         /\ thr'[u].pc \in InRegister => thr'[u].inst \in Known'
  BY <1>3 DEF SoloThreads, Becomes
<1>5. \A u, v \in Threads : thr'[u].pc \in InRegister /\ thr'[v].pc \in InRegister => u = v
  BY DEF SoloThreads, Becomes
<1> QED
  BY <1>2, <1>3, <1>4, <1>5 DEF SoloThreads

\* A step of one thread, given what it does to the registry.
LEMMA SoloStep ==
  ASSUME SoloState, backend' = backend, NEW t \in Threads, NEW r, Becomes(t, r),
         IsApp(t) => r.pc # "off",
         services' \subseteq Known', r.todo \subseteq Known',
         r.pc \in InRegister =>
           /\ r.inst \in Known'
           /\ thr[t].pc \in InRegister \/ \A u \in Threads \ {t} : thr[u].pc \notin InRegister,
         \A i \in Instances : /\ node'[i] # "up" => lease'[i] = 0
                              /\ lease'[i] # 0 => /\ i \in Known /\ lease'[i] = leaseID'
                                                  /\ leaseID' \in live',
         \A u \in Threads : thr'[u].pc = "grant" => \A i \in Instances : lease'[i] = 0,
         (\E i \in Instances : lease'[i] # 0) =>
           \/ leaseID' \in kept' \cup unsure' \/ keepAliveCh' = 0
           \/ \E u \in Threads : thr'[u].pc = "keep"
  PROVE  SoloState'
<1>1. SoloThreads' /\ Known \subseteq Known'
  BY SoloMoves DEF SoloState
<1>2. SoloLeases'
  BY <1>1 DEF SoloLeases
<1>3. FieldsFollow'
  BY DEF FieldsFollow, At
<1> QED
  BY <1>1, <1>2, <1>3 DEF SoloState

\* What a step may do to the registry that puts no key there and leaves the
\* field alone.
OnlyLost == /\ leaseID' = leaseID /\ kept \subseteq kept' /\ unsure \subseteq unsure'
            /\ \A i \in Instances : /\ lease'[i] \in {lease[i], 0}
                                    /\ node'[i] # "up" => lease'[i] = 0
                                    /\ lease'[i] # 0 => leaseID \in live'

LEMMA NothingLost ==
  ASSUME SoloState, UNCHANGED <<node, lease, live, kept, leaseID, unsure>>
  PROVE  OnlyLost
BY DEF OnlyLost, SoloState, SoloLeases, FieldsFollow

\* A step of one thread that neither is nor gets inside register, or leaves
\* it; if it leaves the request for KeepAlive, that was made or failed.
LEMMA QuietMove ==
  ASSUME SoloState, OnlyLost, backend' = backend, services' \subseteq Known,
         NEW t \in Threads, NEW r, Becomes(t, r),
         IsApp(t) => r.pc # "off", r.pc \notin InRegister, r.todo \subseteq Known,
         keepAliveCh' \in {keepAliveCh, 0} \/ leaseID \in kept',
         thr[t].pc = "keep" => leaseID \in kept' \/ keepAliveCh' = 0
  PROVE  SoloState'
<1>1. Known \subseteq Known'
  BY ThreadFacts DEF Known, Mine, Becomes
<1>2. \A i \in Instances : /\ node'[i] # "up" => lease'[i] = 0
                           /\ lease'[i] # 0 => /\ i \in Known /\ lease'[i] = leaseID'
                                               /\ leaseID' \in live'
  BY DEF OnlyLost, SoloState, SoloLeases, FieldsFollow
<1>3. ASSUME NEW u \in Threads, thr'[u].pc = "grant"
      PROVE  \A i \in Instances : lease'[i] = 0
  <2>1. thr[u].pc = "grant"
    BY <1>3 DEF Becomes, InRegister
  <2> QED
    BY <2>1 DEF OnlyLost, SoloState, SoloLeases
<1>4. ASSUME NEW i \in Instances, lease'[i] # 0
      PROVE  \/ leaseID' \in kept' \cup unsure' \/ keepAliveCh' = 0
             \/ \E u \in Threads : thr'[u].pc = "keep"
  <2>1. lease[i] # 0
    BY <1>4 DEF OnlyLost
  <2>2. leaseID \in kept \cup unsure \/ keepAliveCh = 0 \/ \E u \in Threads : thr[u].pc = "keep"
    BY <2>1 DEF SoloState, FieldsFollow, At
  <2>3. CASE leaseID \in kept \cup unsure \/ keepAliveCh = 0
    BY <2>3 DEF OnlyLost
  <2>4. CASE \E u \in Threads : thr[u].pc = "keep"
    <3>1. PICK u \in Threads : thr[u].pc = "keep"
      BY <2>4
    <3>2. CASE u = t
      BY <3>1, <3>2 DEF OnlyLost
    <3>3. CASE u # t
      BY <3>1, <3>3 DEF Becomes
    <3> QED
      BY <3>2, <3>3
  <2> QED
    BY <2>2, <2>3, <2>4
<1> QED
  BY <1>1, <1>2, <1>3, <1>4, SoloStep

\* The same of a thread that only goes to another step.
LEMMA QuietGoto ==
  ASSUME SoloState, TypeInv, OnlyLost, backend' = backend, services' \subseteq Known,
         NEW t \in Threads, NEW pc, Goto(t, pc), pc \notin {"off"} \cup InRegister,
         keepAliveCh' \in {keepAliveCh, 0} \/ leaseID \in kept',
         thr[t].pc = "keep" => leaseID \in kept' \/ keepAliveCh' = 0
  PROVE  SoloState'
<1> DEFINE r == [thr[t] EXCEPT !.pc = pc]
<1>1. thr[t] \in ThreadRec /\ ThreadsOK
  BY DEF TypeInv, ThreadsOK
<1>2. r.pc = pc /\ r.todo = thr[t].todo
  BY <1>1 DEF ThreadRec
<1>3. Becomes(t, r)
  BY <1>1, GotoMoves
<1>4. r.todo \subseteq Known
  BY <1>2 DEF SoloState, SoloThreads
<1> HIDE DEF r
<1> QED
  BY <1>2, <1>3, <1>4, QuietMove

\* Where a thread stands that has finished a check, or left register with an
\* error.
Leaves(t, r) == /\ Becomes(t, r) /\ r.pc \notin InRegister /\ r.todo \subseteq Known
                /\ IsApp(t) => r.pc # "off"

LEMMA RestsLeaves ==
  ASSUME ThreadsOK, backend = "etcd", NEW t \in Threads, ~IsApp(t), Rests(t)
  PROVE  \E r : Leaves(t, r)
<1>1. Becomes(t, Fresh(t, Rest(t))) /\ Rest(t) \in {"off", "loop", "tick"}
  BY RestsMoves
<1>2. Leaves(t, Fresh(t, Rest(t)))
  BY <1>1 DEF Leaves, Fresh, InRegister
<1> QED
  BY <1>2

LEMMA GivesUpLeaves ==
  ASSUME SoloState, TypeInv, backend = "etcd", NEW t \in Threads, thr[t].pc \in InRegister,
         GivesUp(t)
  PROVE  \E r : Leaves(t, r)
<1>0. ThreadsOK /\ thr[t] \in ThreadRec /\ thr[t].todo \subseteq Known /\ thr[t].inst \in Known
  BY DEF TypeInv, ThreadsOK, SoloState, SoloThreads
<1>1. CASE IsApp(t)
  <2> DEFINE r == [thr[t] EXCEPT !.pc = "failed"]
  <2>1. Becomes(t, r)
    BY <1>0, <1>1, GotoMoves DEF GivesUp
  <2>2. r.pc = "failed" /\ r.todo = thr[t].todo
    BY <1>0 DEF ThreadRec
  <2> HIDE DEF r
  <2> QED
    BY <1>0, <2>1, <2>2 DEF Leaves, InRegister
<1>2. CASE ~IsApp(t) /\ Rests(t)
  BY <1>0, <1>2, RestsLeaves
<1>3. CASE ~IsApp(t) /\ thr' = [thr EXCEPT ![t].pc = "check", ![t].todo = @ \cup {thr[t].inst}]
  <2> DEFINE r == [thr[t] EXCEPT !.pc = "check", !.todo = @ \cup {thr[t].inst}]
  <2>1. thr' = [thr EXCEPT ![t] = r]
    BY <1>0, <1>3 DEF ThreadsOK, ThreadRec
  <2>2. r.pc = "check" /\ r.todo = thr[t].todo \cup {thr[t].inst}
    BY <1>0 DEF ThreadRec
  <2> HIDE DEF r
  <2>3. Becomes(t, r)
    BY <1>0, <2>1, OneMoves
  <2> QED
    BY <1>0, <2>2, <2>3 DEF Leaves, InRegister
<1> QED
  BY <1>1, <1>2, <1>3 DEF GivesUp

LEMMA InitSolo == Init => SoloInv
BY ThreadFacts
DEF Init, Fresh, SoloInv, SoloState, SoloThreads, SoloLeases, FieldsFollow, InRegister, Known

LEMMA ApplicationServes ==
  ASSUME Solo, Solo', SoloState, TypeInv, NEW i \in Instances,
         Register(i) \/ Deregister(i) \/ DeregisterStep(i) \/ DeleteFails(i)
  PROVE  SoloState'
<1> DEFINE t == App(i)
<1>0. t \in Threads /\ IsApp(t) /\ t[2] = i /\ backend = "etcd" /\ services \subseteq Known
  BY ThreadFacts DEF Solo, SoloState, SoloThreads
<1>a. ThreadsOK /\ RegistryOK /\ Stages /\ thr[t] \in ThreadRec
  BY <1>0 DEF TypeInv, ThreadsOK
<1>1. CASE Register(i)
  <2>1. /\ backend' = backend /\ i \in Mine /\ services' = services \cup {i} /\ thr[t].pc = "off"
        /\ Goto(t, "grant") /\ UNCHANGED <<node, lease, live, kept, leaseID, keepAliveCh>>
    BY <1>0, <1>1 DEF Register, At, Goto, Mine, leaseVars, fieldVars
  <2>2. \A j \in Instances : lease'[j] = 0
    <3>1. \A j \in Mine : j = i
      BY <1>0, <2>1 DEF Solo, Alone, Mine
    <3> QED
      BY <1>0, <2>1, <3>1 DEF SoloState, SoloLeases, Known
  <2> DEFINE r == [thr[t] EXCEPT !.pc = "grant"]
  <2>3. r.pc = "grant" /\ r.todo = thr[t].todo /\ r.inst = thr[t].inst
    BY <1>a DEF ThreadRec
  <2>4. Becomes(t, r)
    BY <1>0, <1>a, <2>1, GotoMoves
  <2> HIDE DEF r
  <2>5. Known' = Known \cup {i}
    BY <1>0, <2>1, <2>3, <2>4, ThreadFacts DEF Known, Mine, Becomes
  <2>6. r.todo \subseteq Known' /\ r.inst \in Known' /\ services' \subseteq Known'
    BY <1>0, <2>1, <2>3, <2>5 DEF SoloState, SoloThreads
  <2>7. \A u \in Threads \ {t} : thr[u].pc \notin InRegister
    BY <1>0, <1>1 DEF Register, Enters, Solo
  <2> HIDE DEF t
  <2> QED
    BY <1>0, <2>1, <2>2, <2>3, <2>4, <2>6, <2>7, RegistrationAssumption, SoloStep DEF RegistryOK
<1>2. CASE Deregister(i)
  <2>1. /\ Goto(t, "delete") /\ thr[t].pc = "registered" /\ backend' = backend
        /\ UNCHANGED <<node, lease, live, kept, services, leaseID, keepAliveCh, unsure>>
    BY <1>2 DEF Deregister, At, leaseVars, fieldVars, noted
  <2> QED
    BY <1>0, <2>1, NothingLost, QuietGoto DEF InRegister
<1>3. CASE Delete(i)
  <2>1. /\ Goto(t, "revoke") /\ thr[t].pc = "delete" /\ backend' = backend
        /\ UNCHANGED <<live, kept, services, leaseID, keepAliveCh, unsure>> /\ Removes(i)
    BY <1>0, <1>3 DEF Delete, At, fieldVars, noted
  <2>2. OnlyLost
    BY <1>a, <2>1 DEF OnlyLost, Removes, RegistryOK, SoloState, SoloLeases, FieldsFollow
  <2> QED
    BY <1>0, <2>1, <2>2, QuietGoto DEF InRegister
<1>4. CASE Revoke(i)
  <2>1. /\ Goto(t, "forget") /\ thr[t].pc = "revoke" /\ backend' = backend
        /\ UNCHANGED <<kept, services, leaseID, keepAliveCh, unsure>>
    BY <1>4 DEF Revoke, Ends, At, leaseVars, fieldVars, noted
  <2>2. OnlyLost
    <3>1. CASE Ends(leaseID)
      BY <1>a, <2>1, <3>1 DEF OnlyLost, Ends, SoloState, SoloLeases, FieldsFollow
    <3>2. CASE UNCHANGED <<node, leaseVars>>
      BY <2>1, <3>2, NothingLost DEF leaseVars
    <3> QED
      BY <1>4, <3>1, <3>2 DEF Revoke
  <2> QED
    BY <1>0, <2>1, <2>2, QuietGoto DEF InRegister
<1>5. CASE Forget(i)
  <2>1. /\ Goto(t, "gone") /\ thr[t].pc = "forget" /\ backend' = backend
        /\ services' \subseteq Known
        /\ UNCHANGED <<node, lease, live, kept, leaseID, keepAliveCh, unsure>>
    BY <1>0, <1>5 DEF Forget, At, leaseVars, fieldVars, noted
  <2> QED
    BY <1>0, <2>1, NothingLost, QuietGoto DEF InRegister
<1>6. CASE DeleteFails(i)
  <2>1. /\ Goto(t, "registered") /\ thr[t].pc = "delete" /\ backend' = backend
        /\ UNCHANGED <<live, kept, services, leaseID, keepAliveCh, unsure>>
        /\ Removes(i) \/ UNCHANGED <<node, lease>>
    BY <1>0, <1>6 DEF DeleteFails, At, fieldVars, noted
  <2>2. OnlyLost
    BY <1>a, <2>1, NothingLost
    DEF OnlyLost, Removes, RegistryOK, SoloState, SoloLeases, FieldsFollow
  <2> QED
    BY <1>0, <2>1, <2>2, QuietGoto DEF InRegister
<1> QED
  BY <1>1, <1>2, <1>3, <1>4, <1>5, <1>6 DEF DeregisterStep

\* A put, with its reply or without; t goes on to r.
LEMMA PutServes ==
  ASSUME Solo, SoloState, TypeInv, NEW t \in Threads, thr[t].pc = "put",
         Appears(thr[t].inst), UNCHANGED <<backend, services, leaseID>>,
         NEW r, Becomes(t, r), r.pc # "grant", IsApp(t) => r.pc # "off", r.todo \subseteq Known,
         r.pc \in InRegister => r.inst = thr[t].inst,
         leaseID \in unsure' \/ r.pc = "keep"
  PROVE  SoloState'
<1> DEFINE e == thr[t].inst
<1>1. e \in Known /\ RegistryOK /\ backend = "etcd"
  BY DEF SoloState, SoloThreads, TypeInv, InRegister, Solo
<1>2. e \in Instances /\ Known \subseteq Known'
  BY <1>1, ThreadFacts DEF Known, Mine, Becomes
<1>3. /\ node' = [node EXCEPT ![e] = "up"] /\ lease' = [lease EXCEPT ![e] = leaseID]
      /\ leaseID \in live /\ live' = live /\ kept' = kept
  BY <1>1 DEF Appears
<1>4. \A i \in Instances : /\ node'[i] # "up" => lease'[i] = 0
                           /\ lease'[i] # 0 => i \in Known /\ lease'[i] = leaseID' /\ leaseID' \in live'
  BY <1>1, <1>2, <1>3 DEF RegistryOK, SoloState, SoloLeases, FieldsFollow
<1>5. \A u \in Threads : thr'[u].pc # "grant"
  BY DEF SoloState, SoloThreads, Becomes, InRegister
<1>6. leaseID' \in unsure' \/ \E u \in Threads : thr'[u].pc = "keep"
  BY DEF Becomes
<1>7. services' \subseteq Known' /\ r.todo \subseteq Known' /\ (r.pc \in InRegister => r.inst \in Known')
  BY <1>1, <1>2 DEF SoloState, SoloThreads
<1>8. thr[t].pc \in InRegister
  BY DEF InRegister
<1> HIDE DEF e
<1> QED
  BY <1>4, <1>5, <1>6, <1>7, <1>8, SoloStep

LEMMA RegisterServes ==
  ASSUME Solo, SoloState, TypeInv, NEW t \in Threads,
         Grant(t) \/ EtcdPut(t) \/ KeepAlive(t) \/ RegisterFails(t) \/ ReplyLost(t)
  PROVE  SoloState'
<1>0. /\ backend = "etcd" /\ services \subseteq Known
      /\ ThreadsOK /\ RegistryOK /\ Stages /\ thr[t] \in ThreadRec /\ thr[t].pc \in StepsOf(t)
      /\ thr[t].todo \subseteq Known /\ (thr[t].pc \in InRegister => thr[t].inst \in Known)
  BY DEF Solo, SoloState, SoloThreads, TypeInv, ThreadsOK
<1>1. CASE Grant(t)
  <2> DEFINE r == [thr[t] EXCEPT !.pc = "put"]
  <2>1. /\ Goto(t, "put") /\ thr[t].pc = "grant" /\ backend' = backend
        /\ UNCHANGED <<node, lease, services>>
    BY <1>1 DEF Grant, At
  <2>2. \A j \in Instances : lease'[j] = 0
    BY <2>1 DEF SoloState, SoloLeases
  <2>3. r.pc = "put" /\ r.todo = thr[t].todo /\ r.inst = thr[t].inst
    BY <1>0 DEF ThreadRec
  <2>4. Becomes(t, r)
    BY <1>0, <2>1, GotoMoves
  <2> HIDE DEF r
  <2>5. Known \subseteq Known'
    BY <2>1, <2>3, <2>4, ThreadFacts DEF Known, Mine, Becomes
  <2> QED
    BY <1>0, <2>1, <2>2, <2>3, <2>4, <2>5, SoloStep DEF InRegister
<1>2. CASE EtcdPut(t)
  <2> DEFINE r == [thr[t] EXCEPT !.pc = "keep"]
  <2>1. /\ Goto(t, "keep") /\ thr[t].pc = "put" /\ Appears(thr[t].inst)
        /\ UNCHANGED <<backend, services, leaseID>>
    BY <1>2 DEF EtcdPut, At, fieldVars
  <2>2. r.pc = "keep" /\ r.todo = thr[t].todo /\ r.inst = thr[t].inst
    BY <1>0 DEF ThreadRec
  <2>3. Becomes(t, r)
    BY <1>0, <2>1, GotoMoves
  <2> HIDE DEF r
  <2> QED
    BY <1>0, <2>1, <2>2, <2>3, PutServes
<1>3. CASE KeepAlive(t)
  <2>1. /\ Returns(t) /\ thr[t].pc = "keep" /\ backend' = backend
        /\ keepAliveCh' = leaseID /\ leaseID \in kept' /\ kept \subseteq kept'
        /\ UNCHANGED <<services, node, lease, live, leaseID, unsure>>
    BY <1>3 DEF KeepAlive, At, noted
  <2>2. OnlyLost
    BY <2>1 DEF OnlyLost, SoloState, SoloLeases, FieldsFollow
  <2>3. CASE ~IsApp(t)
    <3>1. Goto(t, "check")
      BY <2>1, <2>3 DEF Returns, Goto
    <3> QED
      BY <1>0, <2>1, <2>2, <3>1, QuietGoto DEF InRegister
  <2>4. CASE IsApp(t)
    <3> DEFINE u == Keeper(t[2])
    <3>1. /\ u \in Threads /\ u # t /\ ~IsApp(u) /\ t = App(t[2]) /\ t[2] \in Instances
      BY <2>4, ThreadFacts
    <3>2. thr' = [thr EXCEPT ![t].pc = "registered", ![u].pc = "loop"]
      BY <1>0, <2>1, <2>4 DEF Returns
    <3> HIDE DEF u
    <3>3. /\ thr'[t] = [thr[t] EXCEPT !.pc = "registered"]
          /\ thr'[u] = [thr[u] EXCEPT !.pc = "loop"]
          /\ \A v \in Threads \ {t, u} : thr'[v] = thr[v]
      BY <1>0, <3>1, <3>2 DEF ThreadsOK
    <3>4. thr[u] \in ThreadRec /\ thr[u].todo \subseteq Known
      BY <1>0, <3>1 DEF ThreadsOK, SoloState, SoloThreads
    <3>5. /\ thr'[t].pc = "registered" /\ thr'[t].todo = thr[t].todo
          /\ thr'[u].pc = "loop" /\ thr'[u].todo = thr[u].todo
      BY <1>0, <3>3, <3>4 DEF ThreadRec
    <3>6. Known' = Known
      <4>1. \A j \in Instances : App(j) # u
        BY <3>1, ThreadFacts
      <4>2. \A j \in Instances : thr'[App(j)].pc = "off" <=> thr[App(j)].pc = "off"
        BY <2>1, <3>3, <3>5, <4>1, ThreadFacts
      <4> QED
        BY <2>1, <4>2 DEF Known, Mine
    <3>7. SoloThreads'
      <4>1. \A v \in Threads : /\ thr'[v].todo \subseteq Known
                               /\ thr'[v].pc \in InRegister => v \notin {t, u} /\ thr'[v] = thr[v]
        BY <1>0, <3>3, <3>4, <3>5 DEF SoloState, SoloThreads, InRegister
      <4>2. \A j \in Instances : thr'[App(j)].pc = "off" => thr'[App(j)].inst = j
        <5>1. \A j \in Instances : thr'[App(j)].pc = "off" => App(j) \notin {t, u}
          BY <3>5
        <5> QED
          BY <3>3, <5>1, ThreadFacts DEF SoloState, SoloThreads
      <4>3. services' \subseteq Known'
        BY <1>0, <2>1, <3>6
      <4> QED
        BY <3>6, <4>1, <4>2, <4>3 DEF SoloState, SoloThreads
    <3>8. SoloLeases'
      <4>1. \A v \in Threads : thr'[v].pc = "grant" => thr[v].pc = "grant"
        BY <3>3, <3>5
      <4> QED
        BY <2>1, <3>6, <4>1 DEF SoloState, SoloLeases
    <3>9. FieldsFollow'
      BY <2>1 DEF SoloState, FieldsFollow
    <3> QED
      BY <3>7, <3>8, <3>9 DEF SoloState
  <2> QED
    BY <2>3, <2>4
<1>4. CASE RegisterFails(t)
  <2>1. /\ thr[t].pc \in InRegister /\ backend' = backend /\ GivesUp(t)
        /\ UNCHANGED <<services, node, lease, live, kept, leaseID, unsure>>
        /\ keepAliveCh' = IF thr[t].pc = "keep" THEN 0 ELSE keepAliveCh
    BY <1>4 DEF RegisterFails, At, InRegister, leaseVars, noted
  <2>2. PICK r : Leaves(t, r)
    BY <1>0, <2>1, GivesUpLeaves
  <2> QED
    BY <1>0, <2>1, <2>2, NothingLost, QuietMove DEF Leaves
<1>5. CASE ReplyLost(t)
  <2>1. /\ thr[t].pc = "put" /\ Appears(thr[t].inst) /\ UNCHANGED <<backend, services, leaseID>>
        /\ leaseID \in unsure' /\ (GivesUp(t) \/ UNCHANGED thr)
    BY <1>0, <1>5 DEF ReplyLost, At, fieldVars
  <2>2. CASE GivesUp(t)
    <3>1. PICK r : Leaves(t, r)
      BY <1>0, <2>1, <2>2, GivesUpLeaves DEF InRegister
    <3> QED
      BY <1>0, <2>1, <3>1, PutServes DEF Leaves, InRegister
  <2>3. CASE UNCHANGED thr
    <3>1. Becomes(t, thr[t])
      BY <1>0, <2>3 DEF Becomes, ThreadsOK
    <3> QED
      BY <1>0, <2>1, <3>1, PutServes
  <2> QED
    BY <2>1, <2>2, <2>3
<1> QED
  BY <1>1, <1>2, <1>3, <1>4, <1>5

LEMMA KeeperServes ==
  ASSUME Solo, Solo', SoloState, TypeInv, NEW t \in Threads,
         \/ ReadFails(t) \/ Snapshot(t) \/ Checks(t) \/ CheckFails(t) \/ EntersSelect(t)
         \/ HeartbeatAnswered(t) \/ ChannelCloses(t) \/ Recovers(t) \/ RestartsKeepAlive(t)
         \/ RestartFails(t)
  PROVE  SoloState'
<1>0. /\ backend = "etcd" /\ services \subseteq Known
      /\ ThreadsOK /\ RegistryOK /\ Stages /\ thr[t] \in ThreadRec /\ thr[t].pc \in StepsOf(t)
      /\ thr[t].todo \subseteq Known
  BY DEF Solo, SoloState, SoloThreads, TypeInv, ThreadsOK
<1>1. CASE Snapshot(t)
  <2> DEFINE r == [thr[t] EXCEPT !.pc = "check", !.todo = services]
  <2>1. /\ thr[t].pc = "snapshot" /\ backend' = backend
        /\ UNCHANGED <<services, node, lease, live, kept, leaseID, keepAliveCh, unsure>>
    BY <1>1 DEF Snapshot, At, leaseVars, fieldVars, noted
  <2>2. thr' = [thr EXCEPT ![t] = r]
    BY <1>0, <1>1 DEF Snapshot, ThreadsOK, ThreadRec
  <2>3. r.pc = "check" /\ r.todo = services
    BY <1>0 DEF ThreadRec
  <2> HIDE DEF r
  <2>4. Becomes(t, r)
    BY <1>0, <2>2, OneMoves
  <2> QED
    BY <1>0, <2>1, <2>3, <2>4, NothingLost, QuietMove DEF InRegister
<1>2. CASE Checks(t)
  <2>1. /\ thr[t].pc = "check" /\ backend' = backend
        /\ UNCHANGED <<services, node, lease, live, kept, leaseID, keepAliveCh, unsure>>
    BY <1>2 DEF Checks, At, leaseVars, fieldVars
  <2>2. ~IsApp(t)
    BY <1>0, <2>1 DEF StepsOf, AppSteps, InRegister
  <2>3. CASE Rests(t)
    <3>1. PICK r : Leaves(t, r)
      BY <1>0, <2>2, <2>3, RestsLeaves
    <3> QED
      BY <1>0, <2>1, <3>1, NothingLost, QuietMove DEF Leaves
  <2>4. CASE \E j \in thr[t].todo :
               /\ thr' = [thr EXCEPT ![t].pc = IF node[j] = "up" THEN "check" ELSE "grant",
                                     ![t].inst = j, ![t].todo = @ \ {j}]
               /\ IF node[j] = "up" THEN UNCHANGED overlap ELSE Enters(t)
    <3>1. PICK j \in thr[t].todo :
            /\ thr' = [thr EXCEPT ![t].pc = IF node[j] = "up" THEN "check" ELSE "grant",
                                  ![t].inst = j, ![t].todo = @ \ {j}]
            /\ IF node[j] = "up" THEN UNCHANGED overlap ELSE Enters(t)
      BY <2>4
    <3> DEFINE pc == IF node[j] = "up" THEN "check" ELSE "grant"
               r  == [thr[t] EXCEPT !.pc = pc, !.inst = j, !.todo = @ \ {j}]
    <3>2. thr' = [thr EXCEPT ![t] = r]
      BY <1>0, <3>1 DEF ThreadsOK, ThreadRec
    <3>3. r.pc = pc /\ r.inst = j /\ r.todo = thr[t].todo \ {j}
      BY <1>0 DEF ThreadRec
    <3>4. j \in Known /\ r.todo \subseteq Known
      BY <1>0, <3>3
    <3>5. Becomes(t, r)
      BY <1>0, <3>2, OneMoves
    <3>6. CASE node[j] = "up"
      <4>1. r.pc = "check"
        BY <3>3, <3>6
      <4> HIDE DEF r, pc
      <4> QED
        BY <1>0, <2>1, <3>4, <3>5, <4>1, NothingLost, QuietMove DEF InRegister
    <3>7. CASE node[j] # "up"
      <4>1. r.pc = "grant"
        BY <3>3, <3>7
      <4> HIDE DEF r, pc
      <4>2. \A k \in Instances : lease'[k] = 0
        <5>1. \A k \in Known : k = j
          BY <1>0, <3>4 DEF Solo, Alone, Known, Mine
        <5>2. lease[j] = 0
          BY <3>4, <3>7 DEF SoloState, SoloLeases, Known, Mine
        <5> QED
          BY <2>1, <5>1, <5>2 DEF SoloState, SoloLeases
      <4>3. \A u \in Threads \ {t} : thr[u].pc \notin InRegister
        BY <1>0, <3>1, <3>7 DEF Enters, Solo
      <4>4. Known \subseteq Known'
        BY <2>1, <2>2, <3>5, ThreadFacts DEF Known, Mine, Becomes
      <4> QED
        BY <1>0, <2>1, <2>2, <3>3, <3>4, <3>5, <4>1, <4>2, <4>3, <4>4, SoloStep
    <3> QED
      BY <3>6, <3>7
  <2> QED
    BY <1>0, <1>2, <2>3, <2>4 DEF Checks
<1>3. CASE CheckFails(t)
  <2>1. /\ thr[t].pc = "check" /\ backend' = backend /\ Rests(t)
        /\ UNCHANGED <<services, node, lease, live, kept, leaseID, keepAliveCh, unsure>>
    BY <1>3 DEF CheckFails, At, leaseVars, fieldVars, noted
  <2>2. ~IsApp(t)
    BY <1>0, <2>1 DEF StepsOf, AppSteps, InRegister
  <2>3. PICK r : Leaves(t, r)
    BY <1>0, <2>1, <2>2, RestsLeaves
  <2> QED
    BY <1>0, <2>1, <2>3, NothingLost, QuietMove DEF Leaves
<1>4. CASE EntersSelect(t)
  <2> DEFINE r == [thr[t] EXCEPT !.pc = "select", !.ch = keepAliveCh]
  <2>1. /\ thr[t].pc = "loop" /\ backend' = backend
        /\ UNCHANGED <<services, node, lease, live, kept, leaseID, keepAliveCh, unsure>>
    BY <1>4 DEF EntersSelect, At, leaseVars, fieldVars, noted
  <2>2. thr' = [thr EXCEPT ![t] = r]
    BY <1>0, <1>4 DEF EntersSelect, ThreadsOK, ThreadRec
  <2>3. r.pc = "select" /\ r.todo = thr[t].todo
    BY <1>0 DEF ThreadRec
  <2> HIDE DEF r
  <2>4. Becomes(t, r)
    BY <1>0, <2>2, OneMoves
  <2> QED
    BY <1>0, <2>1, <2>3, <2>4, NothingLost, QuietMove DEF InRegister
<1>5. CASE HeartbeatAnswered(t)
  <2>1. /\ thr[t].pc = "select" /\ backend' = backend /\ Rests(t)
        /\ UNCHANGED <<services, node, lease, live, kept, leaseID, keepAliveCh, unsure>>
    BY <1>5 DEF HeartbeatAnswered, At, leaseVars, fieldVars, noted
  <2>2. ~IsApp(t)
    BY <1>0, <2>1 DEF StepsOf, AppSteps, InRegister
  <2>3. PICK r : Leaves(t, r)
    BY <1>0, <2>1, <2>2, RestsLeaves
  <2> QED
    BY <1>0, <2>1, <2>3, NothingLost, QuietMove DEF Leaves
<1>6. CASE ChannelCloses(t)
  <2>1. /\ thr[t].pc = "select" /\ backend' = backend /\ Goto(t, "recover")
        /\ UNCHANGED <<services, node, lease, live, kept, leaseID, keepAliveCh, unsure>>
    BY <1>6 DEF ChannelCloses, At, leaseVars, fieldVars, noted
  <2> QED
    BY <1>0, <2>1, NothingLost, QuietGoto DEF InRegister
<1>7. CASE Recovers(t)
  <2>1. /\ thr[t].pc = "recover" /\ backend' = backend /\ Goto(t, "rekeep") /\ keepAliveCh' = 0
        /\ UNCHANGED <<services, node, lease, live, kept, leaseID, unsure>>
    BY <1>7 DEF Recovers, At, leaseVars, noted
  <2> QED
    BY <1>0, <2>1, NothingLost, QuietGoto DEF InRegister
<1>8. CASE RestartsKeepAlive(t)
  <2>1. /\ thr[t].pc = "rekeep" /\ backend' = backend /\ Goto(t, "snapshot")
        /\ kept \subseteq kept' /\ leaseID \in kept'
        /\ UNCHANGED <<services, node, lease, live, leaseID, unsure>>
    BY <1>8 DEF RestartsKeepAlive, At, noted
  <2>2. OnlyLost
    BY <2>1 DEF OnlyLost, SoloState, SoloLeases, FieldsFollow
  <2> QED
    BY <1>0, <2>1, <2>2, QuietGoto DEF InRegister
<1>9. CASE RestartFails(t)
  <2>1. /\ thr[t].pc = "rekeep" /\ backend' = backend /\ Goto(t, "ended") /\ keepAliveCh' = 0
        /\ UNCHANGED <<services, node, lease, live, kept, leaseID, unsure>>
    BY <1>9 DEF RestartFails, At, leaseVars, noted
  <2> QED
    BY <1>0, <2>1, NothingLost, QuietGoto DEF InRegister
<1>10. CASE ReadFails(t)
  <2>1. /\ thr[t].pc = "off" /\ backend' = backend /\ Goto(t, "snapshot")
        /\ UNCHANGED <<services, node, lease, live, kept, leaseID, keepAliveCh, unsure>>
    BY <1>10 DEF ReadFails, At, leaseVars, fieldVars, noted
  <2> QED
    BY <1>0, <2>1, NothingLost, QuietGoto DEF InRegister
<1> QED
  BY <1>1, <1>2, <1>3, <1>4, <1>5, <1>6, <1>7, <1>8, <1>9, <1>10

LEMMA ExpiryServes ==
  ASSUME SoloState, TypeInv, NEW n \in live, LeaseExpires(n)
  PROVE  SoloState'
<1>1. /\ backend' = backend /\ thr' = thr /\ live' = live \ {n}
      /\ UNCHANGED <<services, kept, leaseID, keepAliveCh, unsure>>
      /\ node' = [i \in Instances |-> IF lease[i] = n THEN "absent" ELSE node[i]]
      /\ lease' = [i \in Instances |-> IF lease[i] = n THEN 0 ELSE lease[i]]
  BY DEF LeaseExpires, Ends, fieldVars, noted
<1>2. Known' = Known
  BY <1>1 DEF Known, Mine
<1>3. SoloThreads'
  BY <1>1, <1>2 DEF SoloState, SoloThreads
<1>4. SoloLeases' /\ FieldsFollow'
  BY <1>1, <1>2 DEF SoloState, SoloLeases, FieldsFollow, At
<1> QED
  BY <1>3, <1>4 DEF SoloState

LEMMA StepServes == TypeInv /\ SoloInv /\ [Next]_vars => SoloInv'
<1> SUFFICES ASSUME TypeInv, SoloInv, [Next]_vars PROVE SoloInv'
  OBVIOUS
<1>0. overlap' = overlap \/ \E t \in Threads : Enters(t)
  BY ThreadFacts
  DEF Next, vars, Register, Deregister, DeregisterStep, DeleteFails, NodeLost, ThreadStep,
         CheckFails, RestartFails, ReadFails, LeaseExpires, Delete, Revoke, Forget, Grant, EtcdPut,
         KeepAlive, ConsulPut, ZkPut, RegisterFails, ReplyLost, Snapshot, Checks, EntersSelect,
         HeartbeatAnswered, ChannelCloses, Recovers, RestartsKeepAlive, ConsulTick, TickFails,
         ZkTickMisses, ZkCreates, noted
<1>a. overlap => overlap'
  BY <1>0, Zenon DEF Enters
<1>b. backend' = backend
  BY DEF Next, vars, Register, Deregister, DeregisterStep, DeleteFails, NodeLost, ThreadStep,
         CheckFails, RestartFails, ReadFails, LeaseExpires, Delete, Revoke, Forget, Grant, EtcdPut,
         KeepAlive, ConsulPut, ZkPut, RegisterFails, ReplyLost, Snapshot, Checks, EntersSelect,
         HeartbeatAnswered, ChannelCloses, Recovers, RestartsKeepAlive, ConsulTick, TickFails,
         ZkTickMisses, ZkCreates
<1>1. backend' = backend /\ (overlap => overlap')
  BY <1>a, <1>b
<1>2. SUFFICES ASSUME Solo' PROVE SoloState'
  BY DEF SoloInv
<1>3. Solo /\ SoloState /\ backend = "etcd"
  BY <1>1, <1>2 DEF SoloInv, Solo, Alone
<1>4. CASE \E i \in Instances : Register(i) \/ Deregister(i) \/ DeregisterStep(i) \/ DeleteFails(i)
  BY <1>2, <1>3, <1>4, ApplicationServes
<1>5. CASE \E i \in Instances : NodeLost(i)
  BY <1>3, <1>5 DEF NodeLost
<1>6. CASE \E t \in Threads : ThreadStep(t) \/ CheckFails(t) \/ RestartFails(t) \/ ReadFails(t)
  <2>1. PICK t \in Threads : ThreadStep(t) \/ CheckFails(t) \/ RestartFails(t) \/ ReadFails(t)
    BY <1>6
  <2>2. ~At(t, "tick") /\ ~At(t, "create")
    BY <1>3, ThreadFacts
    DEF At, TypeInv, ThreadsOK, StepsOf, AppSteps, EtcdSteps, CallerSteps, InRegister
  <2> QED
    BY <1>2, <1>3, <2>1, <2>2, RegisterServes, KeeperServes
    DEF ThreadStep, ConsulPut, ZkPut, ConsulTick, TickFails, ZkTickMisses, ZkCreates
<1>7. CASE \E n \in live : LeaseExpires(n)
  BY <1>3, <1>7, ExpiryServes
<1>8. CASE UNCHANGED vars
  BY <1>3, <1>8 DEF vars, leaseVars, fieldVars, noted, SoloState, SoloThreads, SoloLeases,
                    FieldsFollow, At, Known, Mine
<1> QED
  BY <1>4, <1>5, <1>6, <1>7, <1>8 DEF Next

\* With one instance on etcd, through every loss, failure, lost reply and
\* recovery, and whoever runs the check, the lease in the field is the one the
\* key stands under, it has not ended, and it is kept alive unless a KeepAlive
\* failed or the reply to the put was lost, as long as no two goroutines have
\* been inside register at once: what Deregister revokes and what
\* recoverKeepAlive keeps is the right lease.
THEOREM FieldsServeKey == Spec => []LeaseServesKey
<1>1. Spec => []TypeInv
  BY InitTyped, StepTyped, PTL DEF Spec
<1>2. Spec => []SoloInv
  BY <1>1, InitSolo, StepServes, PTL DEF Spec
<1>3. SoloInv => LeaseServesKey
  BY DEF SoloInv, Solo, SoloState, LeaseServesKey
<1> QED
  BY <1>2, <1>3, PTL
=============================================================================
