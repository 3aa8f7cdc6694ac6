--------------------------- MODULE ClientPoolProofs ---------------------------
(***************************************************************************)
(* Proofs about ClientPool, for any size, any users with any programs and  *)
(* any depth of nested calls: every path of every operation puts back each *)
(* client that it takes, once and in the frame that took it; from this and *)
(* from the sets of clients that the channel and the calls hold, that a    *)
(* client is in one place only and that none is lost before Close.         *)
(***************************************************************************)
EXTENDS ClientPool, FiniteSetTheorems, SequenceTheorems, TLAPS

(***************************************************************************)
(* Paths.  Runs(s, A, B): where the frames in A hold a client, s can be    *)
(* walked to its end, and then those in B hold one.                        *)
(***************************************************************************)
PathStep == [do: {"get", "use", "put"}, on: Nat \ {0}]

Fits(x, A, B) ==
  \/ x.do = "get" /\ x.on \notin A /\ B = A \union {x.on}
  \/ x.do = "use" /\ B = A
  \/ x.do = "put" /\ x.on \in A /\ B = A \ {x.on}

Runs(s, A, B) ==
  /\ s \in Seq(PathStep)
  /\ \E h \in [0..Len(s) -> SUBSET Nat] :
       h[0] = A /\ h[Len(s)] = B /\ \A i \in 1..Len(s) : Fits(s[i], h[i - 1], h[i])

LEMMA RunsNothing == ASSUME NEW A \in SUBSET Nat PROVE Runs(<<>>, A, A)
<1> DEFINE h == [i \in 0..0 |-> A]
<1>1. <<>> \in Seq(PathStep) /\ Len(<<>>) = 0
  OBVIOUS
<1>2. h \in [0..0 -> SUBSET Nat] /\ h[0] = A
  <2>1. 0 \in 0..0
    OBVIOUS
  <2> QED  BY <2>1, Zenon
<1> HIDE DEF h
<1>3. \A i \in 1..0 : Fits(<<>>[i], h[i - 1], h[i])
  OBVIOUS
<1> QED  BY <1>1, <1>2, <1>3, Zenon DEF Runs

LEMMA RunsEnded == ASSUME NEW A, NEW B, Runs(<<>>, A, B) PROVE A = B
BY DEF Runs

LEMMA RunsStep ==
  ASSUME NEW x \in PathStep, NEW A \in SUBSET Nat, NEW B, Fits(x, A, B)
  PROVE  Runs(<<x>>, A, B)
<1> DEFINE h == [i \in 0..1 |-> IF i = 0 THEN A ELSE B]
<1>1. <<x>> \in Seq(PathStep) /\ Len(<<x>>) = 1 /\ <<x>>[1] = x
  OBVIOUS
<1>2. B \in SUBSET Nat
  BY DEF Fits, PathStep
<1>3. h \in [0..1 -> SUBSET Nat] /\ h[0] = A /\ h[1] = B
  <2>1. \A i \in 0..1 : (IF i = 0 THEN A ELSE B) \in SUBSET Nat
    BY <1>2
  <2>2. 0 \in 0..1 /\ 1 \in 0..1 /\ 1 # 0
    OBVIOUS
  <2> QED  BY <2>1, <2>2, Zenon
<1> HIDE DEF h
<1>4. ASSUME NEW i \in 1..1 PROVE Fits(<<x>>[i], h[i - 1], h[i])
  <2>1. i = 1 /\ i - 1 = 0
    OBVIOUS
  <2> QED  BY <1>1, <1>3, <2>1
<1>5. \A i \in 1..1 : Fits(<<x>>[i], h[i - 1], h[i])
  BY <1>4
<1> QED  BY <1>1, <1>3, <1>5, Zenon DEF Runs

\* One path after another.
LEMMA RunsBoth ==
  ASSUME NEW a, NEW b, NEW A, NEW B, NEW C, Runs(a, A, B), Runs(b, B, C)
  PROVE  Runs(a \o b, A, C)
<1>1. PICK f \in [0..Len(a) -> SUBSET Nat] :
        f[0] = A /\ f[Len(a)] = B /\ \A i \in 1..Len(a) : Fits(a[i], f[i - 1], f[i])
  BY DEF Runs
<1>2. PICK g \in [0..Len(b) -> SUBSET Nat] :
        g[0] = B /\ g[Len(b)] = C /\ \A i \in 1..Len(b) : Fits(b[i], g[i - 1], g[i])
  BY DEF Runs
<1>3. /\ a \in Seq(PathStep) /\ b \in Seq(PathStep) /\ Len(a) \in Nat /\ Len(b) \in Nat
      /\ a \o b \in Seq(PathStep) /\ Len(a \o b) = Len(a) + Len(b)
      /\ \A i \in 1..(Len(a) + Len(b)) : (a \o b)[i] = IF i <= Len(a) THEN a[i] ELSE b[i - Len(a)]
  BY ConcatProperties, LenProperties DEF Runs
<1> DEFINE n == Len(a)
           m == Len(b)
           h == [i \in 0..(n + m) |-> IF i <= n THEN f[i] ELSE g[i - n]]
<1>4. h \in [0..(n + m) -> SUBSET Nat]
  <2>1. \A i \in 0..(n + m) : i <= n => i \in 0..n
    BY <1>3
  <2>2. \A i \in 0..(n + m) : ~(i <= n) => i - n \in 0..m
    BY <1>3
  <2>3. \A i \in 0..(n + m) : (IF i <= n THEN f[i] ELSE g[i - n]) \in SUBSET Nat
    BY <2>1, <2>2
  <2> QED  BY <2>3
<1>5. \A i \in 0..(n + m) : h[i] = IF i <= n THEN f[i] ELSE g[i - n]
  OBVIOUS
<1> HIDE DEF h, n, m
<1>6. n \in Nat /\ m \in Nat /\ f[n] = B /\ g[0] = B /\ g[m] = C /\ f[0] = A
  BY <1>1, <1>2, <1>3 DEF n, m
<1>7. h[0] = A
  BY <1>5, <1>6
<1>8. h[n + m] = C
  <2>1. CASE m = 0
    BY <1>5, <1>6, <2>1
  <2>2. CASE m # 0
    <3>1. ~(n + m <= n) /\ n + m \in 0..(n + m) /\ (n + m) - n = m
      BY <1>6, <2>2
    <3> QED  BY <1>5, <1>6, <3>1
  <2> QED  BY <2>1, <2>2
<1>9. ASSUME NEW i \in 1..(n + m) PROVE Fits((a \o b)[i], h[i - 1], h[i])
  <2>1. CASE i <= n
    <3>1. i \in 1..n /\ i - 1 \in 0..(n + m) /\ i \in 0..(n + m) /\ i - 1 <= n
      BY <1>6, <2>1
    <3>2. h[i - 1] = f[i - 1] /\ h[i] = f[i] /\ (a \o b)[i] = a[i]
      BY <1>3, <1>5, <2>1, <3>1 DEF n, m
    <3> QED  BY <1>1, <3>1, <3>2 DEF n
  <2>2. CASE ~(i <= n)
    <3>1. i - n \in 1..m /\ i - 1 \in 0..(n + m) /\ i \in 0..(n + m) /\ (i - 1) - n = (i - n) - 1
      BY <1>6, <2>2
    <3>2. h[i] = g[i - n] /\ (a \o b)[i] = b[i - n]
      BY <1>3, <1>5, <2>2, <3>1 DEF n, m
    <3>3. h[i - 1] = g[(i - n) - 1]
      <4>1. CASE i = n + 1
        <5>1. i - 1 = n /\ (i - n) - 1 = 0
          BY <1>6, <4>1
        <5> QED  BY <1>5, <1>6, <3>1, <5>1
      <4>2. CASE i # n + 1
        <5>1. ~(i - 1 <= n)
          BY <1>6, <2>2, <4>2
        <5> QED  BY <1>5, <3>1, <5>1
      <4> QED  BY <4>1, <4>2
    <3>4. Fits(b[i - n], g[(i - n) - 1], g[i - n])
      BY <1>2, <3>1 DEF m
    <3> QED  BY <3>2, <3>3, <3>4
  <2> QED  BY <2>1, <2>2
<1>10. h \in [0..Len(a \o b) -> SUBSET Nat] /\ h[Len(a \o b)] = C
       /\ \A i \in 1..Len(a \o b) : Fits((a \o b)[i], h[i - 1], h[i])
  BY <1>3, <1>4, <1>8, <1>9 DEF n, m
<1> QED  BY <1>3, <1>7, <1>10, Zenon DEF Runs

\* The first step of a path, and the rest of it.
LEMMA RunsTail ==
  ASSUME NEW s, s # <<>>, NEW A, NEW C, Runs(s, A, C)
  PROVE  Head(s) \in PathStep /\ \E B : Fits(Head(s), A, B) /\ Runs(Tail(s), B, C)
<1>1. PICK f \in [0..Len(s) -> SUBSET Nat] :
        f[0] = A /\ f[Len(s)] = C /\ \A i \in 1..Len(s) : Fits(s[i], f[i - 1], f[i])
  BY DEF Runs
<1>2. /\ s \in Seq(PathStep) /\ Len(s) \in Nat /\ Len(s) >= 1 /\ Head(s) = s[1]
      /\ Head(s) \in PathStep /\ Tail(s) \in Seq(PathStep) /\ Len(Tail(s)) = Len(s) - 1
      /\ \A i \in 1..(Len(s) - 1) : Tail(s)[i] = s[i + 1]
  BY HeadTailProperties DEF Runs
<1>3. Fits(Head(s), A, f[1])
  <2>1. 1 \in 1..Len(s) /\ 1 - 1 = 0
    BY <1>2
  <2> QED  BY <1>1, <1>2, <2>1
<1> DEFINE n == Len(s) - 1
           h == [i \in 0..n |-> f[i + 1]]
<1>4. h \in [0..n -> SUBSET Nat] /\ \A i \in 0..n : h[i] = f[i + 1]
  <2>1. \A i \in 0..n : i + 1 \in 0..Len(s)
    BY <1>2
  <2> QED  BY <2>1
<1> HIDE DEF h
<1>5. h[0] = f[1] /\ h[n] = C
  <2>1. 0 \in 0..n /\ n \in 0..n /\ n + 1 = Len(s) /\ 0 + 1 = 1
    BY <1>2
  <2> QED  BY <1>1, <1>4, <2>1
<1>6. ASSUME NEW i \in 1..n PROVE Fits(Tail(s)[i], h[i - 1], h[i])
  <2>1. i + 1 \in 1..Len(s) /\ i \in 0..n /\ i - 1 \in 0..n /\ (i - 1) + 1 = i /\ (i + 1) - 1 = i
    BY <1>2
  <2>2. h[i - 1] = f[i] /\ h[i] = f[i + 1] /\ Tail(s)[i] = s[i + 1]
    BY <1>2, <1>4, <2>1
  <2>3. Fits(s[i + 1], f[(i + 1) - 1], f[i + 1])
    BY <1>1, <2>1
  <2> QED  BY <2>1, <2>2, <2>3
<1>7. Runs(Tail(s), f[1], C)
  BY <1>2, <1>4, <1>5, <1>6, Zenon DEF Runs
<1> QED  BY <1>2, <1>3, <1>7

(***************************************************************************)
(* Tidy(p, k): a path of frame k gives back what it takes, whatever the    *)
(* frames before it hold.                                                  *)
(***************************************************************************)
Tidy(p, k) == \A A \in SUBSET Nat : (\A i \in A : i < k) => Runs(p, A, A)
AllTidy(P, k) == \A p \in P : Tidy(p, k)

LEMMA TidyNothing == ASSUME NEW k PROVE Tidy(<<>>, k)
BY RunsNothing DEF Tidy

LEMMA TidyUse == ASSUME NEW k, NEW j \in Nat \ {0} PROVE Tidy(Uses(j), k)
<1> DEFINE x == [do |-> "use", on |-> j]
<1>1. x \in PathStep /\ \A A : Fits(x, A, A)
  BY DEF PathStep, Fits
<1> QED  BY <1>1, RunsStep DEF Tidy, Uses

LEMMA TidyBoth == ASSUME NEW k, NEW p, NEW q, Tidy(p, k), Tidy(q, k) PROVE Tidy(p \o q, k)
BY RunsBoth DEF Tidy

LEMMA TidyDeeper == ASSUME NEW k \in Nat, NEW p, Tidy(p, k + 1) PROVE Tidy(p, k)
<1> SUFFICES ASSUME NEW A \in SUBSET Nat, \A i \in A : i < k PROVE Runs(p, A, A)
  BY DEF Tidy
<1>1. \A i \in A : i < k + 1
  OBVIOUS
<1> QED  BY <1>1 DEF Tidy

\* A path between the Get and the Put of its frame.
LEMMA TidySection ==
  ASSUME NEW k \in Nat \ {0}, NEW p, Tidy(p, k + 1)
  PROVE  Tidy(Gets(k) \o p \o Puts(k), k)
<1> SUFFICES ASSUME NEW A \in SUBSET Nat, \A i \in A : i < k
             PROVE  Runs((Gets(k) \o p) \o Puts(k), A, A)
  BY DEF Tidy
<1> DEFINE B == A \union {k}
           x == [do |-> "get", on |-> k]
           y == [do |-> "put", on |-> k]
<1>1. B \in SUBSET Nat /\ (\A i \in B : i < k + 1) /\ k \notin A /\ B \ {k} = A
  OBVIOUS
<1>2. x \in PathStep /\ y \in PathStep /\ Fits(x, A, B) /\ Fits(y, B, A)
  BY <1>1 DEF PathStep, Fits
<1>3. Runs(Gets(k), A, B) /\ Runs(Puts(k), B, A)
  BY <1>1, <1>2, RunsStep DEF Gets, Puts
<1>4. Runs(p, B, B)
  BY <1>1 DEF Tidy
<1> HIDE DEF B
<1> QED  BY <1>3, <1>4, RunsBoth

LEMMA TidyDeferred ==
  ASSUME NEW k \in Nat \ {0}, NEW P, AllTidy(P, k + 1)
  PROVE  AllTidy(Deferred(k, P), k)
BY TidySection DEF AllTidy, Deferred

\* A path of P and then one of Q, or each time the same.
LEMMA TidyEach ==
  ASSUME NEW k, NEW P, NEW Q, AllTidy(P, k), AllTidy(Q, k)
  PROVE  AllTidy(Then(P, Q), k)
<1> SUFFICES ASSUME NEW r \in Then(P, Q) PROVE Tidy(r, k)
  BY DEF AllTidy
<1>1. PICK p \in P : r \in {p \o q : q \in Q}
  BY Zenon DEF Then
<1>2. PICK q \in Q : r = p \o q
  BY <1>1
<1>3. Tidy(p, k) /\ Tidy(q, k)
  BY DEF AllTidy
<1> QED  BY <1>2, <1>3, TidyBoth

LEMMA TidyBefore ==
  ASSUME NEW k, NEW a, NEW Q, Tidy(a, k), AllTidy(Q, k)
  PROVE  AllTidy({a \o q : q \in Q}, k) /\ AllTidy({q \o a : q \in Q}, k)
<1>1. ASSUME NEW q \in Q PROVE Tidy(a \o q, k) /\ Tidy(q \o a, k)
  <2>1. Tidy(q, k)
    BY DEF AllTidy
  <2> QED  BY <2>1, TidyBoth
<1> QED  BY <1>1 DEF AllTidy

LEMMA TidyUsesThen ==
  ASSUME NEW k \in Nat \ {0}, NEW j, NEW P, AllTidy(P, j)
  PROVE  AllTidy(UsesThen(k, P), j)
<1>1. AllTidy({Uses(k) \o p : p \in P}, j) /\ Tidy(Uses(k), j)
  BY TidyUse, TidyBefore
<1> QED  BY <1>1 DEF AllTidy, UsesThen

LEMMA TidyGoesOn ==
  ASSUME NEW k \in Nat \ {0}, NEW j, NEW P, AllTidy(P, j)
  PROVE  AllTidy(GoesOn(k, P), j)
<1>1. AllTidy({p \o Uses(k) : p \in P}, j)
  BY TidyUse, TidyBefore
<1> QED  BY <1>1 DEF AllTidy, GoesOn

LEMMA TidyOne ==
  ASSUME NEW k, NEW j \in Nat \ {0}
  PROVE  /\ AllTidy({Uses(j)}, k) /\ AllTidy({<<>>}, k) /\ AllTidy({<<>>, Uses(j)}, k)
         /\ \A P : AllTidy(P, k) => AllTidy({<<>>} \union P, k)
BY TidyNothing, TidyUse DEF AllTidy

\* The hand-written Get, use and Put of a loop.
LEMMA TidyRound ==
  /\ Tidy(Gets(1) \o Uses(1) \o Puts(1), 1)
  /\ \A p : Tidy(p, 2) => Tidy(Gets(1) \o (Uses(1) \o p) \o Puts(1), 1)
<1>1. Tidy(Uses(1), 1 + 1) /\ \A p : Tidy(p, 2) => Tidy(Uses(1) \o p, 1 + 1)
  BY TidyUse, TidyBoth
<1> QED  BY <1>1, TidySection

(***************************************************************************)
(* The paths of the operations, in the order of PoolPaths                  *)
(***************************************************************************)
LEMMA ProvidersTidy ==
  /\ AllTidy(Call, 1) /\ AllTidy(EtcdWatchConfig, 1) /\ AllTidy(NacosWatchConfig, 1)
  /\ AllTidy(ConsulWatchConfig, 1) /\ AllTidy(ZkWatchConfig, 1)
<1>1. AllTidy({<<>>, Uses(1)}, 1 + 1) /\ AllTidy({Uses(1)}, 1 + 1)
  <2>1. 1 \in Nat \ {0}
    OBVIOUS
  <2> QED  BY <2>1, TidyOne
<1>2. AllTidy(Call, 1) /\ AllTidy(EtcdWatchConfig, 1) /\ AllTidy(NacosWatchConfig, 1)
  BY <1>1, TidyDeferred, TidyGoesOn DEF Call, EtcdWatchConfig, NacosWatchConfig
<1>3. AllTidy({Gets(1) \o Uses(1) \o Puts(1)}, 1)
  BY TidyRound DEF AllTidy
<1>4. AllTidy(ConsulWatchConfig, 1)
  BY <1>3 DEF ConsulWatchConfig, AllTidy
<1>5. AllTidy(GoesOn(1, {Gets(1) \o Uses(1) \o Puts(1)}), 1)
  BY <1>3, TidyGoesOn
<1>6. AllTidy(ZkWatchConfig, 1)
  BY <1>3, <1>5 DEF ZkWatchConfig, AllTidy
<1> QED  BY <1>2, <1>4, <1>6

LEMMA EtcdPartsTidy ==
  ASSUME NEW k \in Nat \ {0}
  PROVE  AllTidy(EtcdRegister(k), k) /\ AllTidy(EtcdCheck(k), k) /\ AllTidy(EtcdGetInstances(k), k)
<1>1. \A j \in Nat \ {0} : AllTidy(EtcdRegister(j), j)
  BY TidyOne, TidyDeferred, TidyGoesOn DEF EtcdRegister
<1>2. \A j \in Nat \ {0} : AllTidy(EtcdCheck(j), j)
  <2> TAKE j \in Nat \ {0}
  <2>1. j + 1 \in Nat \ {0}
    OBVIOUS
  <2>2. AllTidy(UsesThen(j, EtcdRegister(j + 1)), j + 1)
    BY <1>1, <2>1, TidyUsesThen
  <2>3. AllTidy({<<>>} \union UsesThen(j, EtcdRegister(j + 1)), j + 1)
    BY <2>2, TidyOne
  <2> QED  BY <2>3, TidyDeferred DEF EtcdCheck
<1>3. k + 1 \in Nat \ {0}
  OBVIOUS
<1>4. AllTidy(UsesThen(k, EtcdCheck(k + 1)), k + 1)
  BY <1>2, <1>3, TidyUsesThen
<1>5. AllTidy(EtcdGetInstances(k), k)
  BY <1>4, TidyDeferred DEF EtcdGetInstances
<1> QED  BY <1>1, <1>2, <1>5

LEMMA ConsulPartsTidy ==
  ASSUME NEW k \in Nat \ {0}
  PROVE  AllTidy(ConsulRegister(k), k) /\ AllTidy(ConsulCheck(k), k) /\ AllTidy(ConsulGetInstances(k), k)
<1>1. \A j \in Nat \ {0} : AllTidy(ConsulRegister(j), j)
  BY TidyOne, TidyDeferred DEF ConsulRegister
<1>2. \A j \in Nat \ {0} : AllTidy(ConsulCheck(j), j)
  <2> TAKE j \in Nat \ {0}
  <2>1. j + 1 \in Nat \ {0}
    OBVIOUS
  <2>2. AllTidy(UsesThen(j, ConsulRegister(j + 1)), j + 1)
    BY <1>1, <2>1, TidyUsesThen
  <2>3. AllTidy({<<>>} \union UsesThen(j, ConsulRegister(j + 1)), j + 1)
    BY <2>2, TidyOne
  <2> QED  BY <2>3, TidyDeferred DEF ConsulCheck
<1>3. k + 1 \in Nat \ {0}
  OBVIOUS
<1>4. AllTidy(UsesThen(k, ConsulCheck(k + 1)), k + 1)
  BY <1>2, <1>3, TidyUsesThen
<1>5. AllTidy(ConsulGetInstances(k), k)
  BY <1>4, TidyDeferred DEF ConsulGetInstances
<1> QED  BY <1>1, <1>2, <1>5

LEMMA ZkPartsTidy ==
  ASSUME NEW k \in Nat \ {0}
  PROVE  AllTidy(ZkRegister(k), k) /\ AllTidy(ZkCheck(k), k) /\ AllTidy(ZkGetInstances(k), k)
<1>1. \A j \in Nat \ {0} : j + 1 \in Nat \ {0}
  OBVIOUS
<1>2. \A j \in Nat \ {0} : AllTidy(ParentOfServices(j), j)
  BY TidyOne, TidyDeferred DEF ParentOfServices
<1>3. \A j \in Nat \ {0} : AllTidy(ParentOfService(j), j)
  BY <1>1, <1>2, TidyGoesOn, TidyUsesThen, TidyDeferred DEF ParentOfService
<1>4. \A j \in Nat \ {0} : AllTidy(ParentOfInstance(j), j)
  BY <1>1, <1>3, TidyGoesOn, TidyUsesThen, TidyDeferred DEF ParentOfInstance
<1>5. \A j \in Nat \ {0} : AllTidy(ZkRegister(j), j)
  BY <1>1, <1>4, TidyGoesOn, TidyDeferred DEF ZkRegister
<1>6. \A j \in Nat \ {0} : AllTidy(ZkCheck(j), j)
  <2> TAKE j \in Nat \ {0}
  <2>1. AllTidy(UsesThen(j, ZkRegister(j + 1)), j + 1)
    BY <1>1, <1>5, TidyUsesThen
  <2>2. AllTidy({<<>>} \union UsesThen(j, ZkRegister(j + 1)), j + 1)
    BY <2>1, TidyOne
  <2> QED  BY <2>2, TidyDeferred DEF ZkCheck
<1>7. AllTidy(UsesThen(k, ZkCheck(k + 1)), k + 1)
  BY <1>1, <1>6, TidyUsesThen
<1>8. AllTidy(ZkGetInstances(k), k)
  BY <1>7, TidyDeferred DEF ZkGetInstances
<1> QED  BY <1>5, <1>6, <1>8

LEMMA NacosPartsTidy ==
  ASSUME NEW k \in Nat \ {0}
  PROVE  AllTidy(NacosCheck(k), k) /\ AllTidy(NacosRegister(k), k) /\ AllTidy(NacosGetInstances(k), k)
<1>1. \A j \in Nat \ {0} : j + 1 \in Nat \ {0}
  OBVIOUS
<1>2. \A j \in Nat \ {0} : AllTidy(Deferred(j, {Uses(j)}), j)
  BY TidyOne, TidyDeferred
<1>3. \A j \in Nat \ {0} : AllTidy(NacosCheck(j), j)
  <2> TAKE j \in Nat \ {0}
  <2>1. AllTidy(UsesThen(j, Deferred(j + 1, {Uses(j + 1)})), j + 1)
    BY <1>1, <1>2, TidyUsesThen
  <2>2. AllTidy({<<>>} \union UsesThen(j, Deferred(j + 1, {Uses(j + 1)})), j + 1)
    BY <2>1, TidyOne
  <2> QED  BY <2>2, TidyDeferred DEF NacosCheck
<1>4. AllTidy(UsesThen(k, NacosCheck(k + 1)), k + 1)
  BY <1>1, <1>3, TidyUsesThen
<1> QED  BY <1>3, <1>4, TidyDeferred DEF NacosRegister, NacosGetInstances

LEMMA EtcdTidy ==
  AllTidy(EtcdRecoverKeepAlive, 1) /\ AllTidy(EtcdWatch, 1) /\ AllTidy(EtcdRecoverWatch, 1)
<1>1. 1 + 1 = 2 /\ 1 \in Nat \ {0} /\ 2 \in Nat \ {0}
  OBVIOUS
<1>2. AllTidy(EtcdCheck(2), 2) /\ AllTidy(EtcdGetInstances(2), 2)
  BY <1>1, EtcdPartsTidy
<1>3. AllTidy(UsesThen(1, EtcdCheck(2)), 1 + 1)
  BY <1>1, <1>2, TidyUsesThen
<1>4. AllTidy(EtcdRecoverKeepAlive, 1)
  BY <1>1, <1>3, TidyDeferred, TidyGoesOn DEF EtcdRecoverKeepAlive
<1> DEFINE read == {Uses(1) \o r : r \in EtcdGetInstances(2)}
<1>5. AllTidy(read, 2) /\ AllTidy({Uses(1) \o p : p \in EtcdCheck(2)}, 2)
  BY <1>1, <1>2, TidyUse, TidyBefore
<1>6. AllTidy(read, 1)
  <2>1. \A p : Tidy(p, 1 + 1) => Tidy(p, 1)
    BY TidyDeeper
  <2> QED  BY <1>1, <1>5, <2>1 DEF AllTidy
<1> HIDE DEF read
<1>7. ASSUME NEW P, AllTidy(P, 2)
      PROVE  AllTidy(Deferred(1, P) \union Then(Deferred(1, P), read), 1)
  <2>1. AllTidy(Deferred(1, P), 1)
    BY <1>1, <1>7, TidyDeferred
  <2>2. AllTidy(Then(Deferred(1, P), read), 1)
    BY <1>6, <2>1, TidyEach
  <2> QED  BY <2>1, <2>2 DEF AllTidy
<1>8. AllTidy(EtcdWatch, 1) /\ AllTidy(EtcdRecoverWatch, 1)
  <2>1. AllTidy({Uses(1) \o p : p \in EtcdGetInstances(2)}, 2)
    BY <1>5 DEF read
  <2> QED  BY <1>5, <1>7, <2>1 DEF EtcdWatch, EtcdRecoverWatch, read
<1> QED  BY <1>4, <1>8

LEMMA ConsulTidy == AllTidy(ConsulKeepAlive, 1) /\ AllTidy(ConsulWatch, 1)
<1>1. 1 + 1 = 2 /\ 1 \in Nat \ {0} /\ 2 \in Nat \ {0}
  OBVIOUS
<1>2. AllTidy(ConsulCheck(2), 2)
  BY <1>1, ConsulPartsTidy
<1>3. AllTidy(UsesThen(1, ConsulCheck(2)), 2)
  BY <1>1, <1>2, TidyUsesThen
<1>4. AllTidy(ConsulKeepAlive, 1)
  BY <1>1, <1>3, TidySection DEF ConsulKeepAlive, AllTidy
<1>5. AllTidy(ConsulWatch, 1)
  BY <1>2, TidyRound DEF ConsulWatch, AllTidy
<1> QED  BY <1>4, <1>5

LEMMA ZkTidy == AllTidy(ZkKeepAlive, 1) /\ AllTidy(ZkWatch, 1)
<1>1. 1 \in Nat \ {0} /\ 2 \in Nat \ {0}
  OBVIOUS
<1>2. AllTidy(ZkCheck(2), 2) /\ AllTidy(ZkGetInstances(1), 1)
  BY <1>1, ZkPartsTidy
<1>3. AllTidy(ZkKeepAlive, 1)
  BY <1>2, TidyRound DEF ZkKeepAlive, AllTidy
<1>4. AllTidy({Gets(1) \o Uses(1) \o Puts(1)}, 1)
  BY TidyRound DEF AllTidy
<1>5. AllTidy(GoesOn(1, {Gets(1) \o Uses(1) \o Puts(1)}), 1)
  BY <1>1, <1>4, TidyGoesOn
<1>6. AllTidy(ZkWatch, 1)
  <2>1. AllTidy(Then(ZkGetInstances(1), GoesOn(1, {Gets(1) \o Uses(1) \o Puts(1)})), 1)
    BY <1>2, <1>5, TidyEach
  <2> QED  BY <1>2, <2>1 DEF ZkWatch, AllTidy
<1> QED  BY <1>3, <1>6

LEMMA NacosTidy ==
  AllTidy(NacosDeregister, 1) /\ AllTidy(NacosWatch, 1) /\ AllTidy(NacosRecoverSubscribe, 1)
<1>1. 1 + 1 = 2 /\ 1 \in Nat \ {0} /\ 2 \in Nat \ {0}
  OBVIOUS
<1>2. AllTidy(NacosCheck(2), 2) /\ AllTidy(NacosGetInstances(2), 2)
  BY <1>1, NacosPartsTidy
<1>3. AllTidy(GoesOn(1, NacosGetInstances(2)), 1 + 1) /\ AllTidy(UsesThen(1, NacosCheck(2)), 1 + 1)
  BY <1>1, <1>2, TidyGoesOn, TidyUsesThen
<1>4. AllTidy(NacosDeregister, 1) /\ AllTidy(NacosRecoverSubscribe, 1)
  BY <1>1, <1>3, TidyDeferred, TidyGoesOn DEF NacosDeregister, NacosRecoverSubscribe
<1>5. AllTidy({Gets(1) \o Uses(1) \o Puts(1)}, 1)
  BY TidyRound DEF AllTidy
<1>6. AllTidy(GoesOn(1, {Gets(1) \o Uses(1) \o Puts(1)}), 1)
  BY <1>1, <1>5, TidyGoesOn
<1>7. AllTidy(NacosWatch, 1)
  BY <1>5, <1>6 DEF NacosWatch, AllTidy
<1> QED  BY <1>4, <1>7

\* Every path of every operation puts back each client that it takes, once
\* and in the frame that took it.
THEOREM PathsPutBack == \A op \in Names : \A path \in Paths[op] : Runs(path, {}, {})
<1>1. ASSUME NEW op \in Names PROVE AllTidy(Paths[op], 1)
  BY ProvidersTidy, EtcdPartsTidy, EtcdTidy, ConsulPartsTidy, ConsulTidy, ZkPartsTidy, ZkTidy,
     NacosPartsTidy, NacosTidy DEF Names, Paths
<1>2. {} \in SUBSET Nat /\ \A i \in {} : i < 1
  OBVIOUS
<1> QED  BY <1>1, <1>2 DEF AllTidy, Tidy

(***************************************************************************)
(* The elements of the channel: what taking from its front and adding at   *)
(* its end do to a sequence without repetitions.                           *)
(***************************************************************************)
Elems(s)    == {s[i] : i \in DOMAIN s}
Distinct(s) == \A i, j \in DOMAIN s : s[i] = s[j] => i = j

LEMMA TailElems ==
  ASSUME NEW S, NEW s \in Seq(S), s # <<>>, Distinct(s)
  PROVE  /\ Tail(s) \in Seq(S) /\ Len(Tail(s)) = Len(s) - 1 /\ Distinct(Tail(s))
         /\ Head(s) \in S /\ Head(s) \in Elems(s)
         /\ Elems(Tail(s)) = Elems(s) \ {Head(s)}
<1>1. /\ Len(s) \in Nat \ {0} /\ DOMAIN s = 1..Len(s)
      /\ Head(s) = s[1] /\ Tail(s) \in Seq(S) /\ Len(Tail(s)) = Len(s) - 1
      /\ DOMAIN Tail(s) = 1..(Len(s) - 1)
      /\ \A i \in 1..(Len(s) - 1) : Tail(s)[i] = s[i + 1]
  OBVIOUS
<1>2. Distinct(Tail(s))
  BY <1>1 DEF Distinct
<1>3. ASSUME NEW i \in DOMAIN s, i # 1
      PROVE  \E j \in DOMAIN Tail(s) : Tail(s)[j] = s[i]
  <2>1. i - 1 \in DOMAIN Tail(s) /\ Tail(s)[i - 1] = s[i]
    BY <1>1, <1>3
  <2> QED  BY <2>1
<1>4. \A j \in DOMAIN Tail(s) : \E i \in DOMAIN s : i # 1 /\ Tail(s)[j] = s[i]
  <2> TAKE j \in DOMAIN Tail(s)
  <2>1. j + 1 \in DOMAIN s /\ j + 1 # 1 /\ Tail(s)[j] = s[j + 1]
    BY <1>1
  <2> QED  BY <2>1
<1>5. 1 \in DOMAIN s /\ \A i \in DOMAIN s : i # 1 => s[i] # s[1]
  BY <1>1 DEF Distinct
<1>6. Elems(Tail(s)) = Elems(s) \ {s[1]}
  <2> DEFINE t == Tail(s)
  <2>1. /\ \A i \in DOMAIN s : i # 1 => \E j \in DOMAIN t : t[j] = s[i]
        /\ \A j \in DOMAIN t : \E i \in DOMAIN s : i # 1 /\ t[j] = s[i]
    BY <1>3, <1>4
  <2> HIDE DEF t
  <2> SUFFICES Elems(t) = Elems(s) \ {s[1]}
    BY DEF t
  <2> QED  BY <1>5, <2>1 DEF Elems
<1>7. s[1] \in Elems(s) /\ s[1] \in S
  BY <1>1, <1>5 DEF Elems
<1> QED  BY <1>1, <1>2, <1>6, <1>7

LEMMA AppendElems ==
  ASSUME NEW S, NEW s \in Seq(S), NEW c \in S, Distinct(s), c \notin Elems(s)
  PROVE  /\ Append(s, c) \in Seq(S) /\ Len(Append(s, c)) = Len(s) + 1
         /\ Distinct(Append(s, c)) /\ Elems(Append(s, c)) = Elems(s) \cup {c}
<1> DEFINE t == Append(s, c)
           n == Len(s) + 1
<1>1. /\ n \in Nat /\ DOMAIN s = 1..(n - 1) /\ t \in Seq(S) /\ Len(t) = n
      /\ DOMAIN t = 1..n /\ t[n] = c /\ \A i \in 1..(n - 1) : t[i] = s[i]
      /\ n \in DOMAIN t
  OBVIOUS
<1>2. \A i \in DOMAIN t : i # n => i \in DOMAIN s /\ t[i] = s[i] /\ t[i] # c
  BY <1>1 DEF Elems
<1>3. \A i \in DOMAIN s : i \in DOMAIN t /\ t[i] = s[i]
  BY <1>1
<1> HIDE DEF t, n
<1>4. Distinct(t)
  BY <1>1, <1>2 DEF Distinct
<1>5. Elems(t) = Elems(s) \cup {c}
  BY <1>1, <1>2, <1>3 DEF Elems
<1> QED  BY <1>1, <1>4, <1>5 DEF t, n

\* A channel without repetitions that lacks a client has room for it.
LEMMA RoomForMissing ==
  ASSUME NEW s \in Seq(Clients), Distinct(s), Len(s) <= PoolSize,
         NEW c \in Clients, c \notin Elems(s)
  PROVE  Len(s) < PoolSize
<1> SUFFICES ASSUME Len(s) = PoolSize PROVE FALSE
  BY PoolAssumption
<1> DEFINE T == Clients \ {c}
<1>1. IsFiniteSet(Clients) /\ Cardinality(Clients) = PoolSize
  BY FS_Interval, PoolAssumption DEF Clients
<1>2. IsFiniteSet(T) /\ Cardinality(T) = PoolSize - 1
  BY <1>1, FS_RemoveElement
<1>3. DOMAIN s = Clients /\ s \in [Clients -> T]
  BY DEF Clients, Elems
<1>4. Cardinality(T) < Cardinality(Clients)
  BY <1>1, <1>2, PoolAssumption
<1>5. \E x, y \in Clients : x # y /\ s[x] = s[y]
  <2> HIDE DEF T
  <2> QED  BY <1>1, <1>2, <1>3, <1>4, FS_PigeonHole
<1> QED  BY <1>3, <1>5 DEF Distinct

(***************************************************************************)
(* The inductive invariant.                                                *)
(***************************************************************************)
\* What is left of a path puts back exactly what its goroutine has taken.
Walks == \A u \in Users : Runs(todo[u], out[u], {})

\* The clients in the channel, taken by each call, closed and kept are
\* different ones.
Apart ==
  /\ Distinct(clients)
  /\ \A u, v \in Users : \A k \in out[u], l \in out[v] : cli[u][k] = cli[v][l] => u = v /\ k = l
  /\ \A u \in Users : \A k \in out[u] : cli[u][k] \notin Elems(clients) \union shut \union closer.kept
  /\ Elems(clients) \intersect (shut \union closer.kept) = {}
  /\ shut \intersect closer.kept = {}

\* Together they are all clients; before Close none is closed.
Complete ==
  /\ \A c \in Clients : \/ c \in Elems(clients) \union shut \union closer.kept
                        \/ \E u \in Users : \E k \in out[u] : cli[u][k] = c
  /\ ~Closing => shut = {}
  /\ closer.pc \in {"off", "keep"} => closer.kept = {}

PoolInv == TypeOK /\ Walks /\ Apart /\ Complete

\* A call that has taken a client has one, on its way and, for it then has
\* put it back, at its end.
LEMMA TakenAreClients ==
  ASSUME PoolInv, NEW u \in Users, NEW k \in out[u]
  PROVE  cli[u][k] \in Clients /\ k \in Frames(u)
<1>1. todo[u] # <<>>
  BY RunsEnded DEF PoolInv, Walks
<1> QED  BY <1>1 DEF PoolInv, TypeOK

LEMMA InitPool == Init => PoolInv
<1> SUFFICES ASSUME Init PROVE PoolInv
  OBVIOUS
<1>1. /\ PoolSize \in Nat /\ clients \in Seq(Clients) /\ Len(clients) = PoolSize
      /\ DOMAIN clients = Clients /\ \A i \in Clients : clients[i] = i
  BY PoolAssumption DEF Init, Clients
<1>2. /\ \A u \in Users : out[u] = {} /\ todo[u] = <<>> /\ cli[u] = NoClients(u)
      /\ DOMAIN todo = Users /\ DOMAIN cli = Users /\ DOMAIN out = Users
  BY DEF Init
<1>3. \A u \in Users : NoClients(u) \in [Frames(u) -> Clients \union {NoClient}]
  BY DEF NoClients
<1>4. TypeOK
  <2>1. \A u \in Users : <<>> \in Seq(Steps(u))
    OBVIOUS
  <2>2. /\ shut \subseteq Clients /\ work \in Works
        /\ closer \in [pc: {"off", "keep", "test", "take", "done"}, kept: SUBSET Clients]
    BY DEF Init
  <2>3. \A u \in Users : /\ todo[u] \in Seq(Steps(u)) /\ out[u] \subseteq Frames(u)
                           /\ cli[u] \in [Frames(u) -> Clients \union {NoClient}]
                           /\ \A k \in out[u] : cli[u][k] \in Clients
    BY <1>2, <1>3, <2>1
  <2>4. Len(clients) <= PoolSize
    BY <1>1
  <2> QED  BY <1>1, <1>2, <2>2, <2>3, <2>4 DEF TypeOK
<1>5. Elems(clients) = Clients /\ Distinct(clients)
  BY <1>1 DEF Elems, Distinct
<1>6. Walks
  <2>1. Runs(<<>>, {}, {})
    BY RunsNothing
  <2> QED  BY <1>2, <2>1 DEF Walks
<1>7. Apart
  BY <1>2, <1>5 DEF Init, Apart
<1>8. Complete
  BY <1>5 DEF Init, Complete, Closing
<1> QED  BY <1>4, <1>6, <1>7, <1>8 DEF PoolInv

\* A new path of u: it holds nothing yet.
LEMMA BeginPool ==
  ASSUME PoolInv, NEW u \in Users, Begin(u)
  PROVE  PoolInv'
<1>1. PICK op \in work[u] : \E path \in Paths[op] :
        path \in Seq(Steps(u)) /\ todo' = [todo EXCEPT ![u] = path]
  BY DEF Begin
<1>2. PICK path \in Paths[op] : path \in Seq(Steps(u)) /\ todo' = [todo EXCEPT ![u] = path]
  BY <1>1
<1>3. op \in Names
  BY PoolAssumption DEF PoolInv, TypeOK
<1>4. Runs(path, {}, {})
  BY <1>3, PathsPutBack
<1>5. out[u] = {} /\ todo'[u] = path /\ \A v \in Users : v # u => todo'[v] = todo[v]
  BY <1>2, RunsEnded DEF PoolInv, Walks, TypeOK, Begin
<1>6. DOMAIN todo' = Users /\ UNCHANGED <<clients, work, cli, out, shut, closer>>
  BY <1>2 DEF PoolInv, TypeOK, Begin
<1>7. \A v \in Users : v # u => Runs(todo'[v], out'[v], {})
  BY <1>5, <1>6 DEF PoolInv, Walks
<1>8. Walks'
  BY <1>4, <1>5, <1>6, <1>7 DEF Walks
<1>9. TypeOK'
  <2>1. \A v \in Users : todo'[v] \in Seq(Steps(v))
    BY <1>2, <1>5 DEF PoolInv, TypeOK
  <2>2. \A v \in Users : \A k \in out'[v] : cli'[v][k] \in Clients
    BY <1>6, TakenAreClients
  <2> QED  BY <1>6, <2>1, <2>2 DEF PoolInv, TypeOK
<1>10. Apart' /\ Complete'
  BY <1>6 DEF PoolInv, Apart, Complete, Closing
<1> QED  BY <1>8, <1>9, <1>10 DEF PoolInv

\* What a step on a path does to it.
LEMMA StepOfPath ==
  ASSUME PoolInv, NEW u \in Users, todo[u] # <<>>
  PROVE  /\ Frame(u) \in Frames(u) /\ Tail(todo[u]) \in Seq(Steps(u))
         /\ IsNext(u, "get") => Frame(u) \notin out[u] /\ Runs(Tail(todo[u]), out[u] \union {Frame(u)}, {})
         /\ IsNext(u, "use") => Runs(Tail(todo[u]), out[u], {})
         /\ IsNext(u, "put") => Frame(u) \in out[u] /\ Runs(Tail(todo[u]), out[u] \ {Frame(u)}, {})
<1>1. todo[u] \in Seq(Steps(u)) /\ Head(todo[u]) \in Steps(u) /\ Tail(todo[u]) \in Seq(Steps(u))
  BY HeadTailProperties DEF PoolInv, TypeOK
<1>2. Runs(todo[u], out[u], {})
  BY DEF PoolInv, Walks
<1>3. PICK B : Fits(Head(todo[u]), out[u], B) /\ Runs(Tail(todo[u]), B, {})
  BY <1>2, RunsTail
<1> QED  BY <1>1, <1>3 DEF Fits, IsNext, Frame, Steps

LEMMA GetPool ==
  ASSUME PoolInv, NEW u \in Users, Get(u)
  PROVE  PoolInv'
<1> DEFINE c == Head(clients)
           f == Frame(u)
<1>1. /\ clients' \in Seq(Clients) /\ Len(clients') = Len(clients) - 1 /\ Distinct(clients')
      /\ c \in Clients /\ c \in Elems(clients) /\ Elems(clients') = Elems(clients) \ {c}
  BY TailElems DEF PoolInv, TypeOK, Apart, Get
<1>2. /\ f \in Frames(u) /\ Tail(todo[u]) \in Seq(Steps(u)) /\ f \notin out[u]
      /\ Runs(Tail(todo[u]), out[u] \union {f}, {})
  BY StepOfPath DEF Get, IsNext
<1>3. /\ todo'[u] = Tail(todo[u]) /\ out'[u] = out[u] \union {f}
      /\ \A v \in Users : v # u => todo'[v] = todo[v] /\ out'[v] = out[v] /\ cli'[v] = cli[v]
      /\ cli'[u] = [cli[u] EXCEPT ![f] = c]
      /\ DOMAIN todo' = Users /\ DOMAIN cli' = Users /\ DOMAIN out' = Users
      /\ UNCHANGED <<work, shut, closer>>
  BY DEF PoolInv, TypeOK, Get, Moves
<1> HIDE DEF c, f
<1>4. /\ cli[u] \in [Frames(u) -> Clients \union {NoClient}]
      /\ cli'[u] \in [Frames(u) -> Clients \union {NoClient}] /\ cli'[u][f] = c
      /\ \A k \in Frames(u) : k # f => cli'[u][k] = cli[u][k]
  BY <1>1, <1>2, <1>3 DEF PoolInv, TypeOK
<1>5. \A v \in Users : \A k \in out[v] : cli[v][k] \in Clients /\ k \in Frames(v) /\ cli'[v][k] = cli[v][k]
  BY <1>2, <1>3, <1>4, TakenAreClients
<1>6. TypeOK'
  <2>1. \A v \in Users : todo'[v] \in Seq(Steps(v)) /\ out'[v] \subseteq Frames(v)
    BY <1>2, <1>3 DEF PoolInv, TypeOK
  <2>2. \A v \in Users : cli'[v] \in [Frames(v) -> Clients \union {NoClient}]
    BY <1>3, <1>4 DEF PoolInv, TypeOK
  <2>3. \A v \in Users : \A k \in out'[v] : cli'[v][k] \in Clients
    BY <1>1, <1>3, <1>4, <1>5
  <2>4. Len(clients') <= PoolSize
    BY <1>1, PoolAssumption DEF PoolInv, TypeOK
  <2> QED  BY <1>1, <1>3, <2>1, <2>2, <2>3, <2>4 DEF PoolInv, TypeOK
<1>7. Walks'
  BY <1>2, <1>3 DEF PoolInv, Walks
<1>8. Apart'
  <2>1. \A v \in Users : \A k \in out[v] : cli[v][k] # c /\ cli'[v][k] # c
    BY <1>1, <1>5 DEF PoolInv, Apart
  <2>2. ASSUME NEW v \in Users, NEW w \in Users, NEW k \in out'[v], NEW l \in out'[w],
               cli'[v][k] = cli'[w][l]
        PROVE  v = w /\ k = l
    <3>1. k \in out[v] \/ (v = u /\ k = f)
      BY <1>3
    <3>2. l \in out[w] \/ (w = u /\ l = f)
      BY <1>3
    <3>3. CASE k \in out[v] /\ l \in out[w]
      BY <1>5, <2>2, <3>3 DEF PoolInv, Apart
    <3>4. CASE ~(k \in out[v] /\ l \in out[w])
      BY <1>4, <2>1, <2>2, <3>1, <3>2, <3>4
    <3> QED  BY <3>3, <3>4
  <2>3. ASSUME NEW v \in Users, NEW k \in out'[v]
        PROVE  cli'[v][k] \notin Elems(clients') \union shut' \union closer'.kept
    <3>1. CASE k \in out[v]
      BY <1>1, <1>3, <1>5, <3>1 DEF PoolInv, Apart
    <3>2. CASE k \notin out[v]
      <4>1. cli'[v][k] = c
        BY <1>3, <1>4, <3>2
      <4> QED  BY <1>1, <1>3, <4>1 DEF PoolInv, Apart
    <3> QED  BY <3>1, <3>2
  <2> QED  BY <1>1, <1>3, <2>2, <2>3 DEF PoolInv, Apart
<1>9. Complete'
  <2>1. ASSUME NEW d \in Clients
        PROVE  \/ d \in Elems(clients') \union shut' \union closer'.kept
               \/ \E v \in Users : \E k \in out'[v] : cli'[v][k] = d
    <3>1. CASE d = c
      BY <1>3, <1>4, <3>1
    <3>2. CASE d # c /\ d \in Elems(clients) \union shut \union closer.kept
      BY <1>1, <1>3, <3>2
    <3>3. CASE \E v \in Users : \E k \in out[v] : cli[v][k] = d
      <4> PICK v \in Users : \E k \in out[v] : cli[v][k] = d
        BY <3>3
      <4>1. PICK k \in out[v] : cli[v][k] = d
        OBVIOUS
      <4>2. k \in out'[v] /\ cli'[v][k] = d
        BY <1>3, <1>5, <4>1
      <4> QED  BY <4>2
    <3> QED  BY <3>1, <3>2, <3>3 DEF PoolInv, Complete
  <2> QED  BY <1>3, <2>1 DEF PoolInv, Complete, Closing
<1> QED  BY <1>6, <1>7, <1>8, <1>9 DEF PoolInv

\* When an operation has ended its variables are gone, but it holds nothing.
LEMMA ScopePool ==
  ASSUME PoolInv, NEW u \in Users, todo[u] # <<>>, LeavesScope(u), Moves(u),
         NEW B \in SUBSET out[u], Runs(Tail(todo[u]), B, {})
  PROVE  /\ DOMAIN cli' = Users /\ \A v \in Users : v # u => cli'[v] = cli[v]
         /\ cli'[u] \in [Frames(u) -> Clients \union {NoClient}]
         /\ \A k \in B : cli'[u][k] = cli[u][k]
         /\ todo'[u] = Tail(todo[u]) /\ DOMAIN todo' = Users
         /\ \A v \in Users : v # u => todo'[v] = todo[v]
<1>1. cli[u] \in [Frames(u) -> Clients \union {NoClient}] /\ DOMAIN cli = Users
  BY DEF PoolInv, TypeOK
<1>2. CASE Tail(todo[u]) = <<>>
  <2>1. B = {}
    BY <1>2, RunsEnded
  <2>2. NoClients(u) \in [Frames(u) -> Clients \union {NoClient}]
    BY DEF NoClients
  <2>3. cli' = [cli EXCEPT ![u] = NoClients(u)]
    BY <1>2 DEF LeavesScope
  <2> QED  BY <1>1, <2>1, <2>2, <2>3 DEF PoolInv, TypeOK, Moves
<1>3. CASE Tail(todo[u]) # <<>>
  BY <1>1, <1>3 DEF LeavesScope, PoolInv, TypeOK, Moves
<1> QED  BY <1>2, <1>3

LEMMA UsePool ==
  ASSUME PoolInv, NEW u \in Users, Use(u)
  PROVE  PoolInv'
<1>1. todo[u] # <<>> /\ Tail(todo[u]) \in Seq(Steps(u)) /\ Runs(Tail(todo[u]), out[u], {})
  BY StepOfPath DEF Use, IsNext
<1>2. /\ DOMAIN cli' = Users /\ \A v \in Users : v # u => cli'[v] = cli[v]
      /\ cli'[u] \in [Frames(u) -> Clients \union {NoClient}]
      /\ \A k \in out[u] : cli'[u][k] = cli[u][k]
      /\ todo'[u] = Tail(todo[u]) /\ DOMAIN todo' = Users
      /\ \A v \in Users : v # u => todo'[v] = todo[v]
  <2>1. LeavesScope(u) /\ Moves(u) /\ out[u] \in SUBSET out[u]
    BY DEF Use
  <2> QED  BY <1>1, <2>1, ScopePool
<1>3. UNCHANGED <<clients, work, out, shut, closer>>
  BY DEF Use
<1>4. \A v \in Users : \A k \in out[v] : cli'[v][k] = cli[v][k]
  BY <1>2
<1>5. TypeOK'
  <2>1. \A v \in Users : todo'[v] \in Seq(Steps(v))
    BY <1>1, <1>2 DEF PoolInv, TypeOK
  <2>2. \A v \in Users : cli'[v] \in [Frames(v) -> Clients \union {NoClient}]
    BY <1>2 DEF PoolInv, TypeOK
  <2>3. \A v \in Users : \A k \in out'[v] : cli'[v][k] \in Clients
    BY <1>3, <1>4, TakenAreClients
  <2> QED  BY <1>2, <1>3, <2>1, <2>2, <2>3 DEF PoolInv, TypeOK
<1>6. Walks'
  BY <1>1, <1>2, <1>3 DEF PoolInv, Walks
<1>7. Apart' /\ Complete'
  BY <1>3, <1>4 DEF PoolInv, Apart, Complete, Closing
<1> QED  BY <1>5, <1>6, <1>7 DEF PoolInv

\* Put takes the client of its frame back into the channel; that there was no
\* room for it is excluded by RoomForMissing.
LEMMA PutPool ==
  ASSUME PoolInv, NEW u \in Users, Put(u)
  PROVE  PoolInv'
<1> DEFINE f == Frame(u)
           c == cli[u][f]
<1>1. /\ todo[u] # <<>> /\ Tail(todo[u]) \in Seq(Steps(u)) /\ f \in out[u]
      /\ Runs(Tail(todo[u]), out[u] \ {f}, {})
  BY StepOfPath DEF Put, IsNext
<1> DEFINE B == out[u] \ {f}
<1>2. /\ DOMAIN cli' = Users /\ \A v \in Users : v # u => cli'[v] = cli[v]
      /\ cli'[u] \in [Frames(u) -> Clients \union {NoClient}]
      /\ \A k \in B : cli'[u][k] = cli[u][k]
      /\ todo'[u] = Tail(todo[u]) /\ DOMAIN todo' = Users
      /\ \A v \in Users : v # u => todo'[v] = todo[v]
  <2>1. LeavesScope(u) /\ Moves(u) /\ B \in SUBSET out[u]
    BY DEF Put
  <2> HIDE DEF B
  <2> QED  BY <1>1, <2>1, ScopePool DEF B
<1>3. /\ clients \in Seq(Clients) /\ Distinct(clients) /\ Len(clients) <= PoolSize
      /\ c \in Clients /\ c \notin Elems(clients) /\ c \notin shut \union closer.kept
  BY <1>1, TakenAreClients DEF PoolInv, TypeOK, Apart
<1>4. Len(clients) < PoolSize
  <2> HIDE DEF c
  <2> QED  BY <1>3, RoomForMissing
<1>5. /\ clients' = Append(clients, c) /\ UNCHANGED <<work, shut, closer>>
      /\ out'[u] = B /\ DOMAIN out' = Users /\ \A v \in Users : v # u => out'[v] = out[v]
  BY <1>4 DEF Put, PoolInv, TypeOK
<1> HIDE DEF c
<1>6. /\ clients' \in Seq(Clients) /\ Len(clients') = Len(clients) + 1
      /\ Distinct(clients') /\ Elems(clients') = Elems(clients) \union {c}
  BY <1>3, <1>5, AppendElems
<1>7. \A v \in Users : \A k \in out'[v] :
        /\ k \in out[v] /\ cli'[v][k] = cli[v][k] /\ cli[v][k] \in Clients /\ k \in Frames(v)
        /\ cli[v][k] # c
  <2> TAKE v \in Users
  <2> TAKE k \in out'[v]
  <2>1. k \in out[v] /\ cli'[v][k] = cli[v][k] /\ ~(v = u /\ k = f)
    BY <1>2, <1>5
  <2>2. cli[v][k] # c
    BY <1>1, <2>1 DEF PoolInv, Apart, c
  <2> QED  BY <2>1, <2>2, TakenAreClients
<1>8. TypeOK'
  <2>1. \A v \in Users : todo'[v] \in Seq(Steps(v)) /\ out'[v] \subseteq Frames(v)
    BY <1>1, <1>2, <1>7 DEF PoolInv, TypeOK
  <2>2. \A v \in Users : cli'[v] \in [Frames(v) -> Clients \union {NoClient}]
    BY <1>2 DEF PoolInv, TypeOK
  <2>3. \A v \in Users : \A k \in out'[v] : cli'[v][k] \in Clients
    BY <1>7
  <2>4. Len(clients') <= PoolSize
    BY <1>3, <1>4, <1>6, PoolAssumption
  <2> QED  BY <1>2, <1>5, <1>6, <2>1, <2>2, <2>3, <2>4 DEF PoolInv, TypeOK
<1>9. Walks'
  BY <1>1, <1>2, <1>5 DEF PoolInv, Walks
<1>10. Apart'
  <2>1. \A v, w \in Users : \A k \in out'[v], l \in out'[w] :
          cli'[v][k] = cli'[w][l] => v = w /\ k = l
    BY <1>7 DEF PoolInv, Apart
  <2>2. \A v \in Users : \A k \in out'[v] :
          cli'[v][k] \notin Elems(clients') \union shut' \union closer'.kept
    BY <1>5, <1>6, <1>7 DEF PoolInv, Apart
  <2> QED  BY <1>3, <1>5, <1>6, <2>1, <2>2 DEF PoolInv, Apart
<1>11. Complete'
  <2>1. ASSUME NEW d \in Clients
        PROVE  \/ d \in Elems(clients') \union shut' \union closer'.kept
               \/ \E v \in Users : \E k \in out'[v] : cli'[v][k] = d
    <3>1. CASE d = c \/ d \in Elems(clients) \union shut \union closer.kept
      BY <1>5, <1>6, <3>1
    <3>2. CASE d # c /\ \E v \in Users : \E k \in out[v] : cli[v][k] = d
      <4> PICK v \in Users : \E k \in out[v] : cli[v][k] = d
        BY <3>2
      <4>1. PICK k \in out[v] : cli[v][k] = d
        OBVIOUS
      <4>2. k \in out'[v]
        BY <1>5, <3>2, <4>1 DEF c
      <4> QED  BY <1>7, <4>1, <4>2
    <3> QED  BY <3>1, <3>2 DEF PoolInv, Complete
  <2> QED  BY <1>5, <2>1 DEF PoolInv, Complete, Closing
<1> QED  BY <1>8, <1>9, <1>10, <1>11 DEF PoolInv

\* Close takes clients from the channel: EtcdDiscovery's keeps the first,
\* and the others are closed.
LEMMA ClosePool ==
  ASSUME PoolInv, CloseBegins \/ CloseKeeps \/ CloseTests \/ CloseTakes
  PROVE  PoolInv'
<1>1. UNCHANGED <<work, todo, cli, out>>
  BY DEF CloseBegins, CloseKeeps, CloseTests, CloseTakes
<1>2. CASE CloseBegins \/ CloseTests
  <2>1. /\ closer' \in [pc: {"off", "keep", "test", "take", "done"}, kept: SUBSET Clients]
        /\ closer'.kept = closer.kept /\ closer'.pc # "off"
        /\ closer'.pc = "keep" => closer.pc = "off"
    BY <1>2 DEF CloseBegins, CloseTests, PoolInv, TypeOK, Closing
  <2>2. UNCHANGED <<clients, shut>>
    BY <1>2 DEF CloseBegins, CloseTests
  <2> QED  BY <1>1, <2>1, <2>2 DEF PoolInv, TypeOK, Walks, Apart, Complete, Closing
<1>3. CASE CloseKeeps \/ CloseTakes
  <2> DEFINE c == Head(clients)
  <2>1. clients \in Seq(Clients) /\ clients # <<>> /\ Distinct(clients) /\ clients' = Tail(clients)
    BY <1>3 DEF PoolInv, TypeOK, Apart, CloseKeeps, CloseTakes
  <2>2. /\ clients' \in Seq(Clients) /\ Len(clients') = Len(clients) - 1 /\ Distinct(clients')
        /\ c \in Clients /\ c \in Elems(clients) /\ Elems(clients') = Elems(clients) \ {c}
    BY <2>1, TailElems
  <2>3. Len(clients') <= PoolSize
    BY <2>1, <2>2, PoolAssumption DEF PoolInv, TypeOK
  <2>4. /\ closer' \in [pc: {"off", "keep", "test", "take", "done"}, kept: SUBSET Clients]
        /\ closer'.pc = "test" /\ shut' \subseteq Clients /\ closer.pc # "off"
        /\ \/ closer'.kept = closer.kept /\ shut' = shut \union {c}
           \/ closer'.kept = closer.kept \union {c} /\ shut' = shut
    <3>1. CASE CloseKeeps
      BY <2>2, <3>1 DEF CloseKeeps, PoolInv, TypeOK, Complete
    <3>2. CASE CloseTakes
      BY <2>2, <3>2 DEF CloseTakes, PoolInv, TypeOK
    <3> QED  BY <1>3, <3>1, <3>2
  <2> HIDE DEF c
  <2>5. TypeOK' /\ Walks'
    BY <1>1, <2>2, <2>3, <2>4 DEF PoolInv, TypeOK, Walks
  <2>6. Apart'
    <3>1. \A u \in Users : \A k \in out[u] : cli[u][k] # c
      BY <2>2 DEF PoolInv, Apart
    <3> QED  BY <1>1, <2>2, <2>4, <3>1 DEF PoolInv, Apart
  <2>7. Complete'
    BY <1>1, <2>2, <2>4 DEF PoolInv, Complete, Closing
  <2> QED  BY <2>5, <2>6, <2>7 DEF PoolInv
<1> QED  BY <1>2, <1>3

LEMMA NextPool == PoolInv /\ [Next]_vars => PoolInv'
<1> SUFFICES ASSUME PoolInv, [Next]_vars PROVE PoolInv'
  OBVIOUS
<1>1. CASE UNCHANGED vars
  BY <1>1 DEF vars, PoolInv, TypeOK, Walks, Apart, Complete, Closing
<1> QED  BY <1>1, BeginPool, GetPool, UsePool, PutPool, ClosePool DEF Next

LEMMA AlwaysPool == Spec => []PoolInv
BY InitPool, NextPool, PTL DEF Spec

\* Types; a call that has taken a client has one that New created.
THEOREM PoolTypeCorrect == Spec => []TypeOK
<1>1. PoolInv => TypeOK
  BY DEF PoolInv
<1> QED  BY <1>1, AlwaysPool, PTL

\* A client that a call has taken and not put back is in one place only: no
\* other call has it, whatever paths the two are on, and it is not in the
\* channel or closed.
THEOREM ClientInOnePlace == Spec => []OnePlace
<1>1. PoolInv => OnePlace
  <2> SUFFICES ASSUME PoolInv PROVE OnePlace
    OBVIOUS
  <2>1. \A i \in DOMAIN clients : clients[i] \in Elems(clients)
    BY DEF Elems
  <2>2. \A i, j \in DOMAIN clients : clients[i] = clients[j] => i = j
    BY DEF PoolInv, Apart, Distinct
  <2>3. \A i \in DOMAIN clients :
          /\ clients[i] \notin shut /\ clients[i] \notin closer.kept
          /\ \A u \in Users : \A k \in out[u] : cli[u][k] # clients[i]
    BY <2>1 DEF PoolInv, Apart
  <2> QED  BY <2>2, <2>3 DEF OnePlace, PoolInv, Apart
<1> QED  BY <1>1, AlwaysPool, PTL

\* Every path of every operation puts back what it took; no client leaves the
\* pool before it is closed, and the default case of Put is never taken.
THEOREM NoClientLost == Spec => []NoneLost
<1>1. PoolInv => NoneLost
  <2> SUFFICES ASSUME PoolInv PROVE NoneLost
    OBVIOUS
  <2>1. \A u \in Users : todo[u] = <<>> => out[u] = {}
    BY RunsEnded DEF PoolInv, Walks
  <2>2. ASSUME ~Closing
        PROVE  /\ shut = {}
               /\ Clients = Elems(clients) \union UNION {{cli[u][k] : k \in out[u]} : u \in Users}
    <3>1. shut = {} /\ closer.kept = {}
      BY <2>2 DEF PoolInv, Complete, Closing
    <3>2. Elems(clients) \subseteq Clients
      BY DEF PoolInv, TypeOK, Elems
    <3>3. \A u \in Users : {cli[u][k] : k \in out[u]} \subseteq Clients
      BY TakenAreClients
    <3>4. \A c \in Clients : c \in Elems(clients) \/ \E u \in Users : c \in {cli[u][k] : k \in out[u]}
      BY <3>1 DEF PoolInv, Complete
    <3> QED  BY <3>1, <3>2, <3>3, <3>4
  <2> QED  BY <2>1, <2>2 DEF NoneLost, Elems
<1> QED  BY <1>1, AlwaysPool, PTL
=============================================================================
