---------------------------- MODULE BalancerProofs ----------------------------
(***************************************************************************)
(* Theorems about Balancer, for rings, lists and numbers of calls of every *)
(* size.  What the loops of the code compute is proved by induction.       *)
(***************************************************************************)
EXTENDS Balancer, WellFoundedInduction, TLAPS

(***************************************************************************)
(* Induction, for a set of numbers: it follows from the numbers being well *)
(* founded.                                                                *)
(***************************************************************************)
LEMMA LeastNumber ==
  ASSUME NEW U \in SUBSET Nat, U # {}
  PROVE  \E x \in U : \A y \in U : x <= y
<1> DEFINE R == OpToRel(<, Nat)
<1>1. IsWellFoundedOn(R, Nat)
  BY NatLessThanWellFounded
<1>2. \A y, x \in Nat : <<y, x>> \in R <=> y < x
  BY DEF OpToRel
<1> HIDE DEF R
<1>3. PICK x \in U : \A y \in U : ~(<<y, x>> \in R)
  BY <1>1, WFMin
<1>4. \A y \in U : ~(y < x)
  BY <1>2, <1>3
<1> QED  BY <1>4

LEMMA UpTo ==
  ASSUME NEW n \in Nat, NEW T, 0 \in T, \A i \in 1..n : i - 1 \in T => i \in T
  PROVE  \A i \in 0..n : i \in T
<1> DEFINE U == {i \in 0..n : i \notin T}
<1>1. SUFFICES ASSUME U # {} PROVE FALSE
  OBVIOUS
<1>2. PICK x \in U : \A y \in U : x <= y
  <2>1. U \in SUBSET Nat
    OBVIOUS
  <2> HIDE DEF U
  <2> QED  BY <1>1, <2>1, LeastNumber
<1>3. x \in 1..n /\ x - 1 \in 0..n /\ x - 1 \notin U
  BY <1>2
<1> QED  BY <1>2, <1>3

\* A loop of n rounds on a value of D that is c at first, and its values.
IsLoop(n, D, c, step) == n \in Nat /\ c \in D /\ step \in [1..n -> [D -> D]]

Values(n, D, c, step, g) ==
  g \in [0..n -> D] /\ g[0] = c /\ \A i \in 1..n : g[i] = step[i][g[i - 1]]

LEMMA LoopRuns ==
  ASSUME NEW n, NEW D, NEW c, NEW step, IsLoop(n, D, c, step)
  PROVE  \E g : Values(n, D, c, step, g)
<1> USE DEF IsLoop
<1> DEFINE Runs(m, g) == g[0] = c /\ \A i \in 1..m : g[i] = step[i][g[i - 1]]
           T == {m \in 0..n : \E g \in [0..m -> D] : Runs(m, g)}
<1>1. 0 \in T
  <2> DEFINE g == [i \in 0..0 |-> c]
  <2>1. g \in [0..0 -> D] /\ Runs(0, g)
    OBVIOUS
  <2>2. \E f \in [0..0 -> D] : Runs(0, f)
    <3> HIDE DEF g, Runs
    <3> QED  BY <2>1
  <2> QED  BY <2>2
<1>2. ASSUME NEW m \in 1..n, m - 1 \in T  PROVE m \in T
  <2>1. PICK g \in [0..m - 1 -> D] : Runs(m - 1, g)
    BY <1>2
  <2> DEFINE h == [i \in 0..m |-> IF i = m THEN step[m][g[m - 1]] ELSE g[i]]
  <2>2. step[m][g[m - 1]] \in D
    BY m - 1 \in 0..m - 1
  <2>3. h \in [0..m -> D]
    BY <2>2
  <2>4. h[0] = c
    BY <2>1, <1>2
  <2>5. ASSUME NEW i \in 1..m  PROVE h[i] = step[i][h[i - 1]]
    <3>1. i - 1 \in 0..m - 1 /\ h[i - 1] = g[i - 1]
      OBVIOUS
    <3>2. CASE i = m
      <4>1. h[m] = step[m][g[m - 1]]
        OBVIOUS
      <4> QED  BY <3>1, <3>2, <4>1
    <3>3. CASE i \in 1..m - 1
      BY <3>1, <3>3, <2>1
    <3> QED  BY <3>2, <3>3
  <2>6. Runs(m, h)
    BY <2>4, <2>5
  <2>7. \E f \in [0..m -> D] : Runs(m, f)
    <3> HIDE DEF h, Runs
    <3> QED  BY <2>3, <2>6
  <2> HIDE DEF Runs
  <2> QED  BY <2>7, m \in 0..n
<1> HIDE DEF T
<1>3. n \in T
  <2>1. \A i \in 0..n : i \in T
    BY <1>1, <1>2, UpTo
  <2> QED  BY <2>1
<1> QED  BY <1>3 DEF T, Values

\* Smallest and largest members.
LEMMA MinMember ==
  ASSUME NEW U \in SUBSET Nat, U # {}
  PROVE  Min(U) \in U /\ \A y \in U : Min(U) <= y
BY LeastNumber DEF Min

LEMMA MaxMember ==
  ASSUME NEW n \in Nat, NEW U \in SUBSET (1..n), U # {}
  PROVE  Max(U) \in U /\ \A y \in U : Max(U) >= y
<1> DEFINE V == {n - u : u \in U}
<1>1. V \in SUBSET Nat /\ V # {}
  <2>1. \A u \in U : n - u \in Nat
    OBVIOUS
  <2> QED  BY <2>1
<1>2. PICK x \in V : \A y \in V : x <= y
  <2> HIDE DEF V
  <2> QED  BY <1>1, LeastNumber
<1>3. PICK u \in U : x = n - u
  BY <1>2
<1>4. \A y \in U : u >= y
  <2> SUFFICES ASSUME NEW y \in U PROVE u >= y
    OBVIOUS
  <2>1. n - y \in V
    OBVIOUS
  <2>2. n - u <= n - y
    BY <1>2, <1>3, <2>1
  <2> QED  BY <2>2
<1> QED  BY <1>4 DEF Max

(***************************************************************************)
(* What the loops compute.                                                 *)
(***************************************************************************)
\* filterHealthyInstances keeps the order and repeats nothing.
LEMMA HealthyList ==
  ASSUME NEW S, NEW l \in Seq(S)
  PROVE  /\ Healthy(l) \in Seq(S)
         /\ Len(Healthy(l)) <= Len(l)
         /\ IsInjective(l) => IsInjective(Healthy(l))
<1> DEFINE N == Len(l)
           D == Seq(S)
           E(q, n) == IF l[n] \in fit THEN Append(q, l[n]) ELSE q
           Runs(g) == g = [n \in 0..N |-> IF n = 0 THEN <<>> ELSE E(g[n - 1], n)]
           step == [n \in 1..N |-> [q \in D |-> E(q, n)]]
<1>0. N \in Nat /\ l \in [1..N -> S] /\ <<>> \in D
  OBVIOUS
<1>1. \A n \in 1..N : \A q \in D : E(q, n) \in D
  BY <1>0
<1> HIDE DEF N, D, E
<1>2. IsLoop(N, D, <<>>, step)
  BY <1>0, <1>1 DEF IsLoop
<1>3. PICK g : Values(N, D, <<>>, step, g)
  <2> HIDE DEF step
  <2> QED  BY <1>2, LoopRuns
<1>4. Runs(g)
  <2>1. ASSUME NEW n \in 1..N  PROVE g[n] = E(g[n - 1], n)
    <3>1. g[n - 1] \in D /\ g[n] = step[n][g[n - 1]]
      BY <1>0, <1>3 DEF Values
    <3> QED  BY <3>1
  <2>2. \A n \in 0..N : g[n] = IF n = 0 THEN <<>> ELSE E(g[n - 1], n)
    BY <1>0, <1>3, <2>1 DEF Values
  <2> QED  BY <1>3, <2>2 DEF Values
<1>5. PICK f : Runs(f) /\ Healthy(l) = f[N]
  <2>1. Runs(CHOOSE f : Runs(f))
    <3> HIDE DEF Runs
    <3> QED  BY <1>4
  <2> QED  BY <2>1 DEF Healthy, N, E
<1>6. f[0] = <<>> /\ \A n \in 1..N : f[n] = E(f[n - 1], n)
  BY <1>0, <1>5
<1> DEFINE Good(n) ==
      /\ f[n] \in Seq(S) /\ Len(f[n]) <= n
      /\ \A a \in 1..Len(f[n]) : \E b \in 1..n : f[n][a] = l[b]
      /\ IsInjective(l) => \A a, b \in 1..Len(f[n]) : f[n][a] = f[n][b] => a = b
<1>7. Good(0)
  BY <1>6
<1>8. ASSUME NEW n \in 1..N, Good(n - 1)  PROVE Good(n)
  <2>1. CASE l[n] \notin fit
    <3>1. f[n] = f[n - 1]
      BY <1>6, <2>1 DEF E
    <3> QED  BY <3>1, <1>8
  <2>2. CASE l[n] \in fit
    <3> DEFINE q == f[n - 1]
    <3>1. f[n] = Append(q, l[n]) /\ l[n] \in S
      BY <1>0, <1>6, <2>2 DEF E
    <3>2. q \in Seq(S) /\ Len(q) \in Nat /\ Len(q) <= n - 1
      BY <1>8
    <3>3. \A a \in 1..Len(q) : \E b \in 1..n - 1 : q[a] = l[b]
      BY <1>8
    <3>4. IsInjective(l) => \A a, b \in 1..Len(q) : q[a] = q[b] => a = b
      BY <1>8
    <3> HIDE DEF q
    <3>5. /\ f[n] \in Seq(S) /\ Len(f[n]) = Len(q) + 1 /\ f[n][Len(q) + 1] = l[n]
          /\ \A a \in 1..Len(q) : f[n][a] = q[a]
      BY <3>1, <3>2
    <3>6. ASSUME IsInjective(l), NEW a \in 1..Len(q)  PROVE f[n][a] # l[n]
      <4>1. PICK b \in 1..n - 1 : q[a] = l[b]
        BY <3>3
      <4>2. b # n /\ b \in DOMAIN l /\ n \in DOMAIN l
        BY <1>0
      <4>3. l[b] # l[n]
        BY <3>6, <4>2 DEF IsInjective
      <4> QED  BY <3>5, <4>1, <4>3
    <3>7. ASSUME NEW a \in 1..Len(f[n])  PROVE \E b \in 1..n : f[n][a] = l[b]
      <4>1. CASE a = Len(q) + 1
        BY <3>5, <4>1, n \in 1..n
      <4>2. CASE a \in 1..Len(q)
        <5>1. PICK b \in 1..n - 1 : q[a] = l[b]
          BY <3>3, <4>2
        <5> QED  BY <3>5, <4>2, <5>1, b \in 1..n
      <4> QED  BY <3>2, <3>5, <4>1, <4>2
    <3>8. IsInjective(l) => \A a, b \in 1..Len(f[n]) : f[n][a] = f[n][b] => a = b
      BY <3>2, <3>4, <3>5, <3>6
    <3> QED  BY <3>2, <3>5, <3>7, <3>8
  <2> QED  BY <2>1, <2>2
<1>9. Good(N)
  <2> DEFINE T == {n \in 0..N : Good(n)}
  <2> HIDE DEF Good
  <2>1. 0 \in T /\ \A n \in 1..N : n - 1 \in T => n \in T
    BY <1>0, <1>7, <1>8
  <2>2. N \in T
    <3> HIDE DEF T
    <3>1. \A n \in 0..N : n \in T
      BY <1>0, <2>1, UpTo
    <3> QED  BY <1>0, <3>1
  <2> QED  BY <2>2
<1>10. DOMAIN f[N] = 1..Len(f[N])
  BY <1>9
<1> QED  BY <1>5, <1>9, <1>10 DEF IsInjective, N

\* A ring has the points of all instances of its list, and no others.
AHash == 0..Hashes - 1

LEMMA RingPoints ==
  ASSUME NEW l \in Seq(Instances)
  PROVE  /\ RingOf(l) \in Seq(AHash)
         /\ Len(RingOf(l)) = Len(l) * Points
         /\ \A h : h \in Range(RingOf(l)) <=> \E n \in DOMAIN l : h \in Range(PointsOf(l, n))
<1> DEFINE N == Len(l)
           D == Seq(AHash)
           E(q, n) == q \o PointsOf(l, n)
           Runs(g) == g = [n \in 0..N |-> IF n = 0 THEN <<>> ELSE E(g[n - 1], n)]
           step == [n \in 1..N |-> [q \in D |-> E(q, n)]]
<1>0. N \in Nat /\ DOMAIN l = 1..N /\ <<>> \in D
  OBVIOUS
<1>1. \A n \in 1..N : PointsOf(l, n) \in D /\ Len(PointsOf(l, n)) = Points
  BY BalancerAssumption DEF PointsOf, AHash
<1>2. \A n \in 1..N : \A q \in D : E(q, n) \in D
  BY <1>1
<1> HIDE DEF N, D, E
<1>3. IsLoop(N, D, <<>>, step)
  BY <1>0, <1>2 DEF IsLoop
<1>4. PICK g : Values(N, D, <<>>, step, g)
  <2> HIDE DEF step
  <2> QED  BY <1>3, LoopRuns
<1>5. Runs(g)
  <2>1. ASSUME NEW n \in 1..N  PROVE g[n] = E(g[n - 1], n)
    <3>1. g[n - 1] \in D /\ g[n] = step[n][g[n - 1]]
      BY <1>0, <1>4 DEF Values
    <3> QED  BY <3>1
  <2>2. \A n \in 0..N : g[n] = IF n = 0 THEN <<>> ELSE E(g[n - 1], n)
    BY <1>0, <1>4, <2>1 DEF Values
  <2> QED  BY <1>4, <2>2 DEF Values
<1>6. PICK f : Runs(f) /\ RingOf(l) = f[N]
  <2>1. Runs(CHOOSE f : Runs(f))
    <3> HIDE DEF Runs
    <3> QED  BY <1>5
  <2> QED  BY <2>1 DEF RingOf, N, E
<1>7. f[0] = <<>> /\ \A n \in 1..N : f[n] = E(f[n - 1], n)
  BY <1>0, <1>6
<1> DEFINE Good(n) ==
      /\ f[n] \in D /\ Len(f[n]) = n * Points
      /\ \A h : h \in Range(f[n]) <=> \E m \in 1..n : h \in Range(PointsOf(l, m))
<1>8. Good(0)
  BY <1>7, BalancerAssumption DEF D, Range
<1>9. ASSUME NEW n \in 1..N, Good(n - 1)  PROVE Good(n)
  <2> DEFINE q == f[n - 1]
             p == PointsOf(l, n)
  <2>1. f[n] = q \o p
    BY <1>7 DEF E
  <2>2. q \in D /\ p \in D /\ Len(q) = (n - 1) * Points /\ Len(p) = Points
    BY <1>1, <1>9
  <2>3. \A h : h \in Range(q) <=> \E m \in 1..n - 1 : h \in Range(PointsOf(l, m))
    BY <1>9
  <2> HIDE DEF q
  <2>4. \A h : h \in Range(q \o p) <=> h \in Range(q) \/ h \in Range(p)
    <3> HIDE DEF p
    <3>1. q \in Seq(AHash) /\ p \in Seq(AHash)
      BY <2>2 DEF D
    <3>2. Len(q) \in Nat /\ Len(p) \in Nat /\ DOMAIN q = 1..Len(q) /\ DOMAIN p = 1..Len(p)
      BY <3>1
    <3>3. /\ DOMAIN (q \o p) = 1..Len(q) + Len(p)
          /\ \A a \in 1..Len(q) : (q \o p)[a] = q[a]
          /\ \A a \in 1..Len(p) : (q \o p)[Len(q) + a] = p[a]
      BY <3>1
    <3>4. ASSUME NEW a \in 1..Len(q) + Len(p), a > Len(q)
          PROVE  a - Len(q) \in 1..Len(p) /\ Len(q) + (a - Len(q)) = a
      BY <3>2, <3>4
    <3>5. ASSUME NEW h, h \in Range(q \o p)  PROVE h \in Range(q) \/ h \in Range(p)
      <4>1. PICK a \in 1..Len(q) + Len(p) : h = (q \o p)[a]
        BY <3>3, <3>5 DEF Range
      <4>2. CASE a <= Len(q)
        BY <3>2, <3>3, <4>1, <4>2 DEF Range
      <4>3. CASE a > Len(q)
        BY <3>2, <3>3, <3>4, <4>1, <4>3 DEF Range
      <4> QED  BY <3>2, <4>2, <4>3
    <3>6. ASSUME NEW h, h \in Range(q)  PROVE h \in Range(q \o p)
      BY <3>2, <3>3, <3>6 DEF Range
    <3>7. ASSUME NEW h, h \in Range(p)  PROVE h \in Range(q \o p)
      <4>1. PICK a \in 1..Len(p) : h = p[a]
        BY <3>2, <3>7 DEF Range
      <4>2. Len(q) + a \in 1..Len(q) + Len(p)
        BY <3>2
      <4> QED  BY <3>3, <4>1, <4>2 DEF Range
    <3> QED  BY <3>5, <3>6, <3>7
  <2> HIDE DEF p
  <2>5. Len(q \o p) = n * Points
    <3>1. Len(q \o p) = (n - 1) * Points + Points
      BY <2>2 DEF D
    <3> QED  BY <1>0, <3>1, BalancerAssumption
  <2>6. q \o p \in D
    BY <2>2 DEF D
  <2>7. \A m \in 1..n : m \in 1..n - 1 \/ m = n
    BY <1>0
  <2>8. \A m \in 1..n - 1 : m \in 1..n
    BY <1>0
  <2>9. n \in 1..n
    BY <1>0
  <2> QED  BY <2>1, <2>3, <2>4, <2>5, <2>6, <2>7, <2>8, <2>9 DEF p
<1>10. Good(N)
  <2> DEFINE T == {n \in 0..N : Good(n)}
  <2> HIDE DEF Good
  <2>1. 0 \in T /\ \A n \in 1..N : n - 1 \in T => n \in T
    BY <1>0, <1>8, <1>9
  <2>2. N \in T
    <3> HIDE DEF T
    <3>1. \A n \in 0..N : n \in T
      BY <1>0, <2>1, UpTo
    <3> QED  BY <1>0, <3>1
  <2> QED  BY <2>2
<1> QED  BY <1>0, <1>6, <1>10 DEF N, D

\* The inner loop leaves at place i the least of what stood from i on, which
\* stays there in some order, and moves nothing before i.
SamePlaces(q, r, i, n) ==
  /\ \A a \in i..n : \E b \in i..n : q[a] = r[b]
  /\ \A b \in i..n : \E a \in i..n : q[a] = r[b]

SweptTo(q, r, i, j) ==
  /\ q \in Seq(Nat) /\ Len(q) = Len(r)
  /\ \A a \in 1..i - 1 : q[a] = r[a]
  /\ SamePlaces(q, r, i, Len(r))
  /\ \A b \in i + 1..j : q[i] <= q[b]

LEMMA ExchangedSweeps ==
  ASSUME NEW r \in Seq(Nat), NEW i \in 1..Len(r), NEW j \in 1..Len(r), NEW q,
         SweptTo(q, r, i, j - 1)
  PROVE  SweptTo(Exchanged(q, i, j), r, i, j)
<1> DEFINE e == Exchanged(q, i, j)
           N == Len(r)
<1>0. N \in Nat /\ q \in [1..N -> Nat] /\ q \in Seq(Nat) /\ Len(q) = N
  BY DEF SweptTo
<1>1. CASE ~(i < j /\ q[i] > q[j])
  <2>1. e = q
    BY <1>1 DEF Exchanged
  <2>2. \A b \in i + 1..j : q[i] <= q[b]
    <3> SUFFICES ASSUME NEW b \in i + 1..j  PROVE q[i] <= q[b]
      OBVIOUS
    <3>1. CASE b = j
      <4>1. q[i] \in Nat /\ q[j] \in Nat
        BY <1>0
      <4> QED  BY <1>1, <3>1, <4>1
    <3>2. CASE b \in i + 1..j - 1
      BY <3>2 DEF SweptTo
    <3> QED  BY <3>1, <3>2
  <2> QED  BY <2>1, <2>2 DEF SweptTo
<1>2. CASE i < j /\ q[i] > q[j]
  <2>1. e = [q EXCEPT ![i] = q[j], ![j] = q[i]]
    BY <1>2 DEF Exchanged
  <2> HIDE DEF e, N
  <2>2. i \in 1..N /\ j \in 1..N /\ i < j /\ N \in Nat
    BY <1>0, <1>2 DEF N
  <2>3. /\ e \in [1..N -> Nat]
        /\ e[i] = q[j] /\ e[j] = q[i]
        /\ \A a \in 1..N : a # i /\ a # j => e[a] = q[a]
    BY <1>0, <2>1, <2>2
  <2>4. e \in Seq(Nat) /\ Len(e) = N
    BY <2>2, <2>3
  <2>5. \A a \in 1..i - 1 : e[a] = r[a]
    <3>1. \A a \in 1..i - 1 : q[a] = r[a] /\ a \in 1..N /\ a # i /\ a # j
      BY <2>2 DEF SweptTo
    <3> QED  BY <2>3, <3>1
  <2>6. SamePlaces(e, r, i, N)
    <3>1. /\ \A a \in i..N : \E b \in i..N : q[a] = r[b]
          /\ \A b \in i..N : \E a \in i..N : q[a] = r[b]
      BY DEF SweptTo, SamePlaces, N
    <3>2. i \in i..N /\ j \in i..N
      BY <2>2
    <3>3. ASSUME NEW a \in i..N  PROVE \E c \in i..N : e[a] = q[c]
      <4>1. CASE a = i  BY <2>3, <3>2, <4>1
      <4>2. CASE a = j  BY <2>3, <3>2, <4>2
      <4>3. CASE a # i /\ a # j
        <5>1. a \in 1..N  BY <2>2
        <5> QED  BY <2>3, <4>3, <5>1
      <4> QED  BY <4>1, <4>2, <4>3
    <3>4. ASSUME NEW c \in i..N  PROVE \E a \in i..N : e[a] = q[c]
      <4>1. CASE c = i  BY <2>3, <3>2, <4>1
      <4>2. CASE c = j  BY <2>3, <3>2, <4>2
      <4>3. CASE c # i /\ c # j
        <5>1. c \in 1..N  BY <2>2
        <5> QED  BY <2>3, <4>3, <5>1
      <4> QED  BY <4>1, <4>2, <4>3
    <3>5. ASSUME NEW a \in i..N  PROVE \E b \in i..N : e[a] = r[b]
      <4>1. PICK c \in i..N : e[a] = q[c]  BY <3>3
      <4>2. PICK b \in i..N : q[c] = r[b]  BY <3>1
      <4> QED  BY <4>1, <4>2
    <3>6. ASSUME NEW b \in i..N  PROVE \E a \in i..N : e[a] = r[b]
      <4>1. PICK c \in i..N : q[c] = r[b]  BY <3>1
      <4>2. PICK a \in i..N : e[a] = q[c]  BY <3>4
      <4> QED  BY <4>1, <4>2
    <3> QED  BY <3>5, <3>6 DEF SamePlaces
  <2>7. ASSUME NEW b \in i + 1..j  PROVE e[i] <= e[b]
    <3>1. q[i] \in Nat /\ q[j] \in Nat /\ q[i] > q[j]
      BY <1>0, <1>2, <2>2 DEF N
    <3>2. CASE b = j
      BY <2>3, <3>1, <3>2
    <3>3. CASE b \in i + 1..j - 1
      <4>1. q[i] <= q[b]
        BY <3>3 DEF SweptTo
      <4>2. b \in 1..N /\ b # i /\ b # j
        BY <2>2, <3>3
      <4>3. q[b] \in Nat
        BY <1>0, <4>2 DEF N
      <4> QED  BY <2>3, <3>1, <4>1, <4>2, <4>3
    <3> QED  BY <3>2, <3>3
  <2> QED  BY <2>4, <2>5, <2>6, <2>7 DEF SweptTo, N, e
<1> QED  BY <1>1, <1>2

LEMMA SweepEnds ==
  ASSUME NEW r \in Seq(Nat), NEW i \in 1..Len(r)
  PROVE  SweptTo(Swept(r, i), r, i, Len(r))
<1> DEFINE N == Len(r)
           DN == {q \in Seq(Nat) : Len(q) = N}
           E(q, j) == Exchanged(q, i, j)
           Runs(g) == g = [j \in 0..N |-> IF j = 0 THEN r ELSE E(g[j - 1], j)]
           step == [j \in 1..N |-> [q \in DN |-> E(q, j)]]
<1>0. N \in Nat /\ r \in DN /\ i \in 1..N
  OBVIOUS
<1>1. ASSUME NEW j \in 1..N, NEW q \in DN  PROVE E(q, j) \in DN
  <2>1. q \in [1..N -> Nat]
    OBVIOUS
  <2>2. [q EXCEPT ![i] = q[j], ![j] = q[i]] \in [1..N -> Nat]
    BY <1>0, <2>1
  <2>3. [q EXCEPT ![i] = q[j], ![j] = q[i]] \in DN
    BY <1>0, <2>2
  <2> QED  BY <2>3 DEF Exchanged
<1> HIDE DEF N, DN, E
<1>2. IsLoop(N, DN, r, step)
  BY <1>0, <1>1 DEF IsLoop
<1>3. PICK g : Values(N, DN, r, step, g)
  <2> HIDE DEF step
  <2> QED  BY <1>2, LoopRuns
<1>4. Runs(g)
  <2>1. ASSUME NEW j \in 1..N  PROVE g[j] = E(g[j - 1], j)
    <3>1. g[j - 1] \in DN /\ g[j] = step[j][g[j - 1]]
      BY <1>0, <1>3 DEF Values
    <3> QED  BY <3>1
  <2>2. \A j \in 0..N : g[j] = IF j = 0 THEN r ELSE E(g[j - 1], j)
    BY <1>0, <1>3, <2>1 DEF Values
  <2> QED  BY <1>3, <2>2 DEF Values
<1>5. PICK f : Runs(f) /\ Swept(r, i) = f[N]
  <2>1. Runs(CHOOSE f : Runs(f))
    <3> HIDE DEF Runs
    <3> QED  BY <1>4
  <2> QED  BY <2>1 DEF Swept, N, E
<1>6. f[0] = r /\ \A j \in 1..N : f[j] = E(f[j - 1], j)
  BY <1>0, <1>5
<1> DEFINE T == {j \in 0..N : SweptTo(f[j], r, i, j)}
<1>7. 0 \in T
  <2>1. \A a \in i..N : a \in i..N /\ r[a] = r[a]
    OBVIOUS
  <2>2. SamePlaces(r, r, i, N)
    BY <2>1 DEF SamePlaces
  <2>3. \A b \in i + 1..0 : FALSE
    BY <1>0
  <2> QED  BY <1>0, <1>6, <2>2, <2>3 DEF SweptTo, N
<1>8. ASSUME NEW j \in 1..N, j - 1 \in T  PROVE j \in T
  <2>1. SweptTo(E(f[j - 1], j), r, i, j)
    BY <1>8, ExchangedSweeps DEF E, N
  <2> QED  BY <1>0, <1>6, <2>1
<1>9. N \in T
  <2> HIDE DEF T
  <2>1. \A j \in 0..N : j \in T
    BY <1>0, <1>7, <1>8, UpTo
  <2> QED  BY <1>0, <2>1
<1> QED  BY <1>5, <1>9 DEF N

\* The exchanges put a ring in order, and keep what it holds.
SortedTo(q, r, i) ==
  /\ q \in Seq(Nat) /\ Len(q) = Len(r)
  /\ SamePlaces(q, r, 1, Len(r))
  /\ \A a \in 1..i : \A b \in a + 1..Len(r) : q[a] <= q[b]

LEMMA SweptSorts ==
  ASSUME NEW r \in Seq(Nat), NEW i \in 1..Len(r), NEW q, SortedTo(q, r, i - 1)
  PROVE  SortedTo(Swept(q, i), r, i)
<1> DEFINE s == Swept(q, i)
           N == Len(r)
<1>0. N \in Nat /\ q \in Seq(Nat) /\ Len(q) = N /\ q \in [1..N -> Nat]
  BY DEF SortedTo
<1>1. SweptTo(s, q, i, N)
  BY <1>0, SweepEnds
<1> HIDE DEF s
<1>2. s \in Seq(Nat) /\ Len(s) = N /\ s \in [1..N -> Nat]
  BY <1>0, <1>1 DEF SweptTo
<1>3. \A a \in 1..i - 1 : s[a] = q[a]
  BY <1>1 DEF SweptTo
<1>4. /\ \A a \in i..N : \E b \in i..N : s[a] = q[b]
      /\ \A b \in i..N : \E a \in i..N : s[a] = q[b]
  BY <1>0, <1>1 DEF SweptTo, SamePlaces
<1>5. \A b \in i + 1..N : s[i] <= s[b]
  BY <1>1 DEF SweptTo
<1> HIDE DEF N
<1>6. i \in 1..N
  BY DEF N
<1>7. SamePlaces(s, r, 1, N)
  <2>1. /\ \A a \in 1..N : \E b \in 1..N : q[a] = r[b]
        /\ \A b \in 1..N : \E a \in 1..N : q[a] = r[b]
    BY DEF SortedTo, SamePlaces, N
  <2>2. ASSUME NEW a \in 1..N  PROVE \E b \in 1..N : s[a] = q[b]
    <3>1. CASE a \in 1..i - 1
      BY <1>3, <3>1
    <3>2. CASE a \in i..N
      <4>1. PICK b \in i..N : s[a] = q[b]
        BY <1>4, <3>2
      <4>2. b \in 1..N
        BY <1>6
      <4> QED  BY <4>1, <4>2
    <3> QED  BY <1>0, <1>6, <3>1, <3>2
  <2>3. ASSUME NEW b \in 1..N  PROVE \E a \in 1..N : s[a] = q[b]
    <3>1. CASE b \in 1..i - 1
      BY <1>3, <3>1
    <3>2. CASE b \in i..N
      <4>1. PICK a \in i..N : s[a] = q[b]
        BY <1>4, <3>2
      <4>2. a \in 1..N
        BY <1>6
      <4> QED  BY <4>1, <4>2
    <3> QED  BY <1>0, <1>6, <3>1, <3>2
  <2>4. ASSUME NEW a \in 1..N  PROVE \E b \in 1..N : s[a] = r[b]
    <3>1. PICK c \in 1..N : s[a] = q[c]  BY <2>2
    <3>2. PICK b \in 1..N : q[c] = r[b]  BY <2>1
    <3> QED  BY <3>1, <3>2
  <2>5. ASSUME NEW b \in 1..N  PROVE \E a \in 1..N : s[a] = r[b]
    <3>1. PICK c \in 1..N : q[c] = r[b]  BY <2>1
    <3>2. PICK a \in 1..N : s[a] = q[c]  BY <2>3
    <3> QED  BY <3>1, <3>2
  <2> QED  BY <2>4, <2>5 DEF SamePlaces
<1>8. ASSUME NEW a \in 1..i, NEW b \in a + 1..N  PROVE s[a] <= s[b]
  <2>1. CASE a = i
    BY <1>5, <2>1
  <2>2. CASE a \in 1..i - 1
    <3>1. s[a] = q[a] /\ \A c \in a + 1..N : q[a] <= q[c]
      BY <1>3, <2>2 DEF SortedTo, N
    <3>2. CASE b \in 1..i - 1
      BY <1>3, <3>1, <3>2
    <3>3. CASE b \in i..N
      <4>1. PICK c \in i..N : s[b] = q[c]
        BY <1>4, <3>3
      <4>2. c \in a + 1..N
        BY <1>0, <1>6, <2>2
      <4> QED  BY <3>1, <4>1, <4>2
    <3> QED  BY <1>0, <1>6, <2>2, <3>2, <3>3
  <2> QED  BY <1>6, <2>1, <2>2
<1> QED  BY <1>2, <1>7, <1>8 DEF SortedTo, N, s

LEMMA SortEnds ==
  ASSUME NEW r \in Seq(Nat)
  PROVE  SortedTo(Sorted(r), r, Len(r))
<1> DEFINE N == Len(r)
           DN == {q \in Seq(Nat) : Len(q) = N}
           E(q, i) == Swept(q, i)
           Runs(g) == g = [i \in 0..N |-> IF i = 0 THEN r ELSE E(g[i - 1], i)]
           step == [i \in 1..N |-> [q \in DN |-> E(q, i)]]
<1>0. N \in Nat /\ r \in DN
  OBVIOUS
<1>1. ASSUME NEW i \in 1..N, NEW q \in DN  PROVE E(q, i) \in DN
  BY SweepEnds DEF SweptTo
<1> HIDE DEF N, DN, E
<1>2. IsLoop(N, DN, r, step)
  BY <1>0, <1>1 DEF IsLoop
<1>3. PICK g : Values(N, DN, r, step, g)
  <2> HIDE DEF step
  <2> QED  BY <1>2, LoopRuns
<1>4. Runs(g)
  <2>1. ASSUME NEW i \in 1..N  PROVE g[i] = E(g[i - 1], i)
    <3>1. g[i - 1] \in DN /\ g[i] = step[i][g[i - 1]]
      BY <1>0, <1>3 DEF Values
    <3> QED  BY <3>1
  <2>2. \A i \in 0..N : g[i] = IF i = 0 THEN r ELSE E(g[i - 1], i)
    BY <1>0, <1>3, <2>1 DEF Values
  <2> QED  BY <1>3, <2>2 DEF Values
<1>5. PICK f : Runs(f) /\ Sorted(r) = f[N]
  <2>1. Runs(CHOOSE f : Runs(f))
    <3> HIDE DEF Runs
    <3> QED  BY <1>4
  <2> QED  BY <2>1 DEF Sorted, N, E
<1>6. f[0] = r /\ \A i \in 1..N : f[i] = E(f[i - 1], i)
  BY <1>0, <1>5
<1> DEFINE T == {i \in 0..N : SortedTo(f[i], r, i)}
<1>7. 0 \in T
  <2>1. \A a \in 1..N : a \in 1..N /\ r[a] = r[a]
    OBVIOUS
  <2>2. SamePlaces(r, r, 1, N)
    BY <2>1 DEF SamePlaces
  <2>3. \A a \in 1..0 : FALSE
    OBVIOUS
  <2> QED  BY <1>0, <1>6, <2>2, <2>3 DEF SortedTo, N
<1>8. ASSUME NEW i \in 1..N, i - 1 \in T  PROVE i \in T
  <2>1. SortedTo(E(f[i - 1], i), r, i)
    BY <1>8, SweptSorts DEF E, N
  <2> QED  BY <1>0, <1>6, <2>1
<1>9. N \in T
  <2> HIDE DEF T
  <2>1. \A i \in 0..N : i \in T
    BY <1>0, <1>7, <1>8, UpTo
  <2> QED  BY <1>0, <2>1
<1> QED  BY <1>5, <1>9 DEF N

\* A sorted ring: the same hashes, in order.
THEOREM SortIsCorrect ==
  ASSUME NEW r \in Seq(Nat)
  PROVE  /\ Sorted(r) \in Seq(Nat) /\ Len(Sorted(r)) = Len(r)
         /\ Range(Sorted(r)) = Range(r)
         /\ \A a, b \in DOMAIN r : a <= b => Sorted(r)[a] <= Sorted(r)[b]
<1> DEFINE s == Sorted(r)
           N == Len(r)
<1>1. SortedTo(s, r, N)
  BY SortEnds
<1> HIDE DEF s
<1>2. /\ s \in Seq(Nat) /\ Len(s) = N /\ N \in Nat
      /\ DOMAIN s = 1..N /\ DOMAIN r = 1..N
  BY <1>1 DEF SortedTo
<1>3. /\ \A a \in 1..N : \E b \in 1..N : s[a] = r[b]
      /\ \A b \in 1..N : \E a \in 1..N : s[a] = r[b]
  BY <1>1 DEF SortedTo, SamePlaces
<1>4. Range(s) = Range(r)
  <2>1. \A h : h \in Range(s) <=> \E a \in 1..N : h = s[a]
    BY <1>2 DEF Range
  <2>2. \A h : h \in Range(r) <=> \E b \in 1..N : h = r[b]
    BY <1>2 DEF Range
  <2>3. \A h : h \in Range(s) <=> h \in Range(r)
    BY <1>3, <2>1, <2>2
  <2> QED  BY <2>3
<1>5. ASSUME NEW a \in 1..N, NEW b \in 1..N, a <= b  PROVE s[a] <= s[b]
  <2>1. CASE a = b
    <3>1. s[a] \in Nat
      BY <1>2
    <3> QED  BY <2>1, <3>1
  <2>2. CASE b \in a + 1..N
    BY <1>1, <2>2 DEF SortedTo
  <2> QED  BY <1>5, <2>1, <2>2
<1> QED  BY <1>2, <1>4, <1>5 DEF s

(***************************************************************************)
(* The ring finds the owner of a key.                                      *)
(***************************************************************************)
LEMMA DistanceIs ==
  ASSUME NEW h \in AHash, NEW p \in AHash
  PROVE  Distance(h, p) = IF p >= h THEN p - h ELSE p - h + Hashes
BY BalancerAssumption DEF AHash, Distance

\* The first hash not below h, or the first of all, is the nearest going up.
LEMMA LookupIsNearest ==
  ASSUME NEW r \in Seq(AHash), r # <<>>, NEW h \in AHash,
         \A a, b \in DOMAIN r : a <= b => r[a] <= r[b]
  PROVE  /\ Lookup(r, h) \in Range(r)
         /\ \A p \in Range(r) : Distance(h, Lookup(r, h)) <= Distance(h, p)
<1> DEFINE N == Len(r)
           above == {n \in DOMAIN r : r[n] >= h}
<1>1. /\ N \in Nat /\ N >= 1 /\ DOMAIN r = 1..N /\ r \in [1..N -> AHash]
      /\ \A n \in 1..N : r[n] \in AHash /\ r[n] \in Nat /\ r[n] < Hashes
  <2>1. \A x \in AHash : x \in Nat /\ x < Hashes
    BY BalancerAssumption DEF AHash
  <2>2. N \in Nat /\ N >= 1 /\ DOMAIN r = 1..N /\ r \in [1..N -> AHash]
    OBVIOUS
  <2> QED  BY <2>1, <2>2
<1>2. h \in Nat /\ h < Hashes /\ Hashes \in Nat
  BY BalancerAssumption DEF AHash
<1>3. \A p \in Range(r) : \E n \in 1..N : p = r[n]
  BY <1>1 DEF Range
<1>4. CASE above # {}
  <2> DEFINE m == Min(above)
  <2>1. m \in above /\ \A n \in above : m <= n
    <3>1. above \in SUBSET Nat
      BY <1>1
    <3> HIDE DEF above
    <3> QED  BY <1>4, <3>1, MinMember
  <2>2. Lookup(r, h) = r[m]
    BY <1>4 DEF Lookup
  <2> HIDE DEF m
  <2>3. m \in 1..N /\ r[m] >= h /\ r[m] \in Range(r)
    BY <1>1, <2>1 DEF Range
  <2>4. ASSUME NEW n \in 1..N  PROVE Distance(h, r[m]) <= Distance(h, r[n])
    <3>1. /\ Distance(h, r[m]) = r[m] - h
          /\ Distance(h, r[n]) = IF r[n] >= h THEN r[n] - h ELSE r[n] - h + Hashes
      BY <1>1, <2>3, DistanceIs
    <3>2. CASE r[n] >= h
      <4>1. r[m] <= r[n]
        BY <1>1, <2>1, <2>3, <3>2
      <4> QED  BY <1>1, <1>2, <2>3, <3>1, <3>2, <4>1
    <3>3. CASE ~(r[n] >= h)
      BY <1>1, <1>2, <2>3, <3>1, <3>3
    <3> QED  BY <3>2, <3>3
  <2> QED  BY <1>3, <2>2, <2>3, <2>4
<1>5. CASE above = {}
  <2>1. Lookup(r, h) = r[1] /\ \A n \in 1..N : ~(r[n] >= h)
    BY <1>1, <1>5 DEF Lookup
  <2>2. 1 \in 1..N /\ r[1] \in Range(r)
    BY <1>1 DEF Range
  <2>3. ASSUME NEW n \in 1..N  PROVE Distance(h, r[1]) <= Distance(h, r[n])
    <3>1. /\ Distance(h, r[1]) = r[1] - h + Hashes
          /\ Distance(h, r[n]) = r[n] - h + Hashes
      BY <1>1, <2>1, <2>2, DistanceIs
    <3>2. r[1] <= r[n]
      BY <1>1, <2>2
    <3> QED  BY <1>1, <1>2, <2>2, <3>1, <3>2
  <2> QED  BY <1>3, <2>1, <2>2, <2>3
<1> QED  BY <1>4, <1>5

\* What Builds makes of a list: a ring in order with the list's points, and
\* for each of them an instance of the list that has it.
LEMMA Built ==
  ASSUME NEW l \in Seq(Instances), l # <<>>
  PROVE  LET r == Sorted(RingOf(l))
         IN  /\ r \in Seq(AHash) /\ r # <<>> /\ Len(r) = Len(l) * Points
             /\ \A a, b \in DOMAIN r : a <= b => r[a] <= r[b]
             /\ Range(r) = Range(RingOf(l))
             /\ \A h : h \in Range(r) <=> \E i \in Range(l) : h \in Range(Point[Host[i]])
             /\ NodesOf(l) \in [Range(r) -> Range(l)]
             /\ \A h \in Range(r) : h \in Range(Point[Host[NodesOf(l)[h]]])
<1> DEFINE R == RingOf(l)
           r == Sorted(R)
           N == Len(l)
<1>0. N \in Nat /\ N >= 1 /\ DOMAIN l = 1..N /\ \A n \in 1..N : l[n] \in Range(l)
  BY DEF Range
<1>1. /\ R \in Seq(AHash) /\ Len(R) = N * Points
      /\ \A h : h \in Range(R) <=> \E n \in 1..N : h \in Range(PointsOf(l, n))
  BY <1>0, RingPoints
<1> HIDE DEF R
<1>2. AHash \subseteq Nat
  BY BalancerAssumption DEF AHash
<1>3. R \in Seq(Nat) /\ DOMAIN R = 1..Len(R) /\ Len(R) \in Nat
  <2>1. DOMAIN R = 1..Len(R) /\ Len(R) \in Nat /\ \A a \in 1..Len(R) : R[a] \in AHash
    BY <1>1
  <2>2. \A a \in 1..Len(R) : R[a] \in Nat
    BY <1>2, <2>1
  <2> QED  BY <1>1, <2>1, <2>2
<1>4. /\ r \in Seq(Nat) /\ Len(r) = Len(R) /\ Range(r) = Range(R)
      /\ \A a, b \in DOMAIN R : a <= b => r[a] <= r[b]
  BY <1>3, SortIsCorrect
<1> HIDE DEF r
<1>5. DOMAIN r = 1..Len(r)
  BY <1>4
<1>6. r \in Seq(AHash)
  <2>1. \A a \in 1..Len(R) : R[a] \in AHash
    BY <1>1
  <2>2. Range(R) \subseteq AHash
    BY <1>3, <2>1 DEF Range
  <2>3. \A a \in 1..Len(r) : r[a] \in AHash
    BY <1>4, <1>5, <2>2 DEF Range
  <2> QED  BY <1>4, <2>3
<1>7. Len(r) = N * Points /\ r # <<>>
  <2>1. \A a, b \in Nat \ {0} : a * b # 0
    OBVIOUS
  <2>2. N \in Nat \ {0} /\ Points \in Nat \ {0}
    BY <1>0, BalancerAssumption
  <2>3. N * Points # 0
    BY <2>1, <2>2
  <2> QED  BY <1>1, <1>4, <2>3
<1>8. \A h : h \in Range(r) <=> \E i \in Range(l) : h \in Range(Point[Host[i]])
  <2>1. \A h : h \in Range(r) <=> \E n \in 1..N : h \in Range(Point[Host[l[n]]])
    BY <1>1, <1>4 DEF PointsOf
  <2>2. \A i : i \in Range(l) <=> \E n \in 1..N : i = l[n]
    BY <1>0 DEF Range
  <2> QED  BY <2>1, <2>2
<1>9. ASSUME NEW h \in Range(R)
      PROVE  NodesOf(l)[h] \in Range(l) /\ h \in Range(Point[Host[NodesOf(l)[h]]])
  <2> DEFINE U == {n \in DOMAIN l : h \in Range(PointsOf(l, n))}
  <2>1. U \in SUBSET (1..N) /\ U # {}
    BY <1>0, <1>1
  <2>2. Max(U) \in U
    <3> HIDE DEF U
    <3> QED  BY <1>0, <2>1, MaxMember
  <2>3. NodesOf(l)[h] = l[Max(U)]
    BY DEF NodesOf, R
  <2> QED  BY <1>0, <2>2, <2>3 DEF PointsOf
<1>10. NodesOf(l) \in [Range(R) -> Range(l)]
  <2>1. NodesOf(l) = [h \in Range(R) |-> NodesOf(l)[h]]
    BY DEF NodesOf, R
  <2> QED  BY <1>9, <2>1
<1> QED  BY <1>4, <1>5, <1>3, <1>6, <1>7, <1>8, <1>9, <1>10 DEF r, R

\* The reference names the hosts whose points are nearest to the key.
Nearest(l, k, p) ==
  /\ \E i \in Range(l) : p \in Range(Point[Host[i]])
  /\ \A i \in Range(l) : \A q \in Range(Point[Host[i]]) :
       Distance(KeyHash[k], p) <= Distance(KeyHash[k], q)

LEMMA PointsAreHashes ==
  ASSUME NEW l \in Seq(Instances), NEW i \in Range(l)
  PROVE  i \in Instances /\ Range(Point[Host[i]]) \subseteq AHash
<1>1. i \in Instances
  BY DEF Range
<1> QED  BY <1>1, BalancerAssumption DEF Range, AHash

LEMMA NearestIsOwner ==
  ASSUME NEW l \in Seq(Instances), NEW k \in Keys
  PROVE  /\ \A p : \A i \in Range(l) :
              Nearest(l, k, p) /\ p \in Range(Point[Host[i]]) => Host[i] \in OwnerHosts(l, k)
         /\ \A H \in OwnerHosts(l, k) : \E i \in Range(l) : \E p \in Range(Point[Host[i]]) :
              Host[i] = H /\ Nearest(l, k, p)
<1> DEFINE K == KeyHash[k]
           D == Distances(l, k)
<1>0. K \in AHash
  BY BalancerAssumption DEF AHash
<1>1. \A i \in Range(l) : \A p \in Range(Point[Host[i]]) : p \in AHash /\ Distance(K, p) \in Nat
  <2> SUFFICES ASSUME NEW i \in Range(l), NEW p \in Range(Point[Host[i]])
               PROVE  p \in AHash /\ Distance(K, p) \in Nat
    OBVIOUS
  <2>1. p \in AHash
    BY PointsAreHashes
  <2>2. \A x \in AHash : x \in Nat /\ x < Hashes
    BY BalancerAssumption DEF AHash
  <2> QED  BY <1>0, <2>1, <2>2, DistanceIs, BalancerAssumption
<1>2. \A d : d \in D <=> \E i \in Range(l) : \E p \in Range(Point[Host[i]]) : d = Distance(K, p)
  BY DEF Distances
<1>3. D \in SUBSET Nat
  BY <1>1, <1>2
<1> HIDE DEF D, K
<1>4. ASSUME NEW p, NEW i \in Range(l), Nearest(l, k, p), p \in Range(Point[Host[i]])
      PROVE  Host[i] \in OwnerHosts(l, k)
  <2>1. Distance(K, p) \in D /\ \A d \in D : Distance(K, p) <= d
    BY <1>2, <1>4 DEF Nearest, K
  <2>2. Min(D) \in D /\ \A d \in D : Min(D) <= d
    BY <1>3, <2>1, MinMember
  <2>3. Distance(K, p) = Min(D)
    <3>1. Distance(K, p) \in Nat /\ Min(D) \in Nat
      BY <1>3, <2>1, <2>2
    <3>2. Distance(K, p) <= Min(D) /\ Min(D) <= Distance(K, p)
      BY <2>1, <2>2
    <3> QED  BY <3>1, <3>2
  <2> QED  BY <1>4, <2>3 DEF OwnerHosts, D, K
<1>5. ASSUME NEW H \in OwnerHosts(l, k)
      PROVE  \E i \in Range(l) : \E p \in Range(Point[Host[i]]) : Host[i] = H /\ Nearest(l, k, p)
  <2>1. PICK i \in Range(l) : Host[i] = H
               /\ \E p \in Range(Point[Host[i]]) : Distance(K, p) = Min(D)
    BY DEF OwnerHosts, D, K
  <2>2. PICK p \in Range(Point[Host[i]]) : Distance(K, p) = Min(D)
    BY <2>1
  <2>3. Distance(K, p) \in D
    BY <1>2
  <2>4. \A d \in D : Min(D) <= d
    BY <1>3, <2>3, MinMember
  <2>5. \A j \in Range(l) : \A q \in Range(Point[Host[j]]) : Distance(K, p) <= Distance(K, q)
    BY <1>2, <2>2, <2>4
  <2>6. Nearest(l, k, p)
    BY <2>5 DEF Nearest, K
  <2> QED  BY <2>1, <2>6
<1> QED  BY <1>4, <1>5

\* What the ring of a list answers for a key.
LEMMA RingFindsOwner ==
  ASSUME NEW l \in Seq(Instances), l # <<>>, NEW k \in Keys
  PROVE  LET i == NodesOf(l)[Lookup(Sorted(RingOf(l)), KeyHash[k])]
         IN  i \in Range(l) /\ i \in Instances /\ Host[i] \in OwnerHosts(l, k)
<1> DEFINE r == Sorted(RingOf(l))
           p == Lookup(r, KeyHash[k])
           i == NodesOf(l)[p]
<1>1. /\ r \in Seq(AHash) /\ r # <<>>
      /\ \A a, b \in DOMAIN r : a <= b => r[a] <= r[b]
      /\ \A h : h \in Range(r) <=> \E j \in Range(l) : h \in Range(Point[Host[j]])
      /\ NodesOf(l) \in [Range(r) -> Range(l)]
      /\ \A h \in Range(r) : h \in Range(Point[Host[NodesOf(l)[h]]])
  BY Built
<1> HIDE DEF r
<1>2. KeyHash[k] \in AHash
  BY BalancerAssumption DEF AHash
<1>3. p \in Range(r) /\ \A q \in Range(r) : Distance(KeyHash[k], p) <= Distance(KeyHash[k], q)
  BY <1>1, <1>2, LookupIsNearest
<1> HIDE DEF p
<1>4. i \in Range(l) /\ p \in Range(Point[Host[i]])
  BY <1>1, <1>3
<1>5. Nearest(l, k, p)
  BY <1>1, <1>3 DEF Nearest
<1>6. Host[i] \in OwnerHosts(l, k)
  <2> HIDE DEF i
  <2> QED  BY <1>4, <1>5, NearestIsOwner
<1>7. i \in Instances
  <2> HIDE DEF i
  <2> QED  BY <1>4, PointsAreHashes
<1> QED  BY <1>4, <1>6, <1>7 DEF p, r

\* Different hosts have no hash in common.
NoSharedHash ==
  \A i, j \in Instances :
    Host[i] # Host[j] => Range(Point[Host[i]]) \cap Range(Point[Host[j]]) = {}

\* An owner that stays and an owner that was there already are the same.
LEMMA OwnerStays ==
  ASSUME NoSharedHash, NEW l \in Seq(Instances), NEW m \in Seq(Instances), NEW k \in Keys,
         NEW A \in OwnerHosts(l, k), NEW B \in OwnerHosts(m, k),
         \E i \in Range(m) : A = Host[i], \E j \in Range(l) : B = Host[j]
  PROVE  A = B
<1>1. PICK i \in Range(l) : \E p \in Range(Point[Host[i]]) : Host[i] = A /\ Nearest(l, k, p)
  BY NearestIsOwner
<1>2. PICK p \in Range(Point[A]) : Host[i] = A /\ Nearest(l, k, p)
  BY <1>1
<1>3. PICK j \in Range(m) : \E q \in Range(Point[Host[j]]) : Host[j] = B /\ Nearest(m, k, q)
  BY NearestIsOwner
<1>4. PICK q \in Range(Point[B]) : Host[j] = B /\ Nearest(m, k, q)
  BY <1>3
<1>5. Distance(KeyHash[k], p) <= Distance(KeyHash[k], q)
  BY <1>2, <1>4 DEF Nearest
<1>6. Distance(KeyHash[k], q) <= Distance(KeyHash[k], p)
  BY <1>2, <1>4 DEF Nearest
<1>7. /\ i \in Instances /\ j \in Instances
      /\ p \in AHash /\ q \in AHash /\ KeyHash[k] \in AHash
  BY <1>2, <1>4, PointsAreHashes, BalancerAssumption DEF AHash
<1>8. p = q
  <2>1. \A x \in AHash : x \in Nat /\ x < Hashes
    BY BalancerAssumption DEF AHash
  <2>2. Hashes \in Nat
    BY BalancerAssumption
  <2> DEFINE h == KeyHash[k]
  <2> HIDE DEF h
  <2>3. h \in AHash /\ Distance(h, p) <= Distance(h, q) /\ Distance(h, q) <= Distance(h, p)
    BY <1>5, <1>6, <1>7 DEF h
  <2>4. /\ Distance(h, p) = IF p >= h THEN p - h ELSE p - h + Hashes
        /\ Distance(h, q) = IF q >= h THEN q - h ELSE q - h + Hashes
    BY <1>7, <2>3, DistanceIs
  <2>5. /\ p \in Nat /\ p < Hashes /\ q \in Nat /\ q < Hashes /\ h \in Nat /\ h < Hashes
    BY <1>7, <2>1, <2>3
  <2> QED  BY <2>2, <2>3, <2>4, <2>5
<1> QED  BY <1>2, <1>4, <1>7, <1>8 DEF NoSharedHash

(***************************************************************************)
(* Types.                                                                  *)
(***************************************************************************)
LEMMA ListTypes ==
  ASSUME NEW s \in Services, NEW l \in Lists(s)
  PROVE  l \in Seq(Instances) /\ IsInjective(l) /\ Len(l) \in 0..Cardinality(InstancesOf[s])
<1>1. PICK n \in 0..Cardinality(InstancesOf[s]) : l \in [1..n -> InstancesOf[s]]
  BY DEF Lists
<1>2. n \in Nat /\ l \in [1..n -> Instances]
  BY <1>1, BalancerAssumption
<1> QED  BY <1>1, <1>2 DEF Lists

LEMMA EmptyTypes == <<>> \in Seq(Instances) /\ <<>> \in Seq(AHash) /\ Range(<<>>) = {}
BY DEF Range

LEMMA BuildsTypes ==
  ASSUME NEW l \in Seq(Instances), l # <<>>, Builds(l)
  PROVE  ring' \in Seq(AHash) /\ nodes' \in [Range(ring') -> Instances] /\ built' \in Seq(Instances)
<1>1. Range(l) \subseteq Instances
  BY DEF Range
<1>2. Sorted(RingOf(l)) \in Seq(AHash) /\ NodesOf(l) \in [Range(Sorted(RingOf(l))) -> Range(l)]
  BY Built
<1> QED  BY <1>1, <1>2 DEF Builds

LEMMA TypeInit == Init => TypeOK
<1> SUFFICES ASSUME Init PROVE TypeOK
  OBVIOUS
<1>1. kind \in Kinds /\ counter \in 0..Wrap - 1 /\ changes \in 0..MaxChanges[kind]
  BY BalancerAssumption DEF Init
<1>2. ring \in Seq(0..Hashes - 1) /\ nodes \in [Range(ring) -> Instances] /\ built \in Seq(Instances)
  <2>1. nodes \in [{} -> Instances]
    BY DEF Init
  <2> QED  BY <2>1, EmptyTypes DEF Init, AHash
<1>3. lists \in [Services -> Seq(Instances)] /\ fit \subseteq Instances
  <2>1. \A s \in Services : lists[s] \in Seq(Instances)
    BY ListTypes DEF Init
  <2> QED  BY <2>1 DEF Init
<1>4. calls \in [Threads -> Call]
  <2>1. 0 \in 0..MaxCalls[kind]
    BY <1>1, BalancerAssumption
  <2>2. [svc |-> None, key |-> None, list |-> <<>>, made |-> 0] \in Call
    BY <2>1, EmptyTypes DEF Call
  <2> QED  BY <2>2 DEF Init
<1> QED  BY <1>1, <1>2, <1>3, <1>4 DEF TypeOK

LEMMA ChoosesTypes ==
  ASSUME TypeOK, NEW t \in Threads, NEW i, Chooses(t, i), UNCHANGED kind
  PROVE  calls' \in [Threads -> Call'] /\ UNCHANGED backend
<1>1. calls[t] \in Call /\ Call' = Call
  BY DEF TypeOK, Call
<1>2. [svc |-> None, key |-> None, list |-> <<>>, made |-> calls[t].made] \in Call
  BY <1>1, EmptyTypes DEF Call
<1>3. calls' = [calls EXCEPT ![t] = [svc |-> None, key |-> None, list |-> <<>>,
                                     made |-> calls[t].made]]
  BY DEF Chooses
<1> QED  BY <1>1, <1>2, <1>3 DEF Chooses, TypeOK

LEMMA TypeNext == TypeOK /\ [Next]_vars => TypeOK'
<1> SUFFICES ASSUME TypeOK, [Next]_vars PROVE TypeOK'
  OBVIOUS
<1> USE DEF TypeOK, backend
<1>1. ASSUME NEW t \in Threads, NEW s \in Services, NEW k \in Keys, GetsList(t, s, k)
      PROVE  TypeOK'
  <2>1. calls[t] \in Call /\ Call' = Call /\ kind \in Kinds
    BY <1>1 DEF GetsList, Call
  <2>2. Healthy(lists[s]) \in Seq(Instances)
    BY HealthyList
  <2>3. calls[t].made \in 0..MaxCalls[kind] /\ calls[t].made < MaxCalls[kind]
    BY <1>1, <2>1 DEF GetsList, Call
  <2>4. calls[t].made + 1 \in 0..MaxCalls[kind]
    BY <2>1, <2>3, BalancerAssumption
  <2>5. [svc |-> s, key |-> IF kind = "consistent_hash" THEN k ELSE None,
         list |-> Healthy(lists[s]), made |-> calls[t].made + 1] \in Call
    BY <2>2, <2>4 DEF Call
  <2>6. calls' \in [Threads -> Call]
    BY <1>1, <2>5 DEF GetsList
  <2> QED  BY <1>1, <2>1, <2>6 DEF GetsList
<1>2. ASSUME NEW t \in Threads, RandomSelect(t)  PROVE TypeOK'
  BY <1>2, ChoosesTypes DEF RandomSelect
<1>3. ASSUME NEW t \in Threads, RoundRobinSelect(t)  PROVE TypeOK'
  <2>1. counter' \in 0..Wrap - 1
    BY <1>3, BalancerAssumption DEF RoundRobinSelect
  <2> QED  BY <1>3, <2>1, ChoosesTypes DEF RoundRobinSelect
<1>4. ASSUME NEW t \in Threads, HashSelect(t)  PROVE TypeOK'
  <2>1. calls[t].list \in Seq(Instances) /\ calls[t].list # <<>>
    BY <1>4 DEF HashSelect, Call
  <2>2. ring' \in Seq(AHash) /\ nodes' \in [Range(ring') -> Instances] /\ built' \in Seq(Instances)
    BY <1>4, <2>1, BuildsTypes DEF HashSelect, AHash
  <2> QED  BY <1>4, <2>2, ChoosesTypes DEF HashSelect, AHash
<1>5. ASSUME NEW s \in Services, ListChanges(s)  PROVE TypeOK'
  <2>1. lists' \in [Services -> Seq(Instances)]
    BY <1>5, ListTypes DEF ListChanges
  <2>2. changes' \in 0..MaxChanges[kind]
    BY <1>5, BalancerAssumption DEF ListChanges
  <2> QED  BY <1>5, <2>1, <2>2 DEF ListChanges, Call
<1>6. ASSUME NEW i \in Instances, MarkChanges(i)  PROVE TypeOK'
  <2>1. changes' \in 0..MaxChanges[kind]
    BY <1>6, BalancerAssumption DEF MarkChanges
  <2> QED  BY <1>6, <2>1 DEF MarkChanges, Call
<1>7. CASE UNCHANGED vars
  BY <1>7 DEF vars, Call
<1> QED  BY <1>1, <1>2, <1>3, <1>4, <1>5, <1>6, <1>7 DEF Next

\* Every variable has its type; the map of the ring's nodes has an instance
\* for each hash of the ring and for no other, whatever has been built.
THEOREM BalancerTypeCorrect == Spec => []TypeOK
BY TypeInit, TypeNext, PTL DEF Spec

(***************************************************************************)
(* The ring in use is always that of the list it was built from, and who   *)
(* selects by it has a key.                                                *)
(***************************************************************************)
RingInv ==
  /\ IF built = <<>> THEN ring = <<>>
     ELSE ring = Sorted(RingOf(built)) /\ nodes = NodesOf(built)
  /\ \A t \in Threads : kind = "consistent_hash" /\ calls[t].list # <<>> => calls[t].key \in Keys

LEMMA RingInit == Init => RingInv
BY DEF Init, RingInv

LEMMA ChoosesKeys ==
  ASSUME TypeOK, RingInv, NEW t \in Threads, NEW i, Chooses(t, i), UNCHANGED kind
  PROVE  \A u \in Threads : kind' = "consistent_hash" /\ calls'[u].list # <<>> => calls'[u].key \in Keys
BY DEF TypeOK, RingInv, Chooses

LEMMA HashUsesRing ==
  ASSUME TypeOK, RingInv, NEW t \in Threads, HashSelect(t)
  PROVE  /\ built' # <<>> /\ built' \in Seq(Instances)
         /\ ring' = Sorted(RingOf(built')) /\ nodes' = NodesOf(built')
         /\ calls[t].key \in Keys /\ last'.key = calls[t].key
         /\ last'.inst = nodes'[Lookup(ring', KeyHash[calls[t].key])]
<1> DEFINE l == calls[t].list
<1>1. l \in Seq(Instances) /\ l # <<>>
  BY DEF HashSelect, TypeOK, Call
<1> HIDE DEF l
<1>2. CASE Len(ring) # Len(l) * Points
  <2>1. Builds(l)
    BY <1>2 DEF HashSelect, l
  <2> QED  BY <1>1, <2>1 DEF HashSelect, Chooses, Builds, RingInv, l
<1>3. CASE Len(ring) = Len(l) * Points
  <2>1. UNCHANGED <<ring, nodes, built>>
    BY <1>3 DEF HashSelect, l
  <2>2. built # <<>>
    <3>1. SUFFICES ASSUME built = <<>> PROVE FALSE
      OBVIOUS
    <3>2. Len(ring) = 0
      BY <3>1 DEF RingInv
    <3>3. \A a, b \in Nat \ {0} : a * b # 0
      OBVIOUS
    <3>4. Len(l) \in Nat \ {0} /\ Points \in Nat \ {0}
      BY <1>1, BalancerAssumption
    <3> QED  BY <1>3, <3>2, <3>3, <3>4
  <2> QED  BY <2>1, <2>2 DEF HashSelect, Chooses, RingInv, TypeOK
<1> QED  BY <1>2, <1>3

LEMMA RingNext == TypeOK /\ RingInv /\ [Next]_vars => RingInv'
<1> SUFFICES ASSUME TypeOK, RingInv, [Next]_vars PROVE RingInv'
  OBVIOUS
<1> DEFINE Frame == UNCHANGED <<ring, nodes, built>>
           KeysOk == \A t \in Threads :
             kind = "consistent_hash" /\ calls[t].list # <<>> => calls[t].key \in Keys
<1>0. Frame /\ KeysOk' => RingInv'
  BY DEF RingInv
<1>1. ASSUME NEW t \in Threads, NEW s \in Services, NEW k \in Keys, GetsList(t, s, k)
      PROVE  RingInv'
  <2>1. Frame
    BY <1>1 DEF GetsList
  <2>2. KeysOk'
    <3>1. \A u \in Threads : u # t => calls'[u] = calls[u]
      BY <1>1 DEF GetsList, TypeOK
    <3>2. calls'[t].key = IF kind = "consistent_hash" THEN k ELSE None
      BY <1>1 DEF GetsList, TypeOK
    <3> QED  BY <1>1, <3>1, <3>2 DEF GetsList, RingInv
  <2> QED  BY <1>0, <2>1, <2>2
<1>2. ASSUME NEW t \in Threads, RandomSelect(t)  PROVE RingInv'
  BY <1>0, <1>2, ChoosesKeys DEF RandomSelect
<1>3. ASSUME NEW t \in Threads, RoundRobinSelect(t)  PROVE RingInv'
  BY <1>0, <1>3, ChoosesKeys DEF RoundRobinSelect
<1>4. ASSUME NEW t \in Threads, HashSelect(t)  PROVE RingInv'
  <2>1. KeysOk'
    BY <1>4, ChoosesKeys DEF HashSelect
  <2>2. built' # <<>> /\ ring' = Sorted(RingOf(built')) /\ nodes' = NodesOf(built')
    BY <1>4, HashUsesRing
  <2> QED  BY <2>1, <2>2 DEF RingInv
<1>5. ASSUME NEW s \in Services, ListChanges(s)  PROVE RingInv'
  BY <1>0, <1>5 DEF ListChanges, RingInv
<1>6. ASSUME NEW i \in Instances, MarkChanges(i)  PROVE RingInv'
  BY <1>0, <1>6 DEF MarkChanges, RingInv
<1>7. CASE UNCHANGED vars
  BY <1>0, <1>7 DEF vars, RingInv
<1> QED  BY <1>1, <1>2, <1>3, <1>4, <1>5, <1>6, <1>7 DEF Next

LEMMA RingAlways == Spec => [](TypeOK /\ RingInv)
BY TypeInit, TypeNext, RingInit, RingNext, PTL DEF Spec

\* A Select by consistent hash, for rings of every size: whatever has been
\* built and selected before, it chooses the instance that the reference
\* names for the list the ring was built from.  The loops that fill and sort
\* the ring and the search in it are covered.
THEOREM OwnerIsSelected == Spec => OwnerSelected
<1>1. ASSUME TypeOK, RingInv, [Next]_vars, last' # last, kind = "consistent_hash"
      PROVE  Host[last'.inst] \in OwnerHosts(built', last'.key)
  <2>1. PICK t \in Threads : HashSelect(t)
    BY <1>1 DEF Next, vars, GetsList, RandomSelect, RoundRobinSelect, ListChanges, MarkChanges
  <2>2. /\ built' # <<>> /\ built' \in Seq(Instances)
        /\ ring' = Sorted(RingOf(built')) /\ nodes' = NodesOf(built')
        /\ calls[t].key \in Keys /\ last'.key = calls[t].key
        /\ last'.inst = nodes'[Lookup(ring', KeyHash[calls[t].key])]
    BY <1>1, <2>1, HashUsesRing
  <2>3. Host[NodesOf(built')[Lookup(Sorted(RingOf(built')), KeyHash[calls[t].key])]]
          \in OwnerHosts(built', calls[t].key)
    BY <2>2, RingFindsOwner
  <2> QED  BY <2>2, <2>3
<1>2. TypeOK /\ RingInv /\ [Next]_vars
        => [last' # last /\ kind = "consistent_hash"
              => Host[last'.inst] \in OwnerHosts(built', last'.key)]_vars
  BY <1>1
<1> QED  BY <1>2, RingAlways, PTL DEF Spec, OwnerSelected

\* When the ring is built again a key moves only to a host that has joined
\* or from one that has left, if no two hosts have a hash in common: where
\* they have, the last one in the list gets it.
THEOREM KeysStay == ASSUME NoSharedHash PROVE Spec => MovesOnlyWhenNeeded
<1> DEFINE hosts(l) == {Host[i] : i \in Range(l)}
           owner(r, n, k) == Host[n[Lookup(r, KeyHash[k])]]
           Stays(k) == built # <<>> /\ built' # built =>
             \/ owner(ring', nodes', k) = owner(ring, nodes, k)
             \/ owner(ring', nodes', k) \notin hosts(built)
             \/ owner(ring, nodes, k) \notin hosts(built')
<1>1. ASSUME TypeOK, RingInv, [Next]_vars, NEW k \in Keys,
             built # <<>>, built' # built,
             owner(ring', nodes', k) \in hosts(built), owner(ring, nodes, k) \in hosts(built')
      PROVE  owner(ring', nodes', k) = owner(ring, nodes, k)
  <2>1. PICK t \in Threads : HashSelect(t)
    BY <1>1 DEF Next, vars, GetsList, RandomSelect, RoundRobinSelect, ListChanges, MarkChanges
  <2>2. /\ built' # <<>> /\ built' \in Seq(Instances)
        /\ ring' = Sorted(RingOf(built')) /\ nodes' = NodesOf(built')
    BY <1>1, <2>1, HashUsesRing
  <2>3. /\ built \in Seq(Instances)
        /\ ring = Sorted(RingOf(built)) /\ nodes = NodesOf(built)
    BY <1>1 DEF TypeOK, RingInv
  <2>4. owner(ring, nodes, k) \in OwnerHosts(built, k)
    BY <1>1, <2>3, RingFindsOwner
  <2>5. owner(ring', nodes', k) \in OwnerHosts(built', k)
    BY <2>2, RingFindsOwner
  <2>6. /\ \E i \in Range(built') : owner(ring, nodes, k) = Host[i]
        /\ \E j \in Range(built) : owner(ring', nodes', k) = Host[j]
    BY <1>1
  <2> HIDE DEF owner
  <2> QED  BY <2>2, <2>3, <2>4, <2>5, <2>6, OwnerStays
<1>2. TypeOK /\ RingInv /\ [Next]_vars => \A k \in Keys : Stays(k)
  BY <1>1
<1>3. (\A k \in Keys : Stays(k)) =>
        [\A k \in Keys : built # <<>> /\ built' # built =>
           LET hs(l) == {Host[i] : i \in Range(l)}
               ow(r, n) == Host[n[Lookup(r, KeyHash[k])]]
           IN  \/ ow(ring', nodes') = ow(ring, nodes)
               \/ ow(ring', nodes') \notin hs(built)
               \/ ow(ring, nodes) \notin hs(built')]_vars
  OBVIOUS
<1> QED  BY <1>2, <1>3, RingAlways, PTL DEF Spec, MovesOnlyWhenNeeded

(***************************************************************************)
(* Turns.  The counter is shared by all services, so turns are kept where  *)
(* only one is selected from; and a wrap of the counter keeps them where   *)
(* the length of the list divides Wrap.                                    *)
(***************************************************************************)
\* The turn of place p comes after those of all places it is behind, when q
\* is the place of the last turn; in a round d places have had theirs.
Behind(p, q, n)      == IF p <= q THEN q - p ELSE q - p + n
Share(k, d, p, q, n) == IF Behind(p, q, n) < d THEN k + 1 ELSE k

\* x has the turns that each of n places has had.
InRound(x, q, n) == \E k \in Nat, d \in 1..n : \A p \in 1..n : x[p] = Share(k, d, p, q, n)
Takes(x, y, r, n) == \A p \in 1..n : y[p] = IF p = r THEN x[p] + 1 ELSE x[p]

LEMMA NextTurn ==
  ASSUME NEW n \in Nat \ {0}, NEW q \in 1..n, NEW r, r = IF q = n THEN 1 ELSE q + 1,
         NEW x, NEW y, InRound(x, q, n), Takes(x, y, r, n)
  PROVE  InRound(y, r, n)
<1>0. PICK k \in Nat, d \in 1..n : \A p \in 1..n : x[p] = Share(k, d, p, q, n)
  BY DEF InRound
<1>1. CASE d < n
  <2>1. \A p \in 1..n :
          Share(k, d + 1, p, r, n) = IF p = r THEN Share(k, d, p, q, n) + 1 ELSE Share(k, d, p, q, n)
    BY <1>1 DEF Share, Behind
  <2>2. \A p \in 1..n : y[p] = Share(k, d + 1, p, r, n)
    BY <1>0, <2>1 DEF Takes
  <2> QED  BY <1>1, <2>2, d + 1 \in 1..n DEF InRound
<1>2. CASE d = n
  <2>1. \A p \in 1..n :
          Share(k + 1, 1, p, r, n) = IF p = r THEN Share(k, d, p, q, n) + 1 ELSE Share(k, d, p, q, n)
    BY <1>2 DEF Share, Behind
  <2>2. \A p \in 1..n : y[p] = Share(k + 1, 1, p, r, n)
    BY <1>0, <2>1 DEF Takes
  <2> QED  BY <1>2, <2>2, k + 1 \in Nat, 1 \in 1..n DEF InRound
<1> QED  BY <1>1, <1>2

LEMMA FirstTurn ==
  ASSUME NEW n \in Nat \ {0}, NEW r \in 1..n,
         NEW x, NEW y, \A p \in 1..n : x[p] = 0, Takes(x, y, r, n)
  PROVE  InRound(y, r, n)
<1>1. \A p \in 1..n : y[p] = Share(0, 1, p, r, n)
  BY DEF Share, Behind, Takes
<1> QED  BY <1>1, 0 \in Nat, 1 \in 1..n DEF InRound

LEMMA NoTurnTwice ==
  ASSUME NEW n \in Nat \ {0}, NEW q \in 1..n, NEW x, InRound(x, q, n)
  PROVE  \A a, b \in 1..n : x[a] <= x[b] + 1
BY DEF InRound, Share

LEMMA OneQuotient ==
  ASSUME NEW n \in Nat \ {0}, NEW a \in Int, NEW b \in Int,
         NEW x \in 0..n - 1, NEW y \in 0..n - 1, n * a + x = n * b + y
  PROVE  x = y
<1>1. \A c, d \in Int : c < d => n * (d - c) >= n
  <2> SUFFICES ASSUME NEW c \in Int, NEW d \in Int, c < d PROVE n * (d - c) >= n
    OBVIOUS
  <2> DEFINE e == d - c
  <2>1. e \in Int /\ e >= 1
    OBVIOUS
  <2> HIDE DEF e
  <2>2. n * e >= n
    BY <2>1
  <2> QED  BY <2>2 DEF e
<1>2. \A c, d \in Int : n * (d - c) = n * d - n * c
  OBVIOUS
<1>3. ~(a < b)
  BY <1>1, <1>2
<1>4. ~(b < a)
  BY <1>1, <1>2
<1> QED  BY <1>3, <1>4

LEMMA Remainder ==
  ASSUME NEW c \in Nat, NEW n \in Nat \ {0}
  PROVE  (c + 1) % n = IF c % n = n - 1 THEN 0 ELSE (c % n) + 1
<1> DEFINE a == c \div n
           x == c % n
           b == (c + 1) \div n
           y == (c + 1) % n
           z == IF x = n - 1 THEN 0 ELSE x + 1
           e == IF x = n - 1 THEN a + 1 ELSE a
<1>1. a \in Int /\ x \in 0..n - 1 /\ c = n * a + x
  OBVIOUS
<1>2. b \in Int /\ y \in 0..n - 1 /\ c + 1 = n * b + y
  OBVIOUS
<1> HIDE DEF a, b, x, y
<1>3. n * (a + 1) = n * a + n
  BY <1>1
<1>4. e \in Int /\ z \in 0..n - 1 /\ n * e + z = n * b + y
  BY <1>1, <1>2, <1>3
<1> HIDE DEF e, z
<1>5. z = y
  BY <1>2, <1>4, OneQuotient
<1> QED  BY <1>5 DEF x, y, z

\* All choices made from a list.
InTurn(c, l, count) ==
  l # <<>> => InRound([p \in 1..Len(l) |-> count[l[p]]], 1 + (c % Len(l)), Len(l))

ShortList(s, l) ==
  l \in Seq(Instances) /\ IsInjective(l) /\ \E m \in Lists(s) : Len(l) <= Len(m)

TurnsInv(s) ==
  /\ turns \in [Services -> [list : Seq(Instances), count : [Instances -> Nat]]]
  /\ ShortList(s, lists[s]) /\ ShortList(s, turns[s].list)
  /\ \A t \in Threads : ShortList(s, calls[t].list)
  /\ \A t \in Threads : calls[t].list # <<>> => calls[t].svc = s
  /\ kind = "round_robin" => InTurn(counter, turns[s].list, turns[s].count)

\* The counter wraps where a round ends, for each list of the service.
EvenWrap(s) == \A m \in Lists(s) : \A n \in 1..Len(m) : Wrap % n = 0

LEMMA CounterTurns ==
  ASSUME NEW s \in Services, EvenWrap(s) \/ counter < Wrap - 1, counter \in 0..Wrap - 1,
         NEW l, ShortList(s, l), l # <<>>
  PROVE  /\ 1 + (counter % Len(l)) \in 1..Len(l)
         /\ 1 + (((counter + 1) % Wrap) % Len(l)) =
              IF 1 + (counter % Len(l)) = Len(l) THEN 1 ELSE 1 + (counter % Len(l)) + 1
<1> DEFINE n == Len(l)
<1>1. n \in Nat \ {0} /\ counter \in Nat /\ Wrap \in Nat \ {0}
  BY BalancerAssumption DEF ShortList
<1>2. EvenWrap(s) => Wrap % n = 0
  <2>1. PICK m \in Lists(s) : n <= Len(m)
    BY DEF ShortList
  <2>2. Len(m) \in Nat
    BY <2>1, ListTypes
  <2>3. n \in 1..Len(m)
    BY <1>1, <2>1, <2>2
  <2> HIDE DEF n
  <2> QED  BY <2>1, <2>3 DEF EvenWrap
<1> HIDE DEF n
<1>3. ((counter + 1) % Wrap) % n = (counter + 1) % n
  <2>1. CASE counter < Wrap - 1
    <3>1. (counter + 1) % Wrap = counter + 1
      BY <1>1, <2>1
    <3> QED  BY <3>1
  <2>2. CASE counter = Wrap - 1
    <3>1. counter + 1 = Wrap /\ Wrap % Wrap = 0 /\ 0 % n = 0
      BY <1>1, <2>2
    <3>2. Wrap % n = 0
      BY <1>1, <1>2, <2>2
    <3> QED  BY <3>1, <3>2
  <2> QED  BY <1>1, <2>1, <2>2
<1>4. (counter + 1) % n = IF counter % n = n - 1 THEN 0 ELSE (counter % n) + 1
  BY <1>1, Remainder
<1>5. counter % n \in 0..n - 1
  BY <1>1
<1> QED  BY <1>1, <1>3, <1>4, <1>5 DEF n

LEMMA TurnTaken ==
  ASSUME NEW s, Services = {s}, TypeOK, TurnsInv(s), EvenWrap(s) \/ counter < Wrap - 1,
         NEW t \in Threads, RoundRobinSelect(t)
  PROVE  /\ turns' \in [Services -> [list : Seq(Instances), count : [Instances -> Nat]]]
         /\ turns'[s].list = calls[t].list
         /\ InTurn(counter', turns'[s].list, turns'[s].count)
<1> DEFINE l == calls[t].list
           n == Len(l)
           q == 1 + (counter % n)
           r == 1 + (counter' % n)
           b == IF turns[s].list = l THEN turns[s].count ELSE [j \in Instances |-> 0]
           new == [b EXCEPT ![l[r]] = @ + 1]
<1>1. ShortList(s, l) /\ l # <<>> /\ calls[t].svc = s /\ s \in Services
  BY DEF RoundRobinSelect, TurnsInv
<1>2. l \in Seq(Instances) /\ n \in Nat \ {0} /\ \A p \in 1..n : l[p] \in Instances
  BY <1>1 DEF ShortList
<1>3. counter' = (counter + 1) % Wrap /\ counter \in 0..Wrap - 1
  BY DEF RoundRobinSelect, TypeOK
<1>4. q \in 1..n /\ r = IF q = n THEN 1 ELSE q + 1
  <2> HIDE DEF l
  <2> QED  BY <1>1, <1>3, CounterTurns
<1>5. r \in 1..n
  BY <1>2, <1>4
<1>6. b \in [Instances -> Nat]
  BY <1>1 DEF TurnsInv
<1>7. turns' = [turns EXCEPT ![s] = [list |-> l, count |-> new]]
  BY <1>1 DEF RoundRobinSelect, Counts
<1>8. \A p \in 1..n : new[l[p]] = IF p = r THEN b[l[p]] + 1 ELSE b[l[p]]
  <2>1. \A p \in 1..n : l[p] = l[r] => p = r
    <3>1. DOMAIN l = 1..n
      BY <1>2
    <3> QED  BY <1>1, <1>5, <3>1 DEF ShortList, IsInjective
  <2> HIDE DEF l, n, r, b
  <2> QED  BY <1>2, <1>5, <1>6, <2>1
<1>9. new \in [Instances -> Nat]
  <2> HIDE DEF l, n, r, b
  <2> QED  BY <1>2, <1>5, <1>6
<1>10. InTurn(counter', l, new)
  <2> DEFINE x == [p \in 1..n |-> b[l[p]]]
             y == [p \in 1..n |-> new[l[p]]]
  <2>1. Takes(x, y, r, n)
    <3> HIDE DEF l, n, r, b, new
    <3> QED  BY <1>8 DEF Takes
  <2>2. CASE turns[s].list = l
    <3>1. kind = "round_robin"
      BY DEF RoundRobinSelect
    <3>2. InRound(x, q, n)
      BY <1>1, <2>2, <3>1 DEF TurnsInv, InTurn
    <3>3. InRound(y, r, n)
      <4> HIDE DEF n, q, r, x, y
      <4> QED  BY <1>2, <1>4, <2>1, <3>2, NextTurn
    <3> QED  BY <3>3 DEF InTurn
  <2>3. CASE turns[s].list # l
    <3>1. \A p \in 1..n : x[p] = 0
      BY <1>2, <2>3
    <3>2. InRound(y, r, n)
      <4> HIDE DEF n, r, x, y
      <4> QED  BY <1>2, <1>5, <2>1, <3>1, FirstTurn
    <3> QED  BY <3>2 DEF InTurn
  <2> QED  BY <2>2, <2>3
<1>11. turns'[s] = [list |-> l, count |-> new]
  BY <1>1, <1>7 DEF TurnsInv
<1>12. turns' \in [Services -> [list : Seq(Instances), count : [Instances -> Nat]]]
  <2> HIDE DEF l, new
  <2>1. [list |-> l, count |-> new] \in [list : Seq(Instances), count : [Instances -> Nat]]
    BY <1>2, <1>9
  <2> QED  BY <1>7, <2>1 DEF TurnsInv
<1>13. turns'[s].list = l /\ turns'[s].count = new
  BY <1>11
<1> QED  BY <1>10, <1>12, <1>13

LEMMA EmptyIsShort ==
  ASSUME NEW s \in Services, NEW m \in Lists(s)
  PROVE  ShortList(s, <<>>)
<1>1. <<>> \in Seq(Instances) /\ IsInjective(<<>>) /\ Len(<<>>) = 0
  BY DEF IsInjective
<1>2. Len(m) >= 0
  BY ListTypes
<1> QED  BY <1>1, <1>2 DEF ShortList

LEMMA TurnsInit == ASSUME NEW s, Services = {s} PROVE Init => TurnsInv(s)
<1> SUFFICES ASSUME Init PROVE TurnsInv(s)
  OBVIOUS
<1>1. lists[s] \in Lists(s)
  BY DEF Init
<1>2. ShortList(s, <<>>)
  BY <1>1, EmptyIsShort
<1>3. ShortList(s, lists[s])
  <2>1. lists[s] \in Seq(Instances) /\ IsInjective(lists[s]) /\ Len(lists[s]) <= Len(lists[s])
    BY <1>1, ListTypes
  <2> QED  BY <1>1, <2>1 DEF ShortList
<1>4. turns \in [Services -> [list : Seq(Instances), count : [Instances -> Nat]]] /\ turns[s].list = <<>>
  BY EmptyTypes DEF Init
<1>5. \A t \in Threads : calls[t].list = <<>>
  BY DEF Init
<1> QED  BY <1>2, <1>3, <1>4, <1>5 DEF TurnsInv, InTurn

LEMMA TurnsNext ==
  ASSUME NEW s, Services = {s}
  PROVE  TypeOK /\ TurnsInv(s) /\ (EvenWrap(s) \/ counter < Wrap - 1) /\ [Next]_vars => TurnsInv(s)'
<1> SUFFICES ASSUME TypeOK, TurnsInv(s), EvenWrap(s) \/ counter < Wrap - 1, [Next]_vars
             PROVE  TurnsInv(s)'
  OBVIOUS
<1> USE DEF TypeOK, backend
<1>0. ASSUME NEW t \in Threads, NEW i, Chooses(t, i)
      PROVE  /\ \A u \in Threads : ShortList(s, calls'[u].list)
             /\ \A u \in Threads : calls'[u].list # <<>> => calls'[u].svc = s
             /\ ShortList(s, lists'[s])
  <2>1. ShortList(s, <<>>)
    <3>1. PICK m \in Lists(s) : Len(lists[s]) <= Len(m)
      BY DEF TurnsInv, ShortList
    <3> QED  BY <3>1, EmptyIsShort
  <2>2. \A u \in Threads : calls'[u] = calls[u] \/ calls'[u].list = <<>>
    BY <1>0 DEF Chooses
  <2> QED  BY <1>0, <2>1, <2>2 DEF TurnsInv, Chooses
<1>1. ASSUME NEW t \in Threads, NEW z \in Services, NEW k \in Keys, GetsList(t, z, k)
      PROVE  TurnsInv(s)'
  <2>1. z = s
    OBVIOUS
  <2>2. ShortList(s, Healthy(lists[s]))
    <3>1. PICK m \in Lists(s) : Len(lists[s]) <= Len(m)
      BY DEF TurnsInv, ShortList
    <3>2. Len(m) \in Int
      BY <3>1, ListTypes
    <3>3. lists[s] \in Seq(Instances) /\ IsInjective(lists[s])
      BY DEF TurnsInv, ShortList
    <3>4. Healthy(lists[s]) \in Seq(Instances) /\ IsInjective(Healthy(lists[s]))
            /\ Len(Healthy(lists[s])) <= Len(lists[s])
      BY <3>3, HealthyList
    <3>5. Len(Healthy(lists[s])) <= Len(m)
      BY <3>1, <3>2, <3>3, <3>4
    <3> QED  BY <3>1, <3>4, <3>5 DEF ShortList
  <2>3. \A u \in Threads : u # t => calls'[u] = calls[u]
    BY <1>1 DEF GetsList
  <2>4. calls'[t].list = Healthy(lists[s]) /\ calls'[t].svc = s
    BY <1>1, <2>1 DEF GetsList
  <2> QED  BY <1>1, <2>2, <2>3, <2>4 DEF GetsList, TurnsInv
<1>2. ASSUME NEW t \in Threads, RandomSelect(t)  PROVE TurnsInv(s)'
  BY <1>0, <1>2 DEF RandomSelect, TurnsInv
<1>3. ASSUME NEW t \in Threads, RoundRobinSelect(t)  PROVE TurnsInv(s)'
  <2>1. /\ turns' \in [Services -> [list : Seq(Instances), count : [Instances -> Nat]]]
        /\ turns'[s].list = calls[t].list
        /\ InTurn(counter', turns'[s].list, turns'[s].count)
    BY <1>3, TurnTaken
  <2>2. ShortList(s, turns'[s].list)
    BY <2>1 DEF TurnsInv
  <2>3. /\ \A u \in Threads : ShortList(s, calls'[u].list)
        /\ \A u \in Threads : calls'[u].list # <<>> => calls'[u].svc = s
        /\ ShortList(s, lists'[s])
    BY <1>0, <1>3 DEF RoundRobinSelect
  <2> QED  BY <2>1, <2>2, <2>3 DEF TurnsInv
<1>4. ASSUME NEW t \in Threads, HashSelect(t)  PROVE TurnsInv(s)'
  BY <1>0, <1>4 DEF HashSelect, TurnsInv
<1>5. ASSUME NEW z \in Services, ListChanges(z)  PROVE TurnsInv(s)'
  <2>1. PICK l \in Lists(s) : lists' = [lists EXCEPT ![s] = l]
    BY <1>5 DEF ListChanges
  <2>2. ShortList(s, l)
    <3>1. l \in Seq(Instances) /\ IsInjective(l) /\ Len(l) <= Len(l)
      BY <2>1, ListTypes
    <3> QED  BY <2>1, <3>1 DEF ShortList
  <2>3. lists'[s] = l
    BY <2>1
  <2> QED  BY <1>5, <2>2, <2>3 DEF ListChanges, TurnsInv
<1>6. ASSUME NEW i \in Instances, MarkChanges(i)  PROVE TurnsInv(s)'
  BY <1>6 DEF MarkChanges, TurnsInv
<1>7. CASE UNCHANGED vars
  BY <1>7 DEF vars, TurnsInv
<1> QED  BY <1>1, <1>2, <1>3, <1>4, <1>5, <1>6, <1>7 DEF Next

\* Where one service is selected from, and as long as the counter does not
\* wrap in the middle of a round, no instance of a list is chosen twice more
\* than another while that list is given, however the Selects of different
\* goroutines and the changes of the list fall together.
THEOREM TurnsAreTaken ==
  ASSUME NEW s, Services = {s}
  PROVE  Spec /\ [](EvenWrap(s) \/ counter < Wrap - 1) => []TakesTurns
<1>1. TypeOK /\ TurnsInv(s) => TakesTurns
  <2> SUFFICES ASSUME TypeOK, TurnsInv(s), kind = "round_robin",
                      NEW i \in Range(turns[s].list), NEW j \in Range(turns[s].list)
               PROVE  turns[s].count[i] <= turns[s].count[j] + 1
    BY DEF TakesTurns
  <2> DEFINE l == turns[s].list
             n == Len(l)
             q == 1 + (counter % n)
             x == [p \in 1..n |-> turns[s].count[l[p]]]
  <2>1. l \in Seq(Instances) /\ DOMAIN l = 1..n
    BY DEF TurnsInv
  <2>2. PICK a \in 1..n, b \in 1..n : i = l[a] /\ j = l[b]
    BY <2>1 DEF Range
  <2>3. n \in Nat \ {0} /\ counter \in Nat
    BY <2>1, <2>2, BalancerAssumption DEF TypeOK
  <2>4. InRound(x, q, n)
    BY <2>1, <2>3 DEF TurnsInv, InTurn
  <2>5. q \in 1..n
    <3> HIDE DEF n
    <3> QED  BY <2>3
  <2>6. x[a] <= x[b] + 1
    <3> HIDE DEF n, q, x
    <3> QED  BY <2>2, <2>3, <2>4, <2>5, NoTurnTwice
  <2> QED  BY <2>2, <2>6
<1> QED  BY <1>1, TypeInit, TypeNext, TurnsInit, TurnsNext, PTL DEF Spec
=============================================================================
