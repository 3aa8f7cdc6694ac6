----------------------------- MODULE LocksProofs -----------------------------
(***************************************************************************)
(* Proofs about Locks, for any number of goroutines and any programs that  *)
(* leave RefreshConfig and Close out: every goroutine holds exactly the    *)
(* locks that its path still unlocks, so the maps are guarded.             *)
(***************************************************************************)
EXTENDS LockDiscipline, SequenceTheorems, WellFoundedInduction, TLAPS

(***************************************************************************)
(* Paths                                                                   *)
(***************************************************************************)
LEMMA FirstIsLeast ==
  ASSUME NEW s \in Seq(PathStep), NEW l, NEW i \in DOMAIN s, s[i].on = l,
         \A j \in DOMAIN s : s[j].on = l => i <= j
  PROVE  NextOn(s, l) = s[i].do
<1>1. FirstOn(s, l) \in DOMAIN s /\ s[FirstOn(s, l)].on = l
      /\ \A j \in DOMAIN s : s[j].on = l => FirstOn(s, l) <= j
  BY DEF FirstOn
<1>2. DOMAIN s = 1..Len(s)
  OBVIOUS
<1>3. FirstOn(s, l) <= i /\ i <= FirstOn(s, l)
  BY <1>1
<1>4. FirstOn(s, l) = i
  BY <1>1, <1>2, <1>3
<1> QED  BY <1>4 DEF NextOn

\* If l is used at all there is a first use.
LEMMA FirstUse ==
  ASSUME NEW s \in Seq(PathStep), NEW l, NEW k \in DOMAIN s, s[k].on = l
  PROVE  \E i \in DOMAIN s : s[i].on = l /\ \A j \in DOMAIN s : s[j].on = l => i <= j
<1> DEFINE U == {i \in DOMAIN s : s[i].on = l}
<1>1. U \subseteq Nat /\ U # {}
  OBVIOUS
<1>2. PICK i \in U : \A j \in U : <<j, i>> \notin OpToRel(<, Nat)
  BY <1>1, WFMin, NatLessThanWellFounded, Zenon
<1>3. \A j \in U : ~ (j < i)
  BY <1>1, <1>2, Zenon DEF OpToRel
<1>4. \A j \in U : i <= j
  BY <1>1, <1>3
<1> QED  BY <1>4

LEMMA NextOnHead ==
  ASSUME NEW s \in Seq(PathStep), s # <<>>
  PROVE  NextOn(s, Head(s).on) = Head(s).do
<1>1. 1 \in DOMAIN s /\ Head(s) = s[1] /\ \A j \in DOMAIN s : 1 <= j
  OBVIOUS
<1> QED  BY <1>1, FirstIsLeast

LEMMA NextOnTail ==
  ASSUME NEW s \in Seq(PathStep), s # <<>>, NEW l, l # Head(s).on
  PROVE  NextOn(Tail(s), l) = NextOn(s, l)
<1>1. /\ Tail(s) \in Seq(PathStep) /\ Len(Tail(s)) = Len(s) - 1
      /\ \A i \in 1..Len(Tail(s)) : Tail(s)[i] = s[i + 1]
      /\ DOMAIN s = 1..Len(s) /\ DOMAIN Tail(s) = 1..(Len(s) - 1) /\ Len(s) \in Nat /\ Len(s) >= 1
      /\ Head(s) = s[1]
  BY HeadTailProperties
<1>2. CASE \E k \in DOMAIN s : s[k].on = l
  <2>1. PICK i \in DOMAIN s : s[i].on = l /\ \A j \in DOMAIN s : s[j].on = l => i <= j
    BY <1>2, FirstUse
  <2>2. i # 1 /\ i - 1 \in DOMAIN Tail(s) /\ Tail(s)[i - 1] = s[i]
    BY <1>1, <2>1
  <2>3. \A j \in DOMAIN Tail(s) : Tail(s)[j].on = l => i - 1 <= j
    BY <1>1, <2>1
  <2>4. NextOn(Tail(s), l) = Tail(s)[i - 1].do
    BY <1>1, <2>1, <2>2, <2>3, FirstIsLeast
  <2>5. NextOn(s, l) = s[i].do
    BY <2>1, FirstIsLeast
  <2> QED  BY <2>2, <2>4, <2>5
<1>3. CASE ~ \E k \in DOMAIN s : s[k].on = l
  <2>1. ~ \E k \in DOMAIN Tail(s) : Tail(s)[k].on = l
    BY <1>1, <1>3
  <2> QED  BY <1>3, <2>1 DEF NextOn
<1> QED  BY <1>2, <1>3

\* A path that is ordered begins with a step in its place, and goes on as
\* an ordered path.
LEMMA OrderedTail ==
  ASSUME NEW s, Ordered(s), s # <<>>
  PROVE  InPlace(s) /\ Ordered(Tail(s)) /\ Head(s) \in PathStep
<1>1. /\ s \in Seq(PathStep) /\ Tail(s) \in Seq(PathStep) /\ Len(Tail(s)) = Len(s) - 1
      /\ \A i \in 1..Len(Tail(s)) : Tail(s)[i] = s[i + 1]
      /\ DOMAIN s = 1..Len(s) /\ DOMAIN Tail(s) = 1..(Len(s) - 1) /\ Len(s) \in Nat /\ Len(s) >= 1
      /\ Head(s) = s[1] /\ Head(s) \in PathStep
  BY HeadTailProperties DEF Ordered
<1>2. Rest(s, 1) = s
  BY <1>1 DEF Rest
<1>3. InPlace(s)
  BY <1>1, <1>2 DEF Ordered
<1>4. ASSUME NEW i \in DOMAIN Tail(s) PROVE InPlace(Rest(Tail(s), i))
  <2>1. i + 1 \in DOMAIN s
    BY <1>1
  <2>2. Rest(Tail(s), i) = Rest(s, i + 1)
    BY <1>1 DEF Rest
  <2> QED  BY <2>1, <2>2 DEF Ordered
<1> QED  BY <1>1, <1>3, <1>4 DEF Ordered

LEMMA NothingNext == ASSUME NEW l PROVE NextOn(<<>>, l) = "none"
BY DEF NextOn

(***************************************************************************)
(* The discipline of a path follows from its parts, as in a logic for      *)
(* programs.  Held(W, R, s): the rest of a path, s, is ordered where the   *)
(* locks in W are locked for writing, those in R for reading.  Sound(W, R, *)
(* b): the part b may go before any such rest, where it is again such a    *)
(* rest.                                                                   *)
(***************************************************************************)
Held(W, R, s) ==
  /\ Ordered(s)
  /\ \A l \in Mutexes : \/ l \in W /\ NextOn(s, l) = "Unlock"
                        \/ l \in R /\ NextOn(s, l) = "RUnlock"
                        \/ l \notin W \union R /\ NextOn(s, l) \in Free

Sound(W, R, b) == b \in Seq(PathStep) /\ \A s : Held(W, R, s) => Held(W, R, b \o s)

\* A step before a rest of a path: its head and its tail.
LEMMA HeadOfRest ==
  ASSUME NEW x \in PathStep, NEW s, Ordered(s)
  PROVE  /\ <<x>> \o s \in Seq(PathStep) /\ Head(<<x>> \o s) = x /\ Tail(<<x>> \o s) = s
         /\ \A l : NextOn(<<x>> \o s, l) = IF l = x.on THEN x.do ELSE NextOn(s, l)
<1>1. /\ s \in Seq(PathStep) /\ <<x>> \in Seq(PathStep) /\ Len(<<x>>) = 1 /\ Len(s) \in Nat
      /\ DOMAIN s = 1..Len(s) /\ <<x>>[1] = x
  BY LenProperties DEF Ordered
<1>2. <<x>> \o s \in Seq(PathStep) /\ Len(<<x>> \o s) = Len(s) + 1
      /\ \A i \in 1..Len(s) + 1 : (<<x>> \o s)[i] = IF i <= 1 THEN <<x>>[i] ELSE s[i - 1]
  BY <1>1, ConcatProperties
<1>3. <<x>> \o s # <<>>
  BY <1>1, <1>2
<1>4. /\ Tail(<<x>> \o s) \in Seq(PathStep) /\ Len(Tail(<<x>> \o s)) = Len(s)
      /\ \A i \in 1..Len(s) : Tail(<<x>> \o s)[i] = (<<x>> \o s)[i + 1]
  BY <1>1, <1>2, <1>3, HeadTailProperties
<1>5. \A i \in 1..Len(s) : Tail(<<x>> \o s)[i] = s[i]
  BY <1>1, <1>2, <1>4
<1>6. Tail(<<x>> \o s) = s
  BY <1>1, <1>4, <1>5, SeqEqual
<1>7. Head(<<x>> \o s) = x
  BY <1>1, <1>2
<1> QED  BY <1>2, <1>3, <1>6, <1>7, NextOnHead, NextOnTail

\* The end of a concatenation that begins in its second part.
LEMMA EndOfConcat ==
  ASSUME NEW S, NEW u \in Seq(S), NEW s \in Seq(S), NEW i \in Len(u) + 1..Len(u) + Len(s)
  PROVE  SubSeq(u \o s, i, Len(u) + Len(s)) = SubSeq(s, i - Len(u), Len(s))
<1>1. Len(u) \in Nat /\ Len(s) \in Nat /\ Len(u) + Len(s) \in Len(u) + 1..Len(u) + Len(s)
      /\ Len(u) + Len(s) - Len(u) = Len(s)
  BY LenProperties
<1>2. SubSeq(u \o s, i, Len(u) + Len(s)) = SubSeq(s, i - Len(u), Len(u) + Len(s) - Len(u))
  BY <1>1, SubSeqOfConcat2
<1> QED  BY <1>1, <1>2

\* One step before a rest of a path.
LEMMA Before ==
  ASSUME NEW x \in PathStep, NEW s, Ordered(s), InPlace(<<x>> \o s)
  PROVE  Ordered(<<x>> \o s)
<1> DEFINE t == <<x>> \o s
<1>1. /\ s \in Seq(PathStep) /\ <<x>> \in Seq(PathStep) /\ Len(<<x>>) = 1 /\ Len(s) \in Nat
      /\ DOMAIN s = 1..Len(s) /\ <<x>>[1] = x
  BY LenProperties DEF Ordered
<1>2. t \in Seq(PathStep) /\ Len(t) = Len(s) + 1
      /\ \A i \in 1..Len(s) + 1 : t[i] = IF i <= 1 THEN <<x>>[i] ELSE s[i - 1]
  BY <1>1, ConcatProperties
<1>3. t # <<>> /\ t[1] = x /\ Head(t) = x /\ DOMAIN t = 1..(Len(s) + 1)
  BY <1>1, <1>2
<1>4. ASSUME NEW i \in DOMAIN t PROVE InPlace(Rest(t, i))
  <2>1. CASE i = 1
    <3>1. Rest(t, 1) = t
      BY <1>1, <1>2 DEF Rest
    <3> QED  BY <2>1, <3>1
  <2>2. CASE i # 1
    <3>1. i - 1 \in DOMAIN s
      BY <1>1, <1>3, <2>2
    <3>2. SubSeq(<<x>> \o s, i, Len(<<x>>) + Len(s)) = SubSeq(s, i - Len(<<x>>), Len(s))
      <4>1. i \in Len(<<x>>) + 1..Len(<<x>>) + Len(s)
        BY <1>1, <1>3, <2>2
      <4> QED  BY <1>1, <4>1, EndOfConcat
    <3>3. Rest(t, i) = Rest(s, i - 1)
      BY <1>1, <1>2, <3>2 DEF Rest
    <3> QED  BY <3>1, <3>3 DEF Ordered
  <2> QED  BY <2>1, <2>2
<1> QED  BY <1>2, <1>4 DEF Ordered

\* The rules for the parts: nothing, one after the other, an access, a
\* section under a lock.
LEMMA SoundEmpty == ASSUME NEW W, NEW R PROVE Sound(W, R, <<>>)
<1>1. \A s : Ordered(s) => <<>> \o s = s
  BY ConcatEmptySeq DEF Ordered
<1> QED  BY <1>1, EmptySeq DEF Sound, Held

LEMMA SoundBoth ==
  ASSUME NEW W, NEW R, NEW a, NEW b, Sound(W, R, a), Sound(W, R, b)
  PROVE  Sound(W, R, a \o b)
<1>1. a \in Seq(PathStep) /\ b \in Seq(PathStep) /\ a \o b \in Seq(PathStep)
  BY ConcatProperties DEF Sound
<1>2. ASSUME NEW s, Held(W, R, s) PROVE Held(W, R, (a \o b) \o s)
  <2>1. (a \o b) \o s = a \o (b \o s)
    BY <1>1, <1>2, ConcatAssociative DEF Held, Ordered
  <2> QED  BY <1>2, <2>1 DEF Sound
<1> QED  BY <1>1, <1>2 DEF Sound

LEMMA SoundReads ==
  ASSUME NEW W, NEW R, NEW x \in Maps \union Contents, x \in Maps => Guard[x] \in W \union R
  PROVE  Sound(W, R, Reads(x))
<1> DEFINE a == [do |-> "read", on |-> x]
<1>1. a \in PathStep /\ a.on \notin Mutexes /\ Reads(x) = <<a>> /\ <<a>> \in Seq(PathStep)
  BY DEF PathStep, Mutexes, Maps, Contents, Reads
<1>2. ASSUME NEW s, Held(W, R, s) PROVE Held(W, R, <<a>> \o s)
  <2>1. Ordered(s) /\ Head(<<a>> \o s) = a /\ \A l \in Mutexes : NextOn(<<a>> \o s, l) = NextOn(s, l)
    BY <1>1, <1>2, HeadOfRest DEF Held
  <2>2. x \in Maps => Guard[x] \in Mutexes
    BY DEF Guard, Maps, Mutexes
  <2>3. x \in Maps => NextOn(s, Guard[x]) \in {"Unlock", "RUnlock"}
    BY <1>2, <2>2 DEF Held
  <2>4. InPlace(<<a>> \o s)
    BY <2>1, <2>2, <2>3 DEF InPlace
  <2>5. Ordered(<<a>> \o s)
    BY <1>1, <2>1, <2>4, Before
  <2> QED  BY <1>2, <2>1, <2>5 DEF Held
<1> QED  BY <1>1, <1>2 DEF Sound

LEMMA SoundWrites ==
  ASSUME NEW W, NEW R, NEW x \in Maps \union Contents, x \in Maps => Guard[x] \in W \ R
  PROVE  Sound(W, R, Writes(x))
<1> DEFINE a == [do |-> "write", on |-> x]
<1>1. a \in PathStep /\ a.on \notin Mutexes /\ Writes(x) = <<a>> /\ <<a>> \in Seq(PathStep)
  BY DEF PathStep, Mutexes, Maps, Contents, Writes
<1>2. ASSUME NEW s, Held(W, R, s) PROVE Held(W, R, <<a>> \o s)
  <2>1. Ordered(s) /\ Head(<<a>> \o s) = a /\ \A l \in Mutexes : NextOn(<<a>> \o s, l) = NextOn(s, l)
    BY <1>1, <1>2, HeadOfRest DEF Held
  <2>2. x \in Maps => Guard[x] \in Mutexes
    BY DEF Guard, Maps, Mutexes
  <2>3. x \in Maps => NextOn(s, Guard[x]) = "Unlock"
    BY <1>2, <2>2 DEF Held
  <2>4. InPlace(<<a>> \o s)
    BY <2>1, <2>2, <2>3 DEF InPlace
  <2>5. Ordered(<<a>> \o s)
    BY <1>1, <2>1, <2>4, Before
  <2> QED  BY <1>2, <2>1, <2>5 DEF Held
<1> QED  BY <1>1, <1>2 DEF Sound

LEMMA LockInPlace ==
  ASSUME NEW u, NEW l, NEW d, Head(u) = [do |-> d, on |-> l],
         \/ d = "Lock" /\ NextOn(Tail(u), l) = "Unlock"
         \/ d = "RLock" /\ NextOn(Tail(u), l) = "RUnlock"
         \/ d \in {"Unlock", "RUnlock"} /\ NextOn(Tail(u), l) \in Free
  PROVE  InPlace(u)
<1>1. Head(u).do = d /\ Head(u).on = l
  OBVIOUS
<1> QED  BY <1>1 DEF InPlace

LEMMA SoundLocked ==
  ASSUME NEW W, NEW R, NEW l \in Mutexes \ (W \union R), NEW b, Sound(W \union {l}, R, b)
  PROVE  Sound(W, R, Locked(l, b))
<1> DEFINE a == [do |-> "Lock", on |-> l]
           z == [do |-> "Unlock", on |-> l]
<1>1. /\ a \in PathStep /\ z \in PathStep /\ <<a>> \in Seq(PathStep) /\ <<z>> \in Seq(PathStep)
      /\ b \in Seq(PathStep) /\ Locked(l, b) = (<<a>> \o b) \o <<z>>
  BY DEF PathStep, Locked, Sound
<1>2. ASSUME NEW s, Held(W, R, s) PROVE Held(W, R, ((<<a>> \o b) \o <<z>>) \o s)
  <2>1. Held(W \union {l}, R, <<z>> \o s)
    <3>1. Ordered(s) /\ NextOn(s, l) \in Free /\ Head(<<z>> \o s) = z /\ Tail(<<z>> \o s) = s
          /\ \A k \in Mutexes : NextOn(<<z>> \o s, k) = IF k = l THEN "Unlock" ELSE NextOn(s, k)
      BY <1>1, <1>2, HeadOfRest DEF Held
    <3>2. InPlace(<<z>> \o s)
      BY <3>1, LockInPlace
    <3>3. Ordered(<<z>> \o s)
      BY <1>1, <3>1, <3>2, Before
    <3> QED  BY <1>2, <3>1, <3>3 DEF Held
  <2> DEFINE t == b \o (<<z>> \o s)
  <2>2. Held(W \union {l}, R, t)
    BY <2>1 DEF Sound
  <2>3. Held(W, R, <<a>> \o t)
    <3>1. Ordered(t) /\ NextOn(t, l) = "Unlock" /\ Head(<<a>> \o t) = a /\ Tail(<<a>> \o t) = t
          /\ \A k \in Mutexes : NextOn(<<a>> \o t, k) = IF k = l THEN "Lock" ELSE NextOn(t, k)
      BY <1>1, <2>2, HeadOfRest DEF Held
    <3>2. InPlace(<<a>> \o t)
      BY <3>1, LockInPlace
    <3>3. Ordered(<<a>> \o t)
      BY <1>1, <3>1, <3>2, Before
    <3> QED  BY <2>2, <3>1, <3>3 DEF Held, Free
  <2>4. ((<<a>> \o b) \o <<z>>) \o s = <<a>> \o t
    <3>1. s \in Seq(PathStep) /\ <<z>> \o s \in Seq(PathStep) /\ <<a>> \o b \in Seq(PathStep)
      BY <1>1, <1>2, ConcatProperties DEF Held, Ordered
    <3>2. ((<<a>> \o b) \o <<z>>) \o s = (<<a>> \o b) \o (<<z>> \o s)
      BY <1>1, <3>1, ConcatAssociative
    <3> QED  BY <1>1, <3>1, <3>2, ConcatAssociative
  <2> QED  BY <2>3, <2>4
<1>3. (<<a>> \o b) \o <<z>> \in Seq(PathStep)
  BY <1>1, ConcatProperties
<1> QED  BY <1>1, <1>2, <1>3 DEF Sound

LEMMA SoundRLocked ==
  ASSUME NEW W, NEW R, NEW l \in Mutexes \ (W \union R), NEW b, Sound(W, R \union {l}, b)
  PROVE  Sound(W, R, RLocked(l, b))
<1> DEFINE a == [do |-> "RLock", on |-> l]
           z == [do |-> "RUnlock", on |-> l]
<1>1. /\ a \in PathStep /\ z \in PathStep /\ <<a>> \in Seq(PathStep) /\ <<z>> \in Seq(PathStep)
      /\ b \in Seq(PathStep) /\ RLocked(l, b) = (<<a>> \o b) \o <<z>>
  BY DEF PathStep, RLocked, Sound
<1>2. ASSUME NEW s, Held(W, R, s) PROVE Held(W, R, ((<<a>> \o b) \o <<z>>) \o s)
  <2>1. Held(W, R \union {l}, <<z>> \o s)
    <3>1. Ordered(s) /\ NextOn(s, l) \in Free /\ Head(<<z>> \o s) = z /\ Tail(<<z>> \o s) = s
          /\ \A k \in Mutexes : NextOn(<<z>> \o s, k) = IF k = l THEN "RUnlock" ELSE NextOn(s, k)
      BY <1>1, <1>2, HeadOfRest DEF Held
    <3>2. InPlace(<<z>> \o s)
      BY <3>1, LockInPlace
    <3>3. Ordered(<<z>> \o s)
      BY <1>1, <3>1, <3>2, Before
    <3> QED  BY <1>2, <3>1, <3>3 DEF Held
  <2> DEFINE t == b \o (<<z>> \o s)
  <2>2. Held(W, R \union {l}, t)
    BY <2>1 DEF Sound
  <2>3. Held(W, R, <<a>> \o t)
    <3>1. Ordered(t) /\ NextOn(t, l) = "RUnlock" /\ Head(<<a>> \o t) = a /\ Tail(<<a>> \o t) = t
          /\ \A k \in Mutexes : NextOn(<<a>> \o t, k) = IF k = l THEN "RLock" ELSE NextOn(t, k)
      BY <1>1, <2>2, HeadOfRest DEF Held
    <3>2. InPlace(<<a>> \o t)
      BY <3>1, LockInPlace
    <3>3. Ordered(<<a>> \o t)
      BY <1>1, <3>1, <3>2, Before
    <3> QED  BY <2>2, <3>1, <3>3 DEF Held, Free
  <2>4. ((<<a>> \o b) \o <<z>>) \o s = <<a>> \o t
    <3>1. s \in Seq(PathStep) /\ <<z>> \o s \in Seq(PathStep) /\ <<a>> \o b \in Seq(PathStep)
      BY <1>1, <1>2, ConcatProperties DEF Held, Ordered
    <3>2. ((<<a>> \o b) \o <<z>>) \o s = (<<a>> \o b) \o (<<z>> \o s)
      BY <1>1, <3>1, ConcatAssociative
    <3> QED  BY <1>1, <3>1, <3>2, ConcatAssociative
  <2> QED  BY <2>3, <2>4
<1>3. (<<a>> \o b) \o <<z>> \in Seq(PathStep)
  BY <1>1, ConcatProperties
<1> QED  BY <1>1, <1>2, <1>3 DEF Sound

(***************************************************************************)
(* The paths of the operations                                             *)
(***************************************************************************)
Top(b) == Sound({}, {}, b)

LEMMA TopIsDisciplined == ASSUME NEW b, Top(b) PROVE Disciplined(b)
<1>1. Held({}, {}, <<>>)
  BY NothingNext, EmptySeq DEF Held, Ordered, Free
<1>2. b \o <<>> = b
  BY ConcatEmptySeq DEF Top, Sound
<1>3. Held({}, {}, b)
  BY <1>1, <1>2 DEF Top, Sound
<1> QED  BY <1>3 DEF Held, Disciplined

LEMMA TopBoth == ASSUME NEW a, NEW b, Top(a), Top(b) PROVE Top(a \o b)
BY SoundBoth DEF Top

LEMMA TopLocked == ASSUME NEW l \in Mutexes, NEW b, Sound({l}, {}, b) PROVE Top(Locked(l, b))
<1>1. {} \union {l} = {l}
  OBVIOUS
<1> QED  BY <1>1, SoundLocked DEF Top

LEMMA TopRLocked == ASSUME NEW l \in Mutexes, NEW b, Sound({}, {l}, b) PROVE Top(RLocked(l, b))
<1>1. {} \union {l} = {l}
  OBVIOUS
<1> QED  BY <1>1, SoundRLocked DEF Top

\* What a map's own lock allows, and contents, which need none.
LEMMA Accesses ==
  /\ \A x \in Maps : /\ Sound({Guard[x]}, {}, Reads(x)) /\ Sound({}, {Guard[x]}, Reads(x))
                     /\ Sound({Guard[x]}, {}, Writes(x))
  /\ \A x \in Contents : \A W, R : Sound(W, R, Reads(x)) /\ Sound(W, R, Writes(x))
<1>1. \A x \in Contents : x \notin Maps
  BY DEF Contents, Maps
<1> QED  BY <1>1, SoundReads, SoundWrites

LEMMA Guards ==
  /\ "configs" \in Maps /\ Guard["configs"] = "mu"
  /\ "callbacks" \in Maps /\ Guard["callbacks"] = "cbsMu"
  /\ "healthCache" \in Maps /\ Guard["healthCache"] = "cacheMu"
  /\ "instances" \in Maps /\ Guard["instances"] = "insMu"
  /\ "healthCheckStop" \in Maps /\ Guard["healthCheckStop"] = "hcsMu"
  /\ "config" \in Contents /\ "list" \in Contents
BY DEF Guard, Maps, Contents

\* The sections that other sections contain.
LEMMA NotifySound == Top(notifyCallbacks) /\ Sound({"mu"}, {}, notifyCallbacks)
<1>1. Sound({}, {"cbsMu"}, Reads("callbacks"))
  BY Accesses, Guards
<1>2. Sound({"mu"}, {} \union {"cbsMu"}, Reads("callbacks"))
  BY SoundReads, Guards
<1> QED  BY <1>1, <1>2, TopRLocked, SoundRLocked DEF notifyCallbacks, Mutexes

LEMMA ChecksSound ==
  \A b \in startHealthCheck \union stopHealthCheck : Top(b) /\ Sound({"insMu"}, {}, b)
<1> DEFINE r == Reads("healthCheckStop")
           w == Writes("healthCheckStop")
<1>1. Sound({"hcsMu"}, {}, r) /\ Sound({"hcsMu"}, {}, r \o w)
  BY Accesses, Guards, SoundBoth
<1>2. Sound({"insMu"} \union {"hcsMu"}, {}, r) /\ Sound({"insMu"} \union {"hcsMu"}, {}, w)
  BY SoundReads, SoundWrites, Guards
<1>3. Sound({"insMu"} \union {"hcsMu"}, {}, r \o w)
  BY <1>2, SoundBoth
<1>4. Top(Locked("hcsMu", r)) /\ Top(Locked("hcsMu", r \o w))
  BY <1>1, TopLocked DEF Mutexes
<1>5. Sound({"insMu"}, {}, Locked("hcsMu", r)) /\ Sound({"insMu"}, {}, Locked("hcsMu", r \o w))
  BY <1>2, <1>3, SoundLocked DEF Mutexes
<1> QED  BY <1>4, <1>5 DEF startHealthCheck, stopHealthCheck

\* Every operation but RefreshConfig and Close unlocks what it locks, once and
\* in the same mode, and uses each map under its lock.
THEOREM PathsAreDisciplined == PathsDisciplined
<1> DEFINE cfg == Reads("configs")
           set == Writes("configs")
           one == Reads("config")
           all == Reads("instances")
           put == Writes("instances")
           seen == Reads("list")
<1>1. /\ Sound({"mu"}, {}, cfg) /\ Sound({"mu"}, {}, set) /\ Sound({}, {"mu"}, cfg)
      /\ Sound({"mu"}, {}, one) /\ Top(one) /\ Top(Writes("config"))
      /\ Sound({"mu"}, {}, <<>>) /\ Top(<<>>)
  BY Accesses, Guards, SoundEmpty DEF Top
<1>2. /\ Sound({"insMu"}, {}, all) /\ Sound({"insMu"}, {}, put) /\ Sound({}, {"insMu"}, all)
      /\ Sound({"insMu"}, {}, seen) /\ Sound({"insMu"}, {}, Writes("list")) /\ Top(seen)
      /\ Sound({"insMu"}, {}, <<>>)
  BY Accesses, Guards, SoundEmpty DEF Top
<1>3. "mu" \in Mutexes /\ "cbsMu" \in Mutexes /\ "cacheMu" \in Mutexes /\ "insMu" \in Mutexes
  BY DEF Mutexes
<1>4. Top(RLocked("mu", cfg)) /\ Top(RLocked("insMu", all)) /\ Top(Locked("insMu", all))
  BY <1>1, <1>2, <1>3, TopLocked, TopRLocked
<1>5. \A path \in SyncConfig : Top(path)
  <2>1. Top(Locked("mu", set))
    BY <1>1, <1>3, TopLocked
  <2>2. Top((one \o Locked("mu", set)) \o notifyCallbacks)
    BY <1>1, <2>1, NotifySound, TopBoth
  <2>3. Top((one \o Writes("config")) \o one)
    BY <1>1, TopBoth
  <2> QED  BY <1>1, <1>4, <2>2, <2>3, TopBoth DEF SyncConfig
<1>6. \A path \in WatchCallback : Top(path)
  <2>1. Sound({"mu"}, {}, cfg \o one) /\ Sound({"mu"}, {}, ((cfg \o one) \o set) \o notifyCallbacks)
    BY <1>1, NotifySound, SoundBoth
  <2> QED  BY <1>1, <1>3, <2>1, TopLocked DEF WatchCallback
<1>7. \A path \in Subscribe : Top(path)
  <2>1. Sound({"cbsMu"}, {}, Reads("callbacks") \o Writes("callbacks"))
    BY Accesses, Guards, SoundBoth
  <2> QED  BY <1>3, <2>1, TopLocked DEF Subscribe
<1>8. \A path \in HealthCheck : Top(path)
  <2>1. Sound({}, {"cacheMu"}, Reads("healthCache")) /\ Sound({"cacheMu"}, {}, Writes("healthCache"))
    BY Accesses, Guards
  <2>2. Top(RLocked("cacheMu", Reads("healthCache"))) /\ Top(Locked("cacheMu", Writes("healthCache")))
    BY <1>3, <2>1, TopLocked, TopRLocked
  <2> QED  BY <2>2, TopBoth DEF HealthCheck
<1>9. \A path \in GetLocalConfig : Top(path)
  BY <1>1, <1>4, TopBoth DEF GetLocalConfig
<1>10. \A path \in Watch : Top(path)
  <2> SUFFICES ASSUME NEW start \in startHealthCheck \union {<<>>}
               PROVE  Top(Locked("insMu", ((all \o seen) \o start) \o put))
    BY DEF Watch
  <2>1. Sound({"insMu"}, {}, start)
    BY <1>2, ChecksSound
  <2>2. Sound({"insMu"}, {}, ((all \o seen) \o start) \o put)
    BY <1>2, <2>1, SoundBoth
  <2> QED  BY <1>3, <2>2, TopLocked
<1>11. \A path \in GetInstances : Top(path)
  <2>1. ASSUME NEW start \in startHealthCheck \union {<<>>}
        PROVE  Top(Locked("insMu", start \o put) \o seen)
    <3>1. Sound({"insMu"}, {}, start \o put)
      BY <1>2, ChecksSound, SoundBoth
    <3> QED  BY <1>2, <1>3, <3>1, TopLocked, TopBoth
  <2> QED  BY <1>1, <1>2, <1>4, <2>1, TopBoth DEF GetInstances
<1>12. \A path \in Tick : Top(path)
  <2>1. Sound({"insMu"}, {}, ((all \o seen) \o Writes("list")) \o put)
    BY <1>2, SoundBoth
  <2>2. Top(Locked("insMu", ((all \o seen) \o Writes("list")) \o put))
    BY <1>3, <2>1, TopLocked
  <2> QED  BY <1>4, <2>2, ChecksSound, TopBoth DEF Tick
<1>13. ASSUME NEW op \in Names \ Undisciplined, NEW path \in Paths[op] PROVE Top(path)
  BY <1>5, <1>6, <1>7, <1>8, <1>9, <1>10, <1>11, <1>12, <1>13, ChecksSound
     DEF Names, Undisciplined, Paths
<1> QED  BY <1>13, TopIsDisciplined DEF PathsDisciplined

(***************************************************************************)
(* The invariant                                                           *)
(***************************************************************************)
\* What g does next to the lock l, and whether it waits for it.
Due(g, l) == NextOn(todo[g], l)
Wants(g, do, l) == asked[g] /\ todo[g] # <<>> /\ Head(todo[g]).do = do /\ Head(todo[g]).on = l

LockTypes ==
  /\ DOMAIN todo = Goroutines
  /\ \A g \in Goroutines : Ordered(todo[g])
  /\ asked \in [Goroutines -> BOOLEAN]
  /\ \A g \in Goroutines : asked[g] => todo[g] # <<>> /\ Head(todo[g]).do \in {"Lock", "RLock"}
  /\ owner \in [Mutexes -> Goroutines \union {Nobody}]
  /\ readers \in [Mutexes -> SUBSET Goroutines] /\ queued \in [Mutexes -> SUBSET Goroutines]

\* The owner of a lock is the goroutine that still unlocks it, or waits for
\* its readers.
Owning ==
  \A g \in Goroutines, l \in Mutexes :
    owner[l] = g <=> Due(g, l) = "Unlock" \/ Wants(g, "Lock", l)

\* Its readers, and those that wait for its writer, are the goroutines that
\* still release it, or wait to enter.
Reading ==
  \A g \in Goroutines, l \in Mutexes :
    g \in readers[l] \union queued[l] <=> Due(g, l) = "RUnlock" \/ Wants(g, "RLock", l)

Apart ==
  \A l \in Mutexes :
    /\ readers[l] \cap queued[l] = {}
    /\ \A g \in Goroutines : /\ Due(g, l) = "RUnlock" => g \in readers[l]
                             /\ Due(g, l) = "Unlock" => readers[l] = {}

LockInv == LockTypes /\ Owning /\ Reading /\ Apart

ProgramInv == work \in Works /\ LockInv

\* No goroutine performs an operation whose paths break the discipline.
DisciplinedWork == \A w \in Works : \A g \in Goroutines : w[g] \cap Undisciplined = {}

LEMMA InitLockInv == Init => LockInv
<1> SUFFICES ASSUME Init PROVE LockInv
  OBVIOUS
<1>0. Ordered(<<>>)
  BY EmptySeq DEF Ordered
<1>1. \A g \in Goroutines : todo[g] = <<>> /\ ~asked[g] /\ Ordered(todo[g])
  BY <1>0 DEF Init
<1>2. \A g \in Goroutines : \A l : Due(g, l) = "none"
  BY <1>1, NothingNext DEF Due
<1>3. \A g \in Goroutines : \A l, do : ~Wants(g, do, l)
  BY <1>1 DEF Wants
<1>4. LockTypes
  BY <1>1 DEF Init, LockTypes
<1>5. \A l \in Mutexes : owner[l] = Nobody /\ readers[l] = {} /\ queued[l] = {}
  BY DEF Init
<1> QED  BY <1>2, <1>3, <1>4, <1>5, LocksAssumption DEF LockInv, Owning, Reading, Apart

\* What the next step of a path says of the locks.
LEMMA Facing ==
  ASSUME LockTypes, NEW g \in Goroutines, todo[g] # <<>>
  PROVE  /\ Head(todo[g]) \in PathStep
         /\ InPlace(todo[g])
         /\ Ordered(Tail(todo[g]))
         /\ Due(g, Head(todo[g]).on) = Head(todo[g]).do
         /\ \A l : l # Head(todo[g]).on => NextOn(Tail(todo[g]), l) = Due(g, l)
<1>1. Ordered(todo[g]) /\ todo[g] \in Seq(PathStep)
  BY DEF LockTypes, Ordered
<1> QED  BY <1>1, OrderedTail, NextOnHead, NextOnTail DEF Due

\* A step that moves g on its path, not waiting any more.
LEMMA Moved ==
  ASSUME LockTypes, NEW g \in Goroutines, todo[g] # <<>>, Moves(g),
         asked' \in [Goroutines -> BOOLEAN], ~asked'[g],
         \A h \in Goroutines : h # g => asked'[h] = asked[h]
  PROVE  /\ DOMAIN todo' = Goroutines
         /\ \A h \in Goroutines : Ordered(todo'[h])
         /\ \A h \in Goroutines :
              asked'[h] => todo'[h] # <<>> /\ Head(todo'[h]).do \in {"Lock", "RLock"}
         /\ \A h \in Goroutines : \A l : h # g => Due(h, l)' = Due(h, l)
         /\ \A h \in Goroutines : \A l, do : h # g => (Wants(h, do, l)' <=> Wants(h, do, l))
         /\ \A l, do : ~Wants(g, do, l)'
         /\ \A l : l # Mutex(g) => Due(g, l)' = Due(g, l)
         /\ \A l : l = Mutex(g) => /\ Due(g, l)' = NextOn(Tail(todo[g]), l)
                                   /\ Due(g, l) = Head(todo[g]).do
<1>1. todo' = [todo EXCEPT ![g] = Tail(todo[g])] /\ DOMAIN todo = Goroutines
  BY DEF Moves, LockTypes
<1>2. todo'[g] = Tail(todo[g]) /\ \A h \in Goroutines : h # g => todo'[h] = todo[h]
  BY <1>1
<1>3. DOMAIN todo' = Goroutines
  BY <1>1
<1>4. \A h \in Goroutines : Ordered(todo'[h])
  BY <1>2, Facing DEF LockTypes
<1>5. \A h \in Goroutines :
        asked'[h] => todo'[h] # <<>> /\ Head(todo'[h]).do \in {"Lock", "RLock"}
  BY <1>2 DEF LockTypes
<1>6. \A h \in Goroutines : \A l : h # g => Due(h, l)' = Due(h, l)
  BY <1>2 DEF Due
<1>7. \A h \in Goroutines : \A l, do : h # g => (Wants(h, do, l)' <=> Wants(h, do, l))
  BY <1>2 DEF Wants
<1>8. \A l, do : ~Wants(g, do, l)'
  BY DEF Wants
<1>9. \A l : Due(g, l)' = NextOn(Tail(todo[g]), l)
  BY <1>2 DEF Due
<1>10. \A l : l # Mutex(g) => Due(g, l)' = Due(g, l)
  BY <1>9, Facing DEF Mutex
<1> QED  BY <1>3, <1>4, <1>5, <1>6, <1>7, <1>8, <1>9, <1>10, Facing DEF Mutex

LEMMA BeginKeeps ==
  ASSUME work \in Works, LockInv, DisciplinedWork, NEW g \in Goroutines, Begin(g)
  PROVE  LockInv'
<1>0. PICK op \in work[g] : \E path \in Paths[op] : todo' = [todo EXCEPT ![g] = path]
  BY DEF Begin
<1>1. PICK path \in Paths[op] : todo' = [todo EXCEPT ![g] = path]
  BY <1>0
<1>2. Disciplined(path)
  BY <1>1, PathsAreDisciplined, LocksAssumption DEF PathsDisciplined, DisciplinedWork
<1>3. DOMAIN todo = Goroutines /\ todo[g] = <<>> /\ ~asked[g]
  BY DEF Begin, LockInv, LockTypes
<1>4. todo'[g] = path /\ \A h \in Goroutines : h # g => todo'[h] = todo[h]
  BY <1>1, <1>3
<1>5. \A h \in Goroutines : \A l : h # g => Due(h, l)' = Due(h, l)
  BY <1>4 DEF Due
<1>6. \A l \in Mutexes : Due(g, l)' \in Free /\ Due(g, l) = "none"
  BY <1>2, <1>3, <1>4, NothingNext DEF Due, Disciplined
<1>7. \A h \in Goroutines : \A l, do : Wants(h, do, l)' <=> Wants(h, do, l)
  BY <1>3, <1>4 DEF Wants, Begin
<1>8. UNCHANGED <<asked, owner, readers, queued>>
  BY DEF Begin
<1>9. LockTypes'
  <2>1. DOMAIN todo' = Goroutines
    BY <1>1, <1>3
  <2>2. \A h \in Goroutines : Ordered(todo'[h])
    BY <1>2, <1>4 DEF LockInv, LockTypes, Disciplined
  <2>3. \A h \in Goroutines :
          asked'[h] => todo'[h] # <<>> /\ Head(todo'[h]).do \in {"Lock", "RLock"}
    BY <1>3, <1>4, <1>8 DEF LockInv, LockTypes
  <2> QED  BY <1>8, <2>1, <2>2, <2>3 DEF LockInv, LockTypes
<1>10. Owning'
  BY <1>5, <1>6, <1>7, <1>8 DEF LockInv, Owning, Free
<1>11. Reading'
  BY <1>5, <1>6, <1>7, <1>8 DEF LockInv, Reading, Free
<1>12. Apart'
  BY <1>5, <1>6, <1>8 DEF LockInv, Apart, Free
<1> QED  BY <1>9, <1>10, <1>11, <1>12 DEF LockInv

LEMMA AccessKeeps ==
  ASSUME LockInv, NEW g \in Goroutines, Access(g)
  PROVE  LockInv'
<1>1. /\ todo[g] # <<>> /\ Head(todo[g]).do \in {"read", "write"} /\ Moves(g)
      /\ UNCHANGED <<asked, owner, readers, queued>>
  BY DEF Access, IsNext
<1>2. LockTypes /\ ~asked[g]
  BY <1>1 DEF LockInv, LockTypes
<1>3. /\ DOMAIN todo' = Goroutines /\ \A h \in Goroutines : Ordered(todo'[h])
      /\ \A h \in Goroutines :
           asked'[h] => todo'[h] # <<>> /\ Head(todo'[h]).do \in {"Lock", "RLock"}
      /\ \A h \in Goroutines : \A l : h # g => Due(h, l)' = Due(h, l)
      /\ \A h \in Goroutines : \A l, do : h # g => (Wants(h, do, l)' <=> Wants(h, do, l))
      /\ \A l, do : ~Wants(g, do, l)'
      /\ \A l : l # Mutex(g) => Due(g, l)' = Due(g, l)
  BY <1>1, <1>2, Moved DEF LockTypes
<1>4. \A l \in Mutexes : l # Mutex(g)
  BY <1>1, <1>2, Facing DEF PathStep, Mutex, Mutexes, Maps, Contents
<1>5. \A l, do : ~Wants(g, do, l)
  BY <1>2 DEF Wants
<1>6. \A h \in Goroutines, l \in Mutexes : Due(h, l)' = Due(h, l)
  BY <1>3, <1>4
<1>7. \A h \in Goroutines : \A l, do : Wants(h, do, l)' <=> Wants(h, do, l)
  BY <1>3, <1>5
<1>8. LockTypes'
  BY <1>1, <1>2, <1>3 DEF LockTypes
<1>9. Owning' /\ Reading' /\ Apart'
  BY <1>1, <1>6, <1>7 DEF LockInv, Owning, Reading, Apart
<1> QED  BY <1>8, <1>9 DEF LockInv

LEMMA AsksKeeps ==
  ASSUME LockInv, NEW g \in Goroutines, Asks(g)
  PROVE  LockInv'
<1>1. /\ ~asked[g] /\ asked' = [asked EXCEPT ![g] = TRUE] /\ todo' = todo
      /\ todo[g] # <<>> /\ Head(todo[g]).do \in {"Lock", "RLock"}
  BY DEF Asks, IsNext
<1>2. LockTypes
  BY DEF LockInv
<1>3. PICK m \in Mutexes : m = Mutex(g) /\ m = Head(todo[g]).on /\ Due(g, m) = Head(todo[g]).do
  BY <1>1, <1>2, Facing DEF PathStep, Mutex
<1>4. asked' \in [Goroutines -> BOOLEAN] /\ asked'[g]
      /\ \A h \in Goroutines : h # g => asked'[h] = asked[h]
  BY <1>1, <1>2 DEF LockTypes
<1>5. \A h, l : Due(h, l)' = Due(h, l)
  BY <1>1 DEF Due
<1>6. \A h \in Goroutines : \A l, do : h # g => (Wants(h, do, l)' <=> Wants(h, do, l))
  BY <1>1, <1>4 DEF Wants
<1>7. \A l, do : ~Wants(g, do, l) /\ (Wants(g, do, l)' <=> l = m /\ do = Head(todo[g]).do)
  BY <1>1, <1>2, <1>3, <1>4 DEF Wants
<1>8. owner[m] # g /\ g \notin readers[m] \union queued[m]
  BY <1>1, <1>3, <1>7 DEF LockInv, Owning, Reading
<1>9. CASE /\ IsNext(g, "Lock") /\ owner[m] = Nobody
           /\ owner' = [owner EXCEPT ![m] = g] /\ UNCHANGED <<readers, queued>>
  <2>1. Head(todo[g]).do = "Lock"
    BY <1>9 DEF IsNext
  <2>2. owner'[m] = g /\ \A l \in Mutexes : l # m => owner'[l] = owner[l]
    BY <1>2, <1>3, <1>9 DEF LockTypes
  <2>3. LockTypes'
    BY <1>1, <1>2, <1>3, <1>4, <1>9 DEF LockTypes
  <2>4. Owning'
    BY <1>3, <1>5, <1>6, <1>7, <1>9, <2>1, <2>2, LocksAssumption DEF LockInv, Owning
  <2>5. Reading' /\ Apart'
    BY <1>5, <1>6, <1>7, <1>9, <2>1 DEF LockInv, Reading, Apart
  <2> QED  BY <2>3, <2>4, <2>5 DEF LockInv
<1>10. CASE /\ IsNext(g, "RLock") /\ owner[m] = Nobody
            /\ readers' = [readers EXCEPT ![m] = @ \union {g}] /\ UNCHANGED <<owner, queued>>
  <2>1. Head(todo[g]).do = "RLock"
    BY <1>10 DEF IsNext
  <2>2. readers'[m] = readers[m] \union {g} /\ \A l \in Mutexes : l # m => readers'[l] = readers[l]
    BY <1>2, <1>3, <1>10 DEF LockTypes
  <2>3. LockTypes'
    BY <1>1, <1>2, <1>3, <1>4, <1>10 DEF LockTypes
  <2>4. Owning'
    BY <1>5, <1>6, <1>7, <1>10, <2>1 DEF LockInv, Owning
  <2>5. Reading'
    BY <1>3, <1>5, <1>6, <1>7, <1>10, <2>1, <2>2 DEF LockInv, Reading
  <2>6. \A h \in Goroutines : Due(h, m) # "Unlock"
    BY <1>3, <1>10, LocksAssumption DEF LockInv, Owning
  <2>7. Apart'
    BY <1>3, <1>5, <1>8, <1>10, <2>2, <2>6 DEF LockInv, Apart
  <2> QED  BY <2>3, <2>4, <2>5, <2>7 DEF LockInv
<1>11. CASE /\ IsNext(g, "RLock") /\ owner[m] # Nobody
            /\ queued' = [queued EXCEPT ![m] = @ \union {g}] /\ UNCHANGED <<owner, readers>>
  <2>1. Head(todo[g]).do = "RLock"
    BY <1>11 DEF IsNext
  <2>2. queued'[m] = queued[m] \union {g} /\ \A l \in Mutexes : l # m => queued'[l] = queued[l]
    BY <1>2, <1>3, <1>11 DEF LockTypes
  <2>3. LockTypes'
    BY <1>1, <1>2, <1>3, <1>4, <1>11 DEF LockTypes
  <2>4. Owning'
    BY <1>5, <1>6, <1>7, <1>11, <2>1 DEF LockInv, Owning
  <2>5. Reading'
    BY <1>3, <1>5, <1>6, <1>7, <1>11, <2>1, <2>2 DEF LockInv, Reading
  <2>6. Apart'
    BY <1>3, <1>5, <1>8, <1>11, <2>2 DEF LockInv, Apart
  <2> QED  BY <2>3, <2>4, <2>5, <2>6 DEF LockInv
<1> QED  BY <1>3, <1>9, <1>10, <1>11 DEF Asks

LEMMA EntersKeeps ==
  ASSUME LockInv, NEW g \in Goroutines, Enters(g)
  PROVE  LockInv'
<1>1. /\ asked[g] /\ asked' = [asked EXCEPT ![g] = FALSE] /\ Moves(g)
      /\ todo[g] # <<>> /\ Head(todo[g]).do \in {"Lock", "RLock"}
      /\ UNCHANGED <<owner, readers, queued>>
      /\ Head(todo[g]).do = "Lock" => readers[Mutex(g)] = {}
      /\ Head(todo[g]).do = "RLock" => g \in readers[Mutex(g)]
  BY DEF Enters, IsNext
<1>2. LockTypes
  BY DEF LockInv
<1>3. PICK m \in Mutexes : m = Mutex(g) /\ m = Head(todo[g]).on /\ InPlace(todo[g])
  BY <1>1, <1>2, Facing DEF PathStep, Mutex
<1>4. asked' \in [Goroutines -> BOOLEAN] /\ ~asked'[g]
      /\ \A h \in Goroutines : h # g => asked'[h] = asked[h]
  BY <1>1, <1>2 DEF LockTypes
<1>5. /\ DOMAIN todo' = Goroutines /\ \A h \in Goroutines : Ordered(todo'[h])
      /\ \A h \in Goroutines :
           asked'[h] => todo'[h] # <<>> /\ Head(todo'[h]).do \in {"Lock", "RLock"}
      /\ \A h \in Goroutines : \A l : h # g => Due(h, l)' = Due(h, l)
      /\ \A h \in Goroutines : \A l, do : h # g => (Wants(h, do, l)' <=> Wants(h, do, l))
      /\ \A l, do : ~Wants(g, do, l)'
      /\ \A l : l # m => Due(g, l)' = Due(g, l)
      /\ Due(g, m)' = NextOn(Tail(todo[g]), m) /\ Due(g, m) = Head(todo[g]).do
  BY <1>1, <1>2, <1>3, <1>4, Moved
<1>6. \A l, do : Wants(g, do, l) <=> (l = m /\ do = Head(todo[g]).do)
  BY <1>1, <1>2, <1>3 DEF Wants
<1>7. /\ Head(todo[g]).do = "Lock" => Due(g, m)' = "Unlock"
      /\ Head(todo[g]).do = "RLock" => Due(g, m)' = "RUnlock"
  BY <1>2, <1>3, <1>5 DEF InPlace
<1>8. LockTypes'
  BY <1>1, <1>2, <1>4, <1>5 DEF LockTypes
<1>9. Owning'
  BY <1>1, <1>3, <1>5, <1>6, <1>7 DEF LockInv, Owning
<1>10. Reading'
  BY <1>1, <1>3, <1>5, <1>6, <1>7 DEF LockInv, Reading
<1>11. /\ Head(todo[g]).do = "Lock" => readers[m] = {}
       /\ Head(todo[g]).do = "RLock" => g \in readers[m]
  BY <1>1, <1>3
<1>12. Apart'
  BY <1>1, <1>3, <1>5, <1>7, <1>11 DEF LockInv, Apart
<1> QED  BY <1>8, <1>9, <1>10, <1>12 DEF LockInv

\* A goroutine that is about to release a lock has it.
LEMMA UnlocksKeeps ==
  ASSUME LockInv, NEW g \in Goroutines, Unlocks(g)
  PROVE  LockInv'
<1>1. /\ todo[g] # <<>> /\ Head(todo[g]).do = "Unlock" /\ Moves(g) /\ asked' = asked
  BY DEF Unlocks, IsNext
<1>2. LockTypes /\ ~asked[g]
  BY <1>1 DEF LockInv, LockTypes
<1>3. PICK m \in Mutexes : m = Mutex(g) /\ m = Head(todo[g]).on /\ InPlace(todo[g])
  BY <1>1, <1>2, Facing DEF PathStep, Mutex
<1>4. asked' \in [Goroutines -> BOOLEAN] /\ ~asked'[g]
  BY <1>1, <1>2 DEF LockTypes
<1>5. /\ DOMAIN todo' = Goroutines /\ \A h \in Goroutines : Ordered(todo'[h])
      /\ \A h \in Goroutines :
           asked'[h] => todo'[h] # <<>> /\ Head(todo'[h]).do \in {"Lock", "RLock"}
      /\ \A h \in Goroutines : \A l : h # g => Due(h, l)' = Due(h, l)
      /\ \A h \in Goroutines : \A l, do : h # g => (Wants(h, do, l)' <=> Wants(h, do, l))
      /\ \A l, do : ~Wants(g, do, l)'
      /\ \A l : l # m => Due(g, l)' = Due(g, l)
      /\ Due(g, m)' = NextOn(Tail(todo[g]), m) /\ Due(g, m) = "Unlock"
  BY <1>1, <1>2, <1>3, <1>4, Moved
<1>6. \A l, do : ~Wants(g, do, l)
  BY <1>2 DEF Wants
<1>7. Due(g, m)' \in Free
  BY <1>1, <1>2, <1>3, <1>5 DEF InPlace
<1>8. /\ owner' = [owner EXCEPT ![m] = Nobody]
      /\ readers' = [readers EXCEPT ![m] = queued[m]] /\ queued' = [queued EXCEPT ![m] = {}]
  BY <1>3 DEF Unlocks
<1>9. /\ owner'[m] = Nobody /\ readers'[m] = queued[m] /\ queued'[m] = {}
      /\ \A l \in Mutexes : l # m =>
           owner'[l] = owner[l] /\ readers'[l] = readers[l] /\ queued'[l] = queued[l]
  BY <1>2, <1>3, <1>8 DEF LockTypes
<1>10. owner[m] = g /\ readers[m] = {} /\ g \notin queued[m]
  BY <1>3, <1>5, <1>6 DEF LockInv, Owning, Reading, Apart
<1>11. LockTypes'
  BY <1>1, <1>2, <1>3, <1>4, <1>5, <1>8 DEF LockTypes
<1>12. Owning'
  BY <1>3, <1>5, <1>6, <1>7, <1>9, <1>10, LocksAssumption DEF LockInv, Owning, Free
<1>13. Reading'
  BY <1>3, <1>5, <1>6, <1>7, <1>9, <1>10 DEF LockInv, Reading, Free
<1>14. \A h \in Goroutines : h # g => Due(h, m) # "Unlock" /\ (Due(h, m) = "RUnlock" => h \in readers[m])
  BY <1>3, <1>10 DEF LockInv, Owning, Apart
<1>15. Apart'
  BY <1>3, <1>5, <1>7, <1>9, <1>10, <1>14 DEF LockInv, Apart, Free
<1> QED  BY <1>11, <1>12, <1>13, <1>15 DEF LockInv

LEMMA RUnlocksKeeps ==
  ASSUME LockInv, NEW g \in Goroutines, RUnlocks(g)
  PROVE  LockInv'
<1>1. /\ todo[g] # <<>> /\ Head(todo[g]).do = "RUnlock" /\ Moves(g)
      /\ UNCHANGED <<asked, owner, queued>>
  BY DEF RUnlocks, IsNext
<1>2. LockTypes /\ ~asked[g]
  BY <1>1 DEF LockInv, LockTypes
<1>3. PICK m \in Mutexes : m = Mutex(g) /\ m = Head(todo[g]).on /\ InPlace(todo[g])
  BY <1>1, <1>2, Facing DEF PathStep, Mutex
<1>4. asked' \in [Goroutines -> BOOLEAN] /\ ~asked'[g]
  BY <1>1, <1>2 DEF LockTypes
<1>5. /\ DOMAIN todo' = Goroutines /\ \A h \in Goroutines : Ordered(todo'[h])
      /\ \A h \in Goroutines :
           asked'[h] => todo'[h] # <<>> /\ Head(todo'[h]).do \in {"Lock", "RLock"}
      /\ \A h \in Goroutines : \A l : h # g => Due(h, l)' = Due(h, l)
      /\ \A h \in Goroutines : \A l, do : h # g => (Wants(h, do, l)' <=> Wants(h, do, l))
      /\ \A l, do : ~Wants(g, do, l)'
      /\ \A l : l # m => Due(g, l)' = Due(g, l)
      /\ Due(g, m)' = NextOn(Tail(todo[g]), m) /\ Due(g, m) = "RUnlock"
  BY <1>1, <1>2, <1>3, <1>4, Moved
<1>6. \A l, do : ~Wants(g, do, l)
  BY <1>2 DEF Wants
<1>7. Due(g, m)' \in Free
  BY <1>1, <1>2, <1>3, <1>5 DEF InPlace
<1>8. readers' = [readers EXCEPT ![m] = @ \ {g}]
  BY <1>3 DEF RUnlocks
<1>9. readers'[m] = readers[m] \ {g} /\ \A l \in Mutexes : l # m => readers'[l] = readers[l]
  BY <1>2, <1>3, <1>8 DEF LockTypes
<1>10. g \in readers[m] /\ g \notin queued[m]
  BY <1>3, <1>5 DEF LockInv, Apart
<1>11. LockTypes'
  BY <1>1, <1>2, <1>3, <1>4, <1>5, <1>8 DEF LockTypes
<1>12. Owning'
  BY <1>1, <1>3, <1>5, <1>6, <1>7 DEF LockInv, Owning, Free
<1>13. Reading'
  BY <1>1, <1>3, <1>5, <1>6, <1>7, <1>9, <1>10 DEF LockInv, Reading, Free
<1>14. Apart'
  BY <1>1, <1>3, <1>5, <1>7, <1>9 DEF LockInv, Apart, Free
<1> QED  BY <1>11, <1>12, <1>13, <1>14 DEF LockInv

LEMMA StutterKeeps == ASSUME LockInv, UNCHANGED vars PROVE LockInv'
<1>1. /\ todo' = todo /\ asked' = asked /\ owner' = owner
      /\ readers' = readers /\ queued' = queued
  BY DEF vars
<1>2. \A g, l : Due(g, l)' = Due(g, l)
  BY <1>1 DEF Due
<1>3. \A g, do, l : Wants(g, do, l)' <=> Wants(g, do, l)
  BY <1>1 DEF Wants
<1> QED  BY <1>1, <1>2, <1>3 DEF LockInv, LockTypes, Owning, Reading, Apart

LEMMA NextProgramInv == ASSUME ProgramInv, DisciplinedWork, [Next]_vars PROVE ProgramInv'
<1>0. work \in Works /\ LockInv
  BY DEF ProgramInv
<1>1. CASE UNCHANGED vars
  BY <1>0, <1>1, StutterKeeps DEF vars, ProgramInv
<1>2. ASSUME NEW g \in Goroutines, Begin(g) \/ Asks(g) \/ Step(g) PROVE ProgramInv'
  <2>1. work' = work
    BY <1>2 DEF Step, Begin, Asks, Access, Enters, Unlocks, RUnlocks
  <2>2. LockInv'
    BY <1>0, <1>2, BeginKeeps, AsksKeeps, AccessKeeps, EntersKeeps, UnlocksKeeps, RUnlocksKeeps
       DEF Step
  <2> QED  BY <1>0, <2>1, <2>2 DEF ProgramInv
<1> QED  BY <1>1, <1>2 DEF Next

LEMMA ProgramInvAlways == ASSUME DisciplinedWork PROVE Spec => []ProgramInv
<1>1. Init => ProgramInv
  BY InitLockInv DEF Init, ProgramInv
<1>2. ProgramInv /\ [Next]_vars => ProgramInv'
  BY NextProgramInv
<1> QED  BY <1>1, <1>2, PTL DEF Spec

(***************************************************************************)
(* Theorems                                                                *)
(***************************************************************************)
\* No early return of an operation keeps a lock, and none waits on: between
\* two operations a goroutine has no part in any lock.
THEOREM NoLockKept == ASSUME DisciplinedWork PROVE Spec => []TypeOK
<1>1. ProgramInv => TypeOK
  <2> SUFFICES ASSUME work \in Works, LockInv PROVE TypeOK
    BY DEF ProgramInv
  <2>1. ASSUME NEW g \in Goroutines, todo[g] = <<>>
        PROVE  ~asked[g] /\ \A l \in Mutexes : owner[l] # g /\ g \notin readers[l] \union queued[l]
    <3>1. ~asked[g] /\ \A l : Due(g, l) = "none"
      BY <2>1, NothingNext DEF LockInv, LockTypes, Due
    <3>2. \A l, do : ~Wants(g, do, l)
      BY <3>1 DEF Wants
    <3> QED  BY <3>1, <3>2 DEF LockInv, Owning, Reading
  <2> QED  BY <2>1 DEF LockInv, LockTypes, TypeOK
<1> QED  BY <1>1, ProgramInvAlways, PTL

\* The maps of ConfigManager and of DiscoveryWithLB are never used by one
\* goroutine while another writes them, however many goroutines call the
\* operations, as long as none calls RefreshConfig or Close.
THEOREM MapsAreGuarded == ASSUME DisciplinedWork PROVE Spec => []MapsGuarded
<1>1. ProgramInv => MapsGuarded
  <2> SUFFICES ASSUME LockInv, NEW x \in Maps, NEW g \in Goroutines, NEW h \in Goroutines,
                      Uses(g, x), IsNext(g, "write"), Uses(h, x)
               PROVE  g = h
    BY DEF MapsGuarded, Guarded, ProgramInv
  <2>1. LockTypes /\ todo[g] # <<>> /\ todo[h] # <<>> /\ Head(todo[g]).do = "write"
        /\ Head(todo[g]).on = x /\ Head(todo[h]).on = x
    BY DEF LockInv, Uses, IsNext
  <2>2. Guard[x] \in Mutexes
    BY DEF Guard, Mutexes, Maps
  <2>3. Due(g, Guard[x]) = "Unlock"
    BY <2>1, Facing DEF InPlace, Due
  <2>4. Head(todo[h]).do \in {"read", "write"}
    BY <2>1, Facing DEF PathStep, Maps, Mutexes
  <2>5. Due(h, Guard[x]) \in {"Unlock", "RUnlock"}
    BY <2>1, <2>4, Facing DEF InPlace, Due
  <2>6. owner[Guard[x]] = g /\ readers[Guard[x]] = {}
    BY <2>2, <2>3 DEF LockInv, Owning, Apart
  <2>7. Due(h, Guard[x]) = "Unlock"
    BY <2>2, <2>5, <2>6 DEF LockInv, Apart
  <2> QED  BY <2>2, <2>6, <2>7 DEF LockInv, Owning
<1> QED  BY <1>1, ProgramInvAlways, PTL
=============================================================================
