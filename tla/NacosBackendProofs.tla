-------------------------- MODULE NacosBackendProofs --------------------------
(***************************************************************************)
(* Theorems about NacosBackend, for any number of goroutines, instances,   *)
(* clients, calls and failures, and recursion of any depth.                *)
(***************************************************************************)
EXTENDS NacosBackend, FiniteSetTheorems, TLAPS

(***************************************************************************)
(* Stacks.                                                                 *)
(***************************************************************************)
LEMMA Popped ==
  ASSUME NEW F, NEW s \in Seq(F), s # <<>>
  PROVE  /\ Head(s) = s[1] /\ Head(s) \in F
         /\ Tail(s) \in Seq(F) /\ Len(Tail(s)) = Len(s) - 1 /\ Len(s) \in Nat \ {0}
         /\ \A n \in 1..Len(s) - 1 : Tail(s)[n] = s[n + 1]
OBVIOUS

LEMMA Put ==
  ASSUME NEW F, NEW s \in Seq(F), NEW f \in F
  PROVE  /\ <<f>> \o s \in Seq(F) /\ Len(<<f>> \o s) = Len(s) + 1 /\ Len(s) \in Nat
         /\ (<<f>> \o s)[1] = f
         /\ \A n \in 1..Len(s) : (<<f>> \o s)[n + 1] = s[n]
OBVIOUS

LEMMA PutTwo ==
  ASSUME NEW F, NEW s \in Seq(F), NEW f \in F, NEW g \in F
  PROVE  /\ <<g, f>> \o s \in Seq(F) /\ Len(<<g, f>> \o s) = Len(s) + 2 /\ Len(s) \in Nat
         /\ (<<g, f>> \o s)[1] = g /\ (<<g, f>> \o s)[2] = f
         /\ \A n \in 1..Len(s) : (<<g, f>> \o s)[n + 2] = s[n]
OBVIOUS

Rets   == {"none", "ok", "error", "found", "missing"}
Thread == [stack: Seq(Frame), calls: 0..MaxCalls, ret: Rets]

ThrType == thr \in [Threads -> Thread]


\* What a step of t does to the threads: its innermost call becomes f, makes
\* the call g and waits as h, or returns r.
Keeps(t) ==
  /\ ThrType'
  /\ thr'[t].calls = thr[t].calls
  /\ \A u \in Threads : u # t => thr'[u] = thr[u]

Turned(t, f) ==
  /\ Keeps(t) /\ thr'[t].ret = thr[t].ret
  /\ Len(thr'[t].stack) = Len(thr[t].stack) /\ thr'[t].stack[1] = f
  /\ \A n \in 1..Len(thr[t].stack) : n > 1 => thr'[t].stack[n] = thr[t].stack[n]

Entered(t, g, h) ==
  /\ Keeps(t) /\ thr'[t].ret = thr[t].ret
  /\ Len(thr'[t].stack) = Len(thr[t].stack) + 1
  /\ thr'[t].stack[1] = g /\ thr'[t].stack[2] = h
  /\ \A n \in 1..Len(thr[t].stack) : n > 1 => thr'[t].stack[n + 1] = thr[t].stack[n]

Returned(t, r) ==
  /\ Keeps(t) /\ thr'[t].ret = r
  /\ Len(thr'[t].stack) = Len(thr[t].stack) - 1
  /\ \A n \in 1..Len(thr[t].stack) : n > 1 => thr'[t].stack[n - 1] = thr[t].stack[n]

LEMMA ThreadHas ==
  ASSUME ThrType, NEW t \in Threads
  PROVE  /\ thr[t].stack \in Seq(Frame) /\ thr[t].ret \in Rets /\ thr[t].calls \in 0..MaxCalls
         /\ Len(thr[t].stack) \in Nat /\ (Busy(t) <=> Len(thr[t].stack) > 0)
         /\ Busy(t) => Top(t) \in Frame /\ Top(t) = thr[t].stack[1]
<1>1. thr[t] \in Thread
  BY DEF ThrType
<1>2. thr[t].stack \in Seq(Frame) /\ thr[t].ret \in Rets /\ thr[t].calls \in 0..MaxCalls
  BY <1>1 DEF Thread
<1> HIDE DEF ThrType
<1>3. Busy(t) => Top(t) \in Frame /\ Top(t) = thr[t].stack[1]
  BY <1>2, Popped DEF Busy, Top
<1>4. Len(thr[t].stack) \in Nat /\ (Busy(t) <=> Len(thr[t].stack) > 0)
  BY <1>2 DEF Busy
<1> QED  BY <1>2, <1>3, <1>4

LEMMA StackBecomes ==
  ASSUME ThrType, NEW t \in Threads, NEW s \in Seq(Frame),
         thr' = [thr EXCEPT ![t].stack = s]
  PROVE  Keeps(t) /\ thr'[t].stack = s /\ thr'[t].ret = thr[t].ret
BY DEF ThrType, Thread, Keeps

LEMMA BecomesTurns ==
  ASSUME ThrType, NEW t \in Threads, Busy(t), NEW f \in Frame,
         thr' = [thr EXCEPT ![t].stack = <<f>> \o Tail(@)]
  PROVE  Turned(t, f)
<1> DEFINE s == thr[t].stack
           z == <<f>> \o Tail(s)
<1>1. s \in Seq(Frame) /\ s # <<>>
  BY ThreadHas DEF Busy
<1>2. thr' = [thr EXCEPT ![t].stack = z]
  BY DEF ThrType
<1> HIDE DEF s
<1>3. Tail(s) \in Seq(Frame) /\ Len(Tail(s)) = Len(s) - 1 /\ Len(s) \in Nat \ {0}
  BY <1>1, Popped
<1>4. z \in Seq(Frame) /\ Len(z) = Len(s) /\ z[1] = f
  BY <1>3, Put
<1>5. ASSUME NEW n \in 1..Len(s), n > 1  PROVE z[n] = s[n]
  <2>1. n - 1 \in 1..Len(s) - 1 /\ (n - 1) + 1 = n
    BY <1>3, <1>5
  <2>2. Tail(s)[n - 1] = s[n]
    BY <1>1, <2>1, Popped
  <2>3. z[n] = Tail(s)[n - 1]
    BY <1>3, <2>1, Put
  <2> QED  BY <2>2, <2>3
<1> HIDE DEF z
<1>6. Keeps(t) /\ thr'[t].stack = z /\ thr'[t].ret = thr[t].ret
  BY <1>2, <1>4, StackBecomes
<1> QED  BY <1>4, <1>5, <1>6 DEF Turned, s

LEMMA CallEnters ==
  ASSUME ThrType, NEW t \in Threads, Busy(t), NEW g \in Frame, NEW h \in Frame,
         thr' = [thr EXCEPT ![t].stack = <<g, h>> \o Tail(@)]
  PROVE  Entered(t, g, h)
<1> DEFINE s == thr[t].stack
           z == <<g, h>> \o Tail(s)
<1>1. s \in Seq(Frame) /\ s # <<>>
  BY ThreadHas DEF Busy
<1>2. thr' = [thr EXCEPT ![t].stack = z]
  BY DEF ThrType
<1> HIDE DEF s
<1>3. Tail(s) \in Seq(Frame) /\ Len(Tail(s)) = Len(s) - 1 /\ Len(s) \in Nat \ {0}
  BY <1>1, Popped
<1>4. z \in Seq(Frame) /\ Len(z) = Len(s) + 1 /\ z[1] = g /\ z[2] = h
  BY <1>3, PutTwo
<1>5. ASSUME NEW n \in 1..Len(s), n > 1  PROVE z[n + 1] = s[n]
  <2>1. n - 1 \in 1..Len(s) - 1 /\ (n - 1) + 1 = n /\ (n - 1) + 2 = n + 1
    BY <1>3, <1>5
  <2>2. Tail(s)[n - 1] = s[n]
    BY <1>1, <2>1, Popped
  <2>3. z[n + 1] = Tail(s)[n - 1]
    BY <1>3, <2>1, PutTwo
  <2> QED  BY <2>2, <2>3
<1> HIDE DEF z
<1>6. Keeps(t) /\ thr'[t].stack = z /\ thr'[t].ret = thr[t].ret
  BY <1>2, <1>4, StackBecomes
<1> QED  BY <1>4, <1>5, <1>6 DEF Entered, s

LEMMA ReturnsPops ==
  ASSUME ThrType, NEW t \in Threads, Busy(t), NEW r \in Rets, Returns(t, r)
  PROVE  Returned(t, r)
<1> DEFINE s == thr[t].stack
           z == Tail(s)
<1>1. s \in Seq(Frame) /\ s # <<>>
  BY ThreadHas DEF Busy
<1>2. thr' = [thr EXCEPT ![t].stack = z, ![t].ret = r]
  BY DEF Returns, ThrType, Thread
<1> HIDE DEF s
<1>3. z \in Seq(Frame) /\ Len(z) = Len(s) - 1 /\ Len(s) \in Nat \ {0}
  BY <1>1, Popped
<1>5. ASSUME NEW n \in 1..Len(s), n > 1  PROVE z[n - 1] = s[n]
  <2>1. n - 1 \in 1..Len(s) - 1 /\ (n - 1) + 1 = n
    BY <1>3, <1>5
  <2> QED  BY <1>1, <2>1, Popped
<1> HIDE DEF z
<1>6. Keeps(t) /\ thr'[t].stack = z /\ thr'[t].ret = r
  BY <1>2, <1>3 DEF ThrType, Thread, Keeps
<1> QED  BY <1>3, <1>5, <1>6 DEF Returned, s

(***************************************************************************)
(* The recursion.  A frame of the stack has what its call was given; those *)
(* below the top wait; Deregister is at the bottom, under its GetInstances.*)
(***************************************************************************)
GoodFrame(f) ==
  /\ f.op # "check" => f.inst \in Instances
  /\ f.op = "check" /\ f.pc = "wait" => f.inst # None
  /\ f.op = "deregister" => f.ids \subseteq {f.inst}

GoodStack(s) ==
  \A n \in 1..Len(s) :
    /\ GoodFrame(s[n])
    /\ s[n].op = "deregister" => n = Len(s)
    /\ n > 1 => s[n].pc = "wait"
    /\ n > 1 /\ s[n].op = "deregister" => s[n - 1].op = "instances" /\ s[n - 1].inst = s[n].inst

Shape == \A t \in Threads : GoodStack(thr[t].stack) /\ (Busy(t) => thr[t].calls # 0)

\* Nothing that f is doing will register i.
Free(f, i) ==
  /\ f.op = "register" => f.inst # i
  /\ f.op = "check" => f.inst # i /\ i \notin f.ids

\* f is the call e, further on.
Follows(f, e) ==
  /\ f.op = e.op /\ GoodFrame(f)
  /\ f.op # "check" => f.inst = e.inst
  /\ \A i \in Instances : Free(e, i) /\ i \notin registered => Free(f, i)

OnGet(t) == \E f \in Frame :
  /\ Turned(t, f) /\ Follows(f, Top(t))
  /\ Top(t).pc = "get" /\ f.pc \in {"work", "call"} /\ idle > 0 /\ idle' = idle - 1

OnTurn(t) == \E f \in Frame :
  /\ Turned(t, f) /\ Follows(f, Top(t))
  /\ Top(t).pc # "get" /\ f.pc \in {"work", "call"} /\ UNCHANGED idle

OnEnter(t) == \E g, h \in Frame :
  /\ Entered(t, g, h) /\ Follows(h, Top(t)) /\ GoodFrame(g)
  /\ \A i \in Instances : Free(Top(t), i) => Free(g, i)
  /\ g.op # "deregister" /\ (h.op = "deregister" => g.op = "instances" /\ g.inst = h.inst)
  /\ Top(t).pc # "get" /\ g.pc = "get" /\ h.pc = "wait" /\ UNCHANGED idle

OnReturn(t) == \E r \in Rets :
  Returned(t, r) /\ Top(t).pc # "get" /\ idle' = idle + 1

Stepped(t) == Busy(t) /\ (OnGet(t) \/ OnTurn(t) \/ OnEnter(t) \/ OnReturn(t))

LEMMA CallsFrame ==
  ASSUME NEW op \in Ops \cup {"check"}, NEW i \in Instances \cup {None}, NEW b \in BOOLEAN
  PROVE  Calls(op, i, b) \in Frame
BY DEF Calls, Frame

LEMMA TopIsGood ==
  ASSUME ThrType, Shape, NEW t \in Threads, Busy(t)
  PROVE  Top(t) \in Frame /\ GoodFrame(Top(t))
<1>1. Top(t) \in Frame /\ Top(t) = thr[t].stack[1] /\ 1 \in 1..Len(thr[t].stack)
  BY ThreadHas
<1> QED  BY <1>1 DEF Shape, GoodStack

LEMMA GetsClientIs ==
  ASSUME ThrType, Shape, registered \subseteq Instances, NEW t \in Threads, GetsClient(t)
  PROVE  Busy(t) /\ OnGet(t)
<1> DEFINE e == Top(t)
           f == [e EXCEPT !.pc = "work", !.ids = IF e.op = "check" THEN registered ELSE {}]
<1>1. Busy(t) /\ e.pc = "get" /\ idle > 0 /\ idle' = idle - 1
  BY DEF GetsClient
<1>2. e \in Frame /\ GoodFrame(e)
  BY <1>1, TopIsGood
<1> HIDE DEF e
<1>3. f \in Frame /\ Follows(f, e) /\ f.pc \in {"work", "call"}
  BY <1>2 DEF Frame, Follows, GoodFrame, Free
<1>4. thr' = [thr EXCEPT ![t].stack = <<f>> \o Tail(@)]
  BY DEF GetsClient, e
<1> HIDE DEF f
<1>5. Turned(t, f)
  BY <1>1, <1>3, <1>4, BecomesTurns
<1> QED  BY <1>1, <1>3, <1>5 DEF OnGet, e

LEMMA BecomesIs ==
  ASSUME ThrType, Shape, NEW t \in Threads, Busy(t), NEW f,
         Becomes(t, f), f \in Frame, Follows(f, Top(t)), Top(t).pc # "get",
         f.pc \in {"work", "call"}
  PROVE  OnTurn(t)
<1>1. Turned(t, f) /\ UNCHANGED idle
  BY BecomesTurns DEF Becomes
<1> QED  BY <1>1 DEF OnTurn

LEMMA ReturnsIs ==
  ASSUME ThrType, NEW t \in Threads, Busy(t), NEW r \in Rets, Returns(t, r), Top(t).pc # "get"
  PROVE  OnReturn(t)
<1>1. Returned(t, r) /\ idle' = idle + 1
  BY ReturnsPops DEF Returns
<1> QED  BY <1>1 DEF OnReturn

\* A call that only waits for the other.
LEMMA EntersIs ==
  ASSUME ThrType, Shape, NEW t \in Threads, Busy(t), Top(t).pc # "get", Top(t).op # "check",
         NEW g \in Frame, Enters(t, g), GoodFrame(g), g.pc = "get", \A i \in Instances : Free(g, i),
         g.op # "deregister", Top(t).op = "deregister" => g.op = "instances" /\ g.inst = Top(t).inst
  PROVE  OnEnter(t)
<1> DEFINE e == Top(t)
           h == [e EXCEPT !.pc = "wait"]
<1>1. e \in Frame /\ GoodFrame(e)
  BY TopIsGood
<1>2. thr' = [thr EXCEPT ![t].stack = <<g, h>> \o Tail(@)] /\ UNCHANGED idle
  BY DEF Enters
<1>3. e.op # "check"
  OBVIOUS
<1>0. e.op = "deregister" => g.op = "instances" /\ g.inst = e.inst
  OBVIOUS
<1> HIDE DEF e
<1>4. h \in Frame /\ Follows(h, e) /\ h.pc = "wait" /\ h.op = e.op /\ h.inst = e.inst
  BY <1>1, <1>3 DEF Frame, Follows, GoodFrame, Free
<1> HIDE DEF h
<1>5. Entered(t, g, h)
  BY <1>2, <1>4, CallEnters
<1> QED  BY <1>0, <1>2, <1>4, <1>5 DEF OnEnter, e

LEMMA EntersCheck ==
  ASSUME ThrType, Shape, NEW t \in Threads, Busy(t), Top(t).pc # "get", Top(t).op # "check",
         Top(t).op # "deregister", Enters(t, Calls("check", None, FALSE))
  PROVE  OnEnter(t)
<1> DEFINE g == Calls("check", None, FALSE)
<1>1. g \in Frame
  BY CallsFrame
<1>2. GoodFrame(g) /\ g.pc = "get" /\ g.op = "check" /\ \A i \in Instances : Free(g, i)
  BY NacosAssumption DEF Calls, GoodFrame, Free
<1> HIDE DEF g
<1>3. Enters(t, g)
  BY DEF g
<1> QED  BY <1>1, <1>2, <1>3, EntersIs

LEMMA ChecksIs ==
  ASSUME ThrType, Shape, NEW t \in Threads, Checks(t)
  PROVE  OnTurn(t) \/ OnEnter(t) \/ OnReturn(t)
<1> DEFINE e == Top(t)
<1>1. Busy(t) /\ e.op = "check" /\ e.pc = "work"
  BY DEF Checks, In
<1>2. e \in Frame /\ GoodFrame(e)
  BY <1>1, TopIsGood
<1>3. Turn(e) \subseteq Instances
  BY <1>2 DEF Turn, Frame
<1>4. CASE \E r \in Rets : Returns(t, r)
  BY <1>1, <1>4, ReturnsIs
<1>5. ASSUME NEW i \in Turn(e), Becomes(t, [e EXCEPT !.ids = @ \ {i}, !.inst = None])
      PROVE  OnTurn(t)
  <2> DEFINE f == [e EXCEPT !.ids = @ \ {i}, !.inst = None]
  <2>1. f \in Frame /\ Follows(f, e) /\ f.pc \in {"work", "call"}
    <3> HIDE DEF e
    <3> QED  BY <1>1, <1>2, NacosAssumption DEF Frame, Follows, GoodFrame, Free
  <2>2. Becomes(t, f)
    BY <1>5
  <2> HIDE DEF f
  <2> QED  BY <1>1, <2>1, <2>2, BecomesIs
<1>6. ASSUME NEW i \in Turn(e), UNCHANGED idle,
             thr' = [thr EXCEPT ![t].stack =
               <<Calls("register", i, TRUE), [e EXCEPT !.pc = "wait", !.inst = i]>> \o Tail(@)]
      PROVE  OnEnter(t)
  <2> DEFINE g == Calls("register", i, TRUE)
             h == [e EXCEPT !.pc = "wait", !.inst = i]
  <2>1. i \in Instances /\ i # None
    BY <1>3, <1>6, NacosAssumption
  <2>2. g \in Frame /\ GoodFrame(g) /\ g.op = "register" /\ g.inst = i /\ g.pc = "get"
    BY <2>1, CallsFrame DEF Calls, GoodFrame, Ops
  <2>3. \A j \in Instances : Free(e, j) => i # j
    <3> HIDE DEF e
    <3> QED  BY <1>1, <1>6 DEF Turn, Free
  <2>4. h \in Frame /\ Follows(h, e) /\ h.pc = "wait" /\ h.op = "check"
    <3> HIDE DEF e
    <3> QED  BY <1>1, <1>2, <2>1, <2>3 DEF Frame, Follows, GoodFrame, Free
  <2>5. \A j \in Instances : Free(e, j) => Free(g, j)
    <3> HIDE DEF e, g
    <3> QED  BY <2>2, <2>3 DEF Free
  <2>6. Entered(t, g, h)
    <3>1. thr' = [thr EXCEPT ![t].stack = <<g, h>> \o Tail(@)]
      BY <1>6
    <3> HIDE DEF g, h
    <3> QED  BY <1>1, <2>2, <2>4, <3>1, CallEnters
  <2> HIDE DEF g, h
  <2> QED  BY <1>1, <1>6, <2>2, <2>4, <2>5, <2>6 DEF OnEnter
<1>7. \/ \E r \in Rets : Returns(t, r)
      \/ \E i \in Turn(e) : Becomes(t, [e EXCEPT !.ids = @ \ {i}, !.inst = None])
      \/ \E i \in Turn(e) : /\ UNCHANGED idle
                            /\ thr' = [thr EXCEPT ![t].stack =
                                 <<Calls("register", i, TRUE), [e EXCEPT !.pc = "wait", !.inst = i]>>
                                   \o Tail(@)]
  <2>1. "ok" \in Rets /\ "error" \in Rets
    BY DEF Rets
  <2> QED  BY <2>1 DEF Checks
<1> QED  BY <1>4, <1>5, <1>6, <1>7

LEMMA CheckedIs ==
  ASSUME ThrType, Shape, NEW t \in Threads, Checked(t)
  PROVE  OnTurn(t) \/ OnReturn(t)
<1> DEFINE e == Top(t)
           f == [e EXCEPT !.pc = "work", !.ids = @ \ {e.inst}, !.inst = None]
           g == [e EXCEPT !.pc = "work"]
<1>1. Busy(t) /\ e.op = "check" /\ e.pc = "wait"
  BY DEF Checked, In
<1>2. e \in Frame /\ GoodFrame(e)
  BY <1>1, TopIsGood
<1>3. /\ f \in Frame /\ Follows(f, e) /\ f.pc \in {"work", "call"}
      /\ g \in Frame /\ Follows(g, e) /\ g.pc \in {"work", "call"}
  <2> HIDE DEF e
  <2> QED  BY <1>1, <1>2, NacosAssumption DEF Frame, Follows, GoodFrame, Free
<1>4. Becomes(t, f) \/ Becomes(t, g) \/ Returns(t, "error")
  BY DEF Checked
<1> HIDE DEF f, g
<1>5. "error" \in Rets
  BY DEF Rets
<1> QED  BY <1>1, <1>3, <1>4, <1>5, BecomesIs, ReturnsIs

LEMMA LookedUpIs ==
  ASSUME ThrType, Shape, NEW t \in Threads, LookedUp(t)
  PROVE  OnTurn(t) \/ OnReturn(t)
<1> DEFINE e == Top(t)
           f == [e EXCEPT !.pc = "call", !.ids = IF thr[t].ret = "found" THEN {e.inst} ELSE {}]
<1>1. Busy(t) /\ e.op = "deregister" /\ e.pc = "wait"
  BY DEF LookedUp, In
<1>2. e \in Frame /\ GoodFrame(e)
  BY <1>1, TopIsGood
<1>3. f \in Frame /\ Follows(f, e) /\ f.pc \in {"work", "call"}
  <2> HIDE DEF e
  <2> QED  BY <1>1, <1>2 DEF Frame, Follows, GoodFrame, Free
<1>4. Becomes(t, f) \/ Returns(t, "error")
  BY DEF LookedUp
<1> HIDE DEF f
<1>5. "error" \in Rets
  BY DEF Rets
<1> QED  BY <1>1, <1>3, <1>4, <1>5, BecomesIs, ReturnsIs

LEMMA LooksUpIs ==
  ASSUME ThrType, Shape, NEW t \in Threads, LooksUp(t)
  PROVE  OnEnter(t)
<1> DEFINE e == Top(t)
           g == Calls("instances", e.inst, FALSE)
<1>1. Busy(t) /\ e.op = "deregister" /\ e.pc = "work"
  BY DEF LooksUp, In
<1>2. e.inst \in Instances
  BY <1>1, TopIsGood DEF GoodFrame
<1>3. /\ g \in Frame /\ GoodFrame(g) /\ g.pc = "get" /\ g.op = "instances" /\ g.inst = e.inst
      /\ \A i \in Instances : Free(g, i)
  <2> HIDE DEF e
  <2> QED  BY <1>2, CallsFrame DEF Calls, GoodFrame, Free, Ops
<1>4. Enters(t, g)
  BY DEF LooksUp
<1> HIDE DEF g
<1> QED  BY <1>1, <1>3, <1>4, EntersIs

LEMMA StepIs ==
  ASSUME ThrType, Shape, registered \subseteq Instances, NEW t \in Threads, Step(t)
  PROVE  Stepped(t)
<1>0. /\ "ok" \in Rets /\ "error" \in Rets
      /\ \A b : (IF b THEN "found" ELSE "missing") \in Rets
  BY DEF Rets
<1>1. CASE GetsClient(t)
  BY <1>1, GetsClientIs DEF Stepped
<1>2. CASE Registers(t)
  BY <1>0, <1>2, ReturnsIs, EntersCheck DEF Registers, In, Stepped
<1>3. CASE RegisterFails(t)
  BY <1>0, <1>3, ReturnsIs DEF RegisterFails, In, Stepped
<1>4. CASE Checks(t)
  BY <1>4, ChecksIs DEF Checks, In, Stepped
<1>5. CASE Checked(t)
  BY <1>5, CheckedIs DEF Checked, In, Stepped
<1>6. CASE Lists(t)
  BY <1>0, <1>6, ReturnsIs, EntersCheck DEF Lists, In, Stepped
<1>7. CASE ListFails(t)
  BY <1>0, <1>7, ReturnsIs DEF ListFails, In, Stepped
<1>8. CASE LooksUp(t)
  BY <1>8, LooksUpIs DEF LooksUp, In, Stepped
<1>9. CASE LookedUp(t)
  BY <1>9, LookedUpIs DEF LookedUp, In, Stepped
<1>10. CASE Deregisters(t)
  BY <1>0, <1>10, ReturnsIs DEF Deregisters, In, Stepped
<1>11. CASE Recovers(t)
  BY <1>0, <1>11, ReturnsIs, EntersCheck DEF Recovers, In, Stepped
<1>12. CASE Recovered(t)
  BY <1>0, <1>12, ReturnsIs DEF Recovered, In, Stepped
<1> QED  BY <1>1, <1>2, <1>3, <1>4, <1>5, <1>6, <1>7, <1>8, <1>9, <1>10, <1>11, <1>12 DEF Step

\* A call begins.
Started(t, f) ==
  /\ ThrType' /\ \A u \in Threads : u # t => thr'[u] = thr[u]
  /\ ~Busy(t) /\ thr'[t].stack = <<f>> /\ thr'[t].calls = thr[t].calls + 1

LEMMA StartsIs ==
  ASSUME ThrType, NEW t \in Threads, NEW op \in Ops, NEW i \in Instances, Starts(t, op, i)
  PROVE  Calls(op, i, FALSE) \in Frame /\ Started(t, Calls(op, i, FALSE)) /\ UNCHANGED idle
<1> DEFINE f == Calls(op, i, FALSE)
           r == [stack |-> <<f>>, ret |-> "none", calls |-> thr[t].calls + 1]
<1>1. f \in Frame
  BY CallsFrame
<1> HIDE DEF f
<1>2. thr[t].calls \in 0..MaxCalls /\ thr[t].calls < MaxCalls
  BY ThreadHas DEF Starts
<1>3. r \in Thread
  <2>1. thr[t].calls + 1 \in 0..MaxCalls
    BY <1>2, NacosAssumption
  <2> QED  BY <1>1, <2>1 DEF Thread, Rets
<1>4. thr' = [thr EXCEPT ![t] = r] /\ ~Busy(t) /\ UNCHANGED idle
  BY DEF Starts, f
<1> QED  BY <1>1, <1>3, <1>4 DEF Started, ThrType, f

LEMMA ShapeStarts ==
  ASSUME ThrType, Shape, NEW t \in Threads, NEW op \in Ops, NEW i \in Instances, Starts(t, op, i)
  PROVE  Shape'
<1> DEFINE f == Calls(op, i, FALSE)
<1>1. Started(t, f)
  BY StartsIs
<1>2. GoodFrame(f)
  BY DEF Calls, GoodFrame
<1> HIDE DEF f
<1>3. GoodStack(<<f>>)
  BY <1>2 DEF GoodStack
<1>4. thr[t].calls + 1 # 0
  BY ThreadHas
<1> QED  BY <1>1, <1>3, <1>4 DEF Shape, Started, Busy

LEMMA ShapeStep ==
  ASSUME ThrType, Shape, NEW t \in Threads, Stepped(t)
  PROVE  Shape'
<1> DEFINE s == thr[t].stack
           z == thr'[t].stack
           e == Top(t)
<1>1. Busy(t) /\ e = s[1] /\ Len(s) \in Nat /\ Len(s) > 0 /\ GoodStack(s) /\ thr[t].calls # 0
  BY ThreadHas DEF Stepped, Shape
<1> SUFFICES Keeps(t) /\ GoodStack(z)
  BY <1>1 DEF Shape, Keeps, Busy
<1> HIDE DEF s, z, e
<1>2. ASSUME NEW f, Turned(t, f), Follows(f, e)
      PROVE  Keeps(t) /\ GoodStack(z)
  <2>1. /\ Keeps(t) /\ Len(z) = Len(s) /\ z[1] = f
        /\ \A n \in 1..Len(s) : n > 1 => z[n] = s[n]
    BY <1>2 DEF Turned, s, z
  <2>2. f.op = e.op /\ GoodFrame(f) /\ (f.op # "check" => f.inst = e.inst)
    BY <1>2 DEF Follows
  <2>3. \A n \in 1..Len(s) : n > 1 => n - 1 = 1 \/ (n - 1 > 1 /\ n - 1 \in 1..Len(s))
    BY <1>1
  <2> QED  BY <1>1, <2>1, <2>2, <2>3 DEF GoodStack
<1>3. ASSUME NEW g, NEW h, Entered(t, g, h), Follows(h, e), GoodFrame(g), h.pc = "wait",
             g.op # "deregister", h.op = "deregister" => g.op = "instances" /\ g.inst = h.inst
      PROVE  Keeps(t) /\ GoodStack(z)
  <2>1. /\ Keeps(t) /\ Len(z) = Len(s) + 1 /\ z[1] = g /\ z[2] = h
        /\ \A n \in 1..Len(s) : n > 1 => z[n + 1] = s[n]
    BY <1>3 DEF Entered, s, z
  <2>2. h.op = e.op /\ GoodFrame(h) /\ (h.op # "check" => h.inst = e.inst)
    BY <1>3 DEF Follows
  <2>3. SUFFICES ASSUME NEW n \in 1..Len(z)
                 PROVE  /\ GoodFrame(z[n])
                        /\ z[n].op = "deregister" => n = Len(z)
                        /\ n > 1 => z[n].pc = "wait"
                        /\ n > 1 /\ z[n].op = "deregister"
                             => z[n - 1].op = "instances" /\ z[n - 1].inst = z[n].inst
    BY <2>1 DEF GoodStack
  <2>4. CASE n = 1
    BY <1>3, <2>1, <2>4
  <2>5. CASE n = 2
    BY <1>1, <1>3, <2>1, <2>2, <2>5 DEF GoodStack
  <2>6. CASE n > 2
    <3>1. /\ n - 1 \in 1..Len(s) /\ n - 1 > 1 /\ (n - 1) + 1 = n
          /\ n - 2 \in 1..Len(s) /\ (n - 2) + 1 = n - 1
      BY <1>1, <2>1, <2>6
    <3>2. z[n] = s[n - 1]
      BY <2>1, <3>1
    <3>3. /\ GoodFrame(s[n - 1]) /\ s[n - 1].pc = "wait"
          /\ s[n - 1].op = "deregister" => n - 1 = Len(s)
          /\ s[n - 1].op = "deregister"
               => s[n - 2].op = "instances" /\ s[n - 2].inst = s[n - 1].inst
      BY <1>1, <3>1 DEF GoodStack
    <3>4. n - 2 > 1 => z[n - 1] = s[n - 2]
      BY <2>1, <3>1
    <3>5. n - 2 = 1 => z[n - 1] = h /\ s[n - 2] = e
      BY <1>1, <2>1
    <3> QED  BY <1>1, <2>1, <2>2, <2>6, <3>1, <3>2, <3>3, <3>4, <3>5
  <2> QED  BY <1>1, <2>1, <2>4, <2>5, <2>6
<1>4. ASSUME NEW r, Returned(t, r)  PROVE Keeps(t) /\ GoodStack(z)
  <2>1. /\ Keeps(t) /\ Len(z) = Len(s) - 1
        /\ \A n \in 1..Len(s) : n > 1 => z[n - 1] = s[n]
    BY <1>4 DEF Returned, s, z
  <2>2. ASSUME NEW n \in 1..Len(z)
        PROVE  n + 1 \in 1..Len(s) /\ z[n] = s[n + 1] /\ (n > 1 => z[n - 1] = s[n])
    <3>1. n + 1 \in 1..Len(s) /\ n + 1 > 1 /\ (n + 1) - 1 = n /\ n \in 1..Len(s)
      BY <1>1, <2>1
    <3> QED  BY <2>1, <3>1
  <2>3. \A n \in 1..Len(z) : (n + 1) - 1 = n /\ n + 1 > 1 /\ (n + 1 = Len(s) => n = Len(z))
    BY <1>1, <2>1
  <2> QED  BY <1>1, <2>1, <2>2, <2>3 DEF GoodStack
<1> QED  BY <1>2, <1>3, <1>4 DEF Stepped, OnGet, OnTurn, OnEnter, OnReturn, e

(***************************************************************************)
(* The pool.  A call that is under way holds one client for each level of  *)
(* its recursion that is past taking it, and those are all that the pool   *)
(* is short of.                                                            *)
(***************************************************************************)
Holds(t) ==
  IF Busy(t) /\ Top(t).pc = "get" THEN Len(thr[t].stack) - 1 ELSE Len(thr[t].stack)

holds == [t \in Threads |-> Holds(t)]

Held(h) == {x \in Threads \X Nat : x[2] \in 1..h[x[1]]}

Clients ==
  /\ idle \in Nat
  /\ IsFiniteSet(Held(holds)) /\ idle + Cardinality(Held(holds)) = PoolSize

LEMMA HoldsNat == ThrType => holds \in [Threads -> Nat]
<1> SUFFICES ASSUME ThrType, NEW t \in Threads PROVE Holds(t) \in Nat
  BY DEF holds
<1>1. Len(thr[t].stack) \in Nat /\ (Busy(t) => Len(thr[t].stack) > 0)
  BY ThreadHas
<1> QED  BY <1>1 DEF Holds

\* k is h with one client more for t.
OneMore(h, k, t) ==
  h \in [Threads -> Nat] /\ k \in [Threads -> Nat] /\ k = [h EXCEPT ![t] = @ + 1]

LEMMA HeldMore ==
  ASSUME NEW h, NEW k, NEW t \in Threads, OneMore(h, k, t)
  PROVE  /\ <<t, h[t] + 1>> \notin Held(h) /\ <<t, h[t] + 1>> \in Held(k)
         /\ Held(k) = Held(h) \cup {<<t, h[t] + 1>>} /\ Held(h) = Held(k) \ {<<t, h[t] + 1>>}
<1>1. /\ h \in [Threads -> Nat] /\ k \in [Threads -> Nat]
      /\ k[t] = h[t] + 1 /\ \A u \in Threads : u # t => k[u] = h[u]
  BY DEF OneMore
<1>2. <<t, h[t] + 1>> \notin Held(h) /\ <<t, h[t] + 1>> \in Held(k)
  BY <1>1 DEF Held
<1>3. ASSUME NEW u \in Threads, NEW n \in Nat
      PROVE  <<u, n>> \in Held(k) <=> <<u, n>> \in Held(h) \/ (u = t /\ n = h[t] + 1)
  <2>1. n \in 1..k[u] <=> n \in 1..h[u] \/ (u = t /\ n = h[t] + 1)
    BY <1>1
  <2> QED  BY <2>1 DEF Held
<1>4. ASSUME NEW x \in Threads \X Nat
      PROVE  x \in Held(k) <=> x \in Held(h) \/ x = <<t, h[t] + 1>>
  <2>1. PICK u \in Threads, n \in Nat : x = <<u, n>>
    OBVIOUS
  <2>2. x = <<t, h[t] + 1>> <=> u = t /\ n = h[t] + 1
    BY <2>1
  <2> QED  BY <1>3, <2>1, <2>2
<1>5. Held(k) \subseteq Threads \X Nat /\ Held(h) \subseteq Threads \X Nat
        /\ <<t, h[t] + 1>> \in Threads \X Nat
  BY <1>1 DEF Held
<1>6. Held(k) = Held(h) \cup {<<t, h[t] + 1>>}
  BY <1>4, <1>5
<1> QED  BY <1>2, <1>6

LEMMA CountMore ==
  ASSUME NEW h, NEW k, NEW t \in Threads, OneMore(h, k, t)
  PROVE  /\ IsFiniteSet(Held(h)) <=> IsFiniteSet(Held(k))
         /\ IsFiniteSet(Held(h)) => /\ Cardinality(Held(h)) \in Nat
                                    /\ Cardinality(Held(k)) = Cardinality(Held(h)) + 1
<1> DEFINE A == Held(h)
           B == Held(k)
           x == <<t, h[t] + 1>>
<1>1. x \notin A /\ x \in B /\ B = A \cup {x} /\ A = B \ {x}
  BY HeldMore
<1> HIDE DEF A, B, x
<1>2. IsFiniteSet(A) => IsFiniteSet(B) /\ Cardinality(B) = Cardinality(A) + 1
  BY <1>1, FS_AddElement
<1>3. IsFiniteSet(B) => IsFiniteSet(A)
  BY <1>1, FS_RemoveElement
<1>4. IsFiniteSet(A) => Cardinality(A) \in Nat
  BY FS_CardinalityType
<1> QED  BY <1>2, <1>3, <1>4 DEF A, B

LEMMA ClientTaken ==
  ASSUME Clients, NEW t \in Threads, OneMore(holds, holds', t), idle > 0, idle' = idle - 1
  PROVE  Clients'
<1> DEFINE h == holds
           k == holds'
<1>1. OneMore(h, k, t)
  OBVIOUS
<1>2. IsFiniteSet(Held(h)) /\ idle + Cardinality(Held(h)) = PoolSize /\ idle \in Nat
  BY DEF Clients
<1>3. Clients' <=> idle' \in Nat /\ IsFiniteSet(Held(k)) /\ idle' + Cardinality(Held(k)) = PoolSize
  BY DEF Clients, Held
<1> HIDE DEF h, k
<1>4. IsFiniteSet(Held(k)) /\ Cardinality(Held(h)) \in Nat
        /\ Cardinality(Held(k)) = Cardinality(Held(h)) + 1
  BY <1>1, <1>2, CountMore
<1> QED  BY <1>2, <1>3, <1>4, NacosAssumption

LEMMA ClientGiven ==
  ASSUME Clients, NEW t \in Threads, OneMore(holds', holds, t), idle' = idle + 1
  PROVE  Clients'
<1> DEFINE h == holds
           k == holds'
<1>1. OneMore(k, h, t)
  OBVIOUS
<1>2. IsFiniteSet(Held(h)) /\ idle + Cardinality(Held(h)) = PoolSize /\ idle \in Nat
  BY DEF Clients
<1>3. Clients' <=> idle' \in Nat /\ IsFiniteSet(Held(k)) /\ idle' + Cardinality(Held(k)) = PoolSize
  BY DEF Clients, Held
<1> HIDE DEF h, k
<1>4. IsFiniteSet(Held(k)) /\ Cardinality(Held(k)) \in Nat
        /\ Cardinality(Held(h)) = Cardinality(Held(k)) + 1
  BY <1>1, <1>2, CountMore
<1> QED  BY <1>2, <1>3, <1>4, NacosAssumption

\* Holds and the shape of the stack.
LEMMA HoldsIs ==
  ASSUME ThrType, Shape, NEW t \in Threads
  PROVE  /\ Holds(t) \in Nat
         /\ Busy(t) => Holds(t) = IF Top(t).pc = "get" THEN Len(thr[t].stack) - 1 ELSE Len(thr[t].stack)
         /\ Len(thr[t].stack) = 0 => Holds(t) = 0
<1>1. Len(thr[t].stack) \in Nat /\ (Busy(t) <=> Len(thr[t].stack) > 0)
  BY ThreadHas
<1> QED  BY <1>1 DEF Holds

\* What each kind of step does to the clients that t holds.
LEMMA HoldsNext ==
  ASSUME ThrType', NEW t \in Threads
  PROVE  /\ Len(thr'[t].stack) = 0 => Holds(t)' = 0
         /\ Len(thr'[t].stack) > 0 =>
              Holds(t)' = IF thr'[t].stack[1].pc = "get" THEN Len(thr'[t].stack) - 1
                          ELSE Len(thr'[t].stack)
<1> DEFINE z == thr'[t].stack
<1>1. z \in Seq(Frame)
  BY DEF ThrType, Thread
<1>2. Holds(t)' = IF z # <<>> /\ Head(z).pc = "get" THEN Len(z) - 1 ELSE Len(z)
  BY DEF Holds, Busy, Top
<1> HIDE DEF z
<1>3. (z # <<>> <=> Len(z) > 0) /\ Len(z) \in Nat /\ (z # <<>> => Head(z) = z[1])
  BY <1>1, Popped
<1> QED  BY <1>2, <1>3 DEF z

LEMMA OthersHold ==
  ASSUME NEW t \in Threads, \A u \in Threads : u # t => thr'[u] = thr[u]
  PROVE  /\ holds' = [holds EXCEPT ![t] = Holds(t)'] /\ holds[t] = Holds(t)
         /\ \A u \in Threads : u # t => Holds(u)' = Holds(u)
<1>1. \A u \in Threads : u # t => Holds(u)' = Holds(u)
  BY DEF Holds, Busy, Top
<1> HIDE DEF Holds
<1>2. holds' = [u \in Threads |-> Holds(u)'] /\ holds = [u \in Threads |-> Holds(u)]
  BY DEF holds
<1>3. holds' = [holds EXCEPT ![t] = Holds(t)']
  BY <1>1, <1>2
<1> QED  BY <1>1, <1>2, <1>3

LEMMA ClientsFrame ==
  ASSUME Clients, NEW t \in Threads, UNCHANGED idle,
         \A u \in Threads : u # t => thr'[u] = thr[u], Holds(t)' = Holds(t)
  PROVE  Clients'
<1>1. holds' = holds
  <2>1. holds' = [holds EXCEPT ![t] = Holds(t)'] /\ holds[t] = Holds(t)
    BY OthersHold
  <2> QED  BY <2>1 DEF holds
<1> QED  BY <1>1 DEF Clients, Held

LEMMA ClientsStarts ==
  ASSUME ThrType, Clients, NEW t \in Threads, NEW op \in Ops, NEW i \in Instances, Starts(t, op, i)
  PROVE  Clients'
<1> DEFINE f == Calls(op, i, FALSE)
<1>1. Started(t, f) /\ UNCHANGED idle
  BY StartsIs
<1>2. f.pc = "get"
  BY DEF Calls
<1> HIDE DEF f
<1>3. ThrType' /\ thr'[t].stack = <<f>> /\ \A u \in Threads : u # t => thr'[u] = thr[u]
  BY <1>1 DEF Started
<1>4. Holds(t)' = 0
  <2>1. Len(thr'[t].stack) = 1 /\ thr'[t].stack[1] = f
    BY <1>3
  <2>2. Len(thr'[t].stack) > 0 =>
          Holds(t)' = IF thr'[t].stack[1].pc = "get" THEN Len(thr'[t].stack) - 1
                      ELSE Len(thr'[t].stack)
    BY <1>3, HoldsNext
  <2> HIDE DEF Holds
  <2> QED  BY <1>2, <2>1, <2>2
<1>5. Holds(t) = 0
  <2>1. ~Busy(t) /\ thr[t].stack = <<>>
    BY <1>1 DEF Started, Busy
  <2> QED  BY <2>1 DEF Holds
<1> QED  BY <1>1, <1>3, <1>4, <1>5, ClientsFrame

LEMMA ClientsStep ==
  ASSUME ThrType, Shape, Clients, NEW t \in Threads, Stepped(t)
  PROVE  Clients'
<1> DEFINE s == thr[t].stack
           z == thr'[t].stack
           e == Top(t)
           others == \A u \in Threads : u # t => thr'[u] = thr[u]
<1>1. Busy(t) /\ e = s[1] /\ Len(s) \in Nat /\ Len(s) > 0 /\ GoodStack(s)
  BY ThreadHas DEF Stepped, Shape
<1>2. Holds(t) \in Nat /\ Holds(t) = IF e.pc = "get" THEN Len(s) - 1 ELSE Len(s)
  BY <1>1, HoldsIs
<1>3. ThrType' => /\ Len(z) = 0 => Holds(t)' = 0
                  /\ Len(z) > 0 => Holds(t)' = IF z[1].pc = "get" THEN Len(z) - 1 ELSE Len(z)
  BY HoldsNext
<1>4. others => holds' = [holds EXCEPT ![t] = Holds(t)'] /\ holds[t] = Holds(t)
  BY OthersHold
<1>5. holds \in [Threads -> Nat]
  BY HoldsNat
<1>6. others /\ Holds(t)' = Holds(t) + 1 => OneMore(holds, holds', t)
  <2> DEFINE n == Holds(t)
             m == Holds(t)'
  <2> HIDE DEF n, m, others
  <2>1. others /\ m = n + 1 => holds' = [holds EXCEPT ![t] = m] /\ holds[t] = n /\ n \in Nat
    BY <1>2, <1>4 DEF n, m
  <2>2. others /\ m = n + 1 => OneMore(holds, holds', t)
    BY <1>5, <2>1 DEF OneMore
  <2> QED  BY <2>2 DEF n, m
<1>7. others /\ Holds(t)' \in Nat /\ Holds(t) = Holds(t)' + 1 => OneMore(holds', holds, t)
  <2> DEFINE n == Holds(t)
             m == Holds(t)'
  <2> HIDE DEF n, m, others
  <2>1. others => holds' = [holds EXCEPT ![t] = m] /\ holds[t] = n
    BY <1>4 DEF n, m
  <2>2. others /\ m \in Nat /\ n = m + 1 => OneMore(holds', holds, t)
    BY <1>5, <2>1 DEF OneMore
  <2> QED  BY <2>2 DEF n, m
<1> HIDE DEF s, z, e
<1>8. CASE OnGet(t)
  <2>1. PICK f \in Frame : Turned(t, f) /\ e.pc = "get" /\ f.pc # "get" /\ idle > 0 /\ idle' = idle - 1
    BY <1>8 DEF OnGet, e
  <2>2. ThrType' /\ others /\ Len(z) = Len(s) /\ z[1] = f
    BY <2>1 DEF Turned, Keeps, s, z
  <2>3. Holds(t)' = Holds(t) + 1
    BY <1>1, <1>2, <1>3, <2>1, <2>2
  <2> QED  BY <1>6, <2>1, <2>2, <2>3, ClientTaken
<1>9. CASE OnTurn(t)
  <2>1. PICK f \in Frame : Turned(t, f) /\ e.pc # "get" /\ f.pc # "get" /\ UNCHANGED idle
    BY <1>9 DEF OnTurn, e
  <2>2. ThrType' /\ others /\ Len(z) = Len(s) /\ z[1] = f
    BY <2>1 DEF Turned, Keeps, s, z
  <2>3. Holds(t)' = Holds(t)
    BY <1>1, <1>2, <1>3, <2>1, <2>2
  <2> QED  BY <2>1, <2>2, <2>3, ClientsFrame
<1>10. CASE OnEnter(t)
  <2>1. PICK g \in Frame, h \in Frame :
          Entered(t, g, h) /\ e.pc # "get" /\ g.pc = "get" /\ UNCHANGED idle
    BY <1>10 DEF OnEnter, e
  <2>2. ThrType' /\ others /\ Len(z) = Len(s) + 1 /\ z[1] = g
    BY <2>1 DEF Entered, Keeps, s, z
  <2>3. Holds(t)' = Holds(t)
    BY <1>1, <1>2, <1>3, <2>1, <2>2
  <2> QED  BY <2>1, <2>2, <2>3, ClientsFrame
<1>11. CASE OnReturn(t)
  <2>1. PICK r \in Rets : Returned(t, r) /\ e.pc # "get" /\ idle' = idle + 1
    BY <1>11 DEF OnReturn, e
  <2>2. /\ ThrType' /\ others /\ Len(z) = Len(s) - 1
        /\ \A n \in 1..Len(s) : n > 1 => z[n - 1] = s[n]
    BY <2>1 DEF Returned, Keeps, s, z
  <2>3. Len(s) > 1 => z[1] = s[2] /\ s[2].pc = "wait"
    <3>1. Len(s) > 1 => 2 \in 1..Len(s) /\ 2 > 1 /\ 2 - 1 = 1
      BY <1>1
    <3> QED  BY <1>1, <2>2, <3>1 DEF GoodStack
  <2>4. Holds(t) = Holds(t)' + 1 /\ Holds(t)' \in Nat
    BY <1>1, <1>2, <1>3, <2>1, <2>2, <2>3
  <2> QED  BY <1>7, <2>1, <2>2, <2>4, ClientGiven
<1> QED  BY <1>8, <1>9, <1>10, <1>11 DEF Stepped

(***************************************************************************)
(* Types.                                                                  *)
(***************************************************************************)
StateType ==
  /\ registered \subseteq Instances /\ hosts \subseteq Instances
  /\ gone \in [Instances -> {"no", "said", "done"}] /\ faults \in 0..MaxFaults

CallsInv == StateType /\ ThrType /\ Shape /\ Clients

LEMMA NothingHeld ==
  ASSUME \A t \in Threads : thr[t].stack = <<>>
  PROVE  /\ \A t \in Threads : Len(thr[t].stack) = 0 /\ ~Busy(t) /\ Holds(t) = 0
         /\ Held(holds) = {}
<1>1. \A s : s = <<>> => Len(s) = 0
  OBVIOUS
<1>2. \A t \in Threads : Len(thr[t].stack) = 0 /\ ~Busy(t)
  BY <1>1 DEF Busy
<1>3. \A t \in Threads : Holds(t) = 0
  BY <1>2 DEF Holds
<1>4. ASSUME NEW x \in Threads \X Nat  PROVE x[2] \notin 1..holds[x[1]]
  <2>1. x[1] \in Threads /\ holds[x[1]] = 0
    BY <1>3 DEF holds
  <2> QED  BY <2>1
<1> QED  BY <1>2, <1>3, <1>4 DEF Held

LEMMA CallsInit == Init => CallsInv
<1> SUFFICES ASSUME Init PROVE CallsInv
  OBVIOUS
<1>1. StateType
  BY NacosAssumption DEF Init, StateType
<1>2. [stack |-> <<>>, ret |-> "none", calls |-> 0] \in Thread
  <2>1. <<>> \in Seq(Frame) /\ 0 \in 0..MaxCalls
    BY NacosAssumption
  <2> QED  BY <2>1 DEF Thread, Rets
<1>3. ThrType
  BY <1>2 DEF Init, ThrType
<1>4. \A t \in Threads : thr[t].stack = <<>>
  BY DEF Init
<1>5. Shape
  <2>1. \A s : Len(s) = 0 => GoodStack(s)
    BY DEF GoodStack
  <2> QED  BY <1>4, <2>1, NothingHeld DEF Shape
<1>6. Clients
  BY <1>4, NothingHeld, FS_EmptySet, NacosAssumption DEF Clients, Init
<1> QED  BY <1>1, <1>3, <1>5, <1>6 DEF CallsInv

LEMMA FaultCounts == StateType /\ (Fault \/ NoFault) => faults' \in 0..MaxFaults
BY NacosAssumption DEF StateType, Fault, NoFault

LEMMA StateNext ==
  ASSUME CallsInv, NEW t \in Threads, Step(t)
  PROVE  StateType'
<1> USE DEF CallsInv
<1>1. Busy(t) => Top(t) \in Frame /\ GoodFrame(Top(t))
  BY TopIsGood
<1>2. CASE GetsClient(t)
  <2>1. Top(t).op = "register" => Top(t).inst \in Instances
    BY <1>1, <1>2 DEF GetsClient, GoodFrame
  <2> QED  BY <1>2, <2>1 DEF GetsClient, StateType
<1>3. CASE Registers(t)
  <2>1. Top(t).inst \in Instances
    BY <1>1, <1>3 DEF Registers, In, GoodFrame
  <2>2. faults' \in 0..MaxFaults
    BY <1>3, FaultCounts DEF Registers
  <2> QED  BY <1>3, <2>1, <2>2 DEF Registers, StateType
<1>4. CASE Checks(t)
  <2>1. faults' \in 0..MaxFaults
    BY <1>4, FaultCounts DEF Checks
  <2> QED  BY <1>4, <2>1 DEF Checks, StateType, state
<1>5. CASE Lists(t)
  <2>1. faults' \in 0..MaxFaults
    BY <1>5, FaultCounts DEF Lists
  <2> QED  BY <1>5, <2>1 DEF Lists, StateType, state
<1>6. CASE Deregisters(t)
  <2>1. faults' \in 0..MaxFaults
    BY <1>6, FaultCounts DEF Deregisters, NoFault
  <2>2. Goes(t, Top(t).inst) => gone' \in [Instances -> {"no", "said", "done"}]
    BY DEF Goes, StateType
  <2> QED  BY <1>6, <2>1, <2>2 DEF Deregisters, StateType, state
<1>7. CASE Recovers(t)
  <2>1. faults' \in 0..MaxFaults
    BY <1>7, FaultCounts DEF Recovers
  <2> QED  BY <1>7, <2>1 DEF Recovers, StateType, state
<1>8. CASE RegisterFails(t) \/ Checked(t) \/ ListFails(t) \/ LooksUp(t) \/ LookedUp(t) \/ Recovered(t)
  BY <1>8 DEF RegisterFails, Checked, ListFails, LooksUp, LookedUp, Recovered, StateType, state
<1> QED  BY <1>2, <1>3, <1>4, <1>5, <1>6, <1>7, <1>8 DEF Step

LEMMA SteppedTypes ==
  ASSUME NEW t, Stepped(t)
  PROVE  Keeps(t)
BY DEF Stepped, OnGet, OnTurn, OnEnter, OnReturn, Turned, Entered, Returned

LEMMA CallsNext == CallsInv /\ [Next]_vars => CallsInv'
<1> SUFFICES ASSUME CallsInv, [Next]_vars PROVE CallsInv'
  OBVIOUS
<1>1. ASSUME NEW t \in Threads, NEW op \in Ops, NEW i \in Instances, Starts(t, op, i)
      PROVE  CallsInv'
  <2>1. ThrType' /\ Shape' /\ Clients'
    BY <1>1, StartsIs, ShapeStarts, ClientsStarts DEF Started, CallsInv
  <2>2. StateType'
    BY <1>1 DEF Starts, StateType, CallsInv, state
  <2> QED  BY <2>1, <2>2 DEF CallsInv
<1>2. ASSUME NEW t \in Threads, Step(t)
      PROVE  CallsInv'
  <2>1. Stepped(t)
    BY <1>2, StepIs DEF CallsInv, StateType
  <2>2. ThrType' /\ Shape' /\ Clients'
    BY <2>1, SteppedTypes, ShapeStep, ClientsStep DEF Keeps, CallsInv
  <2>3. StateType'
    BY <1>2, StateNext
  <2> QED  BY <2>2, <2>3 DEF CallsInv
<1>3. ASSUME UNCHANGED <<thr, idle>>, StateType'
      PROVE  CallsInv'
  BY <1>3 DEF CallsInv, ThrType, Shape, Busy, Clients, holds, Holds, Top, Held
<1>4. ASSUME NEW i \in Instances, Loses(i)
      PROVE  CallsInv'
  <2>1. StateType'
    BY <1>4, FaultCounts DEF Loses, StateType, CallsInv
  <2> QED  BY <1>3, <1>4, <2>1 DEF Loses
<1>5. CASE UNCHANGED vars
  BY <1>3, <1>5 DEF vars, state, StateType, CallsInv
<1> QED  BY <1>1, <1>2, <1>4, <1>5 DEF Next

LEMMA CallsAlways == Spec => []CallsInv
BY CallsInit, CallsNext, PTL DEF Spec

\* Every variable has its type; the pool never has more clients than it was
\* made with, so that the Put of a client never blocks.
THEOREM NacosTypeCorrect == Spec => []TypeOK
<1>1. CallsInv => TypeOK
  <2> SUFFICES ASSUME CallsInv PROVE TypeOK
    OBVIOUS
  <2>1. Cardinality(Held(holds)) \in Nat /\ idle + Cardinality(Held(holds)) = PoolSize /\ idle \in Nat
    BY FS_CardinalityType DEF CallsInv, Clients
  <2>2. idle \in 0..PoolSize
    <3> DEFINE c == Cardinality(Held(holds))
    <3> HIDE DEF c
    <3>1. c \in Nat /\ idle + c = PoolSize /\ idle \in Nat
      BY <2>1 DEF c
    <3> QED  BY <3>1, NacosAssumption
  <2> QED  BY <2>2 DEF CallsInv, StateType, ThrType, Thread, Rets, TypeOK
<1> QED  BY <1>1, CallsAlways, PTL

\* Whatever has failed, however deep the recursion went and however the
\* calls of different goroutines fell together: when no call is under way
\* every client is in the pool.
THEOREM NacosClientsComeBack == Spec => []ClientsComeBack
<1>1. CallsInv => ClientsComeBack
  <2> SUFFICES ASSUME CallsInv, \A t \in Threads : ~Busy(t) PROVE idle = PoolSize
    BY DEF ClientsComeBack
  <2>1. Held(holds) = {}
    BY NothingHeld DEF Busy
  <2> QED  BY <2>1, FS_EmptySet, NacosAssumption DEF CallsInv, Clients
<1> QED  BY <1>1, CallsAlways, PTL

(***************************************************************************)
(* What Deregister has removed.  It stays away because nothing that is     *)
(* under way knows of it any more: it is not recorded, no call registers   *)
(* it, and no check has a copy of the records with it.                     *)
(***************************************************************************)
FreeStack(s, i) == \A n \in 1..Len(s) : Free(s[n], i)

GoneInv ==
  \A i \in Instances : gone[i] = "done" =>
    /\ i \notin hosts /\ i \notin registered
    /\ \A t \in Threads : FreeStack(thr[t].stack, i)

LEMMA StepStaysFree ==
  ASSUME ThrType, Shape, NEW t \in Threads, Stepped(t),
         NEW i \in Instances, i \notin registered, FreeStack(thr[t].stack, i)
  PROVE  Free(Top(t), i) /\ FreeStack(thr'[t].stack, i)
<1> DEFINE s == thr[t].stack
           z == thr'[t].stack
           e == Top(t)
<1>1. e = s[1] /\ Len(s) \in Nat /\ Len(s) > 0 /\ \A n \in 1..Len(s) : Free(s[n], i)
  BY ThreadHas DEF Stepped, FreeStack
<1>2. Free(e, i)
  BY <1>1
<1> HIDE DEF s, z, e
<1>3. ASSUME NEW f, Turned(t, f), Follows(f, e)  PROVE FreeStack(z, i)
  <2>1. Len(z) = Len(s) /\ z[1] = f /\ \A n \in 1..Len(s) : n > 1 => z[n] = s[n]
    BY <1>3 DEF Turned, s, z
  <2>2. Free(f, i)
    BY <1>2, <1>3 DEF Follows
  <2> QED  BY <1>1, <2>1, <2>2 DEF FreeStack
<1>4. ASSUME NEW g, NEW h, Entered(t, g, h), Follows(h, e), Free(e, i) => Free(g, i)
      PROVE  FreeStack(z, i)
  <2>1. /\ Len(z) = Len(s) + 1 /\ z[1] = g /\ z[2] = h
        /\ \A n \in 1..Len(s) : n > 1 => z[n + 1] = s[n]
    BY <1>4 DEF Entered, s, z
  <2>2. Free(g, i) /\ Free(h, i)
    BY <1>2, <1>4 DEF Follows
  <2>3. ASSUME NEW n \in 1..Len(z), n > 2  PROVE Free(z[n], i)
    <3>1. n - 1 \in 1..Len(s) /\ n - 1 > 1 /\ (n - 1) + 1 = n
      BY <1>1, <2>1, <2>3
    <3> QED  BY <1>1, <2>1, <3>1
  <2>4. \A n \in 1..Len(z) : n = 1 \/ n = 2 \/ n > 2
    BY <1>1, <2>1
  <2> QED  BY <2>1, <2>2, <2>3, <2>4 DEF FreeStack
<1>5. ASSUME NEW r, Returned(t, r)  PROVE FreeStack(z, i)
  <2>1. Len(z) = Len(s) - 1 /\ \A n \in 1..Len(s) : n > 1 => z[n - 1] = s[n]
    BY <1>5 DEF Returned, s, z
  <2>2. ASSUME NEW n \in 1..Len(z)  PROVE Free(z[n], i)
    <3>1. n + 1 \in 1..Len(s) /\ n + 1 > 1 /\ (n + 1) - 1 = n
      BY <1>1, <2>1
    <3> QED  BY <1>1, <2>1, <3>1
  <2> QED  BY <2>2 DEF FreeStack
<1>6. FreeStack(z, i)
  BY <1>3, <1>4, <1>5 DEF Stepped, OnGet, OnTurn, OnEnter, OnReturn, e
<1> QED  BY <1>2, <1>6 DEF z, e

\* Deregister is the outermost call, so that its return ends the call of t.
LEMMA DeregisterEnds ==
  ASSUME ThrType, Shape, NEW t \in Threads, Busy(t), Top(t).op = "deregister",
         NEW r \in Rets, Returns(t, r)
  PROVE  thr'[t].ret = r /\ Len(thr'[t].stack) = 0 /\ ~Busy(t)'
<1>1. Top(t) = thr[t].stack[1] /\ Len(thr[t].stack) \in Nat /\ Len(thr[t].stack) > 0
  BY ThreadHas
<1>2. Len(thr[t].stack) = 1
  <2>1. 1 \in 1..Len(thr[t].stack) /\ thr[t].stack[1].op = "deregister"
    BY <1>1
  <2> QED  BY <2>1 DEF Shape, GoodStack
<1>3. Returned(t, r)
  BY ReturnsPops
<1>4. Len(thr'[t].stack) = 0 /\ thr'[t].ret = r /\ thr'[t].stack \in Seq(Frame)
  BY <1>2, <1>3 DEF Returned, Keeps, ThrType, Thread
<1>5. thr'[t].stack = <<>>
  BY <1>4
<1> QED  BY <1>4, <1>5 DEF Busy

LEMMA GoneStep ==
  ASSUME CallsInv, GoneInv, NEW t \in Threads, Step(t)
  PROVE  GoneInv'
<1> USE DEF CallsInv
<1>1. Stepped(t) /\ Keeps(t)
  BY StepIs, SteppedTypes DEF StateType
\* An instance that was gone before.
<1>2. ASSUME NEW i \in Instances, gone[i] = "done"
      PROVE  /\ i \notin hosts /\ i \notin registered /\ Free(Top(t), i)
             /\ \A u \in Threads : FreeStack(thr'[u].stack, i)
  <2>1. i \notin hosts /\ i \notin registered /\ \A u \in Threads : FreeStack(thr[u].stack, i)
    BY <1>2 DEF GoneInv
  <2>2. Free(Top(t), i) /\ FreeStack(thr'[t].stack, i)
    BY <1>1, <2>1, StepStaysFree
  <2>3. \A u \in Threads : u # t => thr'[u] = thr[u]
    BY <1>1 DEF Keeps
  <2> QED  BY <2>1, <2>2, <2>3
<1>3. ASSUME UNCHANGED gone,
             \A i \in Instances : i \notin hosts /\ i \notin registered /\ Free(Top(t), i)
               => i \notin hosts' /\ i \notin registered'
      PROVE  GoneInv'
  BY <1>2, <1>3 DEF GoneInv
<1>4. CASE GetsClient(t)
  BY <1>3, <1>4 DEF GetsClient, Free
<1>5. CASE Registers(t)
  <2>1. /\ UNCHANGED <<gone, registered>> /\ hosts' \subseteq hosts \cup {Top(t).inst}
        /\ Top(t).op = "register"
    BY <1>5 DEF Registers, In
  <2> QED  BY <1>3, <2>1 DEF Free
<1>6. CASE \/ RegisterFails(t) \/ Checks(t) \/ Checked(t) \/ Lists(t) \/ ListFails(t)
           \/ LooksUp(t) \/ LookedUp(t) \/ Recovers(t) \/ Recovered(t)
  <2>1. UNCHANGED <<gone, registered, hosts>>
    BY <1>6 DEF RegisterFails, Checks, Checked, Lists, ListFails, LooksUp, LookedUp, Recovers,
                Recovered, state
  <2> QED  BY <1>3, <2>1
<1>7. CASE Deregisters(t)
  <2> DEFINE j == Top(t).inst
  <2>1. Busy(t) /\ Top(t).op = "deregister" /\ j \in Instances
    BY <1>7, TopIsGood DEF Deregisters, In, GoodFrame
  <2>2. CASE UNCHANGED gone
    <3>1. hosts' \subseteq hosts /\ registered' \subseteq registered
      BY <1>7 DEF Deregisters, state
    <3> QED  BY <1>3, <2>2, <3>1
  <2>3. CASE /\ hosts' = hosts \ Top(t).ids /\ registered' = registered \ {j}
             /\ Goes(t, j) /\ Returns(t, "ok")
    <3>1. ASSUME NEW i \in Instances, gone'[i] = "done", i # j
          PROVE  i \notin hosts' /\ i \notin registered' /\ \A u \in Threads : FreeStack(thr'[u].stack, i)
      <4>1. gone[i] = "done"
        BY <3>1, <2>3 DEF Goes, StateType
      <4> QED  BY <1>2, <2>3, <4>1
    <3>2. ASSUME gone'[j] = "done"
          PROVE  j \notin hosts' /\ j \notin registered' /\ \A u \in Threads : FreeStack(thr'[u].stack, j)
      <4>1. j \notin hosts' /\ \A u \in Threads \ {t} : ~Busy(u)
        BY <2>1, <2>3, <3>2 DEF Goes, StateType
      <4>2. Len(thr'[t].stack) = 0
        BY <2>1, <2>3, DeregisterEnds DEF Rets
      <4>3. \A u \in Threads : u # t => Len(thr'[u].stack) = 0
        <5>1. \A u \in Threads : u # t => thr'[u] = thr[u] /\ thr[u].stack = <<>>
          BY <1>1, <4>1 DEF Keeps, Busy
        <5>2. \A s : s = <<>> => Len(s) = 0
          OBVIOUS
        <5> QED  BY <5>1, <5>2
      <4>4. \A s : Len(s) = 0 => FreeStack(s, j)
        BY DEF FreeStack
      <4> QED  BY <2>3, <4>1, <4>2, <4>3, <4>4
    <3> QED  BY <3>1, <3>2 DEF GoneInv
  <2> QED  BY <1>7, <2>2, <2>3 DEF Deregisters
<1> QED  BY <1>4, <1>5, <1>6, <1>7 DEF Step

LEMMA GoneInit == Init => GoneInv
BY DEF Init, GoneInv

LEMMA GoneNext == CallsInv /\ GoneInv /\ [Next]_vars => GoneInv'
<1> SUFFICES ASSUME CallsInv, GoneInv, [Next]_vars PROVE GoneInv'
  OBVIOUS
<1>1. ASSUME NEW t \in Threads, NEW op \in Ops, NEW i \in Instances, Starts(t, op, i)
      PROVE  GoneInv'
  <2> DEFINE f == Calls(op, i, FALSE)
  <2>1. Started(t, f) /\ UNCHANGED <<hosts, registered>>
    BY <1>1, StartsIs DEF CallsInv, Starts, state
  <2>2. ASSUME NEW j \in Instances, gone'[j] = "done"
        PROVE  gone[j] = "done" /\ FreeStack(<<f>>, j)
    <3>1. gone[j] = "done" /\ ~(op = "register" /\ i = j)
      BY <1>1, <2>2 DEF Starts, CallsInv, StateType
    <3>2. Free(f, j)
      BY <3>1 DEF Free, Calls, Ops
    <3> HIDE DEF f
    <3>3. FreeStack(<<f>>, j)
      BY <3>2 DEF FreeStack
    <3> QED  BY <3>1, <3>3
  <2> HIDE DEF f
  <2> QED  BY <2>1, <2>2 DEF GoneInv, Started
<1>2. ASSUME NEW t \in Threads, Step(t)  PROVE GoneInv'
  BY <1>2, GoneStep
<1>3. ASSUME NEW i \in Instances, Loses(i)  PROVE GoneInv'
  BY <1>3 DEF Loses, GoneInv
<1>4. CASE UNCHANGED vars
  BY <1>4 DEF vars, state, GoneInv
<1> QED  BY <1>1, <1>2, <1>3, <1>4 DEF Next

\* An instance that Deregister has removed from Nacos, while no other call
\* was under way, is not registered again by anything but a Register.
THEOREM NacosDeregisteredStaysGone == Spec => []DeregisteredStaysGone
<1>1. GoneInv => DeregisteredStaysGone
  BY DEF GoneInv, DeregisteredStaysGone
<1> QED  BY <1>1, CallsInit, CallsNext, GoneInit, GoneNext, PTL DEF Spec

(***************************************************************************)
(* One goroutine, and no failure: what is recorded is in Nacos, but for    *)
(* what a Register is just about to put there, and so Deregister finds it. *)
(***************************************************************************)
Missing(t) == IF In(t, "register", "work") THEN {Top(t).inst} ELSE {}

NoListWaits(s) == \A n \in 1..Len(s) : s[n].op = "instances" => s[n].pc # "wait"

Looking(t, l) == In(t, "deregister", l) /\ Top(t).inst \in registered \cap Named

Undisturbed(t) ==
  /\ registered \subseteq hosts \cup Missing(t)
  /\ NoListWaits(thr[t].stack)
  /\ Looking(t, "wait") => thr[t].ret \in {"found", "error"}
  /\ Looking(t, "call") => Top(t).ids = {Top(t).inst}

SoloInv == faults = 0 => \A t \in Threads : Alone(t) => Undisturbed(t)

LEMMA TopNext ==
  ASSUME ThrType', NEW t \in Threads
  PROVE  /\ Busy(t)' <=> Len(thr'[t].stack) > 0
         /\ Busy(t)' => Top(t)' = thr'[t].stack[1]
<1> DEFINE z == thr'[t].stack
<1>1. z \in Seq(Frame)
  BY DEF ThrType, Thread
<1>2. (Busy(t)' <=> z # <<>>) /\ Top(t)' = Head(z)
  BY DEF Busy, Top
<1> HIDE DEF z
<1>3. (z # <<>> <=> Len(z) > 0) /\ (z # <<>> => Head(z) = z[1])
  BY <1>1, Popped
<1> QED  BY <1>2, <1>3 DEF z

\* The innermost call after a step.
LEMMA TopAfter ==
  ASSUME ThrType, Shape, NEW t \in Threads, Busy(t)
  PROVE  /\ \A f : Turned(t, f) => Busy(t)' /\ Top(t)' = f
         /\ \A g, h : Entered(t, g, h) => Busy(t)' /\ Top(t)' = g
         /\ \A r : Returned(t, r) /\ Busy(t)' =>
              /\ Top(t)'.pc = "wait"
              /\ Top(t)'.op = "deregister" => Top(t).op = "instances" /\ Top(t)'.inst = Top(t).inst
<1> DEFINE s == thr[t].stack
           z == thr'[t].stack
<1>1. Top(t) = s[1] /\ Len(s) \in Nat /\ Len(s) > 0 /\ GoodStack(s)
  BY ThreadHas DEF Shape
<1>2. ThrType' => (Busy(t)' <=> Len(z) > 0) /\ (Busy(t)' => Top(t)' = z[1])
  BY TopNext
<1> HIDE DEF s, z
<1>3. ASSUME NEW f, Turned(t, f)  PROVE Busy(t)' /\ Top(t)' = f
  <2>1. ThrType' /\ Len(z) = Len(s) /\ z[1] = f
    BY <1>3 DEF Turned, Keeps, s, z
  <2> QED  BY <1>1, <1>2, <2>1
<1>4. ASSUME NEW g, NEW h, Entered(t, g, h)  PROVE Busy(t)' /\ Top(t)' = g
  <2>1. ThrType' /\ Len(z) = Len(s) + 1 /\ z[1] = g
    BY <1>4 DEF Entered, Keeps, s, z
  <2> QED  BY <1>1, <1>2, <2>1
<1>5. ASSUME NEW r, Returned(t, r), Busy(t)'
      PROVE  /\ Top(t)'.pc = "wait"
             /\ Top(t)'.op = "deregister" => Top(t).op = "instances" /\ Top(t)'.inst = Top(t).inst
  <2>1. ThrType' /\ Len(z) = Len(s) - 1 /\ \A n \in 1..Len(s) : n > 1 => z[n - 1] = s[n]
    BY <1>5 DEF Returned, Keeps, s, z
  <2>2. 2 \in 1..Len(s) /\ 2 > 1 /\ 2 - 1 = 1
    BY <1>1, <1>2, <1>5, <2>1
  <2>3. Top(t)' = s[2]
    BY <1>2, <1>5, <2>1, <2>2
  <2>4. s[2].pc = "wait" /\ (s[2].op = "deregister" => s[1].op = "instances" /\ s[1].inst = s[2].inst)
    BY <1>1, <2>2 DEF GoodStack
  <2> QED  BY <1>1, <2>3, <2>4
<1> QED  BY <1>3, <1>4, <1>5

LEMMA NoListWaitsNext ==
  ASSUME ThrType, Shape, NEW t \in Threads, Stepped(t), NoListWaits(thr[t].stack),
         Top(t).op = "instances" => OnGet(t) \/ OnReturn(t)
  PROVE  NoListWaits(thr'[t].stack)
<1> DEFINE s == thr[t].stack
           z == thr'[t].stack
           e == Top(t)
<1>1. Len(s) \in Nat /\ Len(s) > 0 /\ NoListWaits(s)
  BY ThreadHas DEF Stepped
<1> HIDE DEF s, z, e
<1>2. ASSUME NEW f, Turned(t, f), f.pc \in {"work", "call"}  PROVE NoListWaits(z)
  <2>1. Len(z) = Len(s) /\ z[1] = f /\ \A n \in 1..Len(s) : n > 1 => z[n] = s[n]
    BY <1>2 DEF Turned, s, z
  <2> QED  BY <1>1, <1>2, <2>1 DEF NoListWaits
<1>3. ASSUME NEW g, NEW h, Entered(t, g, h), g.pc = "get", Follows(h, e), e.op # "instances"
      PROVE  NoListWaits(z)
  <2>1. /\ Len(z) = Len(s) + 1 /\ z[1] = g /\ z[2] = h
        /\ \A n \in 1..Len(s) : n > 1 => z[n + 1] = s[n]
    BY <1>3 DEF Entered, s, z
  <2>2. h.op # "instances"
    BY <1>3 DEF Follows
  <2>3. ASSUME NEW n \in 1..Len(z), n > 2
        PROVE  z[n].op = "instances" => z[n].pc # "wait"
    <3>1. n - 1 \in 1..Len(s) /\ n - 1 > 1 /\ (n - 1) + 1 = n
      BY <1>1, <2>1, <2>3
    <3> QED  BY <1>1, <2>1, <3>1 DEF NoListWaits
  <2>4. \A n \in 1..Len(z) : n = 1 \/ n = 2 \/ n > 2
    BY <1>1, <2>1
  <2> QED  BY <1>3, <2>1, <2>2, <2>3, <2>4 DEF NoListWaits
<1>4. ASSUME NEW r, Returned(t, r)  PROVE NoListWaits(z)
  <2>1. Len(z) = Len(s) - 1 /\ \A n \in 1..Len(s) : n > 1 => z[n - 1] = s[n]
    BY <1>4 DEF Returned, s, z
  <2>2. ASSUME NEW n \in 1..Len(z)  PROVE z[n].op = "instances" => z[n].pc # "wait"
    <3>1. n + 1 \in 1..Len(s) /\ n + 1 > 1 /\ (n + 1) - 1 = n
      BY <1>1, <2>1
    <3> QED  BY <1>1, <2>1, <3>1 DEF NoListWaits
  <2> QED  BY <2>2 DEF NoListWaits
<1>5. NoListWaits(z)
  BY <1>2, <1>3, <1>4 DEF Stepped, OnGet, OnTurn, OnEnter, OnReturn, e
<1> QED  BY <1>5 DEF z

LEMMA UndisturbedStep ==
  ASSUME CallsInv, faults = 0, NEW t \in Threads, Undisturbed(t), Step(t), faults' = 0
  PROVE  Undisturbed(t)'
<1> USE DEF CallsInv
<1> DEFINE e == Top(t)
           Elsewhere == Busy(t)' => Top(t)'.op # "deregister" \/ Top(t)'.pc \notin {"wait", "call"}
<1>1. Stepped(t) /\ Busy(t) /\ e \in Frame /\ GoodFrame(e)
  BY StepIs, TopIsGood DEF StateType, Stepped
<1>2. ~Fault
  BY DEF Fault
<1>3. /\ \A f : Turned(t, f) => Busy(t)' /\ Top(t)' = f
      /\ \A g, h : Entered(t, g, h) => Busy(t)' /\ Top(t)' = g
      /\ \A r : Returned(t, r) /\ Busy(t)' =>
           /\ Top(t)'.pc = "wait"
           /\ Top(t)'.op = "deregister" => e.op = "instances" /\ Top(t)'.inst = e.inst
  BY <1>1, TopAfter
<1>4. (e.op = "instances" => OnGet(t) \/ OnReturn(t)) => NoListWaits(thr'[t].stack)
  BY <1>1, NoListWaitsNext DEF Undisturbed
<1>5. registered \subseteq hosts \cup Missing(t)
  BY DEF Undisturbed
<1>6. ASSUME NoListWaits(thr'[t].stack), registered' \subseteq hosts' \cup Missing(t)', Elsewhere
      PROVE  Undisturbed(t)'
  BY <1>6 DEF Undisturbed, Looking, In
<1>7. /\ "ok" \in Rets /\ "error" \in Rets
      /\ \A b : (IF b THEN "found" ELSE "missing") \in Rets
  BY DEF Rets
<1>8. e.op \notin {"deregister", "instances"} => Elsewhere
  BY <1>1, <1>3 DEF Stepped, OnGet, OnTurn, OnEnter, OnReturn, Follows
<1>9. CASE GetsClient(t)
  <2>1. OnGet(t) /\ e.pc = "get"
    BY <1>9, GetsClientIs DEF GetsClient, StateType
  <2> DEFINE f == [e EXCEPT !.pc = "work", !.ids = IF e.op = "check" THEN registered ELSE {}]
  <2>2. f \in Frame /\ f.op = e.op /\ f.pc = "work" /\ f.inst = e.inst
    <3> HIDE DEF e
    <3> QED  BY <1>1 DEF Frame, StateType
  <2>3. Turned(t, f)
    <3>1. thr' = [thr EXCEPT ![t].stack = <<f>> \o Tail(@)]
      BY <1>9 DEF GetsClient
    <3> HIDE DEF f
    <3> QED  BY <1>1, <2>2, <3>1, BecomesTurns
  <2>4. Busy(t)' /\ Top(t)' = f
    BY <1>3, <2>3
  <2>5. registered \subseteq hosts /\ UNCHANGED hosts
    BY <1>5, <1>9, <2>1 DEF Missing, In, GetsClient
  <2>6. registered' \subseteq hosts' \cup Missing(t)'
    <3>1. CASE e.op = "register"
      <4>1. Missing(t)' = {e.inst}
        <5> HIDE DEF e, f
        <5> QED  BY <2>2, <2>4, <3>1 DEF Missing, In
      <4> QED  BY <1>9, <2>5, <4>1 DEF GetsClient
    <3>2. CASE e.op # "register"
      BY <1>9, <2>5, <3>2 DEF GetsClient
    <3> QED  BY <3>1, <3>2
  <2>7. Elsewhere
    <3> HIDE DEF e, f
    <3> QED  BY <2>2, <2>4
  <2> QED  BY <1>4, <1>6, <2>1, <2>6, <2>7
<1>10. CASE Registers(t)
  <2>1. e.op = "register" /\ hosts' = hosts \cup {e.inst} /\ UNCHANGED registered
    BY <1>2, <1>10 DEF Registers, In
  <2>2. registered' \subseteq hosts'
    BY <1>5, <2>1 DEF Missing
  <2> QED  BY <1>4, <1>6, <1>8, <2>1, <2>2
<1>11. CASE RegisterFails(t) \/ Checks(t) \/ Checked(t) \/ Recovers(t) \/ Recovered(t)
  <2>1. /\ e.op \in {"register", "check", "recover"} /\ (e.op = "register" => e.pc = "wait")
        /\ UNCHANGED <<registered, hosts>>
    BY <1>11 DEF RegisterFails, Checks, Checked, Recovers, Recovered, In, state
  <2>2. registered' \subseteq hosts'
    BY <1>5, <2>1 DEF Missing, In
  <2> QED  BY <1>4, <1>6, <1>8, <2>1, <2>2
<1>12. CASE Lists(t)
  <2>1. /\ e.op = "instances" /\ e.pc = "work" /\ UNCHANGED <<registered, hosts>>
        /\ Returns(t, IF e.inst \in Found THEN "found" ELSE "missing")
    BY <1>2, <1>12 DEF Lists, In, state
  <2>2. Returned(t, IF e.inst \in Found THEN "found" ELSE "missing")
    BY <1>1, <1>7, <2>1, ReturnsPops
  <2>3. OnReturn(t)
    BY <1>1, <1>7, <2>1, ReturnsIs
  <2>4. registered \subseteq hosts
    BY <1>5, <2>1 DEF Missing, In
  <2>5. thr'[t].ret = IF e.inst \in Found THEN "found" ELSE "missing"
    BY <2>2 DEF Returned
  <2>6. NoListWaits(thr'[t].stack)
    BY <1>4, <2>3
  <2>7. Busy(t)' => Top(t)'.pc = "wait" /\ (Top(t)'.op = "deregister" => Top(t)'.inst = e.inst)
    BY <1>3, <2>2
  <2> HIDE DEF e
  <2>8. Looking(t, "wait")' => thr'[t].ret = "found"
    BY <2>1, <2>4, <2>5, <2>7 DEF Looking, In, Found
  <2>9. ~Looking(t, "call")'
    BY <2>7 DEF Looking, In
  <2> QED  BY <2>1, <2>4, <2>6, <2>8, <2>9 DEF Undisturbed
<1>13. CASE ListFails(t)
  <2>1. e.op = "instances" /\ e.pc = "wait"
    BY <1>13 DEF ListFails, In
  <2>2. e = thr[t].stack[1] /\ 1 \in 1..Len(thr[t].stack)
    BY <1>1, ThreadHas
  <2> QED  BY <2>1, <2>2 DEF Undisturbed, NoListWaits
<1>14. CASE LooksUp(t)
  <2>1. e.op = "deregister" /\ UNCHANGED <<registered, hosts>> /\ OnEnter(t)
    BY <1>14, LooksUpIs DEF LooksUp, In, state
  <2>2. registered' \subseteq hosts'
    BY <1>5, <2>1 DEF Missing, In
  <2>3. Elsewhere
    BY <1>3, <2>1 DEF OnEnter
  <2> QED  BY <1>4, <1>6, <2>1, <2>2, <2>3
<1>15. CASE LookedUp(t)
  <2>1. Busy(t) /\ e.op = "deregister" /\ e.pc = "wait" /\ UNCHANGED <<registered, hosts>>
    BY <1>15 DEF LookedUp, In, state
  <2>2. registered \subseteq hosts
    BY <1>5, <2>1 DEF Missing, In
  <2>3. NoListWaits(thr'[t].stack)
    BY <1>4, <2>1
  <2>4. CASE Returns(t, "error")
    BY <1>6, <1>7, <2>1, <2>2, <2>3, <2>4, DeregisterEnds
  <2>5. CASE /\ thr[t].ret # "error"
             /\ Becomes(t, [e EXCEPT !.pc = "call",
                                     !.ids = IF thr[t].ret = "found" THEN {e.inst} ELSE {}])
    <3> DEFINE f == [e EXCEPT !.pc = "call", !.ids = IF thr[t].ret = "found" THEN {e.inst} ELSE {}]
    <3>1. /\ f \in Frame /\ f.op = "deregister" /\ f.pc = "call" /\ f.inst = e.inst
          /\ thr[t].ret = "found" => f.ids = {f.inst}
      <4> HIDE DEF e
      <4> QED  BY <1>1, <2>1 DEF Frame, GoodFrame
    <3>2. Becomes(t, f)
      BY <2>5
    <3> HIDE DEF f
    <3>3. Busy(t)' /\ Top(t)' = f
      BY <1>1, <1>3, <3>1, <3>2, BecomesTurns DEF Becomes
    <3>4. Looking(t, "call")' => Looking(t, "wait")
      BY <2>1, <3>1, <3>3 DEF Looking, In
    <3>5. Looking(t, "wait") => thr[t].ret = "found"
      BY <2>5 DEF Undisturbed
    <3>6. ~Looking(t, "wait")'
      BY <3>1, <3>3 DEF Looking, In
    <3> QED  BY <2>1, <2>2, <2>3, <3>1, <3>3, <3>4, <3>5, <3>6 DEF Undisturbed
  <2> QED  BY <1>15, <2>4, <2>5 DEF LookedUp
<1>16. CASE Deregisters(t)
  <2>1. e.op = "deregister" /\ e.pc = "call"
    BY <1>16 DEF Deregisters, In
  <2>2. registered \subseteq hosts
    BY <1>5, <2>1 DEF Missing, In
  <2>3. registered' \subseteq hosts'
    <3>1. e.ids \subseteq {e.inst}
      BY <1>1, <2>1 DEF GoodFrame
    <3>2. \/ hosts' = hosts \ e.ids /\ registered' = registered \ {e.inst}
          \/ UNCHANGED <<hosts, registered>>
      BY <1>2, <1>16 DEF Deregisters, state
    <3> QED  BY <2>2, <3>1, <3>2
  <2>4. ~Busy(t)'
    BY <1>1, <1>7, <1>16, <2>1, DeregisterEnds DEF Deregisters
  <2> QED  BY <1>4, <1>6, <2>1, <2>3, <2>4
<1> QED  BY <1>9, <1>10, <1>11, <1>12, <1>13, <1>14, <1>15, <1>16 DEF Step

\* Who is alone stays so only if the step is its own, and nothing fails.
LEMMA SoloSteps ==
  ASSUME CallsInv, NEW t \in Threads, [Next]_vars, faults' = 0, Alone(t)'
  PROVE  /\ faults = 0 /\ Alone(t)
         /\ \/ \E op \in Ops, i \in Instances : Starts(t, op, i)
            \/ Step(t)
            \/ UNCHANGED vars
<1> USE DEF CallsInv
<1>1. faults \in Nat /\ ~Fault
  BY NacosAssumption DEF StateType, Fault
<1>2. ASSUME NEW u \in Threads, NEW op \in Ops, NEW i \in Instances, Starts(u, op, i)
      PROVE  u = t /\ Alone(t) /\ UNCHANGED faults
  <2>1. Started(u, Calls(op, i, FALSE))
    BY <1>2, StartsIs
  <2>2. thr'[u].calls # 0
    BY <2>1, ThreadHas DEF Started
  <2>3. u = t
    BY <2>2 DEF Alone
  <2> QED  BY <1>2, <2>1, <2>3 DEF Started, Alone, Starts
<1>3. ASSUME NEW u \in Threads, Step(u)
      PROVE  u = t /\ Alone(t)
  <2>1. Busy(u) /\ Keeps(u)
    BY <1>3, StepIs, SteppedTypes DEF StateType, Stepped
  <2>2. thr'[u].calls # 0
    BY <2>1 DEF Keeps, Shape
  <2>3. u = t
    BY <2>2 DEF Alone
  <2> QED  BY <2>1, <2>3 DEF Keeps, Alone
<1>4. ASSUME NEW u \in Threads, Step(u)
      PROVE  Fault \/ UNCHANGED faults
  BY <1>4 DEF Step, GetsClient, Registers, RegisterFails, Checks, Checked, Lists, ListFails,
              LooksUp, LookedUp, Deregisters, Recovers, Recovered, NoFault
<1>5. ASSUME NEW i \in Instances, Loses(i)  PROVE FALSE
  BY <1>1, <1>5 DEF Loses
<1>6. UNCHANGED vars => Alone(t) /\ UNCHANGED faults
  BY DEF vars, Alone
<1> QED  BY <1>1, <1>2, <1>3, <1>4, <1>5, <1>6 DEF Next

LEMMA SoloInit == Init => SoloInv
<1> SUFFICES ASSUME Init, NEW t \in Threads PROVE Undisturbed(t)
  BY DEF SoloInv
<1>1. thr[t].stack = <<>> /\ ~Busy(t)
  BY DEF Init, Busy
<1>2. Len(thr[t].stack) = 0
  BY <1>1
<1>3. registered = {}
  BY DEF Init
<1> QED  BY <1>1, <1>2, <1>3 DEF Undisturbed, NoListWaits, Looking, In

LEMMA SoloNext == CallsInv /\ SoloInv /\ [Next]_vars => SoloInv'
<1> SUFFICES ASSUME CallsInv, SoloInv, [Next]_vars, faults' = 0, NEW t \in Threads, Alone(t)'
             PROVE  Undisturbed(t)'
  BY DEF SoloInv
<1>1. faults = 0 /\ Alone(t)
  BY SoloSteps
<1>2. Undisturbed(t)
  BY <1>1 DEF SoloInv
<1>3. ASSUME NEW op \in Ops, NEW i \in Instances, Starts(t, op, i)  PROVE Undisturbed(t)'
  <2> DEFINE f == Calls(op, i, FALSE)
  <2>1. Started(t, f) /\ UNCHANGED <<registered, hosts>>
    BY <1>3, StartsIs DEF CallsInv, Starts, state
  <2>2. registered \subseteq hosts
    BY <1>2, <2>1 DEF Undisturbed, Missing, In, Started
  <2>3. f.pc = "get"
    BY DEF Calls
  <2> HIDE DEF f
  <2>4. ThrType' /\ Len(thr'[t].stack) = 1 /\ thr'[t].stack[1] = f
    BY <2>1 DEF Started
  <2>5. Top(t)' = f
    BY <2>4, TopNext
  <2>6. NoListWaits(thr'[t].stack)
    BY <2>3, <2>4 DEF NoListWaits
  <2> QED  BY <2>1, <2>2, <2>3, <2>5, <2>6 DEF Undisturbed, Looking, In
<1>4. CASE Step(t)
  BY <1>1, <1>2, <1>4, UndisturbedStep
<1>5. CASE UNCHANGED vars
  BY <1>2, <1>5 DEF vars, state, Undisturbed, Missing, Looking, In, Busy, Top
<1> QED  BY <1>3, <1>4, <1>5, SoloSteps

\* Deregister of a registered instance that has kept its name succeeds, and
\* the instance is gone, when Nacos does not fail and nobody else calls:
\* whatever the goroutine has called before.
THEOREM NacosDeregisterWorks == Spec => DeregisterWorks
<1>1. ASSUME CallsInv, SoloInv, [Next]_vars, NEW t \in Threads, NEW i \in registered \cap Named,
             In(t, "deregister", "call"), Top(t).inst = i, ~Busy(t)', faults' = 0, Alone(t)
      PROVE  thr[t].ret' = "ok" /\ i \notin hosts'
  <2>1. Busy(t)
    BY <1>1 DEF In
  <2>2. thr'[t] # thr[t]
    BY <1>1, <2>1 DEF Busy
  <2>3. Step(t)
    <3>1. ASSUME NEW u \in Threads, NEW op \in Ops, NEW j \in Instances, Starts(u, op, j)
          PROVE  FALSE
      <4>1. Started(u, Calls(op, j, FALSE))
        BY <1>1, <3>1, StartsIs DEF CallsInv
      <4> QED  BY <2>1, <2>2, <4>1 DEF Started
    <3>2. ASSUME NEW u \in Threads, Step(u)
          PROVE  u = t
      <4>1. Keeps(u)
        BY <1>1, <3>2, StepIs, SteppedTypes DEF CallsInv, StateType
      <4> QED  BY <2>2, <4>1 DEF Keeps
    <3>3. \A j \in Instances : ~Loses(j)
      BY <2>2 DEF Loses
    <3>4. ~UNCHANGED vars
      BY <2>2 DEF vars
    <3> QED  BY <1>1, <3>1, <3>2, <3>3, <3>4 DEF Next
  <2>4. Deregisters(t)
    BY <1>1, <2>3 DEF Step, GetsClient, Registers, RegisterFails, Checks, Checked, Lists, ListFails,
                      LooksUp, LookedUp, Recovers, Recovered, In
  <2>5. faults \in Nat /\ ~Fault /\ (NoFault => faults = 0)
    BY <1>1, NacosAssumption DEF CallsInv, StateType, Fault, NoFault
  <2>6. faults = 0
    BY <2>4, <2>5 DEF Deregisters, NoFault
  <2>7. Top(t).ids = {i}
    BY <1>1, <2>6 DEF SoloInv, Undisturbed, Looking
  <2>8. hosts' = hosts \ {i} /\ Returns(t, "ok")
    BY <2>4, <2>5, <2>7 DEF Deregisters
  <2>9. thr'[t].ret = "ok"
    BY <1>1, <2>1, <2>8, DeregisterEnds DEF CallsInv, Rets, In
  <2> QED  BY <2>8, <2>9
<1>2. CallsInv /\ SoloInv /\ [Next]_vars =>
        [\A t \in Threads, i \in registered \cap Named :
           (In(t, "deregister", "call") /\ Top(t).inst = i /\ ~Busy(t)' /\ faults' = 0 /\ Alone(t))
             => thr[t].ret' = "ok" /\ i \notin hosts']_vars
  BY <1>1
<1>3. Spec => [](CallsInv /\ SoloInv)
  BY CallsInit, CallsNext, SoloInit, SoloNext, PTL DEF Spec
<1> QED  BY <1>2, <1>3, PTL DEF Spec, DeregisterWorks
=============================================================================
