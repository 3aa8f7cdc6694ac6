---------------------------- MODULE WatchesProofs ----------------------------
(***************************************************************************)
(* Proofs about Watches: the types for every backend and, for Consul and   *)
(* ZooKeeper, whose goroutine is the only sender on ch, that nobody sends  *)
(* on the closed channel; for Consul, that its queries ask for what comes  *)
(* after the list on its way to the application.                           *)
(***************************************************************************)
EXTENDS Watches, TLAPS

Places == {"none", "open", "recv", "read", "send", "query", "asked", "arm", "wait",
           "pause", "subscribe", "closing", "ended"}

(***************************************************************************)
(* Types                                                                   *)
(***************************************************************************)
LEMMA GoroutineTypes == Main \in Goroutines /\ Helpers \subseteq Goroutines /\ Main \notin Helpers
BY WatchAssumption DEF Main, Helpers, Goroutines

LEMMA ListTypes ==
  /\ NoList \in List
  /\ StateTypes => Present \in List
  /\ \A v \in 1..MaxVersion, w \in BOOLEAN : v \in 0..MaxVersion /\ [ver |-> v, whole |-> w] \in List
<1>1. 0 \in 0..MaxVersion
  BY WatchAssumption
<1>2. StateTypes => registry \in 0..MaxVersion
  BY WatchAssumption DEF StateTypes
<1>3. \A v \in 1..MaxVersion : v \in 0..MaxVersion
  BY WatchAssumption
<1> QED  BY <1>1, <1>2, <1>3 DEF NoList, List, Present

\* How a goroutine moves.
LEMMA MoveTypes ==
  ASSUME StateTypes, NEW g \in Goroutines, NEW l \in Places
  PROVE  /\ Goto(g, l) => go' \in [Goroutines -> Record]
         /\ Stand(g, l) => go' \in [Goroutines -> Record]
         /\ \A x \in List : Hold(g, x, l) => go' \in [Goroutines -> Record]
<1>1. go \in [Goroutines -> Record] /\ registry \in 0..MaxVersion /\ go[g] \in Record
  BY WatchAssumption DEF StateTypes
<1>2. Goto(g, l) => go' \in [Goroutines -> Record]
  BY <1>1 DEF Goto, Record, Places
<1>3. Stand(g, l) => go' \in [Goroutines -> Record]
  <2>1. [go[g] EXCEPT !.pc = l, !.seen = registry] \in Record
    BY <1>1 DEF Record, Places
  <2>2. Stand(g, l) => go' = [go EXCEPT ![g] = [go[g] EXCEPT !.pc = l, !.seen = registry]]
    BY <1>1 DEF Stand
  <2> QED  BY <1>1, <2>1, <2>2
<1>4. ASSUME NEW x \in List, Hold(g, x, l) PROVE go' \in [Goroutines -> Record]
  <2>1. [go[g] EXCEPT !.pc = l, !.list = x] \in Record
    BY <1>1 DEF Record, Places
  <2>2. go' = [go EXCEPT ![g] = [go[g] EXCEPT !.pc = l, !.list = x]]
    BY <1>1, <1>4 DEF Hold
  <2> QED  BY <1>1, <2>1, <2>2
<1> QED  BY <1>2, <1>3, <1>4

\* A step that changes go alone.
LEMMA AloneTypes ==
  ASSUME StateTypes, Alone \/ Failing, go' \in [Goroutines -> Record]
  PROVE  StateTypes'
<1>1. faults' \in Nat
  <2>1. CASE Alone
    BY <2>1 DEF Alone, StateTypes
  <2>2. CASE Failing
    BY <2>2, WatchAssumption DEF Failing, Fault, StateTypes
  <2> QED  BY <2>1, <2>2
<1>2. UNCHANGED <<registry, view, session, ctx, call, chan, closed, panicked, out, app, got>>
  BY DEF Alone, Failing, outside, zk, ch, in
<1> QED  BY <1>1, <1>2 DEF StateTypes

LEMMA PutsTypes ==
  ASSUME StateTypes, NEW x \in List, Puts(x) \/ Panics
  PROVE  /\ chan' \in Seq(List) /\ Len(chan') <= 1
         /\ closed' \in BOOLEAN /\ panicked' \in BOOLEAN /\ (panicked' => closed')
<1>1. CASE Puts(x)
  <2>1. <<x>> \in Seq(List) /\ Len(<<x>>) = 1
    OBVIOUS
  <2> QED  BY <1>1, <2>1 DEF StateTypes, Puts
<1>2. CASE Panics
  BY <1>2 DEF StateTypes, Panics
<1> QED  BY <1>1, <1>2

LEMMA TypesInit == Init => StateTypes
<1> SUFFICES ASSUME Init PROVE StateTypes  OBVIOUS
<1>1. NotStarted \in Record /\ NoList \in List
  BY ListTypes, WatchAssumption DEF NotStarted, Record
<1>2. <<>> \in Seq(List) /\ Len(<<>>) <= 1
  OBVIOUS
<1>3. /\ registry \in 1..MaxVersion /\ faults \in Nat
      /\ view \in [Sessions -> 1..MaxVersion] /\ session \in Sessions
  BY WatchAssumption DEF Init
<1>4. go \in [Goroutines -> Record]
  BY <1>1 DEF Init
<1>5. /\ call \in [pc: {"start", "read", "send", "returned", "failed"}, list: List]
      /\ out \in [pc: {"recv", "send", "ended"}, list: List] /\ got \in List
  BY <1>1 DEF Init
<1>6. chan \in Seq(List) /\ Len(chan) <= 1
  BY <1>2 DEF Init
<1> QED  BY <1>3, <1>4, <1>5, <1>6 DEF Init, StateTypes

LEMMA TypesOutside ==
  ASSUME StateTypes,
         RegistryChanges \/ CtxDone \/ AppLeaves \/ OutStep \/ \E s \in Sessions : SessionFollows(s)
  PROVE  StateTypes'
<1> USE DEF StateTypes, outside, zk, ch, in
<1>1. CASE RegistryChanges \/ CtxDone \/ AppLeaves
  BY <1>1, WatchAssumption DEF RegistryChanges, CtxDone, AppLeaves
<1>2. CASE Receive
  <2>1. Head(chan) \in List /\ <<>> \in Seq(List) /\ Len(<<>>) <= 1
    BY <1>2 DEF Receive
  <2> QED  BY <1>2, <2>1 DEF Receive
<1>3. CASE Deliver \/ EndOfRange
  BY <1>3 DEF Deliver, EndOfRange
<1>4. ASSUME NEW s \in Sessions, SessionFollows(s) PROVE StateTypes'
  <2>1. view[s] + 1 \in 1..MaxVersion
    BY <1>4, WatchAssumption DEF SessionFollows
  <2> QED  BY <1>4, <2>1 DEF SessionFollows
<1> QED  BY <1>1, <1>2, <1>3, <1>4 DEF OutStep

LEMMA OpensTypes ==
  ASSUME StateTypes, NEW g \in Goroutines, Opens(g)
  PROVE  go' \in [Goroutines -> Record]
<1>1. go \in [Goroutines -> Record] /\ registry \in 0..MaxVersion /\ go[g] \in Record
  BY WatchAssumption DEF StateTypes
<1>2. [go[g] EXCEPT !.pc = "recv", !.seen = registry, !.stream = "open"] \in Record
  BY <1>1 DEF Record
<1> QED  BY <1>1, <1>2 DEF Opens

LEMMA TypesCall ==
  ASSUME StateTypes, CallStep
  PROVE  StateTypes'
<1> USE DEF zk, ch, in
<1>1. CASE EtcdWatch
  BY <1>1, GoroutineTypes, OpensTypes DEF EtcdWatch, StateTypes
<1>2. CASE WatchReads
  <2>1. call' \in [pc: {"start", "read", "send", "returned", "failed"}, list: List]
    BY <1>2, ListTypes DEF WatchReads, StateTypes
  <2>2. faults' \in Nat
    BY <1>2, WatchAssumption DEF WatchReads, Fault, StateTypes
  <2>3. UNCHANGED <<registry, view, session, ctx, go, chan, closed, panicked, out, app, got>>
    BY <1>2 DEF WatchReads
  <2> QED  BY <2>1, <2>2, <2>3 DEF StateTypes
<1>3. CASE WatchSends
  <2>1. call.list \in List /\ (Puts(call.list) \/ Panics)
    BY <1>3 DEF WatchSends, StateTypes
  <2>2. call' \in [pc: {"start", "read", "send", "returned", "failed"}, list: List]
    BY <1>3 DEF WatchSends, StateTypes
  <2> QED  BY <1>3, <2>1, <2>2, PutsTypes DEF WatchSends, StateTypes
<1>4. ASSUME NEW l \in {"query", "read", "subscribe"}, Watch(l)
      PROVE  StateTypes'
  <2>1. go' \in [Goroutines -> Record]
    BY <1>4, GoroutineTypes, MoveTypes DEF Watch, Places
  <2> QED  BY <1>4, <2>1 DEF Watch, StateTypes
<1> QED  BY <1>1, <1>2, <1>3, <1>4 DEF CallStep

LEMMA AnswerTypes ==
  ASSUME StateTypes, NEW v \in 1..MaxVersion, Answer(v)
  PROVE  go' \in [Goroutines -> Record]
<1>1. go \in [Goroutines -> Record] /\ Main \in Goroutines /\ go[Main] \in Record
  BY GoroutineTypes DEF StateTypes
<1>2. v \in 0..MaxVersion /\ [ver |-> v, whole |-> TRUE] \in List
  BY ListTypes
<1>3. [go[Main] EXCEPT !.pc = "send", !.seen = v, !.list = [ver |-> v, whole |-> TRUE]] \in Record
  BY <1>1, <1>2 DEF Record
<1> QED  BY <1>1, <1>3 DEF Answer

LEMMA TypesStep ==
  ASSUME StateTypes, NEW g \in Goroutines,
         Step(g) \/ StreamBreaks(g) \/ WaitIsOver \/ AnswersLate
  PROVE  StateTypes'
<1>0. go \in [Goroutines -> Record] /\ go[g] \in Record /\ Present \in List
  BY ListTypes DEF StateTypes
<1>1. CASE Send(g)
  <2>1. go[g].list \in List /\ AfterSend \in Places /\ (Puts(go[g].list) \/ Panics)
    BY <1>0, <1>1 DEF Send, AfterSend, Places, Record
  <2>2. go' \in [Goroutines -> Record]
    BY <1>0, <1>1, <2>1, MoveTypes DEF Send
  <2> QED  BY <1>1, <2>1, <2>2, PutsTypes DEF Send, StateTypes, outside, zk, in
<1>2. CASE SendGivesUp(g)
  BY <1>2, MoveTypes, AloneTypes DEF SendGivesUp, Places
<1>3. CASE CloseChan
  <2>1. go' \in [Goroutines -> Record]
    BY <1>3, GoroutineTypes, MoveTypes DEF CloseChan, Places
  <2> QED  BY <1>3, <2>1 DEF CloseChan, StateTypes, outside, zk, in
<1>4. CASE EtcdStep(g)
  <2>1. CASE Response(g) \/ Reads(g) \/ StreamEnds(g)
    BY <1>0, <2>1, MoveTypes, AloneTypes DEF Response, Reads, StreamEnds, Places
  <2>2. CASE ErrorResponse(g)
    <3>1. go' \in [Goroutines -> Record]
      BY <1>0, <2>2 DEF ErrorResponse, Record
    <3> QED  BY <2>2, <3>1, AloneTypes DEF ErrorResponse
  <2>3. CASE ReadFails(g)
    <3>1. go' \in [Goroutines -> Record]
      BY <1>0, <2>3, GoroutineTypes, MoveTypes DEF ReadFails, Record, Places
    <3> QED  BY <2>3, <3>1, AloneTypes DEF ReadFails
  <2>4. CASE RecoverWatch(g)
    BY <2>4, OpensTypes, AloneTypes DEF RecoverWatch
  <2> QED  BY <1>4, <2>1, <2>2, <2>3, <2>4 DEF EtcdStep
<1>5. CASE ConsulStep(g) \/ WaitIsOver \/ AnswersLate
  <2>1. CASE Queries \/ QueryFails
    BY <2>1, GoroutineTypes, MoveTypes, AloneTypes DEF Queries, QueryFails, Places
  <2>2. CASE Answers \/ WaitIsOver \/ AnswersLate
    <3>1. PICK v \in 1..MaxVersion : Answer(v)
      BY <2>2, WatchAssumption DEF Answers, WaitIsOver, AnswersLate, StateTypes
    <3>2. go' \in [Goroutines -> Record]
      BY <3>1, AnswerTypes
    <3> QED  BY <2>2, <3>2, AloneTypes DEF Answers, WaitIsOver, AnswersLate
  <2> QED  BY <1>5, <2>1, <2>2 DEF ConsulStep
<1>6. CASE ZooKeeperStep(g)
  <2>0. \A s \in Sessions : view[s] \in 1..MaxVersion
    BY DEF StateTypes
  <2>1. CASE ReadsChildren
    <3>1. PICK s \in Sessions, w \in BOOLEAN :
            Hold(Main, [ver |-> view[s], whole |-> w], "send")
      BY <2>1 DEF ReadsChildren
    <3>2. go' \in [Goroutines -> Record]
      BY <2>0, <3>1, GoroutineTypes, ListTypes, MoveTypes DEF Places
    <3> QED  BY <2>1, <3>2, AloneTypes DEF ReadsChildren
  <2>2. CASE Arms
    <3>1. PICK s \in Sessions :
            session' = s /\ go' = [go EXCEPT ![Main].pc = "wait", ![Main].seen = view[s]]
      BY <2>2 DEF Arms
    <3>2. view[s] \in 0..MaxVersion
      BY <2>0, ListTypes
    <3>3. go' \in [Goroutines -> Record]
      BY <1>0, <3>1, <3>2, GoroutineTypes DEF Record
    <3> QED  BY <2>2, <3>1, <3>3 DEF Arms, StateTypes, ch, in
  <2>3. CASE NoNode \/ ZkFails \/ TryAgain \/ Fires \/ WaitEnds
    BY <2>3, GoroutineTypes, MoveTypes, AloneTypes
       DEF NoNode, ZkFails, TryAgain, Fires, WaitEnds, Places
  <2> QED  BY <1>6, <2>1, <2>2, <2>3 DEF ZooKeeperStep
<1>7. CASE NacosStep(g)
  <2>0. /\ registry \in 0..MaxVersion /\ Main # 1
        /\ Main \in Goroutines /\ go[Main] \in Record
        /\ 1 \in Goroutines /\ go[1] \in Record
    BY <1>0, WatchAssumption DEF StateTypes, Main, Goroutines
  <2>1. CASE Subscribes \/ Unsubscribes
    <3> DEFINE wait == [go[Main] EXCEPT !.pc = "wait"]
               left == [go[Main] EXCEPT !.pc = "closing"]
               recv == [go[1] EXCEPT !.pc = "recv", !.stream = "open"]
               shut == [go[1] EXCEPT !.stream = "closed"]
    <3>1. wait \in Record /\ left \in Record /\ recv \in Record /\ shut \in Record
      BY <2>0 DEF Record
    <3>2. \/ go' = [go EXCEPT ![Main] = wait, ![1] = recv]
          \/ go' = [go EXCEPT ![Main] = left, ![1] = shut]
          \/ go' = [go EXCEPT ![Main] = left]
      BY <1>0, <2>0, <2>1 DEF Subscribes, Unsubscribes, Goto
    <3>3. go' \in [Goroutines -> Record]
      <4> HIDE DEF wait, left, recv, shut
      <4> QED  BY <1>0, <2>0, <3>1, <3>2
    <3> QED  BY <2>1, <3>3, AloneTypes DEF Subscribes, Unsubscribes
  <2>2. CASE CallsBack(g)
    <3>1. [go[g] EXCEPT !.pc = "send", !.list = Present, !.seen = registry] \in Record
      BY <1>0, <2>0 DEF Record
    <3>2. go' \in [Goroutines -> Record]
      BY <1>0, <2>2, <3>1 DEF CallsBack
    <3> QED  BY <2>2, <3>2, AloneTypes DEF CallsBack
  <2>3. CASE CallsBackWithError(g)
    <3>1. ASSUME NEW n \in Helpers, At(n, "none"),
                 go' = [go EXCEPT ![g].seen = registry, ![n].pc = "subscribe"]
          PROVE  go' \in [Goroutines -> Record]
      <4>1. n \in Goroutines
        BY GoroutineTypes
      <4> DEFINE half == [go EXCEPT ![g].seen = registry]
      <4>2. half \in [Goroutines -> Record]
        BY <1>0, <2>0 DEF Record
      <4>3. go' = [half EXCEPT ![n].pc = "subscribe"]
        BY <1>0, <3>1, <4>1
      <4> HIDE DEF half
      <4> QED  BY <4>1, <4>2, <4>3 DEF Record
    <3>2. go' \in [Goroutines -> Record]
      BY <2>3, <3>1, MoveTypes DEF CallsBackWithError, Places
    <3> QED  BY <2>3, <3>2, AloneTypes DEF CallsBackWithError
  <2>4. CASE Resubscribes(g)
    <3>1. [go[g] EXCEPT !.pc = "recv", !.stream = "open"] \in Record
      BY <1>0 DEF Record
    <3>2. \/ go' = [go EXCEPT ![g] = [go[g] EXCEPT !.pc = "recv", !.stream = "open"]]
          \/ Goto(g, "ended")
      BY <1>0, <2>4 DEF Resubscribes
    <3>3. go' \in [Goroutines -> Record]
      BY <1>0, <3>1, <3>2, MoveTypes DEF Places
    <3> QED  BY <2>4, <3>3, AloneTypes DEF Resubscribes
  <2> QED  BY <1>7, <2>1, <2>2, <2>3, <2>4 DEF NacosStep
<1>8. CASE StreamBreaks(g)
  <2>1. go' \in [Goroutines -> Record]
    BY <1>0, <1>8 DEF StreamBreaks, Record
  <2> QED  BY <1>8, <2>1, AloneTypes DEF StreamBreaks
<1> QED  BY <1>1, <1>2, <1>3, <1>4, <1>5, <1>6, <1>7, <1>8 DEF Step

LEMMA TypesNext == StateTypes /\ [Next]_vars => StateTypes'
<1> SUFFICES ASSUME StateTypes, [Next]_vars PROVE StateTypes'  OBVIOUS
<1>1. CASE UNCHANGED vars
  BY <1>1 DEF vars, outside, zk, ch, in, StateTypes
<1>2. CASE WaitIsOver \/ AnswersLate
  BY <1>2, GoroutineTypes, TypesStep
<1> QED  BY <1>1, <1>2, TypesOutside, TypesCall, TypesStep DEF Next

\* Every variable has its type, ch never buffers two lists, and only a send
\* on a closed channel panics, for every backend (TypeOK).
THEOREM WatchTypeCorrect == Spec => []TypeOK
<1>1. Init => TypeOK
  BY TypesInit DEF Init, TypeOK
<1>2. TypeOK /\ [Next]_vars => TypeOK'
  <2>1. [Next]_vars => backend' = backend
    BY DEF Next, vars
  <2> QED  BY <2>1, TypesNext DEF TypeOK
<1> QED  BY <1>1, <1>2, PTL DEF Spec

(***************************************************************************)
(* Consul and ZooKeeper: one sender.  Nobody but the goroutine of Watch    *)
(* sends, and it has ended once ch is closed.                              *)
(*                                                                         *)
(* On Consul, moreover, the index stands where the list does that the      *)
(* goroutine holds, and once that is sent, where the newest list does on   *)
(* its way to the application (InStep).                                    *)
(***************************************************************************)
OneSender ==
  /\ \A h \in Helpers : go[h].pc = "none"
  /\ call.pc \in {"start", "returned"} /\ (call.pc = "start" => go[Main] = NotStarted)
  /\ closed => go[Main].pc = "ended"
  /\ ~panicked

InStep ==
  /\ call.pc = "start" => Newest = NoList
  /\ go[Main].pc \in {"query", "asked"} => go[Main].seen = Newest.ver
  /\ go[Main].pc = "send" => go[Main].seen = go[Main].list.ver

WatchInv ==
  /\ StateTypes
  /\ backend \in OneSenderBackends => OneSender
  /\ backend = "consul" => InStep

\* What a step of the goroutine of Watch does that neither sends nor closes.
Working ==
  /\ go[Main].pc \notin {"none", "ended"} /\ go'[Main].pc \notin {"none", "ended"}
  /\ \A h \in Helpers : go'[h] = go[h]
  /\ UNCHANGED <<call, chan, closed, panicked, out, got>>

LEMMA MainMoves ==
  ASSUME StateTypes, NEW l, NEW x,
         Goto(Main, l) \/ Stand(Main, l) \/ Hold(Main, x, l)
  PROVE  /\ go'[Main].pc = l /\ \A h \in Helpers : go'[h] = go[h]
         /\ Goto(Main, l) => go'[Main].list = go[Main].list /\ go'[Main].seen = go[Main].seen
<1>1. go \in [Goroutines -> Record] /\ go[Main] \in Record
  BY GoroutineTypes DEF StateTypes
<1> QED  BY <1>1, GoroutineTypes DEF Goto, Stand, Hold, Record

LEMMA AnswerMoves ==
  ASSUME StateTypes, NEW v, Answer(v)
  PROVE  /\ go[Main].pc = "asked" /\ go'[Main].pc = "send"
         /\ go'[Main].seen = v /\ go'[Main].list.ver = v
         /\ \A h \in Helpers : go'[h] = go[h]
<1>1. go \in [Goroutines -> Record] /\ go[Main] \in Record
  BY GoroutineTypes DEF StateTypes
<1> QED  BY <1>1, GoroutineTypes DEF Answer, At, Record

LEMMA WorkingSteps ==
  ASSUME StateTypes,
         \/ ConsulStep(Main) \/ WaitIsOver \/ AnswersLate
         \/ ZooKeeperStep(Main) \/ SendGivesUp(Main)
  PROVE  Working
<1> USE DEF At, Alone, Failing, outside, ch, in
<1>1. ASSUME NEW l \in {"query", "asked", "read", "send", "arm", "wait", "pause", "closing"},
             NEW x,
             Goto(Main, l) \/ Stand(Main, l) \/ Hold(Main, x, l),
             go[Main].pc \notin {"none", "ended"}, Alone \/ Failing
      PROVE  Working
  BY <1>1, MainMoves DEF Working
<1>2. CASE ConsulStep(Main) \/ WaitIsOver \/ AnswersLate
  <2>1. CASE Queries \/ QueryFails
    BY <1>1, <2>1 DEF Queries, QueryFails
  <2>2. CASE Answers \/ WaitIsOver \/ AnswersLate
    <3>1. PICK v : Answer(v)
      BY <2>2 DEF Answers, WaitIsOver, AnswersLate
    <3> QED  BY <2>2, <3>1, AnswerMoves DEF Answers, WaitIsOver, AnswersLate, Working
  <2> QED  BY <1>2, <2>1, <2>2 DEF ConsulStep
<1>3. CASE ZooKeeperStep(Main)
  <2>1. CASE ReadsChildren
    BY <1>1, <2>1 DEF ReadsChildren
  <2>2. CASE Arms
    <3>1. PICK v : go' = [go EXCEPT ![Main].pc = "wait", ![Main].seen = v]
      BY <2>2 DEF Arms
    <3>2. go'[Main].pc = "wait" /\ \A h \in Helpers : go'[h] = go[h]
      BY <3>1, GoroutineTypes DEF StateTypes, Record
    <3> QED  BY <2>2, <3>2 DEF Arms, Working
  <2>3. CASE NoNode \/ ZkFails \/ TryAgain \/ Fires \/ WaitEnds
    BY <1>1, <2>3 DEF NoNode, Pauses, ZkFails, TryAgain, Fires, WaitEnds
  <2> QED  BY <1>3, <2>1, <2>2, <2>3 DEF ZooKeeperStep
<1>4. CASE SendGivesUp(Main)
  BY <1>1, <1>4 DEF SendGivesUp
<1> QED  BY <1>2, <1>3, <1>4

LEMMA WorkingKeeps ==
  ASSUME OneSender, Working
  PROVE  OneSender'
BY DEF OneSender, Working, NotStarted

\* The steps of the goroutine of a Consul watch keep its index in step.
LEMMA ConsulKeeps ==
  ASSUME StateTypes, OneSender, InStep,
         ConsulStep(Main) \/ WaitIsOver \/ AnswersLate \/ SendGivesUp(Main)
  PROVE  InStep'
<1>1. Working
  BY WorkingSteps
<1>2. Newest' = Newest /\ call' = call /\ call.pc # "start"
  BY <1>1 DEF Working, Newest, OneSender, NotStarted
<1>3. CASE Queries \/ QueryFails
  BY <1>2, <1>3, MainMoves DEF Queries, QueryFails, At, InStep
<1>4. CASE Answers \/ WaitIsOver \/ AnswersLate
  <2>1. PICK v : Answer(v)
    BY <1>4 DEF Answers, WaitIsOver, AnswersLate
  <2> QED  BY <1>2, <2>1, AnswerMoves DEF InStep
<1>5. CASE SendGivesUp(Main)
  BY <1>2, <1>5, MainMoves DEF SendGivesUp, InStep
<1> QED  BY <1>3, <1>4, <1>5 DEF ConsulStep

LEMMA WatchInvInit == Init => OneSender /\ InStep
BY GoroutineTypes DEF Init, OneSender, InStep, Newest, NotStarted

LEMMA WatchInvStep ==
  ASSUME backend \in OneSenderBackends, WatchInv, NEW g \in Goroutines, Step(g)
  PROVE  OneSender' /\ (backend = "consul" => InStep')
<1> USE DEF WatchInv, OneSenderBackends
<1>1. CASE g # Main
  <2>1. go[g].pc = "none"
    BY <1>1, WatchAssumption DEF OneSender, Main, Helpers, Goroutines
  <2> QED  BY <1>1, <2>1 DEF Step, Send, SendGivesUp, At, ConsulStep, ZooKeeperStep
<1>2. CASE g = Main /\ Send(g)
  <2>1. /\ go[Main].pc = "send" /\ ~closed /\ chan' = <<go[Main].list>>
        /\ Goto(Main, AfterSend)
        /\ UNCHANGED <<call, closed, panicked>>
    BY <1>2 DEF Send, OneSender, At, Puts, Panics, outside
  <2>2. /\ go'[Main].pc = AfterSend /\ go'[Main].seen = go[Main].seen
        /\ \A h \in Helpers : go'[h] = go[h]
    BY <2>1, MainMoves
  <2>3. OneSender'
    BY <2>1, <2>2 DEF OneSender, NotStarted
  <2>4. Newest' = go[Main].list /\ call.pc # "start"
    BY <2>1 DEF Newest, OneSender, NotStarted
  <2>5. backend = "consul" => InStep'
    BY <2>1, <2>2, <2>4 DEF InStep, AfterSend
  <2> QED  BY <2>3, <2>5
<1>3. CASE g = Main /\ CloseChan
  <2>1. /\ go[Main].pc = "closing" /\ Goto(Main, "ended")
        /\ UNCHANGED <<call, chan, panicked, out>>
    BY <1>3 DEF CloseChan, At, outside, in
  <2>2. go'[Main].pc = "ended" /\ \A h \in Helpers : go'[h] = go[h]
    BY <2>1, MainMoves
  <2> QED  BY <2>1, <2>2 DEF OneSender, InStep, Newest, NotStarted
<1>4. CASE g = Main /\ ~Send(g) /\ ~CloseChan
  <2>1. Working
    BY <1>4, WorkingSteps DEF Step
  <2>2. backend = "consul" => InStep'
    BY <1>4, ConsulKeeps DEF Step
  <2> QED  BY <2>1, <2>2, WorkingKeeps
<1> QED  BY <1>1, <1>2, <1>3, <1>4 DEF Step

LEMMA WatchInvNext ==
  ASSUME backend \in OneSenderBackends, WatchInv, [Next]_vars
  PROVE  OneSender' /\ (backend = "consul" => InStep')
<1> USE DEF WatchInv, OneSenderBackends, outside, ch, in
<1>1. CASE UNCHANGED vars
  BY <1>1 DEF vars, OneSender, InStep, Newest
<1>2. CASE RegistryChanges \/ CtxDone \/ AppLeaves \/ \E s \in Sessions : SessionFollows(s)
  BY <1>2 DEF RegistryChanges, CtxDone, AppLeaves, SessionFollows, OneSender, InStep, Newest
<1>3. CASE CallStep
  <2>1. PICK l \in {"query", "read"} : Watch(l)
    BY <1>3 DEF CallStep
  <2>2. /\ go'[Main].pc = l /\ go'[Main].seen = go[Main].seen
        /\ \A h \in Helpers : go'[h] = go[h]
    BY <2>1, MainMoves DEF Watch
  <2>3. /\ go[Main] = NotStarted /\ call'.pc = "returned"
        /\ UNCHANGED <<closed, panicked, chan, out>>
    BY <2>1 DEF Watch, Calling, OneSender, StateTypes
  <2>4. OneSender'
    BY <2>2, <2>3 DEF OneSender, NotStarted
  <2>5. backend = "consul" => InStep'
    BY <2>1, <2>2, <2>3 DEF Watch, Calling, InStep, Newest, NotStarted, NoList
  <2> QED  BY <2>4, <2>5
<1>4. CASE Receive
  <2>1. Head(chan) = chan[1]
    BY <1>4 DEF Receive, StateTypes
  <2>2. Newest' = Newest /\ UNCHANGED <<go, call, closed, panicked>>
    BY <1>4, <2>1 DEF Receive, Newest
  <2> QED  BY <2>2 DEF OneSender, InStep
<1>5. CASE Deliver \/ EndOfRange
  <2>1. out'.list = out.list
    BY <1>5 DEF Deliver, EndOfRange, StateTypes
  <2>2. Newest' = Newest /\ UNCHANGED <<go, call, closed, panicked>>
    BY <1>5, <2>1 DEF Deliver, EndOfRange, Newest
  <2> QED  BY <2>2 DEF OneSender, InStep
<1>6. CASE \E g \in Goroutines : Step(g)
  BY <1>6, WatchInvStep
<1>7. CASE backend = "consul" /\ (WaitIsOver \/ AnswersLate)
  BY <1>7, WorkingSteps, WorkingKeeps, ConsulKeeps
<1> QED  BY <1>1, <1>2, <1>3, <1>4, <1>5, <1>6, <1>7 DEF Next, OutStep

LEMMA WatchInvariant == Spec => []WatchInv
<1>1. Init => WatchInv
  BY TypesInit, WatchInvInit DEF WatchInv
<1>2. WatchInv /\ [Next]_vars => WatchInv'
  <2> SUFFICES ASSUME WatchInv, [Next]_vars PROVE WatchInv'
    OBVIOUS
  <2>1. StateTypes' /\ backend' = backend
    BY TypesNext DEF WatchInv, Next, vars
  <2>2. /\ backend \in OneSenderBackends => OneSender'
        /\ backend = "consul" => InStep'
    BY WatchInvNext DEF OneSenderBackends
  <2> QED  BY <2>1, <2>2 DEF WatchInv
<1> QED  BY <1>1, <1>2, PTL DEF Spec

\* A Watch of Consul or ZooKeeper never sends on the closed channel, whatever
\* fails and whoever stops reading (OneSenderNeverPanics).
THEOREM WatchNeverPanics == Spec => []OneSenderNeverPanics
<1>1. WatchInv => OneSenderNeverPanics
  BY DEF WatchInv, OneSender, OneSenderNeverPanics
<1> QED  BY <1>1, WatchInvariant, PTL

\* The index at which a Consul watch waits is always that of the list it has
\* sent last, wherever that list is by now, whatever queries failed and
\* however late an answer came (AsksAfterNewest).
THEOREM IndexFollowsList == Spec => []AsksAfterNewest
<1>1. WatchInv => AsksAfterNewest
  BY DEF WatchInv, InStep, AsksAfterNewest
<1> QED  BY <1>1, WatchInvariant, PTL
=============================================================================
