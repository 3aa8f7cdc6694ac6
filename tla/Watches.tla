------------------------------ MODULE Watches ------------------------------
(***************************************************************************)
(* Watch of a discovery backend for one service, with the GetInstances it  *)
(* calls, up to the list that the application receives from                *)
(* DiscoveryWithLB.Watch.  Every backend makes a channel ch of capacity 1  *)
(* and starts a goroutine that sends lists on it; etcd and Nacos start     *)
(* further senders when something fails.  What is sent is the state of the *)
(* registry at a read, so a list is identified with the version read; a    *)
(* ZooKeeper list may lack children whose data could not be read.          *)
(*                                                                         *)
(* The registry is external.  It answers with its present state, but for   *)
(* two kinds of reads that may be late: ZooKeeper's are made through       *)
(* the sessions of a pool, each of which follows the registry on its own,  *)
(* and Consul may answer from a server that has been left behind.  Clients *)
(* always come back from the pool (see ClientPool), re-registration is in  *)
(* Registration, the merge of a list into the cache in DiscoveryLB.        *)
(***************************************************************************)
EXTENDS Naturals, Sequences

CONSTANTS
  Backends,      \* the backends to consider
  MaxVersion,    \* bound: versions of the service's entries in the registry
  Empty,         \* the versions at which the service has no instance
  Absent,        \* those of them before its first registration
  Sessions,      \* the ZooKeeper sessions of the pool
  MaxHelpers,    \* bound: senders besides the goroutine of Watch
  MaxFaults      \* MaxFaults[b], a bound: failures when the backend is b

ASSUME WatchAssumption ==
  /\ Backends \subseteq {"etcd", "consul", "zookeeper", "nacos"}
  /\ MaxVersion \in Nat \ {0} /\ MaxHelpers \in Nat \ {0}
  /\ MaxFaults \in [Backends -> Nat]
  /\ Absent \subseteq Empty /\ Empty \subseteq 1..MaxVersion
  /\ Sessions # {}

Main       == 0                       \* the goroutine that Watch starts
Helpers    == 1..MaxHelpers           \* recoverWatch; Nacos subscriptions
Goroutines == Main..MaxHelpers
List   == [ver: 0..MaxVersion, whole: BOOLEAN]
NoList == [ver |-> 0, whole |-> TRUE]

Record == [pc: {"none", "open", "recv", "read", "send", "query", "asked", "arm", "wait",
                "pause", "subscribe", "closing", "ended"},
           list: List, seen: 0..MaxVersion, stream: {"none", "open", "error", "closed"}]
NotStarted == [pc |-> "none", list |-> NoList, seen |-> 0, stream |-> "none"]

VARIABLES
  backend,       \* the backend of this discovery
  registry,      \* the version of the service's entries
  view,          \* view[s]: the version that session s of ZooKeeper has reached
  session,       \* the session on which the goroutine has armed its watch
  ctx,           \* the context of Watch: "live" or "done"
  call,          \* the call of Watch, [pc, list]
  go,            \* go[g]: where goroutine g is, the list it has in hand, the version
                 \* its stream, index or watch stands at, its stream or subscription
  chan, closed,  \* ch: what it buffers, and whether it is closed
  panicked,      \* a goroutine has sent on the closed channel
  out,           \* the goroutine of DiscoveryWithLB.Watch, [pc, list]
  app, got,      \* whether the application reads outCh, and the last list it took
  faults         \* failures so far (at most MaxFaults[backend])

zk      == <<view, session>>
outside == <<registry, zk, ctx, call>>
ch      == <<chan, closed, panicked>>
in      == <<out, app, got>>
vars    == <<backend, outside, go, ch, in, faults>>

Present == [ver |-> registry, whole |-> TRUE]

\* A panic ends the process.
At(g, l)      == ~panicked /\ go[g].pc = l
Calling(l)    == ~panicked /\ call.pc = l
Forwarding(l) == ~panicked /\ out.pc = l

Goto(g, l)     == go' = [go EXCEPT ![g].pc = l]
Hold(g, l, p)  == go' = [go EXCEPT ![g].pc = p, ![g].list = l]
Stand(g, p)    == go' = [go EXCEPT ![g].pc = p, ![g].seen = registry]

Fault == faults < MaxFaults[backend] /\ faults' = faults + 1

\* A step that changes go alone, without and with a failure.
Alone   == UNCHANGED <<outside, ch, in, faults>>
Failing == Fault /\ UNCHANGED <<outside, ch, in>>

(***************************************************************************)
(* The registry, the context and the consumers.                            *)
(***************************************************************************)
RegistryChanges ==
  /\ registry < MaxVersion /\ registry' = registry + 1
  /\ UNCHANGED <<zk, ctx, call, go, ch, in, faults>>

\* The server that a session is connected to applies the next change.
SessionFollows(s) ==
  /\ backend = "zookeeper" /\ view[s] < registry
  /\ view' = [view EXCEPT ![s] = @ + 1]
  /\ UNCHANGED <<registry, session, ctx, call, go, ch, in, faults>>

CtxDone ==
  /\ ctx = "live" /\ ctx' = "done"
  /\ UNCHANGED <<registry, zk, call, go, ch, in, faults>>

\* DiscoveryWithLB ranges over ch, once Watch has given it ch ...
Receive ==
  /\ Forwarding("recv") /\ call.pc = "returned" /\ chan # <<>>
  /\ chan' = <<>>
  /\ out' = [pc |-> "send", list |-> Head(chan)]
  /\ UNCHANGED <<outside, go, closed, panicked, app, got, faults>>

\* ... hands the application each list on outCh, which has no buffer ...
Deliver ==
  /\ Forwarding("send") /\ app = "reads"
  /\ got' = out.list
  /\ out' = [out EXCEPT !.pc = "recv"]
  /\ UNCHANGED <<outside, go, ch, app, faults>>

\* ... and closes outCh when ch is closed and empty.
EndOfRange ==
  /\ Forwarding("recv") /\ call.pc = "returned" /\ chan = <<>> /\ closed
  /\ out' = [out EXCEPT !.pc = "ended"]
  /\ UNCHANGED <<outside, go, ch, app, got, faults>>

\* The application stops reading when ctx is done, as the examples do.
AppLeaves ==
  /\ ctx = "done" /\ app = "reads" /\ app' = "gone"
  /\ UNCHANGED <<outside, go, ch, out, got, faults>>

(***************************************************************************)
(* Sending.  select { case ch <- instances: case <-ctx.Done(): return }    *)
(* takes any ready case, and a send on a closed channel is ready: it       *)
(* panics.                                                                 *)
(***************************************************************************)
\* Variant: ch has no limit.
PutsMore(l) ==
  /\ ~closed /\ chan' = Append(chan, l)
  /\ UNCHANGED <<closed, panicked>>

Puts(l) ==
  /\ ~closed /\ chan = <<>> /\ chan' = <<l>>
  /\ UNCHANGED <<closed, panicked>>

Panics == closed /\ panicked' = TRUE /\ UNCHANGED <<chan, closed>>

AfterSend == CASE backend = "consul"    -> "query"
               [] backend = "zookeeper" -> "arm"
               [] OTHER                 -> "recv"

Send(g) ==
  /\ At(g, "send")
  /\ \/ Puts(go[g].list) /\ Goto(g, AfterSend)
     \/ Panics /\ UNCHANGED go
  /\ UNCHANGED <<outside, in, faults>>

\* The goroutine of Watch returns and closes ch; a Nacos callback returns to
\* the SDK.
SendGivesUp(g) ==
  /\ At(g, "send") /\ ctx = "done"
  /\ Goto(g, IF g = Main THEN "closing" ELSE IF backend = "nacos" THEN "recv" ELSE "ended")
  /\ Alone

\* Variant: ch is closed where the context is found done, without a return.
CloseAndGoOn ==
  /\ At(Main, "closing") /\ closed' = TRUE
  /\ Goto(Main, "send")
  /\ UNCHANGED <<outside, chan, panicked, in, faults>>

CloseChan ==
  /\ At(Main, "closing") /\ closed' = TRUE
  /\ Goto(Main, "ended")
  /\ UNCHANGED <<outside, chan, panicked, in, faults>>

\* Watch of Consul, ZooKeeper and Nacos starts its goroutine and returns ch.
Watch(first) ==
  /\ Calling("start")
  /\ call' = [call EXCEPT !.pc = "returned"]
  /\ Goto(Main, first)
  /\ UNCHANGED <<registry, zk, ctx, ch, in, faults>>

(***************************************************************************)
(* etcd.  Watch opens a stream, starts the goroutine that answers each     *)
(* response with a read of the list, reads the list itself, and sends it   *)
(* on ch unless it is empty, before anybody can receive from ch.           *)
(***************************************************************************)
Opens(g) ==
  go' = [go EXCEPT ![g] = [@ EXCEPT !.pc = "recv", !.seen = registry, !.stream = "open"]]

EtcdWatch ==
  /\ Calling("start") /\ Opens(Main)
  /\ call' = [call EXCEPT !.pc = "read"]
  /\ UNCHANGED <<registry, zk, ctx, ch, in, faults>>

WatchReads ==
  /\ Calling("read")
  /\ \/ /\ call' = [pc |-> IF registry \in Empty THEN "returned" ELSE "send", list |-> Present]
        /\ UNCHANGED faults
     \/ call' = [call EXCEPT !.pc = "failed"] /\ Fault
  /\ UNCHANGED <<registry, zk, ctx, go, ch, in>>

\* Variant: the stream is opened by Watch's last step.
WatchSendsThenOpens ==
  /\ Calling("send") /\ Puts(call.list)
  /\ call' = [call EXCEPT !.pc = "returned"]
  /\ go' = [go EXCEPT ![Main].seen = registry]
  /\ UNCHANGED <<registry, zk, ctx, in, faults>>

\* A plain send: no case for the context.
WatchSends ==
  /\ Calling("send")
  /\ \/ Puts(call.list) /\ call' = [call EXCEPT !.pc = "returned"]
     \/ Panics /\ UNCHANGED call
  /\ UNCHANGED <<registry, zk, ctx, go, in, faults>>

\* A response arrives: changes since the last one, or the stream's error,
\* which only recoverWatch looks for.
Response(g) ==
  /\ At(g, "recv") /\ go[g].stream = "open" /\ go[g].seen # registry
  /\ Stand(g, "read")
  /\ Alone

ErrorResponse(g) ==
  /\ At(g, "recv") /\ go[g].stream = "error"
  /\ go' = [go EXCEPT ![g].stream = "closed", ![g].pc = IF g = Main THEN "read" ELSE "recv"]
  /\ Alone

Reads(g) == At(g, "read") /\ Hold(g, Present, "send") /\ Alone

\* The list cannot be read: the goroutine of Watch starts recoverWatch.
ReadFails(g) ==
  /\ At(g, "read")
  /\ \/ g # Main /\ Goto(g, "recv")
     \/ g = Main /\ \E h \in Helpers :
          At(h, "none") /\ go' = [go EXCEPT ![g].pc = "recv", ![h].pc = "open"]
  /\ Failing

RecoverWatch(h) == At(h, "open") /\ Opens(h) /\ Alone

\* The server cancels the stream (its revision was compacted).
StreamBreaks(g) ==
  /\ go[g].stream = "open" /\ go' = [go EXCEPT ![g].stream = "error"]
  /\ Failing

\* The stream is closed, after its error or because ctx is done.
StreamEnds(g) ==
  /\ At(g, "recv") /\ (go[g].stream = "closed" \/ ctx = "done")
  /\ Goto(g, IF g = Main THEN "closing" ELSE "ended")
  /\ Alone

EtcdStep(g) ==
  \/ Response(g) \/ ErrorResponse(g) \/ Reads(g) \/ ReadFails(g) \/ StreamEnds(g)
  \/ g # Main /\ RecoverWatch(g)

(***************************************************************************)
(* Consul.  A blocking query that waits for an index above the last one,   *)
(* which is that of the last answer.  WithRetry makes no attempt once ctx  *)
(* is done: the loop then goes round for ever.  A query under way when ctx *)
(* is done goes on.                                                        *)
(***************************************************************************)
Queries == At(Main, "query") /\ ctx = "live" /\ Goto(Main, "asked") /\ Alone

\* Variant: the index does not go back.
AnswerOnly(v) ==
  /\ At(Main, "asked")
  /\ go' = [go EXCEPT ![Main].pc = "send", ![Main].list = [ver |-> v, whole |-> TRUE],
                     ![Main].seen = IF v > @ THEN v ELSE @]

\* The answer with version v: its list, and its index for the next query.
Answer(v) ==
  /\ At(Main, "asked")
  /\ go' = [go EXCEPT ![Main] = [@ EXCEPT !.pc = "send", !.seen = v,
                                          !.list = [ver |-> v, whole |-> TRUE]]]

Answers == registry > go[Main].seen /\ Answer(registry) /\ Alone

\* Without a change, when the query has waited long enough ...
WaitIsOver == Answer(registry) /\ Alone

\* ... or from a server that does not know it is left behind: with an older
\* list and an older index, maybe older than those of the last answer.
AnswersLate == (\E v \in 1..registry : v < registry /\ Answer(v)) /\ Failing

\* After the retries: the loop goes round.
QueryFails == At(Main, "asked") /\ Goto(Main, "query") /\ Failing

ConsulStep(g) == g = Main /\ (Queries \/ Answers \/ QueryFails)

(***************************************************************************)
(* ZooKeeper.  Read, send, arm a one-shot watch on the children, wait.     *)
(* Each call takes a session of the pool, whichever is in front.  A read   *)
(* or an arming that fails is tried again after a second, whether or not   *)
(* ctx is done; it fails as long as the session knows no node of the       *)
(* service.                                                                *)
(***************************************************************************)
Pauses == At(Main, "read") \/ At(Main, "arm")

NoNode   == Pauses /\ (\E s \in Sessions : view[s] \in Absent) /\ Goto(Main, "pause") /\ Alone
ZkFails  == Pauses /\ Goto(Main, "pause") /\ Failing
TryAgain == At(Main, "pause") /\ Goto(Main, "read") /\ Alone

\* A child whose data cannot be read is left out of the list.
ReadsChildren ==
  /\ At(Main, "read")
  /\ \E s \in Sessions :
       /\ view[s] \notin Absent
       /\ \/ Hold(Main, [ver |-> view[s], whole |-> TRUE], "send") /\ Alone
          \/ Hold(Main, [ver |-> view[s], whole |-> FALSE], "send") /\ Failing

Arms ==
  /\ At(Main, "arm")
  /\ \E s \in Sessions :
       /\ view[s] \notin Absent
       /\ session' = s
       /\ go' = [go EXCEPT ![Main].pc = "wait", ![Main].seen = view[s]]
  /\ UNCHANGED <<registry, view, ctx, call, ch, in, faults>>

\* The watch fires with a change or when the session ends.
Fires ==
  /\ At(Main, "wait") /\ Goto(Main, "read")
  /\ \/ go[Main].seen # view[session] /\ Alone
     \/ Failing

\* Variant: the goroutine waits for the watch alone.
WaitOutlivesCtx == At(Main, "wait") /\ ctx = "done" /\ UNCHANGED vars

WaitEnds == At(Main, "wait") /\ ctx = "done" /\ Goto(Main, "closing") /\ Alone

ZooKeeperStep(g) ==
  g = Main /\ (ReadsChildren \/ Arms \/ NoNode \/ ZkFails \/ TryAgain \/ Fires \/ WaitEnds)

(***************************************************************************)
(* Nacos.  The goroutine subscribes and waits for ctx; the SDK calls back  *)
(* with the present list and then with each change, one call at a time for *)
(* a subscription.  Subscription 1 is that of Watch.                       *)
(***************************************************************************)
Subscribes ==
  /\ At(Main, "subscribe")
  /\ \/ /\ go' = [go EXCEPT ![Main].pc = "wait", ![1].pc = "recv", ![1].stream = "open"]
        /\ Alone
     \/ Goto(Main, "closing") /\ Failing

Due(h) == At(h, "recv") /\ go[h].stream = "open" /\ go[h].seen # registry

CallsBack(h) ==
  /\ Due(h)
  /\ go' = [go EXCEPT ![h] = [@ EXCEPT !.pc = "send", !.list = Present, !.seen = registry]]
  /\ Alone

\* Variant: the error is logged, in the callback of Watch too.
ErrorIsLogged(h) == Due(h) /\ Stand(h, "recv") /\ Failing

\* The SDK reports an error instead: the callback of Watch starts
\* recoverSubscribe.  (That of recoverSubscribe logs it.)
CallsBackWithError(h) ==
  /\ Due(h)
  /\ \/ h # 1 /\ Stand(h, "recv")
     \/ h = 1 /\ \E n \in Helpers :
          At(n, "none") /\ go' = [go EXCEPT ![h].seen = registry, ![n].pc = "subscribe"]
  /\ Failing

\* recoverSubscribe subscribes a second time, whether or not ctx is done,
\* and nothing ever cancels it.
Resubscribes(h) ==
  /\ At(h, "subscribe")
  /\ \/ go' = [go EXCEPT ![h].pc = "recv", ![h].stream = "open"] /\ Alone
     \/ Goto(h, "ended") /\ Failing

Unsubscribes ==
  /\ At(Main, "wait") /\ ctx = "done"
  /\ go' = [go EXCEPT ![Main].pc = "closing", ![1].stream = "closed"]
  /\ Alone

NacosStep(g) ==
  \/ g = Main /\ (Subscribes \/ Unsubscribes)
  \/ g # Main /\ (CallsBack(g) \/ CallsBackWithError(g) \/ Resubscribes(g))

(***************************************************************************)
(* The system.                                                             *)
(***************************************************************************)
Init ==
  /\ backend \in Backends
  /\ registry = 1 /\ view = [s \in Sessions |-> registry]
  /\ session = CHOOSE s \in Sessions : TRUE
  /\ ctx = "live" /\ faults = 0
  /\ call = [pc |-> "start", list |-> NoList]
  /\ go = [g \in Goroutines |-> NotStarted]
  /\ chan = <<>> /\ closed = FALSE /\ panicked = FALSE
  /\ out = [pc |-> "recv", list |-> NoList] /\ app = "reads" /\ got = NoList

CallStep ==
  \/ backend = "etcd" /\ (EtcdWatch \/ WatchReads \/ WatchSends)
  \/ backend = "consul" /\ Watch("query")
  \/ backend = "zookeeper" /\ Watch("read")
  \/ backend = "nacos" /\ Watch("subscribe")

Step(g) ==
  \/ Send(g) \/ SendGivesUp(g)
  \/ g = Main /\ CloseChan
  \/ backend = "etcd" /\ EtcdStep(g)
  \/ backend = "consul" /\ ConsulStep(g)
  \/ backend = "zookeeper" /\ ZooKeeperStep(g)
  \/ backend = "nacos" /\ NacosStep(g)

OutStep == Receive \/ Deliver \/ EndOfRange

Next ==
  /\ \/ RegistryChanges \/ CtxDone \/ AppLeaves \/ CallStep \/ OutStep
     \/ \E g \in Goroutines : Step(g)
     \/ \E s \in Sessions : SessionFollows(s)
     \/ backend = "etcd" /\ \E g \in Goroutines : StreamBreaks(g)
     \/ backend = "consul" /\ (WaitIsOver \/ AnswersLate)
  /\ UNCHANGED backend

Spec == Init /\ [][Next]_vars

\* Every goroutine is scheduled, the application calls Watch and reads outCh
\* until it leaves, and a select takes each of its ready cases sooner or
\* later; every session follows the registry.  No failure has to happen, and
\* Consul need not answer without a change.
Goes(A) == A /\ UNCHANGED <<backend, faults>>

Fairness ==
  /\ WF_vars(Goes(CallStep)) /\ WF_vars(Goes(OutStep))
  /\ \A g \in Goroutines : WF_vars(Goes(Step(g))) /\ SF_vars(Goes(SendGivesUp(g)))
  /\ SF_vars(Goes(backend = "zookeeper" /\ WaitEnds))
  /\ \A s \in Sessions : WF_vars(Goes(SessionFollows(s)))

FairSpec == Spec /\ Fairness

(***************************************************************************)
(* Properties.  A Watch of Consul or ZooKeeper has one sender; etcd has    *)
(* Watch itself and recoverWatch, Nacos has the SDK's callbacks.           *)
(***************************************************************************)
OneSenderBackends == {"consul", "zookeeper"}

\* Types; ch holds at most one list, and only a closed one makes a sender
\* panic.
StateTypes ==
  /\ registry \in 1..MaxVersion /\ view \in [Sessions -> 1..MaxVersion] /\ session \in Sessions
  /\ ctx \in {"live", "done"} /\ faults \in Nat
  /\ call \in [pc: {"start", "read", "send", "returned", "failed"}, list: List]
  /\ go \in [Goroutines -> Record]
  /\ chan \in Seq(List) /\ Len(chan) <= 1
  /\ closed \in BOOLEAN /\ panicked \in BOOLEAN /\ (panicked => closed)
  /\ out \in [pc: {"recv", "send", "ended"}, list: List]
  /\ app \in {"reads", "gone"} /\ got \in List

TypeOK == backend \in Backends /\ StateTypes

\* "Properly cleans up resources (connections, listeners) when the
\* application terminates": with one sender nobody sends on ch after it was
\* closed, which would end the process, whatever fails and whoever leaves.
OneSenderNeverPanics == backend \in OneSenderBackends => ~panicked

\* The newest list on its way to the application, or there.
Newest == IF chan # <<>> THEN chan[1] ELSE out.list

\* Consul waits for changes after exactly the list that is on its way to the
\* application, in ch, with the goroutine of DiscoveryWithLB or delivered:
\* whatever queries fail, and if an answer is older than the one before, the
\* index goes back with it, so that no change is passed over.
AsksAfterNewest ==
  backend = "consul" /\ go[Main].pc \in {"query", "asked"} => go[Main].seen = Newest.ver

\* The watch is in service.  (Changes stop at MaxVersion at the latest.)
InService == ctx = "live" /\ call.pc = "returned" /\ ~closed

\* The application has the registry's list, or nothing was ever delivered of a
\* service that has no instance.
UpToDate == got = Present \/ (got = NoList /\ registry \in Empty)

\* The last list that a backend delivers is the registry's, if changes stop:
\* on Consul whatever failed before, on etcd and Nacos if nothing has.
MayMiss == backend = "zookeeper" \/ (backend # "consul" /\ faults > 0)

\* "Real-time monitoring of service changes": when changes stop, the last
\* list the application gets is the registry's, whatever the order of the
\* reads, the responses and the sends on ch.
LastListIsCurrent == <>[](InService /\ ~MayMiss) => <>[]UpToDate

\* Where a Nacos callback reports an error instead of a list, that list is
\* not lost: the application gets the registry's last list, at some time.
LatestIsDelivered ==
  \A v \in 1..MaxVersion :
    <>[](InService /\ registry = v /\ backend = "nacos" /\ faults <= 1)
      => <>(registry = v /\ UpToDate)

\* Not so on Consul, nor on ZooKeeper for a service that was never registered.
Noticed == backend # "consul" /\ (backend = "zookeeper" => registry \notin Absent)

\* "Properly cleans up resources": once ctx is done, the goroutine of Watch
\* ends, and that of DiscoveryWithLB.Watch where the application reads on (or
\* the process is gone): also from the pauses after reads that failed, unless
\* they fail for ever.
WatchEnds ==
  ctx = "done" /\ call.pc = "returned" /\ Noticed
    ~> panicked \/ (At(Main, "ended") /\ (out.pc = "ended" \/ app = "gone"))

(***************************************************************************)
(* What the documentation says and the code does not do                    *)
(***************************************************************************)
\* Graceful shutdown, for every backend: no goroutine sends on a closed ch
\* (etcd and Nacos do).
NoSendOnClosed == ~panicked

\* Real-time monitoring, for every backend and whatever has failed before
\* (ZooKeeper misses a change between the read and the arming of its watch,
\* etcd one after a list that could not be read).
EveryChangeArrives == <>[]InService => <>[]UpToDate

\* Graceful shutdown: the goroutine of DiscoveryWithLB.Watch ends where the
\* application returns when its context is done (it may wait to send for
\* ever).
ForwarderEnds == ctx = "done" /\ call.pc = "returned" ~> panicked \/ out.pc = "ended"

\* Graceful shutdown, whatever service is watched (ZooKeeper reads and sleeps
\* for ever where there is none, and Consul tries to).
WatchEndsAnyhow == ctx = "done" /\ call.pc = "returned" ~> panicked \/ At(Main, "ended")

\* Real-time monitoring: the application never gets a list that is older than
\* one it has got (with ZooKeeper's sessions it does).
NeverGoesBack == [][got'.ver >= got.ver]_vars

\* Watch returns (that of etcd may wait to send on ch for ever).
WatchReturns == call.pc = "read" ~> call.pc \in {"returned", "failed"}
=============================================================================
