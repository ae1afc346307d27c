---------------------------- MODULE VmMessaging ----------------------------
(***************************************************************************)
(* Message passing between Lua VMs (src/easyLuaLib/service).               *)
(*                                                                         *)
(* Every VM is one Lua state run by one OS thread; the thread is the       *)
(* process of this model.  A VM belongs to a service.  A message goes      *)
(* either to a VM (sendByVmId, iAmReady) or to a service                   *)
(* (sendByServiceName), which hands it to the first idle VM of the service *)
(* or, if it sees none, parks it on a queue of the service that the        *)
(* service's VMs look at when their own queue is empty (popMsg).           *)
(*                                                                         *)
(* The mutexes cVmContext::mutex_ and cServiceInfo::mutex_ are explicit.   *)
(* cBlockQueue's own mutex is a leaf held for one queue operation, so such *)
(* an operation is atomic.  A step ends wherever another thread can see    *)
(* or change what comes next.                                              *)
(*                                                                         *)
(* The population of VMs is fixed here (after every __new__).              *)
(***************************************************************************)
EXTENDS Integers, Sequences, FiniteSets

CONSTANTS
    Vm,             \* handles of the VMs (std::map iterates in handle order)
    Service,        \* the services
    ServiceOf,      \* the service of every VM
    MaxSends,       \* bound: messages and failed sends of each VM
    MaxReports,     \* bound: calls of iAmReady by each VM
    SessionMax,     \* INT_MAX, scaled down
    GarbageSession, \* what the uninitialised sessionId may hold
    NoVm            \* "no thread" (a free mutex)

SessionInt == (-SessionMax - 1) .. SessionMax

ASSUME VmAssumption ==
    /\ Vm \subseteq Nat \ {0}
    /\ IsFiniteSet(Vm)
    /\ NoVm \notin Vm
    /\ ServiceOf \in [Vm -> Service]

ASSUME BoundAssumption ==
    /\ MaxSends \in [Vm -> Nat]
    /\ MaxReports \in [Vm -> Nat]
    /\ SessionMax \in Nat \ {0}
    /\ GarbageSession \subseteq SessionInt

VARIABLES
    \* cVmContext
    bIdle,      \* the VMs whose bIdle is set
    msgQueue,   \* msgQueue[v]: the VM's own queue, msgQueue_
    vmLock,     \* vmLock[v]: the thread inside v's mutex_
    sessionId,  \* sessionId[v]
    async,      \* the VMs whose loop has a wake-up of uv_async_send pending
    \* cServiceInfo
    svcQueue,   \* svcQueue[s]: the service's queue, msgQueue
    svcLock,    \* svcLock[s]: the thread inside pushMsg2FreeVm of s
    \* the VM's thread
    mode,       \* what the script is doing: in uv_run, draining, other event
    pc,         \* where in a C++ call the thread is
    cur,        \* the Message being sent by the call
    todo,       \* VMs the call's loop over a map has still to visit
    target,     \* the VM the call pushes to
    \* history
    seq,        \* number of messages and failed sends of each VM
    reports,    \* number of iAmReady calls of each VM
    delivered   \* delivered[v]: what getInternalMsgNonBlock returned on v

ctxVars == <<bIdle, msgQueue, vmLock, sessionId, async>>
svcVars == <<svcQueue, svcLock>>
callVars == <<pc, cur, todo, target>>
histVars == <<seq, reports, delivered>>
vars == <<ctxVars, svcVars, mode, callVars, histVars>>

\* message.h: the payload (data, sz) is never looked at by the service layer;
\* seq is the history variable that identifies a message, kind and dest the
\* call that made it and the destination it named.
Message ==
    [src : Vm, seq : Nat, kind : {"service"}, dest : Service, session : SessionInt]
        \cup [src : Vm, seq : Nat, kind : {"vm", "report"}, dest : Vm, session : SessionInt]

NoMsg == [src |-> NoVm]

VmsOf(s) == {v \in Vm : ServiceOf[v] = s}

\* The VM a std::map iteration visits next.
IsNext(w, set) == w \in set /\ \A u \in set : w <= u

\* A lone signed ++ on INT_MAX wraps on the targets of this build.
Increment(x) == IF x = SessionMax THEN -SessionMax - 1 ELSE x + 1

\* Mutants of NewSession: the wrap is forgotten; the test for <= 0 is forgotten.
NewSessionNoWrap(x) == x + 1
NewSessionNoReset(x) == Increment(x)

\* cVmContext::newSession: the value returned and stored.
NewSession(x) == IF Increment(x) <= 0 THEN 1 ELSE Increment(x)

NewMessage(v, kind, dest) ==
    [src |-> v, seq |-> seq[v] + 1, kind |-> kind, dest |-> dest,
     session |-> IF kind = "report" THEN 0 ELSE NewSession(sessionId[v])]

\* The calling convention: Goto changes where v's thread is.
Goto(v, l) == pc' = [pc EXCEPT ![v] = l]

\* The script of v has control: it may call into the library.
InScript(v) == mode[v] # "loop" /\ pc[v] = "script"

Init ==
    /\ bIdle = Vm
    /\ msgQueue = [v \in Vm |-> <<>>]
    /\ vmLock = [v \in Vm |-> NoVm]
    /\ sessionId \in [Vm -> GarbageSession]
    /\ async = {}
    /\ svcQueue = [s \in Service |-> <<>>]
    /\ svcLock = [s \in Service |-> NoVm]
    /\ mode = [v \in Vm |-> "loop"]
    /\ pc = [v \in Vm |-> "script"]
    /\ cur = [v \in Vm |-> NoMsg]
    /\ todo = [v \in Vm |-> {}]
    /\ target = [v \in Vm |-> NoVm]
    /\ seq = [v \in Vm |-> 0]
    /\ reports = [v \in Vm |-> 0]
    /\ delivered = [v \in Vm |-> <<>>]

-----------------------------------------------------------------------------
(* The event loop of the VM and its script (external). *)

\* uv_run finds the async request: the pending mark is cleared, then the
\* callback starts a drain loop over getInternalMsgNonBlock.
LoopWake(v) ==
    /\ mode[v] = "loop"
    /\ v \in async
    /\ async' = async \ {v}
    /\ mode' = [mode EXCEPT ![v] = "drain"]
    /\ UNCHANGED <<bIdle, msgQueue, vmLock, sessionId, svcVars, callVars, histVars>>

\* A timer, socket or other callback of the script runs.
LoopEvent(v) ==
    /\ mode[v] = "loop"
    /\ mode' = [mode EXCEPT ![v] = "event"]
    /\ UNCHANGED <<ctxVars, svcVars, callVars, histVars>>

EventDone(v) ==
    /\ mode[v] = "event"
    /\ pc[v] = "script"
    /\ mode' = [mode EXCEPT ![v] = "loop"]
    /\ UNCHANGED <<ctxVars, svcVars, callVars, histVars>>

-----------------------------------------------------------------------------
(* thisVM.cpp: the calls that send. *)

\* What sendByVmId and sendByServiceName do before they look up the
\* destination: build the Message with a new session (newSession locks the
\* sender's own mutex).
BeginSend(v) ==
    /\ InScript(v)
    /\ seq[v] < MaxSends[v]
    /\ vmLock[v] = NoVm
    /\ sessionId' = [sessionId EXCEPT ![v] = NewSession(@)]
    /\ seq' = [seq EXCEPT ![v] = @ + 1]
    /\ UNCHANGED <<bIdle, msgQueue, vmLock, async, svcVars, mode, todo, reports, delivered>>

SendByVmId(v, w) ==
    /\ BeginSend(v)
    /\ cur' = [cur EXCEPT ![v] = NewMessage(v, "vm", w)]
    /\ target' = [target EXCEPT ![v] = w]
    /\ Goto(v, "push")

SendByServiceName(v, s) ==
    /\ BeginSend(v)
    /\ cur' = [cur EXCEPT ![v] = NewMessage(v, "service", s)]
    /\ Goto(v, "svcLock")
    /\ UNCHANGED target

\* The id or the name is not registered: false is returned, the session is used up.
SendMiss(v) ==
    /\ BeginSend(v)
    /\ UNCHANGED callVars

IAmReady(v) ==
    /\ InScript(v)
    /\ reports[v] < MaxReports[v]
    /\ reports' = [reports EXCEPT ![v] = @ + 1]
    /\ todo' = [todo EXCEPT ![v] = Vm]
    /\ Goto(v, "report")
    /\ UNCHANGED <<ctxVars, svcVars, mode, cur, target, seq, delivered>>

\* One turn of iAmReady's loop: a VM of the same service is skipped, any
\* other one gets a message with session 0.
ReportSkip(v, w) ==
    /\ pc[v] = "report"
    /\ IsNext(w, todo[v])
    /\ ServiceOf[w] = ServiceOf[v]
    /\ todo' = [todo EXCEPT ![v] = @ \ {w}]
    /\ UNCHANGED <<ctxVars, svcVars, mode, pc, cur, target, histVars>>

ReportPush(v, w) ==
    /\ pc[v] = "report"
    /\ IsNext(w, todo[v])
    /\ ServiceOf[w] # ServiceOf[v]
    /\ todo' = [todo EXCEPT ![v] = @ \ {w}]
    /\ cur' = [cur EXCEPT ![v] = NewMessage(v, "report", w)]
    /\ target' = [target EXCEPT ![v] = w]
    /\ seq' = [seq EXCEPT ![v] = @ + 1]
    /\ Goto(v, "push")
    /\ UNCHANGED <<ctxVars, svcVars, mode, reports, delivered>>

ReportDone(v) ==
    /\ pc[v] = "report"
    /\ todo[v] = {}
    /\ Goto(v, "script")
    /\ UNCHANGED <<ctxVars, svcVars, mode, cur, todo, target, histVars>>

-----------------------------------------------------------------------------
(* cServiceInfo::pushMsg2FreeVm *)

\* Mutant: pushMsg2FreeVm does not take the service's mutex.
LockServiceNot(v) ==
    /\ pc[v] = "svcLock"
    /\ svcLock' = [svcLock EXCEPT ![cur[v].dest] = v]
    /\ todo' = [todo EXCEPT ![v] = VmsOf(cur[v].dest)]
    /\ Goto(v, "scan")
    /\ UNCHANGED <<ctxVars, svcQueue, mode, cur, target, histVars>>

LockService(v) ==
    /\ pc[v] = "svcLock"
    /\ LET s == cur[v].dest IN
        /\ svcLock[s] = NoVm
        /\ svcLock' = [svcLock EXCEPT ![s] = v]
        /\ todo' = [todo EXCEPT ![v] = VmsOf(s)]
    /\ Goto(v, "scan")
    /\ UNCHANGED <<ctxVars, svcQueue, mode, cur, target, histVars>>

\* One isIdle() call, which takes and releases the VM's mutex: the first VM
\* that answers yes ends the loop.
ScanIdle(v, w) ==
    /\ pc[v] = "scan"
    /\ IsNext(w, todo[v])
    /\ vmLock[w] = NoVm
    /\ w \in bIdle
    /\ todo' = [todo EXCEPT ![v] = {}]
    /\ target' = [target EXCEPT ![v] = w]
    /\ Goto(v, "push")
    /\ UNCHANGED <<ctxVars, svcVars, mode, cur, histVars>>

ScanBusy(v, w) ==
    /\ pc[v] = "scan"
    /\ IsNext(w, todo[v])
    /\ vmLock[w] = NoVm
    /\ w \notin bIdle
    /\ todo' = [todo EXCEPT ![v] = @ \ {w}]
    /\ UNCHANGED <<ctxVars, svcVars, mode, pc, cur, target, histVars>>

\* No idle VM was seen: the message is parked on the service's queue.
PutService(v) ==
    /\ pc[v] = "scan"
    /\ todo[v] = {}
    /\ LET s == cur[v].dest IN
        /\ svcQueue' = [svcQueue EXCEPT ![s] = Append(@, cur[v])]
        /\ svcLock' = [svcLock EXCEPT ![s] = NoVm]
    /\ cur' = [cur EXCEPT ![v] = NoMsg]
    /\ Goto(v, "script")
    /\ UNCHANGED <<ctxVars, mode, todo, target, histVars>>

-----------------------------------------------------------------------------
(* cVmContext::pushMsg, in two steps: the queue under the VM's mutex, then *)
(* the wake-up, which the target's loop sees without the mutex.            *)

PushPut(v) ==
    /\ pc[v] = "push"
    /\ LET w == target[v] IN
        /\ vmLock[w] = NoVm
        /\ vmLock' = [vmLock EXCEPT ![w] = v]
        /\ bIdle' = bIdle \ {w}
        /\ msgQueue' = [msgQueue EXCEPT ![w] = Append(@, cur[v])]
    /\ Goto(v, "wake")
    /\ UNCHANGED <<sessionId, async, svcVars, mode, cur, todo, target, histVars>>

\* Mutant: pushMsg forgets uv_async_send.
PushWakeNot(v) ==
    /\ pc[v] = "wake"
    /\ vmLock' = [vmLock EXCEPT ![target[v]] = NoVm]
    /\ svcLock' = [s \in Service |->
                     IF cur[v].kind = "service" /\ s = cur[v].dest THEN NoVm ELSE svcLock[s]]
    /\ Goto(v, IF cur[v].kind = "report" THEN "report" ELSE "script")
    /\ cur' = [cur EXCEPT ![v] = NoMsg]
    /\ target' = [target EXCEPT ![v] = NoVm]
    /\ UNCHANGED <<bIdle, msgQueue, sessionId, async, svcQueue, mode, todo, histVars>>

\* uv_async_send, then the lock guards of pushMsg and, for a message to a
\* service, of pushMsg2FreeVm go out of scope.
PushWake(v) ==
    /\ pc[v] = "wake"
    /\ async' = async \cup {target[v]}
    /\ vmLock' = [vmLock EXCEPT ![target[v]] = NoVm]
    /\ svcLock' = [s \in Service |->
                     IF cur[v].kind = "service" /\ s = cur[v].dest THEN NoVm ELSE svcLock[s]]
    /\ Goto(v, IF cur[v].kind = "report" THEN "report" ELSE "script")
    /\ cur' = [cur EXCEPT ![v] = NoMsg]
    /\ target' = [target EXCEPT ![v] = NoVm]
    /\ UNCHANGED <<bIdle, msgQueue, sessionId, svcQueue, mode, todo, histVars>>

-----------------------------------------------------------------------------
(* cVmContext::popMsg, called by getInternalMsgNonBlock. *)

PopLock(v) ==
    /\ mode[v] = "drain"
    /\ pc[v] = "script"
    /\ vmLock[v] = NoVm
    /\ vmLock' = [vmLock EXCEPT ![v] = v]
    /\ Goto(v, "pop")
    /\ UNCHANGED <<bIdle, msgQueue, sessionId, async, svcVars, mode, cur, todo, target, histVars>>

\* The VM's own queue is not empty: take() it under the mutex.
PopOwn(v) ==
    /\ pc[v] = "pop"
    /\ msgQueue[v] # <<>>
    /\ bIdle' = bIdle \ {v}
    /\ delivered' = [delivered EXCEPT ![v] = Append(@, Head(msgQueue[v]))]
    /\ msgQueue' = [msgQueue EXCEPT ![v] = Tail(@)]
    /\ vmLock' = [vmLock EXCEPT ![v] = NoVm]
    /\ Goto(v, "script")
    /\ UNCHANGED <<sessionId, async, svcVars, mode, cur, todo, target, seq, reports>>

\* Mutant: takeNonBlock returns the front and leaves it on the queue.
PopServicePeek(v) ==
    /\ pc[v] = "pop"
    /\ msgQueue[v] = <<>>
    /\ svcQueue[ServiceOf[v]] # <<>>
    /\ delivered' = [delivered EXCEPT ![v] = Append(@, Head(svcQueue[ServiceOf[v]]))]
    /\ bIdle' = bIdle \ {v}
    /\ vmLock' = [vmLock EXCEPT ![v] = NoVm]
    /\ Goto(v, "script")
    /\ UNCHANGED <<msgQueue, sessionId, async, svcVars, mode, cur, todo, target, seq, reports>>

\* The own queue is empty and takeNonBlock finds a message of the service.
PopService(v) ==
    /\ pc[v] = "pop"
    /\ msgQueue[v] = <<>>
    /\ LET s == ServiceOf[v] IN
        /\ svcQueue[s] # <<>>
        /\ delivered' = [delivered EXCEPT ![v] = Append(@, Head(svcQueue[s]))]
        /\ svcQueue' = [svcQueue EXCEPT ![s] = Tail(@)]
    /\ bIdle' = bIdle \ {v}
    /\ vmLock' = [vmLock EXCEPT ![v] = NoVm]
    /\ Goto(v, "script")
    /\ UNCHANGED <<msgQueue, sessionId, async, svcLock, mode, cur, todo, target, seq, reports>>

\* Mutants of PopMiss: popMsg gives the mutex back before it writes bIdle; popMsg
\* does not look at the service's queue.
PopMissUnlocked(v) ==
    /\ pc[v] = "pop"
    /\ msgQueue[v] = <<>>
    /\ svcQueue[ServiceOf[v]] = <<>>
    /\ vmLock' = [vmLock EXCEPT ![v] = NoVm]
    /\ Goto(v, "popIdle")
    /\ UNCHANGED <<bIdle, msgQueue, sessionId, async, svcVars, mode, cur, todo, target, histVars>>

PopMissOwnOnly(v) ==
    /\ pc[v] = "pop"
    /\ msgQueue[v] = <<>>
    /\ Goto(v, "popIdle")
    /\ UNCHANGED <<ctxVars, svcVars, mode, cur, todo, target, histVars>>

\* takeNonBlock returned the empty message; bIdle is not written yet.
PopMiss(v) ==
    /\ pc[v] = "pop"
    /\ msgQueue[v] = <<>>
    /\ svcQueue[ServiceOf[v]] = <<>>
    /\ Goto(v, "popIdle")
    /\ UNCHANGED <<ctxVars, svcVars, mode, cur, todo, target, histVars>>

\* Mutant: popMsg leaves its mutex locked when it finds nothing.
PopIdleLocked(v) ==
    /\ pc[v] = "popIdle"
    /\ bIdle' = bIdle \cup {v}
    /\ mode' = [mode EXCEPT ![v] = "loop"]
    /\ Goto(v, "script")
    /\ UNCHANGED <<msgQueue, vmLock, sessionId, async, svcVars, cur, todo, target, histVars>>

\* bIdle is set, nothing is returned, and the script leaves its drain loop.
PopIdle(v) ==
    /\ pc[v] = "popIdle"
    /\ bIdle' = bIdle \cup {v}
    /\ vmLock' = [vmLock EXCEPT ![v] = NoVm]
    /\ mode' = [mode EXCEPT ![v] = "loop"]
    /\ Goto(v, "script")
    /\ UNCHANGED <<msgQueue, sessionId, async, svcVars, cur, todo, target, histVars>>

-----------------------------------------------------------------------------

Send(v) ==
    \/ \E w \in Vm : SendByVmId(v, w)
    \/ \E s \in Service : SendByServiceName(v, s)
    \/ SendMiss(v)
    \/ IAmReady(v)

\* The rest of a call that has begun.
Call(v) ==
    \/ \E w \in Vm : ReportSkip(v, w) \/ ReportPush(v, w)
    \/ \E w \in Vm : ScanIdle(v, w) \/ ScanBusy(v, w)
    \/ ReportDone(v) \/ LockService(v) \/ PutService(v)
    \/ PushPut(v) \/ PushWake(v)
    \/ PopOwn(v) \/ PopService(v) \/ PopMiss(v) \/ PopIdle(v)

Next == \E v \in Vm :
    LoopWake(v) \/ LoopEvent(v) \/ EventDone(v) \/ Send(v) \/ PopLock(v) \/ Call(v)

Spec == Init /\ [][Next]_vars

\* A thread inside a call keeps running, a script that drains calls again
\* and one that handles an event returns (WF).  A posted wake-up is
\* dequeued by the loop in its turn, whatever else the loop is given (SF).
Fairness == \A v \in Vm :
    /\ WF_vars(Call(v))
    /\ WF_vars(PopLock(v))
    /\ WF_vars(EventDone(v))
    /\ SF_vars(LoopWake(v))

FairSpec == Spec /\ Fairness

-----------------------------------------------------------------------------
(* Properties *)

\* The messages of a queue, as a set.
Content(q) == {q[i] : i \in 1 .. Len(q)}

\* v's thread has built a message and not put it on a queue yet.
InHand(v) == pc[v] \in {"svcLock", "scan", "push"}

\* The types of the state.
TypeOK ==
    /\ bIdle \subseteq Vm
    /\ msgQueue \in [Vm -> Seq(Message)]
    /\ vmLock \in [Vm -> Vm \cup {NoVm}]
    /\ sessionId \in [Vm -> SessionInt]
    /\ async \subseteq Vm
    /\ svcQueue \in [Service -> Seq(Message)]
    /\ svcLock \in [Service -> Vm \cup {NoVm}]
    /\ mode \in [Vm -> {"loop", "drain", "event"}]
    /\ pc \in [Vm -> {"script", "report", "svcLock", "scan", "push", "wake", "pop", "popIdle"}]
    /\ cur \in [Vm -> Message \cup {NoMsg}]
    /\ todo \in [Vm -> SUBSET Vm]
    /\ target \in [Vm -> Vm \cup {NoVm}]
    /\ seq \in [Vm -> Nat]
    /\ reports \in [Vm -> Nat]
    /\ delivered \in [Vm -> Seq(Message)]

\* A wake-up is pending for v's loop, or the thread that put a message on
\* v's queue is still on its way to uv_async_send, or v is in its drain loop
\* and has not yet decided that it is idle.
WillBeNoticed(v) ==
    \/ v \in async
    \/ \E u \in Vm : pc[u] = "wake" /\ target[u] = v
    \/ mode[v] = "drain" /\ pc[v] # "popIdle"

\* No lost wake-up: a message on a VM's own queue is always going to be
\* noticed, although uv_async_send coalesces wake-ups and the loop clears the
\* pending mark without the VM's mutex.
NoLostWakeup == \A v \in Vm : msgQueue[v] # <<>> => WillBeNoticed(v)

\* bIdle tells dispatchers the truth: a VM that looks idle has nothing on its
\* own queue, at every moment, whoever is pushing to it.
IdleMeansNoWork == \A v \in Vm : v \in bIdle => msgQueue[v] = <<>>

\* Two threads dispatching work by service name never hold the same idle VM
\* as their choice: pushMsg2FreeVm keeps the service's mutex from isIdle() to
\* pushMsg().
OneDispatcherPerVm == \A u, v \in Vm :
    /\ u # v
    /\ pc[u] = "push" /\ cur[u].kind = "service"
    /\ pc[v] = "push" /\ cur[v].kind = "service"
    => target[u] # target[v]

\* The next thing v's thread does, or may do, is to take a mutex that u's has.
WaitsFor(v, u) ==
    \/ pc[v] = "svcLock" /\ svcLock[cur[v].dest] = u
    \/ pc[v] = "scan" /\ \E w \in todo[v] : IsNext(w, todo[v]) /\ vmLock[w] = u
    \/ pc[v] = "push" /\ vmLock[target[v]] = u
    \/ InScript(v) /\ vmLock[v] = u

\* No threads wait for one another in a circle, nor one for itself, although a
\* dispatcher keeps the service's mutex while it takes those of VMs, its own among
\* them: who has the mutex of a VM waits for nothing.
NoCircularWait == \A S \in (SUBSET Vm) \ {{}} :
    \E v \in S : \A u \in S : ~WaitsFor(v, u)

\* The messages that were built and not delivered: in the hand of a sender,
\* on the queue of a VM, on the queue of a service.
InHands == {cur[v] : v \in {u \in Vm : InHand(u)}}
OnVms == UNION {Content(msgQueue[v]) : v \in Vm}
OnServices == UNION {Content(svcQueue[s]) : s \in Service}
Waiting == InHands \cup OnVms \cup OnServices

AllMessages == Waiting \cup UNION {Content(delivered[v]) : v \in Vm}

\* newSession, whatever the uninitialised sessionId held and across the wrap:
\* a request never carries the session 0 of reports, and two requests of one
\* VM carry the same session only if SessionMax requests lie between them.
SessionsTellRequestsApart == \A m \in AllMessages :
    m.kind # "report" =>
        /\ m.session \in 1 .. SessionMax
        /\ \A n \in AllMessages :
              /\ n.kind # "report"
              /\ n.src = m.src
              /\ m.seq < n.seq
              /\ n.session = m.session
              => n.seq - m.seq >= SessionMax

\* What the service layer promises as a whole; see Mailbox.
Promise == INSTANCE Mailbox WITH pending <- Waiting, got <- delivered
PromiseSpec == Promise!Spec

\* A message pushed to a VM is eventually handed to its script.
OwnMessagesArrive == \A v \in Vm : msgQueue[v] # <<>> ~> msgQueue[v] = <<>>

\* Every call into the library returns: no mutex is waited for forever.
CallsReturn == \A v \in Vm : pc[v] # "script" ~> pc[v] = "script"

\* A message parked on a service is picked up once any VM of that service has
\* been woken after it was parked.
ParkedMessagesArriveOnWake == \A v \in Vm :
    (svcQueue[ServiceOf[v]] # <<>> /\ v \in async) ~> svcQueue[ServiceOf[v]] = <<>>

\* pushMsg2FreeVm's contract, serviceInfo.h:25: whoever is free gets the
\* message, it is parked only while everyone is busy.  So a parked message
\* never coexists with VMs that are all idle, asleep and not about to wake.
FreeVmGetsTheMessage == \A s \in Service :
    (svcQueue[s] # <<>> /\ VmsOf(s) # {}) =>
        \E v \in VmsOf(s) : v \notin bIdle \/ v \in async \/ mode[v] = "drain"


-----------------------------------------------------------------------------
(* The inductive invariant behind the safety properties. *)

\* What a thread inside a call knows.
CallState == \A v \in Vm :
    /\ pc[v] # "script" => mode[v] # "loop"
    /\ pc[v] \in {"pop", "popIdle"} => mode[v] = "drain"
    /\ pc[v] \in {"svcLock", "scan", "push", "wake"} =>
          cur[v] \in Message /\ cur[v].src = v /\ cur[v].seq = seq[v]
    /\ pc[v] \in {"svcLock", "scan"} => cur[v].kind = "service"
    /\ pc[v] = "scan" => todo[v] \subseteq VmsOf(cur[v].dest)
    /\ pc[v] \in {"push", "wake"} =>
          target[v] \in Vm /\ Promise!AddressedTo(cur[v], target[v])

\* Thread u is inside the mutex of VM v, of service s.
InVm(u, v) ==
    \/ pc[u] = "wake" /\ target[u] = v
    \/ pc[u] \in {"pop", "popIdle"} /\ u = v

InService(u, s) ==
    pc[u] \in {"scan", "push", "wake"} /\ cur[u].kind = "service" /\ cur[u].dest = s

\* The mutexes are held by the threads inside them, by no other.
VmLockState == \A v, u \in Vm : vmLock[v] = u <=> InVm(u, v)

ServiceLockState == \A s \in Service : \A u \in Vm : svcLock[s] = u <=> InService(u, s)

\* A VM about to call itself idle has an empty queue and nobody can change it.
IdleDecision == \A v \in Vm : pc[v] = "popIdle" => msgQueue[v] = <<>>

\* The messages of one sender stand in a queue in the order of sending.
Ascending(q) == \A i, j \in 1 .. Len(q) :
    i < j /\ q[i].src = q[j].src => q[i].seq < q[j].seq

\* Messages are queued where they are addressed to, in order.
QueueState ==
    /\ \A v \in Vm : Ascending(msgQueue[v])
    /\ \A s \in Service : Ascending(svcQueue[s])
    /\ \A v \in Vm : \A m \in Content(msgQueue[v]) : Promise!AddressedTo(m, v)
    /\ \A s \in Service : \A m \in Content(svcQueue[s]) : m.kind = "service" /\ m.dest = s

\* A message was numbered by its sender and differs from the one in its hand.
Numbered(m) == m.seq <= seq[m.src] /\ (InHand(m.src) => m.seq < seq[m.src])

NumberState ==
    /\ \A v \in Vm : \A m \in Content(msgQueue[v]) : Numbered(m)
    /\ \A s \in Service : \A m \in Content(svcQueue[s]) : Numbered(m)
    /\ \A v \in Vm : \A m \in Content(delivered[v]) : Numbered(m)

\* No message is in two places.
Disjoint(S, T) == \A m \in S : m \notin T

PlaceState ==
    /\ \A v, w \in Vm : v # w => Disjoint(Content(msgQueue[v]), Content(msgQueue[w]))
    /\ \A v \in Vm : \A s \in Service : Disjoint(Content(msgQueue[v]), Content(svcQueue[s]))
    /\ \A v, w \in Vm : Disjoint(Content(msgQueue[v]), Content(delivered[w]))
    /\ \A r, s \in Service : r # s => Disjoint(Content(svcQueue[r]), Content(svcQueue[s]))
    /\ \A s \in Service : \A w \in Vm : Disjoint(Content(svcQueue[s]), Content(delivered[w]))

IInv ==
    /\ TypeOK /\ CallState /\ VmLockState /\ ServiceLockState
    /\ NoLostWakeup /\ IdleMeansNoWork /\ IdleDecision
    /\ QueueState /\ NumberState /\ PlaceState
=============================================================================
