----------------------------- MODULE VmRegistry -----------------------------
(***************************************************************************)
(* Life and death of VMs: Register, DtorCallback, cThisVM.__new__ and      *)
(* __gc, and the calls that look a VM or a service up meanwhile.           *)
(*                                                                         *)
(* Every thread runs one Lua state, which creates at most one cVmContext:  *)
(* a VM is named by its thread.  ServiceMgr never forgets a name, so there *)
(* is at most one cServiceInfo per name: a service is named by its name.   *)
(* Objects live while somebody holds a shared_ptr to them; whoever drops   *)
(* the last one runs the destructor, so a VM may be destroyed by the       *)
(* thread of another VM that was sending to it.                            *)
(*                                                                         *)
(* Register's mutex_ covers fetch, fetchOrCreate and checkIn, one step     *)
(* each.  It covers neither removeItemCallback nor the loops over map_.    *)
(* Where two threads may touch a map at once without its mutex, one of     *)
(* them writing, the outcome is a crash or the effect of both (Collide);   *)
(* so it is when an iterator moves on from an erased entry.  A null        *)
(* pointer dereference or a failed assert ends the process.                *)
(*                                                                         *)
(* Queues, idle flags and wake-ups are the subject of VmMessaging: here a  *)
(* VM is idle or busy at random and pushMsg only uses the object.          *)
(***************************************************************************)
EXTENDS Naturals, FiniteSets

CONSTANTS
    Thread,     \* the threads, and their VMs
    Name,       \* names of services
    NameOf,     \* the name that each thread gives to __new__
    MaxCalls,   \* bound: sends and reports of each thread
    Null

ASSUME RegistryAssumption ==
    /\ IsFiniteSet(Thread)
    /\ NameOf \in [Thread -> Name]
    /\ MaxCalls \in [Thread -> Nat]
    /\ Null \notin Thread \cup Name

Handle == 1 .. Cardinality(Thread)

VARIABLES
    pc,         \* where each thread is
    svcMap,     \* the names in ServiceMgr's map_
    ctxMap,     \* ctxMap[h]: the VM that ContextMgr's map_ has under h
    svcVms,     \* svcVms[n][h]: the same for the map_ of service n
    lastHandle, \* cVmContext::lastHandle_
    loaded,     \* loaded[t]: lastHandle_ as read by the constructor on t
    handle,     \* handle[v]: handle_, 0 before construction
    vmSvc,      \* vmSvc[v]: the member service
    hasCb,      \* hasCb[v]: the maps that v's DtorCallback will clean
    own,        \* the VMs whose Lua userdata still holds them
    thisRef,    \* the VMs whose removeItemCallback holds their service, as this_
    vmRef,      \* vmRef[t]: the VM that a call of thread t holds
    svcRef,     \* svcRef[t]: the service that a call of thread t holds
    cursor,     \* cursor[t]: the key the iterator of t's loop stands on
    dtor,       \* dtor[t]: the VM whose destructor t is running
    calls,      \* calls[t]: sends and reports made
    crashed     \* how the process ended, or "no"

mapVars == <<svcMap, ctxMap, svcVms>>
vmVars == <<handle, vmSvc, hasCb, own, thisRef>>
ctorVars == <<lastHandle, loaded>>
refVars == <<vmRef, svcRef, cursor>>
vars == <<pc, mapVars, ctorVars, vmVars, refVars, dtor, calls, crashed>>

NoEntries == [h \in Handle |-> Null]

Init ==
    /\ pc = [t \in Thread |-> "script"]
    /\ svcMap = {}
    /\ ctxMap = NoEntries
    /\ svcVms = [n \in Name |-> NoEntries]
    /\ lastHandle = 0
    /\ loaded = [t \in Thread |-> 0]
    /\ handle = [t \in Thread |-> 0]
    /\ vmSvc = [t \in Thread |-> Null]
    /\ hasCb = [t \in Thread |-> {}]
    /\ own = {}
    /\ thisRef = {}
    /\ vmRef = [t \in Thread |-> Null]
    /\ svcRef = [t \in Thread |-> Null]
    /\ cursor = [t \in Thread |-> 0]
    /\ dtor = [t \in Thread |-> Null]
    /\ calls = [t \in Thread |-> 0]
    /\ crashed = "no"

-----------------------------------------------------------------------------
(* Reference counts *)

VmAlive(v) == v \in own \/ \E t \in Thread : vmRef[t] = v

ServiceAlive(n) ==
    \/ \E t \in Thread : svcRef[t] = n \/ vmSvc[t] = n
    \/ \E v \in thisRef : NameOf[v] = n

\* Thread t gives up the VM that its call holds.
DropVm(t) ==
    /\ vmRef' = [vmRef EXCEPT ![t] = Null]
    /\ dtor' = IF vmRef[t] \in own \/ \E u \in Thread \ {t} : vmRef[u] = vmRef[t]
                 THEN dtor
                 ELSE [dtor EXCEPT ![t] = vmRef[t]]

At(t, p) == crashed = "no" /\ dtor[t] = Null /\ pc[t] = p

Goto(t, p) == pc' = [pc EXCEPT ![t] = p]

Crash(how) == crashed' = how /\ UNCHANGED <<pc, mapVars, ctorVars, vmVars, refVars, dtor, calls>>

-----------------------------------------------------------------------------
(* cThisVM.__new__ on thread t *)

\* serviceMgr.fetchOrCreate: an entry is never replaced, alive or not.
FetchOrCreate(t) ==
    /\ At(t, "script")
    /\ svcMap' = svcMap \cup {NameOf[t]}
    /\ svcRef' = [svcRef EXCEPT ![t] =
                    IF NameOf[t] \in svcMap /\ ~ServiceAlive(NameOf[t])
                      THEN Null ELSE NameOf[t]]
    /\ Goto(t, "ctorRead")
    /\ UNCHANGED <<ctxMap, svcVms, ctorVars, vmVars, vmRef, cursor, dtor, calls, crashed>>

\* The constructor: ++lastHandle_ under a mutex of the new object only.
CtorRead(t) ==
    /\ At(t, "ctorRead")
    /\ loaded' = [loaded EXCEPT ![t] = lastHandle]
    /\ Goto(t, "ctorWrite")
    /\ UNCHANGED <<mapVars, lastHandle, vmVars, refVars, dtor, calls, crashed>>

\* Mutant: handle_ is left unset.
CtorWriteNoHandle(t) ==
    /\ At(t, "ctorWrite")
    /\ lastHandle' = loaded[t] + 1
    /\ loaded' = [loaded EXCEPT ![t] = 0]
    /\ vmSvc' = [vmSvc EXCEPT ![t] = svcRef[t]]
    /\ own' = own \cup {t}
    /\ Goto(t, "checkInService")
    /\ UNCHANGED <<mapVars, handle, hasCb, thisRef, refVars, dtor, calls, crashed>>

CtorWrite(t) ==
    /\ At(t, "ctorWrite")
    /\ lastHandle' = loaded[t] + 1
    /\ loaded' = [loaded EXCEPT ![t] = 0]
    /\ handle' = [handle EXCEPT ![t] = loaded[t] + 1]
    /\ vmSvc' = [vmSvc EXCEPT ![t] = svcRef[t]]
    /\ own' = own \cup {t}
    /\ Goto(t, "checkInService")
    /\ UNCHANGED <<mapVars, hasCb, thisRef, refVars, dtor, calls, crashed>>

\* Mutant: the VM is not entered in its service's map.
CheckInServiceNot(t) ==
    /\ At(t, "checkInService")
    /\ svcRef[t] # Null
    /\ Goto(t, "checkInCtx")
    /\ UNCHANGED <<mapVars, ctorVars, vmVars, refVars, dtor, calls, crashed>>

\* serviceInfo->checkIn: a key that is taken is left as it is.
CheckInService(t) ==
    /\ At(t, "checkInService")
    /\ svcRef[t] # Null
    /\ IF svcVms[svcRef[t]][handle[t]] = Null
         THEN /\ svcVms' = [svcVms EXCEPT ![svcRef[t]][handle[t]] = t]
              /\ hasCb' = [hasCb EXCEPT ![t] = @ \cup {"service"}]
         ELSE UNCHANGED <<svcVms, hasCb>>
    /\ Goto(t, "checkInCtx")
    /\ UNCHANGED <<svcMap, ctxMap, ctorVars, handle, vmSvc, own, thisRef, refVars, dtor, calls, crashed>>

\* fetchOrCreate returned nullptr and serviceInfo-> is used all the same.
NullService(t) ==
    /\ At(t, "checkInService")
    /\ svcRef[t] = Null
    /\ Crash("null service")

\* Mutant: the callback is added even if the key is taken.
CheckInCtxAlwaysHooks(t) ==
    /\ At(t, "checkInCtx")
    /\ ctxMap' = IF ctxMap[handle[t]] = Null THEN [ctxMap EXCEPT ![handle[t]] = t] ELSE ctxMap
    /\ hasCb' = [hasCb EXCEPT ![t] = @ \cup {"context"}]
    /\ Goto(t, "vmCount")
    /\ UNCHANGED <<svcMap, svcVms, ctorVars, handle, vmSvc, own, thisRef, refVars, dtor, calls, crashed>>

\* Mutant: no callback is added.
CheckInCtxNoHook(t) ==
    /\ At(t, "checkInCtx")
    /\ ctxMap' = IF ctxMap[handle[t]] = Null THEN [ctxMap EXCEPT ![handle[t]] = t] ELSE ctxMap
    /\ Goto(t, "vmCount")
    /\ UNCHANGED <<svcMap, svcVms, ctorVars, vmVars, refVars, dtor, calls, crashed>>

\* contextMgr.checkIn.
CheckInCtx(t) ==
    /\ At(t, "checkInCtx")
    /\ IF ctxMap[handle[t]] = Null
         THEN /\ ctxMap' = [ctxMap EXCEPT ![handle[t]] = t]
              /\ hasCb' = [hasCb EXCEPT ![t] = @ \cup {"context"}]
         ELSE UNCHANGED <<ctxMap, hasCb>>
    /\ Goto(t, "vmCount")
    /\ UNCHANGED <<svcMap, svcVms, ctorVars, handle, vmSvc, own, thisRef, refVars, dtor, calls, crashed>>

\* getVmCount reads the service's map, for nothing, and __new__ returns.
VmCount(t) ==
    /\ At(t, "vmCount")
    /\ svcRef' = [svcRef EXCEPT ![t] = Null]
    /\ Goto(t, "running")
    /\ UNCHANGED <<mapVars, ctorVars, vmVars, vmRef, cursor, dtor, calls, crashed>>

-----------------------------------------------------------------------------
(* cThisVM.__gc, and the destructor of a VM on thread t *)

\* Mutant: the VM is destroyed although others hold it.
GcFrees(t) ==
    /\ At(t, "running")
    /\ own' = own \ {t}
    /\ dtor' = [dtor EXCEPT ![t] = t]
    /\ Goto(t, "closed")
    /\ UNCHANGED <<mapVars, ctorVars, handle, vmSvc, hasCb, thisRef, refVars, calls, crashed>>

\* delete (*self): the script has ended and its shared_ptr goes.
Gc(t) ==
    /\ At(t, "running")
    /\ own' = own \ {t}
    /\ dtor' = IF \E u \in Thread : vmRef[u] = t THEN dtor ELSE [dtor EXCEPT ![t] = t]
    /\ Goto(t, "closed")
    /\ UNCHANGED <<mapVars, ctorVars, handle, vmSvc, hasCb, thisRef, refVars, calls, crashed>>

\* The members go first: the service may die with its last VM.
DropService(t) == \E v \in Thread :
    /\ crashed = "no" /\ dtor[t] = v
    /\ vmSvc[v] # Null
    /\ vmSvc' = [vmSvc EXCEPT ![v] = Null]
    /\ UNCHANGED <<pc, mapVars, ctorVars, handle, hasCb, own, thisRef, refVars, dtor, calls, crashed>>

\* Then the base DtorCallback, its callbacks in any order: removeItemCallback of
\* the service's map takes hold of the service, if it is still there ...
LockService(t) == \E v \in Thread \ thisRef :
    /\ crashed = "no" /\ dtor[t] = v
    /\ vmSvc[v] = Null
    /\ "service" \in hasCb[v]
    /\ IF ServiceAlive(NameOf[v])
         THEN thisRef' = thisRef \cup {v} /\ UNCHANGED hasCb
         ELSE hasCb' = [hasCb EXCEPT ![v] = @ \ {"service"}] /\ UNCHANGED thisRef
    /\ UNCHANGED <<pc, mapVars, ctorVars, handle, vmSvc, own, refVars, dtor, calls, crashed>>

\* ... erases the key and lets go of the service.
RemoveFromService(t) == \E v \in thisRef :
    /\ crashed = "no" /\ dtor[t] = v
    /\ "service" \in hasCb[v]
    /\ thisRef' = thisRef \ {v}
    /\ hasCb' = [hasCb EXCEPT ![v] = @ \ {"service"}]
    /\ svcVms' = [svcVms EXCEPT ![NameOf[v]][handle[v]] = Null]
    /\ UNCHANGED <<pc, svcMap, ctxMap, ctorVars, handle, vmSvc, own, refVars, dtor, calls, crashed>>

\* removeItemCallback of ContextMgr's map.
RemoveFromContexts(t) == \E v \in Thread \ thisRef :
    /\ crashed = "no" /\ dtor[t] = v
    /\ vmSvc[v] = Null
    /\ "context" \in hasCb[v]
    /\ hasCb' = [hasCb EXCEPT ![v] = @ \ {"context"}]
    /\ ctxMap' = [ctxMap EXCEPT ![handle[v]] = Null]
    /\ UNCHANGED <<pc, svcMap, svcVms, ctorVars, handle, vmSvc, own, thisRef, refVars, dtor, calls, crashed>>

DtorDone(t) == \E v \in Thread :
    /\ crashed = "no" /\ dtor[t] = v
    /\ vmSvc[v] = Null
    /\ hasCb[v] = {}
    /\ dtor' = [dtor EXCEPT ![t] = Null]
    /\ UNCHANGED <<pc, mapVars, ctorVars, vmVars, refVars, calls, crashed>>

-----------------------------------------------------------------------------
(* Calls of the script on thread t *)

BeginCall(t) ==
    /\ At(t, "running")
    /\ calls[t] < MaxCalls[t]
    /\ calls' = [calls EXCEPT ![t] = @ + 1]

\* sendByVmId: contextMgr.fetch finds the VM and keeps it alive ...
SendByVmId(t) == \E h \in Handle :
    /\ BeginCall(t)
    /\ ctxMap[h] # Null
    /\ VmAlive(ctxMap[h])
    /\ vmRef' = [vmRef EXCEPT ![t] = ctxMap[h]]
    /\ Goto(t, "push")
    /\ UNCHANGED <<mapVars, ctorVars, vmVars, svcRef, cursor, dtor, crashed>>

\* sendByServiceName: serviceMgr.fetch finds the service ...
SendByServiceName(t) == \E n \in Name :
    /\ BeginCall(t)
    /\ n \in svcMap
    /\ ServiceAlive(n)
    /\ svcRef' = [svcRef EXCEPT ![t] = n]
    /\ Goto(t, "scan")
    /\ UNCHANGED <<mapVars, ctorVars, vmVars, vmRef, cursor, dtor, crashed>>

\* ... or the target is unknown or gone, and the script gets false.
SendMiss(t) ==
    /\ BeginCall(t)
    /\ \/ \E h \in Handle : ctxMap[h] # Null => ~VmAlive(ctxMap[h])
       \/ \E n \in Name : n \in svcMap => ~ServiceAlive(n)
    /\ UNCHANGED <<pc, mapVars, ctorVars, vmVars, refVars, dtor, crashed>>

\* Mutant: the reference is not given back.
PushLeaks(t) ==
    /\ At(t, "push")
    /\ cursor' = [cursor EXCEPT ![t] = 0]
    /\ Goto(t, IF svcRef[t] = Null THEN "running" ELSE "pushed")
    /\ UNCHANGED <<mapVars, ctorVars, vmVars, vmRef, svcRef, dtor, calls, crashed>>

\* pushMsg on the VM held, which is given up: sendByVmId returns, pushMsg2FreeVm
\* is still inside the mutex_.
Push(t) ==
    /\ At(t, "push")
    /\ DropVm(t)
    /\ cursor' = [cursor EXCEPT ![t] = 0]
    /\ Goto(t, IF svcRef[t] = Null THEN "running" ELSE "pushed")
    /\ UNCHANGED <<mapVars, ctorVars, vmVars, svcRef, calls, crashed>>

\* A VM that died with it is destroyed by now: the mutex_ is unlocked, the service
\* let go of, and the send returns.
Pushed(t) ==
    /\ At(t, "pushed")
    /\ svcRef' = [svcRef EXCEPT ![t] = Null]
    /\ Goto(t, "running")
    /\ UNCHANGED <<mapVars, ctorVars, vmVars, vmRef, cursor, dtor, calls, crashed>>

\* The keys that a loop with its iterator on c has yet to visit in map m,
\* and the next of them.
Rest(m, c) == {h \in Handle : h > c /\ m[h] # Null}

Following(m, c) == CHOOSE h \in Rest(m, c) : \A k \in Rest(m, c) : h <= k

\* The iterator of a loop over m stands on an entry that is gone.
Dangling(m, c) == c # 0 /\ m[c] = Null

\* pushMsg2FreeVm: t is inside the service's mutex_, or may enter it.
ScanMutex(t) ==
    \/ cursor[t] # 0
    \/ \A u \in Thread \ {t} : svcRef[u] = svcRef[t] =>
        ~(pc[u] = "scan" /\ cursor[u] # 0) /\ pc[u] \notin {"scanned", "push", "pushed"}

\* The next VM of the service's map is looked at.
ScanNext(t) ==
    LET m == svcVms[svcRef[t]]
        h == Following(m, cursor[t])
    IN  /\ At(t, "scan")
        /\ ScanMutex(t)
        /\ Rest(m, cursor[t]) # {}
        /\ VmAlive(m[h])
        /\ vmRef' = [vmRef EXCEPT ![t] = m[h]]
        /\ cursor' = [cursor EXCEPT ![t] = h]
        /\ Goto(t, "scanned")
        /\ UNCHANGED <<mapVars, ctorVars, vmVars, svcRef, dtor, calls, crashed>>

\* assert(vm_shared_ptr) fails.
ScanAssert(t) ==
    LET m == svcVms[svcRef[t]]
    IN  /\ At(t, "scan")
        /\ ScanMutex(t)
        /\ Rest(m, cursor[t]) # {}
        /\ ~VmAlive(m[Following(m, cursor[t])])
        /\ Crash("assert")

\* isIdle() is true: the loop ends with this VM.
ScanIdle(t) ==
    /\ At(t, "scanned")
    /\ Goto(t, "push")
    /\ UNCHANGED <<mapVars, ctorVars, vmVars, refVars, dtor, calls, crashed>>

\* isIdle() is false: the VM is given up.
ScanBusy(t) ==
    /\ At(t, "scanned")
    /\ DropVm(t)
    /\ Goto(t, "scan")
    /\ UNCHANGED <<mapVars, ctorVars, vmVars, svcRef, cursor, calls, crashed>>

\* No VM was idle: the message is parked and the send returns.
ScanEnd(t) ==
    /\ At(t, "scan")
    /\ ScanMutex(t)
    /\ Rest(svcVms[svcRef[t]], cursor[t]) = {}
    /\ svcRef' = [svcRef EXCEPT ![t] = Null]
    /\ cursor' = [cursor EXCEPT ![t] = 0]
    /\ Goto(t, "running")
    /\ UNCHANGED <<mapVars, ctorVars, vmVars, vmRef, dtor, calls, crashed>>

\* iAmReady begins its loop over ContextMgr's map.
IAmReady(t) ==
    /\ BeginCall(t)
    /\ Goto(t, "ready")
    /\ UNCHANGED <<mapVars, ctorVars, vmVars, refVars, dtor, crashed>>

ReadyNext(t) ==
    LET h == Following(ctxMap, cursor[t])
    IN  /\ At(t, "ready")
        /\ Rest(ctxMap, cursor[t]) # {}
        /\ VmAlive(ctxMap[h])
        /\ vmRef' = [vmRef EXCEPT ![t] = ctxMap[h]]
        /\ cursor' = [cursor EXCEPT ![t] = h]
        /\ Goto(t, "report")
        /\ UNCHANGED <<mapVars, ctorVars, vmVars, svcRef, dtor, calls, crashed>>

\* obj->service with obj a null pointer.
ReadyNull(t) ==
    /\ At(t, "ready")
    /\ Rest(ctxMap, cursor[t]) # {}
    /\ ~VmAlive(ctxMap[Following(ctxMap, cursor[t])])
    /\ Crash("null VM")

\* The VM is skipped if it is of the same service; otherwise pushMsg.
Report(t) ==
    /\ At(t, "report")
    /\ DropVm(t)
    /\ Goto(t, "ready")
    /\ UNCHANGED <<mapVars, ctorVars, vmVars, svcRef, cursor, calls, crashed>>

ReadyEnd(t) ==
    /\ At(t, "ready")
    /\ Rest(ctxMap, cursor[t]) = {}
    /\ cursor' = [cursor EXCEPT ![t] = 0]
    /\ Goto(t, "running")
    /\ UNCHANGED <<mapVars, ctorVars, vmVars, vmRef, svcRef, dtor, calls, crashed>>

-----------------------------------------------------------------------------
(* Undefined behaviour *)

\* The loop moves on from an entry that was erased under it.
StaleIterator(t) ==
    /\ \/ At(t, "scan") /\ Dangling(svcVms[svcRef[t]], cursor[t])
       \/ At(t, "ready") /\ Dangling(ctxMap, cursor[t])
    /\ Crash("iterator")

\* What the next step of t may do to a map: <<map, writes, holds the mutex>>.
Access(t) ==
    IF dtor[t] # Null
      THEN IF dtor[t] \in thisRef THEN {<<NameOf[dtor[t]], TRUE, FALSE>>}
           ELSE {<<"context", TRUE, FALSE>> : c \in hasCb[dtor[t]] \cap {"context"}}
      ELSE CASE pc[t] = "checkInService" /\ svcRef[t] # Null -> {<<svcRef[t], TRUE, TRUE>>}
             [] pc[t] = "checkInCtx" -> {<<"context", TRUE, TRUE>>}
             [] pc[t] = "vmCount" -> {<<svcRef[t], FALSE, FALSE>>}
             [] pc[t] = "running" /\ calls[t] < MaxCalls[t] -> {<<"context", FALSE, TRUE>>}
             [] pc[t] = "scan" -> {<<svcRef[t], FALSE, FALSE>>}
             [] pc[t] = "ready" -> {<<"context", FALSE, FALSE>>}
             [] OTHER -> {}

\* A data race on a std::map ends the process.
Collide(t) == \E u \in Thread \ {t} :
    /\ crashed = "no"
    /\ \E a \in Access(t), b \in Access(u) :
        a[1] = b[1] /\ (a[2] \/ b[2]) /\ ~(a[3] /\ b[3])
    /\ Crash("race")

-----------------------------------------------------------------------------

New(t) == FetchOrCreate(t) \/ CtorRead(t) \/ CtorWrite(t) \/ CheckInService(t)
            \/ NullService(t) \/ CheckInCtx(t) \/ VmCount(t)

Destroy(t) == DropService(t) \/ LockService(t) \/ RemoveFromService(t)
                \/ RemoveFromContexts(t) \/ DtorDone(t)

Begin(t) == SendByVmId(t) \/ SendByServiceName(t) \/ SendMiss(t) \/ IAmReady(t)

Continue(t) ==
    \/ Push(t) \/ Pushed(t) \/ ScanNext(t) \/ ScanAssert(t) \/ ScanIdle(t) \/ ScanBusy(t) \/ ScanEnd(t)
    \/ ReadyNext(t) \/ ReadyNull(t) \/ Report(t) \/ ReadyEnd(t)

Undefined(t) == StaleIterator(t) \/ Collide(t)

\* Every VM is gone, or the process is.
Over ==
    /\ crashed # "no" \/ \A t \in Thread : pc[t] = "closed" /\ dtor[t] = Null
    /\ UNCHANGED vars

Next ==
    \/ \E t \in Thread : New(t) \/ Gc(t) \/ Destroy(t) \/ Begin(t) \/ Continue(t) \/ Undefined(t)
    \/ Over

Spec == Init /\ [][Next]_vars

\* A thread that is inside a C++ call or a destructor goes on with it; that one of
\* them does is enough.  What scripts call, and whether they end, is up to them.
Fairness == WF_vars(\E t \in Thread : Destroy(t) \/ Continue(t))

FairSpec == Spec /\ Fairness

-----------------------------------------------------------------------------
(* Properties *)

PC == {"script", "ctorRead", "ctorWrite", "checkInService", "checkInCtx", "vmCount", "running",
       "push", "pushed", "scan", "scanned", "ready", "report", "closed"}

\* The types of the state; a VM that Lua or a call holds was constructed.
TypeOK ==
    /\ pc \in [Thread -> PC]
    /\ svcMap \subseteq Name
    /\ ctxMap \in [Handle -> Thread \cup {Null}]
    /\ svcVms \in [Name -> [Handle -> Thread \cup {Null}]]
    /\ lastHandle \in Handle \cup {0}
    /\ loaded \in [Thread -> Handle \cup {0}]
    /\ handle \in [Thread -> Handle \cup {0}]
    /\ vmSvc \in [Thread -> Name \cup {Null}]
    /\ hasCb \in [Thread -> SUBSET {"service", "context"}]
    /\ vmRef \in [Thread -> Thread \cup {Null}]
    /\ svcRef \in [Thread -> Name \cup {Null}]
    /\ cursor \in [Thread -> Handle \cup {0}]
    /\ dtor \in [Thread -> Thread \cup {Null}]
    /\ calls \in [Thread -> Nat]
    /\ crashed \in {"no", "null service", "null VM", "assert", "iterator", "race"}
    /\ own \subseteq {v \in Thread : handle[v] # 0}
    /\ thisRef \subseteq Thread
    /\ \A t \in Thread : vmRef[t] # Null => handle[vmRef[t]] # 0

\* No VM is used by one call and destroyed by another, and none is destroyed
\* twice, whichever thread drops the last reference.
NoUseAfterFree == \A t \in Thread : dtor[t] # Null =>
    /\ ~VmAlive(dtor[t])
    /\ \A u \in Thread \ {t} : dtor[u] # dtor[t]

\* A map has an entry for a dead VM only while that VM's destructor is still
\* on its way to remove it: none is left behind for good.
DeadEntriesAreOnTheWayOut == \A h \in Handle :
    /\ ctxMap[h] # Null /\ ~VmAlive(ctxMap[h]) =>
        \E t \in Thread : dtor[t] = ctxMap[h] /\ "context" \in hasCb[ctxMap[h]]
    /\ \A n \in Name :
        svcVms[n][h] # Null /\ ~VmAlive(svcVms[n][h]) /\ ServiceAlive(n) =>
            \E t \in Thread : dtor[t] = svcVms[n][h] /\ "service" \in hasCb[svcVms[n][h]]

\* A VM that has its handle to itself can be found by it, and by the senders
\* to its service, from the return of __new__ to __gc.
UniqueHandleIsReachable == \A v \in Thread :
    /\ v \in own
    /\ pc[v] \notin {"checkInService", "checkInCtx"}
    /\ \A u \in Thread \ {v} : handle[u] # handle[v]
    => ctxMap[handle[v]] = v /\ svcVms[NameOf[v]][handle[v]] = v

\* Only the destructor of the very VM an entry stands for removes the entry,
\* also when two VMs got the same handle.
NoForeignErase == [][
    /\ \A h \in Handle : ctxMap[h] # Null /\ ctxMap'[h] # ctxMap[h] =>
        \E t \in Thread : dtor[t] = ctxMap[h]
    /\ \A n \in Name, h \in Handle : svcVms[n][h] # Null /\ svcVms'[n][h] # svcVms[n][h] =>
        \E t \in Thread : dtor[t] = svcVms[n][h]
    ]_vars

\* Once its script has ended a VM leaves the maps, though a call of another thread may
\* have kept it alive for a while: again and again no closed VM is left in them (it
\* never comes back, so that each closed VM has left for good).
ClosedVmsLeave == []<>(
    \/ crashed # "no"
    \/ \A v \in Thread : pc[v] = "closed" =>
            ~VmAlive(v) /\ hasCb[v] = {} /\ \A h \in Handle : ctxMap[h] # v)

\* serviceInfo.cpp:50, assert(vm_shared_ptr).
MapHoldsLiveVms == crashed # "assert"

\* register.h:39: the branch of fetchOrCreate for a name that was found
\* returns the service.
FetchOrCreateDelivers == \A t \in Thread : pc[t] = "checkInService" => svcRef[t] # Null
=============================================================================
