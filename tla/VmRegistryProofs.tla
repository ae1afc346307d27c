-------------------------- MODULE VmRegistryProofs --------------------------
(***************************************************************************)
(* Proofs about VmRegistry, for any threads, services and calls.           *)
(***************************************************************************)
EXTENDS VmRegistry, TLAPS, FiniteSetTheorems, WellFoundedInduction

\* The VMs whose constructor is through.
Built == {v \in Thread : pc[v] \notin {"script", "ctorRead", "ctorWrite"}}

\* Where a thread is in the script or in a call, and where it holds a VM.
Calling == {"vmCount", "running", "push", "pushed", "scan", "scanned", "ready", "report"}
Holding == {"push", "scanned", "report"}

\* Handles are given out one by one, at worst one more than once.
Count ==
    /\ lastHandle <= Cardinality(Built)
    /\ \A t \in Thread : loaded[t] <= Cardinality(Built)

\* What the place of a thread says of its VM and of the references it holds.
Phase == \A v \in Thread :
    /\ handle[v] # 0 <=> v \in Built
    /\ v \in own <=> v \in Built /\ pc[v] # "closed"
    /\ vmRef[v] # Null <=> pc[v] \in Holding
    /\ svcRef[v] \in svcMap \cup {Null} /\ vmSvc[v] \in svcMap \cup {Null}
    /\ pc[v] \in {"ctorRead", "ctorWrite", "checkInService", "checkInCtx"}
        => svcRef[v] \in {NameOf[v], Null}
    /\ pc[v] = "checkInCtx" => svcRef[v] # Null

\* An entry of ContextMgr and the destructor callback that removes it.
Contexts ==
    /\ \A h \in Handle : ctxMap[h] # Null =>
        handle[ctxMap[h]] = h /\ "context" \in hasCb[ctxMap[h]]
    /\ \A v \in Thread : "context" \in hasCb[v] =>
        /\ v \in Built /\ pc[v] \notin {"checkInService", "checkInCtx"}
        /\ ctxMap[handle[v]] = v

\* The same for a service; the map of a dead service keeps its entries.
Services ==
    /\ \A n \in Name, h \in Handle : svcVms[n][h] # Null =>
        /\ n \in svcMap /\ NameOf[svcVms[n][h]] = n /\ handle[svcVms[n][h]] = h
        /\ "service" \in hasCb[svcVms[n][h]] \/ ~ServiceAlive(n)
    /\ \A v \in Thread : "service" \in hasCb[v] =>
        /\ v \in Built /\ pc[v] # "checkInService"
        /\ svcVms[NameOf[v]][handle[v]] = v

\* A VM that a destructor runs for was built and is held by nobody.
Dying == \A t \in Thread : dtor[t] # Null =>
    /\ dtor[t] \in Built
    /\ ~VmAlive(dtor[t])
    /\ \A u \in Thread \ {t} : dtor[u] # dtor[t]

\* A VM that is in a map is held by somebody or being destroyed.
Dead == \A v \in Thread :
    hasCb[v] # {} /\ ~VmAlive(v) => \E t \in Thread : dtor[t] = v

\* A VM that has checked in is in the maps, or its handle is another's too.
Twin(v) == \E u \in Thread \ {v} : handle[u] = handle[v]

Reachable == \A v \in own :
    /\ pc[v] # "checkInService" => svcVms[NameOf[v]][handle[v]] = v \/ Twin(v)
    /\ pc[v] \notin {"checkInService", "checkInCtx"} => ctxMap[handle[v]] = v \/ Twin(v)

IInv == TypeOK /\ Count /\ Phase /\ Contexts /\ Services /\ Dying /\ Dead /\ Reachable

-----------------------------------------------------------------------------
(***************************************************************************)
(* The kinds of steps.                                                     *)
(***************************************************************************)
\* A non-empty set of natural numbers has a least element: the smallest of the
\* intervals 1 .. h belongs to it.
LEMMA LeastElement ==
    ASSUME NEW S \in SUBSET Nat, S # {}
    PROVE  \E h \in S : \A k \in S : h <= k
<1> DEFINE T == {1 .. h : h \in S}
<1> DEFINE R == StrictSubsetOrdering(Nat)
<1>1. \A h \in S : 1 .. h \in FiniteSubsetsOf(Nat)
  BY FS_Interval DEF FiniteSubsetsOf
<1>2. T \subseteq FiniteSubsetsOf(Nat) /\ T # {}
  BY <1>1
<1>3. IsWellFoundedOn(R, FiniteSubsetsOf(Nat))
  BY FS_StrictSubsetOrderingWellFounded
<1>4. PICK x \in T : \A y \in T : ~ (<<y, x>> \in R)
  <2> HIDE DEF T, R
  <2> QED
    BY <1>2, <1>3, WFMin
<1>5. PICK h \in S : x = 1 .. h
  BY <1>4
<1>6. ASSUME NEW k \in S, k < h PROVE FALSE
  <2>1. 1 .. k \in T /\ 1 .. k \subseteq 1 .. h
    BY <1>6
  <2>2. h \in 1 .. h /\ h \notin 1 .. k
    BY <1>6
  <2>3. <<1 .. k, 1 .. h>> \in R
    BY <2>1, <2>2 DEF StrictSubsetOrdering
  <2> QED
    BY <1>4, <1>5, <2>1, <2>3
<1> QED
  BY <1>6

\* Following is one of the keys that a loop has yet to visit.
LEMMA Least ==
    ASSUME NEW m, NEW c, Rest(m, c) # {}
    PROVE  Following(m, c) \in Rest(m, c)
<1>1. Rest(m, c) \in SUBSET Nat
  BY DEF Rest, Handle
<1>2. \E h \in Rest(m, c) : \A k \in Rest(m, c) : h <= k
  BY <1>1, LeastElement
<1> QED
  BY <1>2 DEF Following

Crashes == {"no", "null service", "null VM", "assert", "iterator", "race"}

\* The process dies or nothing happens.
Frozen ==
    /\ UNCHANGED <<pc, mapVars, ctorVars, vmVars, refVars, dtor, calls>>
    /\ crashed' \in Crashes

\* A call keeps the VM it holds, takes one that is alive, or gives its own up.
Keep(t) == UNCHANGED <<vmRef, dtor>> /\ (pc[t] \in Holding <=> pc'[t] \in Holding)

Take(t) ==
    /\ pc[t] \notin Holding /\ pc'[t] \in Holding
    /\ \E v \in Thread : VmAlive(v) /\ vmRef' = [vmRef EXCEPT ![t] = v]
    /\ dtor' = dtor

Release(t) == pc[t] \in Holding /\ pc'[t] \notin Holding /\ DropVm(t)

\* A step of a call that goes on, begins or ends.
InCall(t) ==
    /\ UNCHANGED <<mapVars, ctorVars, vmVars, crashed>>
    /\ dtor[t] = Null
    /\ pc[t] \in Calling
    /\ \E q \in Calling : pc' = [pc EXCEPT ![t] = q]
    /\ \E n \in svcMap \cup {Null} :
        svcRef' = [svcRef EXCEPT ![t] = n] /\ (n # Null => ServiceAlive(n))
    /\ cursor' \in [Thread -> Handle \cup {0}] /\ calls' \in [Thread -> Nat]
    /\ Keep(t) \/ Take(t) \/ Release(t)

\* A crash changes nothing else.
LEMMA CrashFreezes == ASSUME NEW how \in Crashes, Crash(how) PROVE Frozen
  BY DEF Crash, Frozen

\* The first step of each send and report is one of InCall's.
LEMMA BeginKind ==
    ASSUME TypeOK, Phase, NEW t \in Thread, Begin(t)
    PROVE  InCall(t)
<1> USE DEF TypeOK, BeginCall, At, Goto, InCall, Calling, Holding
<1>0. BeginCall(t) /\ UNCHANGED <<mapVars, ctorVars, vmVars, cursor, dtor, crashed>>
  BY DEF Begin, SendByVmId, SendByServiceName, SendMiss, IAmReady, refVars
<1>1. /\ calls' \in [Thread -> Nat] /\ cursor' = cursor /\ dtor' = dtor
      /\ UNCHANGED <<mapVars, ctorVars, vmVars, crashed>>
      /\ dtor[t] = Null /\ pc[t] = "running"
  <2>1. calls' = [calls EXCEPT ![t] = calls[t] + 1]
    BY <1>0
  <2> QED
    BY <1>0, <2>1
<1>2. svcRef[t] \in svcMap \cup {Null} /\ (svcRef[t] # Null => ServiceAlive(svcRef[t]))
  BY DEF Phase, ServiceAlive
<1>3. CASE SendByVmId(t)
  <2>1. \E v \in Thread : VmAlive(v) /\ vmRef' = [vmRef EXCEPT ![t] = v]
    BY <1>3 DEF SendByVmId
  <2>4. pc[t] = "running" /\ pc' = [pc EXCEPT ![t] = "push"]
    BY <1>1, <1>3 DEF SendByVmId
  <2>2. Take(t)
    BY <1>1, <2>1, <2>4 DEF Take
  <2>3. svcRef' = [svcRef EXCEPT ![t] = svcRef[t]] /\ pc' = [pc EXCEPT ![t] = "push"]
    BY <1>3 DEF SendByVmId
  <2> QED
    BY <1>1, <1>2, <2>2, <2>3
<1>4. CASE SendByServiceName(t)
  <2>1. \E n \in svcMap \cup {Null} :
            svcRef' = [svcRef EXCEPT ![t] = n] /\ (n # Null => ServiceAlive(n))
    BY <1>4 DEF SendByServiceName
  <2>2. Keep(t) /\ pc' = [pc EXCEPT ![t] = "scan"]
    BY <1>4 DEF SendByServiceName, Keep
  <2> QED
    BY <1>1, <2>1, <2>2
<1>5. CASE SendMiss(t)
  <2>1. Keep(t) /\ pc' = [pc EXCEPT ![t] = "running"] /\ svcRef' = [svcRef EXCEPT ![t] = svcRef[t]]
    BY <1>1, <1>5 DEF SendMiss, Keep, refVars
  <2> QED
    BY <1>1, <1>2, <2>1
<1>6. CASE IAmReady(t)
  <2>1. Keep(t) /\ pc' = [pc EXCEPT ![t] = "ready"] /\ svcRef' = [svcRef EXCEPT ![t] = svcRef[t]]
    BY <1>1, <1>6 DEF IAmReady, Keep, refVars
  <2> QED
    BY <1>1, <1>2, <2>1
<1> HIDE DEF TypeOK, BeginCall, At, Goto, InCall, Calling, Holding
<1> QED
  BY <1>3, <1>4, <1>5, <1>6 DEF Begin

\* So is each later step of a call, unless it ends the process.
LEMMA ContinueKind ==
    ASSUME TypeOK, Phase, NEW t \in Thread, Continue(t)
    PROVE  InCall(t) \/ Frozen
<1> USE DEF TypeOK, At, Goto, InCall, Calling, Holding
<1>1. svcRef[t] \in svcMap \cup {Null} /\ (svcRef[t] # Null => ServiceAlive(svcRef[t]))
  BY DEF Phase, ServiceAlive
<1> DEFINE Rest1 == /\ calls' \in [Thread -> Nat]
                    /\ UNCHANGED <<mapVars, ctorVars, vmVars, crashed>>
                    /\ dtor[t] = Null /\ pc[t] \in Calling
           Same == svcRef' = [svcRef EXCEPT ![t] = svcRef[t]]
           None == svcRef' = [svcRef EXCEPT ![t] = Null]
<1>2. CASE Push(t)
  <2>1. Rest1 /\ Same /\ Release(t)
    BY <1>2 DEF Push, Release
  <2>2. cursor' \in [Thread -> Handle \cup {0}]
    BY <1>2 DEF Push
  <2>3. \E q \in {"running", "pushed"} : pc' = [pc EXCEPT ![t] = q]
    BY <1>2 DEF Push
  <2> QED
    BY <1>1, <2>1, <2>2, <2>3
<1>3. CASE ScanNext(t)
  <2> DEFINE m == svcVms[svcRef[t]]
             h == Following(m, cursor[t])
  <2>1. h \in Handle /\ m[h] # Null
    BY <1>3, Least DEF ScanNext, Rest
  <2>2. svcRef[t] \in Name \cup {Null}
    OBVIOUS
  <2>3. VmAlive(m[h]) /\ vmRef' = [vmRef EXCEPT ![t] = m[h]] /\ cursor' = [cursor EXCEPT ![t] = h]
    BY <1>3 DEF ScanNext
  <2>4. m[h] \in Thread
    BY <2>1, <2>3, RegistryAssumption DEF VmAlive
  <2>5. Rest1 /\ Same /\ dtor' = dtor /\ pc[t] = "scan" /\ pc' = [pc EXCEPT ![t] = "scanned"]
    BY <1>3 DEF ScanNext
  <2>6. cursor' \in [Thread -> Handle \cup {0}]
    BY <2>1, <2>3
  <2>7. Take(t)
    BY <2>3, <2>4, <2>5 DEF Take
  <2> QED
    BY <1>1, <2>5, <2>6, <2>7
<1>4. CASE ScanIdle(t)
  <2>1. Rest1 /\ Same /\ Keep(t) /\ pc' = [pc EXCEPT ![t] = "push"] /\ cursor' = cursor
    BY <1>4 DEF ScanIdle, Keep, refVars
  <2> QED
    BY <1>1, <2>1
<1>5. CASE ScanBusy(t)
  <2>1. Rest1 /\ Same /\ Release(t) /\ pc' = [pc EXCEPT ![t] = "scan"] /\ cursor' = cursor
    BY <1>5 DEF ScanBusy, Release
  <2> QED
    BY <1>1, <2>1
<1>6. CASE ScanEnd(t)
  <2>1. Rest1 /\ None /\ Keep(t) /\ pc' = [pc EXCEPT ![t] = "running"]
    BY <1>6 DEF ScanEnd, Keep
  <2>2. cursor' \in [Thread -> Handle \cup {0}]
    BY <1>6 DEF ScanEnd
  <2> QED
    BY <2>1, <2>2
<1>7. CASE ReadyNext(t)
  <2> DEFINE h == Following(ctxMap, cursor[t])
  <2>1. h \in Handle /\ ctxMap[h] # Null
    BY <1>7, Least DEF ReadyNext, Rest
  <2>2. ctxMap[h] \in Thread
    BY <2>1
  <2>3. VmAlive(ctxMap[h]) /\ vmRef' = [vmRef EXCEPT ![t] = ctxMap[h]]
        /\ cursor' = [cursor EXCEPT ![t] = h]
    BY <1>7 DEF ReadyNext
  <2>4. Rest1 /\ Same /\ dtor' = dtor /\ pc[t] = "ready" /\ pc' = [pc EXCEPT ![t] = "report"]
    BY <1>7 DEF ReadyNext
  <2>5. cursor' \in [Thread -> Handle \cup {0}]
    BY <2>1, <2>3
  <2>6. Take(t)
    BY <2>2, <2>3, <2>4 DEF Take
  <2> QED
    BY <1>1, <2>4, <2>5, <2>6
<1>8. CASE Report(t)
  <2>1. Rest1 /\ Same /\ Release(t) /\ pc' = [pc EXCEPT ![t] = "ready"] /\ cursor' = cursor
    BY <1>8 DEF Report, Release
  <2> QED
    BY <1>1, <2>1
<1>9. CASE ReadyEnd(t)
  <2>1. Rest1 /\ Same /\ Keep(t) /\ pc' = [pc EXCEPT ![t] = "running"]
    BY <1>9 DEF ReadyEnd, Keep
  <2>2. cursor' \in [Thread -> Handle \cup {0}]
    BY <1>9 DEF ReadyEnd
  <2> QED
    BY <1>1, <2>1, <2>2
<1>11. CASE Pushed(t)
  <2>1. Rest1 /\ None /\ Keep(t) /\ pc' = [pc EXCEPT ![t] = "running"] /\ cursor' = cursor
    BY <1>11 DEF Pushed, Keep
  <2> QED
    BY <2>1
<1>10. CASE ScanAssert(t) \/ ReadyNull(t)
  BY <1>10, CrashFreezes DEF ScanAssert, ReadyNull, Crashes
<1> HIDE DEF TypeOK, At, Goto, InCall, Calling, Holding
<1> QED
  BY <1>2, <1>3, <1>4, <1>5, <1>6, <1>7, <1>8, <1>9, <1>10, <1>11 DEF Continue

\* The end of __new__ is one too.
LEMMA VmCountKind ==
    ASSUME TypeOK, NEW t \in Thread, VmCount(t)
    PROVE  InCall(t)
<1> USE DEF TypeOK, At, Goto, Calling, Holding
<1>1. Keep(t) /\ pc' = [pc EXCEPT ![t] = "running"] /\ svcRef' = [svcRef EXCEPT ![t] = Null]
  BY DEF VmCount, Keep
<1>2. /\ calls' \in [Thread -> Nat] /\ cursor' \in [Thread -> Handle \cup {0}]
      /\ UNCHANGED <<mapVars, ctorVars, vmVars, crashed>>
      /\ dtor[t] = Null /\ pc[t] \in Calling
  BY DEF VmCount
<1> QED
  BY <1>1, <1>2 DEF InCall

\* What can happen, by what it changes.
LEMMA Kinds ==
    ASSUME TypeOK, Phase, [Next]_vars
    PROVE  \/ Frozen
           \/ \E t \in Thread :
                \/ FetchOrCreate(t) \/ CtorRead(t) \/ CtorWrite(t)
                \/ CheckInService(t) \/ CheckInCtx(t)
                \/ Gc(t) \/ Destroy(t) \/ InCall(t)
<1>1. ASSUME UNCHANGED vars PROVE Frozen
  BY <1>1 DEF vars, mapVars, ctorVars, vmVars, refVars, Frozen, TypeOK, Crashes
<1>2. ASSUME NEW t \in Thread, NullService(t) \/ Undefined(t) PROVE Frozen
  BY <1>2, CrashFreezes DEF NullService, Undefined, StaleIterator, Collide, Crashes
<1> QED
  BY <1>1, <1>2, BeginKind, ContinueKind, VmCountKind DEF Next, New, Over

-----------------------------------------------------------------------------
(***************************************************************************)
(* The parts of the invariant.                                             *)
(***************************************************************************)
\* A step of a call moves its own thread only.
LEMMA InCallPlace ==
    ASSUME TypeOK, NEW t \in Thread, InCall(t)
    PROVE  /\ pc[t] \in Calling /\ pc'[t] \in Calling /\ pc' \in [Thread -> PC]
           /\ svcRef'[t] \in svcMap \cup {Null} /\ svcRef' \in [Thread -> Name \cup {Null}]
           /\ vmRef' \in [Thread -> Thread \cup {Null}]
           /\ \A v \in Thread \ {t} :
                pc'[v] = pc[v] /\ svcRef'[v] = svcRef[v] /\ vmRef'[v] = vmRef[v]
           /\ UNCHANGED <<svcMap, ctxMap, svcVms, lastHandle, loaded>>
           /\ UNCHANGED <<handle, vmSvc, hasCb, own, thisRef, crashed>>
<1> USE DEF TypeOK
<1>1. PICK q \in Calling : pc' = [pc EXCEPT ![t] = q]
  BY DEF InCall
<1>2. PICK n \in svcMap \cup {Null} : svcRef' = [svcRef EXCEPT ![t] = n]
  BY DEF InCall
<1>3. \E w \in Thread \cup {Null} : vmRef' = [vmRef EXCEPT ![t] = w]
  <2>1. vmRef = [vmRef EXCEPT ![t] = vmRef[t]]
    OBVIOUS
  <2> QED
    BY <2>1 DEF InCall, Keep, Take, Release, DropVm
<1>4. PICK w \in Thread \cup {Null} : vmRef' = [vmRef EXCEPT ![t] = w]
  BY <1>3
<1>5. pc[t] \in Calling /\ pc'[t] \in Calling /\ pc' \in [Thread -> PC]
      /\ \A v \in Thread \ {t} : pc'[v] = pc[v]
  <2>1. q \in PC
    BY DEF Calling, PC
  <2>2. pc[t] \in Calling
    BY DEF InCall
  <2> QED
    BY <1>1, <2>1, <2>2
<1>6. svcRef'[t] \in svcMap \cup {Null} /\ svcRef' \in [Thread -> Name \cup {Null}]
      /\ \A v \in Thread \ {t} : svcRef'[v] = svcRef[v]
  BY <1>2
<1>7. vmRef' \in [Thread -> Thread \cup {Null}] /\ \A v \in Thread \ {t} : vmRef'[v] = vmRef[v]
  BY <1>4
<1> QED
  BY <1>5, <1>6, <1>7 DEF InCall, mapVars, ctorVars, vmVars

\* A VM is built once, and nothing unbuilds it.
LEMMA BuiltStep ==
    ASSUME TypeOK, Phase, [Next]_vars
    PROVE  \/ Built' = Built /\ handle' = handle
           \/ \E t \in Thread : CtorWrite(t) /\ t \notin Built /\ Built' = Built \cup {t}
<1> USE DEF TypeOK, At, Goto, Built
<1>1. CASE Frozen
  BY <1>1 DEF Frozen, vmVars
<1>2. ASSUME NEW t \in Thread, FetchOrCreate(t) \/ CtorRead(t) \/ CheckInService(t) \/ CheckInCtx(t)
      PROVE  Built' = Built /\ handle' = handle
  <2>1. CASE FetchOrCreate(t)
    BY <2>1 DEF FetchOrCreate, vmVars
  <2>2. CASE CtorRead(t)
    BY <2>2 DEF CtorRead, vmVars
  <2>3. CASE CheckInService(t)
    BY <2>3 DEF CheckInService
  <2>4. CASE CheckInCtx(t)
    BY <2>4 DEF CheckInCtx
  <2> QED
    BY <1>2, <2>1, <2>2, <2>3, <2>4
<1>3. ASSUME NEW t \in Thread, Gc(t) \/ Destroy(t)
      PROVE  Built' = Built /\ handle' = handle
  BY <1>3 DEF Gc, Destroy, DropService, LockService, RemoveFromService, RemoveFromContexts, DtorDone, vmVars
<1>4. ASSUME NEW t \in Thread, InCall(t)
      PROVE  Built' = Built /\ handle' = handle
  <2>1. /\ pc[t] \in Calling /\ pc'[t] \in Calling /\ handle' = handle
        /\ \A v \in Thread \ {t} : pc'[v] = pc[v]
    BY <1>4, InCallPlace
  <2>2. Calling \cap {"script", "ctorRead", "ctorWrite"} = {}
    BY DEF Calling
  <2>3. \A v \in Thread : pc'[v] \notin {"script", "ctorRead", "ctorWrite"}
                            <=> pc[v] \notin {"script", "ctorRead", "ctorWrite"}
    BY <2>1, <2>2
  <2> QED
    BY <2>1, <2>3
<1>5. ASSUME NEW t \in Thread, CtorWrite(t)
      PROVE  t \notin Built /\ Built' = Built \cup {t}
  BY <1>5 DEF CtorWrite
<1> HIDE DEF TypeOK, At, Goto, Built
<1> QED
  BY <1>1, <1>2, <1>3, <1>4, <1>5, Kinds

\* Handles are natural numbers, and so is 0, which is none of them.
LEMMA HandlesAreNumbers == Handle \cup {0} \subseteq Nat
<1>1. Cardinality(Thread) \in Nat
  BY RegistryAssumption, FS_CardinalityType
<1> QED
  BY <1>1 DEF Handle

\* There are no more handles than VMs.
LEMMA BuiltSize ==
    /\ IsFiniteSet(Built) /\ Cardinality(Built) \in Nat
    /\ Cardinality(Built) <= Cardinality(Thread) /\ Cardinality(Thread) \in Nat
<1>1. Built \in SUBSET Thread
  BY DEF Built
<1> QED
  BY <1>1, RegistryAssumption, FS_Subset, FS_CardinalityType

\* The counter and what constructors have read of it never pass the number of VMs
\* built, though two constructors may read the same value.
LEMMA CountStep ==
    ASSUME TypeOK, Phase, Count, [Next]_vars
    PROVE  /\ Count'
           /\ lastHandle' \in Handle \cup {0} /\ loaded' \in [Thread -> Handle \cup {0}]
           /\ handle' \in [Thread -> Handle \cup {0}]
<1> DEFINE n == Cardinality(Built)
<1>1. CASE \E t \in Thread : CtorWrite(t) /\ t \notin Built /\ Built' = Built \cup {t}
  <2>1. PICK t \in Thread : CtorWrite(t) /\ t \notin Built /\ Built' = Built \cup {t}
    BY <1>1
  <2>2. Cardinality(Built') = n + 1
    BY <2>1, BuiltSize, FS_AddElement
  <2>3. Cardinality(Built') <= Cardinality(Thread)
    <3>1. Built' \in SUBSET Thread
      BY <2>1 DEF Built
    <3> QED
      BY <3>1, RegistryAssumption, FS_Subset
  <2>4. loaded \in [Thread -> Nat] /\ lastHandle \in Nat
    BY HandlesAreNumbers DEF TypeOK
  <2>5. /\ lastHandle' = loaded[t] + 1 /\ loaded' = [loaded EXCEPT ![t] = 0]
        /\ handle' = [handle EXCEPT ![t] = loaded[t] + 1]
    BY <2>1 DEF CtorWrite
  <2>6. loaded[t] + 1 \in Nat /\ loaded[t] + 1 <= n + 1
    BY <2>4, BuiltSize DEF Count
  <2>7. loaded[t] + 1 \in Handle
    BY <2>2, <2>3, <2>4, <2>6, BuiltSize DEF Handle
  <2>8. \A u \in Thread : loaded'[u] <= n + 1
    BY <2>4, <2>5, BuiltSize DEF Count
  <2> QED
    BY <2>2, <2>5, <2>6, <2>7, <2>8 DEF Count, TypeOK
<1>2. CASE Built' = Built /\ handle' = handle
  <2>1. CASE lastHandle' = lastHandle /\ loaded' = loaded
    BY <1>2, <2>1 DEF Count, TypeOK
  <2>2. ASSUME NEW t \in Thread, CtorRead(t) PROVE Count' /\ loaded' \in [Thread -> Handle \cup {0}]
                                                   /\ lastHandle' = lastHandle
    <3>1. lastHandle' = lastHandle /\ loaded' = [loaded EXCEPT ![t] = lastHandle]
      BY <2>2 DEF CtorRead
    <3>2. loaded' \in [Thread -> Handle \cup {0}]
      BY <3>1 DEF TypeOK
    <3>3. \A u \in Thread : loaded'[u] <= n
      BY <3>1 DEF Count, TypeOK
    <3> QED
      BY <1>2, <3>1, <3>2, <3>3 DEF Count
  <2>3. ASSUME NEW t \in Thread, CtorWrite(t) PROVE FALSE
    BY <1>2, <2>3 DEF CtorWrite, At, Goto, Built, TypeOK
  <2>4. ASSUME NEW t \in Thread,
               FetchOrCreate(t) \/ CheckInService(t) \/ CheckInCtx(t)
                \/ Gc(t) \/ Destroy(t) \/ InCall(t)
        PROVE  lastHandle' = lastHandle /\ loaded' = loaded
    BY <2>4 DEF FetchOrCreate, CheckInService, CheckInCtx, Gc, Destroy, DropService,
        LockService, RemoveFromService, RemoveFromContexts, DtorDone, InCall, ctorVars
  <2>5. CASE Frozen
    BY <2>1, <2>5 DEF Frozen, ctorVars
  <2> QED
    BY <1>2, <2>1, <2>2, <2>3, <2>4, <2>5, Kinds DEF TypeOK
<1> QED
  BY <1>1, <1>2, BuiltStep

\* No handle that is given out is 0.
LEMMA Positive == \A n \in Nat : n + 1 # 0
  OBVIOUS

\* A call holds a VM where it should.
LEMMA HeldInCall ==
    ASSUME TypeOK, Phase, NEW t \in Thread, InCall(t)
    PROVE  vmRef'[t] # Null <=> pc'[t] \in Holding
<1>1. vmRef[t] # Null <=> pc[t] \in Holding
  BY DEF Phase
<1>2. CASE Keep(t)
  BY <1>1, <1>2 DEF Keep
<1>3. CASE Take(t)
  <2>1. PICK v \in Thread : vmRef' = [vmRef EXCEPT ![t] = v]
    BY <1>3 DEF Take
  <2>2. vmRef'[t] = v
    BY <2>1 DEF TypeOK
  <2> QED
    BY <1>3, <2>2, RegistryAssumption DEF Take
<1>4. CASE Release(t)
  BY <1>4 DEF Release, DropVm, TypeOK
<1> QED
  BY <1>2, <1>3, <1>4 DEF InCall

\* Every step keeps what the place of a thread says of its VM and its references.
LEMMA PhaseStep ==
    ASSUME TypeOK, Count, Phase, [Next]_vars
    PROVE  Phase'
<1> USE RegistryAssumption DEF TypeOK, At, Goto, Built, Phase, Holding
<1>1. CASE Frozen
  BY <1>1 DEF Frozen, mapVars, vmVars, refVars
<1>2. ASSUME NEW t \in Thread, FetchOrCreate(t) PROVE Phase'
  BY <1>2 DEF FetchOrCreate, vmVars
<1>3. ASSUME NEW t \in Thread, CtorRead(t) PROVE Phase'
  BY <1>3 DEF CtorRead, mapVars, vmVars, refVars
<1>4. ASSUME NEW t \in Thread, CtorWrite(t) PROVE Phase'
  <2>0. loaded[t] \in Nat
    BY HandlesAreNumbers
  <2>1. loaded[t] + 1 # 0
    BY <2>0, Positive
  <2> QED
    BY <1>4, <2>1 DEF CtorWrite, mapVars, refVars
<1>5. ASSUME NEW t \in Thread, CheckInService(t) PROVE Phase'
  BY <1>5 DEF CheckInService, refVars
<1>6. ASSUME NEW t \in Thread, CheckInCtx(t) PROVE Phase'
  BY <1>6 DEF CheckInCtx, refVars
<1>7. ASSUME NEW t \in Thread, Gc(t) PROVE Phase'
  BY <1>7 DEF Gc, mapVars, refVars
<1>8. ASSUME NEW t \in Thread, Destroy(t) PROVE Phase'
  <2>1. UNCHANGED <<pc, svcMap, handle, own, vmRef, svcRef>>
    BY <1>8 DEF Destroy, DropService, LockService, RemoveFromService, RemoveFromContexts, DtorDone,
        mapVars, vmVars, refVars
  <2>2. \A v \in Thread : vmSvc'[v] \in {vmSvc[v], Null}
    <3>1. CASE DropService(t)
      <4>1. PICK w \in Thread : vmSvc' = [vmSvc EXCEPT ![w] = Null]
        BY <3>1 DEF DropService
      <4> QED
        BY <4>1
    <3>2. CASE ~DropService(t)
      BY <1>8, <3>2 DEF Destroy, LockService, RemoveFromService, RemoveFromContexts, DtorDone, vmVars
    <3> QED
      BY <3>1, <3>2
  <2> QED
    BY <2>1, <2>2
<1>9. ASSUME NEW t \in Thread, InCall(t) PROVE Phase'
  <2>1. vmRef'[t] # Null <=> pc'[t] \in Holding
    BY <1>9, HeldInCall
  <2>2. /\ pc[t] \in Calling /\ pc'[t] \in Calling /\ svcRef'[t] \in svcMap \cup {Null}
        /\ UNCHANGED <<svcMap, handle, vmSvc, own>>
        /\ \A v \in Thread \ {t} :
                pc'[v] = pc[v] /\ svcRef'[v] = svcRef[v] /\ vmRef'[v] = vmRef[v]
    BY <1>9, InCallPlace
  <2>3. Built' = Built
    BY <2>2 DEF Calling
  <2> HIDE DEF Built, TypeOK, Holding
  <2>4. ASSUME NEW v \in Thread \ {t}
        PROVE  /\ handle'[v] # 0 <=> v \in Built'
               /\ v \in own' <=> v \in Built' /\ pc'[v] # "closed"
               /\ vmRef'[v] # Null <=> pc'[v] \in Holding
               /\ svcRef'[v] \in svcMap' \cup {Null} /\ vmSvc'[v] \in svcMap' \cup {Null}
               /\ pc'[v] \in {"ctorRead", "ctorWrite", "checkInService", "checkInCtx"}
                    => svcRef'[v] \in {NameOf[v], Null}
               /\ pc'[v] = "checkInCtx" => svcRef'[v] # Null
    BY <2>2, <2>3
  <2>5. /\ handle'[t] # 0 <=> t \in Built'
        /\ t \in own' <=> t \in Built' /\ pc'[t] # "closed"
        /\ vmSvc'[t] \in svcMap' \cup {Null}
        /\ pc'[t] \notin {"ctorRead", "ctorWrite", "checkInService", "checkInCtx"}
    BY <2>2, <2>3 DEF Calling
  <2> QED
    BY <2>1, <2>2, <2>4, <2>5
<1> HIDE DEF TypeOK, At, Goto, Built, Phase, Holding
<1> QED
  BY <1>1, <1>2, <1>3, <1>4, <1>5, <1>6, <1>7, <1>8, <1>9, Kinds

\* An update of a function of functions is one.
LEMMA NestedType ==
    ASSUME NEW A, NEW B, NEW C, NEW f \in [A -> [B -> C]], NEW c \in C, NEW a, NEW b
    PROVE  [f EXCEPT ![a][b] = c] \in [A -> [B -> C]]
<1>1. ASSUME NEW x \in A PROVE [f[x] EXCEPT ![b] = c] \in [B -> C]
  OBVIOUS
<1> QED
  BY <1>1

\* Every step keeps the types.
LEMMA TypeStep ==
    ASSUME TypeOK, Count, Phase, [Next]_vars
    PROVE  TypeOK'
<1> USE RegistryAssumption
<1> DEFINE Vars1 == /\ pc' \in [Thread -> PC]
                    /\ svcMap' \subseteq Name
                    /\ vmRef' \in [Thread -> Thread \cup {Null}]
                    /\ svcRef' \in [Thread -> Name \cup {Null}]
                    /\ cursor' \in [Thread -> Handle \cup {0}]
           Vars2 == /\ ctxMap' \in [Handle -> Thread \cup {Null}]
                    /\ svcVms' \in [Name -> [Handle -> Thread \cup {Null}]]
                    /\ vmSvc' \in [Thread -> Name \cup {Null}]
                    /\ hasCb' \in [Thread -> SUBSET {"service", "context"}]
                    /\ thisRef' \subseteq Thread
           Vars3 == /\ dtor' \in [Thread -> Thread \cup {Null}]
                    /\ calls' \in [Thread -> Nat]
                    /\ crashed' \in Crashes
<1>1. CASE Frozen
  <2>1. UNCHANGED <<pc, svcMap, ctxMap, svcVms, lastHandle, loaded>>
    BY <1>1 DEF Frozen, mapVars, ctorVars
  <2>2. UNCHANGED <<handle, vmSvc, hasCb, own, thisRef, vmRef, svcRef, cursor, dtor, calls>>
    BY <1>1 DEF Frozen, vmVars, refVars
  <2>3. crashed' \in {"no", "null service", "null VM", "assert", "iterator", "race"}
    BY <1>1 DEF Frozen, Crashes
  <2> QED
    BY <2>1, <2>2, <2>3 DEF TypeOK
<1>2. ASSUME NEW t \in Thread, FetchOrCreate(t) PROVE Vars1 /\ Vars2 /\ Vars3
  BY <1>2 DEF FetchOrCreate, At, Goto, TypeOK, PC, vmVars, Crashes
<1>3. ASSUME NEW t \in Thread, CtorRead(t) \/ CtorWrite(t) PROVE Vars1 /\ Vars2 /\ Vars3
  <2>1. /\ pc' = [pc EXCEPT ![t] = "ctorWrite"] \/ pc' = [pc EXCEPT ![t] = "checkInService"]
        /\ vmSvc' = vmSvc \/ vmSvc' = [vmSvc EXCEPT ![t] = svcRef[t]]
        /\ UNCHANGED <<svcMap, ctxMap, svcVms, hasCb, thisRef, vmRef, svcRef, cursor, dtor, calls, crashed>>
    BY <1>3 DEF CtorRead, CtorWrite, Goto, mapVars, vmVars, refVars
  <2>2. pc' \in [Thread -> PC]
    BY <2>1 DEF TypeOK, PC
  <2>3. vmSvc' \in [Thread -> Name \cup {Null}]
    <3>1. svcRef[t] \in Name \cup {Null} /\ vmSvc \in [Thread -> Name \cup {Null}]
      BY DEF TypeOK
    <3> QED
      BY <2>1, <3>1
  <2> QED
    BY <2>1, <2>2, <2>3 DEF TypeOK, Crashes
<1>4. ASSUME NEW t \in Thread, CheckInService(t) PROVE Vars1 /\ Vars2 /\ Vars3
  <2>1. Vars1 /\ Vars3
    BY <1>4 DEF CheckInService, At, Goto, TypeOK, PC, refVars, Crashes
  <2>2. vmSvc' = vmSvc /\ thisRef' = thisRef /\ ctxMap' = ctxMap
        /\ hasCb' \in {hasCb, [hasCb EXCEPT ![t] = @ \cup {"service"}]}
    BY <1>4 DEF CheckInService
  <2>3. svcVms' \in [Name -> [Handle -> Thread \cup {Null}]]
    <3>1. svcVms' = svcVms \/ svcVms' = [svcVms EXCEPT ![svcRef[t]][handle[t]] = t]
      BY <1>4 DEF CheckInService
    <3>2. svcVms \in [Name -> [Handle -> Thread \cup {Null}]] /\ t \in Thread \cup {Null}
      BY DEF TypeOK
    <3>3. [svcVms EXCEPT ![svcRef[t]][handle[t]] = t] \in [Name -> [Handle -> Thread \cup {Null}]]
      BY <3>2, NestedType
    <3> QED
      BY <3>1, <3>2, <3>3
  <2>4. hasCb' \in [Thread -> SUBSET {"service", "context"}]
    <3>1. /\ hasCb \in [Thread -> SUBSET {"service", "context"}]
          /\ hasCb[t] \cup {"service"} \in SUBSET {"service", "context"}
          /\ hasCb[t] \cup {"context"} \in SUBSET {"service", "context"}
      BY DEF TypeOK
    <3> QED
      BY <2>2, <3>1
  <2> QED
    BY <2>1, <2>2, <2>3, <2>4 DEF TypeOK
<1>5. ASSUME NEW t \in Thread, CheckInCtx(t) PROVE Vars1 /\ Vars2 /\ Vars3
  <2>1. Vars1 /\ Vars3
    BY <1>5 DEF CheckInCtx, At, Goto, TypeOK, PC, refVars, Crashes
  <2>2. /\ ctxMap' \in {ctxMap, [ctxMap EXCEPT ![handle[t]] = t]}
        /\ hasCb' \in {hasCb, [hasCb EXCEPT ![t] = @ \cup {"context"}]}
        /\ svcVms' = svcVms /\ vmSvc' = vmSvc /\ thisRef' = thisRef
    BY <1>5 DEF CheckInCtx
  <2>3. ctxMap' \in [Handle -> Thread \cup {Null}]
    <3>1. ctxMap \in [Handle -> Thread \cup {Null}] /\ t \in Thread \cup {Null}
      BY DEF TypeOK
    <3> QED
      BY <2>2, <3>1
  <2>4. hasCb' \in [Thread -> SUBSET {"service", "context"}]
    <3>1. /\ hasCb \in [Thread -> SUBSET {"service", "context"}]
          /\ hasCb[t] \cup {"service"} \in SUBSET {"service", "context"}
          /\ hasCb[t] \cup {"context"} \in SUBSET {"service", "context"}
      BY DEF TypeOK
    <3> QED
      BY <2>2, <3>1
  <2> QED
    BY <2>1, <2>2, <2>3, <2>4 DEF TypeOK
<1>6. ASSUME NEW t \in Thread, Gc(t) PROVE Vars1 /\ Vars2 /\ Vars3
  <2>1. /\ pc' = [pc EXCEPT ![t] = "closed"] /\ dtor' \in {dtor, [dtor EXCEPT ![t] = t]}
        /\ UNCHANGED <<svcMap, ctxMap, svcVms, vmSvc, hasCb, thisRef, vmRef, svcRef, cursor, calls, crashed>>
    BY <1>6 DEF Gc, Goto, mapVars, refVars
  <2>2. "closed" \in PC
    BY DEF PC
  <2>3. pc' \in [Thread -> PC] /\ dtor' \in [Thread -> Thread \cup {Null}]
    <3>1. pc \in [Thread -> PC] /\ dtor \in [Thread -> Thread \cup {Null}] /\ t \in Thread \cup {Null}
      BY DEF TypeOK
    <3> QED
      BY <2>1, <2>2, <3>1
  <2> QED
    BY <2>1, <2>3 DEF TypeOK, Crashes
<1>7. ASSUME NEW t \in Thread, Destroy(t) PROVE Vars1 /\ Vars2 /\ Vars3
  <2>1. Vars1
    <3>1. UNCHANGED <<pc, svcMap, vmRef, svcRef, cursor>>
      BY <1>7 DEF Destroy, DropService, LockService, RemoveFromService, RemoveFromContexts, DtorDone,
        mapVars, refVars
    <3> QED
      BY <3>1 DEF TypeOK
  <2>2. CASE DropService(t)
    BY <2>1, <2>2 DEF DropService, TypeOK, mapVars, Crashes
  <2>6. CASE LockService(t)
    <3>1. PICK v \in Thread :
            /\ hasCb' \in {hasCb, [hasCb EXCEPT ![v] = @ \ {"service"}]}
            /\ thisRef' \in {thisRef, thisRef \cup {v}}
      <4>1. PICK v \in Thread :
                IF ServiceAlive(NameOf[v])
                  THEN thisRef' = thisRef \cup {v} /\ hasCb' = hasCb
                  ELSE hasCb' = [hasCb EXCEPT ![v] = @ \ {"service"}] /\ thisRef' = thisRef
        BY <2>6 DEF LockService
      <4> QED
        BY <4>1
    <3>2. /\ hasCb \in [Thread -> SUBSET {"service", "context"}] /\ thisRef \subseteq Thread
          /\ hasCb[v] \ {"service"} \in SUBSET {"service", "context"}
      BY DEF TypeOK
    <3>3. hasCb' \in [Thread -> SUBSET {"service", "context"}] /\ thisRef' \subseteq Thread
      BY <3>1, <3>2
    <3> QED
      BY <2>1, <2>6, <3>3 DEF LockService, TypeOK, mapVars, Crashes
  <2>3. CASE RemoveFromService(t)
    <3>1. PICK v \in Thread :
            /\ hasCb' = [hasCb EXCEPT ![v] = @ \ {"service"}]
            /\ svcVms' = [svcVms EXCEPT ![NameOf[v]][handle[v]] = Null]
            /\ thisRef' = thisRef \ {v}
      BY <2>3 DEF RemoveFromService, TypeOK
    <3>4. svcVms \in [Name -> [Handle -> Thread \cup {Null}]] /\ Null \in Thread \cup {Null}
      BY DEF TypeOK
    <3>5. [svcVms EXCEPT ![NameOf[v]][handle[v]] = Null] \in [Name -> [Handle -> Thread \cup {Null}]]
      BY <3>4, NestedType
    <3>2. svcVms' \in [Name -> [Handle -> Thread \cup {Null}]]
      BY <3>1, <3>4, <3>5
    <3>3. hasCb' \in [Thread -> SUBSET {"service", "context"}]
      BY <3>1 DEF TypeOK
    <3> QED
      BY <2>1, <2>3, <3>1, <3>2, <3>3 DEF RemoveFromService, TypeOK, Crashes
  <2>4. CASE RemoveFromContexts(t)
    <3>1. PICK v \in Thread :
            /\ hasCb' = [hasCb EXCEPT ![v] = @ \ {"context"}]
            /\ ctxMap' = [ctxMap EXCEPT ![handle[v]] = Null]
      BY <2>4 DEF RemoveFromContexts
    <3>2. ctxMap' \in [Handle -> Thread \cup {Null}]
      BY <3>1 DEF TypeOK
    <3>3. hasCb' \in [Thread -> SUBSET {"service", "context"}]
      BY <3>1 DEF TypeOK
    <3> QED
      BY <2>1, <2>4, <3>2, <3>3 DEF RemoveFromContexts, TypeOK, Crashes
  <2>5. CASE DtorDone(t)
    BY <2>1, <2>5 DEF DtorDone, TypeOK, mapVars, vmVars, Crashes
  <2> QED
    BY <1>7, <2>2, <2>3, <2>4, <2>5, <2>6 DEF Destroy
<1>8. ASSUME NEW t \in Thread, InCall(t) PROVE Vars1 /\ Vars2 /\ Vars3
  <2>1. Vars1
    BY <1>8, InCallPlace DEF InCall, TypeOK
  <2>3. Vars2
    <3>1. UNCHANGED <<ctxMap, svcVms, vmSvc, hasCb, thisRef>>
      BY <1>8, InCallPlace
    <3> QED
      BY <3>1 DEF TypeOK
  <2>2. dtor' \in [Thread -> Thread \cup {Null}]
    <3>1. dtor' \in {dtor, [dtor EXCEPT ![t] = vmRef[t]]}
      BY <1>8 DEF InCall, Keep, Take, Release, DropVm
    <3>2. vmRef[t] \in Thread \cup {Null} /\ dtor \in [Thread -> Thread \cup {Null}]
      BY DEF TypeOK
    <3> QED
      BY <3>1, <3>2
  <2>4. calls' \in [Thread -> Nat] /\ crashed' \in Crashes
    BY <1>8 DEF InCall, TypeOK, Crashes
  <2> QED
    BY <2>1, <2>2, <2>3, <2>4
<1>9. Frozen \/ (Vars1 /\ Vars2 /\ Vars3)
  BY <1>2, <1>3, <1>4, <1>5, <1>6, <1>7, <1>8, Kinds
<1>10. CASE Vars1 /\ Vars2 /\ Vars3
  <2>1. Phase'
    BY PhaseStep
  <2>2. own' \subseteq {v \in Thread : handle'[v] # 0}
    <3>1. own' \subseteq Thread
      <4>1. own' \subseteq own \cup Thread
        <5>1. ASSUME Frozen PROVE own' = own
          BY <5>1 DEF Frozen, vmVars
        <5>2. ASSUME NEW t \in Thread, InCall(t) PROVE own' = own
          BY <5>2, InCallPlace
        <5>3. ASSUME NEW t \in Thread, FetchOrCreate(t) \/ CtorRead(t) \/ CtorWrite(t)
                        \/ CheckInService(t) \/ CheckInCtx(t) \/ Gc(t) \/ Destroy(t)
              PROVE  own' \subseteq own \cup Thread
          BY <5>3 DEF FetchOrCreate, CtorRead, CtorWrite, CheckInService, CheckInCtx, Gc,
              Destroy, DropService, LockService, RemoveFromService, RemoveFromContexts, DtorDone, vmVars
        <5> QED
          BY <5>1, <5>2, <5>3, Kinds
      <4> QED
        BY <4>1 DEF TypeOK
    <3> QED
      BY <2>1, <3>1 DEF Phase
  <2>3. ASSUME NEW t \in Thread, vmRef'[t] # Null PROVE handle'[vmRef'[t]] # 0
    <3>1. vmRef'[t] \in Thread
      BY <1>10, <2>3
    <3>2. handle[vmRef'[t]] # 0
      <4>1. CASE \E u \in Thread : vmRef'[t] = vmRef[u]
        BY <2>3, <4>1 DEF TypeOK
      <4>2. CASE VmAlive(vmRef'[t])
        <5>1. vmRef'[t] \in own \/ \E u \in Thread : vmRef[u] = vmRef'[t]
          BY <4>2 DEF VmAlive
        <5>2. vmRef'[t] \in own => handle[vmRef'[t]] # 0
          BY DEF TypeOK
        <5> QED
          BY <4>1, <5>1, <5>2
      <4>3. ASSUME NEW u \in Thread, InCall(u)
            PROVE  VmAlive(vmRef'[t]) \/ \E w \in Thread : vmRef'[t] = vmRef[w]
        <5>1. CASE Keep(u)
          BY <5>1 DEF Keep
        <5>2. CASE Take(u)
          <6>1. PICK v \in Thread : VmAlive(v) /\ vmRef' = [vmRef EXCEPT ![u] = v]
            BY <5>2 DEF Take
          <6>2. vmRef'[t] = IF t = u THEN v ELSE vmRef[t]
            BY <6>1 DEF TypeOK
          <6> QED
            BY <6>1, <6>2
        <5>3. CASE Release(u)
          BY <2>3, <5>3 DEF Release, DropVm, TypeOK
        <5> QED
          BY <4>3, <5>1, <5>2, <5>3 DEF InCall
      <4>4. ASSUME NEW u \in Thread, FetchOrCreate(u) \/ CtorRead(u) \/ CtorWrite(u)
                        \/ CheckInService(u) \/ CheckInCtx(u) \/ Gc(u) \/ Destroy(u)
            PROVE  vmRef' = vmRef
        BY <4>4 DEF FetchOrCreate, CtorRead, CtorWrite, CheckInService, CheckInCtx, Gc,
              Destroy, DropService, LockService, RemoveFromService, RemoveFromContexts, DtorDone, refVars
      <4>5. ASSUME Frozen PROVE vmRef' = vmRef
        BY <4>5 DEF Frozen, refVars
      <4> QED
        BY <4>1, <4>2, <4>3, <4>4, <4>5, Kinds
    <3>3. CASE handle' = handle
      BY <3>2, <3>3
    <3>4. ASSUME NEW u \in Thread, CtorWrite(u) PROVE handle'[vmRef'[t]] # 0
      <4>1. handle' = [handle EXCEPT ![u] = loaded[u] + 1]
        BY <3>4 DEF CtorWrite
      <4>2. loaded[u] \in Nat
        BY HandlesAreNumbers DEF TypeOK
      <4> QED
        BY <3>1, <3>2, <4>1, <4>2, Positive DEF TypeOK
    <3> QED
      BY <3>3, <3>4, BuiltStep
  <2> QED
    BY <1>10, <2>2, <2>3, CountStep DEF TypeOK, Crashes
<1> QED
  BY <1>1, <1>9, <1>10

\* A VM that was built keeps its handle and is not checked in again.
LEMMA Onward ==
    ASSUME TypeOK, Phase, [Next]_vars, NEW v \in Built
    PROVE  /\ v \in Built' /\ handle'[v] = handle[v]
           /\ pc[v] # "checkInService" => pc'[v] # "checkInService"
           /\ pc[v] \notin {"checkInService", "checkInCtx"} =>
                pc'[v] \notin {"checkInService", "checkInCtx"}
<1>0. v \in Thread /\ pc[v] \notin {"script", "ctorRead", "ctorWrite"}
  BY DEF Built
<1>1. v \in Built' /\ handle'[v] = handle[v]
  <2>1. CASE \E t \in Thread : CtorWrite(t) /\ t \notin Built /\ Built' = Built \cup {t}
    <3>1. PICK t \in Thread : CtorWrite(t) /\ t \notin Built /\ Built' = Built \cup {t}
      BY <2>1
    <3>2. handle' = [handle EXCEPT ![t] = loaded[t] + 1] /\ t # v
      BY <3>1 DEF CtorWrite
    <3> QED
      BY <1>0, <3>1, <3>2 DEF TypeOK
  <2>2. CASE Built' = Built /\ handle' = handle
    BY <2>2
  <2> QED
    BY <2>1, <2>2, BuiltStep
<1> DEFINE Past == /\ pc[v] # "checkInService" => pc'[v] # "checkInService"
                   /\ pc[v] \notin {"checkInService", "checkInCtx"} =>
                        pc'[v] \notin {"checkInService", "checkInCtx"}
<1>3. ASSUME NEW t \in Thread,
             FetchOrCreate(t) \/ CtorRead(t) \/ CtorWrite(t)
                \/ CheckInService(t) \/ CheckInCtx(t) \/ Gc(t)
      PROVE  Past
  <2>1. CASE t = v
    BY <1>0, <1>3, <2>1 DEF FetchOrCreate, CtorRead, CtorWrite, CheckInService, CheckInCtx, Gc,
        At, Goto, TypeOK
  <2>2. CASE t # v
    <3>1. \E p \in PC : pc' = [pc EXCEPT ![t] = p]
      BY <1>3 DEF FetchOrCreate, CtorRead, CtorWrite, CheckInService, CheckInCtx, Gc, Goto, PC
    <3> QED
      BY <1>0, <2>2, <3>1 DEF TypeOK
  <2> QED
    BY <2>1, <2>2
<1>4. ASSUME NEW t \in Thread, InCall(t) PROVE Past
  BY <1>0, <1>4, InCallPlace DEF Calling
<1>5. ASSUME Frozen \/ \E t \in Thread : Destroy(t) PROVE Past
  BY <1>5 DEF Frozen, Destroy, DropService, LockService, RemoveFromService, RemoveFromContexts, DtorDone
<1> QED
  BY <1>1, <1>3, <1>4, <1>5, Kinds

\* What a step does to the life of VMs.
SameLife == dtor' = dtor /\ \A v \in Thread : VmAlive(v)' <=> VmAlive(v)

Birth(t) ==
    /\ t \notin Built /\ dtor' = dtor
    /\ \A v \in Thread : VmAlive(v)' <=> VmAlive(v) \/ v = t

Death(t, w) ==
    /\ dtor[t] = Null /\ dtor' = [dtor EXCEPT ![t] = w]
    /\ w \in Built /\ VmAlive(w) /\ ~VmAlive(w)'
    /\ \A v \in Thread \ {w} : VmAlive(v)' <=> VmAlive(v)

End(t) ==
    /\ dtor[t] # Null /\ hasCb[dtor[t]] = {} /\ dtor' = [dtor EXCEPT ![t] = Null]
    /\ \A v \in Thread : VmAlive(v)' <=> VmAlive(v)

\* The last reference to a VM is dropped where its destructor begins.
LEMMA DropLife ==
    ASSUME TypeOK, Phase, NEW t \in Thread, dtor[t] = Null, own' = own,
           pc[t] \in Holding, DropVm(t)
    PROVE  SameLife \/ \E w \in Thread : Death(t, w)
<1>0. vmRef[t] \in Thread /\ vmRef[t] # Null /\ vmRef[t] \in Built
  BY DEF TypeOK, Phase
<1>1. PICK w \in Thread : w = vmRef[t] /\ w # Null /\ w \in Built
  BY <1>0
<1>2. vmRef' = [vmRef EXCEPT ![t] = Null] /\ vmRef \in [Thread -> Thread \cup {Null}]
  BY DEF DropVm, TypeOK
<1>3. \A v \in Thread \ {w} : VmAlive(v)' <=> VmAlive(v)
  BY <1>1, <1>2, RegistryAssumption DEF VmAlive
<1>4. VmAlive(w)' <=> w \in own \/ \E u \in Thread \ {t} : vmRef[u] = w
  BY <1>1, <1>2, RegistryAssumption DEF VmAlive
<1>5. VmAlive(w)
  BY <1>1 DEF VmAlive
<1>6. CASE w \in own \/ \E u \in Thread \ {t} : vmRef[u] = w
  BY <1>1, <1>3, <1>4, <1>5, <1>6 DEF SameLife, DropVm
<1>7. CASE ~(w \in own \/ \E u \in Thread \ {t} : vmRef[u] = w)
  BY <1>1, <1>3, <1>4, <1>5, <1>7 DEF Death, DropVm
<1> QED
  BY <1>6, <1>7

\* Each step leaves the living alone, or brings one VM to life, or begins or ends
\* one destructor.
LEMMA LifeStep ==
    ASSUME TypeOK, Phase, [Next]_vars
    PROVE  \/ SameLife
           \/ \E t \in Thread : (CtorWrite(t) /\ Birth(t)) \/ End(t)
           \/ \E t, w \in Thread : Death(t, w)
<1>1. ASSUME own' = own, vmRef' = vmRef
      PROVE  \A v \in Thread : VmAlive(v)' <=> VmAlive(v)
  BY <1>1 DEF VmAlive
<1>2. ASSUME Frozen PROVE SameLife
  BY <1>1, <1>2 DEF Frozen, vmVars, refVars, SameLife
<1>3. ASSUME NEW t \in Thread,
             FetchOrCreate(t) \/ CtorRead(t) \/ CheckInService(t) \/ CheckInCtx(t)
      PROVE  SameLife
  <2>1. own' = own /\ vmRef' = vmRef /\ dtor' = dtor
    BY <1>3 DEF FetchOrCreate, CtorRead, CheckInService, CheckInCtx, vmVars, refVars
  <2> QED
    BY <1>1, <2>1 DEF SameLife
<1>4. ASSUME NEW t \in Thread, CtorWrite(t) PROVE Birth(t)
  <2>1. own' = own \cup {t} /\ vmRef' = vmRef /\ dtor' = dtor /\ pc[t] = "ctorWrite"
    BY <1>4 DEF CtorWrite, refVars, At
  <2> QED
    BY <2>1 DEF Birth, Built, VmAlive
<1>5. ASSUME NEW t \in Thread, Gc(t) PROVE SameLife \/ Death(t, t)
  <2>1. /\ own' = own \ {t} /\ vmRef' = vmRef /\ pc[t] = "running" /\ dtor[t] = Null
        /\ dtor' = IF \E u \in Thread : vmRef[u] = t THEN dtor ELSE [dtor EXCEPT ![t] = t]
    BY <1>5 DEF Gc, refVars, At
  <2>2. t \in own /\ t \in Built
    BY <2>1 DEF Phase, Built
  <2>3. \A v \in Thread \ {t} : VmAlive(v)' <=> VmAlive(v)
    BY <2>1 DEF VmAlive
  <2>4. VmAlive(t) /\ (VmAlive(t)' <=> \E u \in Thread : vmRef[u] = t)
    BY <2>1, <2>2 DEF VmAlive
  <2> QED
    BY <2>1, <2>2, <2>3, <2>4 DEF SameLife, Death
<1>6. ASSUME NEW t \in Thread, Destroy(t) PROVE SameLife \/ End(t)
  <2>1. own' = own /\ vmRef' = vmRef
    BY <1>6 DEF Destroy, DropService, LockService, RemoveFromService, RemoveFromContexts, DtorDone,
        vmVars, refVars
  <2>2. CASE DtorDone(t)
    BY <1>1, <2>1, <2>2, RegistryAssumption DEF DtorDone, End
  <2>3. CASE ~DtorDone(t)
    BY <1>1, <1>6, <2>1, <2>3 DEF Destroy, DropService, LockService, RemoveFromService, RemoveFromContexts, SameLife
  <2> QED
    BY <2>2, <2>3
<1>7. ASSUME NEW t \in Thread, InCall(t) PROVE SameLife \/ \E w \in Thread : Death(t, w)
  <2>1. own' = own /\ dtor[t] = Null
    BY <1>7, InCallPlace DEF InCall
  <2>2. CASE Keep(t)
    BY <1>1, <2>1, <2>2 DEF Keep, SameLife
  <2>3. CASE Take(t)
    <3>1. PICK v \in Thread : VmAlive(v) /\ vmRef' = [vmRef EXCEPT ![t] = v]
      BY <2>3 DEF Take
    <3>2. vmRef[t] = Null /\ vmRef \in [Thread -> Thread \cup {Null}]
      BY <2>3 DEF Take, Phase, TypeOK
    <3>3. \A u \in Thread : VmAlive(u)' <=> VmAlive(u)
      BY <2>1, <3>1, <3>2, RegistryAssumption DEF VmAlive
    <3> QED
      BY <2>3, <3>3 DEF SameLife, Take
  <2>4. CASE Release(t)
    BY <2>1, <2>4, DropLife DEF Release
  <2> QED
    BY <1>7, <2>2, <2>3, <2>4 DEF InCall
<1> QED
  BY <1>2, <1>3, <1>4, <1>5, <1>6, <1>7, Kinds

\* A service that died stays dead.
LEMMA ServiceLife ==
    ASSUME TypeOK, Phase, [Next]_vars, NEW n \in svcMap, ServiceAlive(n)'
    PROVE  ServiceAlive(n)
<1>0. n \in Name /\ n # Null
  BY RegistryAssumption DEF TypeOK
<1>1. ASSUME svcRef' = svcRef, vmSvc' = vmSvc, thisRef' \subseteq thisRef PROVE ServiceAlive(n)
  BY <1>1 DEF ServiceAlive
<1>2. ASSUME Frozen PROVE ServiceAlive(n)
  BY <1>1, <1>2 DEF Frozen, vmVars, refVars
<1>3. ASSUME NEW t \in Thread, CtorRead(t) \/ CheckInService(t) \/ CheckInCtx(t) \/ Gc(t)
      PROVE  ServiceAlive(n)
  BY <1>1, <1>3 DEF CtorRead, CheckInService, CheckInCtx, Gc, vmVars, refVars
<1>4. ASSUME NEW t \in Thread, FetchOrCreate(t) PROVE ServiceAlive(n)
  <2>1. /\ svcRef' = [svcRef EXCEPT ![t] = IF NameOf[t] \in svcMap /\ ~ServiceAlive(NameOf[t])
                                             THEN Null ELSE NameOf[t]]
        /\ vmSvc' = vmSvc /\ thisRef' = thisRef /\ svcRef \in [Thread -> Name \cup {Null}]
    BY <1>4 DEF FetchOrCreate, vmVars, TypeOK
  <2>2. CASE svcRef'[t] = n
    BY <1>0, <2>1, <2>2
  <2>3. CASE svcRef'[t] # n
    BY <2>1, <2>3 DEF ServiceAlive
  <2> QED
    BY <2>2, <2>3
<1>5. ASSUME NEW t \in Thread, CtorWrite(t) PROVE ServiceAlive(n)
  <2>1. vmSvc' = [vmSvc EXCEPT ![t] = svcRef[t]] /\ svcRef' = svcRef /\ thisRef' = thisRef
        /\ vmSvc \in [Thread -> Name \cup {Null}]
    BY <1>5 DEF CtorWrite, refVars, TypeOK
  <2> QED
    BY <2>1 DEF ServiceAlive
<1>7. ASSUME NEW t \in Thread, Destroy(t) PROVE ServiceAlive(n)
  <2>1. svcRef' = svcRef
    BY <1>7 DEF Destroy, DropService, LockService, RemoveFromService, RemoveFromContexts, DtorDone, refVars
  <2>2. CASE DropService(t)
    <3>1. PICK v \in Thread : vmSvc' = [vmSvc EXCEPT ![v] = Null] /\ thisRef' = thisRef
      BY <2>2 DEF DropService
    <3>2. vmSvc \in [Thread -> Name \cup {Null}]
      BY DEF TypeOK
    <3> QED
      BY <1>0, <2>1, <3>1, <3>2 DEF ServiceAlive
  <2>3. CASE LockService(t)
    <3>1. PICK v \in Thread :
            /\ vmSvc' = vmSvc
            /\ thisRef' = thisRef \/ (thisRef' = thisRef \cup {v} /\ ServiceAlive(NameOf[v]))
      <4>1. PICK v \in Thread :
                /\ vmSvc' = vmSvc
                /\ IF ServiceAlive(NameOf[v])
                     THEN thisRef' = thisRef \cup {v} /\ hasCb' = hasCb
                     ELSE hasCb' = [hasCb EXCEPT ![v] = @ \ {"service"}] /\ thisRef' = thisRef
        BY <2>3 DEF LockService
      <4>2. CASE ServiceAlive(NameOf[v])
        BY <4>1, <4>2
      <4>3. CASE ~ServiceAlive(NameOf[v])
        BY <4>1, <4>3
      <4> QED
        BY <4>2, <4>3
    <3> QED
      BY <1>1, <2>1, <3>1 DEF ServiceAlive
  <2>4. CASE ~DropService(t) /\ ~LockService(t)
    BY <1>1, <1>7, <2>1, <2>4 DEF Destroy, RemoveFromService, RemoveFromContexts, DtorDone, vmVars
  <2> QED
    BY <2>2, <2>3, <2>4
<1>8. ASSUME NEW t \in Thread, InCall(t) PROVE ServiceAlive(n)
  <2>1. PICK m \in svcMap \cup {Null} :
            svcRef' = [svcRef EXCEPT ![t] = m] /\ (m # Null => ServiceAlive(m))
    BY <1>8 DEF InCall
  <2>2. vmSvc' = vmSvc /\ thisRef' = thisRef /\ svcRef \in [Thread -> Name \cup {Null}]
    BY <1>8, InCallPlace DEF TypeOK
  <2>3. CASE svcRef'[t] = n
    BY <1>0, <2>1, <2>2, <2>3
  <2>4. CASE svcRef'[t] # n
    BY <2>1, <2>2, <2>4 DEF ServiceAlive
  <2> QED
    BY <2>3, <2>4
<1> QED
  BY <1>2, <1>3, <1>4, <1>5, <1>7, <1>8, Kinds

\* What a step does to ContextMgr's map and its callbacks.
Hooked(v, map) == map \in hasCb[v]

ContextIn(t) ==
    /\ CheckInCtx(t) /\ ctxMap[handle[t]] = Null /\ ctxMap' = [ctxMap EXCEPT ![handle[t]] = t]
    /\ \A v \in Thread : Hooked(v, "context")' <=> Hooked(v, "context") \/ v = t

ContextOut(t, w) ==
    /\ dtor[t] = w /\ Hooked(w, "context") /\ ctxMap' = [ctxMap EXCEPT ![handle[w]] = Null]
    /\ \A v \in Thread : Hooked(v, "context")' <=> Hooked(v, "context") /\ v # w

\* The map changes with the callbacks or not at all: one VM checks in or one
\* destructor takes its own VM out.
LEMMA ContextChange ==
    ASSUME TypeOK, Phase, [Next]_vars
    PROVE  \/ ctxMap' = ctxMap /\ \A v \in Thread : Hooked(v, "context")' <=> Hooked(v, "context")
           \/ \E t \in Thread : ContextIn(t)
           \/ \E t, w \in Thread : ContextOut(t, w)
<1> DEFINE Same == ctxMap' = ctxMap
                   /\ \A v \in Thread : Hooked(v, "context")' <=> Hooked(v, "context")
<1>0. hasCb \in [Thread -> SUBSET {"service", "context"}]
  BY DEF TypeOK
<1>1. ASSUME ctxMap' = ctxMap, hasCb' = hasCb PROVE Same
  BY <1>1 DEF Hooked
<1>2. ASSUME NEW t \in Thread, CheckInCtx(t) PROVE Same \/ ContextIn(t)
  <2>1. CASE ctxMap[handle[t]] = Null
    <3>1. ctxMap' = [ctxMap EXCEPT ![handle[t]] = t]
          /\ hasCb' = [hasCb EXCEPT ![t] = hasCb[t] \cup {"context"}]
      BY <1>2, <2>1 DEF CheckInCtx
    <3>2. \A v \in Thread : Hooked(v, "context")' <=> Hooked(v, "context") \/ v = t
      BY <1>0, <3>1 DEF Hooked
    <3> QED
      BY <1>2, <2>1, <3>1, <3>2 DEF ContextIn
  <2>2. CASE ctxMap[handle[t]] # Null
    BY <1>1, <1>2, <2>2 DEF CheckInCtx
  <2> QED
    BY <2>1, <2>2
<1>3. ASSUME NEW t \in Thread, RemoveFromContexts(t) PROVE \E w \in Thread : ContextOut(t, w)
  <2>1. PICK w \in Thread :
            /\ dtor[t] = w /\ "context" \in hasCb[w]
            /\ hasCb' = [hasCb EXCEPT ![w] = hasCb[w] \ {"context"}]
            /\ ctxMap' = [ctxMap EXCEPT ![handle[w]] = Null]
    BY <1>3 DEF RemoveFromContexts
  <2>2. \A v \in Thread : Hooked(v, "context")' <=> Hooked(v, "context") /\ v # w
    BY <1>0, <2>1 DEF Hooked
  <2> QED
    BY <2>1, <2>2 DEF ContextOut, Hooked
<1>4. ASSUME NEW t \in Thread, CheckInService(t) PROVE Same
  <2>1. ctxMap' = ctxMap
        /\ (hasCb' = hasCb \/ hasCb' = [hasCb EXCEPT ![t] = hasCb[t] \cup {"service"}])
    BY <1>4 DEF CheckInService
  <2> QED
    BY <1>0, <2>1 DEF Hooked
<1>5. ASSUME NEW t \in Thread, LockService(t) \/ RemoveFromService(t) PROVE Same
  <2>1. PICK w \in Thread : hasCb' \in {hasCb, [hasCb EXCEPT ![w] = hasCb[w] \ {"service"}]}
    BY <1>5 DEF LockService, RemoveFromService, TypeOK
  <2>2. ctxMap' = ctxMap
    BY <1>5 DEF LockService, RemoveFromService, mapVars
  <2> QED
    BY <1>0, <2>1, <2>2 DEF Hooked
<1>6. ASSUME NEW t \in Thread, FetchOrCreate(t) \/ CtorRead(t) \/ CtorWrite(t) \/ Gc(t)
                \/ DropService(t) \/ DtorDone(t)
      PROVE  Same
  BY <1>1, <1>6 DEF FetchOrCreate, CtorRead, CtorWrite, Gc, DropService, DtorDone, mapVars, vmVars
<1>7. ASSUME NEW t \in Thread, InCall(t) PROVE Same
  BY <1>1, <1>7, InCallPlace
<1>8. ASSUME Frozen PROVE Same
  BY <1>1, <1>8 DEF Frozen, mapVars, vmVars
<1> QED
  BY <1>2, <1>3, <1>4, <1>5, <1>6, <1>7, <1>8, Kinds DEF Destroy

\* The same for the map of a service.
ServiceIn(t) ==
    /\ CheckInService(t) /\ NameOf[t] \in svcMap /\ svcVms[NameOf[t]][handle[t]] = Null
    /\ svcVms' = [svcVms EXCEPT ![NameOf[t]][handle[t]] = t]
    /\ \A v \in Thread : Hooked(v, "service")' <=> Hooked(v, "service") \/ v = t

ServiceOut(t, w) ==
    /\ dtor[t] = w /\ Hooked(w, "service")
    /\ svcVms' = IF ServiceAlive(NameOf[w])
                   THEN [svcVms EXCEPT ![NameOf[w]][handle[w]] = Null] ELSE svcVms
    /\ \A v \in Thread : Hooked(v, "service")' <=> Hooked(v, "service") /\ v # w

\* So does the map of a service, unless the service is dead.
LEMMA ServiceChange ==
    ASSUME TypeOK, Phase, [Next]_vars
    PROVE  \/ svcVms' = svcVms /\ \A v \in Thread : Hooked(v, "service")' <=> Hooked(v, "service")
           \/ \E t \in Thread : ServiceIn(t)
           \/ \E t, w \in Thread : ServiceOut(t, w)
<1> DEFINE Same == svcVms' = svcVms
                   /\ \A v \in Thread : Hooked(v, "service")' <=> Hooked(v, "service")
<1>0. hasCb \in [Thread -> SUBSET {"service", "context"}]
  BY DEF TypeOK
<1>1. ASSUME svcVms' = svcVms, hasCb' = hasCb PROVE Same
  BY <1>1 DEF Hooked
<1>2. ASSUME NEW t \in Thread, CheckInService(t) PROVE Same \/ ServiceIn(t)
  <2>0. svcRef[t] = NameOf[t] /\ NameOf[t] \in svcMap
    BY <1>2 DEF CheckInService, At, Phase
  <2>1. CASE svcVms[NameOf[t]][handle[t]] = Null
    <3>1. svcVms' = [svcVms EXCEPT ![NameOf[t]][handle[t]] = t]
          /\ hasCb' = [hasCb EXCEPT ![t] = hasCb[t] \cup {"service"}]
      BY <1>2, <2>0, <2>1 DEF CheckInService
    <3>2. \A v \in Thread : Hooked(v, "service")' <=> Hooked(v, "service") \/ v = t
      BY <1>0, <3>1 DEF Hooked
    <3> QED
      BY <1>2, <2>0, <2>1, <3>1, <3>2 DEF ServiceIn
  <2>2. CASE svcVms[NameOf[t]][handle[t]] # Null
    BY <1>1, <1>2, <2>0, <2>2 DEF CheckInService
  <2> QED
    BY <2>1, <2>2
<1>3. ASSUME NEW t \in Thread, LockService(t) \/ RemoveFromService(t)
      PROVE  Same \/ \E w \in Thread : ServiceOut(t, w)
  <2>1. CASE hasCb' = hasCb /\ LockService(t)
    BY <1>1, <2>1 DEF LockService, mapVars
  <2>2. CASE hasCb' # hasCb \/ RemoveFromService(t)
    <3>1. PICK w \in Thread :
            /\ dtor[t] = w /\ "service" \in hasCb[w]
            /\ hasCb' = [hasCb EXCEPT ![w] = hasCb[w] \ {"service"}]
            /\ svcVms' = IF ServiceAlive(NameOf[w])
                           THEN [svcVms EXCEPT ![NameOf[w]][handle[w]] = Null] ELSE svcVms
      <4>1. CASE LockService(t)
        BY <2>2, <4>1 DEF LockService, RemoveFromService, mapVars
      <4>2. CASE RemoveFromService(t)
        BY <4>2 DEF RemoveFromService, ServiceAlive, TypeOK
      <4> QED
        BY <1>3, <4>1, <4>2
    <3>2. \A v \in Thread : Hooked(v, "service")' <=> Hooked(v, "service") /\ v # w
      BY <1>0, <3>1 DEF Hooked
    <3> QED
      BY <3>1, <3>2 DEF ServiceOut, Hooked
  <2> QED
    BY <1>3, <2>1, <2>2
<1>4. ASSUME NEW t \in Thread, CheckInCtx(t) PROVE Same
  <2>1. svcVms' = svcVms
        /\ (hasCb' = hasCb \/ hasCb' = [hasCb EXCEPT ![t] = hasCb[t] \cup {"context"}])
    BY <1>4 DEF CheckInCtx
  <2> QED
    BY <1>0, <2>1 DEF Hooked
<1>5. ASSUME NEW t \in Thread, RemoveFromContexts(t) PROVE Same
  <2>1. PICK w \in Thread : hasCb' = [hasCb EXCEPT ![w] = hasCb[w] \ {"context"}]
    BY <1>5 DEF RemoveFromContexts
  <2>2. svcVms' = svcVms
    BY <1>5 DEF RemoveFromContexts
  <2> QED
    BY <1>0, <2>1, <2>2 DEF Hooked
<1>6. ASSUME NEW t \in Thread, FetchOrCreate(t) \/ CtorRead(t) \/ CtorWrite(t) \/ Gc(t)
                \/ DropService(t) \/ DtorDone(t)
      PROVE  Same
  BY <1>1, <1>6 DEF FetchOrCreate, CtorRead, CtorWrite, Gc, DropService, DtorDone, mapVars, vmVars
<1>7. ASSUME NEW t \in Thread, InCall(t) PROVE Same
  BY <1>1, <1>7, InCallPlace
<1>8. ASSUME Frozen PROVE Same
  BY <1>1, <1>8 DEF Frozen, mapVars, vmVars
<1> QED
  BY <1>2, <1>3, <1>4, <1>5, <1>6, <1>7, <1>8, Kinds DEF Destroy

\* Built VMs are those with a handle.
LEMMA BuiltHandle ==
    ASSUME TypeOK, Phase, NEW v \in Thread
    PROVE  /\ v \in Built <=> handle[v] \in Handle
           /\ \A h \in Handle : handle[v] = h => v \in Built
<1>1. 0 \notin Handle
  BY HandlesAreNumbers, FS_CardinalityType, RegistryAssumption DEF Handle
<1>2. handle[v] \in Handle \cup {0}
  BY DEF TypeOK
<1> QED
  BY <1>1, <1>2 DEF Phase

\* Entries of ContextMgr and the callbacks that remove them stay paired: handles
\* never change, and a key that is taken is left alone.
LEMMA ContextsStep ==
    ASSUME TypeOK, Phase, Contexts, [Next]_vars
    PROVE  Contexts'
<1>0. ctxMap \in [Handle -> Thread \cup {Null}]
  BY DEF TypeOK
<1>1. ASSUME NEW h \in Handle, ctxMap'[h] = ctxMap[h], ctxMap[h] # Null
      PROVE  /\ ctxMap[h] \in Thread /\ handle[ctxMap[h]] = h /\ Hooked(ctxMap[h], "context")
             /\ handle'[ctxMap[h]] = h
  <2>1. ctxMap[h] \in Thread /\ handle[ctxMap[h]] = h /\ Hooked(ctxMap[h], "context")
    BY <1>0, <1>1 DEF Contexts, Hooked
  <2>2. ctxMap[h] \in Built
    BY <2>1, BuiltHandle
  <2> QED
    BY <2>1, <2>2, Onward
<1>2. ASSUME NEW v \in Thread, Hooked(v, "context")
      PROVE  /\ v \in Built /\ v \in Built' /\ handle[v] \in Handle /\ handle'[v] = handle[v]
             /\ ctxMap[handle[v]] = v /\ pc'[v] \notin {"checkInService", "checkInCtx"}
  <2>1. v \in Built /\ pc[v] \notin {"checkInService", "checkInCtx"} /\ ctxMap[handle[v]] = v
    BY <1>2 DEF Contexts, Hooked
  <2> QED
    BY <2>1, BuiltHandle, Onward
<1> DEFINE Entries == \A h \in Handle : ctxMap'[h] # Null =>
                        handle'[ctxMap'[h]] = h /\ "context" \in hasCb'[ctxMap'[h]]
           Hooks == \A v \in Thread : Hooked(v, "context")' =>
                        /\ v \in Built' /\ pc'[v] \notin {"checkInService", "checkInCtx"}
                        /\ ctxMap'[handle'[v]] = v
<1>3. ASSUME ctxMap' = ctxMap, \A v \in Thread : Hooked(v, "context")' <=> Hooked(v, "context")
      PROVE  Entries /\ Hooks
  <2>1. ASSUME NEW h \in Handle, ctxMap'[h] # Null
        PROVE  handle'[ctxMap'[h]] = h /\ "context" \in hasCb'[ctxMap'[h]]
    <3>1. PICK u \in Thread : u = ctxMap'[h]
      BY <1>0, <1>3, <2>1
    <3> QED
      BY <1>1, <1>3, <2>1, <3>1 DEF Hooked
  <2> QED
    BY <1>2, <1>3, <2>1
<1>4. ASSUME NEW t \in Thread, ContextIn(t) PROVE Entries /\ Hooks
  <2>1. /\ pc[t] = "checkInCtx" /\ pc' = [pc EXCEPT ![t] = "vmCount"]
        /\ ctxMap[handle[t]] = Null /\ ctxMap' = [ctxMap EXCEPT ![handle[t]] = t]
        /\ \A v \in Thread : Hooked(v, "context")' <=> Hooked(v, "context") \/ v = t
    BY <1>4 DEF ContextIn, CheckInCtx, At, Goto
  <2>2. t \in Built
    BY <2>1 DEF Built
  <2>3. handle[t] \in Handle /\ handle'[t] = handle[t] /\ t \in Built'
    BY <2>2, BuiltHandle, Onward
  <2>4. ASSUME NEW h \in Handle, ctxMap'[h] # Null
        PROVE  handle'[ctxMap'[h]] = h /\ "context" \in hasCb'[ctxMap'[h]]
    <3>1. CASE h = handle[t]
      <4>1. ctxMap'[h] = t
        BY <1>0, <2>1, <2>3, <3>1
      <4>2. Hooked(t, "context")'
        BY <2>1
      <4> QED
        BY <2>3, <3>1, <4>1, <4>2 DEF Hooked
    <3>2. CASE h # handle[t]
      <4>1. ctxMap'[h] = ctxMap[h]
        BY <1>0, <2>1, <2>3, <3>2
      <4>2. PICK u \in Thread : u = ctxMap'[h]
        BY <1>0, <2>4, <4>1
      <4> QED
        BY <1>1, <2>1, <2>4, <4>1, <4>2 DEF Hooked
    <3> QED
      BY <3>1, <3>2
  <2>5. ASSUME NEW v \in Thread, Hooked(v, "context")'
        PROVE  /\ v \in Built' /\ pc'[v] \notin {"checkInService", "checkInCtx"}
               /\ ctxMap'[handle'[v]] = v
    <3>1. CASE v = t
      <4>1. pc'[t] = "vmCount"
        BY <2>1 DEF TypeOK
      <4> QED
        BY <1>0, <2>1, <2>3, <3>1, <4>1
    <3>2. CASE v # t
      <4>1. Hooked(v, "context")
        BY <2>1, <2>5, <3>2
      <4>2. handle[v] # handle[t]
        BY <1>2, <2>1, <4>1, RegistryAssumption
      <4> QED
        BY <1>0, <1>2, <2>1, <2>3, <4>1, <4>2
    <3> QED
      BY <3>1, <3>2
  <2> QED
    BY <2>4, <2>5
<1>5. ASSUME NEW t \in Thread, NEW w \in Thread, ContextOut(t, w) PROVE Entries /\ Hooks
  <2>1. /\ Hooked(w, "context") /\ ctxMap' = [ctxMap EXCEPT ![handle[w]] = Null]
        /\ \A v \in Thread : Hooked(v, "context")' <=> Hooked(v, "context") /\ v # w
    BY <1>5 DEF ContextOut
  <2>2. handle[w] \in Handle /\ ctxMap[handle[w]] = w
    BY <1>2, <2>1
  <2>3. ASSUME NEW h \in Handle, ctxMap'[h] # Null
        PROVE  handle'[ctxMap'[h]] = h /\ "context" \in hasCb'[ctxMap'[h]]
    <3>1. h # handle[w] /\ ctxMap'[h] = ctxMap[h]
      BY <1>0, <2>1, <2>2, <2>3
    <3>2. PICK u \in Thread : u = ctxMap'[h]
      BY <1>0, <2>3, <3>1
    <3> QED
      BY <1>1, <2>1, <2>3, <3>1, <3>2 DEF Hooked
  <2>4. ASSUME NEW v \in Thread, Hooked(v, "context")'
        PROVE  /\ v \in Built' /\ pc'[v] \notin {"checkInService", "checkInCtx"}
               /\ ctxMap'[handle'[v]] = v
    <3>1. Hooked(v, "context") /\ v # w
      BY <2>1, <2>4
    <3>2. handle[v] # handle[w]
      BY <1>2, <2>2, <3>1
    <3> QED
      BY <1>0, <1>2, <2>1, <2>2, <3>1, <3>2
  <2> QED
    BY <2>3, <2>4
<1>6. Entries /\ Hooks
  BY <1>3, <1>4, <1>5, ContextChange
<1> QED
  BY <1>6 DEF Contexts, Hooked

\* A destructor runs for a VM that nobody holds, once: what is looked up is alive,
\* and a VM dies with its last reference.
LEMMA DyingStep ==
    ASSUME TypeOK, TypeOK', Phase, Dying, [Next]_vars
    PROVE  Dying'
<1>0. dtor \in [Thread -> Thread \cup {Null}]
  BY DEF TypeOK
<1>1. \A v \in Built : v \in Built'
  BY Onward
<1>2. ASSUME NEW t \in Thread, dtor'[t] # Null,
             NEW v \in Thread, v = dtor'[t]
      PROVE  v \in Built' /\ ~VmAlive(v)' /\ \A u \in Thread \ {t} : dtor'[u] # v
  <2>1. CASE SameLife
    BY <1>1, <1>2, <2>1 DEF SameLife, Dying
  <2>2. ASSUME NEW s \in Thread, Birth(s)
        PROVE  v \in Built' /\ ~VmAlive(v)' /\ \A u \in Thread \ {t} : dtor'[u] # v
    BY <1>1, <1>2, <2>2 DEF Birth, Dying
  <2>3. ASSUME NEW s \in Thread, End(s)
        PROVE  v \in Built' /\ ~VmAlive(v)' /\ \A u \in Thread \ {t} : dtor'[u] # v
    <3>1. dtor' = [dtor EXCEPT ![s] = Null] /\ (VmAlive(v)' <=> VmAlive(v))
      BY <2>3 DEF End
    <3>2. t # s /\ v = dtor[t]
      BY <1>0, <1>2, <3>1
    <3> QED
      BY <1>0, <1>1, <1>2, <3>1, <3>2, RegistryAssumption DEF Dying
  <2>4. ASSUME NEW s \in Thread, NEW w \in Thread, Death(s, w)
        PROVE  v \in Built' /\ ~VmAlive(v)' /\ \A u \in Thread \ {t} : dtor'[u] # v
    <3>1. /\ dtor[s] = Null /\ dtor' = [dtor EXCEPT ![s] = w] /\ VmAlive(w) /\ w \in Built
          /\ ~VmAlive(w)' /\ \A u \in Thread \ {w} : VmAlive(u)' <=> VmAlive(u)
      BY <2>4 DEF Death
    <3>2. \A u \in Thread : dtor[u] # w
      BY <3>1, RegistryAssumption DEF Dying
    <3>3. CASE t = s
      <4>1. v = w /\ \A u \in Thread \ {t} : dtor'[u] = dtor[u]
        BY <1>0, <1>2, <3>1, <3>3
      <4> QED
        BY <1>1, <3>1, <3>2, <4>1
    <3>4. CASE t # s
      <4>1. v = dtor[t] /\ dtor[t] # Null /\ dtor'[s] = w
            /\ \A u \in Thread \ {s} : dtor'[u] = dtor[u]
        BY <1>0, <1>2, <3>1, <3>4
      <4>2. v \in Built /\ ~VmAlive(v) /\ v # w /\ \A u \in Thread \ {t} : dtor[u] # v
        BY <3>2, <4>1 DEF Dying
      <4> QED
        BY <1>1, <3>1, <4>1, <4>2
    <3> QED
      BY <3>3, <3>4
  <2> QED
    BY <2>1, <2>2, <2>3, <2>4, LifeStep
<1>3. \A t \in Thread : dtor'[t] \in Thread \cup {Null}
  BY DEF TypeOK
<1> QED
  BY <1>2, <1>3 DEF Dying, VmAlive

\* A VM that is in a map dies only into its destructor, which clears its callbacks
\* before it ends.
LEMMA DeadStep ==
    ASSUME TypeOK, TypeOK', Phase, Dead, [Next]_vars
    PROVE  Dead'
<1>0. dtor \in [Thread -> Thread \cup {Null}]
  BY DEF TypeOK
<1>1. ASSUME NEW v \in Thread, ContextIn(v) \/ ServiceIn(v) PROVE VmAlive(v)'
  <2>1. own' = own /\ pc[v] \in {"checkInService", "checkInCtx"}
    BY <1>1 DEF ContextIn, ServiceIn, CheckInCtx, CheckInService, At
  <2>2. v \in own
    BY <2>1 DEF Phase, Built
  <2> QED
    BY <2>1, <2>2 DEF VmAlive
<1>2. ASSUME NEW v \in Thread, hasCb'[v] # {}, ~VmAlive(v)' PROVE hasCb[v] # {}
  <2>1. Hooked(v, "context")' \/ Hooked(v, "service")'
    <3>1. hasCb'[v] \subseteq {"service", "context"}
      BY DEF TypeOK
    <3> QED
      BY <1>2, <3>1 DEF Hooked
  <2>2. Hooked(v, "context")' => Hooked(v, "context")
    BY <1>1, <1>2, ContextChange DEF ContextIn, ContextOut
  <2>3. Hooked(v, "service")' => Hooked(v, "service")
    BY <1>1, <1>2, ServiceChange DEF ServiceIn, ServiceOut
  <2> QED
    BY <2>1, <2>2, <2>3 DEF Hooked
<1>3. ASSUME NEW v \in Thread, hasCb[v] # {}, ~VmAlive(v)'
      PROVE  \E t \in Thread : dtor'[t] = v
  <2>1. ~VmAlive(v) => \E t \in Thread : dtor[t] = v
    BY <1>3 DEF Dead
  <2>2. CASE SameLife
    BY <1>3, <2>1, <2>2 DEF SameLife
  <2>3. ASSUME NEW s \in Thread, Birth(s) PROVE \E t \in Thread : dtor'[t] = v
    BY <1>3, <2>1, <2>3 DEF Birth
  <2>4. ASSUME NEW s \in Thread, End(s) PROVE \E t \in Thread : dtor'[t] = v
    <3>1. hasCb[dtor[s]] = {} /\ dtor' = [dtor EXCEPT ![s] = Null] /\ ~VmAlive(v)
      BY <1>3, <2>4 DEF End
    <3>2. PICK t \in Thread : dtor[t] = v
      BY <2>1, <3>1
    <3>3. t # s
      BY <1>3, <3>1, <3>2
    <3> QED
      BY <1>0, <3>1, <3>2, <3>3
  <2>5. ASSUME NEW s \in Thread, NEW w \in Thread, Death(s, w)
        PROVE  \E t \in Thread : dtor'[t] = v
    <3>1. dtor[s] = Null /\ dtor' = [dtor EXCEPT ![s] = w]
      BY <2>5 DEF Death
    <3>2. CASE v = w
      BY <1>0, <3>1, <3>2
    <3>3. CASE v # w
      <4>1. ~VmAlive(v)
        BY <1>3, <2>5, <3>3 DEF Death
      <4>2. PICK t \in Thread : dtor[t] = v
        BY <2>1, <4>1
      <4> QED
        BY <1>0, <3>1, <4>2, RegistryAssumption
    <3> QED
      BY <3>2, <3>3
  <2> QED
    BY <2>2, <2>3, <2>4, <2>5, LifeStep
<1> QED
  BY <1>2, <1>3 DEF Dead, VmAlive

\* The values of an updated function of functions.
LEMMA NestedValue ==
    ASSUME NEW A, NEW B, NEW C, NEW f \in [A -> [B -> C]], NEW c,
           NEW a \in A, NEW b \in B, NEW x \in A, NEW y \in B
    PROVE  [f EXCEPT ![a][b] = c][x][y] = IF x = a /\ y = b THEN c ELSE f[x][y]
  OBVIOUS

\* ServiceMgr forgets no name.
LEMMA Remembered ==
    ASSUME TypeOK, Phase, [Next]_vars
    PROVE  svcMap \subseteq svcMap'
<1>1. ASSUME NEW t \in Thread, InCall(t) PROVE svcMap' = svcMap
  BY <1>1, InCallPlace
<1>2. ASSUME NEW t \in Thread, CtorRead(t) \/ CtorWrite(t) \/ CheckInService(t) \/ CheckInCtx(t)
                \/ Gc(t) \/ Destroy(t)
      PROVE  svcMap' = svcMap
  BY <1>2 DEF CtorRead, CtorWrite, CheckInService, CheckInCtx, Gc, Destroy, DropService,
        LockService, RemoveFromService, RemoveFromContexts, DtorDone, mapVars
<1>3. ASSUME NEW t \in Thread, FetchOrCreate(t) PROVE svcMap \subseteq svcMap'
  BY <1>3 DEF FetchOrCreate
<1>4. ASSUME Frozen PROVE svcMap' = svcMap
  BY <1>4 DEF Frozen, mapVars
<1> QED
  BY <1>1, <1>2, <1>3, <1>4, Kinds

\* Entries of a service and the callbacks that remove them stay paired while the
\* service lives; it never comes back to life.
LEMMA ServicesStep ==
    ASSUME TypeOK, TypeOK', Phase, Services, [Next]_vars
    PROVE  Services'
<1>0. /\ svcVms \in [Name -> [Handle -> Thread \cup {Null}]]
      /\ \A v \in Thread : NameOf[v] \in Name
      /\ Null \notin Thread
  BY RegistryAssumption DEF TypeOK
<1>1. ASSUME NEW n \in Name, NEW h \in Handle, NEW u \in Thread, svcVms[n][h] = u
      PROVE  /\ NameOf[u] = n /\ handle[u] = h /\ handle'[u] = h /\ n \in svcMap'
             /\ Hooked(u, "service") \/ ~ServiceAlive(n)'
  <2>1. /\ n \in svcMap /\ NameOf[u] = n /\ handle[u] = h
        /\ Hooked(u, "service") \/ ~ServiceAlive(n)
    BY <1>0, <1>1 DEF Services, Hooked
  <2>2. u \in Built
    BY <2>1, BuiltHandle
  <2> QED
    BY <2>1, <2>2, Onward, Remembered, ServiceLife
<1>2. ASSUME NEW v \in Thread, Hooked(v, "service")
      PROVE  /\ v \in Built /\ v \in Built' /\ handle[v] \in Handle /\ handle'[v] = handle[v]
             /\ svcVms[NameOf[v]][handle[v]] = v /\ pc'[v] # "checkInService"
  <2>1. v \in Built /\ pc[v] # "checkInService" /\ svcVms[NameOf[v]][handle[v]] = v
    BY <1>2 DEF Services, Hooked
  <2> QED
    BY <2>1, BuiltHandle, Onward
<1> DEFINE Entry(n, h, u) == svcVms'[n][h] = u =>
                /\ n \in svcMap' /\ NameOf[u] = n /\ handle'[u] = h
                /\ Hooked(u, "service")' \/ ~ServiceAlive(n)'
           Hook(v) == Hooked(v, "service")' =>
                /\ v \in Built' /\ pc'[v] # "checkInService"
                /\ svcVms'[NameOf[v]][handle'[v]] = v
           Kept == /\ \A n \in Name, h \in Handle, u \in Thread : Entry(n, h, u)
                   /\ \A v \in Thread : Hook(v)
<1>3. ASSUME svcVms' = svcVms, \A v \in Thread : Hooked(v, "service")' <=> Hooked(v, "service")
      PROVE  Kept
  BY <1>1, <1>2, <1>3
<1>4. ASSUME NEW t \in Thread, ServiceIn(t) PROVE Kept
  <2>1. /\ pc[t] = "checkInService" /\ pc' = [pc EXCEPT ![t] = "checkInCtx"]
        /\ svcVms[NameOf[t]][handle[t]] = Null
        /\ svcVms' = [svcVms EXCEPT ![NameOf[t]][handle[t]] = t]
        /\ NameOf[t] \in svcMap
        /\ \A v \in Thread : Hooked(v, "service")' <=> Hooked(v, "service") \/ v = t
    BY <1>4 DEF ServiceIn, CheckInService, At, Goto
  <2>2. t \in Built
    BY <2>1 DEF Built
  <2>3. handle[t] \in Handle /\ handle'[t] = handle[t] /\ t \in Built' /\ NameOf[t] \in svcMap'
    BY <2>1, <2>2, BuiltHandle, Onward, Remembered
  <2>4. \A n \in Name, h \in Handle :
            svcVms'[n][h] = IF n = NameOf[t] /\ h = handle[t] THEN t ELSE svcVms[n][h]
    BY <1>0, <2>1, <2>3, NestedValue
  <2>5. ASSUME NEW n \in Name, NEW h \in Handle, NEW u \in Thread PROVE Entry(n, h, u)
    BY <1>1, <2>1, <2>3, <2>4
  <2>6. ASSUME NEW v \in Thread PROVE Hook(v)
    <3>1. CASE v = t
      <4>1. pc'[t] = "checkInCtx"
        BY <2>1 DEF TypeOK
      <4> QED
        BY <1>0, <2>3, <2>4, <3>1, <4>1
    <3>2. CASE v # t /\ Hooked(v, "service")
      BY <1>0, <1>2, <2>1, <2>3, <2>4, <3>2
    <3> QED
      BY <2>1, <3>1, <3>2
  <2> QED
    BY <2>5, <2>6
<1>5. ASSUME NEW t \in Thread, NEW w \in Thread, ServiceOut(t, w) PROVE Kept
  <2>1. /\ Hooked(w, "service")
        /\ svcVms' = IF ServiceAlive(NameOf[w])
                       THEN [svcVms EXCEPT ![NameOf[w]][handle[w]] = Null] ELSE svcVms
        /\ \A v \in Thread : Hooked(v, "service")' <=> Hooked(v, "service") /\ v # w
    BY <1>5 DEF ServiceOut
  <2>2. handle[w] \in Handle /\ svcVms[NameOf[w]][handle[w]] = w
    BY <1>2, <2>1
  <2>3. ServiceAlive(NameOf[w]) => \A n \in Name, h \in Handle :
            svcVms'[n][h] = IF n = NameOf[w] /\ h = handle[w] THEN Null ELSE svcVms[n][h]
    BY <1>0, <2>1, <2>2, NestedValue
  <2>4. NameOf[w] \in svcMap
    BY <1>0, <2>2 DEF Services
  <2>5. ASSUME NEW n \in Name, NEW h \in Handle, NEW u \in Thread PROVE Entry(n, h, u)
    <3>1. CASE ServiceAlive(NameOf[w])
      <4>1. ASSUME svcVms'[n][h] = u
            PROVE  svcVms[n][h] = u /\ u # w
        <5>1. ~(n = NameOf[w] /\ h = handle[w]) /\ svcVms[n][h] = u
          BY <1>0, <2>3, <3>1, <4>1
        <5> QED
          BY <1>1, <5>1
      <4> QED
        BY <1>1, <2>1, <4>1
    <3>2. CASE ~ServiceAlive(NameOf[w])
      <4>1. svcVms' = svcVms /\ ~ServiceAlive(NameOf[w])'
        BY <2>1, <2>4, <3>2, ServiceLife
      <4> QED
        BY <1>1, <2>1, <4>1
    <3> QED
      BY <3>1, <3>2
  <2>6. ASSUME NEW v \in Thread PROVE Hook(v)
    <3>1. CASE Hooked(v, "service") /\ v # w
      BY <1>0, <1>2, <2>1, <2>2, <2>3, <3>1
    <3> QED
      BY <2>1, <3>1
  <2> QED
    BY <2>5, <2>6
<1>6. Kept
  BY <1>3, <1>4, <1>5, ServiceChange
<1>7. ASSUME NEW n \in Name, NEW h \in Handle, svcVms'[n][h] # Null
      PROVE  svcVms'[n][h] \in Thread
  <2>1. svcVms' \in [Name -> [Handle -> Thread \cup {Null}]]
    BY DEF TypeOK
  <2> QED
    BY <1>7, <2>1
<1> QED
  BY <1>6, <1>7 DEF Services, Hooked, ServiceAlive

\* A VM that is in its maps stays there while Lua holds it; one that could not
\* check in shares its handle with the VM that has the key.
LEMMA ReachableStep ==
    ASSUME TypeOK, TypeOK', Phase, Phase', Contexts, Services, Dying, Reachable, [Next]_vars
    PROVE  Reachable'
<1>0. /\ svcVms \in [Name -> [Handle -> Thread \cup {Null}]]
      /\ ctxMap \in [Handle -> Thread \cup {Null}]
      /\ \A v \in Thread : NameOf[v] \in Name
      /\ Null \notin Thread
  BY RegistryAssumption DEF TypeOK
<1>1. ASSUME NEW v \in Built PROVE v \in Thread /\ handle[v] \in Handle /\ handle'[v] = handle[v]
  <2>1. v \in Thread
    BY DEF Built
  <2> QED
    BY <2>1, BuiltHandle, Onward
<1>2. ASSUME NEW v \in Built, Twin(v) PROVE Twin(v)'
  <2>1. PICK u \in Thread \ {v} : handle[u] = handle[v]
    BY <1>2 DEF Twin
  <2>2. u \in Built
    BY <1>1, <2>1, BuiltHandle
  <2> QED
    BY <1>1, <2>1, <2>2 DEF Twin
<1>3. ASSUME NEW v \in Built, NEW u \in Thread, handle[u] = handle[v]
      PROVE  u = v \/ Twin(v)'
  BY <1>2, <1>3 DEF Twin
<1>4. ASSUME NEW v \in Thread, v \in own, v \in own'
      PROVE  /\ v \in Built /\ VmAlive(v) /\ \A t \in Thread : dtor[t] # v
  <2>1. v \in Built /\ VmAlive(v)
    BY <1>4 DEF Phase, VmAlive
  <2> QED
    BY <1>0, <2>1 DEF Dying
<1>5. ASSUME NEW v \in Thread, v \in own, v \in own', pc'[v] # "checkInService"
      PROVE  svcVms'[NameOf[v]][handle'[v]] = v \/ Twin(v)'
  <2>0. v \in Built /\ handle[v] \in Handle /\ handle'[v] = handle[v]
    BY <1>1, <1>4, <1>5
  <2>1. CASE Twin(v)
    BY <1>2, <2>0, <2>1
  <2>2. CASE pc[v] # "checkInService" /\ svcVms[NameOf[v]][handle[v]] = v
    <3>1. ASSUME NEW t \in Thread, ServiceIn(t) PROVE svcVms'[NameOf[v]][handle[v]] = v
      <4>1. /\ svcVms[NameOf[t]][handle[t]] = Null /\ t \in Built
            /\ svcVms' = [svcVms EXCEPT ![NameOf[t]][handle[t]] = t]
        BY <3>1 DEF ServiceIn, CheckInService, At, Built
      <4>2. svcVms'[NameOf[v]][handle[v]] =
                IF NameOf[v] = NameOf[t] /\ handle[v] = handle[t]
                  THEN t ELSE svcVms[NameOf[v]][handle[v]]
        BY <1>0, <1>1, <2>0, <4>1, NestedValue
      <4> QED
        BY <1>0, <2>2, <4>1, <4>2
    <3>2. ASSUME NEW t \in Thread, NEW w \in Thread, ServiceOut(t, w)
          PROVE  svcVms'[NameOf[v]][handle[v]] = v
      <4>1. /\ dtor[t] = w /\ svcVms[NameOf[w]][handle[w]] = w /\ w \in Built
            /\ svcVms' = IF ServiceAlive(NameOf[w])
                           THEN [svcVms EXCEPT ![NameOf[w]][handle[w]] = Null] ELSE svcVms
        BY <3>2 DEF ServiceOut, Hooked, Services
      <4>2. w # v
        BY <1>4, <1>5, <4>1
      <4>3. [svcVms EXCEPT ![NameOf[w]][handle[w]] = Null][NameOf[v]][handle[v]] =
                IF NameOf[v] = NameOf[w] /\ handle[v] = handle[w]
                  THEN Null ELSE svcVms[NameOf[v]][handle[v]]
        BY <1>0, <1>1, <2>0, <4>1, NestedValue
      <4> QED
        BY <2>2, <4>1, <4>2, <4>3
    <3> QED
      BY <2>0, <2>2, <3>1, <3>2, ServiceChange
  <2>3. CASE pc[v] = "checkInService"
    <3>1. CheckInService(v)
      <4>1. ASSUME NEW t \in Thread, InCall(t) PROVE pc'[v] = pc[v]
        BY <2>3, <4>1, InCallPlace DEF Calling
      <4>2. ASSUME NEW t \in Thread,
                   FetchOrCreate(t) \/ CtorRead(t) \/ CtorWrite(t) \/ CheckInCtx(t) \/ Gc(t)
            PROVE  pc'[v] = pc[v]
        <5>1. t # v /\ \E p \in PC : pc' = [pc EXCEPT ![t] = p]
          BY <2>3, <4>2 DEF FetchOrCreate, CtorRead, CtorWrite, CheckInCtx, Gc, At, Goto, PC
        <5> QED
          BY <5>1 DEF TypeOK
      <4>3. ASSUME NEW t \in Thread, CheckInService(t) PROVE t = v \/ pc'[v] = pc[v]
        BY <4>3 DEF CheckInService, Goto, TypeOK
      <4>4. ASSUME Frozen \/ \E t \in Thread : Destroy(t) PROVE pc'[v] = pc[v]
        BY <4>4 DEF Frozen, Destroy, DropService, LockService, RemoveFromService, RemoveFromContexts, DtorDone
      <4> QED
        BY <1>5, <2>3, <4>1, <4>2, <4>3, <4>4, Kinds
    <3>2. svcRef[v] = NameOf[v]
      BY <2>3, <3>1 DEF CheckInService, Phase
    <3>3. CASE svcVms[NameOf[v]][handle[v]] = Null
      <4>1. svcVms' = [svcVms EXCEPT ![NameOf[v]][handle[v]] = v]
        BY <3>1, <3>2, <3>3 DEF CheckInService
      <4> QED
        BY <1>0, <2>0, <4>1, NestedValue
    <3>4. CASE svcVms[NameOf[v]][handle[v]] # Null
      <4>1. svcVms' = svcVms
        BY <3>1, <3>2, <3>4 DEF CheckInService
      <4>2. PICK u \in Thread : u = svcVms[NameOf[v]][handle[v]]
        BY <1>0, <2>0, <3>4
      <4>3. handle[u] = handle[v]
        BY <1>0, <2>0, <3>4, <4>2 DEF Services
      <4> QED
        BY <1>3, <2>0, <4>1, <4>2, <4>3
    <3> QED
      BY <3>3, <3>4
  <2> QED
    BY <1>5, <2>1, <2>2, <2>3 DEF Reachable
<1>6. ASSUME NEW v \in Thread, v \in own, v \in own', pc'[v] \notin {"checkInService", "checkInCtx"}
      PROVE  ctxMap'[handle'[v]] = v \/ Twin(v)'
  <2>0. v \in Built /\ handle[v] \in Handle /\ handle'[v] = handle[v]
    BY <1>1, <1>4, <1>6
  <2>1. CASE Twin(v)
    BY <1>2, <2>0, <2>1
  <2>2. CASE pc[v] \notin {"checkInService", "checkInCtx"} /\ ctxMap[handle[v]] = v
    <3>1. ASSUME NEW t \in Thread, ContextIn(t) PROVE ctxMap'[handle[v]] = v
      <4>1. ctxMap[handle[t]] = Null /\ ctxMap' = [ctxMap EXCEPT ![handle[t]] = t]
        BY <3>1 DEF ContextIn
      <4> QED
        BY <1>0, <2>0, <2>2, <4>1
    <3>2. ASSUME NEW t \in Thread, NEW w \in Thread, ContextOut(t, w)
          PROVE  ctxMap'[handle[v]] = v
      <4>1. dtor[t] = w /\ ctxMap[handle[w]] = w /\ ctxMap' = [ctxMap EXCEPT ![handle[w]] = Null]
        BY <3>2 DEF ContextOut, Hooked, Contexts
      <4>2. w # v
        BY <1>4, <1>6, <4>1
      <4> QED
        BY <1>0, <2>0, <2>2, <4>1, <4>2
    <3> QED
      BY <2>0, <2>2, <3>1, <3>2, ContextChange
  <2>3. CASE pc[v] \in {"checkInService", "checkInCtx"}
    <3>1. CheckInCtx(v)
      <4>1. ASSUME NEW t \in Thread, InCall(t) PROVE pc'[v] = pc[v]
        BY <2>3, <4>1, InCallPlace DEF Calling
      <4>2. ASSUME NEW t \in Thread,
                   FetchOrCreate(t) \/ CtorRead(t) \/ CtorWrite(t) \/ Gc(t)
            PROVE  pc'[v] = pc[v]
        <5>1. t # v /\ \E p \in PC : pc' = [pc EXCEPT ![t] = p]
          BY <2>3, <4>2 DEF FetchOrCreate, CtorRead, CtorWrite, Gc, At, Goto, PC
        <5> QED
          BY <5>1 DEF TypeOK
      <4>3. ASSUME NEW t \in Thread, CheckInService(t)
            PROVE  pc'[v] \in {"checkInService", "checkInCtx"}
        BY <2>3, <4>3 DEF CheckInService, Goto, TypeOK
      <4>5. ASSUME NEW t \in Thread, CheckInCtx(t) PROVE t = v \/ pc'[v] = pc[v]
        BY <4>5 DEF CheckInCtx, Goto, TypeOK
      <4>4. ASSUME Frozen \/ \E t \in Thread : Destroy(t) PROVE pc'[v] = pc[v]
        BY <4>4 DEF Frozen, Destroy, DropService, LockService, RemoveFromService, RemoveFromContexts, DtorDone
      <4> QED
        BY <1>6, <2>3, <4>1, <4>2, <4>3, <4>4, <4>5, Kinds
    <3>2. CASE ctxMap[handle[v]] = Null
      <4>1. ctxMap' = [ctxMap EXCEPT ![handle[v]] = v]
        BY <3>1, <3>2 DEF CheckInCtx
      <4> QED
        BY <1>0, <2>0, <4>1
    <3>3. CASE ctxMap[handle[v]] # Null
      <4>1. ctxMap' = ctxMap
        BY <3>1, <3>3 DEF CheckInCtx
      <4>2. PICK u \in Thread : u = ctxMap[handle[v]]
        BY <1>0, <2>0, <3>3
      <4>3. handle[u] = handle[v]
        BY <2>0, <3>3, <4>2 DEF Contexts
      <4> QED
        BY <1>3, <2>0, <4>1, <4>2, <4>3
    <3> QED
      BY <3>2, <3>3
  <2> QED
    BY <1>6, <2>1, <2>2, <2>3 DEF Reachable
<1>7. ASSUME NEW v \in own', v \notin own PROVE pc'[v] = "checkInService"
  <2>1. ASSUME NEW t \in Thread, InCall(t) PROVE FALSE
    BY <1>7, <2>1, InCallPlace
  <2>2. ASSUME NEW t \in Thread,
               FetchOrCreate(t) \/ CtorRead(t) \/ CheckInService(t) \/ CheckInCtx(t)
                \/ Gc(t) \/ Destroy(t)
        PROVE  FALSE
    BY <1>7, <2>2 DEF FetchOrCreate, CtorRead, CheckInService, CheckInCtx, Gc, Destroy, DropService,
        LockService, RemoveFromService, RemoveFromContexts, DtorDone, vmVars
  <2>3. ASSUME NEW t \in Thread, CtorWrite(t) PROVE pc'[v] = "checkInService"
    <3>1. v = t /\ pc' = [pc EXCEPT ![t] = "checkInService"]
      BY <1>7, <2>3 DEF CtorWrite, Goto
    <3> QED
      BY <3>1 DEF TypeOK
  <2>4. ASSUME Frozen PROVE FALSE
    BY <1>7, <2>4 DEF Frozen, vmVars
  <2> QED
    BY <2>1, <2>2, <2>3, <2>4, Kinds
<1>8. \A v \in own' : v \in Thread
  BY DEF TypeOK
<1> QED
  BY <1>5, <1>6, <1>7, <1>8 DEF Reachable, Twin

\* The invariant holds initially.
LEMMA Begins == Init => IInv
<1> SUFFICES ASSUME Init PROVE IInv
  OBVIOUS
<1> USE RegistryAssumption DEF Init
<1>1. Built = {}
  BY DEF Built
<1>2. TypeOK
  BY DEF TypeOK, PC, NoEntries
<1>3. Count
  BY BuiltSize DEF Count
<1>4. \A v \in Thread : ~VmAlive(v)
  BY DEF VmAlive
<1>5. Phase /\ Dying /\ Dead /\ Reachable
  BY <1>1, <1>4 DEF Phase, Dying, Dead, Reachable, Holding
<1>6. Contexts /\ Services
  BY DEF Contexts, Services, NoEntries
<1> QED
  BY <1>2, <1>3, <1>5, <1>6 DEF IInv

\* Every step preserves it.
LEMMA Step == IInv /\ [Next]_vars => IInv'
<1> SUFFICES ASSUME IInv, [Next]_vars PROVE IInv'
  OBVIOUS
<1>0. TypeOK /\ Count /\ Phase /\ Contexts /\ Services /\ Dying /\ Dead /\ Reachable
  BY DEF IInv
<1>1. TypeOK' /\ Count' /\ Phase'
  BY <1>0, TypeStep, CountStep, PhaseStep
<1>2. Contexts' /\ Services'
  BY <1>0, <1>1, ContextsStep, ServicesStep
<1>3. Dying' /\ Dead' /\ Reachable'
  BY <1>0, <1>1, DyingStep, DeadStep, ReachableStep
<1> QED
  BY <1>1, <1>2, <1>3 DEF IInv

-----------------------------------------------------------------------------
(***************************************************************************)
(* The theorems.                                                           *)
(***************************************************************************)
\* The inductive invariant holds of every behaviour.
THEOREM Invariance == Spec => []IInv
  BY Begins, Step, PTL DEF Spec

\* The state has its types: every handle that is given out is one of the numbers
\* up to that of threads, and a VM that anybody holds was constructed.
THEOREM TypeCorrect == Spec => []TypeOK
<1>1. IInv => TypeOK
  BY DEF IInv
<1> QED
  BY <1>1, Invariance, PTL

\* No VM is used by a call while a destructor runs for it, and none is destroyed
\* by two threads.
THEOREM UsedWhileAlive == Spec => []NoUseAfterFree
<1>1. IInv => NoUseAfterFree
  BY DEF IInv, Dying, NoUseAfterFree
<1> QED
  BY <1>1, Invariance, PTL

\* Entries of dead VMs are all about to be removed by the VM's destructor.
THEOREM DeadEntriesGo == Spec => []DeadEntriesAreOnTheWayOut
<1>1. ASSUME IInv PROVE DeadEntriesAreOnTheWayOut
  <2>1. TypeOK /\ Contexts /\ Services /\ Dead
    BY <1>1 DEF IInv
  <2>2. ASSUME NEW h \in Handle, ctxMap[h] # Null, ~VmAlive(ctxMap[h])
        PROVE  \E t \in Thread : dtor[t] = ctxMap[h] /\ "context" \in hasCb[ctxMap[h]]
    <3>1. PICK v \in Thread : v = ctxMap[h]
      BY <2>1, <2>2 DEF TypeOK
    <3>2. "context" \in hasCb[v]
      BY <2>1, <2>2, <3>1 DEF Contexts
    <3> QED
      BY <2>1, <2>2, <3>1, <3>2 DEF Dead
  <2>3. ASSUME NEW h \in Handle, NEW n \in Name, svcVms[n][h] # Null, ~VmAlive(svcVms[n][h]),
               ServiceAlive(n)
        PROVE  \E t \in Thread : dtor[t] = svcVms[n][h] /\ "service" \in hasCb[svcVms[n][h]]
    <3>0. svcVms \in [Name -> [Handle -> Thread \cup {Null}]]
      BY <2>1 DEF TypeOK
    <3>1. PICK v \in Thread : v = svcVms[n][h]
      BY <2>3, <3>0
    <3>2. "service" \in hasCb[v]
      BY <2>1, <2>3, <3>1 DEF Services
    <3> QED
      BY <2>1, <2>3, <3>1, <3>2 DEF Dead
  <2> QED
    BY <2>2, <2>3 DEF DeadEntriesAreOnTheWayOut
<1> QED
  BY <1>1, Invariance, PTL

\* A running VM whose handle is its own is found by it and by its service.
THEOREM RunningVmIsFound == Spec => []UniqueHandleIsReachable
<1>1. IInv => UniqueHandleIsReachable
  BY DEF IInv, Reachable, Twin, UniqueHandleIsReachable
<1> QED
  BY <1>1, Invariance, PTL

\* No step takes another VM's entry out of a map.
THEOREM OwnErase == Spec => NoForeignErase
<1> DEFINE Contexts1 == \A h \in Handle : ctxMap[h] # Null /\ ctxMap'[h] # ctxMap[h] =>
                            \E t \in Thread : dtor[t] = ctxMap[h]
           Services1 == \A n \in Name, h \in Handle :
                            svcVms[n][h] # Null /\ svcVms'[n][h] # svcVms[n][h] =>
                                \E t \in Thread : dtor[t] = svcVms[n][h]
<1>1. ASSUME IInv, [Next]_vars PROVE Contexts1
  <2>0. TypeOK /\ Phase /\ Contexts
    BY <1>1 DEF IInv
  <2>1. ctxMap \in [Handle -> Thread \cup {Null}]
    BY <2>0 DEF TypeOK
  <2>2. ASSUME NEW t \in Thread, ContextIn(t) PROVE Contexts1
    BY <2>1, <2>2 DEF ContextIn
  <2>3. ASSUME NEW t \in Thread, NEW w \in Thread, ContextOut(t, w) PROVE Contexts1
    <3>1. /\ dtor[t] = w /\ ctxMap[handle[w]] = w
          /\ ctxMap' = [ctxMap EXCEPT ![handle[w]] = Null]
      BY <2>0, <2>3 DEF ContextOut, Contexts, Hooked
    <3> QED
      BY <2>1, <3>1
  <2> QED
    BY <1>1, <2>0, <2>2, <2>3, ContextChange
<1>2. ASSUME IInv, [Next]_vars PROVE Services1
  <2>0. TypeOK /\ Phase /\ Services
    BY <1>2 DEF IInv
  <2>1. /\ svcVms \in [Name -> [Handle -> Thread \cup {Null}]]
        /\ \A v \in Thread : NameOf[v] \in Name
    BY <2>0, RegistryAssumption DEF TypeOK
  <2>2. ASSUME NEW t \in Thread, ServiceIn(t) PROVE Services1
    <3>1. /\ svcVms[NameOf[t]][handle[t]] = Null /\ t \in Built
          /\ svcVms' = [svcVms EXCEPT ![NameOf[t]][handle[t]] = t]
      BY <2>2 DEF ServiceIn, CheckInService, At, Built
    <3>2. handle[t] \in Handle
      BY <2>0, <3>1, BuiltHandle
    <3>3. \A n \in Name, h \in Handle :
            svcVms'[n][h] = IF n = NameOf[t] /\ h = handle[t] THEN t ELSE svcVms[n][h]
      BY <2>1, <3>1, <3>2, NestedValue
    <3> QED
      BY <3>1, <3>3
  <2>3. ASSUME NEW t \in Thread, NEW w \in Thread, ServiceOut(t, w) PROVE Services1
    <3>1. /\ dtor[t] = w /\ svcVms[NameOf[w]][handle[w]] = w /\ w \in Built
          /\ svcVms' = IF ServiceAlive(NameOf[w])
                         THEN [svcVms EXCEPT ![NameOf[w]][handle[w]] = Null] ELSE svcVms
      BY <2>0, <2>3 DEF ServiceOut, Services, Hooked
    <3>2. handle[w] \in Handle
      BY <2>0, <3>1, BuiltHandle
    <3>3. ServiceAlive(NameOf[w]) => \A n \in Name, h \in Handle :
            svcVms'[n][h] = IF n = NameOf[w] /\ h = handle[w] THEN Null ELSE svcVms[n][h]
      BY <2>1, <3>1, <3>2, NestedValue
    <3> QED
      BY <3>1, <3>3
  <2> QED
    BY <1>2, <2>0, <2>2, <2>3, ServiceChange
<1>3. IInv /\ [Next]_vars => [Contexts1 /\ Services1]_vars
  BY <1>1, <1>2
<1> QED
  BY <1>3, Invariance, PTL DEF NoForeignErase, Spec
=============================================================================
