------------------------- MODULE VmMessagingProofs -------------------------
(***************************************************************************)
(* Proofs about VmMessaging, for every set of VMs and services and for all *)
(* bounds on what the scripts send.                                        *)
(***************************************************************************)
EXTENDS VmMessaging, TLAPS

-----------------------------------------------------------------------------
(* Queues as sequences *)

\* put() adds its argument and nothing else.
LEMMA AppendContent ==
    ASSUME NEW S, NEW q \in Seq(S), NEW m \in S
    PROVE  /\ Append(q, m) \in Seq(S)
           /\ Append(q, m) # <<>>
           /\ Content(Append(q, m)) = Content(q) \cup {m}
<1> DEFINE r == Append(q, m)
<1>1. /\ r \in Seq(S)
      /\ Len(r) = Len(q) + 1
      /\ \A i \in 1 .. Len(q) : r[i] = q[i]
      /\ r[Len(q) + 1] = m
      /\ Len(q) \in Nat
  OBVIOUS
<1>2. r # <<>>
  BY <1>1
<1>3. ASSUME NEW x PROVE x \in Content(r) <=> x \in Content(q) \cup {m}
  <2>1. ASSUME x \in Content(r) PROVE x \in Content(q) \cup {m}
    BY <2>1, <1>1 DEF Content
  <2>2. ASSUME x \in Content(q) PROVE x \in Content(r)
    BY <2>2, <1>1 DEF Content
  <2>3. m \in Content(r)
    <3>1. Len(q) + 1 \in 1 .. Len(r)
      BY <1>1
    <3> QED
      BY <1>1, <3>1 DEF Content
  <2> QED
    BY <2>1, <2>2, <2>3
<1> QED
  BY <1>1, <1>2, <1>3

\* take() removes the front of the queue and nothing else.
LEMMA TailContent ==
    ASSUME NEW S, NEW q \in Seq(S), q # <<>>
    PROVE  /\ Head(q) \in S
           /\ Tail(q) \in Seq(S)
           /\ Content(q) = {Head(q)} \cup Content(Tail(q))
<1> DEFINE r == Tail(q)
<1>1. /\ r \in Seq(S)
      /\ Len(q) \in Nat \ {0}
      /\ Len(r) = Len(q) - 1
      /\ \A i \in 1 .. Len(r) : r[i] = q[i + 1]
      /\ Head(q) = q[1]
      /\ Head(q) \in S
  OBVIOUS
<1>2. ASSUME NEW x \in Content(q) PROVE x \in {Head(q)} \cup Content(r)
  <2>1. PICK i \in 1 .. Len(q) : x = q[i]
    BY DEF Content
  <2>2. CASE i = 1
    BY <2>1, <2>2, <1>1
  <2>3. CASE i # 1
    <3>1. i - 1 \in 1 .. Len(r) /\ r[i - 1] = q[i]
      BY <2>3, <1>1
    <3> QED
      BY <3>1, <2>1 DEF Content
  <2> QED
    BY <2>2, <2>3
<1>3. Head(q) \in Content(q)
  BY <1>1 DEF Content
<1>4. ASSUME NEW x \in Content(r) PROVE x \in Content(q)
  <2>1. PICK i \in 1 .. Len(r) : x = r[i]
    BY DEF Content
  <2>2. i + 1 \in 1 .. Len(q) /\ q[i + 1] = x
    BY <2>1, <1>1
  <2> QED
    BY <2>2 DEF Content
<1> QED
  BY <1>1, <1>2, <1>3, <1>4

\* Taking the front keeps the senders' order; the message taken is gone.
LEMMA TailAscending ==
    ASSUME NEW q \in Seq(Message), q # <<>>, Ascending(q)
    PROVE  /\ Ascending(Tail(q))
           /\ \A m \in Content(Tail(q)) :
                 /\ m # Head(q)
                 /\ m.src = Head(q).src => Head(q).seq < m.seq
<1> DEFINE r == Tail(q)
<1>1. /\ Len(q) \in Nat \ {0}
      /\ Len(r) = Len(q) - 1
      /\ \A i \in 1 .. Len(r) : i + 1 \in 1 .. Len(q) /\ r[i] = q[i + 1]
      /\ Head(q) = q[1]
      /\ 1 \in 1 .. Len(q)
      /\ \A i \in 1 .. Len(q) : q[i] \in Message /\ q[i].seq \in Nat
  <2>1. \A i \in 1 .. Len(q) : q[i] \in Message
    OBVIOUS
  <2>2. \A m \in Message : m.seq \in Nat
    BY DEF Message
  <2> QED
    BY <2>1, <2>2
<1>2. Ascending(r)
  <2> SUFFICES ASSUME NEW i \in 1 .. Len(r), NEW j \in 1 .. Len(r), i < j, r[i].src = r[j].src
               PROVE  r[i].seq < r[j].seq
    BY DEF Ascending
  <2>1. /\ i + 1 \in 1 .. Len(q) /\ j + 1 \in 1 .. Len(q) /\ i + 1 < j + 1
        /\ r[i] = q[i + 1] /\ r[j] = q[j + 1]
    BY <1>1
  <2> QED
    BY <2>1 DEF Ascending
<1>3. ASSUME NEW m \in Content(r)
      PROVE  m # Head(q) /\ (m.src = Head(q).src => Head(q).seq < m.seq)
  <2>1. PICK i \in 1 .. Len(r) : m = r[i]
    BY DEF Content
  <2>2. i + 1 \in 1 .. Len(q) /\ m = q[i + 1] /\ 1 < i + 1
    BY <2>1, <1>1
  <2>3. m.src = Head(q).src => Head(q).seq < m.seq
    BY <2>2, <1>1 DEF Ascending
  <2>4. m.seq \in Nat /\ Head(q).seq \in Nat
    BY <2>2, <1>1
  <2> QED
    BY <2>3, <2>4
<1> QED
  BY <1>2, <1>3

\* Putting a message younger than what its sender has in the queue keeps the order.
LEMMA AppendAscending ==
    ASSUME NEW q \in Seq(Message), NEW m \in Message, Ascending(q),
           \A n \in Content(q) : n.src = m.src => n.seq < m.seq
    PROVE  Ascending(Append(q, m))
<1> DEFINE r == Append(q, m)
<1>1. /\ Len(q) \in Nat
      /\ Len(r) = Len(q) + 1
      /\ \A i \in 1 .. Len(q) : r[i] = q[i]
      /\ r[Len(q) + 1] = m
  OBVIOUS
<1> SUFFICES ASSUME NEW i \in 1 .. Len(r), NEW j \in 1 .. Len(r), i < j, r[i].src = r[j].src
             PROVE  r[i].seq < r[j].seq
  BY DEF Ascending
<1>2. i \in 1 .. Len(q) /\ r[i] = q[i] /\ r[i] \in Content(q)
  BY <1>1 DEF Content
<1>3. CASE j \in 1 .. Len(q)
  BY <1>1, <1>2, <1>3 DEF Ascending
<1>4. CASE j = Len(q) + 1
  BY <1>1, <1>2, <1>4
<1> QED
  BY <1>1, <1>3, <1>4

-----------------------------------------------------------------------------
(* Operators of the model *)

\* newSession stays in the range of int and is positive.
LEMMA NewSessionPositive ==
    ASSUME NEW x \in SessionInt
    PROVE  NewSession(x) \in 1 .. SessionMax /\ NewSession(x) \in SessionInt
BY BoundAssumption DEF NewSession, Increment, SessionInt

\* A new message is well-formed, numbered by its sender and bound for the
\* destination it was built for.
FreshMessage(m, v) == m \in Message /\ m.src = v /\ m.seq = seq[v] + 1

\* The message that a send or a report builds is such a fresh message.
LEMMA NewMessageType ==
    ASSUME TypeOK, NEW v \in Vm
    PROVE  /\ \A w \in Vm :
                 /\ FreshMessage(NewMessage(v, "vm", w), v)
                 /\ FreshMessage(NewMessage(v, "report", w), v)
                 /\ Promise!AddressedTo(NewMessage(v, "vm", w), w)
                 /\ Promise!AddressedTo(NewMessage(v, "report", w), w)
                 /\ NewMessage(v, "vm", w).kind = "vm"
                 /\ NewMessage(v, "report", w).kind = "report"
           /\ \A s \in Service :
                 /\ FreshMessage(NewMessage(v, "service", s), v)
                 /\ NewMessage(v, "service", s).kind = "service"
                 /\ NewMessage(v, "service", s).dest = s
<1>1. seq[v] + 1 \in Nat /\ sessionId[v] \in SessionInt
  BY DEF TypeOK
<1>2. NewSession(sessionId[v]) \in SessionInt /\ 0 \in SessionInt
  BY <1>1, NewSessionPositive, BoundAssumption DEF SessionInt
<1>3. ASSUME NEW w \in Vm, NEW k \in {"vm", "report"}
      PROVE  /\ FreshMessage(NewMessage(v, k, w), v)
             /\ Promise!AddressedTo(NewMessage(v, k, w), w)
             /\ NewMessage(v, k, w).kind = k
  BY <1>1, <1>2 DEF NewMessage, Message, FreshMessage, Promise!AddressedTo
<1>4. ASSUME NEW s \in Service
      PROVE  /\ FreshMessage(NewMessage(v, "service", s), v)
             /\ NewMessage(v, "service", s).kind = "service"
             /\ NewMessage(v, "service", s).dest = s
  BY <1>1, <1>2 DEF NewMessage, Message, FreshMessage
<1> QED
  BY <1>3, <1>4

-----------------------------------------------------------------------------
(* Every step keeps the types *)

\* TypeOK is preserved; a thread in a call needs CallState to know that the
\* message it queues and the VM it pushes to exist.
LEMMA TypeStep ==
    TypeOK /\ CallState /\ [Next]_vars => TypeOK'
<1> SUFFICES ASSUME TypeOK, CallState, [Next]_vars PROVE TypeOK'
  OBVIOUS
<1>0. \A v \in Vm :
        /\ \A w \in Vm : /\ NewMessage(v, "vm", w) \in Message
                         /\ NewMessage(v, "report", w) \in Message
        /\ \A s \in Service : NewMessage(v, "service", s) \in Message
  BY NewMessageType DEF FreshMessage
<1> USE DEF TypeOK, vars, ctxVars, svcVars, callVars, histVars, Goto
<1>1. CASE UNCHANGED vars
  BY <1>1
<1>2. ASSUME NEW v \in Vm, LoopWake(v) PROVE TypeOK'
  BY <1>2 DEF LoopWake
<1>3. ASSUME NEW v \in Vm, LoopEvent(v) PROVE TypeOK'
  BY <1>3 DEF LoopEvent
<1>4. ASSUME NEW v \in Vm, EventDone(v) PROVE TypeOK'
  BY <1>4 DEF EventDone
<1>5. ASSUME NEW v \in Vm, BeginSend(v)
      PROVE  /\ seq' \in [Vm -> Nat] /\ sessionId' \in [Vm -> SessionInt]
             /\ UNCHANGED <<bIdle, msgQueue, vmLock, async, svcVars, mode, todo, reports, delivered>>
  BY <1>5, NewSessionPositive DEF BeginSend
<1>6. ASSUME NEW v \in Vm, NEW w \in Vm, SendByVmId(v, w) PROVE TypeOK'
  BY <1>5, <1>0, <1>6 DEF SendByVmId
<1>7. ASSUME NEW v \in Vm, NEW s \in Service, SendByServiceName(v, s) PROVE TypeOK'
  BY <1>5, <1>0, <1>7 DEF SendByServiceName
<1>8. ASSUME NEW v \in Vm, SendMiss(v) PROVE TypeOK'
  BY <1>5, <1>8 DEF SendMiss
<1>9. ASSUME NEW v \in Vm, IAmReady(v) PROVE TypeOK'
  BY <1>9 DEF IAmReady
<1>10. ASSUME NEW v \in Vm, NEW w \in Vm, ReportPush(v, w) PROVE TypeOK'
  BY <1>0, <1>10 DEF ReportPush
<1>22. ASSUME NEW v \in Vm, NEW w \in Vm, ReportSkip(v, w) PROVE TypeOK'
  BY <1>22 DEF ReportSkip
<1>11. ASSUME NEW v \in Vm, ReportDone(v) PROVE TypeOK'
  BY <1>11 DEF ReportDone
<1>12. ASSUME NEW v \in Vm, LockService(v) PROVE TypeOK'
  BY <1>12 DEF LockService, VmsOf
<1>13. ASSUME NEW v \in Vm, NEW w \in Vm, ScanIdle(v, w) PROVE TypeOK'
  BY <1>13 DEF ScanIdle
<1>23. ASSUME NEW v \in Vm, NEW w \in Vm, ScanBusy(v, w) PROVE TypeOK'
  BY <1>23 DEF ScanBusy
<1>14. ASSUME NEW v \in Vm, PutService(v) PROVE TypeOK'
  <2>1. cur[v] \in Message
    BY <1>14 DEF PutService, CallState
  <2>2. svcQueue' \in [Service -> Seq(Message)]
    BY <1>14, <2>1, AppendContent DEF PutService
  <2> QED
    BY <1>14, <2>2 DEF PutService
<1>15. ASSUME NEW v \in Vm, PushPut(v) PROVE TypeOK'
  <2>1. cur[v] \in Message
    BY <1>15 DEF PushPut, CallState
  <2>2. msgQueue' \in [Vm -> Seq(Message)]
    BY <1>15, <2>1, AppendContent DEF PushPut
  <2> QED
    BY <1>15, <2>2 DEF PushPut
<1>16. ASSUME NEW v \in Vm, PushWake(v) PROVE TypeOK'
  <2>1. target[v] \in Vm
    BY <1>16 DEF PushWake, CallState
  <2> QED
    BY <1>16, <2>1 DEF PushWake
<1>17. ASSUME NEW v \in Vm, PopLock(v) PROVE TypeOK'
  BY <1>17 DEF PopLock
<1>18. ASSUME NEW v \in Vm, PopOwn(v) PROVE TypeOK'
  <2>1. msgQueue' \in [Vm -> Seq(Message)] /\ delivered' \in [Vm -> Seq(Message)]
    BY <1>18, TailContent, AppendContent DEF PopOwn
  <2> QED
    BY <1>18, <2>1 DEF PopOwn
<1>19. ASSUME NEW v \in Vm, PopService(v) PROVE TypeOK'
  <2>1. svcQueue' \in [Service -> Seq(Message)] /\ delivered' \in [Vm -> Seq(Message)]
    BY <1>19, VmAssumption, TailContent, AppendContent DEF PopService
  <2> QED
    BY <1>19, <2>1 DEF PopService
<1>20. ASSUME NEW v \in Vm, PopMiss(v) PROVE TypeOK'
  BY <1>20 DEF PopMiss
<1>21. ASSUME NEW v \in Vm, PopIdle(v) PROVE TypeOK'
  BY <1>21 DEF PopIdle
<1> QED
  BY <1>1, <1>2, <1>3, <1>4, <1>6, <1>7, <1>8, <1>9, <1>10, <1>11, <1>12, <1>13,
     <1>14, <1>15, <1>16, <1>17, <1>18, <1>19, <1>20, <1>21,
     <1>22, <1>23 DEF Next, Send, Call

\* What a thread inside a call knows stays true: others do not touch its call.
LEMMA CallStep ==
    TypeOK /\ CallState /\ [Next]_vars => CallState'
<1> SUFFICES ASSUME TypeOK, CallState, [Next]_vars PROVE CallState'
  OBVIOUS
<1>0. \A v \in Vm :
        /\ \A w \in Vm : /\ FreshMessage(NewMessage(v, "vm", w), v)
                         /\ FreshMessage(NewMessage(v, "report", w), v)
                         /\ Promise!AddressedTo(NewMessage(v, "vm", w), w)
                         /\ Promise!AddressedTo(NewMessage(v, "report", w), w)
        /\ \A s \in Service : /\ FreshMessage(NewMessage(v, "service", s), v)
                              /\ NewMessage(v, "service", s).kind = "service"
  BY NewMessageType
<1> USE DEF CallState, TypeOK, ctxVars, svcVars, callVars, histVars, Goto
<1>1. CASE UNCHANGED vars
  BY <1>1 DEF vars
<1>2. ASSUME NEW v \in Vm, LoopWake(v) PROVE CallState'
  BY <1>2 DEF LoopWake
<1>3. ASSUME NEW v \in Vm, LoopEvent(v) PROVE CallState'
  BY <1>3 DEF LoopEvent
<1>4. ASSUME NEW v \in Vm, EventDone(v) PROVE CallState'
  BY <1>4 DEF EventDone
<1>5. ASSUME NEW v \in Vm, NEW w \in Vm, SendByVmId(v, w) PROVE CallState'
  BY <1>5, <1>0 DEF SendByVmId, BeginSend, InScript, FreshMessage
<1>6. ASSUME NEW v \in Vm, NEW s \in Service, SendByServiceName(v, s) PROVE CallState'
  BY <1>6, <1>0 DEF SendByServiceName, BeginSend, InScript, FreshMessage
<1>7. ASSUME NEW v \in Vm, SendMiss(v) PROVE CallState'
  BY <1>7 DEF SendMiss, BeginSend, InScript
<1>8. ASSUME NEW v \in Vm, IAmReady(v) PROVE CallState'
  BY <1>8 DEF IAmReady, InScript
<1>9. ASSUME NEW v \in Vm, NEW w \in Vm, ReportSkip(v, w) PROVE CallState'
  BY <1>9 DEF ReportSkip
<1>10. ASSUME NEW v \in Vm, NEW w \in Vm, ReportPush(v, w) PROVE CallState'
  BY <1>10, <1>0 DEF ReportPush, FreshMessage
<1>11. ASSUME NEW v \in Vm, ReportDone(v) PROVE CallState'
  BY <1>11 DEF ReportDone
<1>12. ASSUME NEW v \in Vm, LockService(v) PROVE CallState'
  BY <1>12 DEF LockService
<1>13. ASSUME NEW v \in Vm, NEW w \in Vm, ScanIdle(v, w) PROVE CallState'
  <2>1. w \in VmsOf(cur[v].dest) /\ cur[v].kind = "service"
    BY <1>13 DEF ScanIdle, IsNext
  <2>2. Promise!AddressedTo(cur[v], w)
    BY <2>1 DEF VmsOf, Promise!AddressedTo
  <2> QED
    BY <1>13, <2>2 DEF ScanIdle
<1>14. ASSUME NEW v \in Vm, NEW w \in Vm, ScanBusy(v, w) PROVE CallState'
  BY <1>14 DEF ScanBusy
<1>15. ASSUME NEW v \in Vm, PutService(v) PROVE CallState'
  BY <1>15 DEF PutService
<1>16. ASSUME NEW v \in Vm, PushPut(v) PROVE CallState'
  BY <1>16 DEF PushPut
<1>17. ASSUME NEW v \in Vm, PushWake(v) PROVE CallState'
  BY <1>17 DEF PushWake
<1>18. ASSUME NEW v \in Vm, PopLock(v) PROVE CallState'
  BY <1>18 DEF PopLock
<1>19. ASSUME NEW v \in Vm, PopOwn(v) PROVE CallState'
  BY <1>19 DEF PopOwn
<1>20. ASSUME NEW v \in Vm, PopService(v) PROVE CallState'
  BY <1>20 DEF PopService
<1>21. ASSUME NEW v \in Vm, PopMiss(v) PROVE CallState'
  BY <1>21 DEF PopMiss
<1>22. ASSUME NEW v \in Vm, PopIdle(v) PROVE CallState'
  BY <1>22 DEF PopIdle
<1> QED
  BY <1>1, <1>2, <1>3, <1>4, <1>5, <1>6, <1>7, <1>8, <1>9, <1>10, <1>11, <1>12, <1>13,
     <1>14, <1>15, <1>16, <1>17, <1>18, <1>19, <1>20, <1>21, <1>22
     DEF Next, Send, Call

\* A VM's mutex is held exactly by the thread that is inside it.
LEMMA VmLockStep ==
    TypeOK /\ CallState /\ VmLockState /\ [Next]_vars => VmLockState'
<1> SUFFICES ASSUME TypeOK, CallState, VmLockState, [Next]_vars PROVE VmLockState'
  OBVIOUS
<1> SUFFICES ASSUME NEW x \in Vm, NEW u \in Vm PROVE vmLock'[x] = u <=> InVm(u, x)'
  BY DEF VmLockState
<1>0. /\ vmLock \in [Vm -> Vm \cup {NoVm}]
      /\ pc \in [Vm -> {"script", "report", "svcLock", "scan", "push", "wake", "pop", "popIdle"}]
      /\ target \in [Vm -> Vm \cup {NoVm}]
      /\ \A y \in Vm : pc[y] \in {"push", "wake"} => target[y] \in Vm
      /\ \A y, z \in Vm : vmLock[y] = z <=> InVm(z, y)
      /\ NoVm \notin Vm
  BY VmAssumption DEF TypeOK, CallState, VmLockState
<1> USE DEF InVm, ctxVars, svcVars, callVars, histVars, Goto
<1>1. CASE UNCHANGED vars
  BY <1>0, <1>1 DEF vars
<1>2. ASSUME NEW v \in Vm, LoopWake(v) PROVE vmLock'[x] = u <=> InVm(u, x)'
  BY <1>2, <1>0 DEF LoopWake
<1>3. ASSUME NEW v \in Vm, LoopEvent(v) PROVE vmLock'[x] = u <=> InVm(u, x)'
  BY <1>3, <1>0 DEF LoopEvent
<1>4. ASSUME NEW v \in Vm, EventDone(v) PROVE vmLock'[x] = u <=> InVm(u, x)'
  BY <1>4, <1>0 DEF EventDone
<1>5. ASSUME NEW v \in Vm, NEW w \in Vm, SendByVmId(v, w) PROVE vmLock'[x] = u <=> InVm(u, x)'
  BY <1>5, <1>0 DEF SendByVmId, BeginSend, InScript
<1>6. ASSUME NEW v \in Vm, NEW s \in Service, SendByServiceName(v, s) PROVE vmLock'[x] = u <=> InVm(u, x)'
  BY <1>6, <1>0 DEF SendByServiceName, BeginSend, InScript
<1>7. ASSUME NEW v \in Vm, SendMiss(v) PROVE vmLock'[x] = u <=> InVm(u, x)'
  BY <1>7, <1>0 DEF SendMiss, BeginSend, InScript
<1>8. ASSUME NEW v \in Vm, IAmReady(v) PROVE vmLock'[x] = u <=> InVm(u, x)'
  BY <1>8, <1>0 DEF IAmReady, InScript
<1>9. ASSUME NEW v \in Vm, NEW w \in Vm, ReportSkip(v, w) PROVE vmLock'[x] = u <=> InVm(u, x)'
  BY <1>9, <1>0 DEF ReportSkip
<1>10. ASSUME NEW v \in Vm, NEW w \in Vm, ReportPush(v, w) PROVE vmLock'[x] = u <=> InVm(u, x)'
  BY <1>10, <1>0 DEF ReportPush
<1>11. ASSUME NEW v \in Vm, ReportDone(v) PROVE vmLock'[x] = u <=> InVm(u, x)'
  BY <1>11, <1>0 DEF ReportDone
<1>12. ASSUME NEW v \in Vm, LockService(v) PROVE vmLock'[x] = u <=> InVm(u, x)'
  BY <1>12, <1>0 DEF LockService
<1>13. ASSUME NEW v \in Vm, NEW w \in Vm, ScanIdle(v, w) PROVE vmLock'[x] = u <=> InVm(u, x)'
  BY <1>13, <1>0 DEF ScanIdle
<1>14. ASSUME NEW v \in Vm, NEW w \in Vm, ScanBusy(v, w) PROVE vmLock'[x] = u <=> InVm(u, x)'
  BY <1>14, <1>0 DEF ScanBusy
<1>15. ASSUME NEW v \in Vm, PutService(v) PROVE vmLock'[x] = u <=> InVm(u, x)'
  BY <1>15, <1>0 DEF PutService
<1>16. ASSUME NEW v \in Vm, PushPut(v) PROVE vmLock'[x] = u <=> InVm(u, x)'
  BY <1>16, <1>0 DEF PushPut
<1>17. ASSUME NEW v \in Vm, PushWake(v) PROVE vmLock'[x] = u <=> InVm(u, x)'
  BY <1>17, <1>0 DEF PushWake
<1>18. ASSUME NEW v \in Vm, PopLock(v) PROVE vmLock'[x] = u <=> InVm(u, x)'
  BY <1>18, <1>0 DEF PopLock
<1>19. ASSUME NEW v \in Vm, PopOwn(v) PROVE vmLock'[x] = u <=> InVm(u, x)'
  BY <1>19, <1>0 DEF PopOwn
<1>20. ASSUME NEW v \in Vm, PopService(v) PROVE vmLock'[x] = u <=> InVm(u, x)'
  BY <1>20, <1>0 DEF PopService
<1>21. ASSUME NEW v \in Vm, PopMiss(v) PROVE vmLock'[x] = u <=> InVm(u, x)'
  BY <1>21, <1>0 DEF PopMiss
<1>22. ASSUME NEW v \in Vm, PopIdle(v) PROVE vmLock'[x] = u <=> InVm(u, x)'
  BY <1>22, <1>0 DEF PopIdle
<1> QED
  BY <1>1, <1>2, <1>3, <1>4, <1>5, <1>6, <1>7, <1>8, <1>9, <1>10, <1>11, <1>12, <1>13,
     <1>14, <1>15, <1>16, <1>17, <1>18, <1>19, <1>20, <1>21, <1>22
     DEF Next, Send, Call

\* A service's mutex is held exactly by the thread that is inside it.
LEMMA ServiceLockStep ==
    TypeOK /\ CallState /\ ServiceLockState /\ [Next]_vars => ServiceLockState'
<1> SUFFICES ASSUME TypeOK, CallState, ServiceLockState, [Next]_vars PROVE ServiceLockState'
  OBVIOUS
<1> SUFFICES ASSUME NEW x \in Service, NEW u \in Vm PROVE svcLock'[x] = u <=> InService(u, x)'
  BY DEF ServiceLockState
<1>0. /\ svcLock \in [Service -> Vm \cup {NoVm}]
      /\ pc \in [Vm -> {"script", "report", "svcLock", "scan", "push", "wake", "pop", "popIdle"}]
      /\ cur \in [Vm -> Message \cup {NoMsg}]
      /\ \A y \in Vm : pc[y] \in {"svcLock", "scan"} => cur[y].kind = "service"
      /\ \A y \in Service : \A z \in Vm : svcLock[y] = z <=> InService(z, y)
      /\ NoVm \notin Vm
  BY VmAssumption DEF TypeOK, CallState, ServiceLockState
<1>a. \A y, w \in Vm : /\ NewMessage(y, "vm", w).kind = "vm"
                       /\ NewMessage(y, "report", w).kind = "report"
  BY NewMessageType
<1> USE DEF InService, ctxVars, svcVars, callVars, histVars, Goto
<1>1. CASE UNCHANGED vars
  BY <1>0, <1>1 DEF vars
<1>2. ASSUME NEW v \in Vm, LoopWake(v) PROVE svcLock'[x] = u <=> InService(u, x)'
  BY <1>2, <1>0 DEF LoopWake
<1>3. ASSUME NEW v \in Vm, LoopEvent(v) PROVE svcLock'[x] = u <=> InService(u, x)'
  BY <1>3, <1>0 DEF LoopEvent
<1>4. ASSUME NEW v \in Vm, EventDone(v) PROVE svcLock'[x] = u <=> InService(u, x)'
  BY <1>4, <1>0 DEF EventDone
<1>5. ASSUME NEW v \in Vm, NEW w \in Vm, SendByVmId(v, w) PROVE svcLock'[x] = u <=> InService(u, x)'
  BY <1>5, <1>0, <1>a DEF SendByVmId, BeginSend, InScript
<1>6. ASSUME NEW v \in Vm, NEW s \in Service, SendByServiceName(v, s) PROVE svcLock'[x] = u <=> InService(u, x)'
  BY <1>6, <1>0, <1>a DEF SendByServiceName, BeginSend, InScript
<1>7. ASSUME NEW v \in Vm, SendMiss(v) PROVE svcLock'[x] = u <=> InService(u, x)'
  BY <1>7, <1>0, <1>a DEF SendMiss, BeginSend, InScript
<1>8. ASSUME NEW v \in Vm, IAmReady(v) PROVE svcLock'[x] = u <=> InService(u, x)'
  BY <1>8, <1>0, <1>a DEF IAmReady, InScript
<1>9. ASSUME NEW v \in Vm, NEW w \in Vm, ReportSkip(v, w) PROVE svcLock'[x] = u <=> InService(u, x)'
  BY <1>9, <1>0 DEF ReportSkip
<1>10. ASSUME NEW v \in Vm, NEW w \in Vm, ReportPush(v, w) PROVE svcLock'[x] = u <=> InService(u, x)'
  BY <1>10, <1>0, <1>a DEF ReportPush
<1>11. ASSUME NEW v \in Vm, ReportDone(v) PROVE svcLock'[x] = u <=> InService(u, x)'
  BY <1>11, <1>0 DEF ReportDone
<1>12. ASSUME NEW v \in Vm, LockService(v) PROVE svcLock'[x] = u <=> InService(u, x)'
  BY <1>12, <1>0 DEF LockService
<1>13. ASSUME NEW v \in Vm, NEW w \in Vm, ScanIdle(v, w) PROVE svcLock'[x] = u <=> InService(u, x)'
  BY <1>13, <1>0 DEF ScanIdle
<1>14. ASSUME NEW v \in Vm, NEW w \in Vm, ScanBusy(v, w) PROVE svcLock'[x] = u <=> InService(u, x)'
  BY <1>14, <1>0 DEF ScanBusy
<1>15. ASSUME NEW v \in Vm, PutService(v) PROVE svcLock'[x] = u <=> InService(u, x)'
  BY <1>15, <1>0 DEF PutService
<1>16. ASSUME NEW v \in Vm, PushPut(v) PROVE svcLock'[x] = u <=> InService(u, x)'
  BY <1>16, <1>0 DEF PushPut
<1>17. ASSUME NEW v \in Vm, PushWake(v) PROVE svcLock'[x] = u <=> InService(u, x)'
  BY <1>17, <1>0 DEF PushWake
<1>18. ASSUME NEW v \in Vm, PopLock(v) PROVE svcLock'[x] = u <=> InService(u, x)'
  BY <1>18, <1>0 DEF PopLock
<1>19. ASSUME NEW v \in Vm, PopOwn(v) PROVE svcLock'[x] = u <=> InService(u, x)'
  BY <1>19, <1>0 DEF PopOwn
<1>20. ASSUME NEW v \in Vm, PopService(v) PROVE svcLock'[x] = u <=> InService(u, x)'
  BY <1>20, <1>0 DEF PopService
<1>21. ASSUME NEW v \in Vm, PopMiss(v) PROVE svcLock'[x] = u <=> InService(u, x)'
  BY <1>21, <1>0 DEF PopMiss
<1>22. ASSUME NEW v \in Vm, PopIdle(v) PROVE svcLock'[x] = u <=> InService(u, x)'
  BY <1>22, <1>0 DEF PopIdle
<1> QED
  BY <1>1, <1>2, <1>3, <1>4, <1>5, <1>6, <1>7, <1>8, <1>9, <1>10, <1>11, <1>12, <1>13,
     <1>14, <1>15, <1>16, <1>17, <1>18, <1>19, <1>20, <1>21, <1>22
     DEF Next, Send, Call

\* Nobody can push to a VM that holds its mutex to declare itself idle.
LEMMA IdleDecisionStep ==
    TypeOK /\ CallState /\ VmLockState /\ IdleDecision /\ [Next]_vars => IdleDecision'
<1> SUFFICES ASSUME TypeOK, CallState, VmLockState, IdleDecision, [Next]_vars PROVE IdleDecision'
  OBVIOUS
<1> SUFFICES ASSUME NEW x \in Vm, pc'[x] = "popIdle" PROVE msgQueue'[x] = <<>>
  BY DEF IdleDecision
<1>0. /\ bIdle \subseteq Vm
      /\ msgQueue \in [Vm -> Seq(Message)]
      /\ async \subseteq Vm
      /\ vmLock \in [Vm -> Vm \cup {NoVm}]
      /\ mode \in [Vm -> {"loop", "drain", "event"}]
      /\ pc \in [Vm -> {"script", "report", "svcLock", "scan", "push", "wake", "pop", "popIdle"}]
      /\ target \in [Vm -> Vm \cup {NoVm}]
      /\ \A y \in Vm : pc[y] # "script" => mode[y] # "loop"
      /\ \A y \in Vm : pc[y] \in {"pop", "popIdle"} => mode[y] = "drain"
      /\ \A y \in Vm : pc[y] \in {"push", "wake"} => target[y] \in Vm
      /\ \A y \in Vm : pc[y] \in {"pop", "popIdle"} => vmLock[y] = y
      /\ NoVm \notin Vm
  BY VmAssumption DEF TypeOK, CallState, VmLockState, InVm
<1>a. \A y \in Vm : pc[y] = "popIdle" => msgQueue[y] = <<>>
  BY DEF IdleDecision
<1> USE DEF ctxVars, svcVars, callVars, histVars, Goto
<1>1. CASE UNCHANGED vars
  BY <1>0, <1>a, <1>1 DEF vars
<1>2. ASSUME NEW v \in Vm, LoopWake(v) PROVE msgQueue'[x] = <<>>
  BY <1>2, <1>0, <1>a DEF LoopWake
<1>3. ASSUME NEW v \in Vm, LoopEvent(v) PROVE msgQueue'[x] = <<>>
  BY <1>3, <1>0, <1>a DEF LoopEvent
<1>4. ASSUME NEW v \in Vm, EventDone(v) PROVE msgQueue'[x] = <<>>
  BY <1>4, <1>0, <1>a DEF EventDone
<1>5. ASSUME NEW v \in Vm, NEW w \in Vm, SendByVmId(v, w) PROVE msgQueue'[x] = <<>>
  BY <1>5, <1>0, <1>a DEF SendByVmId, BeginSend, InScript
<1>6. ASSUME NEW v \in Vm, NEW s \in Service, SendByServiceName(v, s) PROVE msgQueue'[x] = <<>>
  BY <1>6, <1>0, <1>a DEF SendByServiceName, BeginSend, InScript
<1>7. ASSUME NEW v \in Vm, SendMiss(v) PROVE msgQueue'[x] = <<>>
  BY <1>7, <1>0, <1>a DEF SendMiss, BeginSend, InScript
<1>8. ASSUME NEW v \in Vm, IAmReady(v) PROVE msgQueue'[x] = <<>>
  BY <1>8, <1>0, <1>a DEF IAmReady, InScript
<1>9. ASSUME NEW v \in Vm, NEW w \in Vm, ReportSkip(v, w) PROVE msgQueue'[x] = <<>>
  BY <1>9, <1>0, <1>a DEF ReportSkip
<1>10. ASSUME NEW v \in Vm, NEW w \in Vm, ReportPush(v, w) PROVE msgQueue'[x] = <<>>
  BY <1>10, <1>0, <1>a DEF ReportPush
<1>11. ASSUME NEW v \in Vm, ReportDone(v) PROVE msgQueue'[x] = <<>>
  BY <1>11, <1>0, <1>a DEF ReportDone
<1>12. ASSUME NEW v \in Vm, LockService(v) PROVE msgQueue'[x] = <<>>
  BY <1>12, <1>0, <1>a DEF LockService
<1>13. ASSUME NEW v \in Vm, NEW w \in Vm, ScanIdle(v, w) PROVE msgQueue'[x] = <<>>
  BY <1>13, <1>0, <1>a DEF ScanIdle
<1>14. ASSUME NEW v \in Vm, NEW w \in Vm, ScanBusy(v, w) PROVE msgQueue'[x] = <<>>
  BY <1>14, <1>0, <1>a DEF ScanBusy
<1>15. ASSUME NEW v \in Vm, PutService(v) PROVE msgQueue'[x] = <<>>
  BY <1>15, <1>0, <1>a DEF PutService
<1>16. ASSUME NEW v \in Vm, PushPut(v) PROVE msgQueue'[x] = <<>>
  BY <1>16, <1>0, <1>a DEF PushPut
<1>17. ASSUME NEW v \in Vm, PushWake(v) PROVE msgQueue'[x] = <<>>
  BY <1>17, <1>0, <1>a DEF PushWake
<1>18. ASSUME NEW v \in Vm, PopLock(v) PROVE msgQueue'[x] = <<>>
  BY <1>18, <1>0, <1>a DEF PopLock
<1>19. ASSUME NEW v \in Vm, PopOwn(v) PROVE msgQueue'[x] = <<>>
  BY <1>19, <1>0, <1>a DEF PopOwn
<1>20. ASSUME NEW v \in Vm, PopService(v) PROVE msgQueue'[x] = <<>>
  BY <1>20, <1>0, <1>a DEF PopService
<1>21. ASSUME NEW v \in Vm, PopMiss(v) PROVE msgQueue'[x] = <<>>
  BY <1>21, <1>0, <1>a DEF PopMiss
<1>22. ASSUME NEW v \in Vm, PopIdle(v) PROVE msgQueue'[x] = <<>>
  BY <1>22, <1>0, <1>a DEF PopIdle
<1> QED
  BY <1>1, <1>2, <1>3, <1>4, <1>5, <1>6, <1>7, <1>8, <1>9, <1>10, <1>11, <1>12, <1>13,
     <1>14, <1>15, <1>16, <1>17, <1>18, <1>19, <1>20, <1>21, <1>22
     DEF Next, Send, Call

\* pushMsg clears bIdle with the queue, popMsg sets it only on an empty queue.
LEMMA IdleStep ==
    TypeOK /\ CallState /\ VmLockState /\ IdleMeansNoWork /\ IdleDecision /\ [Next]_vars => IdleMeansNoWork'
<1> SUFFICES ASSUME TypeOK, CallState, VmLockState, IdleMeansNoWork, IdleDecision, [Next]_vars PROVE IdleMeansNoWork'
  OBVIOUS
<1> SUFFICES ASSUME NEW x \in Vm, x \in bIdle' PROVE msgQueue'[x] = <<>>
  BY DEF IdleMeansNoWork
<1>0. /\ bIdle \subseteq Vm
      /\ msgQueue \in [Vm -> Seq(Message)]
      /\ async \subseteq Vm
      /\ vmLock \in [Vm -> Vm \cup {NoVm}]
      /\ mode \in [Vm -> {"loop", "drain", "event"}]
      /\ pc \in [Vm -> {"script", "report", "svcLock", "scan", "push", "wake", "pop", "popIdle"}]
      /\ target \in [Vm -> Vm \cup {NoVm}]
      /\ \A y \in Vm : pc[y] # "script" => mode[y] # "loop"
      /\ \A y \in Vm : pc[y] \in {"pop", "popIdle"} => mode[y] = "drain"
      /\ \A y \in Vm : pc[y] \in {"push", "wake"} => target[y] \in Vm
      /\ \A y \in Vm : pc[y] \in {"pop", "popIdle"} => vmLock[y] = y
      /\ NoVm \notin Vm
  BY VmAssumption DEF TypeOK, CallState, VmLockState, InVm
<1>a. \A y \in Vm : /\ pc[y] = "popIdle" => msgQueue[y] = <<>>
                    /\ y \in bIdle => msgQueue[y] = <<>>
  BY DEF IdleDecision, IdleMeansNoWork
<1> USE DEF ctxVars, svcVars, callVars, histVars, Goto
<1>1. CASE UNCHANGED vars
  BY <1>0, <1>a, <1>1 DEF vars
<1>2. ASSUME NEW v \in Vm, LoopWake(v) PROVE msgQueue'[x] = <<>>
  BY <1>2, <1>0, <1>a DEF LoopWake
<1>3. ASSUME NEW v \in Vm, LoopEvent(v) PROVE msgQueue'[x] = <<>>
  BY <1>3, <1>0, <1>a DEF LoopEvent
<1>4. ASSUME NEW v \in Vm, EventDone(v) PROVE msgQueue'[x] = <<>>
  BY <1>4, <1>0, <1>a DEF EventDone
<1>5. ASSUME NEW v \in Vm, NEW w \in Vm, SendByVmId(v, w) PROVE msgQueue'[x] = <<>>
  BY <1>5, <1>0, <1>a DEF SendByVmId, BeginSend, InScript
<1>6. ASSUME NEW v \in Vm, NEW s \in Service, SendByServiceName(v, s) PROVE msgQueue'[x] = <<>>
  BY <1>6, <1>0, <1>a DEF SendByServiceName, BeginSend, InScript
<1>7. ASSUME NEW v \in Vm, SendMiss(v) PROVE msgQueue'[x] = <<>>
  BY <1>7, <1>0, <1>a DEF SendMiss, BeginSend, InScript
<1>8. ASSUME NEW v \in Vm, IAmReady(v) PROVE msgQueue'[x] = <<>>
  BY <1>8, <1>0, <1>a DEF IAmReady, InScript
<1>9. ASSUME NEW v \in Vm, NEW w \in Vm, ReportSkip(v, w) PROVE msgQueue'[x] = <<>>
  BY <1>9, <1>0, <1>a DEF ReportSkip
<1>10. ASSUME NEW v \in Vm, NEW w \in Vm, ReportPush(v, w) PROVE msgQueue'[x] = <<>>
  BY <1>10, <1>0, <1>a DEF ReportPush
<1>11. ASSUME NEW v \in Vm, ReportDone(v) PROVE msgQueue'[x] = <<>>
  BY <1>11, <1>0, <1>a DEF ReportDone
<1>12. ASSUME NEW v \in Vm, LockService(v) PROVE msgQueue'[x] = <<>>
  BY <1>12, <1>0, <1>a DEF LockService
<1>13. ASSUME NEW v \in Vm, NEW w \in Vm, ScanIdle(v, w) PROVE msgQueue'[x] = <<>>
  BY <1>13, <1>0, <1>a DEF ScanIdle
<1>14. ASSUME NEW v \in Vm, NEW w \in Vm, ScanBusy(v, w) PROVE msgQueue'[x] = <<>>
  BY <1>14, <1>0, <1>a DEF ScanBusy
<1>15. ASSUME NEW v \in Vm, PutService(v) PROVE msgQueue'[x] = <<>>
  BY <1>15, <1>0, <1>a DEF PutService
<1>16. ASSUME NEW v \in Vm, PushPut(v) PROVE msgQueue'[x] = <<>>
  BY <1>16, <1>0, <1>a DEF PushPut
<1>17. ASSUME NEW v \in Vm, PushWake(v) PROVE msgQueue'[x] = <<>>
  BY <1>17, <1>0, <1>a DEF PushWake
<1>18. ASSUME NEW v \in Vm, PopLock(v) PROVE msgQueue'[x] = <<>>
  BY <1>18, <1>0, <1>a DEF PopLock
<1>19. ASSUME NEW v \in Vm, PopOwn(v) PROVE msgQueue'[x] = <<>>
  BY <1>19, <1>0, <1>a DEF PopOwn
<1>20. ASSUME NEW v \in Vm, PopService(v) PROVE msgQueue'[x] = <<>>
  BY <1>20, <1>0, <1>a DEF PopService
<1>21. ASSUME NEW v \in Vm, PopMiss(v) PROVE msgQueue'[x] = <<>>
  BY <1>21, <1>0, <1>a DEF PopMiss
<1>22. ASSUME NEW v \in Vm, PopIdle(v) PROVE msgQueue'[x] = <<>>
  BY <1>22, <1>0, <1>a DEF PopIdle
<1> QED
  BY <1>1, <1>2, <1>3, <1>4, <1>5, <1>6, <1>7, <1>8, <1>9, <1>10, <1>11, <1>12, <1>13,
     <1>14, <1>15, <1>16, <1>17, <1>18, <1>19, <1>20, <1>21, <1>22
     DEF Next, Send, Call

\* Every way a wake-up can be used up leaves the queue empty or being drained.
LEMMA WakeupStep ==
    TypeOK /\ CallState /\ VmLockState /\ NoLostWakeup /\ IdleDecision /\ [Next]_vars => NoLostWakeup'
<1> SUFFICES ASSUME TypeOK, CallState, VmLockState, NoLostWakeup, IdleDecision, [Next]_vars PROVE NoLostWakeup'
  OBVIOUS
<1> SUFFICES ASSUME NEW x \in Vm, msgQueue'[x] # <<>> PROVE WillBeNoticed(x)'
  BY DEF NoLostWakeup
<1>0. /\ bIdle \subseteq Vm
      /\ msgQueue \in [Vm -> Seq(Message)]
      /\ async \subseteq Vm
      /\ vmLock \in [Vm -> Vm \cup {NoVm}]
      /\ mode \in [Vm -> {"loop", "drain", "event"}]
      /\ pc \in [Vm -> {"script", "report", "svcLock", "scan", "push", "wake", "pop", "popIdle"}]
      /\ target \in [Vm -> Vm \cup {NoVm}]
      /\ \A y \in Vm : pc[y] # "script" => mode[y] # "loop"
      /\ \A y \in Vm : pc[y] \in {"pop", "popIdle"} => mode[y] = "drain"
      /\ \A y \in Vm : pc[y] \in {"push", "wake"} => target[y] \in Vm
      /\ \A y \in Vm : pc[y] \in {"pop", "popIdle"} => vmLock[y] = y
      /\ NoVm \notin Vm
  BY VmAssumption DEF TypeOK, CallState, VmLockState, InVm
<1>a. \A y \in Vm : /\ pc[y] = "popIdle" => msgQueue[y] = <<>>
                    /\ msgQueue[y] # <<>> => WillBeNoticed(y)
  BY DEF IdleDecision, NoLostWakeup
<1> USE DEF WillBeNoticed, ctxVars, svcVars, callVars, histVars, Goto
<1>1. CASE UNCHANGED vars
  BY <1>0, <1>a, <1>1 DEF vars
<1>2. ASSUME NEW v \in Vm, LoopWake(v) PROVE WillBeNoticed(x)'
  BY <1>2, <1>0, <1>a DEF LoopWake
<1>3. ASSUME NEW v \in Vm, LoopEvent(v) PROVE WillBeNoticed(x)'
  BY <1>3, <1>0, <1>a DEF LoopEvent
<1>4. ASSUME NEW v \in Vm, EventDone(v) PROVE WillBeNoticed(x)'
  BY <1>4, <1>0, <1>a DEF EventDone
<1>5. ASSUME NEW v \in Vm, NEW w \in Vm, SendByVmId(v, w) PROVE WillBeNoticed(x)'
  BY <1>5, <1>0, <1>a DEF SendByVmId, BeginSend, InScript
<1>6. ASSUME NEW v \in Vm, NEW s \in Service, SendByServiceName(v, s) PROVE WillBeNoticed(x)'
  BY <1>6, <1>0, <1>a DEF SendByServiceName, BeginSend, InScript
<1>7. ASSUME NEW v \in Vm, SendMiss(v) PROVE WillBeNoticed(x)'
  BY <1>7, <1>0, <1>a DEF SendMiss, BeginSend, InScript
<1>8. ASSUME NEW v \in Vm, IAmReady(v) PROVE WillBeNoticed(x)'
  BY <1>8, <1>0, <1>a DEF IAmReady, InScript
<1>9. ASSUME NEW v \in Vm, NEW w \in Vm, ReportSkip(v, w) PROVE WillBeNoticed(x)'
  BY <1>9, <1>0, <1>a DEF ReportSkip
<1>10. ASSUME NEW v \in Vm, NEW w \in Vm, ReportPush(v, w) PROVE WillBeNoticed(x)'
  BY <1>10, <1>0, <1>a DEF ReportPush
<1>11. ASSUME NEW v \in Vm, ReportDone(v) PROVE WillBeNoticed(x)'
  BY <1>11, <1>0, <1>a DEF ReportDone
<1>12. ASSUME NEW v \in Vm, LockService(v) PROVE WillBeNoticed(x)'
  BY <1>12, <1>0, <1>a DEF LockService
<1>13. ASSUME NEW v \in Vm, NEW w \in Vm, ScanIdle(v, w) PROVE WillBeNoticed(x)'
  BY <1>13, <1>0, <1>a DEF ScanIdle
<1>14. ASSUME NEW v \in Vm, NEW w \in Vm, ScanBusy(v, w) PROVE WillBeNoticed(x)'
  BY <1>14, <1>0, <1>a DEF ScanBusy
<1>15. ASSUME NEW v \in Vm, PutService(v) PROVE WillBeNoticed(x)'
  BY <1>15, <1>0, <1>a DEF PutService
<1>16. ASSUME NEW v \in Vm, PushPut(v) PROVE WillBeNoticed(x)'
  BY <1>16, <1>0, <1>a DEF PushPut
<1>17. ASSUME NEW v \in Vm, PushWake(v) PROVE WillBeNoticed(x)'
  BY <1>17, <1>0, <1>a DEF PushWake
<1>18. ASSUME NEW v \in Vm, PopLock(v) PROVE WillBeNoticed(x)'
  BY <1>18, <1>0, <1>a DEF PopLock
<1>19. ASSUME NEW v \in Vm, PopOwn(v) PROVE WillBeNoticed(x)'
  BY <1>19, <1>0, <1>a DEF PopOwn
<1>20. ASSUME NEW v \in Vm, PopService(v) PROVE WillBeNoticed(x)'
  BY <1>20, <1>0, <1>a DEF PopService
<1>21. ASSUME NEW v \in Vm, PopMiss(v) PROVE WillBeNoticed(x)'
  BY <1>21, <1>0, <1>a DEF PopMiss
<1>22. ASSUME NEW v \in Vm, PopIdle(v) PROVE WillBeNoticed(x)'
  BY <1>22, <1>0, <1>a DEF PopIdle
<1> QED
  BY <1>1, <1>2, <1>3, <1>4, <1>5, <1>6, <1>7, <1>8, <1>9, <1>10, <1>11, <1>12, <1>13,
     <1>14, <1>15, <1>16, <1>17, <1>18, <1>19, <1>20, <1>21, <1>22
     DEF Next, Send, Call


-----------------------------------------------------------------------------
(* Queues and messages *)

\* The only steps that change a queue.
LEMMA QueueSteps ==
    [Next]_vars =>
        \/ UNCHANGED <<msgQueue, svcQueue, delivered>>
        \/ \E v \in Vm : PutService(v) \/ PushPut(v) \/ PopOwn(v) \/ PopService(v)
BY DEF Next, Send, Call, vars, ctxVars, svcVars, callVars, histVars, LoopWake, LoopEvent, EventDone,
       SendByVmId, SendByServiceName, SendMiss, BeginSend, IAmReady, ReportSkip, ReportPush,
       ReportDone, LockService, ScanIdle, ScanBusy, PushWake, PopLock, PopMiss, PopIdle

\* A message that is numbered stays so: a sender takes a new number with a new message.
LEMMA NumberedStep ==
    ASSUME TypeOK, [Next]_vars, NEW m \in Message, Numbered(m)
    PROVE  Numbered(m)'
<1>0. /\ seq \in [Vm -> Nat]
      /\ pc \in [Vm -> {"script", "report", "svcLock", "scan", "push", "wake", "pop", "popIdle"}]
      /\ m.src \in Vm /\ m.seq \in Nat /\ Numbered(m)
  BY DEF TypeOK, Message
<1> USE DEF Numbered, InHand, ctxVars, svcVars, callVars, histVars, Goto
<1>1. CASE UNCHANGED vars
  BY <1>0, <1>1 DEF vars
<1>2. ASSUME NEW v \in Vm, LoopWake(v) PROVE Numbered(m)'
  BY <1>2, <1>0 DEF LoopWake
<1>3. ASSUME NEW v \in Vm, LoopEvent(v) PROVE Numbered(m)'
  BY <1>3, <1>0 DEF LoopEvent
<1>4. ASSUME NEW v \in Vm, EventDone(v) PROVE Numbered(m)'
  BY <1>4, <1>0 DEF EventDone
<1>5. ASSUME NEW v \in Vm, NEW w \in Vm, SendByVmId(v, w) PROVE Numbered(m)'
  BY <1>5, <1>0 DEF SendByVmId, BeginSend, InScript
<1>6. ASSUME NEW v \in Vm, NEW s \in Service, SendByServiceName(v, s) PROVE Numbered(m)'
  BY <1>6, <1>0 DEF SendByServiceName, BeginSend, InScript
<1>7. ASSUME NEW v \in Vm, SendMiss(v) PROVE Numbered(m)'
  BY <1>7, <1>0 DEF SendMiss, BeginSend, InScript
<1>8. ASSUME NEW v \in Vm, IAmReady(v) PROVE Numbered(m)'
  BY <1>8, <1>0 DEF IAmReady, InScript
<1>9. ASSUME NEW v \in Vm, NEW w \in Vm, ReportSkip(v, w) PROVE Numbered(m)'
  BY <1>9, <1>0 DEF ReportSkip
<1>10. ASSUME NEW v \in Vm, NEW w \in Vm, ReportPush(v, w) PROVE Numbered(m)'
  BY <1>10, <1>0 DEF ReportPush
<1>11. ASSUME NEW v \in Vm, ReportDone(v) PROVE Numbered(m)'
  BY <1>11, <1>0 DEF ReportDone
<1>12. ASSUME NEW v \in Vm, LockService(v) PROVE Numbered(m)'
  BY <1>12, <1>0 DEF LockService
<1>13. ASSUME NEW v \in Vm, NEW w \in Vm, ScanIdle(v, w) PROVE Numbered(m)'
  BY <1>13, <1>0 DEF ScanIdle
<1>14. ASSUME NEW v \in Vm, NEW w \in Vm, ScanBusy(v, w) PROVE Numbered(m)'
  BY <1>14, <1>0 DEF ScanBusy
<1>15. ASSUME NEW v \in Vm, PutService(v) PROVE Numbered(m)'
  BY <1>15, <1>0 DEF PutService
<1>16. ASSUME NEW v \in Vm, PushPut(v) PROVE Numbered(m)'
  BY <1>16, <1>0 DEF PushPut
<1>17. ASSUME NEW v \in Vm, PushWake(v) PROVE Numbered(m)'
  BY <1>17, <1>0 DEF PushWake
<1>18. ASSUME NEW v \in Vm, PopLock(v) PROVE Numbered(m)'
  BY <1>18, <1>0 DEF PopLock
<1>19. ASSUME NEW v \in Vm, PopOwn(v) PROVE Numbered(m)'
  BY <1>19, <1>0 DEF PopOwn
<1>20. ASSUME NEW v \in Vm, PopService(v) PROVE Numbered(m)'
  BY <1>20, <1>0 DEF PopService
<1>21. ASSUME NEW v \in Vm, PopMiss(v) PROVE Numbered(m)'
  BY <1>21, <1>0 DEF PopMiss
<1>22. ASSUME NEW v \in Vm, PopIdle(v) PROVE Numbered(m)'
  BY <1>22, <1>0 DEF PopIdle
<1> QED
  BY <1>1, <1>2, <1>3, <1>4, <1>5, <1>6, <1>7, <1>8, <1>9, <1>10, <1>11, <1>12, <1>13,
     <1>14, <1>15, <1>16, <1>17, <1>18, <1>19, <1>20, <1>21, <1>22
     DEF Next, Send, Call

\* The message in a thread's hand is new: it is on no queue and was never delivered.
LEMMA InHandIsNew ==
    ASSUME TypeOK, CallState, NumberState, NEW v \in Vm, InHand(v)
    PROVE  /\ cur[v] \in Message /\ cur[v].src = v /\ cur[v].seq = seq[v]
           /\ \A w \in Vm : /\ cur[v] \notin Content(msgQueue[w])
                            /\ cur[v] \notin Content(delivered[w])
           /\ \A s \in Service : cur[v] \notin Content(svcQueue[s])
<1>1. cur[v] \in Message /\ cur[v].src = v /\ cur[v].seq = seq[v] /\ seq[v] \in Nat
  BY DEF CallState, InHand, TypeOK
<1>2. ~Numbered(cur[v])
  BY <1>1 DEF Numbered
<1> QED
  BY <1>1, <1>2 DEF NumberState

\* pushMsg2FreeVm's parking moves the message of the hand to the service's queue.
LEMMA PutServiceEffect ==
    ASSUME TypeOK, CallState, NEW v \in Vm, PutService(v)
    PROVE  /\ cur[v].kind = "service" /\ cur[v].dest \in Service /\ InHand(v)
           /\ svcQueue'[cur[v].dest] = Append(svcQueue[cur[v].dest], cur[v])
           /\ Content(svcQueue'[cur[v].dest]) = Content(svcQueue[cur[v].dest]) \cup {cur[v]}
           /\ \A r \in Service : r # cur[v].dest => svcQueue'[r] = svcQueue[r]
           /\ UNCHANGED <<msgQueue, delivered, seq>>
<1>1. cur[v] \in Message /\ cur[v].kind = "service" /\ InHand(v)
  BY DEF PutService, CallState, InHand
<1>2. cur[v].dest \in Service
  BY <1>1 DEF Message
<1>3. svcQueue[cur[v].dest] \in Seq(Message)
  BY <1>2 DEF TypeOK
<1>4. /\ svcQueue'[cur[v].dest] = Append(svcQueue[cur[v].dest], cur[v])
      /\ \A r \in Service : r # cur[v].dest => svcQueue'[r] = svcQueue[r]
      /\ UNCHANGED <<msgQueue, delivered, seq>>
  BY <1>2 DEF PutService, TypeOK, ctxVars, histVars
<1> QED
  BY <1>1, <1>2, <1>3, <1>4, AppendContent

\* pushMsg moves the message of the hand to the queue of the target.
LEMMA PushPutEffect ==
    ASSUME TypeOK, CallState, NEW v \in Vm, PushPut(v)
    PROVE  /\ target[v] \in Vm /\ Promise!AddressedTo(cur[v], target[v]) /\ InHand(v)
           /\ msgQueue'[target[v]] = Append(msgQueue[target[v]], cur[v])
           /\ Content(msgQueue'[target[v]]) = Content(msgQueue[target[v]]) \cup {cur[v]}
           /\ \A w \in Vm : w # target[v] => msgQueue'[w] = msgQueue[w]
           /\ UNCHANGED <<svcQueue, delivered, seq>>
<1>1. cur[v] \in Message /\ target[v] \in Vm /\ Promise!AddressedTo(cur[v], target[v]) /\ InHand(v)
  BY DEF PushPut, CallState, InHand
<1>2. msgQueue[target[v]] \in Seq(Message)
  BY <1>1 DEF TypeOK
<1>3. /\ msgQueue'[target[v]] = Append(msgQueue[target[v]], cur[v])
      /\ \A w \in Vm : w # target[v] => msgQueue'[w] = msgQueue[w]
      /\ UNCHANGED <<svcQueue, delivered, seq>>
  BY <1>1 DEF PushPut, TypeOK, svcVars, histVars
<1> QED
  BY <1>1, <1>2, <1>3, AppendContent

\* popMsg moves the front of the VM's own queue to its script.
LEMMA PopOwnEffect ==
    ASSUME TypeOK, NEW v \in Vm, PopOwn(v)
    PROVE  LET m == Head(msgQueue[v]) IN
           /\ msgQueue[v] # <<>> /\ m \in Message
           /\ msgQueue'[v] = Tail(msgQueue[v])
           /\ Content(msgQueue[v]) = {m} \cup Content(msgQueue'[v])
           /\ Content(delivered'[v]) = Content(delivered[v]) \cup {m}
           /\ delivered' = [delivered EXCEPT ![v] = Append(@, m)]
           /\ \A w \in Vm : w # v => msgQueue'[w] = msgQueue[w] /\ delivered'[w] = delivered[w]
           /\ UNCHANGED <<svcQueue, seq>>
<1> DEFINE m == Head(msgQueue[v])
<1>1. /\ msgQueue[v] # <<>> /\ msgQueue[v] \in Seq(Message) /\ delivered[v] \in Seq(Message)
      /\ msgQueue'[v] = Tail(msgQueue[v])
      /\ delivered'[v] = Append(delivered[v], m)
      /\ delivered' = [delivered EXCEPT ![v] = Append(@, m)]
      /\ \A w \in Vm : w # v => msgQueue'[w] = msgQueue[w] /\ delivered'[w] = delivered[w]
      /\ UNCHANGED <<svcQueue, seq>>
  BY DEF PopOwn, TypeOK, svcVars
<1>2. m \in Message /\ Content(msgQueue[v]) = {m} \cup Content(Tail(msgQueue[v]))
  BY <1>1, TailContent
<1> QED
  BY <1>1, <1>2, AppendContent

\* popMsg moves the front of the service's queue to the script of one VM.
LEMMA PopServiceEffect ==
    ASSUME TypeOK, NEW v \in Vm, PopService(v)
    PROVE  LET s == ServiceOf[v]
               m == Head(svcQueue[s])
           IN
           /\ s \in Service /\ svcQueue[s] # <<>> /\ m \in Message
           /\ svcQueue'[s] = Tail(svcQueue[s])
           /\ Content(svcQueue[s]) = {m} \cup Content(svcQueue'[s])
           /\ Content(delivered'[v]) = Content(delivered[v]) \cup {m}
           /\ delivered' = [delivered EXCEPT ![v] = Append(@, m)]
           /\ \A r \in Service : r # s => svcQueue'[r] = svcQueue[r]
           /\ \A w \in Vm : w # v => delivered'[w] = delivered[w]
           /\ UNCHANGED <<msgQueue, seq>>
<1> DEFINE s == ServiceOf[v]
           m == Head(svcQueue[s])
<1>0. s \in Service
  BY VmAssumption
<1>1. /\ svcQueue[s] # <<>> /\ svcQueue[s] \in Seq(Message) /\ delivered[v] \in Seq(Message)
      /\ svcQueue'[s] = Tail(svcQueue[s])
      /\ delivered'[v] = Append(delivered[v], m)
      /\ delivered' = [delivered EXCEPT ![v] = Append(@, m)]
      /\ \A r \in Service : r # s => svcQueue'[r] = svcQueue[r]
      /\ \A w \in Vm : w # v => delivered'[w] = delivered[w]
      /\ UNCHANGED <<msgQueue, seq>>
  BY <1>0 DEF PopService, TypeOK
<1>2. m \in Message /\ Content(svcQueue[s]) = {m} \cup Content(Tail(svcQueue[s]))
  BY <1>1, TailContent
<1> QED
  BY <1>0, <1>1, <1>2, AppendContent

\* Messages stay where they are addressed to and in their senders' order.
LEMMA QueueStep ==
    TypeOK /\ CallState /\ QueueState /\ NumberState /\ [Next]_vars => QueueState'
<1> SUFFICES ASSUME TypeOK, CallState, QueueState, NumberState, [Next]_vars PROVE QueueState'
  OBVIOUS
<1>0. /\ \A v \in Vm : msgQueue[v] \in Seq(Message)
      /\ \A s \in Service : svcQueue[s] \in Seq(Message)
      /\ \A v \in Vm : seq[v] \in Nat
  BY DEF TypeOK
<1>1. CASE UNCHANGED <<msgQueue, svcQueue, delivered>>
  BY <1>1 DEF QueueState
<1>2. ASSUME NEW v \in Vm, PutService(v) PROVE QueueState'
  <2> DEFINE s == cur[v].dest
  <2>1. /\ cur[v].kind = "service" /\ s \in Service /\ InHand(v)
        /\ svcQueue'[s] = Append(svcQueue[s], cur[v])
        /\ Content(svcQueue'[s]) = Content(svcQueue[s]) \cup {cur[v]}
        /\ \A r \in Service : r # s => svcQueue'[r] = svcQueue[r]
        /\ UNCHANGED <<msgQueue, delivered, seq>>
    BY <1>2, PutServiceEffect
  <2>2. cur[v] \in Message /\ cur[v].src = v /\ cur[v].seq = seq[v]
    BY <2>1, InHandIsNew
  <2>3. \A n \in Content(svcQueue[s]) : n.src = cur[v].src => n.seq < cur[v].seq
    BY <2>1, <2>2 DEF NumberState, Numbered
  <2>4. Ascending(svcQueue'[s])
    BY <1>0, <2>1, <2>2, <2>3, AppendAscending DEF QueueState
  <2> QED
    BY <2>1, <2>4 DEF QueueState
<1>3. ASSUME NEW v \in Vm, PushPut(v) PROVE QueueState'
  <2> DEFINE w == target[v]
  <2>1. /\ w \in Vm /\ Promise!AddressedTo(cur[v], w) /\ InHand(v)
        /\ msgQueue'[w] = Append(msgQueue[w], cur[v])
        /\ Content(msgQueue'[w]) = Content(msgQueue[w]) \cup {cur[v]}
        /\ \A x \in Vm : x # w => msgQueue'[x] = msgQueue[x]
        /\ UNCHANGED <<svcQueue, delivered, seq>>
    BY <1>3, PushPutEffect
  <2>2. cur[v] \in Message /\ cur[v].src = v /\ cur[v].seq = seq[v]
    BY <2>1, InHandIsNew
  <2>3. \A n \in Content(msgQueue[w]) : n.src = cur[v].src => n.seq < cur[v].seq
    BY <2>1, <2>2 DEF NumberState, Numbered
  <2>4. Ascending(msgQueue'[w])
    BY <1>0, <2>1, <2>2, <2>3, AppendAscending DEF QueueState
  <2> QED
    BY <2>1, <2>4 DEF QueueState
<1>4. ASSUME NEW v \in Vm, PopOwn(v) PROVE QueueState'
  <2>1. /\ msgQueue[v] # <<>>
        /\ msgQueue'[v] = Tail(msgQueue[v])
        /\ Content(msgQueue'[v]) \subseteq Content(msgQueue[v])
        /\ \A w \in Vm : w # v => msgQueue'[w] = msgQueue[w]
        /\ UNCHANGED <<svcQueue, seq>>
    BY <1>4, PopOwnEffect
  <2>2. Ascending(msgQueue'[v])
    BY <1>0, <2>1, TailAscending DEF QueueState
  <2> QED
    BY <2>1, <2>2 DEF QueueState
<1>5. ASSUME NEW v \in Vm, PopService(v) PROVE QueueState'
  <2> DEFINE s == ServiceOf[v]
  <2>1. /\ s \in Service /\ svcQueue[s] # <<>>
        /\ svcQueue'[s] = Tail(svcQueue[s])
        /\ Content(svcQueue'[s]) \subseteq Content(svcQueue[s])
        /\ \A r \in Service : r # s => svcQueue'[r] = svcQueue[r]
        /\ UNCHANGED <<msgQueue, seq>>
    BY <1>5, PopServiceEffect
  <2>2. Ascending(svcQueue'[s])
    BY <1>0, <2>1, TailAscending DEF QueueState
  <2> QED
    BY <2>1, <2>2 DEF QueueState
<1> QED
  BY <1>1, <1>2, <1>3, <1>4, <1>5, QueueSteps

\* Every message on a queue or delivered has a number its sender has used up.
LEMMA NumberStep ==
    TypeOK /\ CallState /\ NumberState /\ [Next]_vars => NumberState'
<1> SUFFICES ASSUME TypeOK, CallState, NumberState, [Next]_vars PROVE NumberState'
  OBVIOUS
<1>0. /\ \A v \in Vm : Content(msgQueue[v]) \subseteq Message /\ Content(delivered[v]) \subseteq Message
      /\ \A s \in Service : Content(svcQueue[s]) \subseteq Message
  BY DEF TypeOK, Content
<1>a. /\ \A v \in Vm : \A m \in Content(msgQueue[v]) : Numbered(m)'
      /\ \A s \in Service : \A m \in Content(svcQueue[s]) : Numbered(m)'
      /\ \A v \in Vm : \A m \in Content(delivered[v]) : Numbered(m)'
  BY <1>0, NumberedStep DEF NumberState
<1>1. CASE UNCHANGED <<msgQueue, svcQueue, delivered>>
  BY <1>1, <1>a DEF NumberState
<1>2. ASSUME NEW v \in Vm, PutService(v) PROVE NumberState'
  <2>1. /\ cur[v].dest \in Service /\ InHand(v)
        /\ Content(svcQueue'[cur[v].dest]) = Content(svcQueue[cur[v].dest]) \cup {cur[v]}
        /\ \A r \in Service : r # cur[v].dest => svcQueue'[r] = svcQueue[r]
        /\ UNCHANGED <<msgQueue, delivered, seq>>
    BY <1>2, PutServiceEffect
  <2>2. cur[v].src = v /\ cur[v].seq = seq[v] /\ seq[v] \in Nat
    BY <2>1, InHandIsNew DEF TypeOK
  <2>3. pc'[v] = "script"
    BY <1>2 DEF PutService, Goto, TypeOK
  <2>4. PICK m : m = cur[v]
    OBVIOUS
  <2>5. Numbered(m)'
    BY <2>1, <2>2, <2>3, <2>4 DEF Numbered, InHand
  <2> QED
    BY <1>a, <2>1, <2>4, <2>5 DEF NumberState
<1>3. ASSUME NEW v \in Vm, PushPut(v) PROVE NumberState'
  <2>1. /\ target[v] \in Vm /\ InHand(v)
        /\ Content(msgQueue'[target[v]]) = Content(msgQueue[target[v]]) \cup {cur[v]}
        /\ \A w \in Vm : w # target[v] => msgQueue'[w] = msgQueue[w]
        /\ UNCHANGED <<svcQueue, delivered, seq>>
    BY <1>3, PushPutEffect
  <2>2. cur[v].src = v /\ cur[v].seq = seq[v] /\ seq[v] \in Nat
    BY <2>1, InHandIsNew DEF TypeOK
  <2>3. pc'[v] = "wake"
    BY <1>3 DEF PushPut, Goto, TypeOK
  <2>4. PICK m : m = cur[v]
    OBVIOUS
  <2>5. Numbered(m)'
    BY <2>1, <2>2, <2>3, <2>4 DEF Numbered, InHand
  <2> QED
    BY <1>a, <2>1, <2>4, <2>5 DEF NumberState
<1>4. ASSUME NEW v \in Vm, PopOwn(v) PROVE NumberState'
  <2>1. /\ Content(msgQueue[v]) = {Head(msgQueue[v])} \cup Content(msgQueue'[v])
        /\ Content(delivered'[v]) = Content(delivered[v]) \cup {Head(msgQueue[v])}
        /\ \A w \in Vm : w # v => msgQueue'[w] = msgQueue[w] /\ delivered'[w] = delivered[w]
        /\ UNCHANGED <<svcQueue, seq>>
    BY <1>4, PopOwnEffect
  <2> QED
    BY <1>a, <2>1 DEF NumberState
<1>5. ASSUME NEW v \in Vm, PopService(v) PROVE NumberState'
  <2> DEFINE s == ServiceOf[v]
  <2>1. /\ s \in Service
        /\ Content(svcQueue[s]) = {Head(svcQueue[s])} \cup Content(svcQueue'[s])
        /\ Content(delivered'[v]) = Content(delivered[v]) \cup {Head(svcQueue[s])}
        /\ \A r \in Service : r # s => svcQueue'[r] = svcQueue[r]
        /\ \A w \in Vm : w # v => delivered'[w] = delivered[w]
        /\ UNCHANGED <<msgQueue, seq>>
    BY <1>5, PopServiceEffect
  <2> QED
    BY <1>a, <2>1 DEF NumberState
<1> QED
  BY <1>1, <1>2, <1>3, <1>4, <1>5, QueueSteps

\* A message moves from the hand to one queue and from that queue to one script.
LEMMA PlaceStep ==
    TypeOK /\ CallState /\ QueueState /\ NumberState /\ PlaceState /\ [Next]_vars => PlaceState'
<1> SUFFICES ASSUME TypeOK, CallState, QueueState, NumberState, PlaceState, [Next]_vars
             PROVE  PlaceState'
  OBVIOUS
<1>0. /\ \A v \in Vm : msgQueue[v] \in Seq(Message)
      /\ \A s \in Service : svcQueue[s] \in Seq(Message)
  BY DEF TypeOK
<1>1. CASE UNCHANGED <<msgQueue, svcQueue, delivered>>
  BY <1>1 DEF PlaceState
<1>2. ASSUME NEW v \in Vm, PutService(v) PROVE PlaceState'
  <2> DEFINE s == cur[v].dest
  <2>1. /\ s \in Service /\ InHand(v)
        /\ Content(svcQueue'[s]) = Content(svcQueue[s]) \cup {cur[v]}
        /\ \A r \in Service : r # s => svcQueue'[r] = svcQueue[r]
        /\ UNCHANGED <<msgQueue, delivered>>
    BY <1>2, PutServiceEffect
  <2>2. /\ \A w \in Vm : /\ cur[v] \notin Content(msgQueue[w])
                         /\ cur[v] \notin Content(delivered[w])
        /\ \A r \in Service : cur[v] \notin Content(svcQueue[r])
    BY <2>1, InHandIsNew
  <2>3. \A r \in Service : \A n \in Content(svcQueue'[r]) :
          n \in Content(svcQueue[r]) \/ (r = s /\ n = cur[v])
    BY <2>1
  <2>4. \A w \in Vm : msgQueue'[w] = msgQueue[w] /\ delivered'[w] = delivered[w]
    BY <2>1
  <2> HIDE DEF s
  <2>5. \A y, w \in Vm : y # w => Disjoint(Content(msgQueue'[y]), Content(msgQueue'[w]))
    BY <2>2, <2>3, <2>4 DEF PlaceState, Disjoint
  <2>6. \A y \in Vm : \A r \in Service : Disjoint(Content(msgQueue'[y]), Content(svcQueue'[r]))
    BY <2>2, <2>3, <2>4 DEF PlaceState, Disjoint
  <2>7. \A y, w \in Vm : Disjoint(Content(msgQueue'[y]), Content(delivered'[w]))
    BY <2>2, <2>3, <2>4 DEF PlaceState, Disjoint
  <2>8. \A q, r \in Service : q # r => Disjoint(Content(svcQueue'[q]), Content(svcQueue'[r]))
    BY <2>2, <2>3, <2>4 DEF PlaceState, Disjoint
  <2>9. \A r \in Service : \A w \in Vm : Disjoint(Content(svcQueue'[r]), Content(delivered'[w]))
    BY <2>2, <2>3, <2>4 DEF PlaceState, Disjoint
  <2> QED
    BY <2>5, <2>6, <2>7, <2>8, <2>9 DEF PlaceState
<1>3. ASSUME NEW v \in Vm, PushPut(v) PROVE PlaceState'
  <2> DEFINE x == target[v]
  <2>1. /\ x \in Vm /\ InHand(v)
        /\ Content(msgQueue'[x]) = Content(msgQueue[x]) \cup {cur[v]}
        /\ \A w \in Vm : w # x => msgQueue'[w] = msgQueue[w]
        /\ UNCHANGED <<svcQueue, delivered>>
    BY <1>3, PushPutEffect
  <2>2. /\ \A w \in Vm : /\ cur[v] \notin Content(msgQueue[w])
                         /\ cur[v] \notin Content(delivered[w])
        /\ \A r \in Service : cur[v] \notin Content(svcQueue[r])
    BY <2>1, InHandIsNew
  <2>3. \A w \in Vm : \A n \in Content(msgQueue'[w]) :
          n \in Content(msgQueue[w]) \/ (w = x /\ n = cur[v])
    BY <2>1
  <2> HIDE DEF x
  <2>5. \A y, w \in Vm : y # w => Disjoint(Content(msgQueue'[y]), Content(msgQueue'[w]))
    BY <2>1, <2>2, <2>3 DEF PlaceState, Disjoint
  <2>6. \A y \in Vm : \A r \in Service : Disjoint(Content(msgQueue'[y]), Content(svcQueue'[r]))
    BY <2>1, <2>2, <2>3 DEF PlaceState, Disjoint
  <2>7. \A y, w \in Vm : Disjoint(Content(msgQueue'[y]), Content(delivered'[w]))
    BY <2>1, <2>2, <2>3 DEF PlaceState, Disjoint
  <2>8. \A q, r \in Service : q # r => Disjoint(Content(svcQueue'[q]), Content(svcQueue'[r]))
    BY <2>1, <2>2, <2>3 DEF PlaceState, Disjoint
  <2>9. \A r \in Service : \A w \in Vm : Disjoint(Content(svcQueue'[r]), Content(delivered'[w]))
    BY <2>1, <2>2, <2>3 DEF PlaceState, Disjoint
  <2> QED
    BY <2>5, <2>6, <2>7, <2>8, <2>9 DEF PlaceState
<1>4. ASSUME NEW v \in Vm, PopOwn(v) PROVE PlaceState'
  <2> DEFINE m == Head(msgQueue[v])
  <2>1. /\ msgQueue[v] # <<>> /\ msgQueue'[v] = Tail(msgQueue[v])
        /\ Content(msgQueue[v]) = {m} \cup Content(msgQueue'[v])
        /\ Content(delivered'[v]) = Content(delivered[v]) \cup {m}
        /\ \A w \in Vm : w # v => msgQueue'[w] = msgQueue[w] /\ delivered'[w] = delivered[w]
        /\ UNCHANGED svcQueue
    BY <1>4, PopOwnEffect
  <2>2. m \notin Content(msgQueue'[v])
    BY <1>0, <2>1, TailAscending DEF QueueState
  <2> QED
    BY <2>1, <2>2 DEF PlaceState, Disjoint
<1>5. ASSUME NEW v \in Vm, PopService(v) PROVE PlaceState'
  <2> DEFINE s == ServiceOf[v]
             m == Head(svcQueue[s])
  <2>1. /\ s \in Service /\ svcQueue[s] # <<>> /\ svcQueue'[s] = Tail(svcQueue[s])
        /\ Content(svcQueue[s]) = {m} \cup Content(svcQueue'[s])
        /\ Content(delivered'[v]) = Content(delivered[v]) \cup {m}
        /\ \A r \in Service : r # s => svcQueue'[r] = svcQueue[r]
        /\ \A w \in Vm : w # v => delivered'[w] = delivered[w]
        /\ UNCHANGED msgQueue
    BY <1>5, PopServiceEffect
  <2>2. m \notin Content(svcQueue'[s])
    BY <1>0, <2>1, TailAscending DEF QueueState
  <2>3. /\ \A r \in Service : \A n \in Content(svcQueue'[r]) :
             n \in Content(svcQueue[r]) /\ (r = s => n # m)
        /\ \A w \in Vm : \A n \in Content(delivered'[w]) :
             n \in Content(delivered[w]) \/ n = m
        /\ m \in Content(svcQueue[s])
    BY <2>1, <2>2
  <2> HIDE DEF s, m
  <2> QED
    BY <2>1, <2>3 DEF PlaceState, Disjoint
<1> QED
  BY <1>1, <1>2, <1>3, <1>4, <1>5, QueueSteps

-----------------------------------------------------------------------------
(* The inductive invariant *)

\* The freshly registered VMs, with empty queues and free mutexes, satisfy the invariant.
LEMMA InitInvariant == Init => IInv
<1> SUFFICES ASSUME Init PROVE IInv
  OBVIOUS
<1>0. Content(<<>>) = {}
  BY DEF Content
<1>1. TypeOK
  BY VmAssumption, BoundAssumption DEF Init, TypeOK
<1>2. CallState /\ VmLockState /\ ServiceLockState
  BY VmAssumption DEF Init, CallState, VmLockState, ServiceLockState, InVm, InService
<1>3. NoLostWakeup /\ IdleMeansNoWork /\ IdleDecision
  BY DEF Init, NoLostWakeup, IdleMeansNoWork, IdleDecision
<1>4. QueueState /\ NumberState /\ PlaceState
  BY <1>0 DEF Init, QueueState, NumberState, PlaceState, Disjoint, Ascending
<1> QED
  BY <1>1, <1>2, <1>3, <1>4 DEF IInv

\* Every step of loop, script and library preserves the invariant.
LEMMA NextInvariant == IInv /\ [Next]_vars => IInv'
BY TypeStep, CallStep, VmLockStep, ServiceLockStep, WakeupStep, IdleStep, IdleDecisionStep,
   QueueStep, NumberStep, PlaceStep DEF IInv

\* The whole invariant holds in every reachable state of the message layer.
THEOREM Invariance == Spec => []IInv
BY InitInvariant, NextInvariant, PTL DEF Spec

\* The state of contexts, services and calls is well-typed.
THEOREM TypeCorrect == Spec => []TypeOK
<1>1. IInv => TypeOK
  BY DEF IInv
<1> QED
  BY <1>1, Invariance, PTL

\* pushMsg never loses a wake-up: a queued message will be noticed.
THEOREM WakeupsAreNotLost == Spec => []NoLostWakeup
<1>1. IInv => NoLostWakeup
  BY DEF IInv
<1> QED
  BY <1>1, Invariance, PTL

\* isIdle never answers yes for a VM with work on its own queue.
THEOREM IdleIsTruthful == Spec => []IdleMeansNoWork
<1>1. IInv => IdleMeansNoWork
  BY DEF IInv
<1> QED
  BY <1>1, Invariance, PTL

\* Two dispatchers of pushMsg2FreeVm never choose the same idle VM at once.
THEOREM DispatchIsExclusive == Spec => []OneDispatcherPerVm
<1>1. IInv => OneDispatcherPerVm
  <2> SUFFICES ASSUME IInv, NEW u \in Vm, NEW v \in Vm, u # v,
                      pc[u] = "push", cur[u].kind = "service",
                      pc[v] = "push", cur[v].kind = "service", target[u] = target[v]
               PROVE  FALSE
    BY DEF OneDispatcherPerVm
  <2>1. /\ target[u] \in Vm /\ target[v] \in Vm
        /\ Promise!AddressedTo(cur[u], target[u]) /\ Promise!AddressedTo(cur[v], target[v])
    BY DEF IInv, CallState
  <2>2. cur[u].dest = ServiceOf[target[u]] /\ cur[v].dest = ServiceOf[target[u]]
    BY <2>1 DEF Promise!AddressedTo
  <2>3. ServiceOf[target[u]] \in Service
    BY <2>1, VmAssumption
  <2>4. svcLock[ServiceOf[target[u]]] = u /\ svcLock[ServiceOf[target[u]]] = v
    BY <2>2, <2>3 DEF IInv, ServiceLockState, InService
  <2> QED
    BY <2>4
<1> QED
  BY <1>1, Invariance, PTL

\* Mutexes are never waited for in a circle: a VM's is held by who waits for nothing,
\* a service's by who waits for a VM's at most.
THEOREM NoDeadlock == Spec => []NoCircularWait
<1>1. IInv => NoCircularWait
  <2> SUFFICES ASSUME IInv, NEW S \in SUBSET Vm, S # {},
                      \A v \in S : \E u \in S : WaitsFor(v, u)
               PROVE  FALSE
    BY DEF NoCircularWait
  <2>1. ASSUME NEW u \in S PROVE pc[u] \notin {"wake", "pop", "popIdle"}
    BY DEF WaitsFor, InScript
  <2>2. ASSUME NEW w \in Vm, NEW u \in S PROVE vmLock[w] # u
    BY <2>1 DEF IInv, VmLockState, InVm
  <2>3. ASSUME NEW v \in S, NEW u \in S, WaitsFor(v, u)
        PROVE  pc[v] = "svcLock" /\ svcLock[cur[v].dest] = u
    <3>1. v \in Vm /\ todo[v] \subseteq Vm /\ (pc[v] = "push" => target[v] \in Vm)
      BY DEF IInv, TypeOK, CallState
    <3> QED
      BY <2>2, <2>3, <3>1 DEF WaitsFor
  <2>4. PICK v \in S, u \in S : WaitsFor(v, u)
    OBVIOUS
  <2>5. cur[v].dest \in Service
    BY <2>3, <2>4 DEF IInv, CallState, Message
  <2>6. pc[u] \in {"scan", "push", "wake"}
    BY <2>3, <2>4, <2>5 DEF IInv, ServiceLockState, InService
  <2>7. pc[u] = "svcLock"
    BY <2>3
  <2> QED
    BY <2>6, <2>7
<1> QED
  BY <1>1, Invariance, PTL


-----------------------------------------------------------------------------
(* The message layer implements Mailbox *)

\* Where a waiting message is.
Places == \A m : m \in Waiting <=>
    \/ \E v \in Vm : InHand(v) /\ m = cur[v]
    \/ \E v \in Vm : m \in Content(msgQueue[v])
    \/ \E s \in Service : m \in Content(svcQueue[s])

\* Waiting, spelled out place by place: hand, VM queue, service queue.
LEMMA WaitingPlaces == Places
<1> SUFFICES ASSUME NEW m
             PROVE  m \in Waiting <=>
                      \/ \E v \in Vm : InHand(v) /\ m = cur[v]
                      \/ \E v \in Vm : m \in Content(msgQueue[v])
                      \/ \E s \in Service : m \in Content(svcQueue[s])
  BY DEF Places
<1>1. m \in InHands <=> \E v \in Vm : InHand(v) /\ m = cur[v]
  BY DEF InHands
<1>2. m \in OnVms <=> \E v \in Vm : m \in Content(msgQueue[v])
  BY DEF OnVms
<1>3. m \in OnServices <=> \E s \in Service : m \in Content(svcQueue[s])
  BY DEF OnServices
<1> QED
  BY <1>1, <1>2, <1>3 DEF Waiting

\* A message that is just being built is not known anywhere.
LEMMA FreshIsUnknown ==
    ASSUME IInv, NEW v \in Vm, NEW m, FreshMessage(m, v)
    PROVE  m \notin Waiting /\ \A w \in Vm : m \notin Content(delivered[w])
<1>1. seq[v] \in Nat /\ m.src = v /\ m.seq = seq[v] + 1
  BY DEF FreshMessage, IInv, TypeOK
<1>2. ~Numbered(m)
  BY <1>1 DEF Numbered
<1>3. \A u \in Vm : InHand(u) => m # cur[u]
  <2> SUFFICES ASSUME NEW u \in Vm, InHand(u), m = cur[u] PROVE FALSE
    OBVIOUS
  <2>1. cur[u].src = u /\ cur[u].seq = seq[u]
    BY InHandIsNew DEF IInv
  <2> QED
    BY <1>1, <2>1
<1> QED
  BY <1>2, <1>3, WaitingPlaces DEF Places, IInv, NumberState

\* Building a message is Mailbox's Accept.
LEMMA BuildIsAccept ==
    ASSUME IInv, NEW v \in Vm, NEW m, FreshMessage(m, v), ~InHand(v),
           InHand(v)', cur'[v] = m,
           \A u \in Vm : u # v => (InHand(u)' <=> InHand(u)) /\ cur'[u] = cur[u],
           UNCHANGED <<msgQueue, svcQueue, delivered>>
    PROVE  Promise!Next
<1>1. Places /\ Places'
  BY WaitingPlaces, PTL
<1>2. \A n : n \in Waiting' <=> n \in Waiting \/ n = m
  BY <1>1 DEF Places
<1>3. Waiting' = Waiting \cup {m}
  BY <1>2
<1>4. m \notin Waiting /\ \A w \in Vm : m \notin Content(delivered[w])
  BY FreshIsUnknown
<1>5. Promise!Accept(m)
  BY <1>3, <1>4 DEF Promise!Accept, Content
<1> QED
  BY <1>3, <1>5 DEF Promise!Next, FreshMessage

\* A step that moves no message between hand, queue and script.
LEMMA QuietIsStutter ==
    ASSUME \A u \in Vm : (InHand(u)' <=> InHand(u)) /\ (InHand(u) => cur'[u] = cur[u]),
           UNCHANGED <<msgQueue, svcQueue, delivered>>
    PROVE  UNCHANGED <<Waiting, delivered>>
<1>1. Places /\ Places'
  BY WaitingPlaces, PTL
<1>2. \A n : n \in Waiting' <=> n \in Waiting
  BY <1>1 DEF Places
<1>3. Waiting' = Waiting
  BY <1>2
<1> QED
  BY <1>3

\* Putting the message of the hand on a queue keeps it waiting.
LEMMA PutIsStutter ==
    ASSUME IInv, NEW v \in Vm, PutService(v) \/ PushPut(v)
    PROVE  UNCHANGED <<Waiting, delivered>>
<1>1. Places /\ Places'
  BY WaitingPlaces, PTL
<1>2. TypeOK /\ CallState
  BY DEF IInv
<1>3. /\ InHand(v) /\ ~InHand(v)'
      /\ \A u \in Vm : u # v => (InHand(u)' <=> InHand(u)) /\ cur'[u] = cur[u]
  BY <1>2 DEF TypeOK, InHand, PutService, PushPut, Goto
<1>4. CASE PutService(v)
  <2>1. /\ cur[v].dest \in Service
        /\ Content(svcQueue'[cur[v].dest]) = Content(svcQueue[cur[v].dest]) \cup {cur[v]}
        /\ \A r \in Service : r # cur[v].dest => svcQueue'[r] = svcQueue[r]
        /\ UNCHANGED <<msgQueue, delivered>>
    BY <1>2, <1>4, PutServiceEffect
  <2>2. \A n : (\E s \in Service : n \in Content(svcQueue'[s])) <=>
               (\E s \in Service : n \in Content(svcQueue[s])) \/ n = cur[v]
    BY <2>1
  <2>3. \A n : n \in Waiting' <=> n \in Waiting
    BY <1>1, <1>3, <2>1, <2>2 DEF Places
  <2>4. Waiting' = Waiting
    BY <2>3
  <2> QED
    BY <2>1, <2>4
<1>5. CASE PushPut(v)
  <2>1. /\ target[v] \in Vm
        /\ Content(msgQueue'[target[v]]) = Content(msgQueue[target[v]]) \cup {cur[v]}
        /\ \A w \in Vm : w # target[v] => msgQueue'[w] = msgQueue[w]
        /\ UNCHANGED <<svcQueue, delivered>>
    BY <1>2, <1>5, PushPutEffect
  <2>2. \A n : (\E w \in Vm : n \in Content(msgQueue'[w])) <=>
               (\E w \in Vm : n \in Content(msgQueue[w])) \/ n = cur[v]
    BY <2>1
  <2>3. \A n : n \in Waiting' <=> n \in Waiting
    BY <1>1, <1>3, <2>1, <2>2 DEF Places
  <2>4. Waiting' = Waiting
    BY <2>3
  <2> QED
    BY <2>1, <2>4
<1> QED
  BY <1>4, <1>5

\* popMsg from the VM's own queue is Mailbox's HandOut, in the sender's order.
LEMMA PopOwnIsHandOut ==
    ASSUME IInv, NEW v \in Vm, PopOwn(v)
    PROVE  Promise!Next
<1>1. Places /\ Places'
  BY WaitingPlaces, PTL
<1>2. TypeOK /\ CallState /\ QueueState /\ NumberState /\ PlaceState
  BY DEF IInv
<1>3. PICK m : m = Head(msgQueue[v])
  OBVIOUS
<1>4. /\ msgQueue[v] # <<>> /\ m \in Message
      /\ msgQueue'[v] = Tail(msgQueue[v])
      /\ Content(msgQueue[v]) = {m} \cup Content(msgQueue'[v])
      /\ delivered' = [delivered EXCEPT ![v] = Append(@, m)]
      /\ \A w \in Vm : w # v => msgQueue'[w] = msgQueue[w]
      /\ UNCHANGED svcQueue
  BY <1>2, <1>3, PopOwnEffect
<1>5. \A n \in Content(msgQueue'[v]) : n # m /\ (n.src = m.src => m.seq < n.seq)
  <2>1. msgQueue[v] \in Seq(Message) /\ Ascending(msgQueue[v])
    BY <1>2 DEF TypeOK, QueueState
  <2> QED
    BY <1>3, <1>4, <2>1, TailAscending
<1>6. \A u \in Vm : (InHand(u)' <=> InHand(u)) /\ cur'[u] = cur[u]
  BY <1>2 DEF PopOwn, Goto, InHand, TypeOK
<1>7. \A u \in Vm : InHand(u) => cur[u] # m /\ cur[u].src = u /\ cur[u].seq = seq[u]
  BY <1>2, <1>4, InHandIsNew
<1>8. /\ \A w \in Vm : w # v => m \notin Content(msgQueue[w])
      /\ \A s \in Service : m \notin Content(svcQueue[s])
  BY <1>2, <1>4 DEF PlaceState, Disjoint
<1>9. \A n : n \in Waiting' <=> n \in Waiting /\ n # m
  <2>1. \A n : (\E w \in Vm : n \in Content(msgQueue'[w])) <=>
               (\E w \in Vm : n \in Content(msgQueue[w])) /\ n # m
    BY <1>4, <1>5, <1>8
  <2> QED
    BY <1>1, <1>4, <1>6, <1>7, <1>8, <2>1 DEF Places
<1>10. Waiting' = Waiting \ {m}
  BY <1>9
<1>11. m \in Waiting
  BY <1>1, <1>4 DEF Places
<1>12. Promise!AddressedTo(m, v)
  BY <1>2, <1>4 DEF QueueState
<1>13. ASSUME NEW n \in Waiting, Promise!Precedes(n, m) PROVE FALSE
  <2>1. /\ n.kind # "service" /\ n.src = m.src /\ n.dest = v /\ n.seq < m.seq
    BY <1>12, <1>13 DEF Promise!Precedes, Promise!Direct, Promise!AddressedTo
  <2>2. m.seq \in Nat /\ m.src \in Vm /\ seq[m.src] \in Nat /\ Numbered(m)
    BY <1>2, <1>4 DEF Message, TypeOK, NumberState
  <2>3. ASSUME NEW u \in Vm, InHand(u), n = cur[u] PROVE FALSE
    BY <1>7, <2>1, <2>2, <2>3 DEF Numbered
  <2>4. ASSUME NEW w \in Vm, n \in Content(msgQueue[w]) PROVE FALSE
    <3>1. w = v
      BY <1>2, <2>1, <2>4 DEF QueueState, Promise!AddressedTo
    <3>2. n = m \/ n \in Content(msgQueue'[v])
      BY <1>4, <2>4, <3>1
    <3>3. n \in Message
      BY <1>2, <2>4 DEF TypeOK, Content
    <3>4. n.seq \in Nat
      BY <3>3 DEF Message
    <3> QED
      BY <1>5, <2>1, <2>2, <3>2, <3>4
  <2>5. ASSUME NEW s \in Service, n \in Content(svcQueue[s]) PROVE FALSE
    BY <1>2, <2>1, <2>5 DEF QueueState
  <2> QED
    BY <1>1, <2>3, <2>4, <2>5 DEF Places
<1>14. Promise!HandOut(v, m)
  BY <1>4, <1>10, <1>11, <1>12, <1>13 DEF Promise!HandOut
<1> QED
  BY <1>11, <1>14 DEF Promise!Next

\* popMsg from the service's queue is Mailbox's HandOut of a service message.
LEMMA PopServiceIsHandOut ==
    ASSUME IInv, NEW v \in Vm, PopService(v)
    PROVE  Promise!Next
<1> DEFINE s == ServiceOf[v]
<1>1. Places /\ Places'
  BY WaitingPlaces, PTL
<1>2. TypeOK /\ CallState /\ QueueState /\ NumberState /\ PlaceState
  BY DEF IInv
<1>3. PICK m : m = Head(svcQueue[s])
  OBVIOUS
<1>4. /\ s \in Service /\ svcQueue[s] # <<>> /\ m \in Message
      /\ svcQueue'[s] = Tail(svcQueue[s])
      /\ Content(svcQueue[s]) = {m} \cup Content(svcQueue'[s])
      /\ delivered' = [delivered EXCEPT ![v] = Append(@, m)]
      /\ \A r \in Service : r # s => svcQueue'[r] = svcQueue[r]
      /\ UNCHANGED msgQueue
  BY <1>2, <1>3, PopServiceEffect
<1>5. m \notin Content(svcQueue'[s])
  <2>1. svcQueue[s] \in Seq(Message) /\ Ascending(svcQueue[s])
    BY <1>2, <1>4 DEF TypeOK, QueueState
  <2> QED
    BY <1>3, <1>4, <2>1, TailAscending
<1>6. \A u \in Vm : (InHand(u)' <=> InHand(u)) /\ cur'[u] = cur[u]
  BY <1>2 DEF PopService, Goto, InHand, TypeOK
<1>7. \A u \in Vm : InHand(u) => cur[u] # m
  BY <1>2, <1>4, InHandIsNew
<1>8. /\ \A w \in Vm : m \notin Content(msgQueue[w])
      /\ \A r \in Service : r # s => m \notin Content(svcQueue[r])
  BY <1>2, <1>4 DEF PlaceState, Disjoint
<1>9. \A n : n \in Waiting' <=> n \in Waiting /\ n # m
  <2>1. \A n : (\E r \in Service : n \in Content(svcQueue'[r])) <=>
               (\E r \in Service : n \in Content(svcQueue[r])) /\ n # m
    BY <1>4, <1>5, <1>8
  <2> QED
    BY <1>1, <1>4, <1>6, <1>7, <1>8, <2>1 DEF Places
<1>10. Waiting' = Waiting \ {m}
  BY <1>9
<1>11. m \in Waiting
  BY <1>1, <1>4 DEF Places
<1>12. m.kind = "service" /\ m.dest = ServiceOf[v]
  BY <1>2, <1>4 DEF QueueState
<1>13. Promise!HandOut(v, m)
  BY <1>4, <1>10, <1>11, <1>12
     DEF Promise!HandOut, Promise!AddressedTo, Promise!Precedes, Promise!Direct
<1> QED
  BY <1>11, <1>13 DEF Promise!Next

\* v builds the message m: it is in the sender's hand, with the next number, and
\* with the next session unless it is a report.
Builds(v, m) ==
    /\ FreshMessage(m, v) /\ ~InHand(v) /\ InHand(v)' /\ cur'[v] = m
    /\ \A u \in Vm : u # v => (InHand(u)' <=> InHand(u)) /\ cur'[u] = cur[u]
    /\ UNCHANGED <<msgQueue, svcQueue, delivered>>
    /\ seq'[v] = seq[v] + 1
    /\ m.kind # "report" =>
        m.session = NewSession(sessionId[v]) /\ sessionId'[v] = NewSession(sessionId[v])

\* What a step does to the messages as a whole.
Outcome ==
    \/ UNCHANGED <<Waiting, delivered>>
    \/ \E v \in Vm : PopOwn(v) \/ PopService(v)
    \/ \E v \in Vm : \E m : Builds(v, m)

\* Every step builds a message, hands one out, or leaves the messages where they
\* are or one of them waiting.
LEMMA StepOutcome == IInv /\ [Next]_vars => Outcome
<1> SUFFICES ASSUME IInv, [Next]_vars PROVE Outcome
  OBVIOUS
<1>0. /\ pc \in [Vm -> {"script", "report", "svcLock", "scan", "push", "wake", "pop", "popIdle"}]
      /\ cur \in [Vm -> Message \cup {NoMsg}]
      /\ seq \in [Vm -> Nat] /\ sessionId \in [Vm -> SessionInt]
  BY DEF IInv, TypeOK
<1> USE DEF InHand, ctxVars, svcVars, callVars, histVars, Goto
<1>1. CASE UNCHANGED vars
  <2>1. /\ \A u \in Vm : (InHand(u)' <=> InHand(u)) /\ (InHand(u) => cur'[u] = cur[u])
        /\ UNCHANGED <<msgQueue, svcQueue, delivered>>
    BY <1>1 DEF vars
  <2> QED
    BY <2>1, QuietIsStutter DEF Outcome
<1>2. ASSUME NEW v \in Vm, LoopWake(v) PROVE Outcome
  <2>1. /\ \A u \in Vm : (InHand(u)' <=> InHand(u)) /\ (InHand(u) => cur'[u] = cur[u])
        /\ UNCHANGED <<msgQueue, svcQueue, delivered>>
    BY <1>2, <1>0 DEF LoopWake
  <2> QED
    BY <2>1, QuietIsStutter DEF Outcome
<1>3. ASSUME NEW v \in Vm, LoopEvent(v) PROVE Outcome
  <2>1. /\ \A u \in Vm : (InHand(u)' <=> InHand(u)) /\ (InHand(u) => cur'[u] = cur[u])
        /\ UNCHANGED <<msgQueue, svcQueue, delivered>>
    BY <1>3, <1>0 DEF LoopEvent
  <2> QED
    BY <2>1, QuietIsStutter DEF Outcome
<1>4. ASSUME NEW v \in Vm, EventDone(v) PROVE Outcome
  <2>1. /\ \A u \in Vm : (InHand(u)' <=> InHand(u)) /\ (InHand(u) => cur'[u] = cur[u])
        /\ UNCHANGED <<msgQueue, svcQueue, delivered>>
    BY <1>4, <1>0 DEF EventDone
  <2> QED
    BY <2>1, QuietIsStutter DEF Outcome
<1>5. ASSUME NEW v \in Vm, NEW w \in Vm, SendByVmId(v, w) PROVE Outcome
  <2>1. PICK m : m = NewMessage(v, "vm", w)
    OBVIOUS
  <2>2. FreshMessage(m, v)
    BY <2>1, NewMessageType DEF IInv
  <2>3. /\ ~InHand(v) /\ InHand(v)' /\ cur'[v] = m
        /\ \A u \in Vm : u # v => (InHand(u)' <=> InHand(u)) /\ cur'[u] = cur[u]
        /\ UNCHANGED <<msgQueue, svcQueue, delivered>>
    BY <1>5, <1>0, <2>1 DEF SendByVmId, BeginSend, InScript
  <2>4. /\ seq'[v] = seq[v] + 1 /\ sessionId'[v] = NewSession(sessionId[v])
        /\ m.session = NewSession(sessionId[v])
    BY <1>5, <1>0, <2>1 DEF SendByVmId, BeginSend, NewMessage
  <2> QED
    BY <2>2, <2>3, <2>4 DEF Outcome, Builds
<1>6. ASSUME NEW v \in Vm, NEW s \in Service, SendByServiceName(v, s) PROVE Outcome
  <2>1. PICK m : m = NewMessage(v, "service", s)
    OBVIOUS
  <2>2. FreshMessage(m, v)
    BY <2>1, NewMessageType DEF IInv
  <2>3. /\ ~InHand(v) /\ InHand(v)' /\ cur'[v] = m
        /\ \A u \in Vm : u # v => (InHand(u)' <=> InHand(u)) /\ cur'[u] = cur[u]
        /\ UNCHANGED <<msgQueue, svcQueue, delivered>>
    BY <1>6, <1>0, <2>1 DEF SendByServiceName, BeginSend, InScript
  <2>4. /\ seq'[v] = seq[v] + 1 /\ sessionId'[v] = NewSession(sessionId[v])
        /\ m.session = NewSession(sessionId[v])
    BY <1>6, <1>0, <2>1 DEF SendByServiceName, BeginSend, NewMessage
  <2> QED
    BY <2>2, <2>3, <2>4 DEF Outcome, Builds
<1>7. ASSUME NEW v \in Vm, SendMiss(v) PROVE Outcome
  <2>1. /\ \A u \in Vm : (InHand(u)' <=> InHand(u)) /\ (InHand(u) => cur'[u] = cur[u])
        /\ UNCHANGED <<msgQueue, svcQueue, delivered>>
    BY <1>7, <1>0 DEF SendMiss, BeginSend, InScript
  <2> QED
    BY <2>1, QuietIsStutter DEF Outcome
<1>8. ASSUME NEW v \in Vm, IAmReady(v) PROVE Outcome
  <2>1. /\ \A u \in Vm : (InHand(u)' <=> InHand(u)) /\ (InHand(u) => cur'[u] = cur[u])
        /\ UNCHANGED <<msgQueue, svcQueue, delivered>>
    BY <1>8, <1>0 DEF IAmReady, InScript
  <2> QED
    BY <2>1, QuietIsStutter DEF Outcome
<1>9. ASSUME NEW v \in Vm, NEW w \in Vm, ReportSkip(v, w) PROVE Outcome
  <2>1. /\ \A u \in Vm : (InHand(u)' <=> InHand(u)) /\ (InHand(u) => cur'[u] = cur[u])
        /\ UNCHANGED <<msgQueue, svcQueue, delivered>>
    BY <1>9, <1>0 DEF ReportSkip
  <2> QED
    BY <2>1, QuietIsStutter DEF Outcome
<1>10. ASSUME NEW v \in Vm, NEW w \in Vm, ReportPush(v, w) PROVE Outcome
  <2>1. PICK m : m = NewMessage(v, "report", w)
    OBVIOUS
  <2>2. FreshMessage(m, v)
    BY <2>1, NewMessageType DEF IInv
  <2>3. /\ ~InHand(v) /\ InHand(v)' /\ cur'[v] = m
        /\ \A u \in Vm : u # v => (InHand(u)' <=> InHand(u)) /\ cur'[u] = cur[u]
        /\ UNCHANGED <<msgQueue, svcQueue, delivered>>
    BY <1>10, <1>0, <2>1 DEF ReportPush
  <2>4. seq'[v] = seq[v] + 1 /\ m.kind = "report"
    BY <1>10, <1>0, <2>1 DEF ReportPush, NewMessage
  <2> QED
    BY <2>2, <2>3, <2>4 DEF Outcome, Builds
<1>11. ASSUME NEW v \in Vm, ReportDone(v) PROVE Outcome
  <2>1. /\ \A u \in Vm : (InHand(u)' <=> InHand(u)) /\ (InHand(u) => cur'[u] = cur[u])
        /\ UNCHANGED <<msgQueue, svcQueue, delivered>>
    BY <1>11, <1>0 DEF ReportDone
  <2> QED
    BY <2>1, QuietIsStutter DEF Outcome
<1>12. ASSUME NEW v \in Vm, LockService(v) PROVE Outcome
  <2>1. /\ \A u \in Vm : (InHand(u)' <=> InHand(u)) /\ (InHand(u) => cur'[u] = cur[u])
        /\ UNCHANGED <<msgQueue, svcQueue, delivered>>
    BY <1>12, <1>0 DEF LockService
  <2> QED
    BY <2>1, QuietIsStutter DEF Outcome
<1>13. ASSUME NEW v \in Vm, NEW w \in Vm, ScanIdle(v, w) PROVE Outcome
  <2>1. /\ \A u \in Vm : (InHand(u)' <=> InHand(u)) /\ (InHand(u) => cur'[u] = cur[u])
        /\ UNCHANGED <<msgQueue, svcQueue, delivered>>
    BY <1>13, <1>0 DEF ScanIdle
  <2> QED
    BY <2>1, QuietIsStutter DEF Outcome
<1>14. ASSUME NEW v \in Vm, NEW w \in Vm, ScanBusy(v, w) PROVE Outcome
  <2>1. /\ \A u \in Vm : (InHand(u)' <=> InHand(u)) /\ (InHand(u) => cur'[u] = cur[u])
        /\ UNCHANGED <<msgQueue, svcQueue, delivered>>
    BY <1>14, <1>0 DEF ScanBusy
  <2> QED
    BY <2>1, QuietIsStutter DEF Outcome
<1>15. ASSUME NEW v \in Vm, PutService(v) PROVE Outcome
  BY <1>15, PutIsStutter DEF Outcome
<1>16. ASSUME NEW v \in Vm, PushPut(v) PROVE Outcome
  BY <1>16, PutIsStutter DEF Outcome
<1>17. ASSUME NEW v \in Vm, PushWake(v) PROVE Outcome
  <2>1. /\ \A u \in Vm : (InHand(u)' <=> InHand(u)) /\ (InHand(u) => cur'[u] = cur[u])
        /\ UNCHANGED <<msgQueue, svcQueue, delivered>>
    BY <1>17, <1>0 DEF PushWake
  <2> QED
    BY <2>1, QuietIsStutter DEF Outcome
<1>18. ASSUME NEW v \in Vm, PopLock(v) PROVE Outcome
  <2>1. /\ \A u \in Vm : (InHand(u)' <=> InHand(u)) /\ (InHand(u) => cur'[u] = cur[u])
        /\ UNCHANGED <<msgQueue, svcQueue, delivered>>
    BY <1>18, <1>0 DEF PopLock
  <2> QED
    BY <2>1, QuietIsStutter DEF Outcome
<1>19. ASSUME NEW v \in Vm, PopOwn(v) PROVE Outcome
  BY <1>19 DEF Outcome
<1>20. ASSUME NEW v \in Vm, PopService(v) PROVE Outcome
  BY <1>20 DEF Outcome
<1>21. ASSUME NEW v \in Vm, PopMiss(v) PROVE Outcome
  <2>1. /\ \A u \in Vm : (InHand(u)' <=> InHand(u)) /\ (InHand(u) => cur'[u] = cur[u])
        /\ UNCHANGED <<msgQueue, svcQueue, delivered>>
    BY <1>21, <1>0 DEF PopMiss
  <2> QED
    BY <2>1, QuietIsStutter DEF Outcome
<1>22. ASSUME NEW v \in Vm, PopIdle(v) PROVE Outcome
  <2>1. /\ \A u \in Vm : (InHand(u)' <=> InHand(u)) /\ (InHand(u) => cur'[u] = cur[u])
        /\ UNCHANGED <<msgQueue, svcQueue, delivered>>
    BY <1>22, <1>0 DEF PopIdle
  <2> QED
    BY <2>1, QuietIsStutter DEF Outcome
<1> QED
  BY <1>1, <1>2, <1>3, <1>4, <1>5, <1>6, <1>7, <1>8, <1>9, <1>10, <1>11, <1>12, <1>13,
     <1>14, <1>15, <1>16, <1>17, <1>18, <1>19, <1>20, <1>21, <1>22
     DEF Next, Send, Call

\* Every step of the message layer is one of Mailbox or a stutter.
LEMMA MailboxStep ==
    IInv /\ [Next]_vars => [Promise!Next]_<<Waiting, delivered>>
<1> SUFFICES ASSUME IInv, [Next]_vars PROVE [Promise!Next]_<<Waiting, delivered>>
  OBVIOUS
<1>1. ASSUME NEW v \in Vm, NEW m, Builds(v, m) PROVE Promise!Next
  BY <1>1, BuildIsAccept DEF Builds
<1>2. ASSUME NEW v \in Vm, PopOwn(v) \/ PopService(v)
      PROVE  [Promise!Next]_<<Waiting, delivered>>
  BY <1>2, PopOwnIsHandOut, PopServiceIsHandOut
<1> QED
  BY <1>1, <1>2, StepOutcome DEF Outcome

\* The message layer keeps its promise: every accepted message is handed out
\* at most once, where it is addressed to, and messages from one VM to the id
\* of another arrive in the order of sending.
THEOREM KeepsPromise == Spec => PromiseSpec
<1>1. Init => Promise!Init
  <2> SUFFICES ASSUME Init PROVE Promise!Init
    OBVIOUS
  <2>1. Content(<<>>) = {}
    BY DEF Content
  <2>2. \A m : m \notin Waiting
    BY <2>1, WaitingPlaces DEF Places, Init, InHand
  <2>3. Waiting = {} /\ delivered = [v \in Vm |-> <<>>]
    BY <2>2 DEF Init
  <2> QED
    BY <2>3 DEF Promise!Init
<1>2. IInv /\ [Next]_vars => [Promise!Next]_<<Waiting, delivered>>
  BY MailboxStep
<1> QED
  BY <1>1, <1>2, Invariance, PTL DEF Spec, PromiseSpec, Promise!Spec

-----------------------------------------------------------------------------
(* Sessions *)

\* How many requests lie between session x and session y, at least.
Ahead(x, y) == IF x <= y THEN y - x ELSE y + SessionMax - x

\* A request is at least as many numbers behind its sender as its session is.
SessionState == \A m \in AllMessages : m.kind # "report" =>
    /\ m.src \in Vm /\ m.seq \in Nat /\ m.seq <= seq[m.src]
    /\ m.session \in 1 .. SessionMax /\ sessionId[m.src] \in 1 .. SessionMax
    /\ Ahead(m.session, sessionId[m.src]) <= seq[m.src] - m.seq

\* One more request brings the counter one session further, around the wrap too,
\* and back to a session only after all others.
LEMMA AheadStep ==
    ASSUME NEW x \in 1 .. SessionMax, NEW y \in 1 .. SessionMax
    PROVE  /\ NewSession(y) \in 1 .. SessionMax
           /\ Ahead(x, NewSession(y)) <= Ahead(x, y) + 1
           /\ NewSession(y) = x => Ahead(x, y) + 1 >= SessionMax
  BY BoundAssumption DEF Ahead, NewSession, Increment

\* A counter is no request ahead of itself, and never behind.
LEMMA AheadOfItself ==
    ASSUME NEW x \in 1 .. SessionMax
    PROVE  Ahead(x, x) = 0 /\ \A y \in 1 .. SessionMax : Ahead(x, y) \in Nat
  BY BoundAssumption DEF Ahead

\* The counters of a VM go on together, or that of messages alone for a report.
LEMMA CounterStep ==
    ASSUME TypeOK, [Next]_vars, NEW v \in Vm
    PROVE  \/ seq'[v] = seq[v] /\ sessionId'[v] = sessionId[v]
           \/ seq'[v] = seq[v] + 1 /\ sessionId'[v] \in {sessionId[v], NewSession(sessionId[v])}
<1>0. seq \in [Vm -> Nat] /\ sessionId \in [Vm -> SessionInt]
  BY DEF TypeOK
<1> DEFINE Goal == \/ seq'[v] = seq[v] /\ sessionId'[v] = sessionId[v]
                   \/ seq'[v] = seq[v] + 1
                        /\ sessionId'[v] \in {sessionId[v], NewSession(sessionId[v])}
<1>1. ASSUME NEW u \in Vm, BeginSend(u) PROVE Goal
  BY <1>0, <1>1 DEF BeginSend
<1>2. ASSUME NEW u \in Vm, NEW w \in Vm, ReportPush(u, w) PROVE Goal
  <2>1. seq' = [seq EXCEPT ![u] = seq[u] + 1] /\ sessionId' = sessionId
    BY <1>2 DEF ReportPush, ctxVars
  <2> QED
    BY <1>0, <2>1
<1>3. ASSUME seq' = seq, sessionId' = sessionId PROVE Goal
  BY <1>3
<1>4. ASSUME NEW u \in Vm, Send(u), ~IAmReady(u) PROVE Goal
  BY <1>1, <1>4 DEF Send, SendByVmId, SendByServiceName, SendMiss
<1>5. ASSUME NEW u \in Vm, NEW w \in Vm, ReportSkip(u, w) \/ ScanIdle(u, w) \/ ScanBusy(u, w)
      PROVE  Goal
  BY <1>3, <1>5 DEF ReportSkip, ScanIdle, ScanBusy, ctxVars, histVars
<1>6. ASSUME NEW u \in Vm,
             LoopWake(u) \/ LoopEvent(u) \/ EventDone(u) \/ IAmReady(u) \/ ReportDone(u)
                \/ LockService(u) \/ PutService(u) \/ PushPut(u) \/ PushWake(u) \/ PopLock(u)
                \/ PopOwn(u) \/ PopService(u) \/ PopMiss(u) \/ PopIdle(u)
      PROVE  seq' = seq /\ sessionId' = sessionId
  BY <1>6 DEF LoopWake, LoopEvent, EventDone, IAmReady, ReportDone, LockService, PutService, PushPut,
        PushWake, PopLock, PopOwn, PopService, PopMiss, PopIdle, ctxVars, histVars
<1>7. ASSUME UNCHANGED vars PROVE Goal
  BY <1>3, <1>7 DEF vars, ctxVars, histVars
<1> QED
  BY <1>2, <1>3, <1>4, <1>5, <1>6, <1>7 DEF Next, Call

\* A step adds no message but the one it builds.
LEMMA NoOtherMessage ==
    ASSUME IInv, [Next]_vars, NEW m \in AllMessages', m \notin AllMessages
    PROVE  \E v \in Vm : Builds(v, m)
<1>1. Places /\ Places'
  BY WaitingPlaces, PTL
<1>2. TypeOK
  BY DEF IInv
<1>3. /\ m \notin Waiting /\ \A w \in Vm : m \notin Content(delivered[w])
      /\ m \in Waiting' \/ \E w \in Vm : m \in Content(delivered'[w])
  BY DEF AllMessages
<1>4. CASE UNCHANGED <<Waiting, delivered>>
  BY <1>3, <1>4
<1>5. ASSUME NEW v \in Vm, PopOwn(v) PROVE FALSE
  <2>1. PICK h : h = Head(msgQueue[v])
    OBVIOUS
  <2>2. /\ Content(msgQueue[v]) = {h} \cup Content(msgQueue'[v])
        /\ Content(delivered'[v]) = Content(delivered[v]) \cup {h}
        /\ \A w \in Vm : w # v => msgQueue'[w] = msgQueue[w] /\ delivered'[w] = delivered[w]
        /\ UNCHANGED svcQueue
    BY <1>2, <1>5, <2>1, PopOwnEffect
  <2>3. \A u \in Vm : (InHand(u)' <=> InHand(u)) /\ cur'[u] = cur[u]
    BY <1>2, <1>5 DEF PopOwn, Goto, InHand, TypeOK
  <2>4. h \in Waiting
    BY <1>1, <2>2 DEF Places
  <2>5. \A w \in Vm : m \notin Content(delivered'[w])
    BY <1>3, <2>2, <2>4
  <2>6. m \notin Waiting'
    BY <1>1, <1>3, <2>2, <2>3 DEF Places
  <2> QED
    BY <1>3, <2>5, <2>6
<1>6. ASSUME NEW v \in Vm, PopService(v) PROVE FALSE
  <2>1. PICK s, h : s = ServiceOf[v] /\ h = Head(svcQueue[s])
    OBVIOUS
  <2>2. /\ s \in Service
        /\ Content(svcQueue[s]) = {h} \cup Content(svcQueue'[s])
        /\ Content(delivered'[v]) = Content(delivered[v]) \cup {h}
        /\ \A r \in Service : r # s => svcQueue'[r] = svcQueue[r]
        /\ \A w \in Vm : w # v => delivered'[w] = delivered[w]
        /\ UNCHANGED msgQueue
    BY <1>2, <1>6, <2>1, PopServiceEffect
  <2>3. \A u \in Vm : (InHand(u)' <=> InHand(u)) /\ cur'[u] = cur[u]
    BY <1>2, <1>6 DEF PopService, Goto, InHand, TypeOK
  <2>4. h \in Waiting
    BY <1>1, <2>2 DEF Places
  <2>5. \A w \in Vm : m \notin Content(delivered'[w])
    BY <1>3, <2>2, <2>4
  <2>6. m \notin Waiting'
    BY <1>1, <1>3, <2>2, <2>3 DEF Places
  <2> QED
    BY <1>3, <2>5, <2>6
<1>7. ASSUME NEW v \in Vm, NEW n, Builds(v, n) PROVE Builds(v, m)
  <2>1. m \in Waiting'
    BY <1>3, <1>7 DEF Builds
  <2>2. m = n
    BY <1>1, <1>3, <1>7, <2>1 DEF Places, Builds
  <2> QED
    BY <1>7, <2>2
<1> QED
  BY <1>4, <1>5, <1>6, <1>7, StepOutcome DEF Outcome

\* A request that is known keeps its distance, however far its sender goes on.
LEMMA OldRequest ==
    ASSUME TypeOK, SessionState, [Next]_vars, NEW m \in AllMessages, m.kind # "report"
    PROVE  /\ m.src \in Vm /\ m.seq \in Nat /\ m.seq <= seq'[m.src]
           /\ m.session \in 1 .. SessionMax /\ sessionId'[m.src] \in 1 .. SessionMax
           /\ Ahead(m.session, sessionId'[m.src]) <= seq'[m.src] - m.seq
<1> DEFINE v == m.src
<1>1. /\ v \in Vm /\ m.seq \in Nat /\ m.seq <= seq[v] /\ seq[v] \in Nat
      /\ m.session \in 1 .. SessionMax /\ sessionId[v] \in 1 .. SessionMax
      /\ Ahead(m.session, sessionId[v]) <= seq[v] - m.seq
  BY DEF SessionState, TypeOK
<1>2. /\ NewSession(sessionId[v]) \in 1 .. SessionMax
      /\ Ahead(m.session, NewSession(sessionId[v])) <= Ahead(m.session, sessionId[v]) + 1
  BY <1>1, AheadStep
<1>3. /\ Ahead(m.session, sessionId[v]) \in Nat
      /\ Ahead(m.session, NewSession(sessionId[v])) \in Nat
  BY <1>1, <1>2, AheadOfItself
<1>4. \/ seq'[v] = seq[v] /\ sessionId'[v] = sessionId[v]
      \/ seq'[v] = seq[v] + 1 /\ sessionId'[v] \in {sessionId[v], NewSession(sessionId[v])}
  BY <1>1, CounterStep
<1>5. CASE sessionId'[v] = sessionId[v]
  BY <1>1, <1>3, <1>4, <1>5
<1>6. CASE seq'[v] = seq[v] + 1 /\ sessionId'[v] = NewSession(sessionId[v])
  BY <1>1, <1>2, <1>3, <1>6
<1> QED
  BY <1>4, <1>5, <1>6

\* A new request carries the sender's new session and the sender's new number.
LEMMA NewRequest ==
    ASSUME TypeOK, NEW v \in Vm, NEW m, Builds(v, m), m.kind # "report"
    PROVE  /\ m.src = v /\ m.seq = seq[v] + 1 /\ seq'[v] = m.seq /\ m.seq \in Nat
           /\ m.session = NewSession(sessionId[v]) /\ sessionId'[v] = m.session
           /\ m.session \in 1 .. SessionMax /\ Ahead(m.session, m.session) = 0
<1>1. seq[v] \in Nat /\ sessionId[v] \in SessionInt
  BY DEF TypeOK
<1>2. /\ m.src = v /\ m.seq = seq[v] + 1 /\ seq'[v] = m.seq
      /\ m.session = NewSession(sessionId[v]) /\ sessionId'[v] = m.session
  BY DEF Builds, FreshMessage
<1>3. m.session \in 1 .. SessionMax
  BY <1>1, <1>2, NewSessionPositive
<1> QED
  BY <1>1, <1>2, <1>3, AheadOfItself

\* A step keeps every request's distance.
LEMMA SessionStateStep ==
    IInv /\ SessionState /\ [Next]_vars => SessionState'
<1> SUFFICES ASSUME IInv, SessionState, [Next]_vars, NEW m \in AllMessages', m.kind # "report"
             PROVE  /\ m.src \in Vm /\ m.seq \in Nat /\ m.seq <= seq'[m.src]
                    /\ m.session \in 1 .. SessionMax /\ sessionId'[m.src] \in 1 .. SessionMax
                    /\ Ahead(m.session, sessionId'[m.src]) <= seq'[m.src] - m.seq
  BY DEF SessionState, Ahead
<1>1. TypeOK
  BY DEF IInv
<1>2. CASE m \in AllMessages
  BY <1>1, <1>2, OldRequest
<1>3. CASE m \notin AllMessages
  <2>1. PICK v \in Vm : Builds(v, m)
    BY <1>3, NoOtherMessage
  <2>2. /\ m.src = v /\ seq'[v] = m.seq /\ m.seq \in Nat /\ sessionId'[v] = m.session
        /\ m.session \in 1 .. SessionMax /\ Ahead(m.session, m.session) = 0
    BY <1>1, <2>1, NewRequest
  <2> QED
    BY <2>2
<1> QED
  BY <1>2, <1>3

\* A step keeps requests with the same session far apart: if one of them is new,
\* the counter has gone all the way round since the other.
LEMMA SessionsStep ==
    IInv /\ SessionState /\ SessionsTellRequestsApart /\ [Next]_vars
        => SessionsTellRequestsApart'
<1> SUFFICES ASSUME IInv, SessionState, SessionsTellRequestsApart, [Next]_vars
             PROVE  SessionsTellRequestsApart'
  OBVIOUS
<1>1. TypeOK /\ SessionState'
  BY SessionStateStep DEF IInv
<1>2. ASSUME NEW m \in AllMessages', m.kind # "report" PROVE m.session \in 1 .. SessionMax
  BY <1>1, <1>2 DEF SessionState
<1>3. ASSUME NEW m \in AllMessages', NEW n \in AllMessages', m.kind # "report",
             n.kind # "report", n.src = m.src, m.seq < n.seq, n.session = m.session
      PROVE  n.seq - m.seq >= SessionMax
  <2>1. CASE m \in AllMessages /\ n \in AllMessages
    BY <1>3, <2>1 DEF SessionsTellRequestsApart
  <2>2. CASE m \in AllMessages /\ n \notin AllMessages
    <3>1. PICK v \in Vm : Builds(v, n)
      BY <2>2, NoOtherMessage
    <3>2. n.src = v /\ n.seq = seq[v] + 1 /\ n.session = NewSession(sessionId[v])
      BY <1>1, <1>3, <3>1, NewRequest
    <3>3. /\ m.seq \in Nat /\ m.session \in 1 .. SessionMax /\ sessionId[v] \in 1 .. SessionMax
          /\ Ahead(m.session, sessionId[v]) <= seq[v] - m.seq /\ seq[v] \in Nat
      BY <1>1, <1>3, <2>2, <3>2 DEF SessionState, TypeOK
    <3>4. Ahead(m.session, sessionId[v]) + 1 >= SessionMax
      BY <1>3, <3>2, <3>3, AheadStep
    <3>5. Ahead(m.session, sessionId[v]) \in Nat
      BY <3>3, AheadOfItself
    <3> QED
      BY <3>2, <3>3, <3>4, <3>5, BoundAssumption
  <2>3. CASE m \notin AllMessages
    <3>1. PICK v \in Vm : Builds(v, m)
      BY <2>3, NoOtherMessage
    <3>2. m.src = v /\ seq'[v] = m.seq /\ m.seq \in Nat
      BY <1>1, <1>3, <3>1, NewRequest
    <3>3. n.seq \in Nat /\ n.seq <= seq'[v]
      BY <1>1, <1>3, <3>2 DEF SessionState
    <3> QED
      BY <1>3, <3>2, <3>3
  <2> QED
    BY <2>1, <2>2, <2>3
<1> QED
  BY <1>2, <1>3 DEF SessionsTellRequestsApart

\* newSession numbers the requests of a VM so that no two of them are confused,
\* for every width of int and whatever the uninitialised sessionId held.
THEOREM SessionsApart == Spec => []SessionsTellRequestsApart
<1>1. Init => SessionState /\ SessionsTellRequestsApart
  <2> SUFFICES ASSUME Init PROVE SessionState /\ SessionsTellRequestsApart
    OBVIOUS
  <2>1. Content(<<>>) = {}
    BY DEF Content
  <2>2. \A m : m \notin Waiting
    BY <2>1, WaitingPlaces DEF Places, Init, InHand
  <2>3. \A m : m \notin AllMessages
    BY <2>1, <2>2 DEF AllMessages, Init
  <2> QED
    BY <2>3 DEF SessionState, SessionsTellRequestsApart
<1>2. IInv /\ SessionState /\ SessionsTellRequestsApart /\ [Next]_vars
        => SessionState' /\ SessionsTellRequestsApart'
  BY SessionStateStep, SessionsStep
<1> QED
  BY <1>1, <1>2, Invariance, PTL DEF Spec
=============================================================================
