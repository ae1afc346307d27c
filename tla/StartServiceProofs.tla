------------------------- MODULE StartServiceProofs -------------------------
(***************************************************************************)
(* Proofs about StartService, for any number of calls.                     *)
(***************************************************************************)
EXTENDS StartService, TLAPS

\* Every id in the slot or with the caller is that of a VM that was created.
Real ==
    /\ {vmId, serviceId, vmIdRead} \subseteq created \cup {0}
    /\ \A c \in Call : {result[c].vm, result[c].service} \subseteq created \cup {0}
    /\ \A c \in Call : thread[c] \in {"newVmId", "newServiceId"} => c \in created
    /\ \A c \in Call : c > call => result[c] = Pending

\* A thread that had ended before a call began is never heard of again.
Alone == \A c \in alone, d \in Call : d < c => thread[d] = "done"

\* While a call that began alone runs, the slot tells how far its thread is.
Reported == call \in created /\ thread[call] \in {"main", "exitVmId"}

Slot == call \in alone /\ pc # "script" =>
    /\ lock = IF thread[call] \in {"newServiceId", "exitServiceId"} THEN call ELSE 0
    /\ quitFlag <=> Reported \/ thread[call] \in {"newServiceId", "exitServiceId", "done"}
    /\ vmId = IF Reported \/ thread[call] = "newServiceId" THEN call ELSE 0
    /\ serviceId = IF Reported \/ (call \in created /\ thread[call] = "exitServiceId")
                     THEN call ELSE 0
    /\ pc # "wait" => quitFlag /\ thread[call] # "newServiceId"
    /\ pc = "readService" =>
        vmIdRead = call \/ (vmIdRead = 0 /\ thread[call] \in {"exitServiceId", "done"})

\* What a call that began alone has returned.
Returned == \A c \in alone :
    /\ result[c].vm \in {c, 0} /\ result[c].service \in {c, 0}
    /\ result[c].returned /\ 0 \in {result[c].vm, result[c].service}
            => thread[c] \in {"exitServiceId", "done"}
    /\ result[c].returned => c < call \/ pc = "script"

IInv == TypeOK /\ Real /\ Alone /\ Slot /\ Returned

-----------------------------------------------------------------------------
\* Every step keeps the types.
LEMMA TypeStep == TypeOK /\ [Next]_vars => TypeOK'
<1> SUFFICES ASSUME TypeOK, [Next]_vars PROVE TypeOK'
  OBVIOUS
<1> USE CallsAssumption DEF TypeOK, Call
<1>1. CASE Start
  <2>1. call + 1 \in Call /\ call' = call + 1 /\ call' \in 0 .. MaxCalls
    BY <1>1 DEF Start
  <2>2. /\ pc' = "wait" /\ owner' = call' /\ lock' = 0
        /\ quitFlag' = FALSE /\ vmId' = 0 /\ serviceId' = 0
        /\ UNCHANGED <<vmIdRead, result, created>>
    BY <1>1 DEF Start
  <2>3. /\ thread' \in [Call -> {"none", "main", "newVmId", "newServiceId",
                                 "exitVmId", "exitServiceId", "done"}]
        /\ \A c \in Call : thread'[c] = "none" <=> c > call'
    BY <1>1, <2>1 DEF Start
  <2>4. created' \subseteq 1 .. call' /\ alone' \subseteq 1 .. call'
    BY <1>1, <2>1 DEF Start
  <2>5. /\ pc' \in {"script", "wait", "readVm", "readService"}
        /\ owner' = IF pc' = "script" THEN 0 ELSE call'
        /\ quitFlag' \in BOOLEAN
    BY <2>2
  <2>6. /\ vmId' \in 0 .. MaxCalls /\ serviceId' \in 0 .. MaxCalls
        /\ lock' \in 0 .. MaxCalls /\ vmIdRead' \in 0 .. MaxCalls
    BY <2>2
  <2>7. result' \in [Call -> [vm : 0 .. MaxCalls, service : 0 .. MaxCalls,
                              returned : BOOLEAN]]
    BY <2>2
  <2> QED
    BY <2>1, <2>3, <2>4, <2>5, <2>6, <2>7
<1>2. CASE Wait
  BY <1>2 DEF Wait, waiterVars
<1>3. CASE ReadVmId
  BY <1>3 DEF ReadVmId, waiterVars
<1>4. CASE Return
  BY <1>4 DEF Return, waiterVars
<1>5. ASSUME NEW c \in Call, NewVm(c) PROVE TypeOK'
  BY <1>5 DEF NewVm, waiterVars
<1>6. ASSUME NEW c \in Call, MainReturns(c) PROVE TypeOK'
  BY <1>6 DEF MainReturns, waiterVars
<1>7. ASSUME NEW c \in Call, NotifyVmId(c) PROVE TypeOK'
  BY <1>7 DEF NotifyVmId, VmIdOf
<1>8. ASSUME NEW c \in Call, NotifyServiceId(c) PROVE TypeOK'
  BY <1>8 DEF NotifyServiceId, ServiceIdOf
<1>9. CASE UNCHANGED vars
  BY <1>9 DEF vars, waiterVars
<1> QED
  BY <1>1, <1>2, <1>3, <1>4, <1>5, <1>6, <1>7, <1>8, <1>9 DEF Next, Caller, Thread

\* Ids come from VMs: a thread reports its own id only after it created it.
LEMMA RealStep == TypeOK /\ Real /\ [Next]_vars => Real'
<1> SUFFICES ASSUME TypeOK, Real, [Next]_vars PROVE Real'
  OBVIOUS
<1> USE CallsAssumption DEF TypeOK, Real, Call
<1>1. CASE Start
  BY <1>1 DEF Start, Pending
<1>2. CASE Wait
  BY <1>2 DEF Wait, waiterVars
<1>3. CASE ReadVmId
  BY <1>3 DEF ReadVmId, waiterVars
<1>4. CASE Return
  BY <1>4 DEF Return, waiterVars
<1>5. ASSUME NEW c \in Call, NewVm(c) PROVE Real'
  BY <1>5 DEF NewVm, waiterVars
<1>6. ASSUME NEW c \in Call, MainReturns(c) PROVE Real'
  BY <1>6 DEF MainReturns, waiterVars
<1>7. ASSUME NEW c \in Call, NotifyVmId(c) PROVE Real'
  BY <1>7 DEF NotifyVmId, VmIdOf
<1>8. ASSUME NEW c \in Call, NotifyServiceId(c) PROVE Real'
  BY <1>8 DEF NotifyServiceId, ServiceIdOf
<1>9. CASE UNCHANGED vars
  BY <1>9 DEF vars, waiterVars
<1> QED
  BY <1>1, <1>2, <1>3, <1>4, <1>5, <1>6, <1>7, <1>8, <1>9 DEF Next, Caller, Thread

\* A thread that has ended stays ended, and a call that begins alone finds
\* only ended threads.
LEMMA AloneStep == TypeOK /\ Alone /\ [Next]_vars => Alone'
<1> SUFFICES ASSUME TypeOK, Alone, [Next]_vars PROVE Alone'
  OBVIOUS
<1> USE CallsAssumption DEF TypeOK, Alone, Call
<1>1. CASE Start
  BY <1>1 DEF Start
<1>2. CASE Wait \/ ReadVmId \/ Return \/ UNCHANGED vars
  BY <1>2 DEF Wait, ReadVmId, Return, vars
<1>3. ASSUME NEW c \in Call, Thread(c) PROVE Alone'
  BY <1>3 DEF Thread, NewVm, MainReturns, NotifyVmId, NotifyServiceId
<1> QED
  BY <1>1, <1>2, <1>3 DEF Next, Caller

\* A thread that moves while a call that began alone runs is that call's.
LEMMA OnlyTheOwn ==
    ASSUME TypeOK, Alone, NEW c \in Call, Thread(c), call \in alone
    PROVE  c = call
<1>1. thread[c] \notin {"none", "done"}
  BY DEF Thread, NewVm, MainReturns, NotifyVmId, NotifyServiceId
<1>2. ~(c > call) /\ ~(c < call)
  BY <1>1 DEF TypeOK, Alone
<1> QED
  BY <1>2 DEF TypeOK, Call

\* With one thread left, the slot follows that thread through notify.
LEMMA SlotStep == TypeOK /\ Real /\ Alone /\ Slot /\ [Next]_vars => Slot'
<1> SUFFICES ASSUME TypeOK, Real, Alone, Slot, [Next]_vars, call' \in alone', pc' # "script"
             PROVE  Slot'
  BY DEF Slot
<1> USE CallsAssumption DEF TypeOK, Slot, Reported, Call
<1>1. CASE Start
  BY <1>1 DEF Start
<1>2. CASE Wait
  BY <1>2 DEF Wait, waiterVars
<1>3. CASE ReadVmId
  BY <1>3 DEF ReadVmId, waiterVars
<1>4. CASE Return
  BY <1>4 DEF Return
<1>5. ASSUME NEW c \in Call, Thread(c) PROVE Slot'
  <2>0. call' = call /\ alone' = alone /\ pc' = pc /\ vmIdRead' = vmIdRead
    BY <1>5 DEF Thread, NewVm, MainReturns, NotifyVmId, NotifyServiceId
  <2>1. c = call /\ call' = call /\ alone' = alone /\ pc' = pc /\ vmIdRead' = vmIdRead
    BY <1>5, <2>0, OnlyTheOwn
  <2>2. CASE NewVm(c)
    BY <2>1, <2>2 DEF NewVm, waiterVars
  <2>3. CASE MainReturns(c)
    BY <2>1, <2>3 DEF MainReturns, waiterVars
  <2>4. CASE NotifyVmId(c)
    BY <2>1, <2>4 DEF NotifyVmId, VmIdOf
  <2>5. CASE NotifyServiceId(c)
    <3>1. thread[c] = "newServiceId" => c \in created
      BY DEF Real
    <3> QED
      BY <2>1, <2>5, <3>1 DEF NotifyServiceId, ServiceIdOf
  <2> QED
    BY <1>5, <2>2, <2>3, <2>4, <2>5 DEF Thread
<1>6. CASE UNCHANGED vars
  BY <1>6 DEF vars, waiterVars
<1> QED
  BY <1>1, <1>2, <1>3, <1>4, <1>5, <1>6 DEF Next, Caller

\* What Return hands out is what the slot said, and the threads only go on.
LEMMA ReturnedStep == TypeOK /\ Real /\ Alone /\ Slot /\ Returned /\ [Next]_vars => Returned'
<1> SUFFICES ASSUME TypeOK, Real, Alone, Slot, Returned, [Next]_vars PROVE Returned'
  OBVIOUS
<1> USE CallsAssumption DEF TypeOK, Returned, Call
<1>1. CASE Start
  BY <1>1 DEF Start, Real, Pending
<1>2. CASE Wait \/ ReadVmId \/ UNCHANGED vars
  BY <1>2 DEF Wait, ReadVmId, vars
<1>3. CASE Return
  BY <1>3 DEF Return, Slot, Reported
<1>4. ASSUME NEW c \in Call, Thread(c) PROVE Returned'
  <2>1. result' = result /\ call' = call /\ pc' = pc /\ alone' = alone
    BY <1>4 DEF Thread, NewVm, MainReturns, NotifyVmId, NotifyServiceId
  <2>2. thread[c] \in {"exitServiceId", "done"} => thread'[c] \in {"exitServiceId", "done"}
    BY <1>4 DEF Thread, NewVm, MainReturns, NotifyVmId, NotifyServiceId
  <2>3. \A d \in Call : d # c => thread'[d] = thread[d]
    BY <1>4 DEF Thread, NewVm, MainReturns, NotifyVmId, NotifyServiceId
  <2>4. \A d \in Call : thread[d] \in {"exitServiceId", "done"}
                            => thread'[d] \in {"exitServiceId", "done"}
    BY <2>2, <2>3
  <2>5. alone \subseteq Call
    OBVIOUS
  <2> QED
    BY <2>1, <2>4, <2>5
<1> QED
  BY <1>1, <1>2, <1>3, <1>4 DEF Next, Caller

-----------------------------------------------------------------------------
\* The inductive invariant holds: what the slot and the results of the calls
\* say of the threads is true after every step of startService, threadFunc and
\* cThisVM.__new__.
THEOREM Invariance == Spec => []IInv
<1>1. ASSUME Init PROVE IInv
  <2> USE CallsAssumption DEF Init, Call
  <2>1. /\ result \in [Call -> [vm : 0 .. MaxCalls, service : 0 .. MaxCalls,
                                returned : BOOLEAN]]
        /\ \A c \in Call : thread[c] = "none" /\ c > call
    BY <1>1 DEF Pending
  <2>2. /\ 0 \in 0 .. MaxCalls
        /\ thread \in [Call -> {"none", "main", "newVmId", "newServiceId",
                                "exitVmId", "exitServiceId", "done"}]
        /\ created \subseteq 1 .. call /\ alone \subseteq 1 .. call
    BY <1>1
  <2>3. TypeOK
    BY <1>1, <2>1, <2>2 DEF TypeOK
  <2>4. Real
    BY <1>1 DEF Init, Real, Pending
  <2>5. Alone /\ Slot /\ Returned
    BY <1>1 DEF Init, Alone, Slot, Returned
  <2> QED
    BY <2>3, <2>4, <2>5 DEF IInv
<1>2. IInv /\ [Next]_vars => IInv'
  BY TypeStep, RealStep, AloneStep, SlotStep, ReturnedStep DEF IInv
<1> QED
  BY <1>1, <1>2, PTL DEF Spec

\* The types; a Waiter is alive exactly while its call runs.
THEOREM TypeCorrect == Spec => []TypeOK
<1>1. IInv => TypeOK
  BY DEF IInv
<1> QED
  BY Invariance, <1>1, PTL

\* A call hands its script the id of a VM that was created, and its own or 0
\* when no earlier thread was left.
THEOREM RealIds == Spec => []ReportedIdsAreReal
<1>1. IInv => ReportedIdsAreReal
  BY DEF IInv, Real, Returned, TypeOK, ReportedIdsAreReal, VmIdOf, ServiceIdOf
<1> QED
  BY Invariance, <1>1, PTL

\* The answer 0 means that the interpreter has ended.
THEOREM ZeroIsTheEnd == Spec => []ZeroMeansEnded
<1>1. IInv => ZeroMeansEnded
  BY DEF IInv, Returned, ZeroMeansEnded
<1> QED
  BY Invariance, <1>1, PTL
=============================================================================
