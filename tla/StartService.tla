---------------------------- MODULE StartService ----------------------------
(***************************************************************************)
(* startService (serviceEntry.cpp) and Waiter (waiter.h).                  *)
(*                                                                         *)
(* A script starts a service: startService puts a Waiter on its stack,     *)
(* gives its address to a detached thread that runs a Lua interpreter, and *)
(* blocks until somebody calls notify.  cThisVM.__new__ in the new         *)
(* interpreter calls notify with the new ids; threadFunc calls notify(0,0) *)
(* once the interpreter has ended, whatever happened before.               *)
(*                                                                         *)
(* The Waiters of successive calls live at the same place of the caller's  *)
(* stack: one slot stands for that place.  A thread writes through its     *)
(* pointer whether or not its Waiter is still there.                       *)
(***************************************************************************)
EXTENDS Naturals

CONSTANTS MaxCalls   \* bound: calls of startService

ASSUME CallsAssumption == MaxCalls \in Nat \ {0}

Call == 1 .. MaxCalls

\* The ids of the VM that the service of call c creates; 0 means no VM.
VmIdOf(c) == c
ServiceIdOf(c) == c

VARIABLES
    pc,         \* where the caller is in startService
    call,       \* number of the last call
    owner,      \* the call whose Waiter is alive in the slot, 0 if none
    quitFlag, vmId, serviceId,  \* the members of the Waiter in the slot
    lock,       \* the thread inside the slot's mutex_, 0 if none
    vmIdRead,   \* what getVmId returned to the caller
    result,     \* result[c]: what call c returned to the script
    thread,     \* thread[c]: where the thread of call c is
    created,    \* the calls whose interpreter created its cThisVM
    alone       \* history: the calls that began with no earlier thread left

waiterVars == <<quitFlag, vmId, serviceId>>
vars == <<pc, call, owner, waiterVars, lock, vmIdRead, result, thread, created, alone>>

Pending == [vm |-> 0, service |-> 0, returned |-> FALSE]

Init ==
    /\ pc = "script"
    /\ call = 0
    /\ owner = 0
    /\ quitFlag = FALSE /\ vmId = 0 /\ serviceId = 0
    /\ lock = 0
    /\ vmIdRead = 0
    /\ result = [c \in Call |-> Pending]
    /\ thread = [c \in Call |-> "none"]
    /\ created = {}
    /\ alone = {}

-----------------------------------------------------------------------------
(* The caller *)

\* Waiter wt; std::thread thread(...); thread.detach()
Start ==
    /\ pc = "script"
    /\ call < MaxCalls
    /\ call' = call + 1
    /\ owner' = call + 1
    /\ quitFlag' = FALSE /\ vmId' = 0 /\ serviceId' = 0
    /\ lock' = 0
    /\ thread' = [thread EXCEPT ![call + 1] = "main"]
    /\ alone' = IF \A c \in 1 .. call : thread[c] = "done"
                  THEN alone \cup {call + 1} ELSE alone
    /\ pc' = "wait"
    /\ UNCHANGED <<vmIdRead, result, created>>

\* Mutant: wait() does not test quitFlag_ (a spurious wake-up gets through).
WaitUnguarded ==
    /\ pc = "wait"
    /\ lock = 0
    /\ pc' = "readVm"
    /\ UNCHANGED <<call, owner, waiterVars, lock, vmIdRead, result, thread, created, alone>>

\* wt.wait() returns.
Wait ==
    /\ pc = "wait"
    /\ lock = 0
    /\ quitFlag
    /\ pc' = "readVm"
    /\ UNCHANGED <<call, owner, waiterVars, lock, vmIdRead, result, thread, created, alone>>

\* getVmId() and getServiceId() read without the mutex.
ReadVmId ==
    /\ pc = "readVm"
    /\ vmIdRead' = vmId
    /\ pc' = "readService"
    /\ UNCHANGED <<call, owner, waiterVars, lock, result, thread, created, alone>>

\* The call returns and the Waiter goes out of scope.
Return ==
    /\ pc = "readService"
    /\ result' = [result EXCEPT ![call] =
                    [vm |-> vmIdRead, service |-> serviceId, returned |-> TRUE]]
    /\ owner' = 0
    /\ pc' = "script"
    /\ UNCHANGED <<call, waiterVars, lock, vmIdRead, thread, created, alone>>

-----------------------------------------------------------------------------
(* The thread of call c *)

\* cThisVM.__new__, at most once per interpreter, finds the Waiter in the registry.
NewVm(c) ==
    /\ thread[c] = "main"
    /\ c \notin created
    /\ created' = created \cup {c}
    /\ thread' = [thread EXCEPT ![c] = "newVmId"]
    /\ UNCHANGED <<pc, call, owner, waiterVars, lock, vmIdRead, result, alone>>

\* Mutant: threadFunc does not notify when the interpreter has ended.
MainReturnsSilently(c) ==
    /\ thread[c] = "main"
    /\ thread' = [thread EXCEPT ![c] = "done"]
    /\ UNCHANGED <<pc, call, owner, waiterVars, lock, vmIdRead, result, created, alone>>

\* main() returns: the script has ended or failed.
MainReturns(c) ==
    /\ thread[c] = "main"
    /\ thread' = [thread EXCEPT ![c] = "exitVmId"]
    /\ UNCHANGED <<pc, call, owner, waiterVars, lock, vmIdRead, result, created, alone>>

\* Mutant: threadFunc reports the ids it would have liked to see.
NotifyVmIdAlways(c) ==
    /\ thread[c] \in {"newVmId", "exitVmId"}
    /\ lock = 0
    /\ lock' = c
    /\ quitFlag' = TRUE
    /\ vmId' = VmIdOf(c)
    /\ thread' = [thread EXCEPT ![c] = IF @ = "newVmId" THEN "newServiceId" ELSE "exitServiceId"]
    /\ UNCHANGED <<pc, call, owner, serviceId, vmIdRead, result, created, alone>>

\* notify takes the mutex and writes its first members.
NotifyVmId(c) ==
    /\ thread[c] \in {"newVmId", "exitVmId"}
    /\ lock = 0
    /\ lock' = c
    /\ quitFlag' = TRUE
    /\ vmId' = IF thread[c] = "newVmId" THEN VmIdOf(c) ELSE 0
    /\ thread' = [thread EXCEPT ![c] = IF @ = "newVmId" THEN "newServiceId" ELSE "exitServiceId"]
    /\ UNCHANGED <<pc, call, owner, serviceId, vmIdRead, result, created, alone>>

\* notify writes the last member, notifies and gives the mutex back.
NotifyServiceId(c) ==
    /\ thread[c] \in {"newServiceId", "exitServiceId"}
    /\ lock' = 0
    /\ serviceId' = IF thread[c] = "newServiceId" THEN ServiceIdOf(c) ELSE 0
    /\ thread' = [thread EXCEPT ![c] = IF @ = "newServiceId" THEN "main" ELSE "done"]
    /\ UNCHANGED <<pc, call, owner, quitFlag, vmId, vmIdRead, result, created, alone>>

-----------------------------------------------------------------------------

Caller == Start \/ Wait \/ ReadVmId \/ Return

Thread(c) == NewVm(c) \/ MainReturns(c) \/ NotifyVmId(c) \/ NotifyServiceId(c)

\* Everything was started, returned and ended.
AllDone == pc = "script" /\ call = MaxCalls /\ \A c \in Call : thread[c] = "done"

Next == Caller \/ (\E c \in Call : Thread(c)) \/ (AllDone /\ UNCHANGED vars)

Spec == Init /\ [][Next]_vars

\* The threads run; a started script creates its VM or ends, it does not
\* run forever without doing either.
Fairness ==
    /\ WF_vars(Wait \/ ReadVmId \/ Return)
    /\ \A c \in Call :
        /\ WF_vars(NewVm(c) \/ (MainReturns(c) /\ c \notin created))
        /\ WF_vars(NotifyVmId(c) \/ NotifyServiceId(c))

FairSpec == Spec /\ Fairness

-----------------------------------------------------------------------------
(* Properties *)

\* The types of the state; a Waiter is alive exactly while its call runs, and
\* only calls that were made have a thread.
TypeOK ==
    /\ pc \in {"script", "wait", "readVm", "readService"}
    /\ call \in 0 .. MaxCalls
    /\ owner = IF pc = "script" THEN 0 ELSE call
    /\ quitFlag \in BOOLEAN /\ vmId \in 0 .. MaxCalls /\ serviceId \in 0 .. MaxCalls
    /\ lock \in 0 .. MaxCalls
    /\ vmIdRead \in 0 .. MaxCalls
    /\ result \in [Call -> [vm : 0 .. MaxCalls, service : 0 .. MaxCalls, returned : BOOLEAN]]
    /\ thread \in [Call -> {"none", "main", "newVmId", "newServiceId",
                            "exitVmId", "exitServiceId", "done"}]
    /\ \A c \in Call : thread[c] = "none" <=> c > call
    /\ created \subseteq 1 .. call
    /\ alone \subseteq 1 .. call

\* The ids a call hands its script name a VM that some interpreter really
\* created, even when the late notify of an earlier call hits this call's
\* Waiter; and a call that began when no earlier thread was left hands out its
\* own ids or 0, although it reads them without the mutex while threadFunc may
\* be writing 0 over them.
ReportedIdsAreReal == \A c \in Call :
    /\ result[c].vm \in created \cup {0}
    /\ result[c].service \in created \cup {0}
    /\ c \in alone => /\ result[c].vm \in {VmIdOf(c), 0}
                      /\ result[c].service \in {ServiceIdOf(c), 0}

\* For a call that began when no earlier thread was left, the answer 0 means
\* that the interpreter has really ended: no wake-up gets past quitFlag_.
ZeroMeansEnded == \A c \in alone :
    result[c].returned /\ 0 \in {result[c].vm, result[c].service}
        => thread[c] \in {"exitServiceId", "done"}

\* startService returns: no notify is lost, and a script that fails before it
\* has created its VM is reported as well.
StartReturns == \A c \in Call : thread[c] # "none" ~> result[c].returned

\* serviceEntry.cpp:42: "calling notify again does no harm if it was called
\* before": the Waiter a thread notifies is still the one it was given.
RepeatedNotifyIsHarmless == \A c \in Call :
    thread[c] \in {"newServiceId", "exitServiceId"} => owner = c
=============================================================================
