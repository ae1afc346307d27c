---------------------------- MODULE WatchersProofs ----------------------------
(***************************************************************************)
(* Proofs about Watchers, for every set of watchers.                       *)
(*                                                                         *)
(* The first part is about the registry alone: luaL_ref and luaL_unref     *)
(* keep every slot with one owner or in the free list.  The free list is   *)
(* described without walking it: no two free slots name the same next one  *)
(* and none names the head.                                                *)
(***************************************************************************)
EXTENDS Watchers, TLAPS

Owner == Watcher \cup {Queue}

Registries == [free : Nat, t : Seq(Nat \cup Owner)]

FreeSlots(R) == {s \in DOMAIN R.t : R.t[s] \in 0 .. Len(R.t)}

FreeList(R) ==
    /\ R.free \in {0} \cup FreeSlots(R)
    /\ \A s \in FreeSlots(R) : R.t[s] \in {0} \cup FreeSlots(R)
    /\ \A s \in FreeSlots(R) : R.t[s] # 0 => R.t[s] # R.free
    /\ \A r, s \in FreeSlots(R) : R.t[r] = R.t[s] /\ R.t[r] # 0 => r = s

\* o[x] is the reference that x keeps.
Owned(R, o) ==
    /\ o \in [Owner -> {LUA_NOREF} \cup DOMAIN R.t]
    /\ \A x \in Owner : o[x] # LUA_NOREF => R.t[o[x]] = x
    /\ \A s \in DOMAIN R.t : s \notin FreeSlots(R) => R.t[s] \in Owner /\ o[R.t[s]] = s

RegistryOk(R, o) == R \in Registries /\ FreeList(R) /\ Owned(R, o)

\* A slot with an owner's value is not free.
LEMMA OwnerIsNoNumber == \A x \in Owner : x \notin Nat
  BY WatcherAssumption DEF Owner

\* luaL_unref turns the slot of an owner into the head of the free list.
LEMMA UnrefOk ==
    ASSUME NEW R, NEW o, RegistryOk(R, o), NEW x \in Owner
    PROVE  RegistryOk(Unref(R, o[x]), [o EXCEPT ![x] = LUA_NOREF])
<1>1. /\ R \in Registries /\ R.free \in Nat /\ R.t \in Seq(Nat \cup Owner)
      /\ FreeList(R) /\ Owned(R, o) /\ o \in [Owner -> {LUA_NOREF} \cup DOMAIN R.t]
  BY DEF RegistryOk, Registries, Owned
<1>2. PICK n : n = Len(R.t) /\ n \in Nat /\ DOMAIN R.t = 1 .. n
  BY <1>1
<1>3. CASE o[x] = LUA_NOREF
  <2>1. Unref(R, o[x]) = R /\ [o EXCEPT ![x] = LUA_NOREF] = o
    BY <1>1, <1>3 DEF Unref, LUA_NOREF
  <2> QED
    BY <2>1
<1>4. CASE o[x] # LUA_NOREF
  <2>1. PICK s : s = o[x] /\ s \in 1 .. n
    BY <1>1, <1>2, <1>4
  <2>2. R.t[s] = x /\ R.t[s] \notin Nat
    BY <1>1, <1>4, <2>1, OwnerIsNoNumber DEF Owned
  <2>3. PICK t : t = [R.t EXCEPT ![s] = R.free]
    OBVIOUS
  <2>4. PICK Q : Q = [free |-> s, t |-> t]
    OBVIOUS
  <2>5. Unref(R, o[x]) = Q
    BY <1>2, <2>1, <2>3, <2>4 DEF Unref
  <2>6. /\ t \in Seq(Nat \cup Owner) /\ Len(t) = n /\ DOMAIN t = 1 .. n
        /\ t[s] = R.free /\ \A r \in 1 .. n : r # s => t[r] = R.t[r]
    BY <1>1, <1>2, <2>1, <2>3
  <2>7. Q \in Registries /\ Q.free = s /\ Q.t = t
    BY <2>1, <2>4, <2>6 DEF Registries
  <2>8. R.free \in 0 .. n
    BY <1>1, <1>2 DEF FreeList, FreeSlots
  <2>9. FreeSlots(Q) = FreeSlots(R) \cup {s} /\ s \notin FreeSlots(R)
    BY <1>2, <2>1, <2>2, <2>6, <2>7, <2>8 DEF FreeSlots
  <2>10. \A r \in FreeSlots(R) : r \in 1 .. n /\ r # s /\ t[r] = R.t[r]
    BY <1>2, <2>6, <2>9 DEF FreeSlots
  <2>11. FreeList(Q)
    BY <1>1, <2>1, <2>6, <2>7, <2>9, <2>10 DEF FreeList
  <2>12. PICK p : p = [o EXCEPT ![x] = LUA_NOREF]
    OBVIOUS
  <2>13. /\ p \in [Owner -> {LUA_NOREF} \cup DOMAIN t] /\ p[x] = LUA_NOREF
         /\ \A y \in Owner : y # x => p[y] = o[y]
    BY <1>1, <1>2, <2>6, <2>12
  <2>14. ASSUME NEW y \in Owner, p[y] # LUA_NOREF PROVE t[p[y]] = y
    <3>1. y # x /\ p[y] = o[y] /\ o[y] \in 1 .. n /\ R.t[o[y]] = y
      BY <1>1, <1>2, <2>13, <2>14 DEF Owned
    <3>2. o[y] # s
      BY <2>2, <3>1
    <3> QED
      BY <2>6, <3>1, <3>2
  <2>15. ASSUME NEW r \in 1 .. n, r \notin FreeSlots(Q) PROVE t[r] \in Owner /\ p[t[r]] = r
    <3>1. r # s /\ t[r] = R.t[r] /\ R.t[r] \in Owner /\ o[R.t[r]] = r
      BY <1>1, <1>2, <2>6, <2>9, <2>15 DEF Owned
    <3>2. R.t[r] # x
      BY <2>1, <3>1
    <3> QED
      BY <2>13, <3>1, <3>2
  <2>16. Owned(Q, p)
    BY <2>6, <2>7, <2>13, <2>14, <2>15 DEF Owned
  <2> QED
    BY <2>5, <2>7, <2>11, <2>12, <2>16 DEF RegistryOk
<1> QED
  BY <1>3, <1>4

\* luaL_ref takes the head of the free list, or a new slot.
LEMMA RefOk ==
    ASSUME NEW R, NEW o, RegistryOk(R, o), NEW x \in Owner, o[x] = LUA_NOREF
    PROVE  RegistryOk(Ref(R, x), [o EXCEPT ![x] = FreshRef(R)])
<1>1. /\ R \in Registries /\ R.free \in Nat /\ R.t \in Seq(Nat \cup Owner)
      /\ FreeList(R) /\ Owned(R, o) /\ o \in [Owner -> {LUA_NOREF} \cup DOMAIN R.t]
  BY DEF RegistryOk, Registries, Owned
<1>2. PICK n : n = Len(R.t) /\ n \in Nat /\ DOMAIN R.t = 1 .. n
  BY <1>1
<1>3. PICK p : p = [o EXCEPT ![x] = FreshRef(R)]
  OBVIOUS
<1>4. p[x] = FreshRef(R) /\ \A y \in Owner : y # x => p[y] = o[y]
  BY <1>1, <1>3
<1>5. x \notin Nat
  BY OwnerIsNoNumber
<1>6. \A y \in Owner : o[y] # LUA_NOREF =>
        o[y] \in 1 .. n /\ R.t[o[y]] = y /\ o[y] \notin FreeSlots(R)
  <2> SUFFICES ASSUME NEW y \in Owner, o[y] # LUA_NOREF
               PROVE  o[y] \in 1 .. n /\ R.t[o[y]] = y /\ o[y] \notin FreeSlots(R)
    OBVIOUS
  <2>1. o[y] \in 1 .. n /\ R.t[o[y]] = y
    BY <1>1, <1>2 DEF Owned
  <2> QED
    BY <1>2, <2>1, OwnerIsNoNumber DEF FreeSlots
<1>7. CASE R.free # 0
  <2>1. PICK h : h = R.free /\ h \in FreeSlots(R) /\ h \in 1 .. n
    BY <1>1, <1>2, <1>7 DEF FreeList, FreeSlots
  <2>2. PICK t : t = [R.t EXCEPT ![h] = x]
    OBVIOUS
  <2>3. PICK Q : Q = [free |-> R.t[h], t |-> t]
    OBVIOUS
  <2>4. Ref(R, x) = Q /\ p[x] = h
    BY <1>4, <1>7, <2>1, <2>2, <2>3 DEF Ref, FreshRef
  <2>5. /\ t \in Seq(Nat \cup Owner) /\ Len(t) = n /\ DOMAIN t = 1 .. n
        /\ t[h] = x /\ \A r \in 1 .. n : r # h => t[r] = R.t[r]
    BY <1>1, <1>2, <2>1, <2>2
  <2>6. R.t[h] \in 0 .. n
    BY <1>2, <2>1 DEF FreeSlots
  <2>7. Q \in Registries /\ Q.free = R.t[h] /\ Q.t = t
    BY <2>3, <2>5, <2>6 DEF Registries
  <2>8. FreeSlots(Q) = FreeSlots(R) \ {h}
    BY <1>2, <1>5, <2>1, <2>5, <2>7 DEF FreeSlots
  <2>9. \A r \in FreeSlots(Q) : r \in FreeSlots(R) /\ r \in 1 .. n /\ r # h /\ t[r] = R.t[r]
    BY <1>2, <2>5, <2>8 DEF FreeSlots
  <2>10. \A r \in FreeSlots(R) : R.t[r] \in {0} \cup FreeSlots(R) /\ R.t[r] # h
    BY <1>1, <1>7, <2>1 DEF FreeList
  <2>11. \A r \in FreeSlots(R) : R.t[r] \in {0} \cup FreeSlots(Q)
    BY <2>8, <2>10
  <2>12. \A r, s \in FreeSlots(R) : R.t[r] = R.t[s] /\ R.t[r] # 0 => r = s
    BY <1>1 DEF FreeList
  <2>13. FreeList(Q)
    BY <2>1, <2>7, <2>9, <2>11, <2>12 DEF FreeList
  <2>14. p \in [Owner -> {LUA_NOREF} \cup DOMAIN t]
    BY <1>1, <1>2, <1>3, <2>1, <2>4, <2>5
  <2>15. ASSUME NEW y \in Owner, p[y] # LUA_NOREF PROVE t[p[y]] = y
    <3>1. CASE y = x
      BY <2>4, <2>5, <3>1
    <3>2. CASE y # x
      <4>1. p[y] = o[y] /\ o[y] \in 1 .. n /\ R.t[o[y]] = y /\ o[y] # h
        BY <1>4, <1>6, <2>1, <2>15, <3>2
      <4> QED
        BY <2>5, <4>1
    <3> QED
      BY <3>1, <3>2
  <2>16. ASSUME NEW r \in 1 .. n, r \notin FreeSlots(Q) PROVE t[r] \in Owner /\ p[t[r]] = r
    <3>1. CASE r = h
      BY <2>4, <2>5, <3>1
    <3>2. CASE r # h
      <4>1. t[r] = R.t[r] /\ R.t[r] \in Owner /\ o[R.t[r]] = r
        BY <1>1, <1>2, <2>5, <2>8, <2>16, <3>2 DEF Owned
      <4>2. R.t[r] # x
        BY <4>1 DEF LUA_NOREF
      <4> QED
        BY <1>4, <4>1, <4>2
    <3> QED
      BY <3>1, <3>2
  <2>17. Owned(Q, p)
    BY <2>5, <2>7, <2>14, <2>15, <2>16 DEF Owned
  <2> QED
    BY <1>3, <2>4, <2>7, <2>13, <2>17 DEF RegistryOk
<1>8. CASE R.free = 0
  <2>1. PICK h : h = n + 1
    OBVIOUS
  <2>2. PICK t : t = Append(R.t, x)
    OBVIOUS
  <2>3. PICK Q : Q = [free |-> 0, t |-> t]
    OBVIOUS
  <2>4. Ref(R, x) = Q /\ p[x] = h
    <3>1. PICK u : u = R.t /\ R = [free |-> 0, t |-> u]
      BY <1>1, <1>8 DEF Registries
    <3>2. [R EXCEPT !.t = Append(R.t, x)] = [free |-> 0, t |-> Append(u, x)]
      BY <3>1
    <3> QED
      BY <1>2, <1>4, <1>8, <2>1, <2>2, <2>3, <3>1, <3>2 DEF Ref, FreshRef
  <2>5. /\ t \in Seq(Nat \cup Owner) /\ Len(t) = h /\ DOMAIN t = 1 .. h
        /\ t[h] = x /\ \A r \in 1 .. n : t[r] = R.t[r]
    BY <1>1, <1>2, <2>1, <2>2
  <2>7. Q \in Registries /\ Q.free = 0 /\ Q.t = t
    BY <2>3, <2>5 DEF Registries
  <2>8. \A r \in 1 .. n : R.t[r] \in Nat => R.t[r] \in 0 .. n
    BY <1>1, <1>2, OwnerIsNoNumber DEF Owned, FreeSlots
  <2>9. FreeSlots(Q) = FreeSlots(R)
    <3>1. ASSUME NEW r \in 1 .. n PROVE R.t[r] \in 0 .. h <=> R.t[r] \in 0 .. n
      BY <1>2, <2>1, <2>8
    <3>2. h \notin FreeSlots(Q)
      BY <1>5, <2>5, <2>7 DEF FreeSlots
    <3>3. \A r : r \in 1 .. h <=> r \in 1 .. n \/ r = h
      BY <1>2, <2>1
    <3>4. h \notin 1 .. n
      BY <1>2, <2>1
    <3> QED
      BY <1>2, <2>5, <2>7, <3>1, <3>2, <3>3, <3>4 DEF FreeSlots
  <2>10. \A r \in FreeSlots(R) : r \in 1 .. n /\ t[r] = R.t[r]
    BY <1>2, <2>5 DEF FreeSlots
  <2>13. FreeList(Q)
    BY <1>1, <1>8, <2>7, <2>9, <2>10 DEF FreeList
  <2>14. p \in [Owner -> {LUA_NOREF} \cup DOMAIN t]
    BY <1>1, <1>2, <1>3, <2>1, <2>4, <2>5
  <2>15. ASSUME NEW y \in Owner, p[y] # LUA_NOREF PROVE t[p[y]] = y
    BY <1>4, <1>6, <2>4, <2>5, <2>15
  <2>16. ASSUME NEW r \in 1 .. h, r \notin FreeSlots(Q) PROVE t[r] \in Owner /\ p[t[r]] = r
    <3>1. CASE r = h
      BY <2>4, <2>5, <3>1
    <3>2. CASE r # h
      <4>1. r \in 1 .. n
        BY <1>2, <2>1, <3>2
      <4>2. t[r] = R.t[r] /\ R.t[r] \in Owner /\ o[R.t[r]] = r
        BY <1>1, <1>2, <2>5, <2>9, <2>16, <4>1 DEF Owned
      <4>3. R.t[r] # x
        BY <4>1, <4>2 DEF LUA_NOREF
      <4> QED
        BY <1>4, <4>2, <4>3
    <3> QED
      BY <3>1, <3>2
  <2>17. Owned(Q, p)
    BY <2>5, <2>7, <2>14, <2>15, <2>16 DEF Owned
  <2> QED
    BY <1>3, <2>4, <2>7, <2>13, <2>17 DEF RegistryOk
<1> QED
  BY <1>7, <1>8

-----------------------------------------------------------------------------
(***************************************************************************)
(* The inductive invariant.                                                *)
(***************************************************************************)

\* The references that queue and watchers keep.
RefOf == [x \in Owner |-> IF x = Queue THEN queueRef ELSE cbRef[x]]

RefState == cbRef \in [Watcher -> Int] /\ RegistryOk(registry, RefOf)

\* The types of everything else, in parts that a step changes or leaves alone.
Phase == {"none", "new", "half", "ready", "closing", "closed", "lost"}

LoopTyped ==
    /\ loop \in {"none", "new", "failed", "open", "closed", "freed"}
    /\ stopFlag \in BOOLEAN
    /\ queued \subseteq Watcher

ObjTyped ==
    /\ obj \in [Watcher -> Phase]
    /\ kind \in [Watcher -> Kinds \cup {"none"}]
    /\ held \subseteq Watcher /\ active \subseteq Watcher /\ req \subseteq Watcher

RunTyped ==
    /\ pc \in {"script", "iterate", "endgame", "late"} /\ mode \in Modes \cup {"none"}
    /\ pc # "script" => mode \in Modes
    /\ fired \subseteq Watcher

VmTyped ==
    /\ vm \in {"none", "live", "dying", "gone"} /\ vmAsync \in Watcher \cup {Queue}
    /\ sender \in BOOLEAN

EndTyped ==
    /\ crash \in {"no", "uninitialised", "loop gone", "close on another thread",
                  "closed twice", "loop closed twice", "wrong object", "initialised twice"}
    /\ blame \subseteq {"loop dropped", "sender holds VM"}

Typed == LoopTyped /\ ObjTyped /\ RunTyped /\ VmTyped /\ EndTyped

\* What somebody holds has not been closed, and only what was initialised and not
\* closed is active.  A live VM keeps its watcher; a sender keeps the VM.
Holding ==
    /\ \A w \in held : obj[w] \in {"new", "half", "ready"}
    /\ \A w \in active : obj[w] = "ready"
    /\ vm \in {"live", "dying"} => vmAsync \in Watcher /\ obj[vmAsync] = "ready"
    /\ vm = "live" => vmAsync \in held
    /\ sender => vm \in {"live", "dying"}

\* What went wrong earlier, if it has left something behind.
History ==
    /\ loop \in {"none", "new"} => queueRef = LUA_NOREF
    /\ vm = "dying" => "sender holds VM" \in blame
    /\ loop = "freed" => \A w \in held : obj[w] \in {"half", "ready"} => "loop dropped" \in blame

Core == Typed /\ Holding /\ History /\ CrashesAreExcused

IInv == RefState /\ Core

-----------------------------------------------------------------------------
(* References *)

\* What the registry's state means for queue and watchers.
LEMMA RefFacts ==
    ASSUME RefState
    PROVE  /\ RefsHaveOneOwner
           /\ registry.free \in {0} \cup DOMAIN registry.t
           /\ queueRef \in {LUA_NOREF} \cup DOMAIN registry.t
           /\ cbRef \in [Watcher -> {LUA_NOREF} \cup DOMAIN registry.t]
           /\ \A w \in Watcher : cbRef[w] # LUA_NOREF => registry.t[cbRef[w]] = w
<1>1. /\ registry.t \in Seq(Nat \cup Owner) /\ registry.free \in {0} \cup FreeSlots(registry)
      /\ RefOf \in [Owner -> {LUA_NOREF} \cup DOMAIN registry.t]
      /\ \A x \in Owner : RefOf[x] # LUA_NOREF => registry.t[RefOf[x]] = x
      /\ \A s \in DOMAIN registry.t : s \notin FreeSlots(registry) =>
            registry.t[s] \in Owner /\ RefOf[registry.t[s]] = s
  BY DEF RefState, RegistryOk, Registries, FreeList, Owned
<1>2. /\ Queue \in Owner /\ RefOf[Queue] = queueRef
      /\ \A w \in Watcher : w \in Owner /\ w # Queue /\ RefOf[w] = cbRef[w]
      /\ \A x \in Owner : x = Queue \/ x \in Watcher
  BY WatcherAssumption DEF RefOf, Owner
<1>3. \A s \in DOMAIN registry.t : s \in Nat /\ s \in 1 .. Len(registry.t) /\ s # LUA_NOREF
  BY <1>1 DEF LUA_NOREF
<1>4. ASSUME NEW s \in DOMAIN registry.t, NEW x
      PROVE  x \in Owners(s) <=> x \in Owner /\ RefOf[x] = s
  BY <1>2 DEF Owners
<1>5. ASSUME NEW s \in DOMAIN registry.t, IsFree(s) PROVE Owners(s) = {}
  <2>1. ASSUME NEW x \in Owners(s) PROVE FALSE
    <3>1. x \in Owner /\ registry.t[s] = x
      BY <1>1, <1>3, <1>4, <2>1
    <3> QED
      BY <1>5, <3>1, OwnerIsNoNumber DEF IsFree
  <2> QED
    BY <2>1
<1>6. ASSUME NEW s \in DOMAIN registry.t, ~IsFree(s) PROVE Owners(s) = {registry.t[s]}
  <2>1. registry.t[s] \in Owner /\ RefOf[registry.t[s]] = s
    BY <1>1, <1>6 DEF FreeSlots, IsFree
  <2>2. ASSUME NEW x \in Owners(s) PROVE x = registry.t[s]
    BY <1>1, <1>3, <1>4, <2>2
  <2> QED
    BY <1>4, <2>1, <2>2
<1>7. RefsHaveOneOwner
  BY <1>5, <1>6 DEF RefsHaveOneOwner
<1>8. /\ registry.free \in {0} \cup DOMAIN registry.t
      /\ queueRef \in {LUA_NOREF} \cup DOMAIN registry.t
      /\ \A w \in Watcher : /\ cbRef[w] \in {LUA_NOREF} \cup DOMAIN registry.t
                            /\ cbRef[w] # LUA_NOREF => registry.t[cbRef[w]] = w
  BY <1>1, <1>2 DEF FreeSlots
<1>9. cbRef \in [Watcher -> {LUA_NOREF} \cup DOMAIN registry.t]
  BY <1>8 DEF RefState
<1> QED
  BY <1>7, <1>8, <1>9

\* How a step changes references: not at all, the queue gets or loses its one, a
\* watcher gets another callback or loses it.
DropCallback(w) ==
    /\ registry' = Unref(registry, cbRef[w])
    /\ cbRef' = [cbRef EXCEPT ![w] = LUA_NOREF]

RefEffect ==
    \/ UNCHANGED <<registry, queueRef, cbRef>>
    \/ /\ queueRef = LUA_NOREF /\ queueRef' = FreshRef(registry)
       /\ registry' = Ref(registry, Queue) /\ UNCHANGED cbRef
    \/ /\ queueRef' = LUA_NOREF /\ registry' = Unref(registry, queueRef) /\ UNCHANGED cbRef
    \/ \E w \in Watcher : (ReplaceCallback(w) \/ DropCallback(w)) /\ UNCHANGED queueRef

\* Every step changes references in one of these ways.
LEMMA RefKinds == History /\ [Next]_vars => RefEffect
<1> SUFFICES ASSUME History, [Next]_vars PROVE RefEffect
  OBVIOUS
<1> USE DEF loopVars, objVars, vars
<1>1. CASE UNCHANGED vars
  BY <1>1 DEF RefEffect
<1>2. ASSUME LoopInit PROVE RefEffect
  BY <1>2 DEF RefEffect, LoopInit, History
<1>3. ASSUME LoopGc PROVE RefEffect
  BY <1>3 DEF RefEffect, LoopGc
<1>4. ASSUME NEW w \in Watcher, AsyncInit(w) \/ TickStart(w) \/ PollStart(w) PROVE RefEffect
  BY <1>4 DEF RefEffect, AsyncInit, TickStart, PollStart
<1>5. ASSUME NEW w \in Watcher, TimerStart(w) \/ Stop(w) \/ HandleClose(w) PROVE RefEffect
  BY <1>5 DEF RefEffect, DropCallback, TimerStart, Stop, HandleClose
<1>6. ASSUME NEW w \in Watcher, NEW k, WatcherNew(w, k) PROVE RefEffect
  BY <1>6 DEF RefEffect, WatcherNew
<1>7. ASSUME NEW w \in Watcher,
             WatcherInit(w) \/ PollInitFails(w) \/ AsyncSend(w) \/ HandleMethod(w) \/ WatcherGc(w)
                \/ UseWithoutLoop(w) \/ UseUninitialised(w) \/ VmNew(w)
      PROVE  RefEffect
  BY <1>7 DEF RefEffect, WatcherInit, PollInitFails, AsyncSend, HandleMethod, WatcherGc,
        UseWithoutLoop, UseUninitialised, VmNew
<1>13. ASSUME NEW w \in Watcher, InitAgain(w) PROVE RefEffect
  BY <1>13 DEF RefEffect, InitAgain
<1>8. ASSUME NEW w \in Watcher, TimerFires(w) \/ TickFires(w) \/ RequestDone(w) \/ PollEnds(w)
      PROVE  RefEffect
  BY <1>8 DEF RefEffect, TimerFires, TickFires, RequestDone, PollEnds, Turn
<1>9. ASSUME LoopNew \/ LoopStop \/ LoopClose \/ Drain \/ VmGc PROVE RefEffect
  BY <1>9 DEF RefEffect, LoopNew, LoopStop, LoopClose, Drain, VmGc
<1>10. ASSUME NEW m, Run(m) PROVE RefEffect
  BY <1>10 DEF RefEffect, Run
<1>11. ASSUME IterationDone \/ EndgameDone \/ RunReturns PROVE RefEffect
  BY <1>11 DEF RefEffect, IterationDone, EndgameDone, RunReturns
<1>12. ASSUME SenderStep PROVE RefEffect
  BY <1>12 DEF RefEffect, SenderStep, SenderFetch, SenderWake, SenderDrop
<1> QED
  BY <1>1, <1>2, <1>3, <1>4, <1>5, <1>6, <1>7, <1>8, <1>9, <1>10, <1>11, <1>12, <1>13
     DEF Next, LoopStep, ScriptStep, Over

\* Every step keeps each slot with one owner or in the free list.
LEMMA RefStep == RefState /\ History /\ [Next]_vars => RefState'
<1> SUFFICES ASSUME RefState, History, [Next]_vars PROVE RefState'
  OBVIOUS
<1>1. /\ cbRef \in [Watcher -> Int] /\ RegistryOk(registry, RefOf)
      /\ Queue \in Owner /\ RefOf[Queue] = queueRef
      /\ \A w \in Watcher : w \in Owner /\ w # Queue /\ RefOf[w] = cbRef[w]
  BY WatcherAssumption DEF RefState, RefOf, Owner
<1>2. CASE UNCHANGED <<registry, queueRef, cbRef>>
  BY <1>1, <1>2 DEF RefState, RefOf
<1>3. ASSUME queueRef = LUA_NOREF, queueRef' = FreshRef(registry),
             registry' = Ref(registry, Queue), UNCHANGED cbRef
      PROVE  RefState'
  <2>1. RegistryOk(registry', [RefOf EXCEPT ![Queue] = FreshRef(registry)])
    BY <1>1, <1>3, RefOk
  <2>2. RefOf' = [RefOf EXCEPT ![Queue] = FreshRef(registry)]
    BY <1>1, <1>3 DEF RefOf
  <2> QED
    BY <1>1, <1>3, <2>1, <2>2 DEF RefState
<1>4. ASSUME queueRef' = LUA_NOREF, registry' = Unref(registry, queueRef), UNCHANGED cbRef
      PROVE  RefState'
  <2>1. RegistryOk(registry', [RefOf EXCEPT ![Queue] = LUA_NOREF])
    BY <1>1, <1>4, UnrefOk
  <2>2. RefOf' = [RefOf EXCEPT ![Queue] = LUA_NOREF]
    BY <1>1, <1>4 DEF RefOf
  <2> QED
    BY <1>1, <1>4, <2>1, <2>2 DEF RefState
<1>5. ASSUME NEW w \in Watcher, UNCHANGED queueRef, NEW n \in Int, cbRef' = [cbRef EXCEPT ![w] = n]
      PROVE  cbRef' \in [Watcher -> Int] /\ RefOf' = [RefOf EXCEPT ![w] = n]
  BY <1>1, <1>5 DEF RefOf
<1>6. ASSUME NEW w \in Watcher, DropCallback(w), UNCHANGED queueRef PROVE RefState'
  <2>1. RegistryOk(registry', [RefOf EXCEPT ![w] = LUA_NOREF])
    BY <1>1, <1>6, UnrefOk DEF DropCallback
  <2>2. LUA_NOREF \in Int
    BY DEF LUA_NOREF
  <2> QED
    BY <1>5, <1>6, <2>1, <2>2 DEF RefState, DropCallback
<1>7. ASSUME NEW w \in Watcher, ReplaceCallback(w), UNCHANGED queueRef PROVE RefState'
  <2>1. PICK R : R = Unref(registry, cbRef[w])
    OBVIOUS
  <2>2. PICK o : o = [RefOf EXCEPT ![w] = LUA_NOREF]
    OBVIOUS
  <2>3. RegistryOk(R, o)
    BY <1>1, <2>1, <2>2, UnrefOk
  <2>4. w \in Owner /\ o[w] = LUA_NOREF /\ [o EXCEPT ![w] = FreshRef(R)] = [RefOf EXCEPT ![w] = FreshRef(R)]
    BY <1>1, <2>2 DEF RefOf
  <2>5. RegistryOk(registry', [RefOf EXCEPT ![w] = FreshRef(R)])
    BY <1>7, <2>1, <2>3, <2>4, RefOk DEF ReplaceCallback
  <2>6. FreshRef(R) \in Int
    BY <2>3 DEF FreshRef, RegistryOk, Registries
  <2>7. cbRef' = [cbRef EXCEPT ![w] = FreshRef(R)]
    BY <1>7, <2>1 DEF ReplaceCallback
  <2> QED
    BY <1>5, <1>7, <2>5, <2>6, <2>7 DEF RefState
<1> QED
  BY <1>2, <1>3, <1>4, <1>6, <1>7, RefKinds DEF RefEffect

-----------------------------------------------------------------------------
(* Everything else *)

\* A fired callback is that of its own watcher.
LEMMA OwnCallback ==
    ASSUME RefState, NEW w \in Watcher, CommonHandleCb(w)
    PROVE  queued' \in {queued, queued \cup {w}}
  BY RefFacts DEF CommonHandleCb

\* The deleter of a handle that was not closed before.
LEMMA DeleterEffect ==
    ASSUME Typed, NEW w \in Watcher, NEW foreign \in BOOLEAN, obj[w] \in {"new", "half", "ready"},
           crash = "no", Deleter(w, foreign)
    PROVE  /\ active' = active \ {w}
           /\ obj' \in [Watcher -> Phase]
           /\ \A u \in Watcher : u # w => obj'[u] = obj[u]
           /\ crash' \in {"no", "uninitialised", "loop gone", "close on another thread"}
           /\ crash' = "loop gone" => obj[w] \in {"half", "ready"} /\ loop = "freed"
           /\ crash' = "close on another thread" => foreign
<1>1. active' = active \ {w}
  BY DEF Deleter
<1>2. \/ obj' = obj
      \/ \E end \in {"half", "closing", "lost"} : obj' = [obj EXCEPT ![w] = end]
  BY DEF Deleter
<1>3. /\ obj' \in [Watcher -> Phase]
      /\ \A u \in Watcher : u # w => obj'[u] = obj[u]
  BY <1>2 DEF Typed, ObjTyped, Phase
<1>4. /\ crash' \in {"no", "uninitialised", "loop gone", "close on another thread"}
      /\ crash' = "loop gone" => obj[w] \in {"half", "ready"} /\ loop = "freed"
      /\ crash' = "close on another thread" => foreign
  BY DEF Deleter
<1> QED
  BY <1>1, <1>3, <1>4

\* Every step keeps types, holders and the excuses for a crash.
LEMMA CoreStep == IInv /\ [Next]_vars => Core'
<1> SUFFICES ASSUME IInv, [Next]_vars PROVE Core'
  OBVIOUS
<1>0. RefState /\ Core
  BY DEF IInv
<1>t1. UNCHANGED <<loop, stopFlag, queued>> => LoopTyped'
  BY <1>0 DEF Core, Typed, LoopTyped
<1>t2. UNCHANGED <<obj, kind, held, active, req>> => ObjTyped'
  BY <1>0 DEF Core, Typed, ObjTyped
<1>t3. UNCHANGED <<pc, mode, fired>> => RunTyped'
  BY <1>0 DEF Core, Typed, RunTyped
<1>t4. UNCHANGED <<vm, vmAsync, sender>> => VmTyped'
  BY <1>0 DEF Core, Typed, VmTyped
<1>t5. UNCHANGED <<crash, blame>> => EndTyped'
  BY <1>0 DEF Core, Typed, EndTyped
<1>t6. UNCHANGED <<obj, held, active, vm, vmAsync, sender>> => Holding'
  BY <1>0 DEF Core, Holding
<1>t7. UNCHANGED <<loop, queueRef, obj, held, vm, blame>> => History'
  BY <1>0 DEF Core, History
<1>t8. UNCHANGED <<crash, blame>> => CrashesAreExcused'
  BY <1>0 DEF Core, CrashesAreExcused
<1> USE <1>0, <1>t1, <1>t2, <1>t3, <1>t4, <1>t5, <1>t6, <1>t7, <1>t8
    DEF Core, Typed, loopVars, objVars, runVars, vmVars
<1>1. CASE UNCHANGED vars
  BY <1>1 DEF vars
<1>2. ASSUME LoopNew, crash = "no" PROVE Core'
  BY <1>2 DEF LoopNew, LoopTyped, History
<1>3. ASSUME LoopInit, crash = "no" PROVE Core'
  BY <1>3 DEF LoopInit, LoopTyped, History
<1>4. ASSUME LoopStop, crash = "no" PROVE Core'
  BY <1>4 DEF LoopStop, LoopTyped
<1>5. ASSUME LoopClose, crash = "no" PROVE Core'
  BY <1>5 DEF LoopClose, LoopTyped, History
<1>6. ASSUME LoopGc, crash = "no" PROVE Core'
  BY <1>6 DEF LoopGc, LoopTyped, ObjTyped, EndTyped, History, CrashesAreExcused
<1>7. ASSUME Drain, crash = "no" PROVE Core'
  BY <1>7 DEF Drain, LoopTyped
<1>8. ASSUME VmGc, crash = "no" PROVE Core'
  BY <1>8 DEF VmGc, VmTyped, EndTyped, Holding, History, CrashesAreExcused
<1>9. ASSUME NEW m \in Modes, Run(m), crash = "no" PROVE Core'
  BY <1>9 DEF Run, LoopTyped, RunTyped
<1>10. ASSUME NEW w \in Watcher, NEW k \in Kinds, WatcherNew(w, k), crash = "no" PROVE Core'
  <2>1. /\ obj[w] = "none" /\ obj' = [obj EXCEPT ![w] = "new"] /\ kind' = [kind EXCEPT ![w] = k]
        /\ held' = held \cup {w} /\ k \in Kinds
        /\ UNCHANGED <<loopVars, active, req, runVars, vmVars, crash, blame>>
    BY <1>10 DEF WatcherNew
  <2>2. obj \in [Watcher -> Phase] /\ obj' \in [Watcher -> Phase] /\ ObjTyped'
    BY <2>1 DEF ObjTyped, Phase
  <2>3. obj'[w] = "new" /\ \A u \in Watcher : u # w => obj'[u] = obj[u]
    BY <2>1, <2>2
  <2>4. Holding' /\ History'
    BY <2>1, <2>3 DEF ObjTyped, Holding, History
  <2> QED
    BY <2>1, <2>2, <2>4
<1>11. ASSUME NEW w \in Watcher, WatcherInit(w), crash = "no" PROVE Core'
  <2>1. /\ obj[w] = "new" /\ obj' = [obj EXCEPT ![w] = "ready"]
        /\ UNCHANGED <<loopVars, kind, held, active, req, runVars, vmVars, crash, blame>>
        /\ loop = "open"
    BY <1>11 DEF WatcherInit
  <2>2. ObjTyped' /\ Holding'
    BY <2>1 DEF ObjTyped, Phase, Holding
  <2>3. History'
    BY <2>1 DEF History
  <2> QED
    BY <2>1, <2>2, <2>3
<1>12. ASSUME NEW w \in Watcher, AsyncInit(w), crash = "no" PROVE Core'
  BY <1>12 DEF AsyncInit, ReplaceCallback, ObjTyped, Phase, Holding, History
<1>13. ASSUME NEW w \in Watcher, TimerStart(w), crash = "no" PROVE Core'
  BY <1>13 DEF TimerStart, Usable, ObjTyped, Holding
<1>14. ASSUME NEW w \in Watcher, TickStart(w), crash = "no" PROVE Core'
  BY <1>14 DEF TickStart, Usable, ObjTyped, Holding
<1>15. ASSUME NEW w \in Watcher, PollStart(w), crash = "no" PROVE Core'
  BY <1>15 DEF PollStart, Usable, ObjTyped, Holding
<1>16. ASSUME NEW w \in Watcher, Stop(w), crash = "no" PROVE Core'
  BY <1>16 DEF Stop, Usable, ObjTyped, Holding
<1>17. ASSUME NEW w \in Watcher, AsyncSend(w), crash = "no" PROVE Core'
  BY <1>17 DEF AsyncSend, Usable, ObjTyped
<1>18. ASSUME NEW w \in Watcher, HandleMethod(w), crash = "no" PROVE Core'
  BY <1>18 DEF HandleMethod, EndTyped, CrashesAreExcused
<1>19. ASSUME NEW w \in Watcher, WatcherGc(w), crash = "no" PROVE Core'
  <2>1. /\ w \in held /\ held' = held \ {w} /\ ~(vm = "live" /\ vmAsync = w)
        /\ obj[w] \in {"new", "half", "ready"}
        /\ UNCHANGED <<loopVars, kind, req, runVars, vmVars, blame>>
    BY <1>19 DEF WatcherGc, Holding
  <2>2. CASE VmHolds(w)
    <3>1. UNCHANGED <<obj, active, crash>>
      BY <1>19, <2>2 DEF WatcherGc
    <3> QED
      BY <2>1, <3>1 DEF ObjTyped, Holding, History
  <2>3. CASE ~VmHolds(w)
    <3>1. Deleter(w, FALSE)
      BY <1>19, <2>3 DEF WatcherGc
    <3>2. /\ active' = active \ {w} /\ obj' \in [Watcher -> Phase]
          /\ \A u \in Watcher : u # w => obj'[u] = obj[u]
          /\ crash' \in {"no", "uninitialised", "loop gone", "close on another thread"}
          /\ crash' = "loop gone" => obj[w] \in {"half", "ready"} /\ loop = "freed"
          /\ crash' # "close on another thread"
      BY <1>19, <2>1, <3>1, DeleterEffect
    <3>3. ObjTyped' /\ EndTyped'
      BY <2>1, <3>2 DEF ObjTyped, EndTyped
    <3>4. Holding'
      BY <2>1, <2>3, <3>2 DEF VmHolds, ObjTyped, VmTyped, Holding
    <3>5. History' /\ CrashesAreExcused'
      BY <2>1, <3>2 DEF ObjTyped, History, CrashesAreExcused
    <3> QED
      BY <2>1, <3>3, <3>4, <3>5
  <2> QED
    BY <2>2, <2>3
<1>20. ASSUME NEW w \in Watcher, UseWithoutLoop(w), crash = "no" PROVE Core'
  BY <1>20 DEF UseWithoutLoop, EndTyped, Holding, History, CrashesAreExcused
<1>21. ASSUME NEW w \in Watcher, VmNew(w), crash = "no" PROVE Core'
  BY <1>21 DEF VmNew, Usable, VmTyped, Holding, History
<1>22. ASSUME SenderFetch, crash = "no" PROVE Core'
  BY <1>22 DEF SenderFetch, VmTyped, Holding
<1>23. ASSUME SenderWake, crash = "no" PROVE Core'
  BY <1>23 DEF SenderWake, ObjTyped, VmTyped, EndTyped, Holding, History, CrashesAreExcused
<1>24. ASSUME SenderDrop, crash = "no" PROVE Core'
  <2>1. /\ sender' = FALSE /\ vm' = (IF vm = "dying" THEN "gone" ELSE vm)
        /\ UNCHANGED <<loopVars, kind, held, req, runVars, vmAsync, blame>>
        /\ vm = "dying" => vmAsync \in Watcher /\ obj[vmAsync] = "ready" /\ "sender holds VM" \in blame
    BY <1>24 DEF SenderDrop, Holding, History
  <2>2. VmTyped'
    BY <2>1 DEF VmTyped
  <2>3. CASE ~(vm = "dying" /\ vmAsync \notin held)
    <3>1. UNCHANGED <<obj, active, crash>>
      BY <1>24, <2>3 DEF SenderDrop
    <3> QED
      BY <2>1, <2>2, <3>1 DEF Holding, History
  <2>4. CASE vm = "dying" /\ vmAsync \notin held
    <3>1. Deleter(vmAsync, TRUE)
      BY <1>24, <2>4 DEF SenderDrop
    <3>2. /\ active' = active \ {vmAsync} /\ obj' \in [Watcher -> Phase]
          /\ \A u \in Watcher : u # vmAsync => obj'[u] = obj[u]
          /\ crash' \in {"no", "uninitialised", "loop gone", "close on another thread"}
      BY <1>24, <2>1, <2>4, <3>1, DeleterEffect
    <3>3. ObjTyped' /\ EndTyped'
      BY <2>1, <3>2 DEF ObjTyped, EndTyped
    <3>4. Holding' /\ History' /\ CrashesAreExcused'
      BY <2>1, <2>4, <3>2 DEF ObjTyped, Holding, History, CrashesAreExcused
    <3> QED
      BY <2>1, <2>2, <3>3, <3>4
  <2> QED
    BY <2>3, <2>4
<1>25. ASSUME NEW w \in Watcher, TimerFires(w), crash = "no" PROVE Core'
  BY <1>25, OwnCallback DEF TimerFires, Turn, LoopTyped, ObjTyped, RunTyped, Holding
<1>26. ASSUME NEW w \in Watcher, TickFires(w), crash = "no" PROVE Core'
  BY <1>26, OwnCallback DEF TickFires, Turn, LoopTyped, RunTyped
<1>27. ASSUME NEW w \in Watcher, RequestDone(w), crash = "no" PROVE Core'
  BY <1>27, OwnCallback DEF RequestDone, Turn, LoopTyped, ObjTyped, RunTyped
<1>28. ASSUME NEW w \in Watcher, PollEnds(w), crash = "no" PROVE Core'
  BY <1>28, OwnCallback DEF PollEnds, Turn, LoopTyped, ObjTyped, RunTyped, Holding
<1>29. ASSUME NEW w \in Watcher, HandleClose(w), crash = "no" PROVE Core'
  <2>1. /\ obj[w] = "closing" /\ obj' = [obj EXCEPT ![w] = "closed"]
        /\ UNCHANGED <<loop, stopFlag, queueRef, queued, kind, held, active, req>>
        /\ UNCHANGED <<runVars, vmVars, crash, blame>>
    BY <1>29 DEF HandleClose, CanClose
  <2>2. obj \in [Watcher -> Phase] /\ obj' \in [Watcher -> Phase] /\ ObjTyped'
    BY <2>1 DEF ObjTyped, Phase
  <2>3. obj'[w] = "closed" /\ \A u \in Watcher : u # w => obj'[u] = obj[u]
    BY <2>1, <2>2
  <2>4. Holding' /\ History'
    BY <2>1, <2>3 DEF ObjTyped, Holding, History
  <2> QED
    BY <2>1, <2>2, <2>4
<1>30. ASSUME IterationDone, crash = "no" PROVE Core'
  BY <1>30 DEF IterationDone, RunTyped
<1>31. ASSUME EndgameDone, crash = "no" PROVE Core'
  <2>1. /\ pc # "script" /\ mode \in Modes
        /\ pc' = CASE mode = "once" -> "late"
                   [] mode = "default" -> IF Alive THEN "iterate" ELSE "script"
                   [] mode = "nowait" -> "script"
        /\ mode' = IF pc' = "script" THEN "none" ELSE mode
        /\ UNCHANGED <<loopVars, objVars, fired, vmVars, crash, blame>>
    BY <1>31 DEF EndgameDone, RunTyped
  <2>2. pc' \in {"script", "iterate", "late"}
    BY <2>1 DEF Modes
  <2>3. RunTyped'
    BY <2>1, <2>2 DEF RunTyped
  <2> QED
    BY <2>1, <2>3
<1>32. ASSUME RunReturns, crash = "no" PROVE Core'
  BY <1>32 DEF RunReturns, RunTyped
<1>33. ASSUME NEW w \in Watcher, PollInitFails(w), crash = "no" PROVE Core'
  BY <1>33 DEF PollInitFails, ObjTyped, Phase, Holding, History
<1>34. ASSUME NEW w \in Watcher, InitAgain(w), crash = "no" PROVE Core'
  BY <1>34 DEF InitAgain, EndTyped, CrashesAreExcused
<1>35. ASSUME NEW w \in Watcher, UseUninitialised(w), crash = "no" PROVE Core'
  BY <1>35 DEF UseUninitialised, EndTyped, CrashesAreExcused
<1> QED
  BY <1>1, <1>2, <1>3, <1>4, <1>5, <1>6, <1>7, <1>8, <1>9, <1>10, <1>11, <1>12, <1>13, <1>14, <1>15, <1>16, <1>17, <1>18, <1>19, <1>20, <1>21, <1>22, <1>23, <1>24, <1>25, <1>26, <1>27, <1>28, <1>29, <1>30, <1>31, <1>32, <1>33, <1>34, <1>35
     DEF Next, LoopStep, ScriptStep, SenderStep, Over

-----------------------------------------------------------------------------
(***************************************************************************)
(* Theorems.                                                               *)
(***************************************************************************)

\* In the beginning the registry is empty and nobody has a reference.
LEMMA InitInvariant == Init => IInv
<1> SUFFICES ASSUME Init PROVE IInv
  OBVIOUS
<1>1. registry.free = 0 /\ registry.t = <<>> /\ registry \in Registries
  BY DEF Init, Registries
<1>2. DOMAIN registry.t = {} /\ FreeSlots(registry) = {}
  BY <1>1 DEF FreeSlots
<1>3. \A x \in Owner : RefOf[x] = LUA_NOREF
  BY DEF Init, RefOf, Owner
<1>4. RefOf \in [Owner -> {LUA_NOREF} \cup DOMAIN registry.t]
  BY <1>3 DEF RefOf
<1>5. RegistryOk(registry, RefOf)
  BY <1>1, <1>2, <1>3, <1>4 DEF RegistryOk, FreeList, Owned
<1>6. cbRef \in [Watcher -> Int]
  BY DEF Init, LUA_NOREF
<1>7. Typed
  BY DEF Init, Typed, LoopTyped, ObjTyped, RunTyped, VmTyped, EndTyped, Phase
<1>8. Holding /\ History /\ CrashesAreExcused
  BY DEF Init, Holding, History, CrashesAreExcused
<1> QED
  BY <1>5, <1>6, <1>7, <1>8 DEF IInv, RefState, Core

\* Every step keeps the inductive invariant.
LEMMA NextInvariant == IInv /\ [Next]_vars => IInv'
  BY RefStep, CoreStep DEF IInv, Core

\* The inductive invariant holds in every reachable state, for any watchers.
THEOREM Invariance == Spec => []IInv
  BY InitInvariant, NextInvariant, PTL DEF Spec

\* References are -2 or slots of the registry; the rest of the state is well-typed.
THEOREM TypeCorrect == Spec => []TypeOK
<1>1. IInv => TypeOK
  BY RefFacts DEF IInv, Core, Typed, LoopTyped, ObjTyped, RunTyped, VmTyped, EndTyped, Phase, TypeOK
<1> QED
  BY <1>1, Invariance, PTL

\* start, stop, restart, collection and close callback neither leak a callback nor
\* give one back twice: each slot of the registry is free or has one owner.
THEOREM OneOwnerEach == Spec => []RefsHaveOneOwner
<1>1. IInv => RefsHaveOneOwner
  BY RefFacts DEF IInv
<1> QED
  BY <1>1, Invariance, PTL

\* No handle is closed twice; a deleted loop is touched, or a handle closed on a
\* foreign thread, only after the script dropped loop or VM too early.
THEOREM OnlyExcusedCrashes == Spec => []CrashesAreExcused
<1>1. IInv => CrashesAreExcused
  BY DEF IInv, Core
<1> QED
  BY <1>1, Invariance, PTL

\* common_handle_cb only ever queues the callback of the watcher that fired.
THEOREM OwnCallbacks == Spec => CallbacksComeFromTheirWatcher
<1> DEFINE Step == \A f \in queued' \ queued :
                      f \in active /\ obj[f] = "ready" /\ f \in fired' \ fired
<1>1. ASSUME IInv, [Next]_vars PROVE [Step]_vars
  <2>1. RefState /\ \A w \in active : w \in Watcher /\ obj[w] = "ready"
    BY <1>1 DEF IInv, Core, Holding, Typed, ObjTyped
  <2>2. ASSUME NEW w \in Watcher, w \in active, Turn(w), CommonHandleCb(w) PROVE Step
    <3>1. queued' \in {queued, queued \cup {w}}
      BY <2>1, <2>2, OwnCallback
    <3>2. w \in fired' \ fired
      BY <2>2 DEF Turn
    <3> QED
      BY <2>1, <2>2, <3>1, <3>2
  <2>3. ASSUME queued' \subseteq queued PROVE Step
    BY <2>3
  <2>4. ASSUME NEW w \in Watcher, TimerFires(w) \/ TickFires(w) PROVE Step
    BY <2>2, <2>4 DEF TimerFires, TickFires
  <2>5. ASSUME NEW w \in Watcher, RequestDone(w) \/ PollEnds(w) PROVE Step
    BY <2>2, <2>3, <2>5 DEF RequestDone, PollEnds
  <2>6. ASSUME Drain PROVE Step
    BY <2>3, <2>6 DEF Drain
  <2>7. ASSUME NEW w \in Watcher,
               WatcherInit(w) \/ PollInitFails(w) \/ AsyncInit(w) \/ InitAgain(w)
                  \/ TimerStart(w) \/ TickStart(w) \/ PollStart(w) \/ Stop(w) \/ AsyncSend(w)
                  \/ HandleMethod(w) \/ WatcherGc(w) \/ UseWithoutLoop(w) \/ UseUninitialised(w)
                  \/ VmNew(w) \/ HandleClose(w)
        PROVE  queued' \subseteq queued
    BY <2>7 DEF WatcherInit, PollInitFails, AsyncInit, InitAgain, TimerStart, TickStart, PollStart,
          Stop, AsyncSend, HandleMethod, WatcherGc, UseWithoutLoop, UseUninitialised, VmNew, HandleClose, loopVars
  <2>8. ASSUME NEW w \in Watcher, NEW k \in Kinds, WatcherNew(w, k) PROVE queued' \subseteq queued
    BY <2>8 DEF WatcherNew, loopVars
  <2>9. ASSUME LoopNew \/ LoopInit \/ LoopStop \/ LoopClose \/ LoopGc \/ VmGc \/ SenderStep
        PROVE  queued' \subseteq queued
    BY <2>9 DEF LoopNew, LoopInit, LoopStop, LoopClose, LoopGc, VmGc, SenderStep, SenderFetch,
          SenderWake, SenderDrop, loopVars
  <2>10. ASSUME NEW m \in Modes, Run(m) PROVE queued' \subseteq queued
    BY <2>10 DEF Run
  <2>11. ASSUME IterationDone \/ EndgameDone \/ RunReturns PROVE queued' \subseteq queued
    BY <2>11 DEF IterationDone, EndgameDone, RunReturns, loopVars
  <2>12. CASE UNCHANGED vars
    BY <2>12
  <2>13. Next => Step \/ UNCHANGED vars
    BY <2>3, <2>4, <2>5, <2>6, <2>7, <2>8, <2>9, <2>10, <2>11
       DEF Next, LoopStep, ScriptStep, Over
  <2> QED
    BY <1>1, <2>12, <2>13
<1> QED
  BY <1>1, Invariance, PTL DEF Spec, CallbacksComeFromTheirWatcher
=============================================================================
